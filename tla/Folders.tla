------------------------------- MODULE Folders ------------------------------
(***************************************************************************)
(* Cycles over a mailbox tree that changes: the server's mailboxes, the    *)
(* maildirs with their sentinels, mailbox_map and both cursors.  A user    *)
(* moves, makes and removes maildirs and mail, another client does the     *)
(* same on the server, and a cycle may die between any two of its writes.  *)
(* What a cycle decides is in Resolution and Reconcile; here is when it    *)
(* looks and in which order it acts.  A message phase of the executor is   *)
(* one step: SyncCycle looks inside those.                                 *)
(*                                                                         *)
(* The definitions named ..._Mistake are not part of the model: each is a  *)
(* bug this code could have had, and the property it would break is listed *)
(* with it in PROJECT.json.                                                *)
(***************************************************************************)
EXTENDS Resolution

CONSTANTS
    Names,          \* names the server's other client gives mailboxes
    Reuse,          \* may a name go to another mailbox or maildir before a cycle
    Setups          \* the accounts, and what may happen to each: a record of
                    \*   tree, mail     at the start: id -> [name, parent], emails and files
                    \*   folders        the folders the user handles
                    \*   deletes        allow_destructive_folder_sync, as a set
                    \*   user, server   the operations of the user and of the other client
                    \*   acts, crashes  bounds on those operations, on cycles that die

\* Folders of one or two names: the bound on the depth of the tree.
Paths == {<<n>> : n \in Names} \cup (Names \X Names)
Trees == UNION {[D -> [name : Names, parent : Box \cup {NoBox}]] : D \in SUBSET Box}

ASSUME PathsAssumption == Folder \subseteq Paths
ASSUME SetupsAssumption ==
    /\ Reuse \in BOOLEAN
    /\ \A s \in Setups :
          /\ s.tree \in Trees
          /\ s.mail \in Seq([box : DOMAIN s.tree, mid : Mid])
          /\ Len(s.mail) <= MaxFile /\ Len(s.mail) <= MaxEmail
          /\ s.folders \subseteq Folder
          /\ s.acts \in Nat /\ s.crashes \in Nat

VARIABLES
    tree, boxes,        \* mailboxes; the highest id given out
    emails, nextEmail,  \* emails[e] = [box, mid], NoBox when e does not exist
    dirs,               \* maildirs: folder -> sentinel
    disk, nextFile,     \* disk[f] = [at, mid], Nowhere when f does not exist
    cache, rows, ls,    \* mailbox_map, message_map, local_state
    mcur,               \* the Mailbox cursor: "none", "stale" or "fresh"
    ecur, unseen,       \* is there an Email cursor; what changed since it
    pc, cyc, plan,      \* the cycle: phase, what it resolved, what it will do
    reply,              \* a call the server has answered and nothing recorded
    mlater, later, mine, broken, held, failed,
    setup,              \* the one of Setups this account has
    acts, crashes,
    mail, gone, forfeit \* mids so far; those somebody removed; removed folders' mailboxes

serverVars == <<tree, boxes, emails, nextEmail>>
diskVars == <<dirs, disk, nextFile>>
cursorVars == <<mcur, ecur, unseen>>
dbVars == <<cache, rows, ls, cursorVars>>
sinceVars == <<mlater, later, mine, broken>>
cycleVars == <<pc, cyc, plan, reply, sinceVars, held, failed>>
ghostVars == <<setup, acts, crashes, mail, gone, forfeit>>
fvars == <<serverVars, diskVars, dbVars, cycleVars, ghostVars>>

NoFileHere == [at |-> Nowhere, mid |-> AnyMid]
NoMail == [box |-> NoBox, mid |-> AnyMid]
Unmarked == [id |-> NoBox, name |-> "", parent |-> NoBox]
Rescued == <<".jma.rescue">>
NoReply == [kind |-> "none"]

Alive(e) == emails[e].box # NoBox
MailIn(b) == {e \in Email : emails[e].box = b}
FilesAt(f) == {x \in File : disk[x].at = f}
Children(t, b) == {c \in DOMAIN t : t[c].parent = b}
Siblings(t, parent, name) == {c \in DOMAIN t : t[c].parent = parent /\ t[c].name = name}
FolderDeletable == "delete-local" \in setup.deletes
MailboxDeletable == "delete-remote" \in setup.deletes

\* The locks of the maildir tree and of the state database are held by nobody,
\* by a cycle, or by a command of Janitor.
Unlocked == pc = "idle"
Cycling == pc \notin {"idle", "rebind", "prune", "dedupe"}

EmptyObs == [news |-> {}, flagged |-> {}, dels |-> {}, seen |-> {}, index |-> {},
             remote |-> {}, destroyed |-> {}, initial |-> FALSE, policy |-> Policy]
None == [in |-> [server |-> <<>>, cached |-> <<>>, sids |-> <<>>, dirs |-> <<>>],
         folder |-> <<>>, obs |-> EmptyObs, orphans |-> {}, rorph |-> {}, strays |-> {},
         mk |-> {}, replaced |-> {}, mv |-> {}, moved |-> {}, create |-> {}, reup |-> {},
         push |-> {}, pend |-> {}, rmdir |-> {}, kill |-> {}, refs |-> <<>>]
Live == DOMAIN cyc.folder

-----------------------------------------------------------------------------
(* The directory tree.                                                     *)

Subtree(f) == {g \in DOMAIN dirs : g = f \/ (Layout = "fs" /\ IsPrefix(f, g))}
Rebased(f, g, h) == g \o SubSeq(h, Len(f) + 1, Len(h))
ParentThere(g) ==
    Layout = "fs" /\ Nested(g) => \E h \in DOMAIN dirs : IsPrefix(ParentFolder(g), h)
CanRename(f, g) ==
    /\ f \in DOMAIN dirs /\ Subtree(g) = {}
    /\ ~IsPrefix(f, g) /\ ParentThere(g)
    /\ \A h \in Subtree(f) : Rebased(f, g, h) \in Folder
RenameTree(f, g) ==
    LET under == Subtree(f)
        new == {Rebased(f, g, h) : h \in under}
    IN /\ dirs' = [h \in (DOMAIN dirs \ under) \cup new |->
                      IF h \in new THEN dirs[CHOOSE x \in under : Rebased(f, g, x) = h]
                      ELSE dirs[h]]
       /\ disk' = [x \in File |-> IF disk[x].at \in under
                                  THEN [disk[x] EXCEPT !.at = Rebased(f, g, @)] ELSE disk[x]]
RemoveTree(under) ==
    /\ dirs' = Restrict(dirs, DOMAIN dirs \ under)
    /\ disk' = [x \in File |-> IF disk[x].at \in under THEN NoFileHere ELSE disk[x]]

\* What TLC's @@ and :> do: f over g, and g with v at k.
Over(f, g) == [x \in DOMAIN f \cup DOMAIN g |-> IF x \in DOMAIN f THEN f[x] ELSE g[x]]
With(g, k, v) == [x \in DOMAIN g \cup {k} |-> IF x = k THEN v ELSE g[x]]

\* ensure_maildir and sentinel::write.
Ensured(ds, folders) == Over(ds, [f \in folders |-> Unmarked])
Marked(ds, f, sentinel) == With(ds, f, sentinel)

\* delete_messages_by_mailbox; no row is of NoBox.
RowsWithout_Mistake(bs) ==
    [e \in Email |-> IF rows[e].box \in bs THEN [rows[e] EXCEPT !.box = NoBox] ELSE rows[e]]
RowsWithout(bs) == [e \in Email |-> IF rows[e].box \in bs THEN NoRow ELSE rows[e]]

-----------------------------------------------------------------------------
(* What changes on the server after the cycle looked.                      *)

\* A structural change: the Mailbox cursor, if there is one, is behind.
Structural ==
    /\ mcur' = IF mcur = "fresh" THEN "stale" ELSE mcur
    /\ mlater' = Cycling
\* Emails changed by others, by the cycle's own calls.
Foreign(es) ==
    /\ unseen' = IF ecur THEN unseen \cup es ELSE {}
    /\ later' = IF ~Cycling \/ pc \in {"scan", "fetch"} THEN {} ELSE later \cup es
Own(es) ==
    /\ unseen' = IF ecur THEN unseen \cup es ELSE {}
    /\ mine' = mine \cup es
    /\ broken' = (broken \/ later # {} \/ es = {})

-----------------------------------------------------------------------------
(* The user, at the maildirs.                                              *)

Act == acts < setup.acts /\ acts' = acts + 1
Fresh(m) == m \in Mid \ mail /\ \A x \in Mid \ mail : m <= x

\* What a folder's name stands for somewhere.  Two mailboxes can meet at one
\* folder only when a name is given twice, or when a cycle takes the unbound
\* ancestor of a new maildir for a new one (Reuse).
Claimants(f) ==
    {b \in DOMAIN tree : Path(tree, b) = f} \cup CachedAt([cached |-> cache], f)
    \cup {dirs[g].id : g \in DOMAIN dirs \cap {f}} \cup {b \in Live : cyc.folder[b] = f}
    \cup {d.b : d \in {x \in cyc.orphans \cup cyc.rmdir : x.folder = f}}
Free(f, b) ==
    \/ Reuse
    \/ /\ Claimants(f) \subseteq {b, NoBox}
       /\ f \notin cyc.strays \cup {a.folder : a \in cyc.create}
       /\ Nested(f) /\ Cycling => \E c \in Live : cyc.folder[c] = ParentFolder(f)

\* Mailboxes whose maildirs, at these folders, only their sentinels told apart
\* from removed ones once they are elsewhere.
Untraced(folders) ==
    {b \in DOMAIN cache : cache[b].folder \in folders /\ dirs[cache[b].folder].id = NoBox}

Mv(f, g) ==
    /\ "mv" \in setup.user /\ Act
    /\ CanRename(f, g)
    /\ \A h \in Subtree(f) : h = f \/ dirs[h].id = NoBox => Free(Rebased(f, g, h), dirs[h].id)
    /\ RenameTree(f, g)
    /\ forfeit' = forfeit \cup Untraced(Subtree(f))
    /\ UNCHANGED <<serverVars, nextFile, dbVars, cycleVars, setup, crashes, mail, gone>>

Mkdir(f) ==
    /\ "mkdir" \in setup.user /\ Act
    /\ f \notin DOMAIN dirs /\ Free(f, NoBox)
    /\ ParentThere(f)
    /\ dirs' = Ensured(dirs, {f})
    /\ UNCHANGED <<serverVars, disk, nextFile, dbVars, cycleVars, setup, crashes, mail, gone,
                   forfeit>>

\* rm -r: the user gives up what is nowhere else, and the mailboxes too where
\* a removed folder may take its mailbox along.
Rm(f) ==
    /\ "rm" \in setup.user /\ Act
    /\ f \in DOMAIN dirs
    /\ RemoveTree(Subtree(f))
    /\ LET mids == {disk[x].mid : x \in UNION {FilesAt(g) : g \in Subtree(f)}}
           onlyHere == mids \ {emails[e].mid : e \in {x \in Email : Alive(x)}}
       IN gone' = gone \cup (IF MailboxDeletable THEN mids ELSE onlyHere)
    /\ forfeit' = forfeit \cup {dirs[g].id : g \in Subtree(f)} \cup Untraced(Subtree(f))
    /\ UNCHANGED <<serverVars, nextFile, dbVars, cycleVars, setup, crashes, mail>>

Save(f, m) ==
    /\ "mail" \in setup.user /\ Act
    /\ f \in DOMAIN dirs /\ Fresh(m) /\ nextFile \in File
    /\ disk' = [disk EXCEPT ![nextFile] = [at |-> f, mid |-> m]]
    /\ nextFile' = nextFile + 1
    /\ mail' = mail \cup {m}
    /\ UNCHANGED <<serverVars, dirs, dbVars, cycleVars, setup, crashes, gone, forfeit>>

MvMail(x, g) ==
    /\ "mvmail" \in setup.user /\ Act
    /\ disk[x].at \in DOMAIN dirs \ {g} /\ g \in DOMAIN dirs
    /\ disk' = [disk EXCEPT ![x].at = g]
    /\ UNCHANGED <<serverVars, dirs, nextFile, dbVars, cycleVars, setup, crashes, mail, gone,
                   forfeit>>

\* Between cycles, a maildir is put back from a backup without sentinels.
Unmark(f) ==
    /\ "unmark" \in setup.user /\ Unlocked /\ Act
    /\ f \in DOMAIN dirs /\ dirs[f] # Unmarked
    /\ dirs' = Marked(dirs, f, Unmarked)
    /\ LET b == dirs[f].id
       IN forfeit' = IF b \in DOMAIN cache /\ cache[b].folder = f THEN forfeit
                     ELSE forfeit \cup {b}
    /\ UNCHANGED <<serverVars, disk, nextFile, dbVars, cycleVars, setup, crashes, mail, gone>>

\* The state database is lost; the maildirs and their sentinels are not.
LoseDb ==
    /\ "dbloss" \in setup.user /\ Unlocked /\ Act
    /\ cache' = <<>>
    /\ rows' = [e \in Email |-> NoRow]
    /\ ls' = [x \in File |-> Nowhere]
    /\ mcur' = "none" /\ ecur' = FALSE /\ unseen' = {}
    /\ UNCHANGED <<serverVars, diskVars, cycleVars, setup, crashes, mail, gone, forfeit>>

UserStep ==
    \/ \E f, g \in setup.folders : Mv(f, g)
    \/ \E f \in setup.folders : Mkdir(f) \/ Rm(f) \/ Unmark(f) \/ \E m \in Mid : Save(f, m)
    \/ \E x \in File, g \in setup.folders : MvMail(x, g)
    \/ LoseDb

-----------------------------------------------------------------------------
(* The server, on behalf of another client.                                *)

OtherCreate(name, parent) ==
    /\ "create" \in setup.server /\ Act
    /\ boxes + 1 \in Box
    /\ parent # NoBox => tree[parent].parent = NoBox
    /\ Siblings(tree, parent, name) = {}
    /\ LET t == With(tree, boxes + 1, [name |-> name, parent |-> parent])
       IN /\ Path(t, boxes + 1) \in Folder /\ Free(Path(t, boxes + 1), boxes + 1)
          /\ tree' = t
    /\ boxes' = boxes + 1
    /\ Structural
    /\ UNCHANGED <<emails, nextEmail, diskVars, cache, rows, ls, ecur, unseen, pc, cyc, plan,
                   reply, later, mine, broken, held, failed, setup, crashes, mail, gone, forfeit>>

OtherRename(b, name, parent) ==
    /\ "rename" \in setup.server /\ Act
    /\ tree[b] # [name |-> name, parent |-> parent]
    /\ Siblings(tree, parent, name) = {} /\ parent # b
    /\ parent # NoBox => tree[parent].parent = NoBox
    /\ LET t == [tree EXCEPT ![b] = [name |-> name, parent |-> parent]]
       IN /\ \A c \in Children(t, b) : parent = NoBox
          /\ \A c \in Children(t, b) \cup {b} : Path(t, c) \in Folder /\ Free(Path(t, c), c)
          /\ tree' = t
    /\ Structural
    /\ UNCHANGED <<boxes, emails, nextEmail, diskVars, cache, rows, ls, ecur, unseen, pc, cyc,
                   plan, reply, later, mine, broken, held, failed, setup, crashes, mail, gone,
                   forfeit>>

\* With its mail, which is given up unless it is mapped to a file in the maildir
\* of the mailbox and the policy keeps that one: a cycle at work may have seen
\* the mailbox before and miss the mail afterwards.
OtherDestroy(b) ==
    /\ "destroy" \in setup.server /\ Act
    /\ Children(tree, b) = {}
    /\ tree' = Restrict(tree, DOMAIN tree \ {b})
    /\ emails' = [e \in Email |-> IF e \in MailIn(b) THEN NoMail ELSE emails[e]]
    /\ Structural
    /\ Foreign(MailIn(b))
    /\ LET kept(e) == /\ rows[e].box = b
                      /\ disk[rows[e].file].at \in DOMAIN dirs
                      /\ dirs[disk[rows[e].file].at].id = b
           here == {emails[e].mid : e \in {x \in MailIn(b) : kept(x)}}
           mids == {emails[e].mid : e \in MailIn(b)}
       IN gone' = gone \cup (IF FolderDeletable \/ Cycling THEN mids
                             ELSE mids \ here)
    /\ UNCHANGED <<boxes, nextEmail, diskVars, cache, rows, ls, ecur, pc, cyc, plan, reply, mine,
                   broken, held, failed, setup, crashes, mail, forfeit>>

Deliver(b, m) ==
    /\ "deliver" \in setup.server /\ Act
    /\ Fresh(m) /\ nextEmail \in Email
    /\ emails' = [emails EXCEPT ![nextEmail] = [box |-> b, mid |-> m]]
    /\ nextEmail' = nextEmail + 1
    /\ Foreign({nextEmail})
    /\ mail' = mail \cup {m}
    /\ UNCHANGED <<tree, boxes, diskVars, cache, rows, ls, mcur, ecur, pc, cyc, plan, reply,
                   mlater, mine, broken, held, failed, setup, crashes, gone, forfeit>>

\* Another client, or a file that was uploaded twice: the same mail again.
OtherCopy(e) ==
    /\ "copy" \in setup.server /\ Act
    /\ Alive(e) /\ nextEmail \in Email
    /\ emails' = [emails EXCEPT ![nextEmail] = emails[e]]
    /\ nextEmail' = nextEmail + 1
    /\ Foreign({nextEmail})
    /\ UNCHANGED <<tree, boxes, diskVars, cache, rows, ls, mcur, ecur, pc, cyc, plan, reply,
                   mlater, mine, broken, held, failed, setup, crashes, mail, gone, forfeit>>

OtherMove(e, b) ==
    /\ "move" \in setup.server /\ Act
    /\ Alive(e) /\ emails[e].box # b
    /\ emails' = [emails EXCEPT ![e].box = b]
    /\ Foreign({e})
    /\ UNCHANGED <<tree, boxes, nextEmail, diskVars, cache, rows, ls, mcur, ecur, pc, cyc, plan,
                   reply, mlater, mine, broken, held, failed, setup, crashes, mail, gone,
                   forfeit>>

OtherExpunge(e) ==
    /\ "expunge" \in setup.server /\ Act
    /\ Alive(e)
    /\ emails' = [emails EXCEPT ![e] = NoMail]
    /\ gone' = gone \cup {emails[e].mid}
    /\ Foreign({e})
    /\ UNCHANGED <<tree, boxes, nextEmail, diskVars, cache, rows, ls, mcur, ecur, pc, cyc, plan,
                   reply, mlater, mine, broken, held, failed, setup, crashes, mail, forfeit>>

ServerStep ==
    \/ \E n \in Names, p \in DOMAIN tree \cup {NoBox} : OtherCreate(n, p)
    \/ \E b \in DOMAIN tree :
          \/ \E n \in Names, p \in DOMAIN tree \cup {NoBox} : OtherRename(b, n, p)
          \/ OtherDestroy(b)
          \/ \E m \in Mid : Deliver(b, m)
          \/ \E e \in Email : OtherMove(e, b)
    \/ \E e \in Email : OtherCopy(e) \/ OtherExpunge(e)

-----------------------------------------------------------------------------
(* The cycle: what it looks at.                                            *)

Idle ==
    /\ pc' = "idle" /\ cyc' = None /\ plan' = EmptyPlan /\ reply' = NoReply
    /\ mlater' = FALSE /\ later' = {} /\ mine' = {} /\ broken' = FALSE
    /\ held' = FALSE /\ failed' = {}

\* fetch_or_reuse_mailboxes: with a cursor the structure has not moved past,
\* the rows of mailbox_map stand in for the listing.
Listing == IF mcur = "fresh" THEN Synthesized(cache) ELSE tree

\* walk_sentinels keeps one folder for each id, the last that it meets.
SentinelIds == {dirs[f].id : f \in DOMAIN dirs} \ {NoBox}
SentinelWalks ==
    {w \in [SentinelIds -> DOMAIN dirs] : \A b \in SentinelIds : dirs[w[b]].id = b}

\* resolve_mailboxes: all reads, then the decisions.
Resolve ==
    /\ Unlocked
    /\ Resolvable(Listing)
    /\ \E sids \in SentinelWalks :
          LET in == [server |-> Listing, cached |-> cache, sids |-> sids, dirs |-> dirs]
              live == SelectedIn(Listing)
          IN cyc' = [None EXCEPT
                !.in = in,
                !.folder = [b \in live |-> WalkFolder(in, b)],
                !.mk = NewMailboxes(in, live),
                !.mv = PullRenames(in, live),
                !.push = PushRenames(in, live),
                !.pend = PendingWrites(in, live),
                !.orphans = {OrphanRecord(d, FilesAt(d.folder)) : d \in LocalOrphans(in)}]
    /\ pc' = "scan"
    /\ mlater' = FALSE
    /\ UNCHANGED <<serverVars, diskVars, dbVars, plan, reply, later, mine, broken, held, failed,
                   ghostVars>>

\* A binding whose maildir is gone, and that is not about to get one; without a
\* sentinel in the walk it was not moved either.
RemoteOrphans_Mistake == {b \in Live : cyc.folder[b] \notin DOMAIN dirs /\ b \notin cyc.mk}
RemoteOrphans ==
    {b \in Live : cyc.folder[b] \notin DOMAIN dirs /\ b \notin cyc.mk
                    /\ b \notin DOMAIN cyc.in.sids}

\* discover_unbound_folders: maildirs without a sentinel that no binding covers.
Strays == {f \in DOMAIN dirs : dirs[f].id = NoBox /\ \A b \in Live : cyc.folder[b] # f}

\* The full scan: live bindings, the folders of orphans that may be deleted,
\* and maildirs no binding covers.
Scan ==
    /\ pc = "scan"
    /\ LET orphans == IF FolderDeletable THEN cyc.orphans ELSE {}
           places == {[b |-> b, at |-> cyc.folder[b]] : b \in Live} \cup
                     {[b |-> d.b, at |-> d.folder] : d \in orphans}
           walked == {p \in places : p.at \in DOMAIN dirs}
           found == {[f |-> x[2], box |-> x[1].b, mid |-> disk[x[2]].mid, fl |-> {}] :
                        x \in {y \in walked \X File : disk[y[2]].at = y[1].at}}
           vanished == {[f |-> x[2], box |-> x[1].b] :
                        x \in {y \in walked \X File :
                                 ls[y[2]] = y[1].at /\ disk[y[2]].at # y[1].at}}
       IN cyc' = [cyc EXCEPT
            !.obs = [EmptyObs EXCEPT
                !.news = {n \in found : \A p \in walked : p.b = n.box => ls[n.f] # p.at},
                !.dels = vanished,
                !.seen = {[f |-> n.f, fl |-> {}] : n \in found},
                !.index = IF \A e \in Email : ~HasRow(rows, e)
                          THEN {[f |-> n.f, box |-> n.box, mid |-> n.mid] :
                                    n \in {x \in found : x.box \in Live}}
                          ELSE {}],
            !.rorph = RemoteOrphans,
            !.strays = Strays]
    /\ pc' = "fetch"
    /\ UNCHANGED <<serverVars, diskVars, dbVars, plan, reply, sinceVars, held, failed, ghostVars>>

\* build_known_indices: the rows of live mailboxes.
Known == [e \in Email |-> IF rows[e].box \in Live THEN rows[e] ELSE NoRow]

RemoteEmails(es) ==
    {[e |-> e, box |-> IF emails[e].box \in Live THEN emails[e].box ELSE Unsynced,
      mid |-> emails[e].mid, kw |-> {}] : e \in {x \in es : Alive(x)}}

\* resurrect_remote_orphans_for_server_wins gives a mailbox with news from the
\* server its maildir back.
Hoisted(fetched) ==
    IF MailboxDeletable /\ Policy = "ServerWins"
    THEN {b \in cyc.rorph : \E r \in fetched : r.box = b} ELSE {}

\* fetch_remote_state and reconcile, with the finalizers for orphans.
Fetch ==
    /\ pc = "fetch"
    /\ LET fetched == IF ecur THEN RemoteEmails(unseen)
                      ELSE RemoteEmails(UNION {MailIn(b) : b \in Live})
           hoisted == Hoisted(fetched)
           remote == fetched \cup RemoteEmails(UNION {MailIn(b) : b \in hoisted})
           o == [cyc.obs EXCEPT
                    !.remote = remote,
                    !.destroyed = IF ecur THEN {e \in unseen : ~Alive(e)} ELSE {},
                    !.initial = ~ecur]
           kill == IF MailboxDeletable THEN cyc.rorph \ hoisted ELSE {}
       IN \E byMid \in NewsByMid(o) :
            LET p == PlanOf(o, Known, byMid)
                blocked == IF FolderDeletable THEN BlockedOrphans(p, cyc.orphans) ELSE {}
                resurrected == IF FolderDeletable THEN Resurrected(blocked) ELSE cyc.orphans
            IN /\ plan' = [DropBlockers(p, blocked) EXCEPT
                    !.lmove =
                        {[f |-> m.f, e |-> m.e, from |-> cyc.folder[m.from], to |-> m.to] : m \in @}
                        \cup UNION {CounterMoveLocals(p, Known, d) : d \in CounterMoved(blocked)},
                    !.rmove = @ \cup UNION {CounterMoveRemotes(o, Known, b) : b \in kill}]
               /\ cyc' = [cyc EXCEPT
                    !.obs = EmptyObs, !.rorph = {}, !.strays = {},
                    !.mk = @ \cup hoisted, !.replaced = hoisted, !.kill = kill,
                    !.rmdir = {[b |-> d.b, folder |-> d.folder] :
                                d \in IF FolderDeletable THEN cyc.orphans \ resurrected ELSE {}},
                    !.orphans = {},
                    !.create = {ResurrectCreate(d) : d \in resurrected} \cup
                               CreateRemotes(cyc.strays, cyc.folder),
                    !.reup = UNION {ResurrectUploads(d, d.files) : d \in resurrected}]
    /\ pc' = "writes"
    /\ UNCHANGED <<serverVars, diskVars, dbVars, reply, sinceVars, held, failed, ghostVars>>

-----------------------------------------------------------------------------
(* The cycle: what it does, phase by phase.                                *)

Phases == <<"mklocal", "mvlocal", "adopt", "download", "lmove", "ldelete", "rmlocal",
            "mkremote", "mvremote", "upload", "set", "killremote", "pair", "cursor">>
HasWork(phase, c, p) ==
    CASE phase = "mklocal" -> c.mk # {}
      [] phase = "mvlocal" -> c.mv # {}
      [] phase = "adopt" -> p.adoptR \cup p.adoptL # {}
      [] phase = "download" -> p.down # {}
      [] phase = "lmove" -> p.lmove # {}
      [] phase = "ldelete" -> p.ldel # {}
      [] phase = "rmlocal" -> c.rmdir # {}
      [] phase = "mkremote" -> c.create # {}
      [] phase = "mvremote" -> c.push # {}
      [] phase = "upload" -> p.up # {} \/ c.reup # {}
      [] phase = "set" -> p.rmove # {} \/ p.rdel # {}
      [] phase = "killremote" -> c.kill # {}
      [] phase = "pair" -> p.pair # {}
      [] phase = "cursor" -> TRUE
\* The first phase from the i-th on that has something to do.
PhaseFrom(i, c, p) ==
    LET todo == {j \in DOMAIN Phases : j >= i /\ HasWork(Phases[j], c, p)}
    IN Phases[CHOOSE j \in todo : \A k \in todo : j <= k]
Stay(phase) == CHOOSE i \in DOMAIN Phases : Phases[i] = phase
Continue(phase) == pc' = PhaseFrom(Stay(phase), cyc', plan')

Shallowest(work) == {w \in work : \A v \in work : Len(w.to) <= Len(v.to)}

\* How a run of writes ends: all of them done, or with a fault that is logged
\* before the phase goes on, or with the cycle, when the process dies.
Outcomes == {"done", "logged", "died"}
Ends(phase, outcome, next) ==
    /\ IF outcome = "done" THEN UNCHANGED crashes
       ELSE crashes < setup.crashes /\ crashes' = crashes + 1
    /\ IF outcome = "died" THEN Idle
       ELSE /\ cyc' = next /\ reply' = NoReply
            /\ UNCHANGED <<plan, sinceVars, held, failed>>
            /\ Continue(phase)

\* apply_unconditional_mailbox_writes.
ApplyUnconditional ==
    /\ pc = "writes"
    /\ LET kept == Restrict(cache, DOMAIN cache \ CacheOrphans(cyc.in))
       IN cache' = Over([b \in MetadataWrites(cyc.in, Live) |-> Record(cyc.in, b)], kept)
    /\ pc' = PhaseFrom(1, cyc, plan)
    /\ UNCHANGED <<serverVars, diskVars, rows, ls, cursorVars, cyc, plan, reply, sinceVars, held,
                   failed, ghostVars>>

\* create_local_mailboxes: the rows a resurrected mailbox had go first, then there
\* is a maildir, then its sentinel.  A fault loses any of these.
CreateLocal(b) ==
    /\ pc = "mklocal" /\ b \in cyc.mk
    /\ \E done \in SUBSET {"rows", "maildir", "sentinel"}, outcome \in Outcomes :
        LET folder == cyc.folder[b]
            parent == IF b \in cyc.replaced THEN cyc.in.cached[b].parent ELSE cyc.in.server[b].parent
        IN /\ (outcome = "done") = (done = {"rows", "maildir", "sentinel"})
           /\ "sentinel" \in done => "maildir" \in done
           /\ rows' = IF "rows" \in done THEN RowsWithout({b} \cap cyc.replaced) ELSE rows
           /\ dirs' = IF "sentinel" \in done
                      THEN Marked(dirs, folder, [Sentinel(cyc.in, b) EXCEPT !.parent = parent])
                      ELSE IF "maildir" \in done THEN Ensured(dirs, {folder}) ELSE dirs
           /\ Ends("mklocal", outcome, [cyc EXCEPT !.mk = @ \ {b}, !.replaced = @ \ {b}])
    /\ UNCHANGED <<serverVars, disk, nextFile, cache, ls, cursorVars, setup, acts, mail, gone, forfeit>>

\* rename_local_state_folder.
StatesMoved(w) == [x \in File |-> IF ls[x] = w.db THEN w.to ELSE ls[x]]

\* rename_local_mailboxes, shallowest first.  The renamed directory is on disk
\* before its local_state rows and its sentinel follow.
RenameLocal(w) ==
    /\ pc = "mvlocal" /\ cyc.moved = {} /\ w \in Shallowest(cyc.mv)
    /\ IF CanRename(w.from, w.to) THEN RenameTree(w.from, w.to) ELSE UNCHANGED <<dirs, disk>>
    /\ cyc' = IF CanRename(w.from, w.to) \/ (w.from \notin DOMAIN dirs /\ w.to \in DOMAIN dirs)
              THEN [cyc EXCEPT !.moved = {w}]
              ELSE [cyc EXCEPT !.mv = @ \ {w}]
    /\ UNCHANGED <<serverVars, nextFile, dbVars, plan, reply, sinceVars, held, failed, ghostVars>>
    /\ IF cyc'.moved = {} THEN Continue("mvlocal") ELSE UNCHANGED pc

\* Across filesystems, say: logged, and the cycle goes on with the maildir where
\* it was.
RenameRefused(w) ==
    /\ "mount" \in setup.user
    /\ pc = "mvlocal" /\ cyc.moved = {} /\ w \in Shallowest(cyc.mv)
    /\ CanRename(w.from, w.to)
    /\ Ends("mvlocal", "logged", [cyc EXCEPT !.mv = @ \ {w}])
    /\ UNCHANGED <<serverVars, diskVars, dbVars, setup, acts, mail, gone, forfeit>>

FollowRename ==
    /\ pc = "mvlocal"
    /\ \E w \in cyc.moved, done \in {{}, {"state"}, {"state", "sentinel"}}, outcome \in Outcomes :
        /\ (outcome = "done") = ("sentinel" \in done)
        /\ ls' = IF "state" \in done THEN StatesMoved(w) ELSE ls
        /\ dirs' = IF "sentinel" \in done /\ w.to \in DOMAIN dirs
                   THEN Marked(dirs, w.to, Sentinel(cyc.in, w.b)) ELSE dirs
        /\ Ends("mvlocal", outcome, [cyc EXCEPT !.mv = @ \ {w}, !.moved = {}])
    /\ UNCHANGED <<serverVars, disk, nextFile, cache, rows, cursorVars, setup, acts, mail, gone, forfeit>>

\* adopt_messages and apply_move_pair_adopts.
UniqueFiles(R) == \A d, e \in Email : HasRow(R, d) /\ R[d].file = R[e].file => d = e
Adopted(R, A) ==
    [e \in Email |->
        IF \E a \in A : a.e = e
        THEN LET a == CHOOSE a \in A : a.e = e /\ \A x \in A : x.e = e => x.f <= a.f
             IN [box |-> a.box, mid |-> a.mid, file |-> a.f, flags |-> {}, blob |-> a.blob]
        ELSE IF \E a \in A : a.oldE = e THEN NoRow ELSE R[e]]
AdoptedStates(A) ==
    [x \in File |-> IF \E a \in A : a.f = x
                    THEN cyc.folder[(CHOOSE a \in A : a.f = x).box]
                    ELSE IF \E a \in A : a.oldF = x THEN Nowhere ELSE ls[x]]

AdoptMessages ==
    /\ pc = "adopt"
    /\ LET R == Adopted(Adopted(rows, plan.adoptR), plan.adoptL)
       IN UniqueFiles(R) /\ rows' = R
    /\ ls' = AdoptedStates(plan.adoptR \cup plan.adoptL)
    /\ plan' = [plan EXCEPT !.adoptR = {}, !.adoptL = {}]
    /\ UNCHANGED cyc
    /\ UNCHANGED <<serverVars, diskVars, cache, cursorVars, reply, sinceVars, held, failed,
                   ghostVars>>
    /\ Continue("adopt")

\* The UNIQUE index on message_map.maildir_id refuses a second row of a file.
AdoptRefused ==
    /\ pc = "adopt"
    /\ ~UniqueFiles(Adopted(Adopted(rows, plan.adoptR), plan.adoptL))
    /\ Idle
    /\ UNCHANGED <<serverVars, diskVars, dbVars, ghostVars>>

\* download_messages makes the maildir if it is not there: see Downloads.  The
\* bounds on ids are faults here: a full disk, a server over its quota.
Downloadable ==
    /\ \A d \in plan.down : Alive(d.e)
    /\ nextFile + Cardinality(plan.down) <= MaxFile + 1
DownloadMessages ==
    /\ pc = "download" /\ Downloadable
    /\ LET number(d) == nextFile + Cardinality({x \in plan.down : x.e < d.e})
           of(x) == {d \in plan.down : number(d) = x}
       IN /\ dirs' = Ensured(dirs, {cyc.folder[d.box] : d \in plan.down})
          /\ disk' = [x \in File |-> IF of(x) = {} THEN disk[x]
                        ELSE LET d == CHOOSE d \in of(x) : TRUE
                             IN [at |-> cyc.folder[d.box], mid |-> d.mid]]
          /\ rows' = [e \in Email |-> IF \A d \in plan.down : d.e # e THEN rows[e]
                        ELSE LET d == CHOOSE d \in plan.down : d.e = e
                             IN [box |-> d.box, mid |-> d.mid, file |-> number(d),
                                 flags |-> {}, blob |-> TRUE]]
          /\ ls' = [x \in File |-> IF of(x) = {} THEN ls[x]
                      ELSE cyc.folder[(CHOOSE d \in of(x) : TRUE).box]]
    /\ nextFile' = nextFile + Cardinality(plan.down)
    /\ plan' = [plan EXCEPT !.down = {}]
    /\ UNCHANGED cyc
    /\ UNCHANGED <<serverVars, cache, cursorVars, reply, sinceVars, held, failed, ghostVars>>
    /\ Continue("download")

\* The blob of an email that is gone, or a disk that is full: the phase fails,
\* and the cycle with it.
DownloadFails ==
    /\ pc = "download" /\ ~Downloadable
    /\ dirs' = Ensured(dirs, {cyc.folder[d.box] : d \in plan.down})
    /\ Idle
    /\ UNCHANGED <<serverVars, disk, nextFile, dbVars, ghostVars>>

\* move_local_messages makes both maildirs; a move that fails holds the cursor.
MoveLocals ==
    /\ pc = "lmove"
    /\ LET landed == {m \in plan.lmove : disk[m.f].at = m.from}
           of(x) == {m \in landed : m.f = x}
           to(m) == cyc.folder[m.to]
       IN /\ dirs' = Ensured(dirs, UNION {{m.from, to(m)} : m \in plan.lmove})
          /\ disk' = [x \in File |-> IF of(x) = {} THEN disk[x]
                        ELSE [disk[x] EXCEPT !.at = to(CHOOSE m \in of(x) : TRUE)]]
          /\ rows' = [e \in Email |-> IF HasRow(rows, e) /\ \E m \in landed : m.e = e
                        THEN [rows[e] EXCEPT !.box = (CHOOSE m \in landed : m.e = e).to]
                        ELSE rows[e]]
          /\ ls' = [x \in File |-> IF of(x) = {} THEN ls[x]
                      ELSE to(CHOOSE m \in of(x) : TRUE)]
          /\ held' = (landed # plan.lmove)
    /\ plan' = [plan EXCEPT !.lmove = {}]
    /\ UNCHANGED cyc
    /\ UNCHANGED <<serverVars, nextFile, cache, cursorVars, reply, sinceVars, failed, ghostVars>>
    /\ Continue("lmove")

\* delete_local_messages: a file that is not there is no error.
DeleteLocals ==
    /\ pc = "ldelete"
    /\ disk' = [x \in File |->
          IF \E d \in plan.ldel : d.f = x /\ disk[x].at = cyc.folder[d.box]
          THEN NoFileHere ELSE disk[x]]
    /\ rows' = [e \in Email |-> IF \E d \in plan.ldel : d.e = e THEN NoRow ELSE rows[e]]
    /\ ls' = [x \in File |-> IF \E d \in plan.ldel : d.f = x THEN Nowhere ELSE ls[x]]
    /\ plan' = [plan EXCEPT !.ldel = {}]
    /\ UNCHANGED cyc
    /\ UNCHANGED <<serverVars, dirs, nextFile, cache, cursorVars, reply, sinceVars, held, failed,
                   ghostVars>>
    /\ Continue("ldelete")

\* remove_maildir_tree: a folder with a maildir below it is left alone; files
\* without a row of the mailbox, of any mailbox when it is NoBox, are rescued.
HoldsMaildirs(f) == ~(Subtree(f) \subseteq {f})
Unmapped_Mistake(b, files) ==
    {x \in files : ls[x] # Nowhere /\ \A e \in Email : ~(rows[e].box = b /\ rows[e].file = x)}
Unmapped(b, files) == files \ {rows[e].file : e \in {x \in Email : rows[x].box = b}}
RemoveMaildirTree(b, folder) ==
    LET under == Subtree(folder)
        rescued == Unmapped(b, FilesAt(folder))
    IN /\ dirs' = Restrict(dirs, DOMAIN dirs \ under)
       /\ disk' = [x \in File |->
             IF x \in rescued THEN [disk[x] EXCEPT !.at = Rescued]
             ELSE IF disk[x].at \in under THEN NoFileHere ELSE disk[x]]
       /\ rows' = RowsWithout({b})
       /\ ls' = [x \in File |-> IF ls[x] = folder THEN Nowhere ELSE ls[x]]

\* Cut short, before the rescue is over or before the tree is gone; what a sync
\* can log is not the failure of the rows' own transaction.
RemovalCutShort(b, folder, outcome) ==
    LET strays == Unmapped(b, FilesAt(folder))
    IN \E rescued \in SUBSET strays, removed \in SUBSET (FilesAt(folder) \ strays),
          remains \in {"maildir", "no sentinel", "nothing"} :
        /\ folder \in DOMAIN dirs
        /\ rescued # strays => removed = {} /\ remains = "maildir"
        /\ remains = "nothing" => outcome = "died" /\ removed = FilesAt(folder) \ strays
        /\ dirs' = IF remains = "nothing" THEN Restrict(dirs, DOMAIN dirs \ {folder})
                   ELSE IF remains = "no sentinel" THEN Marked(dirs, folder, Unmarked) ELSE dirs
        /\ disk' = [x \in File |-> IF x \in rescued THEN [disk[x] EXCEPT !.at = Rescued]
                                   ELSE IF x \in removed THEN NoFileHere ELSE disk[x]]
        /\ UNCHANGED <<rows, ls>>

DeleteLocalFolder(w) ==
    /\ pc = "rmlocal" /\ w \in cyc.rmdir
    /\ \E outcome \in Outcomes :
        /\ \/ HoldsMaildirs(w.folder) /\ outcome = "done" /\ UNCHANGED <<dirs, disk, rows, ls>>
           \/ ~HoldsMaildirs(w.folder) /\ outcome = "done" /\ RemoveMaildirTree(w.b, w.folder)
           \/ ~HoldsMaildirs(w.folder) /\ outcome # "done" /\ RemovalCutShort(w.b, w.folder, outcome)
        /\ Ends("rmlocal", outcome, [cyc EXCEPT !.rmdir = @ \ {w}])
    /\ UNCHANGED <<serverVars, nextFile, cache, cursorVars, setup, acts, mail, gone, forfeit>>

\* create_remote_mailboxes: resurrections come first in the plan where folders
\* are never deleted, last where they are; new folders parents first.
Rank(a) == IF a.replaces = NoBox THEN Len(a.folder) ELSE IF FolderDeletable THEN 9 ELSE 0
NextCreates == {a \in cyc.create : \A b \in cyc.create : Rank(a) <= Rank(b)}
ParentKnown(a) == a.parent.ref # Nowhere => a.parent.ref \in DOMAIN cyc.refs
ParentOf(a) == IF a.parent.ref # Nowhere THEN cyc.refs[a.parent.ref] ELSE a.parent.value
Acceptable(a) ==
    /\ boxes + 1 \in Box
    /\ ParentOf(a) \in DOMAIN tree \cup {NoBox}
    /\ Siblings(tree, ParentOf(a), a.name) = {}

CreateRemote(a) ==
    /\ pc = "mkremote" /\ reply = NoReply /\ a \in NextCreates
    /\ ParentKnown(a)
    /\ rows' = RowsWithout({a.replaces})
    /\ UNCHANGED plan
    /\ IF Acceptable(a)
       THEN /\ tree' = With(tree, boxes + 1, [name |-> a.name, parent |-> ParentOf(a)])
            /\ boxes' = boxes + 1
            /\ Structural
            /\ reply' = [kind |-> "created", a |-> a, b |-> boxes + 1, parent |-> ParentOf(a)]
            /\ UNCHANGED <<cyc, pc>>
       ELSE /\ cyc' = [cyc EXCEPT !.create = @ \ {a}]
            /\ Continue("mkremote")
            /\ UNCHANGED <<tree, boxes, mcur, mlater, reply>>
    /\ UNCHANGED <<emails, nextEmail, diskVars, cache, ls, ecur, unseen, later, mine, broken,
                   held, failed, ghostVars>>

SkipCreate(a) ==
    /\ pc = "mkremote" /\ reply = NoReply /\ a \in NextCreates
    /\ ~ParentKnown(a)
    /\ cyc' = [cyc EXCEPT !.create = @ \ {a}]
    /\ UNCHANGED plan
    /\ UNCHANGED <<serverVars, diskVars, dbVars, reply, sinceVars, held, failed, ghostVars>>
    /\ Continue("mkremote")

\* The new id goes into the sentinel, not into mailbox_map.
LandCreate ==
    /\ reply.kind = "created"
    /\ dirs' = Marked(dirs, reply.a.folder,
                      [id |-> reply.b, name |-> reply.a.name, parent |-> reply.parent])
    /\ cyc' = [cyc EXCEPT !.create = @ \ {reply.a},
                          !.refs = With(@, reply.a.folder, reply.b)]
    /\ reply' = NoReply
    /\ UNCHANGED plan
    /\ UNCHANGED <<serverVars, disk, nextFile, dbVars, sinceVars, held, failed, ghostVars>>
    /\ Continue("mkremote")

\* rename_remote_mailboxes: mailbox_map, local_state and the sentinel follow
\* once the server has accepted the rename; a fault loses any but the first alone.
RenameAcceptable(w) ==
    /\ w.b \in DOMAIN tree
    /\ w.parent \in DOMAIN tree \cup {NoBox} /\ w.parent # w.b
    /\ Siblings(tree, w.parent, w.name) \subseteq {w.b}
    /\ w.parent # NoBox => tree[w.parent].parent # w.b
RenameRemote(w) ==
    /\ pc = "mvremote" /\ reply = NoReply /\ w \in Shallowest(cyc.push)
    /\ UNCHANGED plan
    /\ IF RenameAcceptable(w)
       THEN /\ tree' = [tree EXCEPT ![w.b] = [name |-> w.name, parent |-> w.parent]]
            /\ Structural
            /\ reply' = [kind |-> "renamed", w |-> w]
            /\ UNCHANGED <<cyc, pc>>
       ELSE /\ cyc' = [cyc EXCEPT !.push = @ \ {w}]
            /\ Continue("mvremote")
            /\ UNCHANGED <<tree, mcur, mlater, reply>>
    /\ UNCHANGED <<boxes, emails, nextEmail, diskVars, cache, rows, ls, ecur, unseen, later, mine,
                   broken, held, failed, ghostVars>>

LandRename ==
    /\ reply.kind = "renamed"
    /\ \E done \in {{}, {"map"}, {"map", "state"}, {"map", "sentinel"}, {"map", "state", "sentinel"}},
          outcome \in Outcomes :
        LET w == reply.w
        IN /\ (outcome = "done") = (done = {"map", "state", "sentinel"})
           /\ cache' = IF "map" \in done
                       THEN [cache EXCEPT ![w.b] = [name |-> w.name, parent |-> w.parent, folder |-> w.to]]
                       ELSE cache
           /\ ls' = IF "state" \in done THEN StatesMoved(w) ELSE ls
           /\ dirs' = IF "sentinel" \in done /\ w.to \in DOMAIN dirs
                      THEN Marked(dirs, w.to, [id |-> w.b, name |-> w.name, parent |-> w.parent])
                      ELSE dirs
           /\ Ends("mvremote", outcome, [cyc EXCEPT !.push = @ \ {w}])
    /\ UNCHANGED <<serverVars, disk, nextFile, rows, cursorVars, setup, acts, mail, gone, forfeit>>

\* resolve_upload_references drops the uploads of a mailbox that was not
\* created; upload_one skips a file that is gone and an import that is refused.
PendingUploads ==
    {[f |-> u.f, at |-> cyc.folder[u.box], box |-> u.box] :
        u \in {x \in plan.up : x.box \in Live}} \cup
    {[f |-> u.f, at |-> u.folder, box |-> cyc.refs[u.folder]] :
        u \in {x \in cyc.reup : x.folder \in DOMAIN cyc.refs}}
Uploadable(u) == disk[u.f].at = u.at /\ u.box \in DOMAIN tree /\ nextEmail \in Email

UploadRows(u) ==
    [rows EXCEPT ![nextEmail] =
        [box |-> u.box, mid |-> disk[u.f].mid, file |-> u.f, flags |-> {}, blob |-> FALSE]]
Import(u) ==
    /\ pc = "upload" /\ u \in PendingUploads
    /\ Uploadable(u)
    /\ nextEmail' = nextEmail + 1
    /\ emails' = [emails EXCEPT ![nextEmail] = [box |-> u.box, mid |-> disk[u.f].mid]]

UploadOne(u) ==
    /\ Import(u)
    /\ Own({nextEmail})
    /\ UniqueFiles(UploadRows(u))
    /\ rows' = UploadRows(u)
    /\ ls' = [ls EXCEPT ![u.f] = u.at]
    /\ plan' = [plan EXCEPT !.up = {x \in @ : x.f # u.f}]
    /\ cyc' = [cyc EXCEPT !.reup = {x \in @ : x.f # u.f}]
    /\ UNCHANGED <<tree, boxes, diskVars, cache, mcur, ecur, reply, mlater, later, held, failed,
                   ghostVars>>
    /\ Continue("upload")

\* A file that still has a row: its import is on the server, the commit fails,
\* and the cycle with it.
UploadRefused(u) ==
    /\ Import(u)
    /\ ~UniqueFiles(UploadRows(u))
    /\ unseen' = IF ecur THEN unseen \cup {nextEmail} ELSE {}
    /\ Idle
    /\ UNCHANGED <<tree, boxes, diskVars, cache, rows, ls, mcur, ecur, ghostVars>>

UploadsOver ==
    /\ pc = "upload"
    /\ \A u \in PendingUploads : ~Uploadable(u)
    /\ plan' = [plan EXCEPT !.up = {}]
    /\ cyc' = [cyc EXCEPT !.reup = {}]
    /\ UNCHANGED <<serverVars, diskVars, dbVars, reply, sinceVars, held, failed, ghostVars>>
    /\ Continue("upload")

\* Email/set: moves and destroys; what the server refuses is left as it was.
RemoteSet ==
    /\ pc = "set"
    /\ LET moved == {m \in plan.rmove : Alive(m.e) /\ m.to \in DOMAIN tree /\ m.e \notin plan.rdel}
           destroyed == {e \in plan.rdel : Alive(e)}
       IN /\ emails' = [e \in Email |->
                IF e \in destroyed THEN NoMail
                ELSE IF \E m \in moved : m.e = e
                     THEN [emails[e] EXCEPT !.box = (CHOOSE m \in moved : m.e = e).to]
                ELSE emails[e]]
          /\ Own(destroyed \cup {m.e : m \in moved})
          /\ rows' = [e \in Email |-> IF e \in destroyed THEN NoRow ELSE rows[e]]
          /\ ls' = [x \in File |-> IF \E e \in destroyed : rows[e].file = x THEN Nowhere ELSE ls[x]]
          /\ failed' = {m.e : m \in plan.rmove} \ {m.e : m \in moved}
    /\ plan' = [plan EXCEPT !.rmove = {}, !.rdel = {}]
    /\ UNCHANGED cyc
    /\ UNCHANGED <<tree, boxes, nextEmail, diskVars, cache, mcur, ecur, reply, mlater, later, held,
                   ghostVars>>
    /\ Continue("set")

\* destroy_remote_mailboxes with onDestroyRemoveEmails: refused for a mailbox
\* with children; its mailbox_map row is dropped afterwards.
DestroyMailbox(b) ==
    /\ pc = "killremote" /\ reply = NoReply /\ b \in cyc.kill
    /\ UNCHANGED plan
    /\ IF b \in DOMAIN tree /\ Children(tree, b) = {}
       THEN /\ tree' = Restrict(tree, DOMAIN tree \ {b})
            /\ emails' = [e \in Email |-> IF e \in MailIn(b) THEN NoMail ELSE emails[e]]
            /\ Structural
            /\ Foreign(MailIn(b))
            /\ reply' = [kind |-> "destroyed", b |-> b]
            /\ gone' = IF b \in forfeit THEN gone \cup {emails[e].mid : e \in MailIn(b)} ELSE gone
            /\ UNCHANGED <<cyc, pc>>
       ELSE /\ cyc' = [cyc EXCEPT !.kill = @ \ {b}]
            /\ Continue("killremote")
            /\ UNCHANGED <<tree, emails, mcur, mlater, unseen, later, reply, gone>>
    /\ UNCHANGED <<boxes, nextEmail, diskVars, cache, rows, ls, ecur, mine, broken, held, failed,
                   setup, acts, crashes, mail, forfeit>>

LandDestroy ==
    /\ reply.kind = "destroyed"
    /\ cache' = Restrict(cache, DOMAIN cache \ {reply.b})
    /\ cyc' = [cyc EXCEPT !.kill = @ \ {reply.b}]
    /\ reply' = NoReply
    /\ UNCHANGED plan
    /\ UNCHANGED <<serverVars, diskVars, rows, ls, cursorVars, sinceVars, held, failed, ghostVars>>
    /\ Continue("killremote")

LandedPairs == {a \in plan.pair : a.e \notin failed}
AdoptPairs ==
    /\ pc = "pair"
    /\ UniqueFiles(Adopted(rows, LandedPairs))
    /\ rows' = Adopted(rows, LandedPairs)
    /\ ls' = AdoptedStates(LandedPairs)
    /\ plan' = [plan EXCEPT !.pair = {}]
    /\ pc' = "cursor"
    /\ UNCHANGED <<serverVars, diskVars, cache, cursorVars, cyc, reply, sinceVars, held, failed,
                   ghostVars>>

PairsRefused ==
    /\ pc = "pair"
    /\ ~UniqueFiles(Adopted(rows, LandedPairs))
    /\ Idle
    /\ UNCHANGED <<serverVars, diskVars, dbVars, ghostVars>>

\* resolve_email_cursor: to the end of the chain of this cycle's own calls, or
\* to where the fetch left it when another change came in between.
AdvanceEmailCursor ==
    /\ pc = "cursor"
    /\ IF held THEN UNCHANGED <<ecur, unseen>>
       ELSE /\ ecur' = TRUE
            /\ unseen' = IF broken THEN later \cup mine ELSE later
    /\ pc' = "pending"
    /\ UNCHANGED <<serverVars, diskVars, cache, rows, ls, mcur, cyc, plan, reply, sinceVars, held,
                   failed, ghostVars>>

\* apply_pending_mailbox_writes: a row only where maildir and sentinel agree
\* with it; the Mailbox cursor only when every row could be written.
Landed(b) ==
    /\ OnServer(cyc.in, b) \in DOMAIN dirs
    /\ dirs[OnServer(cyc.in, b)] = Sentinel(cyc.in, b)
ApplyPending_Mistake ==
    /\ pc = "pending"
    /\ cache' = Over([b \in {x \in cyc.pend : Landed(x)} |-> Record(cyc.in, b)], cache)
    /\ mcur' = IF mlater THEN "stale" ELSE "fresh"
    /\ Idle
    /\ UNCHANGED <<serverVars, diskVars, rows, ls, ecur, unseen, ghostVars>>
ApplyPending ==
    /\ pc = "pending"
    /\ cache' = Over([b \in {x \in cyc.pend : Landed(x)} |-> Record(cyc.in, b)], cache)
    /\ mcur' = IF \A b \in cyc.pend : Landed(b)
               THEN (IF mlater THEN "stale" ELSE "fresh") ELSE mcur
    /\ Idle
    /\ UNCHANGED <<serverVars, diskVars, rows, ls, ecur, unseen, ghostVars>>

\* The process dies, or a call fails and takes the cycle with it.
Crash ==
    /\ Cycling /\ crashes < setup.crashes
    /\ crashes' = crashes + 1
    /\ Idle
    /\ UNCHANGED <<serverVars, diskVars, dbVars, setup, acts, mail, gone, forfeit>>

CycleStep ==
    \/ Resolve \/ Scan \/ Fetch \/ ApplyUnconditional
    \/ \E b \in cyc.mk : CreateLocal(b)
    \/ FollowRename \/ \E w \in cyc.mv : RenameLocal(w) \/ RenameRefused(w)
    \/ AdoptMessages \/ AdoptRefused \/ DownloadMessages \/ DownloadFails
    \/ MoveLocals \/ DeleteLocals \/ \E w \in cyc.rmdir : DeleteLocalFolder(w)
    \/ \E a \in cyc.create : CreateRemote(a) \/ SkipCreate(a)
    \/ LandCreate
    \/ \E w \in cyc.push : RenameRemote(w)
    \/ LandRename
    \/ \E u \in PendingUploads : UploadOne(u) \/ UploadRefused(u)
    \/ UploadsOver \/ RemoteSet
    \/ \E b \in cyc.kill : DestroyMailbox(b)
    \/ LandDestroy \/ AdoptPairs \/ PairsRefused \/ AdvanceEmailCursor \/ ApplyPending

-----------------------------------------------------------------------------
(* The start: a synchronised account.                                      *)

Init ==
    /\ setup \in Setups
    /\ tree = setup.tree /\ boxes = Cardinality(DOMAIN setup.tree)
    /\ emails = [e \in Email |-> IF e \in DOMAIN setup.mail THEN setup.mail[e] ELSE NoMail]
    /\ nextEmail = Len(setup.mail) + 1
    /\ LET bound == SelectedIn(setup.tree)
           at(f) == CHOOSE b \in bound : Path(setup.tree, b) = f
           synced == {e \in DOMAIN setup.mail : setup.mail[e].box \in bound}
       IN /\ dirs = [f \in {Path(setup.tree, b) : b \in bound} |->
                        [id |-> at(f), name |-> setup.tree[at(f)].name,
                         parent |-> setup.tree[at(f)].parent]]
          /\ cache = [b \in bound |-> [name |-> setup.tree[b].name, parent |-> setup.tree[b].parent,
                                       folder |-> Path(setup.tree, b)]]
          /\ disk = [x \in File |-> IF x \in synced
                        THEN [at |-> Path(setup.tree, setup.mail[x].box), mid |-> setup.mail[x].mid]
                        ELSE NoFileHere]
          /\ rows = [e \in Email |-> IF e \in synced
                        THEN [box |-> setup.mail[e].box, mid |-> setup.mail[e].mid, file |-> e,
                              flags |-> {}, blob |-> TRUE]
                        ELSE NoRow]
          /\ ls = [x \in File |-> disk[x].at]
    /\ nextFile = Len(setup.mail) + 1
    /\ mcur = "fresh" /\ ecur = TRUE /\ unseen = {}
    /\ pc = "idle" /\ cyc = None /\ plan = EmptyPlan /\ reply = NoReply
    /\ mlater = FALSE /\ later = {} /\ mine = {} /\ broken = FALSE
    /\ held = FALSE /\ failed = {}
    /\ acts = 0 /\ crashes = 0
    /\ mail = {m.mid : m \in Range(setup.mail)} /\ gone = {} /\ forfeit = {}

Next == UserStep \/ ServerStep \/ CycleStep \/ Crash

Spec == Init /\ [][Next]_fvars

-----------------------------------------------------------------------------
(* Properties                                                              *)

\* Every id, folder and row the cycle handles is one the account can have, and
\* only mailboxes the cycle looked at are up for destruction.
FTypeOK ==
    /\ DOMAIN tree \subseteq Box /\ DOMAIN dirs \subseteq Paths /\ DOMAIN cache \subseteq Box
    /\ emails \in [Email -> [box : Box \cup {NoBox}, mid : Mid]]
    /\ rows \in Rows
    /\ ls \in [File -> Paths \cup {Nowhere}]
    /\ disk \in [File -> [at : Paths \cup {Nowhere, Rescued}, mid : Mid]]
    /\ unseen \cup later \cup mine \subseteq Email
    /\ DOMAIN cyc.folder \subseteq Box /\ cyc.kill \subseteq Live
    /\ pc \in {"idle", "scan", "fetch", "writes", "pending", "rebind", "prune", "dedupe"}
              \cup Range(Phases)

\* Mail that nobody removed is on the disk or on the server, whatever becomes
\* of the mailboxes and maildirs it was in.
Somewhere(m) ==
    (\E x \in File : disk[x].at # Nowhere /\ disk[x].mid = m) \/
    (\E e \in Email : Alive(e) /\ emails[e].mid = m)
NothingLost == \A m \in mail \ gone : Somewhere(m)

\* A sync destroys a mailbox only when the user removed its maildir.
OnlyRemovedFolders ==
    [][\A b \in DOMAIN tree \ DOMAIN tree' :
          pc = "killremote" /\ acts' = acts => b \in forfeit]_fvars
\* A sync removes a maildir only when its mailbox is gone.
OnlyGoneMailboxes ==
    [][\A f \in DOMAIN dirs \ DOMAIN dirs' :
          pc = "rmlocal" /\ acts' = acts => dirs[f].id \notin DOMAIN tree]_fvars

\* fetch_or_reuse_mailboxes: "The reuse path is sound": the cache then has
\* every mailbox of the selection as the server has it.
ReuseSound ==
    mcur = "fresh" /\ pc # "prune" =>
        \A b \in SelectedIn(tree) :
            /\ b \in SelectedIn(Listing)
            /\ Listing[b] = tree[b]
=============================================================================
