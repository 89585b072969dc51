------------------------------- MODULE Janitor ------------------------------
(***************************************************************************)
(* The maintenance commands beside Folders: rebindfolders gives a maildir  *)
(* without a sentinel the mailbox its mail is in, prune removes what the   *)
(* disk or mailbox_map has and the other has not, remotededupe destroys    *)
(* copies of an email.  A command holds both locks, so no cycle runs, and  *)
(* mutates between the acts of the user and of other clients.  Copies of   *)
(* an email have one mid here, and so the same bytes.                      *)
(***************************************************************************)
EXTENDS Folders

CONSTANT SampleSizes    \* values of --sample-size

VARIABLE chores         \* what the command at work has still to do

jvars == <<fvars, chores>>
NoChores == [todo |-> {}, dropped |-> FALSE]

\* acquire_mutator_locks, in one order everywhere, and both or none.
Begin(command, todo) ==
    /\ command \in setup.user /\ Unlocked /\ Act
    /\ todo # {}
    /\ pc' = command
    /\ chores' = [todo |-> todo, dropped |-> FALSE]
    /\ UNCHANGED <<serverVars, diskVars, dbVars, cyc, plan, reply, sinceVars, held, failed,
                   setup, crashes, mail, gone, forfeit>>
Release == Idle /\ chores' = NoChores

BoundFolders == {cache[b].folder : b \in DOMAIN cache}
Unbound == DOMAIN dirs \ BoundFolders

-----------------------------------------------------------------------------
(* rebindfolders                                                           *)

\* walk_for_orphans: maildirs with neither a row nor the sentinel of a mailbox.
OrphanFolders == {f \in Unbound : dirs[f].id \notin DOMAIN tree}
SentinelBound == {dirs[f].id : f \in Unbound} \cap DOMAIN tree

\* sample_message_id_groups: a shuffle in disjoint groups, the last one partial.
GroupCount == 3
MidsAt(f) == {disk[x].mid : x \in FilesAt(f)}
Groupings(ids, n) ==
    {G \in SUBSET (SUBSET ids \ {{}}) :
        /\ \A g, h \in G : g = h \/ g \cap h = {}
        /\ \A g \in G : Cardinality(g) <= n
        /\ Cardinality({g \in G : Cardinality(g) < n}) <= 1
        /\ Cardinality(G) <= GroupCount
        /\ Cardinality(UNION G) = Min({Cardinality(ids), n * GroupCount})}

\* query_by_message_ids; intersect_mailboxes_by_sample: what every sample that
\* the server knows agrees on.
MailboxesOf(m) == {emails[e].box : e \in {x \in Email : Alive(x) /\ emails[x].mid = m}}
Recognised(samples) == {m \in samples : MailboxesOf(m) # {}}
Narrowed(samples) ==
    {b \in DOMAIN tree : Recognised(samples) # {} /\ \A m \in Recognised(samples) : b \in MailboxesOf(m)}

\* probe_folder: every group must narrow to the same single mailbox.
Consensus(groups) == {b \in DOMAIN tree : groups # {} /\ \A g \in groups : Narrowed(g) = {b}}
Ambiguous(groups) == Recognised(UNION groups) # {} /\ Consensus(groups) = {}

\* cross_resolve_ambiguous: when maildirs and mailboxes are equally many and
\* there is one way to match those left over.
Feasible(groups, unclaimed) ==
    LET narrowed == {Narrowed(g) : g \in groups} \ {{}}
    IN {b \in unclaimed : narrowed # {} /\ \A n \in narrowed : b \in n}
CrossResolved(sampled, agreed) ==
    LET orphans == DOMAIN sampled
        left == {f \in orphans : Ambiguous(sampled[f])}
        unclaimed == DOMAIN tree \ (DOMAIN cache \cup {a.b : a \in agreed})
        matchings == {w \in [left -> unclaimed] :
                        /\ IsInjective(w)
                        /\ \A f \in left : w[f] \in Feasible(sampled[f], unclaimed)}
    IN IF /\ Cardinality(DOMAIN tree) = Cardinality(BoundFolders) + Cardinality(orphans)
          /\ \A f \in orphans : Ambiguous(sampled[f]) \/ Consensus(sampled[f]) # {}
          /\ left # {} /\ Cardinality(left) = Cardinality(unclaimed)
          /\ Cardinality(matchings) = 1
       THEN {[f |-> x[1], b |-> x[2][x[1]]] : x \in left \X matchings}
       ELSE {}

\* plan: --bind goes before the probe, for a mailbox nobody claims, and turns
\* the matching off.
Givens ==
    {{}} \cup
    {{[f |-> x[1], b |-> x[2]]} : x \in
        OrphanFolders \X (DOMAIN tree \ (DOMAIN cache \cup SentinelBound))}
Candidates(sampled, given) ==
    LET probed == DOMAIN sampled \ {a.f : a \in given}
        agreed == {a \in probed \X DOMAIN tree : a[2] \in Consensus(sampled[a[1]])}
        binds == {[f |-> a[1], b |-> a[2]] : a \in agreed}
    IN given \cup binds \cup (IF given = {} THEN CrossResolved(sampled, binds) ELSE {})

Rebindfolders ==
    \E n \in SampleSizes, given \in Givens :
        \E sampled \in [OrphanFolders -> UNION {Groupings(MidsAt(f), n) : f \in OrphanFolders}] :
            /\ \A f \in OrphanFolders : sampled[f] \in Groupings(MidsAt(f), n)
            /\ Begin("rebind",
                     {[f |-> a.f, sentinel |->
                          [id |-> a.b, name |-> tree[a.b].name, parent |-> tree[a.b].parent]] :
                        a \in Candidates(sampled, given)})

\* apply: one sentinel after the other; a maildir that has gone is an error.
WriteSentinel(c) ==
    /\ pc = "rebind" /\ c \in chores.todo
    /\ IF c.f \in DOMAIN dirs
       THEN /\ dirs' = Marked(dirs, c.f, c.sentinel)
            /\ forfeit' = forfeit \ {c.sentinel.id}
       ELSE UNCHANGED <<dirs, forfeit>>
    /\ IF c.f \in DOMAIN dirs /\ chores.todo # {c}
       THEN /\ chores' = [chores EXCEPT !.todo = @ \ {c}]
            /\ UNCHANGED cycleVars
       ELSE Release
    /\ UNCHANGED <<serverVars, disk, nextFile, dbVars, setup, acts, crashes, mail, gone>>

-----------------------------------------------------------------------------
(* prune                                                                   *)

\* compute_drift.  A maildir whose sentinel names a mailbox that has lost its
\* own is a rename nobody has pushed yet, and neither of the two is drift.
DbOrphans == {b \in DOMAIN cache : cache[b].folder \notin DOMAIN dirs}
InFlight(b) == \E f \in Unbound : dirs[f].id = b
RenameTargets ==
    {CHOOSE f \in Unbound : dirs[f].id = b : b \in {x \in DbOrphans : InFlight(x)}}
DiskOnly == Unbound \ RenameTargets
DbOnly == {b \in DbOrphans : ~InFlight(b)}
ConfigDropped == (DOMAIN cache \ DbOrphans) \ SelectedIn(Synthesized(cache))

\* plan: mail wants --force-non-empty; rows of a mailbox that is still selected
\* would come back and want --force-in-config.
Entries(forceNonEmpty, forceInConfig) ==
    LET disk_ == {[folder |-> f, b |-> NoBox] : f \in DiskOnly} \cup
                 {[folder |-> cache[b].folder, b |-> b] : b \in ConfigDropped}
        db_ == {[folder |-> cache[b].folder, b |-> b] : b \in DbOnly}
    IN IF cache = <<>> THEN {}
       ELSE {w \in disk_ : FilesAt(w.folder) = {} \/ forceNonEmpty} \cup
            {w \in db_ : w.b \notin SelectedIn(Synthesized(cache)) \/ forceInConfig}

\* narrow: --mailbox.
Prune ==
    \E forceNonEmpty, forceInConfig \in BOOLEAN :
        LET entries == Entries(forceNonEmpty, forceInConfig)
        IN \E todo \in {entries} \cup {{w} : w \in entries} : Begin("prune", todo)

\* apply: deepest first; remove_maildir_tree, then the row of mailbox_map.
PruneEntry(w) ==
    /\ pc = "prune" /\ w \in chores.todo
    /\ \A v \in chores.todo : v = w \/ ~IsPrefix(w.folder, v.folder)
    /\ IF HoldsMaildirs(w.folder)
       THEN /\ chores' = [chores EXCEPT !.todo = @ \ {w}]
            /\ UNCHANGED <<dirs, disk, rows, ls, cache>>
       ELSE /\ RemoveMaildirTree(w.b, w.folder)
            /\ cache' = Restrict(cache, DOMAIN cache \ {w.b})
            /\ chores' = [todo |-> chores.todo \ {w}, dropped |-> chores.dropped \/ w.b # NoBox]
    /\ UNCHANGED <<serverVars, nextFile, cursorVars, cycleVars, ghostVars>>

\* A removal that fails half way is logged, and its rows are left alone.
PruneEntryFails(w) ==
    /\ pc = "prune" /\ w \in chores.todo
    /\ \A v \in chores.todo : v = w \/ ~IsPrefix(w.folder, v.folder)
    /\ ~HoldsMaildirs(w.folder)
    /\ crashes < setup.crashes /\ crashes' = crashes + 1
    /\ RemovalCutShort(w.b, w.folder, "logged")
    /\ chores' = [chores EXCEPT !.todo = @ \ {w}]
    /\ UNCHANGED <<serverVars, nextFile, cache, cursorVars, cycleVars, setup, acts, mail, gone, forfeit>>

\* A dropped row takes the Mailbox cursor with it, and only that one.
PruneDone ==
    /\ pc = "prune" /\ chores.todo = {}
    /\ mcur' = IF chores.dropped THEN "none" ELSE mcur
    /\ Release
    /\ UNCHANGED <<serverVars, diskVars, cache, rows, ls, ecur, unseen, ghostVars>>

-----------------------------------------------------------------------------
(* remotededupe                                                            *)

\* classify_group: the survivor is an email with a file, or the first.
Copies(b, m) == {e \in MailIn(b) : emails[e].mid = m}
LocallyBound == {e \in Email : HasRow(rows, e)}
Survivor(members) ==
    Min(IF members \cap LocallyBound = {} THEN members ELSE members \cap LocallyBound)
Redundant(b) ==
    UNION {Copies(b, m) \ {Survivor(Copies(b, m))} : m \in {emails[e].mid : e \in MailIn(b)}}

\* run: a mailbox of mailbox_map the server does not have any more is an error.
Remotededupe ==
    \E scope \in {DOMAIN cache} \cup {{b} : b \in DOMAIN cache} :
        /\ scope \subseteq DOMAIN tree
        /\ Begin("dedupe", UNION {Redundant(b) : b \in scope})

\* apply_destroys: chunk by chunk, and the server may refuse any of the ids;
\* neither the rows nor the Email cursor follow.
DestroyCopies(chunk) ==
    /\ pc = "dedupe" /\ chunk # {}
    /\ \E accepted \in SUBSET chunk :
        LET destroyed == {e \in accepted : Alive(e)}
        IN /\ emails' = [e \in Email |-> IF e \in destroyed THEN NoMail ELSE emails[e]]
           /\ unseen' = IF ecur THEN unseen \cup destroyed ELSE {}
    /\ IF chores.todo \subseteq chunk THEN Release
       ELSE chores' = [chores EXCEPT !.todo = @ \ chunk] /\ UNCHANGED cycleVars
    /\ UNCHANGED <<tree, boxes, nextEmail, diskVars, cache, rows, ls, mcur, ecur, ghostVars>>

-----------------------------------------------------------------------------

\* A command dies.  A prune is over before anything can stop it: see the README.
CommandDies ==
    /\ pc \in {"rebind", "dedupe"} /\ crashes < setup.crashes
    /\ crashes' = crashes + 1
    /\ Release
    /\ UNCHANGED <<serverVars, diskVars, dbVars, setup, acts, mail, gone, forfeit>>

JanitorStep ==
    \/ Rebindfolders \/ \E c \in chores.todo : WriteSentinel(c)
    \/ Prune \/ (\E w \in chores.todo : PruneEntry(w) \/ PruneEntryFails(w)) \/ PruneDone
    \/ Remotededupe \/ (\E chunk \in SUBSET chores.todo : DestroyCopies(chunk))
    \/ CommandDies

JInit == Init /\ chores = NoChores
JNext ==
    \/ (UserStep \/ ServerStep \/ CycleStep \/ Crash) /\ UNCHANGED chores
    \/ JanitorStep

JSpec == JInit /\ [][JNext]_jvars
=============================================================================
