----------------------------- MODULE Resolution -----------------------------
(***************************************************************************)
(* The folder half of a cycle as pure operators: how engine.rs decides for *)
(* each mailbox which folder it is bound to and what became of it since    *)
(* the last cycle, and what the finalizers of reconcile.rs make of folders *)
(* that lost their mailbox and mailboxes that lost their folder.  As in    *)
(* MailboxesInput, a resolution reads a snapshot                           *)
(*                                                                         *)
(*   in.server    mailbox id -> [name, parent]          remote_mailboxes   *)
(*   in.cached    mailbox id -> [name, parent, folder]  mailbox_map        *)
(*   in.sids      mailbox id -> folder                  disk_sentinels     *)
(*   in.dirs      folder -> [id, name, parent]          maildirs, sentinels *)
(*                                                                         *)
(* A folder is the sequence of its names, one or two of them: layout.rs    *)
(* without rename rules translates a mailbox's chain of names into a path  *)
(* and back, and only Layout = "fs" nests one directory in another.        *)
(* The definition named ..._Mistake is a bug this code could have had, for *)
(* a property of Folders; it is not part of the model.                     *)
(***************************************************************************)
EXTENDS Reconcile, SequencesExt

CONSTANTS
    Folder,     \* the folders people make
    Layout,     \* folder_layout: "flat" or "fs"
    Selection,  \* [sync].mailboxes; {} selects every mailbox
    Policy      \* conflict_strategy

ASSUME PolicyAssumption == Policy \in Policies
ASSUME LayoutAssumption == Layout \in {"flat", "fs"}
ASSUME FolderAssumption == \A f \in Folder \cup Selection : Len(f) \in {1, 2}

NoBox == Unsynced       \* no parent, or a maildir without a sentinel
Nowhere == <<>>

Nested(f) == Len(f) = 2
ParentFolder(f) == Front(f)

-----------------------------------------------------------------------------
(* jmap/mailbox.rs: paths and the selection.                               *)

\* compose_remote_path: a parent the listing does not have is left out.
Path(m, b) ==
    IF m[b].parent \in DOMAIN m THEN <<m[m[b].parent].name, m[b].name>> ELSE <<m[b].name>>

\* get_selected_mailboxes: the configured paths with their subtrees.
SelectedIn(m) ==
    {b \in DOMAIN m : Selection = {} \/ \E s \in Selection : IsPrefix(s, Path(m, b))}

\* resolve_folder_path refuses a parent id the listing does not have.
Resolvable(m) == \A b \in SelectedIn(m) : m[b].parent \in DOMAIN m \cup {NoBox}

-----------------------------------------------------------------------------
(* compute_mailbox_resolution                                              *)

\* synthesize_mailbox_objects: the rows of mailbox_map as a listing.
Synthesized(cached) ==
    [b \in DOMAIN cached |-> [name |-> cached[b].name, parent |-> cached[b].parent]]

\* decompose_disk_path_to_jmap: the parent folder must be a cached one.
CachedAt(in, f) == {b \in DOMAIN in.cached : in.cached[b].folder = f}
Decomposes(in, f) == Nested(f) => CachedAt(in, ParentFolder(f)) # {}
DecomposedParent(in, f) ==
    IF Nested(f) THEN CHOOSE b \in CachedAt(in, ParentFolder(f)) : TRUE ELSE NoBox

Cached(in, b) == in.cached[b].folder
OnServer(in, b) == Path(in.server, b)
OnDisk(in, b) == IF b \in DOMAIN in.sids THEN in.sids[b] ELSE Cached(in, b)

\* decide_mailbox_action: where the server, the cache and the disk disagree.
UserMoved(in, b) == b \in DOMAIN in.cached /\ OnDisk(in, b) # Cached(in, b)
ServerMoved(in, b) == b \in DOMAIN in.cached /\ OnServer(in, b) # Cached(in, b)
FirstCycle(in, b) == b \notin DOMAIN in.cached
CacheStale(in, b) == UserMoved(in, b) /\ ServerMoved(in, b) /\ OnDisk(in, b) = OnServer(in, b)
ServerRename(in, b) == ServerMoved(in, b) /\ ~UserMoved(in, b)
ConflictServerWins(in, b) ==
    /\ ServerMoved(in, b) /\ UserMoved(in, b) /\ ~CacheStale(in, b)
    /\ Policy = "ServerWins"
\* LocalRename, and ConflictLocalWins when the server has moved it as well.
PushesRename(in, b) ==
    /\ UserMoved(in, b) /\ ~CacheStale(in, b) /\ ~ConflictServerWins(in, b)
    /\ Decomposes(in, OnDisk(in, b))
Unchanged(in, b) ==
    ~(FirstCycle(in, b) \/ CacheStale(in, b) \/ ServerRename(in, b)
        \/ ConflictServerWins(in, b) \/ PushesRename(in, b))

\* The folder a live binding is scanned at, and its mailbox_map record.
WalkFolder(in, b) == IF PushesRename(in, b) THEN OnDisk(in, b) ELSE OnServer(in, b)
Record(in, b) ==
    [name |-> in.server[b].name, parent |-> in.server[b].parent, folder |-> OnServer(in, b)]

MetadataWrites(in, live) == {b \in live : Unchanged(in, b) \/ CacheStale(in, b)}
PendingWrites(in, live) ==
    {b \in live : FirstCycle(in, b) \/ ServerRename(in, b) \/ ConflictServerWins(in, b)}

Sentinel(in, b) == [id |-> b, name |-> in.server[b].name, parent |-> in.server[b].parent]

\* CreateLocalMailbox: a mailbox nobody has seen, or a maildir whose sentinel
\* is missing or out of date.  A maildir that is gone is left to the scan.
NeedsCreate(in, b) ==
    /\ Unchanged(in, b)
    /\ OnServer(in, b) \in DOMAIN in.dirs
    /\ in.dirs[OnServer(in, b)] # Sentinel(in, b)
NewMailboxes(in, live) == {b \in live : FirstCycle(in, b) \/ NeedsCreate(in, b)}

\* RenameLocalMailbox, with the folder the files are in and the one their
\* local_state rows are under; RenameRemoteMailbox, with the decomposed name.
PullRenames(in, live) ==
    {[b |-> b, from |-> OnDisk(in, b), db |-> Cached(in, b), to |-> OnServer(in, b)] :
        b \in {x \in live : ServerRename(in, x) \/ ConflictServerWins(in, x)}}
PushRenames(in, live) ==
    {[b |-> b, db |-> Cached(in, b), to |-> OnDisk(in, b), name |-> Last(OnDisk(in, b)),
      parent |-> DecomposedParent(in, OnDisk(in, b))] : b \in {x \in live : PushesRename(in, x)}}

\* record_cache_route_orphans and record_sentinel_route_orphans.
CacheOrphans(in) == DOMAIN in.cached \ DOMAIN in.server
SentinelOrphans_Mistake(in) == DOMAIN in.sids \ DOMAIN in.cached
SentinelOrphans(in) == DOMAIN in.sids \ (DOMAIN in.server \cup DOMAIN in.cached)
\* enumerate_local_orphan_messages adds the files that are in the folder now.
OrphanRecord(d, files) ==
    [b |-> d.b, folder |-> d.folder, name |-> d.name, parent |-> d.parent, files |-> files]

LocalOrphans(in) ==
    {[b |-> b, folder |-> Cached(in, b), name |-> in.cached[b].name,
      parent |-> in.cached[b].parent] : b \in CacheOrphans(in)}
    \cup
    {[b |-> b, folder |-> in.sids[b], name |-> in.dirs[in.sids[b]].name,
      parent |-> in.dirs[in.sids[b]].parent] : b \in SentinelOrphans(in)}

-----------------------------------------------------------------------------
(* What reconcile.rs plans for folders.                                    *)

\* handle_local_folder_created: every unbound folder up to the first bound
\* ancestor.  A parent that is created in this cycle is named by its folder.
Value(b) == [value |-> b, ref |-> Nowhere]
Reference(f) == [value |-> NoBox, ref |-> f]

Chain(f, bound) == {g \in {f, ParentFolder(f)} : g # Nowhere /\ (g = f \/ g \notin bound)}
CreateRemotes(strays, folderOf) ==
    LET bound == {folderOf[b] : b \in DOMAIN folderOf}
        OwnerOf(f) == CHOOSE b \in DOMAIN folderOf : folderOf[b] = f
    IN {[folder |-> f, name |-> Last(f), replaces |-> NoBox,
         parent |-> IF ~Nested(f) THEN Value(NoBox)
                    ELSE IF ParentFolder(f) \in bound THEN Value(OwnerOf(ParentFolder(f)))
                    ELSE Reference(ParentFolder(f))] :
            f \in UNION {Chain(g, bound) : g \in strays}}

\* emit_resurrect_for: the mailbox again, under the parent it had, and the
\* mail that was in its folder when it was found to be an orphan.
ResurrectCreate(d) ==
    [folder |-> d.folder, name |-> d.name, replaces |-> d.b, parent |-> Value(d.parent)]
ResurrectUploads(d, files) == {[f |-> f, folder |-> d.folder] : f \in files}

\* The finalizer of a local orphan d when its folder may be deleted: actions
\* of the plan p that are aimed at it block the deletion.
BlockedUploads(p, d) == {u \in p.up : u.box = d.b}
BlockedMoves(p, d) == {m \in p.rmove : m.to = d.b}
BlockedPairs(p, d) == {a \in p.pair : a.box = d.b}
Blocked(p, d) == BlockedUploads(p, d) \cup BlockedMoves(p, d) \cup BlockedPairs(p, d) # {}
\* finalize_local_orphan_handling: an orphan nothing blocks is deleted; one that
\* is blocked goes the way of the policy.
BlockedOrphans(p, ds) == {d \in ds : Blocked(p, d)}
Resurrected(blocked) == IF Policy = "LocalWins" THEN blocked ELSE {}
CounterMoved(blocked) == blocked \ Resurrected(blocked)

DropBlockers(p, ds) ==
    [p EXCEPT !.up = @ \ UNION {BlockedUploads(p, d) : d \in ds},
              !.rmove = @ \ UNION {BlockedMoves(p, d) : d \in ds},
              !.pair = @ \ UNION {BlockedPairs(p, d) : d \in ds}]

\* build_counter_move_local: back to the folder the row still names.
CounterMoveLocals(p, R, d) ==
    {[f |-> R[m.e].file, e |-> m.e, from |-> d.folder, to |-> R[m.e].box] :
        m \in {x \in BlockedMoves(p, d) : HasRow(R, x.e)}}

\* finalize_remote_orphan_handling: mail the server has just moved into a
\* mailbox that is about to be destroyed goes back where its row says.
CounterMoveRemotes(o, R, b) ==
    {[e |-> r.e, to |-> R[r.e].box] :
        r \in {x \in o.remote : x.box = b /\ HasRow(R, x.e) /\ R[x.e].box # b}}
=============================================================================
