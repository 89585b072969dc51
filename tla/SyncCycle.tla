----------------------------- MODULE SyncCycle -----------------------------
(***************************************************************************)
(* One account's sync: the maildir on disk, the JMAP server, the state DB  *)
(* (message_map, local_state, the Email cursor, folder_checkpoint) and the *)
(* engine that runs one full-scope cycle after another over the three      *)
(* (sync/engine.rs, sync/execute.rs).  A cycle is cut where the code       *)
(* awaits the network, commits a transaction or touches one file; between  *)
(* any two steps the user's mail programs change the maildir, other        *)
(* clients change the server, and the process may die.                     *)
(***************************************************************************)
EXTENDS Reconcile

CONSTANTS
    UserOps,        \* the things the user's mail programs do to the maildir
    ServerOps,      \* the things other clients do on the server, "forget" if it may
                    \* drop old states and "nodup" if it refuses a second import
    UserPhases,     \* the phases of a cycle during which the user acts
    QuietQuery,     \* do other clients rest from the initial Email/query to the
                    \* read of the Email state?
    Directions,     \* the commands run: "Both" (sync), "PullOnly", "PushOnly"
    Seeded,         \* does the run start after a first sync of one message?
    Environments,   \* bounds: what may happen in one behaviour, see Environment
    MaxVer          \* bound: versions of the server's Email state

\* Steps of the user, steps of other clients, crashes and errors that end a
\* cycle, changes the server refuses for no visible reason; which of UserOps,
\* ServerOps and Directions occur; which flags the first message may have; and
\* the account's conflict_strategy.
Environment == [user : Nat, server : Nat, crash : Nat, reject : Nat,
                may : SUBSET (UserOps \cup ServerOps \cup Directions), flags : SUBSET Flag,
                policy : Policies]

ASSUME BudgetAssumption == Environments \subseteq Environment /\ MaxVer \in Nat
ASSUME SeededAssumption == {Seeded, QuietQuery} \subseteq BOOLEAN
ASSUME DirectionAssumption == Directions \subseteq {"Both", "PullOnly", "PushOnly"}

VARIABLES
    disk,       \* disk[f]: where the file of a maildir id is, if anywhere
    nextFile,   \* the next maildir id
    server,     \* server[e]: the server's Email object
    nextEmail,  \* the next JMAP email id
    ver,        \* the server's Email state, a version number
    foreign,    \* the versions another client's change led to
    rows,       \* message_map
    ls,         \* local_state
    cursor,     \* jmap_state for Email; NoCursor when it is empty
    dirty,      \* folders that differ from their folder_checkpoint row
    pc,         \* the phase of the cycle in progress
    dir,        \* its direction
    todo,       \* folders its scan has not walked yet
    obs,        \* what it has observed: the argument of reconcile()
    ids,        \* email ids it is about to fetch
    newState,   \* new_email_state
    plan,       \* what its executor has left to do
    imported,   \* emails imported and not yet committed to the DB
    own,        \* the versions its own server calls led to
    failed,     \* emails whose update the server refused
    mirrors,    \* what apply_remote_set mirrors into the DB
    held,       \* pull_apply_incomplete
    budget,     \* its environment, with the steps left of each actor
    removed,    \* ghost: messages the user or another client removed
    foreignMove,\* ghost: emails another client moved
    calm,       \* ghost: full cycles completed since anything else happened
    quiet       \* ghost: has nothing else happened since this cycle started?

diskVars == <<disk, nextFile>>
serverVars == <<server, nextEmail, ver, foreign>>
dbVars == <<rows, ls, cursor, dirty>>
cycleVars == <<pc, dir, todo, obs, ids, newState, plan, imported, own, failed, mirrors, held>>
ghostVars == <<removed, foreignMove, calm, quiet>>
vars == <<diskVars, serverVars, dbVars, cycleVars, budget, ghostVars>>

NoCursor == 0
NoFileHere == [sub |-> "none", box |-> Unsynced, mid |-> AnyMid, fl |-> {}]
NoState == [box |-> Unsynced, fl |-> {}]
NoEmailHere == [st |-> "none", box |-> Unsynced, mid |-> AnyMid, kw |-> {}, at |-> 0]
NoObs == [news |-> {}, flagged |-> {}, dels |-> {}, seen |-> {}, index |-> {},
          remote |-> {}, destroyed |-> {}, initial |-> FALSE, policy |-> "ServerWins"]
NoMirrors == [rkw |-> {}, rdel |-> {}]
CalmCap == 2

OnDisk(f) == disk[f].sub # "none"
Live(e) == server[e].st = "live"
HasState(f) == ls[f].box # Unsynced
Sub(fl) == IF "S" \in fl THEN "cur" ELSE "new"

-----------------------------------------------------------------------------
(* The phases of a cycle.  The executor passes over a phase whose bucket   *)
(* is empty without an await, so a step leads to the next phase with work. *)

ExecOrder == <<"adopt", "download", "lflag", "lmove", "ldelete", "upload", "commit", "set",
               "mirror", "pair", "cursor">>
ExecPhases == {ExecOrder[i] : i \in 1 .. 11}
ScanPhases == {"scan", "changes", "query", "get", "state", "reconcile"}
Phases == {"idle", "checkpoint"} \cup ScanPhases \cup ExecPhases

ASSUME PhaseAssumption == UserPhases \subseteq Phases

HasWork(p, pl, im, mi) ==
    \/ p = "adopt" /\ pl.adoptR \cup pl.adoptL # {}
    \/ p = "download" /\ pl.down # {}
    \/ p = "lflag" /\ pl.lflag # {}
    \/ p = "lmove" /\ pl.lmove # {}
    \/ p = "ldelete" /\ pl.ldel # {}
    \/ p = "upload" /\ pl.up # {}
    \/ p = "commit" /\ im # {}
    \/ p = "set" /\ (pl.rkw # {} \/ pl.rmove # {} \/ pl.rdel # {})
    \/ p = "mirror" /\ mi # NoMirrors
    \/ p = "pair" /\ pl.pair # {}
    \/ p = "cursor"

\* The first phase with work at or after p.
NextPhase(p, pl, im, mi) ==
    ExecOrder[Least({i \in 1 .. 11 : HasWork(ExecOrder[i], pl, im, mi)
                                       /\ \E j \in 1 .. i : ExecOrder[j] = p})]

CycleReset ==
    /\ pc' = "idle"
    /\ dir' = "Both"
    /\ todo' = {}
    /\ obs' = NoObs
    /\ ids' = {}
    /\ newState' = NoCursor
    /\ plan' = EmptyPlan
    /\ imported' = {}
    /\ own' = {}
    /\ failed' = {}
    /\ mirrors' = NoMirrors
    /\ held' = FALSE

-----------------------------------------------------------------------------
Init ==
    /\ budget \in Environments
    /\ nextFile = IF Seeded THEN 2 ELSE 1
    /\ nextEmail = IF Seeded THEN 2 ELSE 1
    /\ \E fl \in SUBSET budget.flags, blob \in BOOLEAN, b \in {x \in Box : \A y \in Box : x <= y} :
        /\ ~Seeded => fl = {} /\ blob
        /\ disk = [f \in File |-> IF Seeded /\ f = 1
                     THEN [sub |-> IF blob THEN Sub(fl) ELSE "cur", box |-> b,
                           mid |-> AnyMid, fl |-> fl]
                     ELSE NoFileHere]
        /\ server = [e \in Email |-> IF Seeded /\ e = 1
                       THEN [st |-> "live", box |-> b, mid |-> AnyMid, kw |-> fl, at |-> 1]
                       ELSE NoEmailHere]
        /\ rows = [e \in Email |-> IF Seeded /\ e = 1
                     THEN [box |-> b, mid |-> AnyMid, file |-> 1, flags |-> fl, blob |-> blob]
                     ELSE NoRow]
        /\ ls = [f \in File |-> IF Seeded /\ f = 1 THEN [box |-> b, fl |-> fl] ELSE NoState]
    /\ ver = 1
    /\ foreign = {}
    /\ cursor = IF Seeded THEN 1 ELSE NoCursor
    /\ dirty = IF Seeded THEN {} ELSE Box
    /\ pc = "idle"
    /\ dir = "Both"
    /\ todo = {}
    /\ obs = NoObs
    /\ ids = {}
    /\ newState = NoCursor
    /\ plan = EmptyPlan
    /\ imported = {}
    /\ own = {}
    /\ failed = {}
    /\ mirrors = NoMirrors
    /\ held = FALSE
    /\ removed = {}
    /\ foreignMove = {}
    /\ calm = 0
    /\ quiet = TRUE

-----------------------------------------------------------------------------
(* Phase 0: the dedupe walk of the dirty folders.  In each folder the      *)
(* oldest file of a Message-ID is kept and the others are deleted; the     *)
(* kept files are the LocalIndex when message_map is empty.                *)

InGroup(f, b, m) == OnDisk(f) /\ disk[f].box = b /\ disk[f].mid = m
Duplicates_ByFolderOnly ==
    {f \in File : OnDisk(f) /\ disk[f].box \in dirty /\
        \E g \in File : g < f /\ OnDisk(g) /\ disk[g].box = disk[f].box}
Duplicates == {f \in File : OnDisk(f) /\ disk[f].box \in dirty /\
                  \E g \in File : g < f /\ InGroup(g, disk[f].box, disk[f].mid)}
Kept == {f \in File : OnDisk(f) /\ disk[f].box \in dirty} \ Duplicates

StartCycle(d) ==
    /\ pc = "idle" /\ d \in budget.may
    /\ ver < MaxVer
    /\ dir' = d
    /\ disk' = [f \in File |-> IF f \in Duplicates THEN NoFileHere ELSE disk[f]]
    /\ \E p \in Policies :
          /\ p = budget.policy
          /\ obs' = [NoObs EXCEPT !.policy = p, !.index =
                       IF \E e \in Email : HasRow(rows, e) THEN {}
                       ELSE {[f |-> f, box |-> disk[f].box, mid |-> disk[f].mid] : f \in Kept}]
    /\ pc' = "scan"
    /\ todo' = Box
    /\ quiet' = TRUE
    /\ UNCHANGED <<nextFile, serverVars, dbVars, ids, newState, plan, imported, own, failed,
                   mirrors, held, budget, removed, foreignMove, calm>>

(* Phase 1: scan_folder.  new/ is observed but never classified.           *)

Known(f, b) == ls[f].box = b
InCur(f, b) == disk[f].sub = "cur" /\ disk[f].box = b
Observed(f, b) == OnDisk(f) /\ disk[f].box = b

ScanFolder(b) ==
    /\ pc = "scan"
    /\ b \in todo /\ \A c \in todo : b <= c
    /\ todo' = todo \ {b}
    /\ obs' = [obs EXCEPT
         !.news = @ \cup {[f |-> f, box |-> b, mid |-> disk[f].mid, fl |-> disk[f].fl] :
                            f \in {g \in File : InCur(g, b) /\ ~Known(g, b)}},
         !.flagged = @ \cup {[f |-> f, fl |-> disk[f].fl] :
                            f \in {g \in File : InCur(g, b) /\ Known(g, b) /\ disk[g].fl # ls[g].fl}},
         !.dels = @ \cup {[f |-> f, box |-> b] : f \in {g \in File : Known(g, b) /\ ~Observed(g, b)}},
         !.seen = @ \cup {[f |-> f, fl |-> IF disk[f].sub = "cur" THEN disk[f].fl ELSE {}] :
                            f \in {g \in File : Observed(g, b)}}]
    /\ pc' = IF todo' # {} THEN "scan" ELSE IF cursor = NoCursor THEN "query" ELSE "changes"
    /\ UNCHANGED <<diskVars, serverVars, dbVars, dir, ids, newState, plan, imported, own,
                   failed, mirrors, held, budget, ghostVars>>

-----------------------------------------------------------------------------
(* Phase 2: fetch_remote_state.                                            *)

\* Email/changes from the cursor.
FetchChanges ==
    /\ pc = "changes"
    /\ newState' = ver
    /\ ids' = {e \in Email : Live(e) /\ server[e].at > cursor}
    /\ obs' = [obs EXCEPT !.destroyed = {e \in Email : server[e].st = "gone" /\ server[e].at > cursor}]
    /\ pc' = "get"
    /\ UNCHANGED <<diskVars, serverVars, dbVars, dir, todo, plan, imported, own, failed,
                   mirrors, held, budget, ghostVars>>

\* cannotCalculateChanges: drop the cursor and take the initial path.
ChangesRefused ==
    /\ pc = "changes"
    /\ "forget" \in budget.may /\ budget.server > 0
    /\ budget' = [budget EXCEPT !.server = @ - 1]
    /\ cursor' = NoCursor
    /\ pc' = "query"
    /\ UNCHANGED <<diskVars, serverVars, rows, ls, dirty, dir, todo, obs, ids, newState, plan,
                   imported, own, failed, mirrors, held, ghostVars>>

\* The initial path: Email/query of every synced mailbox ...
QueryMailboxes ==
    /\ pc = "query"
    /\ ids' = {e \in Email : Live(e) /\ server[e].box \in Box}
    /\ obs' = [obs EXCEPT !.initial = TRUE]
    /\ pc' = "get"
    /\ UNCHANGED <<diskVars, serverVars, dbVars, dir, todo, newState, plan, imported, own,
                   failed, mirrors, held, budget, ghostVars>>

\* Email/get of the ids: what is alive by now, as it is by now.
GetEmails ==
    /\ pc = "get"
    /\ obs' = [obs EXCEPT !.remote =
                 {[e |-> e, box |-> server[e].box, mid |-> server[e].mid, kw |-> server[e].kw] :
                    e \in {x \in ids : Live(x)}}]
    /\ ids' = {}
    /\ pc' = IF obs.initial THEN "state" ELSE "reconcile"
    /\ UNCHANGED <<diskVars, serverVars, dbVars, dir, todo, newState, plan, imported, own,
                   failed, mirrors, held, budget, ghostVars>>

\* ... and only then get_current_state.
GetState ==
    /\ pc = "state"
    /\ newState' = ver
    /\ pc' = "reconcile"
    /\ UNCHANGED <<diskVars, serverVars, dbVars, dir, todo, obs, ids, plan, imported, own,
                   failed, mirrors, held, budget, ghostVars>>

\* Phases 3 and 4: reconcile and filter by direction.
MakePlan ==
    /\ pc = "reconcile"
    /\ \E byMid \in NewsByMid(obs) : plan' = Filtered(PlanOf(obs, rows, byMid), dir)
    /\ obs' = NoObs
    /\ pc' = NextPhase("adopt", plan', {}, NoMirrors)
    /\ UNCHANGED <<diskVars, serverVars, dbVars, dir, todo, ids, newState, imported, own,
                   failed, mirrors, held, budget, ghostVars>>

-----------------------------------------------------------------------------
(* The executor, and what its steps write to the state DB.                 *)

\* The partial UNIQUE index on message_map.maildir_id.  The code checks it after
\* each statement, the model after each transaction.  As a guard of LocalFlag it
\* never binds: TLC's search for deadlocks shows it.
UniqueFiles(R) == \A d, e \in Email : HasRow(R, d) /\ R[d].file = R[e].file => d = e

AdoptRow(a) == [box |-> a.box, mid |-> a.mid, file |-> a.f, flags |-> a.kw, blob |-> a.blob]
LastFor(A, e) == CHOOSE a \in A : a.e = e /\ \A x \in A : x.e = e => x.f <= a.f

\* commit_adopt for a batch of adopts within one transaction.
AdoptRows(R, A) ==
    [e \in Email |-> IF \E a \in A : a.e = e THEN AdoptRow(LastFor(A, e))
                     ELSE IF \E a \in A : a.oldE = e THEN NoRow
                     ELSE R[e]]
AdoptStates(L, A) ==
    [f \in File |-> IF \E a \in A : a.f = f
                      THEN LET a == CHOOSE x \in A : x.f = f IN [box |-> a.box, fl |-> a.fl]
                    ELSE IF \E a \in A : a.oldF = f THEN NoState
                    ELSE L[f]]

\* Adopts decided on the remote side come first in the plan.
UnconditionalRows == AdoptRows(AdoptRows(rows, plan.adoptR), plan.adoptL)

AdoptAll ==
    /\ pc = "adopt"
    /\ UniqueFiles(UnconditionalRows)
    /\ rows' = UnconditionalRows
    /\ ls' = AdoptStates(AdoptStates(ls, plan.adoptR), plan.adoptL)
    /\ plan' = [plan EXCEPT !.adoptR = {}, !.adoptL = {}]
    /\ pc' = NextPhase("download", plan', imported, mirrors)
    /\ UNCHANGED <<diskVars, serverVars, cursor, dirty, dir, todo, obs, ids, newState, imported,
                   own, failed, mirrors, held, budget, ghostVars>>

\* A hard error ends the cycle.
CycleFails ==
    /\ CycleReset
    /\ calm' = 0
    /\ UNCHANGED <<removed, foreignMove, quiet>>

\* store_downloaded_message: the file becomes visible, then one transaction.
Delivered(d) ==
    /\ nextFile \in File
    /\ nextFile' = nextFile + 1
    /\ disk' = [disk EXCEPT ![nextFile] =
                  [sub |-> Sub(d.kw), box |-> d.box, mid |-> d.mid, fl |-> d.kw]]
    /\ dirty' = dirty \cup {d.box}

DownloadOne(d) ==
    /\ pc = "download" /\ d \in plan.down
    /\ Delivered(d)
    /\ rows' = [rows EXCEPT ![d.e] = [box |-> d.box, mid |-> d.mid, file |-> nextFile,
                                      flags |-> d.kw, blob |-> TRUE]]
    /\ ls' = [ls EXCEPT ![nextFile] = [box |-> d.box, fl |-> d.kw]]
    /\ plan' = [plan EXCEPT !.down = @ \ {d}]
    /\ pc' = NextPhase("download", plan', imported, mirrors)
    /\ UNCHANGED <<serverVars, cursor, dir, todo, obs, ids, newState, imported, own, failed,
                   mirrors, held, budget, ghostVars>>

\* The blob of an email destroyed since is gone: a hard error.
DownloadGone(d) ==
    /\ pc = "download" /\ d \in plan.down
    /\ ~Live(d.e)
    /\ CycleFails
    /\ UNCHANGED <<diskVars, serverVars, dbVars, budget>>

\* apply_update_local_flags, for a file in cur/ or promoted from new/.
FlagDisk(a) ==
    /\ disk' = [disk EXCEPT ![a.f] = [@ EXCEPT !.sub = "cur", !.fl = a.fl]]
    /\ dirty' = dirty \cup {a.box}
    /\ UNCHANGED nextFile
FlagRows(a) == [rows EXCEPT ![a.e] = [box |-> a.box, mid |-> a.mid, file |-> a.f,
                                      flags |-> a.fl, blob |-> TRUE]]

LocalFlag(a) ==
    /\ pc = "lflag" /\ a \in plan.lflag
    /\ Observed(a.f, a.box)
    /\ UniqueFiles(FlagRows(a))
    /\ FlagDisk(a)
    /\ rows' = FlagRows(a)
    /\ ls' = [ls EXCEPT ![a.f] = [box |-> a.box, fl |-> a.fl]]
    /\ plan' = [plan EXCEPT !.lflag = @ \ {a}]
    /\ pc' = NextPhase("lflag", plan', imported, mirrors)
    /\ UNCHANGED <<serverVars, cursor, dir, todo, obs, ids, newState, imported, own, failed,
                   mirrors, held, budget, ghostVars>>

\* The file is not there: warn, skip, and hold the cursor.
LocalFlagSkipped(a) ==
    /\ pc = "lflag" /\ a \in plan.lflag
    /\ ~Observed(a.f, a.box)
    /\ held' = TRUE
    /\ plan' = [plan EXCEPT !.lflag = @ \ {a}]
    /\ pc' = NextPhase("lflag", plan', imported, mirrors)
    /\ UNCHANGED <<diskVars, serverVars, dbVars, dir, todo, obs, ids, newState, imported, own,
                   failed, mirrors, budget, ghostVars>>

\* move_local_messages.
MoveDisk(a) ==
    /\ disk' = [disk EXCEPT ![a.f].box = a.to]
    /\ dirty' = dirty \cup {a.from, a.to}
    /\ UNCHANGED nextFile

LocalMove_ForgetsState(a) ==
    /\ pc = "lmove" /\ a \in plan.lmove
    /\ Observed(a.f, a.from)
    /\ MoveDisk(a)
    /\ rows' = IF HasRow(rows, a.e) THEN [rows EXCEPT ![a.e].box = a.to] ELSE rows
    /\ plan' = [plan EXCEPT !.lmove = @ \ {a}]
    /\ pc' = NextPhase("lmove", plan', imported, mirrors)
    /\ UNCHANGED <<serverVars, ls, cursor, dir, todo, obs, ids, newState, imported, own, failed,
                   mirrors, held, budget, ghostVars>>

LocalMove(a) ==
    /\ pc = "lmove" /\ a \in plan.lmove
    /\ Observed(a.f, a.from)
    /\ MoveDisk(a)
    /\ rows' = IF HasRow(rows, a.e) THEN [rows EXCEPT ![a.e].box = a.to] ELSE rows
    /\ ls' = [ls EXCEPT ![a.f] = [box |-> a.to, fl |-> rows[a.e].flags]]
    /\ plan' = [plan EXCEPT !.lmove = @ \ {a}]
    /\ pc' = NextPhase("lmove", plan', imported, mirrors)
    /\ UNCHANGED <<serverVars, cursor, dir, todo, obs, ids, newState, imported, own, failed,
                   mirrors, held, budget, ghostVars>>

LocalMoveSkipped(a) ==
    /\ pc = "lmove" /\ a \in plan.lmove
    /\ ~Observed(a.f, a.from)
    /\ held' = TRUE
    /\ plan' = [plan EXCEPT !.lmove = @ \ {a}]
    /\ pc' = NextPhase("lmove", plan', imported, mirrors)
    /\ UNCHANGED <<diskVars, serverVars, dbVars, dir, todo, obs, ids, newState, imported, own,
                   failed, mirrors, budget, ghostVars>>

\* delete_local_messages: an unlink that fails is no error.
DeleteDisk(a) ==
    /\ disk' = IF Observed(a.f, a.box) THEN [disk EXCEPT ![a.f] = NoFileHere] ELSE disk
    /\ dirty' = dirty \cup {a.box}
    /\ UNCHANGED nextFile

LocalDelete(a) ==
    /\ pc = "ldelete" /\ a \in plan.ldel
    /\ DeleteDisk(a)
    /\ rows' = [rows EXCEPT ![a.e] = NoRow]
    /\ ls' = [ls EXCEPT ![a.f] = NoState]
    /\ plan' = [plan EXCEPT !.ldel = @ \ {a}]
    /\ pc' = NextPhase("ldelete", plan', imported, mirrors)
    /\ UNCHANGED <<serverVars, cursor, dir, todo, obs, ids, newState, imported, own, failed,
                   mirrors, held, budget, ghostVars>>

\* upload_one: read the file under the name the scan saw, then Email/import.
UploadOne(u) ==
    /\ pc = "upload" /\ u \in plan.up
    /\ disk[u.f] = [sub |-> "cur", box |-> u.box, mid |-> u.mid, fl |-> u.fl]
    /\ "nodup" \in budget.may => \A e \in Email : Live(e) => server[e].mid # u.mid
    /\ nextEmail \in Email
    /\ nextEmail' = nextEmail + 1
    /\ ver' = ver + 1
    /\ server' = [server EXCEPT ![nextEmail] =
                    [st |-> "live", box |-> u.box, mid |-> u.mid, kw |-> u.fl, at |-> ver']]
    /\ own' = own \cup {ver'}
    /\ imported' = imported \cup {[u |-> u, e |-> nextEmail]}
    /\ plan' = [plan EXCEPT !.up = @ \ {u}]
    /\ pc' = NextPhase("upload", plan', imported', mirrors)
    /\ UNCHANGED <<diskVars, foreign, dbVars, dir, todo, obs, ids, newState, failed, mirrors,
                   held, budget, ghostVars>>

\* The file was renamed or removed since the scan, or the server answers
\* alreadyExists: skipped, no error.
UploadSkipped(u) ==
    /\ pc = "upload" /\ u \in plan.up
    /\ \/ disk[u.f] # [sub |-> "cur", box |-> u.box, mid |-> u.mid, fl |-> u.fl]
       \/ "nodup" \in budget.may /\ \E e \in Email : Live(e) /\ server[e].mid = u.mid
    /\ plan' = [plan EXCEPT !.up = @ \ {u}]
    /\ pc' = NextPhase("upload", plan', imported, mirrors)
    /\ UNCHANGED <<diskVars, serverVars, dbVars, dir, todo, obs, ids, newState, imported, own,
                   failed, mirrors, held, budget, ghostVars>>

\* commit_uploaded_messages, one transaction for each import.
UploadRow_NoFlags(i) == [box |-> i.u.box, mid |-> i.u.mid, file |-> i.u.f, flags |-> {}, blob |-> FALSE]
UploadRow(i) == [box |-> i.u.box, mid |-> i.u.mid, file |-> i.u.f, flags |-> i.u.fl, blob |-> FALSE]
UploadState(i) == [box |-> i.u.box, fl |-> i.u.fl]

CommitUpload(i) ==
    /\ pc = "commit" /\ i \in imported
    /\ UniqueFiles([rows EXCEPT ![i.e] = UploadRow(i)])
    /\ rows' = [rows EXCEPT ![i.e] = UploadRow(i)]
    /\ ls' = [ls EXCEPT ![i.u.f] = UploadState(i)]
    /\ imported' = imported \ {i}
    /\ pc' = NextPhase("commit", plan, imported', mirrors)
    /\ UNCHANGED <<diskVars, serverVars, cursor, dirty, dir, todo, obs, ids, newState, plan, own,
                   failed, mirrors, held, budget, ghostVars>>

\* An import fails hard: what was imported is committed, one by one and up to the
\* first that the index refuses, then the cycle fails.
Uploaded(I) ==
    [e \in Email |-> IF \E i \in I : i.e = e THEN UploadRow(CHOOSE i \in I : i.e = e) ELSE rows[e]]

UploadError ==
    /\ pc = "upload" /\ budget.crash > 0
    /\ budget' = [budget EXCEPT !.crash = @ - 1]
    /\ \E I \in SUBSET imported :
         /\ UniqueFiles(Uploaded(I))
         /\ I = imported \/ \E i \in imported \ I : ~UniqueFiles(Uploaded(I \cup {i}))
         /\ rows' = Uploaded(I)
         /\ ls' = [f \in File |-> IF \E i \in I : i.u.f = f
                      THEN UploadState(CHOOSE i \in I : i.u.f = f) ELSE ls[f]]
    /\ CycleFails
    /\ UNCHANGED <<diskVars, serverVars, cursor, dirty>>

\* Email/set: one call for every keyword patch, move and destroy.  An id that
\* is gone, or updated and destroyed at once, or refused, is a per-id failure.
RemoteSet(refused) ==
    LET updates == {a.e : a \in plan.rkw} \cup {a.e : a \in plan.rmove}
        updated == {e \in updates : Live(e)} \ (plan.rdel \cup refused)
        destroyed == {e \in plan.rdel : Live(e)} \ refused
        change == updated \cup destroyed # {}
        Patched(e) ==
            (server[e].kw \cup UNION {a.on : a \in {x \in plan.rkw : x.e = e}})
                \ UNION {a.off : a \in {x \in plan.rkw : x.e = e}}
        Placed(e) ==
            IF \E a \in plan.rmove : a.e = e
            THEN (CHOOSE a \in plan.rmove : a.e = e).to ELSE server[e].box
    IN
    /\ pc = "set"
    /\ refused = {} \/ (budget.reject > 0 /\ refused \subseteq updates \cup plan.rdel)
    /\ budget' = IF refused = {} THEN budget ELSE [budget EXCEPT !.reject = @ - 1]
    /\ ver' = IF change THEN ver + 1 ELSE ver
    \* A call that changes nothing returns oldState = newState: 0 stands for it.
    /\ own' = own \cup {IF change THEN ver + 1 ELSE 0}
    /\ server' = [e \in Email |->
          IF e \in destroyed THEN [server[e] EXCEPT !.st = "gone", !.at = ver']
          ELSE IF e \in updated
               THEN [server[e] EXCEPT !.kw = Patched(e), !.box = Placed(e), !.at = ver']
          ELSE server[e]]
    /\ failed' = updates \ updated
    /\ mirrors' = [rkw |-> {a \in plan.rkw : a.e \in updated}, rdel |-> destroyed]
    /\ plan' = [plan EXCEPT !.rkw = {}, !.rmove = {}, !.rdel = {}]
    /\ pc' = NextPhase("mirror", plan', imported, mirrors')
    /\ quiet' = (quiet /\ refused = {})
    /\ UNCHANGED <<diskVars, nextEmail, foreign, dbVars, dir, todo, obs, ids, newState, imported,
                   held, removed, foreignMove, calm>>

\* The transaction of apply_remote_set: keywords first, then destroys.
MirrorOf(e) == CHOOSE a \in mirrors.rkw : a.e = e
MirrorSet ==
    /\ pc = "mirror"
    /\ rows' = [e \in Email |->
          IF e \in mirrors.rdel THEN NoRow
          ELSE IF HasRow(rows, e) /\ \E a \in mirrors.rkw : a.e = e
               THEN [rows[e] EXCEPT !.flags = (@ \cup MirrorOf(e).on) \ MirrorOf(e).off]
          ELSE rows[e]]
    /\ ls' = [f \in File |->
          IF \E e \in mirrors.rdel : rows[e].file = f THEN NoState
          ELSE IF HasState(f) /\ \E a \in mirrors.rkw : rows[a.e].file = f
               THEN [ls[f] EXCEPT !.fl = (CHOOSE a \in mirrors.rkw : rows[a.e].file = f).fl]
          ELSE ls[f]]
    /\ mirrors' = NoMirrors
    /\ pc' = NextPhase("pair", plan, imported, NoMirrors)
    /\ UNCHANGED <<diskVars, serverVars, cursor, dirty, dir, todo, obs, ids, newState, plan,
                   imported, own, failed, held, budget, ghostVars>>

\* apply_move_pair_adopts, without the pairs whose MoveRemote failed.
LandedPairs_All == plan.pair
LandedPairs == {a \in plan.pair : a.e \notin failed}
AdoptPairs ==
    /\ pc = "pair"
    /\ UniqueFiles(AdoptRows(rows, LandedPairs))
    /\ rows' = AdoptRows(rows, LandedPairs)
    /\ ls' = AdoptStates(ls, LandedPairs)
    /\ plan' = [plan EXCEPT !.pair = {}]
    /\ pc' = "cursor"
    /\ UNCHANGED <<diskVars, serverVars, cursor, dirty, dir, todo, obs, ids, newState, imported,
                   own, failed, mirrors, held, budget, ghostVars>>

\* The index refuses a transaction: it rolls back and the cycle fails.
Attempted ==
    CASE pc = "adopt"  -> {UnconditionalRows}
      [] pc = "commit" -> {[rows EXCEPT ![i.e] = UploadRow(i)] : i \in imported}
      [] pc = "pair"   -> {AdoptRows(rows, LandedPairs)}
      [] OTHER         -> {}

IndexRefuses ==
    /\ pc \in {"adopt", "commit", "pair"}
    /\ \E R \in Attempted : ~UniqueFiles(R)
    /\ CycleFails
    /\ UNCHANGED <<diskVars, serverVars, dbVars, budget>>

\* walk_chain over the edges v-1 -> v of this cycle's own server calls: to its
\* end if one walk from the cursor consumes every edge, else nowhere.
WalkChain_CountsEdges(state, edges) == state + Cardinality(edges)
WalkChain_ToLastEdge(state, edges) ==
    IF edges = {} THEN state ELSE CHOOSE v \in edges : \A w \in edges : w <= v
WalkChain(state, edges) ==
    IF \E v \in edges : edges = (state + 1) .. v
    THEN CHOOSE v \in edges : edges = (state + 1) .. v
    ELSE state

AdvanceCursor_IgnoresHeld ==
    /\ pc = "cursor"
    /\ cursor' = WalkChain(newState, own)
    /\ pc' = "checkpoint"
    /\ UNCHANGED <<diskVars, serverVars, rows, ls, dirty, dir, todo, obs, ids, newState, plan,
                   imported, own, failed, mirrors, held, budget, ghostVars>>

AdvanceCursor_AsksServer ==
    /\ pc = "cursor"
    /\ cursor' = IF held THEN cursor ELSE ver
    /\ pc' = "checkpoint"
    /\ UNCHANGED <<diskVars, serverVars, rows, ls, dirty, dir, todo, obs, ids, newState, plan,
                   imported, own, failed, mirrors, held, budget, ghostVars>>

AdvanceCursor ==
    /\ pc = "cursor"
    /\ cursor' = IF held THEN cursor ELSE WalkChain(newState, own)
    /\ pc' = "checkpoint"
    /\ UNCHANGED <<diskVars, serverVars, rows, ls, dirty, dir, todo, obs, ids, newState, plan,
                   imported, own, failed, mirrors, held, budget, ghostVars>>

\* Phase 6: record_folder_checkpoints, and the cycle is over.
Checkpoint ==
    /\ pc = "checkpoint"
    /\ dirty' = {}
    /\ calm' = IF quiet /\ dir = "Both" THEN IF calm < CalmCap THEN calm + 1 ELSE CalmCap ELSE 0
    /\ CycleReset
    /\ UNCHANGED <<diskVars, serverVars, rows, ls, cursor, budget, removed, foreignMove, quiet>>

-----------------------------------------------------------------------------
(* The process dies, or a call fails for good: the cycle in memory is gone *)
(* and nothing else.  Inside a step that touches a file and then the DB,   *)
(* it may die after the file and before the transaction.                   *)

Spend(actor) ==
    /\ budget[actor] > 0
    /\ budget' = [budget EXCEPT ![actor] = @ - 1]

CycleDies ==
    /\ pc # "idle"
    /\ Spend("crash")
    /\ CycleFails
    /\ UNCHANGED <<diskVars, serverVars, dbVars>>

DiesAfterDisk ==
    /\ Spend("crash")
    /\ \/ pc = "download" /\ \E d \in plan.down : Delivered(d)
       \/ pc = "lflag" /\ \E a \in plan.lflag : Observed(a.f, a.box) /\ FlagDisk(a)
       \/ pc = "lmove" /\ \E a \in plan.lmove : Observed(a.f, a.from) /\ MoveDisk(a)
       \/ pc = "ldelete" /\ \E a \in plan.ldel : DeleteDisk(a)
    /\ CycleFails
    /\ UNCHANGED <<serverVars, rows, ls, cursor>>

-----------------------------------------------------------------------------
(* The user's mail programs.  They work in cur/, promote what they find in *)
(* new/, and rename a file when its flags change.                          *)

Disturb == calm' = 0 /\ quiet' = FALSE

UserStep(op) ==
    /\ op \in UserOps \cap budget.may /\ pc \in UserPhases
    /\ Spend("user")
    /\ Disturb
    /\ UNCHANGED <<serverVars, rows, ls, cursor, cycleVars, foreignMove>>

UsedMids == {server[e].mid : e \in {x \in Email : server[x].st # "none"}}
            \cup {disk[f].mid : f \in {x \in File : OnDisk(x)}} \cup removed

PutFile(b, m, fl) ==
    /\ nextFile \in File
    /\ nextFile' = nextFile + 1
    /\ dirty' = dirty \cup {b}
    /\ disk' = [disk EXCEPT ![nextFile] = [sub |-> "cur", box |-> b, mid |-> m, fl |-> fl]]

UserNew(b, m, fl) ==
    /\ UserStep("new")
    /\ m \notin UsedMids
    /\ PutFile(b, m, fl)
    /\ UNCHANGED removed

UserCopy(f, b) ==
    /\ UserStep("copy")
    /\ OnDisk(f) /\ disk[f].box # b
    /\ PutFile(b, disk[f].mid, disk[f].fl)
    /\ UNCHANGED removed

\* A flag is set, or the message is only taken out of new/.
UserFlag(f, fl) ==
    /\ UserStep("flag")
    /\ OnDisk(f)
    /\ disk[f].fl \subseteq fl /\ (disk[f].sub = "new" \/ disk[f].fl # fl)
    /\ disk' = [disk EXCEPT ![f].sub = "cur", ![f].fl = fl]
    /\ dirty' = dirty \cup {disk[f].box}
    /\ UNCHANGED <<nextFile, removed>>

UserUnflag(f, fl) ==
    /\ UserStep("unflag")
    /\ disk[f].sub = "cur" /\ fl \subseteq disk[f].fl /\ fl # disk[f].fl
    /\ disk' = [disk EXCEPT ![f].fl = fl]
    /\ dirty' = dirty \cup {disk[f].box}
    /\ UNCHANGED <<nextFile, removed>>

\* A move to another folder that keeps the unique part of the name.
UserMove(f, b) ==
    /\ UserStep("move")
    /\ OnDisk(f) /\ disk[f].box # b
    /\ disk' = [disk EXCEPT ![f].box = b, ![f].sub = "cur"]
    /\ dirty' = dirty \cup {b, disk[f].box}
    /\ UNCHANGED <<nextFile, removed>>

\* A move, or a rename within one folder, that gives the file a new name.
UserRename(f, b) ==
    /\ UserStep(IF disk[f].box = b THEN "rename" ELSE "moverename")
    /\ OnDisk(f)
    /\ nextFile \in File
    /\ nextFile' = nextFile + 1
    /\ dirty' = dirty \cup {b, disk[f].box}
    /\ disk' = [disk EXCEPT ![f] = NoFileHere, ![nextFile] = [disk[f] EXCEPT !.box = b, !.sub = "cur"]]
    /\ UNCHANGED removed

UserDelete(f) ==
    /\ UserStep("delete")
    /\ OnDisk(f)
    /\ disk' = [disk EXCEPT ![f] = NoFileHere]
    /\ dirty' = dirty \cup {disk[f].box}
    /\ removed' = removed \cup {disk[f].mid}
    /\ UNCHANGED nextFile

\* The state DB is removed between two runs: it is disposable.
DbLost ==
    /\ "dbloss" \in UserOps \cap budget.may
    /\ pc = "idle"
    /\ Spend("user")
    /\ Disturb
    /\ rows' = [e \in Email |-> NoRow]
    /\ ls' = [f \in File |-> NoState]
    /\ cursor' = NoCursor
    /\ dirty' = Box
    /\ UNCHANGED <<diskVars, serverVars, cycleVars, removed, foreignMove>>

UserActs ==
    \/ \E b \in Box :
         \/ \E m \in Mid, fl \in SUBSET Flag : UserNew(b, m, fl)
         \/ \E f \in File : UserCopy(f, b) \/ UserMove(f, b) \/ UserRename(f, b)
    \/ \E f \in File, fl \in SUBSET Flag : UserFlag(f, fl) \/ UserUnflag(f, fl)
    \/ \E f \in File : UserDelete(f)
    \/ DbLost

-----------------------------------------------------------------------------
(* Other clients of the server.                                            *)

ServerStep(op) ==
    /\ op \in ServerOps \cap budget.may
    /\ QuietQuery => ~(obs.initial /\ pc \in {"get", "state"})
    /\ Spend("server")
    /\ Disturb
    /\ ver' = ver + 1
    /\ foreign' = foreign \cup {ver'}
    /\ UNCHANGED <<diskVars, dbVars, cycleVars>>

NewEmail(b, m, kw) ==
    /\ nextEmail \in Email
    /\ nextEmail' = nextEmail + 1
    /\ server' = [server EXCEPT ![nextEmail] =
                    [st |-> "live", box |-> b, mid |-> m, kw |-> kw, at |-> ver']]
    /\ UNCHANGED <<removed, foreignMove>>

ServerCreate(b, m, kw) ==
    /\ ServerStep("create")
    /\ m \notin UsedMids
    /\ NewEmail(b, m, kw)

\* A second Email object with the Message-ID of an earlier one.
ServerDuplicate(e, b) ==
    /\ ServerStep("duplicate")
    /\ server[e].st # "none"
    /\ NewEmail(b, server[e].mid, server[e].kw)

ServerFlag(e, kw) ==
    /\ ServerStep(IF server[e].kw \subseteq kw THEN "flag" ELSE "unflag")
    /\ Live(e) /\ server[e].kw # kw
    /\ server' = [server EXCEPT ![e].kw = kw, ![e].at = ver']
    /\ UNCHANGED <<nextEmail, removed, foreignMove>>

ServerMove(e, b) ==
    /\ ServerStep("move")
    /\ Live(e) /\ server[e].box # b
    /\ b = Unsynced => "moveout" \in budget.may
    /\ server' = [server EXCEPT ![e].box = b, ![e].at = ver']
    /\ foreignMove' = foreignMove \cup {e}
    /\ UNCHANGED <<nextEmail, removed>>

ServerDestroy(e) ==
    /\ ServerStep("destroy")
    /\ Live(e)
    /\ server' = [server EXCEPT ![e].st = "gone", ![e].at = ver']
    /\ removed' = removed \cup {server[e].mid}
    /\ UNCHANGED <<nextEmail, foreignMove>>

ServerActs ==
    \/ \E b \in Box \cup {Unsynced} :
         \/ \E m \in Mid, kw \in SUBSET Flag : ServerCreate(b, m, kw)
         \/ \E e \in Email : ServerMove(e, b) \/ (b \in Box /\ ServerDuplicate(e, b))
    \/ \E e \in Email, kw \in SUBSET Flag : ServerFlag(e, kw)
    \/ \E e \in Email : ServerDestroy(e)

-----------------------------------------------------------------------------
Observe ==
    \/ \E b \in Box : ScanFolder(b)
    \/ FetchChanges \/ ChangesRefused \/ QueryMailboxes \/ GetEmails \/ GetState
    \/ MakePlan

Execute ==
    \/ AdoptAll
    \/ \E d \in plan.down : DownloadOne(d) \/ DownloadGone(d)
    \/ \E a \in plan.lflag : LocalFlag(a) \/ LocalFlagSkipped(a)
    \/ \E a \in plan.lmove : LocalMove(a) \/ LocalMoveSkipped(a)
    \/ \E a \in plan.ldel : LocalDelete(a)
    \/ \E u \in plan.up : UploadOne(u) \/ UploadSkipped(u)
    \/ \E i \in imported : CommitUpload(i)
    \/ \E refused \in SUBSET Email : RemoteSet(refused)
    \/ MirrorSet
    \/ AdoptPairs
    \/ IndexRefuses
    \/ AdvanceCursor
    \/ Checkpoint

Fails == UploadError \/ CycleDies \/ DiesAfterDisk

Next ==
    \/ \E d \in Directions : StartCycle(d)
    \/ Observe
    \/ Execute
    \/ Fails
    \/ UserActs
    \/ ServerActs

Spec == Init /\ [][Next]_vars

\* The daemon, or whoever runs the command, starts cycle after cycle, and a
\* cycle that nothing stops goes on.
FairSpec == Spec /\ WF_vars(\E d \in Directions : StartCycle(d)) /\ WF_vars(Observe \/ Execute)
-----------------------------------------------------------------------------
MaildirFile ==
    {NoFileHere} \cup [sub : {"cur", "new"}, box : Box, mid : Mid, fl : SUBSET Flag]
EmailObject == [st : {"none", "live", "gone"}, box : Box \cup {Unsynced}, mid : Mid,
                kw : SUBSET Flag, at : Nat]
LocalState == {NoState} \cup [box : Box, fl : SUBSET Flag]
Imported == [u : NewMessage, e : Email]
Mirrors == [rkw : SUBSET UpdateRemoteKeywords, rdel : SUBSET Email]

DiskTypes == disk \in [File -> MaildirFile] /\ nextFile \in 1 .. MaxFile + 1
ServerTypes ==
    /\ server \in [Email -> EmailObject] /\ nextEmail \in 1 .. MaxEmail + 1
    /\ ver \in Nat \ {0} /\ foreign \subseteq 1 .. ver
DbTypes ==
    /\ rows \in Rows /\ ls \in [File -> LocalState]
    /\ cursor \in 0 .. ver /\ dirty \subseteq Box
ScanTypes ==
    /\ pc \in Phases /\ dir \in {"Both", "PullOnly", "PushOnly"} /\ todo \subseteq Box
    /\ obs \in Observation /\ ids \subseteq Email /\ newState \in 0 .. ver
ExecTypes ==
    /\ plan \in Plan /\ imported \subseteq Imported /\ own \subseteq 0 .. ver
    /\ failed \subseteq Email /\ mirrors \in Mirrors /\ held \in BOOLEAN
GhostTypes ==
    /\ removed \subseteq Mid /\ foreignMove \subseteq Email
    /\ calm \in 0 .. CalmCap /\ quiet \in BOOLEAN

\* Every variable keeps its type: a row or a file that is there is in a synced
\* folder, every action of a plan names such a folder, and neither the cursor
\* nor the state a cycle fetched is ahead of the server.
TypeOK == DiskTypes /\ ServerTypes /\ DbTypes /\ ScanTypes /\ ExecTypes /\ GhostTypes

\* No message is lost: whatever a cycle uploads, adopts, moves or deletes, and
\* wherever it dies, a message that nobody removed is still a live email or a
\* file.  (Dedupe, reconcile and every executor phase.)
NothingLost ==
    \A m \in UsedMids \ removed :
        \/ \E e \in Email : Live(e) /\ server[e].mid = m
        \/ \E f \in File : OnDisk(f) /\ disk[f].mid = m

\* The ratchet never carries the cursor over a change of another client: past
\* the state the cycle fetched, it only passes versions the cycle itself made.
\* (resolve_email_cursor and walk_chain.)
CursorSkipsOnlyOwn ==
    [][cursor' \notin {cursor, NoCursor} =>
          /\ cursor' >= newState
          /\ foreign \cap ((newState + 1) .. cursor') = {}]_vars

\* The two tables never disagree: the file a row is bound to has its
\* local_state in the row's folder, so the scan never takes a file the engine
\* placed for new or deleted.  (Every transaction of the executor.)
TablesAgree == \A e \in Email : HasRow(rows, e) => ls[rows[e].file].box = rows[e].box

\* The engine moves a file to another folder only if another client moved the
\* email: it never undoes the user's own move.  (handle_known_remote's
\* MoveLocal against the pairs of the move pre-pass.)  A pull-only cycle drops
\* the MoveRemote and keeps its pair, so it must not be among the commands run.
UserMoveSticks ==
    [][pc = "lmove" /\ "PullOnly" \notin budget.may =>
          \A e \in Email : HasRow(rows, e) /\ rows'[e].box # rows[e].box => e \in foreignMove]_vars

\* The engine destroys an email only if the user deleted the message: a move it
\* took for a deletion, or a file it did not find, destroys nothing.
\* (local_deletes and handle_local_delete.)
DestroysOnlyDeleted ==
    [][\A e \in Email : foreign' = foreign /\ Live(e) /\ server'[e].st = "gone"
                            => server[e].mid \in removed]_vars

\* The engine never imports a message the server already has, not even after
\* the state DB was removed: Branch B adopts it instead.  (handle_local_new.)
NoReupload ==
    [][foreign' = foreign /\ nextEmail' # nextEmail =>
          \A e \in Email : Live(e) => server[e].mid # server'[nextEmail].mid]_vars

\* A row is taken from an email and given to another only if the email is gone
\* or out of the synced mailboxes.  (Branch A of try_adopt_remote: two live
\* emails of one Message-ID must not take each other's file cycle after cycle.)
LiveRowsKept ==
    [][\A e \in Email : pc = "adopt" /\ HasRow(rows, e) /\ ~HasRow(rows', e)
                            => ~(Live(e) /\ server[e].box \in Box)]_vars

Paired(e, f) ==
    /\ Live(e) /\ OnDisk(f)
    /\ rows[e].file = f
    /\ {server[e].box, rows[e].box, ls[f].box} = {disk[f].box}
    /\ {server[e].kw, rows[e].flags, ls[f].fl} = {disk[f].fl}

\* Of several emails with one Message-ID in one mailbox, one has the file.
AllPulled ==
    \A e \in Email : Live(e) /\ server[e].box \in Box =>
        \E x \in Email, f \in File :
            Paired(x, f) /\ server[x].mid = server[e].mid /\ server[x].box = server[e].box
\* A file in new/ that no row knows is nobody's yet: the scan leaves it alone.
AllPushed ==
    \A f \in File : disk[f].sub = "cur" \/ (OnDisk(f) /\ HasState(f)) =>
        \E e \in Email : Paired(e, f)

\* Two undisturbed full cycles bring every email of a synced mailbox to disk, in
\* its folder and with its flags, and both tables agree that it is there.
\* (What fetch_remote_state returned, what the cursor passed, what was held.)
PullConverges == calm = CalmCap => AllPulled

\* Two undisturbed full cycles bring every file to the server, in its mailbox
\* and with its keywords, and both tables agree.  (Scan, uploads, Email/set.)
PushConverges == calm = CalmCap => AllPushed

\* The engine never has two files of one message in one folder, not even after
\* the state DB was removed: a file on disk is adopted, not downloaded again.
\* (Branch B of try_adopt_remote and the dedupe walk that feeds it.)
NoRedownload ==
    \A f, g \in File : OnDisk(f) /\ OnDisk(g) /\ disk[f].mid = disk[g].mid
                          /\ disk[f].box = disk[g].box => f = g

\* Whatever the user and other clients did, the maildir, the tables and the
\* server end up in sync and stay so.  (The whole cycle, run again and again.)
EventuallyInSync == <>[](AllPulled /\ AllPushed)
=============================================================================
