------------------------------- MODULE Watch --------------------------------
(***************************************************************************)
(* The watch daemon: from a change, on disk or on the server, to the cycle *)
(* that looks at it.  The watcher debounces file events, classifies each   *)
(* batch and drops the echoes of jma's own writes; the event source turns  *)
(* state changes of the server into triggers; the runner coalesces what is *)
(* in the trigger channel, runs one cycle for it, and rebuilds its session *)
(* when a cycle fails for a transport error.                               *)
(*                                                                         *)
(* A cycle is two steps here, the local scan and all the rest: SyncCycle   *)
(* has the rest in detail.  A message file is in one bound folder; its     *)
(* place says which of the subdirectories it is in, and under which flags. *)
(***************************************************************************)
EXTENDS Integers, Sequences, SequencesExt, FiniteSets

CONSTANTS
    Files,          \* maildir ids in a folder that is bound
    Folders,        \* other directories of the maildir root
    NotifyCap,      \* capacity of the watcher's channel (100 in the code)
    ChanCap,        \* capacity of the trigger channel (32 in the code)
    MaxBackoff,     \* RECONNECT_MAX_BACKOFF, in units of the initial backoff
    Links,          \* what the server may answer: "up", "unreachable",
                    \*   "unavailable" (5xx) or "unauthorized"
    Urls,           \* how the account finds its server: "configured", "cached"
    SplitsEchoes,   \* may the debouncer split a burst that has an own write?
    Overlaps,       \* may a file change again before the last change is synced?
    Budget          \* how many things may happen to the daemon, in all

ASSUME CapAssumption ==
    NotifyCap \in Nat \ {0} /\ ChanCap \in Nat \ {0} /\ MaxBackoff \in Nat \ {0}
ASSUME LinkAssumption ==
    "up" \in Links /\ Links \subseteq {"up", "unreachable", "unavailable", "unauthorized"}
ASSUME DisjointAssumption == Files \cap Folders = {} /\ "server" \notin Files \cup Folders
ASSUME FiniteAssumption == IsFiniteSet(Files) /\ Budget \in Nat
ASSUME UrlAssumption == Urls \subseteq {"configured", "cached"}

VARIABLES
    disk,           \* disk[f]: the place of a file, or "gone"
    fresh,          \* ids no file has had yet
    dirs,           \* dirs[d]: is it a maildir, and has it a sentinel?
    srv, state,     \* the server: flags of each email, and the Email state
    link,           \* how the server answers
    db, cursor,     \* message_map and jmap_state
    bound,          \* the folders mailbox_map knows
    events,         \* paths in the debouncer
    young,          \* young[f]: the paths that the last rename of f touched
    late,           \* paths in the debouncer whose burst is partly emitted
    cache,          \* SelfWriteCache: what each record() still holds, oldest first
    notifyQ, chan,  \* the two channels of triggers
    permit,         \* the Notify of the TUI's 's' key
    stream,         \* the SSE connection: "off", "closed", "open", "stale"
    push, last,     \* states on their way to us, and last_states
    sending,        \* the listener is inside tx.send()
    url,            \* session_url "configured", or its discovery "cached" or "none"
    backoff,        \* WatchDaemon.backoff
    pc, boot,       \* where the runner is; is this the initial sync?
    batch,          \* the triggers received in this coalescing window
    seen,           \* what the scan of this cycle made of files and folders
    excused,        \* ghost: changes lost in a way the code accepts
    left            \* what is left of Budget

world == <<disk, fresh, dirs, srv, state, link>>
store == <<db, cursor, bound>>
fsvars == <<events, young, late, cache, notifyQ>>
ssevars == <<stream, push, last, sending>>
runvars == <<url, backoff, pc, boot, batch, seen>>
vars == <<world, store, fsvars, chan, permit, ssevars, runvars, excused, left>>

Places == {"new", "cur", "curS"}
FlagsOf(place) == IF place = "curS" THEN "S" ELSE "-"

FilePaths == Files \X Places
DirPaths == Folders \X {"dir", "trio"}

LocalChange(paths) == [kind |-> "local", paths |-> paths]
Whole(kind) == [kind |-> kind, paths |-> {}]
Triggers == [kind : {"local", "structural", "remote", "manual", "initial"}, paths : SUBSET FilePaths]

\* The operators named X_Mistake, each before its X, are not part of the model:
\* each is a plausible slip in X that one of the properties must notice.

-----------------------------------------------------------------------------
(* What counts as a change nobody has looked at.                           *)

\* A file in new/ is news to nobody: jma put it there, or a mail program will
\* promote it.  Everything else is read from its name.
Differs(f) ==
    \/ disk[f] = "gone" /\ db[f] # "none"
    \/ disk[f] \in {"cur", "curS"} /\ FlagsOf(disk[f]) # db[f]

DirDiffers(d) == (dirs[d] # "absent") # (d \in bound)

\* A folder came or went after the scan of the cycle that runs.
Misread(d) ==
    /\ pc = "exchange" /\ seen[d] # "same"
    /\ (dirs[d] # "absent") # (seen[d] = "there")

\* The server as one more thing that may have changed.
Server == "server"

Unseen ==
    {f \in Files : Differs(f)} \cup {d \in Folders : DirDiffers(d) \/ Misread(d)}
        \cup (IF cursor < state THEN {Server} ELSE {})

-----------------------------------------------------------------------------
(* The watcher: classify_batch and what it is made of.                     *)

\* watcher.rs: a batch that only names live files of new/ cannot matter.
batch_might_emit_changes(paths) ==
    \E p \in paths : p[2] \in {"cur", "curS"} \/ disk[p[1]] # p[2]

\* The cache speaks for a batch only when it knows every path of it.
Cached == UNION ToSet(cache)
matches_all_Mistake(paths) == paths \cap Cached # {}
matches_all(paths) == paths # {} /\ paths \subseteq Cached

\* classify.rs: a trio that is gone, or intact in a folder jma has not bound;
\* any other path if it is a maildir now.
fires(p) ==
    IF p[2] = "trio" THEN dirs[p[1]] # "bound" ELSE dirs[p[1]] # "absent"

batch_fires(paths) == \E p \in paths : fires(p)

\* The message paths of a batch that survive the two filters.
Surviving(paths) ==
    IF batch_might_emit_changes(paths) /\ ~matches_all(paths) THEN paths ELSE {}

\* The trigger of a batch, if it has one.
classify_batch(paths) ==
    LET messages == Surviving(paths \cap FilePaths)
    IN  IF batch_fires(paths \cap DirPaths)
        THEN {[kind |-> "structural", paths |-> messages]}
        ELSE IF messages # {} THEN {LocalChange(messages)} ELSE {}

\* The entries a batch uses up.
Evicted(paths) ==
    LET messages == paths \cap FilePaths
    IN  IF batch_might_emit_changes(messages) /\ matches_all(messages)
        THEN messages ELSE {}

\* A path that was written again, or was seen, leaves the entry it had; an entry
\* with no path left expires without effect.
Without(groups, paths) == [i \in DOMAIN groups |-> groups[i] \ paths]

\* What the cache hides when it takes a user's act for an echo.  DEVELOPMENT.md
\* accepts that a file jma has just written may be deleted unseen.
Swallowed(paths) ==
    {f \in Files : Differs(f) /\ \E p \in paths : p[1] = f /\ (paths \cap ({f} \X Places)) \subseteq Cached}

-----------------------------------------------------------------------------
(* The runner: coalescing, and what a scan makes of the disk.              *)

coalesce_triggers_Mistake(ts) == ts[1]

\* coalesce_triggers: the broadest kind wins; paths are kept for the others.
coalesce_triggers(ts) ==
    LET kinds == {ts[i].kind : i \in DOMAIN ts}
        paths == UNION {ts[i].paths : i \in DOMAIN ts}
    IN  IF "initial" \in kinds THEN Whole("initial")
        ELSE IF "manual" \in kinds THEN Whole("manual")
        ELSE IF "remote" \in kinds THEN Whole("remote")
        ELSE IF "structural" \in kinds THEN [kind |-> "structural", paths |-> paths]
        ELSE LocalChange(paths)

IsFull(t) == t.kind # "local"

\* scan_folder looks at every file, scan_paths only at the names it is given:
\* a file that is under none of them counts as deleted.
FullVerdict(f) ==
    IF disk[f] = "gone" THEN "deleted"
    ELSE IF disk[f] = "new" THEN "same" ELSE FlagsOf(disk[f])

PathVerdict(f, paths) ==
    IF \A p \in paths : p[1] # f THEN "same"
    ELSE IF <<f, disk[f]>> \notin paths THEN "deleted"
    ELSE FullVerdict(f)

Verdict(f, t) ==
    LET v == IF IsFull(t) THEN FullVerdict(f) ELSE PathVerdict(f, t.paths)
    IN  IF v = "deleted" /\ db[f] = "none" THEN "same" ELSE v

\* LocalChange::FlagsChanged, NewMessage, DeletedMessage
Changed(f) == seen[f] \notin {"same", db[f]}

FolderVerdict(d, t) ==
    IF ~IsFull(t) THEN "same" ELSE IF dirs[d] = "absent" THEN "deleted" ELSE "there"

SeenAs(t) ==
    [x \in Files \cup Folders |-> IF x \in Files THEN Verdict(x, t) ELSE FolderVerdict(x, t)]

-----------------------------------------------------------------------------
(* Where a change may be on its way to a cycle.                            *)

TriggersInFlight ==
    ToSet(notifyQ) \cup ToSet(chan) \cup (IF pc \in {"window", "scan"} THEN ToSet(batch) ELSE {})

\* Paths that fire whatever a cycle binds in the meantime.
Signals(p) == (p[2] = "trio") = (dirs[p[1]] = "absent")

FullOnItsWay ==
    \/ \E t \in TriggersInFlight : IsFull(t)
    \/ permit \/ sending
    \/ boot /\ pc \in {"connect", "scan"}
    \/ \E p \in events \cap DirPaths : Signals(p)

FetchDue == IsFull(batch[1]) \/ \E f \in Files : Changed(f)

\* What the scan made of x is what there is, and the exchange will act on it.
WillSettle(x) ==
    /\ pc = "exchange"
    /\ IF x = Server THEN FetchDue
       ELSE IF x \in Files THEN Changed(x)
       ELSE seen[x] # "same" /\ ~Misread(x)

OnItsWay(x) ==
    \/ FullOnItsWay
    \/ \E p \in events \cap FilePaths : p[1] = x
    \/ \E t \in TriggersInFlight : \E p \in t.paths : p[1] = x
    \/ WillSettle(x)
    \/ x = Server /\ \E i \in DOMAIN push : push[i] # last

Lost == {x \in Unseen : ~OnItsWay(x)}

-----------------------------------------------------------------------------
(* The environment: mail programs, other clients, the network, and the     *)
(* user at the TUI.                                                        *)

Settled(f) ==
    /\ \A p \in events \cup UNION {t.paths : t \in TriggersInFlight} : p[1] # f
    /\ ~Differs(f) /\ srv[f] = db[f]

Spends == left > 0 /\ left' = left - 1

\* A mail program renames, promotes or deletes a file, or drops a new one.
UserActs(f, to) ==
    /\ Spends
    /\ to # disk[f]
    /\ disk[f] # "gone" \/ (f \in fresh /\ to # "gone")
    /\ Overlaps \/ Settled(f)
    /\ disk' = [disk EXCEPT ![f] = to]
    /\ fresh' = fresh \ {f}
    /\ LET names == {<<f, disk[f]>>, <<f, to>>} \cap FilePaths
       IN  events' = events \cup names /\ young' = [young EXCEPT ![f] = names]
    /\ UNCHANGED <<dirs, srv, state, link, store, late, cache, notifyQ, chan, permit,
                   ssevars, runvars, excused>>

FolderActs(d, becomes, paths) ==
    /\ dirs' = [dirs EXCEPT ![d] = becomes]
    /\ events' = events \cup paths
    /\ UNCHANGED <<disk, fresh, srv, state, link, store, young, late, cache, notifyQ, chan,
                   permit, ssevars, runvars>>

MakeFolder(d) ==
    /\ Spends /\ dirs[d] = "absent"
    /\ FolderActs(d, "unbound", {<<d, "dir">>, <<d, "trio">>})
    /\ UNCHANGED excused

RemoveFolder(d) ==
    /\ Spends /\ dirs[d] # "absent"
    /\ FolderActs(d, "absent", {<<d, "dir">>, <<d, "trio">>})
    /\ UNCHANGED excused

RenameFolder(d, e) ==
    /\ Spends /\ dirs[d] # "absent" /\ dirs[e] = "absent"
    /\ dirs' = [dirs EXCEPT ![d] = "absent", ![e] = dirs[d]]
    /\ events' = events \cup {<<d, "dir">>, <<e, "dir">>}
    /\ UNCHANGED <<disk, fresh, srv, state, link, store, young, late, cache, notifyQ, chan,
                   permit, ssevars, runvars, excused>>

\* A folder moved out of the tree leaves no signal, nor then does the place
\* it was renamed from; classify.rs says so.
MoveFolderOut(d) ==
    /\ Spends /\ dirs[d] # "absent"
    /\ FolderActs(d, "absent", {<<d, "dir">>})
    /\ excused' = excused \cup Lost'

\* FSEvents may report churn inside cur/ as an event on cur itself.
Churn(d) ==
    /\ Spends /\ dirs[d] # "absent"
    /\ FolderActs(d, dirs[d], {<<d, "trio">>})
    /\ UNCHANGED excused

Pushed == IF stream = "open" THEN Append(push, state') ELSE push

\* Another client delivers, flags or destroys an email.
ServerActs(f, to) ==
    /\ Spends
    /\ to # srv[f]
    /\ srv[f] = "none" => f \in fresh
    /\ Overlaps \/ Settled(f)
    /\ fresh' = fresh \ {f}
    /\ srv' = [srv EXCEPT ![f] = to]
    /\ state' = state + 1
    /\ push' = Pushed
    /\ UNCHANGED <<disk, dirs, link, store, fsvars, chan, permit, stream, last, sending, runvars>>
    /\ excused' = excused \cup (Lost' \cap {Server})

LinkChanges(to) ==
    /\ Spends /\ to # link
    /\ link' = to
    /\ UNCHANGED <<disk, fresh, dirs, srv, state, store, fsvars, chan, permit, ssevars, runvars, excused>>

LinkRestored ==
    /\ link # "up"
    /\ link' = "up"
    /\ UNCHANGED <<disk, fresh, dirs, srv, state, store, fsvars, chan, permit, ssevars, runvars,
                   excused, left>>

PressesS ==
    /\ Spends /\ ~permit
    /\ permit' = TRUE
    /\ UNCHANGED <<world, store, fsvars, chan, ssevars, runvars, excused>>

-----------------------------------------------------------------------------
(* The watcher.                                                            *)

\* The debouncer emits the paths that have been still for long enough: of one
\* file the older ones first, of one burst maybe only a part.
CanEmit(S) ==
    /\ S # {} /\ S \subseteq events
    /\ \A f \in Files :
          LET mine == {p \in events : p[1] = f}
          IN  /\ S \cap young[f] # {} => mine \ young[f] \subseteq S
              /\ (~SplitsEchoes /\ young[f] \cap Cached # {} /\ S \cap mine # {}) => mine \subseteq S

\* One callback of the debouncer: classify the batch and, if it is worth a
\* trigger, send it; a full channel blocks the thread.
Flush(S) ==
    /\ CanEmit(S)
    /\ Len(notifyQ) < NotifyCap
    /\ notifyQ' = notifyQ \o SetToSeq(classify_batch(S))
    /\ cache' = Without(cache, Evicted(S))
    /\ events' = events \ S
    /\ late' = (late \cup UNION {young[f] : f \in {g \in Files : young[g] \cap S # {}}}) \cap events'
    /\ excused' = excused \cup Swallowed(S)
    /\ UNCHANGED <<world, store, young, chan, permit, ssevars, runvars, left>>

Forward ==
    /\ notifyQ # <<>> /\ Len(chan) < ChanCap
    /\ chan' = Append(chan, Head(notifyQ))
    /\ notifyQ' = Tail(notifyQ)
    /\ UNCHANGED <<world, store, events, young, late, cache, permit, ssevars, runvars, excused, left>>

\* The TTL of the oldest self-write runs out.
Expires ==
    /\ cache # <<>>
    /\ cache' = Tail(cache)
    /\ UNCHANGED <<world, store, events, young, late, notifyQ, chan, permit, ssevars, runvars, excused, left>>

forward_manual_triggers ==
    /\ permit /\ Len(chan) < ChanCap
    /\ permit' = FALSE
    /\ chan' = Append(chan, Whole("manual"))
    /\ UNCHANGED <<world, store, fsvars, ssevars, runvars, excused, left>>

-----------------------------------------------------------------------------
(* The event source.                                                       *)

StreamOpens ==
    /\ stream = "closed" /\ link = "up"
    /\ stream' = "open"
    /\ UNCHANGED <<world, store, fsvars, chan, permit, push, last, sending, runvars, excused, left>>

\* The stream ends, or dies without a sign; what it carried is gone.
StreamFails(to) ==
    /\ Spends
    /\ stream = "open" /\ ~sending
    /\ stream' = to
    /\ push' = <<>>
    /\ UNCHANGED <<world, store, fsvars, chan, permit, last, sending, runvars>>
    /\ excused' = excused \cup (Lost' \cap {Server})

Watchdog_Mistake == stream = "stale" /\ UNCHANGED vars

\* No event within the ping interval and its slack: give the stream up.
Watchdog ==
    /\ stream = "stale"
    /\ stream' = "closed"
    /\ UNCHANGED <<world, store, fsvars, chan, permit, push, last, sending, runvars, excused, left>>

\* decide_trigger: a state that is not the one we saw last is a trigger.
ReceiveState ==
    /\ push # <<>> /\ ~sending
    /\ push' = Tail(push)
    /\ last' = Head(push)
    /\ sending' = (Head(push) # last)
    /\ UNCHANGED <<world, store, fsvars, chan, permit, stream, runvars, excused, left>>

SendRemoteChange_Mistake ==
    /\ sending
    /\ chan' = Append(chan, Whole("remote"))
    /\ sending' = FALSE
    /\ UNCHANGED <<world, store, fsvars, permit, stream, push, last, runvars, excused, left>>

SendRemoteChange ==
    /\ sending /\ Len(chan) < ChanCap
    /\ chan' = Append(chan, Whole("remote"))
    /\ sending' = FALSE
    /\ UNCHANGED <<world, store, fsvars, permit, stream, push, last, runvars, excused, left>>

-----------------------------------------------------------------------------
(* The runner.                                                             *)

\* discovery::discover: a redirect or a 200 of the well-known URL; no token is
\* needed for it.
Discovers == link \in {"up", "unauthorized"}

\* is_transient_error of what connect returns: nobody answers, or a 5xx from
\* the session itself.  The 5xx of a discovery is a plain text error.
TransientConnect == link = "unreachable" \/ (link = "unavailable" /\ url = "configured")

Doubled(b) == IF 2 * b > MaxBackoff THEN MaxBackoff ELSE 2 * b

Connected ==
    /\ pc = "connect" /\ link = "up"
    /\ url' = IF url = "none" /\ Discovers THEN "cached" ELSE url
    /\ pc' = IF boot THEN "scan" ELSE "session"
    /\ backoff' = IF boot THEN backoff ELSE Doubled(backoff)
    /\ UNCHANGED <<world, store, fsvars, chan, permit, ssevars, boot, batch, seen, excused, left>>

\* Whatever the error, the row is cleared and discovery is tried.
CachedUrlFails ==
    /\ pc = "connect" /\ link # "up" /\ url = "cached"
    /\ url' = "none"
    /\ UNCHANGED <<world, store, fsvars, chan, permit, ssevars, backoff, pc, boot, batch, seen,
                   excused, left>>

\* A transient failure is retried for ever, any other ends the daemon.
ConnectFails ==
    /\ pc = "connect" /\ link # "up" /\ url # "cached"
    /\ url' = IF url = "none" /\ Discovers THEN "cached" ELSE url
    /\ pc' = IF TransientConnect THEN "connect" ELSE "dead"
    /\ UNCHANGED <<world, store, fsvars, chan, permit, ssevars, backoff, boot, batch, seen,
                   excused, left>>

OpenSession_KeepsLast ==
    /\ pc = "session"
    /\ pc' = "recv"
    /\ stream' = "closed"
    /\ UNCHANGED <<world, store, fsvars, chan, permit, push, last, sending, url, backoff, boot, batch,
                   seen, excused, left>>

\* The head of session(): seed last_states from the DB, spawn the listener.
OpenSession ==
    /\ pc = "session"
    /\ pc' = "recv"
    /\ stream' = "closed"
    /\ last' = cursor
    /\ UNCHANGED <<world, store, fsvars, chan, permit, push, sending, url, backoff, boot, batch,
                   seen, excused, left>>

\* No token, no metadata: session() returns as after a transport error.
SetupFails ==
    /\ pc = "session" /\ Spends
    /\ pc' = "backoff"
    /\ UNCHANGED <<world, store, fsvars, chan, permit, ssevars, url, backoff, boot, batch, seen, excused>>

\* The DB fails under get_jmap_state: the watch loop ends.
SessionAborts ==
    /\ pc = "session"
    /\ pc' = "dead"
    /\ UNCHANGED <<world, store, fsvars, chan, permit, ssevars, url, backoff, boot, batch, seen,
                   excused, left>>

SleepsBackoff ==
    /\ pc = "backoff"
    /\ pc' = "connect"
    /\ UNCHANGED <<world, store, fsvars, chan, permit, ssevars, url, backoff, boot, batch, seen,
                   excused, left>>

Receive ==
    /\ pc \in {"recv", "window"} /\ chan # <<>>
    /\ batch' = Append(batch, Head(chan))
    /\ chan' = Tail(chan)
    /\ pc' = "window"
    /\ UNCHANGED <<world, store, fsvars, permit, ssevars, url, backoff, boot, seen, excused, left>>

WindowElapses_Mistake ==
    /\ pc = "window"
    /\ batch' = <<coalesce_triggers(batch)>>
    /\ pc' = "scan"
    /\ UNCHANGED <<world, store, fsvars, chan, permit, ssevars, url, backoff, boot, seen, excused, left>>

\* The window has been quiet for its whole length.  It is longer than the gap
\* between two halves of one burst, and than the way through the channels.
WindowElapses ==
    /\ pc = "window"
    /\ chan = <<>> /\ notifyQ = <<>> /\ late = {}
    /\ batch' = <<coalesce_triggers(batch)>>
    /\ pc' = "scan"
    /\ UNCHANGED <<world, store, fsvars, chan, permit, ssevars, url, backoff, boot, seen, excused, left>>

\* Phase 1 of engine.run.  What this look covers is no longer excused.
Scan ==
    /\ pc = "scan" /\ link = "up"
    /\ seen' = SeenAs(batch[1])
    /\ pc' = "exchange"
    /\ excused' = IF IsFull(batch[1]) THEN excused \cap {Server} ELSE excused
    /\ UNCHANGED <<world, store, fsvars, chan, permit, ssevars, url, backoff, boot, batch, left>>

-----------------------------------------------------------------------------
(* The rest of a cycle.  A local change wins over a remote one.            *)

Pulled(f) == FetchDue /\ ~Changed(f) /\ srv[f] # db[f]

\* Deliveries go to new/ unless they are seen; flag updates end in cur/.
DiskAfter(f) ==
    IF ~Pulled(f) THEN disk[f]
    ELSE IF srv[f] = "none" THEN "gone"
    ELSE IF db[f] = "none" THEN IF srv[f] = "S" THEN "curS" ELSE "new"
    ELSE IF disk[f] = "gone" THEN "gone"
    ELSE IF srv[f] = "S" THEN "curS" ELSE "cur"

DbAfter(f) ==
    IF Changed(f) THEN IF seen[f] = "deleted" THEN "none" ELSE seen[f]
    ELSE IF Pulled(f) /\ ~(disk[f] = "gone" /\ db[f] # "none" /\ srv[f] # "none")
    THEN srv[f] ELSE db[f]

SrvAfter(f) ==
    IF ~Changed(f) THEN srv[f] ELSE IF seen[f] = "deleted" THEN "none" ELSE seen[f]

Written == {f \in Files : DiskAfter(f) # disk[f]}

NamesOf(f) == {<<f, disk[f]>>, <<f, DiskAfter(f)>>} \cap FilePaths

\* What the executor records: the name it wrote and, for a delivery to new/,
\* the name a mail program will give it next.
SelfWrites(f) ==
    {<<f, DiskAfter(f)>>} \cup (IF DiskAfter(f) = "new" THEN {<<f, "cur">>} ELSE {})

Recorded ==
    LET groups == {SelfWrites(f) : f \in {g \in Written : DiskAfter(g) # "gone"}}
    IN  Without(cache, UNION groups) \o SetToSeq(groups)

\* A path-scoped cycle that found nothing stops before it fetches.
Exchange ==
    /\ pc = "exchange" /\ link = "up"
    /\ LET pushes == \E f \in Files : Changed(f)
       IN  /\ state' = IF pushes THEN state + 1 ELSE state
           /\ push' = IF pushes /\ stream = "open" THEN Append(push, state') ELSE push
    /\ cursor' = IF FetchDue THEN state' ELSE cursor
    /\ disk' = [f \in Files |-> DiskAfter(f)]
    /\ db' = [f \in Files |-> DbAfter(f)]
    /\ srv' = [f \in Files |-> SrvAfter(f)]
    /\ events' = events \cup UNION {NamesOf(f) : f \in Written}
    /\ young' = [f \in Files |-> IF f \in Written THEN NamesOf(f) ELSE young[f]]
    /\ cache' = Recorded
    /\ bound' = {d \in Folders : seen[d] = "there" \/ (seen[d] = "same" /\ d \in bound)}
    /\ dirs' = [d \in Folders |->
                    IF seen[d] = "there" /\ dirs[d] = "unbound" THEN "bound" ELSE dirs[d]]
    /\ backoff' = 1
    /\ batch' = <<>>
    /\ boot' = FALSE
    /\ pc' = IF boot THEN "session" ELSE "recv"
    /\ excused' = IF FetchDue THEN excused \ {Server} ELSE excused
    /\ UNCHANGED <<fresh, link, late, notifyQ, chan, permit, stream, last, sending, url, seen, left>>

\* A cycle fails: what its triggers stood for is forgotten with them.
CycleFails(next) ==
    /\ pc \in {"scan", "exchange"}
    /\ pc' = next
    /\ boot' = FALSE
    /\ batch' = <<>>
    /\ UNCHANGED <<world, store, fsvars, chan, permit, last, url, backoff, seen, left>>

\* A transient error ends the session, and its listener with it; the initial
\* sync only logs it.
CycleFailsTransient ==
    /\ link \in {"unreachable", "unavailable"}
    /\ CycleFails(IF boot THEN "session" ELSE "backoff")
    /\ stream' = "off" /\ push' = <<>> /\ sending' = FALSE
    /\ excused' = excused \cup Lost'

\* Any other error is logged, and the session goes on.
CycleFailsHard ==
    /\ link = "unauthorized"
    /\ CycleFails(IF boot THEN "session" ELSE "recv")
    /\ UNCHANGED <<stream, push, sending>>
    /\ excused' = excused \cup Lost'

-----------------------------------------------------------------------------
\* A start after a stop: the DB knows some files; the user or other clients may
\* have acted while the daemon was down.
Init ==
    /\ fresh \in SUBSET Files
    /\ disk \in [Files -> {"gone", "new", "cur"}]
    /\ srv = [f \in Files |-> IF disk[f] = "gone" THEN "none" ELSE "-"]
    /\ \A f \in Files : f \in fresh <=> disk[f] = "gone"
    /\ db = srv
    /\ state = 0 /\ cursor = 0 /\ link = "up"
    /\ dirs = [d \in Folders |-> "absent"] /\ bound = {}
    /\ events = {} /\ late = {} /\ young = [f \in Files |-> {}]
    /\ cache = <<>> /\ notifyQ = <<>> /\ chan = <<>> /\ permit = FALSE
    /\ stream = "off" /\ push = <<>> /\ last = 0 /\ sending = FALSE
    /\ url \in Urls /\ backoff = 1
    /\ pc = "connect" /\ boot = TRUE
    /\ batch = <<Whole("initial")>>
    /\ seen = [x \in Files \cup Folders |-> "same"]
    /\ excused = {}
    /\ left = Budget

Environment ==
    \/ \E f \in Files, to \in {"gone", "cur", "curS"} : UserActs(f, to)
    \/ \E d \in Folders : MakeFolder(d) \/ RemoveFolder(d) \/ MoveFolderOut(d) \/ Churn(d)
    \/ \E d, e \in Folders : RenameFolder(d, e)
    \/ \E f \in Files, to \in {"none", "-", "S"} : ServerActs(f, to)
    \/ \E to \in Links : LinkChanges(to)
    \/ LinkRestored
    \/ PressesS
    \/ \E to \in {"closed", "stale"} : StreamFails(to)

Watcher == (\E S \in SUBSET events : Flush(S)) \/ Forward
EventSource == StreamOpens \/ Watchdog \/ ReceiveState \/ SendRemoteChange
Runner ==
    \/ Connected \/ CachedUrlFails \/ ConnectFails \/ OpenSession \/ SetupFails
    \/ SessionAborts \/ SleepsBackoff \/ Receive \/ WindowElapses \/ Scan \/ Exchange \/ CycleFailsTransient \/ CycleFailsHard

Next ==
    \/ Environment \/ Watcher \/ EventSource \/ Runner
    \/ forward_manual_triggers
    \/ Expires

\* Every task of the daemon is polled; the link comes back.  The environment
\* need not act.
Fairness ==
    /\ WF_vars(\E S \in SUBSET events : Flush(S))
    /\ WF_vars(Forward) /\ WF_vars(forward_manual_triggers)
    /\ WF_vars(StreamOpens) /\ WF_vars(Watchdog)
    /\ WF_vars(ReceiveState) /\ WF_vars(SendRemoteChange)
    /\ WF_vars(Runner)
    /\ WF_vars(LinkRestored)

Spec == Init /\ [][Next]_vars /\ Fairness

-----------------------------------------------------------------------------
\* Every variable keeps its type; the channels stay within their capacity.
TypeOK ==
    /\ disk \in [Files -> Places \cup {"gone"}] /\ fresh \subseteq Files
    /\ dirs \in [Folders -> {"absent", "unbound", "bound"}]
    /\ srv \in [Files -> {"none", "-", "S"}] /\ db \in [Files -> {"none", "-", "S"}]
    /\ state \in Nat /\ cursor \in 0 .. state /\ bound \subseteq Folders /\ link \in Links
    /\ events \subseteq FilePaths \cup DirPaths /\ late \subseteq events
    /\ young \in [Files -> SUBSET FilePaths] /\ cache \in Seq(SUBSET FilePaths)
    /\ {notifyQ, chan, batch} \subseteq Seq(Triggers)
    /\ Len(notifyQ) <= NotifyCap /\ Len(chan) <= ChanCap
    /\ permit \in BOOLEAN /\ sending \in BOOLEAN /\ boot \in BOOLEAN
    /\ url \in {"configured", "cached", "none"} /\ stream \in {"off", "closed", "open", "stale"}
    /\ push \in Seq(Nat) /\ last \in Nat
    /\ backoff \in 1 .. MaxBackoff /\ left \in 0 .. Budget
    /\ pc \in {"connect", "session", "recv", "window", "scan", "exchange", "backoff", "dead"}
    /\ seen \in [Files \cup Folders -> {"same", "deleted", "-", "S", "there"}]
    /\ \A f \in Files : seen[f] # "there"
    /\ excused \subseteq Files \cup Folders \cup {Server}

\* No change is forgotten: while the daemon lives, whatever differs between
\* disk, server and DB is on its way to a cycle that will look at it, or was
\* lost in one of the ways the code accepts: with a cycle that failed, with a
\* stream that was down, in a folder moved out of the tree, or as the deletion
\* of a file jma had just written.
NothingForgotten == pc # "dead" => Lost \subseteq excused

\* A cycle destroys an email only when its file is gone from the disk, however
\* the names of a rename were batched on their way to the scan.
DestroysOnlyGone ==
    [][\A f \in Files : pc' # pc /\ srv[f] # "none" /\ srv'[f] = "none" => disk[f] = "gone"]_vars

\* A cycle that will fetch is ordered: as a full trigger or a request for one, as
\* the initial sync, or by the scan of the cycle that runs.
FetchOrdered ==
    \/ permit \/ sending
    \/ \E t \in TriggersInFlight : IsFull(t)
    \/ boot /\ pc \in {"connect", "scan"}
    \/ pc = "exchange" /\ FetchDue

\* The event source is deaf when it takes a state for old news that the DB has not
\* reached, and no fetch is ordered: announced again, the state would be dropped.
Deaf == stream # "off" /\ last > cursor /\ ~FetchOrdered

\* Only a cycle that fails for good, and is logged and forgotten, can leave the
\* event source deaf: after a reconnect, or a session that starts over, a state
\* whose fetch came to nothing is news again.  (decide_trigger, and last_states
\* seeded from the DB at the head of session().)
OnlyHardErrorsDeafen ==
    [][~Deaf /\ Deaf' => link = "unauthorized" /\ pc \in {"scan", "exchange"}]_vars

\* What runner.rs says of the daemon: a transient connect failure is retried for
\* ever, and only a refused token (or a broken DB) ends it.  A server that is
\* briefly unavailable does not, even where its session URL is only a cached one.
DiesOnlyOfHardErrors ==
    [][pc' = "dead" => pc \in {"session", "dead"} \/ link = "unauthorized"]_vars

\* What the daemon does not excuse, it gets to see.
EventuallySeen ==
    \A x \in Files \cup Folders \cup {Server} :
        x \in Unseen ~> (x \notin Unseen \/ x \in excused \/ pc = "dead")

\* A stream that died in silence is opened again.
StreamRecovers == stream \in {"closed", "stale"} ~> (stream \in {"open", "off"} \/ pc = "dead")
=============================================================================
