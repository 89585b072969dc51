-------------------------------- MODULE Pull --------------------------------
(***************************************************************************)
(* The pull side of a cycle against a server that goes on changing: from   *)
(* the Email state the DB knows, through the pages of Email/changes, or    *)
(* those of Email/query when there is no usable state, and the chunks of   *)
(* Email/get, to the download phase, and only then to the new state.       *)
(* The download phase is what Transfer promises (Downloads implements it). *)
(* There is one mailbox; the local side does nothing here (SyncCycle).     *)
(***************************************************************************)
EXTENDS Transfer, Integers, Sequences, FiniteSets, SequencesExt

CONSTANTS
    Existing,       \* those in the mailbox at first
    QueryPage,      \* QUERY_PAGE_SIZE, what we ask Email/query for
    ServerPage,     \* what the server gives of it at most
    ChangesPage,    \* maxChanges of Email/changes
    GetChunk,       \* MAX_GET_BATCH_SIZE, or the server's maxObjectsInGet
    Totals,         \* may the server give a total, may it omit it?
    Garbles,        \* emails the server may answer without their required ids
    QuietQuery,     \* does the mailbox keep still while it is listed?
    MaxChanges,     \* bound on the changes of the server
    MaxTroubles     \* bound on the cycles that fail

ASSUME PageAssumption ==
    /\ {QueryPage, ServerPage, ChangesPage, GetChunk} \subseteq Nat \ {0}
    /\ Totals # {} /\ Totals \subseteq BOOLEAN /\ Garbles \subseteq Emails
    /\ Existing \subseteq Emails /\ IsFiniteSet(Existing)
    /\ {MaxChanges, MaxTroubles} \subseteq Nat

VARIABLES
    box,        \* the mailbox, in the order of Email/query
    log,        \* the emails changed, oldest first: the Email state is its length
    oldest,     \* the oldest state the server can calculate changes from
    cursor,     \* jmap_state, or NoState
    phase,      \* the step of the cycle
    at,         \* how far Email/changes or a serial Email/query has come
    pages,      \* positions of Email/query still to be asked for
    ids,        \* what is to be asked of Email/get
    destroyed,  \* what Email/changes lists as destroyed
    got,        \* rows of Email/get: email and the change it shows
    new_state,
    mirror,     \* mirror[e]: the change the DB shows of an email it has
    dropped,    \* emails whose last row did not parse
    troubles    \* how many cycles have failed

servervars == <<box, log, oldest>>
fetchvars == <<at, pages, ids, destroyed, got, new_state>>
pvars == <<servervars, cursor, phase, fetchvars, mirror, dropped, troubles, tvars>>

NoState == -1
State == Len(log)
Live == ToSet(box)
LastChange(e) == CHOOSE i \in 0 .. State :
    /\ i = 0 \/ log[i] = e
    /\ \A j \in i + 1 .. State : log[j] # e

-----------------------------------------------------------------------------
(* The server.                                                             *)

Listing == phase \in {"query", "page", "serial", "get-all", "state"}
ServerMayAct == Len(log) < MaxChanges /\ (QuietQuery => ~Listing)

ServerUnchanged == UNCHANGED <<cursor, phase, fetchvars, mirror, dropped, troubles, tvars>>

\* A delivery goes to the head of the list.
Deliver(e) ==
    /\ ServerMayAct /\ LastChange(e) = 0 /\ e \notin Live
    /\ box' = <<e>> \o box
    /\ log' = Append(log, e)
    /\ UNCHANGED oldest /\ ServerUnchanged

Change(e) ==
    /\ ServerMayAct /\ e \in Live
    /\ log' = Append(log, e)
    /\ UNCHANGED <<box, oldest>> /\ ServerUnchanged

Destroy(e) ==
    /\ ServerMayAct /\ e \in Live
    /\ \E i \in DOMAIN box : box[i] = e /\ box' = RemoveAt(box, i)
    /\ log' = Append(log, e)
    /\ UNCHANGED oldest /\ ServerUnchanged

Forget ==
    /\ oldest < State
    /\ oldest' = State
    /\ UNCHANGED <<box, log>> /\ ServerUnchanged

Server ==
    \/ \E e \in Emails : Deliver(e) \/ Change(e) \/ Destroy(e)
    \/ Forget

-----------------------------------------------------------------------------
(* Email/changes.                                                          *)

PullUnchanged == UNCHANGED <<servervars, cursor, mirror, dropped, troubles, tvars>>

fetch_remote_state ==
    /\ phase = "idle"
    /\ phase' = IF cursor = NoState THEN "query" ELSE "changes"
    /\ at' = cursor
    /\ pages' = {} /\ ids' = {} /\ destroyed' = {} /\ got' = {}
    /\ UNCHANGED new_state /\ PullUnchanged

\* The operators named X_Mistake, each before its X, are not part of the model:
\* PROJECT.json puts them in the place of X to show that a property notices.

get_changes_Mistake ==
    /\ phase = "changes" /\ at >= oldest
    /\ LET upto == IF at + ChangesPage < State THEN at + ChangesPage ELSE State
           changed == {log[i] : i \in at + 1 .. upto}
       IN  /\ ids' = ids \cup (changed \cap Live)
           /\ destroyed' = changed \ Live
           /\ at' = upto
           /\ new_state' = upto
           /\ phase' = IF upto < State THEN "changes" ELSE "get"
    /\ UNCHANGED <<pages, got>> /\ PullUnchanged

\* One page: of every email changed since `at` its present fate, and the state
\* up to which that is all.
get_changes ==
    /\ phase = "changes" /\ at >= oldest
    /\ LET upto == IF at + ChangesPage < State THEN at + ChangesPage ELSE State
           changed == {log[i] : i \in at + 1 .. upto}
       IN  /\ ids' = ids \cup (changed \cap Live)
           /\ destroyed' = destroyed \cup (changed \ Live)
           /\ at' = upto
           /\ new_state' = upto
           /\ phase' = IF upto < State THEN "changes" ELSE "get"
    /\ UNCHANGED <<pages, got>> /\ PullUnchanged

is_cannot_calculate_changes_Mistake ==
    /\ phase = "changes" /\ at < oldest
    /\ phase' = "idle"
    /\ UNCHANGED fetchvars /\ PullUnchanged

is_cannot_calculate_changes ==
    /\ phase = "changes" /\ at < oldest
    /\ cursor' = NoState
    /\ phase' = "query"
    /\ at' = 0 /\ ids' = {} /\ destroyed' = {}
    /\ UNCHANGED <<servervars, pages, got, new_state, mirror, dropped, troubles, tvars>>

-----------------------------------------------------------------------------
(* Email/query.                                                            *)

SmallerOf(m, n) == IF m < n THEN m ELSE n

\* The page at a position, as long as the server makes it.
PageAt(position) ==
    SubSeq(box, position + 1, SmallerOf(Len(box), position + SmallerOf(QueryPage, ServerPage)))

Positions_Mistake(first, total) ==
    {p \in first .. total - 1 : (p - first) % (QueryPage + first) = 0}
Positions(first, total) ==
    {p \in first .. total - 1 : (p - first) % QueryPage = 0}

\* The probe: with a total the other pages are asked for all at once, without
\* one after the other.
query_mailbox ==
    /\ phase = "query"
    /\ ids' = ToSet(PageAt(0))
    /\ \E total \in Totals :
        /\ pages' = IF total THEN Positions(Len(PageAt(0)), Len(box)) ELSE {}
        /\ phase' = IF total THEN "page" ELSE "serial"
    /\ at' = Len(PageAt(0))
    /\ UNCHANGED <<destroyed, got, new_state>> /\ PullUnchanged

query_page(position) ==
    /\ phase = "page" /\ position \in pages
    /\ ids' = ids \cup ToSet(PageAt(position))
    /\ pages' = pages \ {position}
    /\ UNCHANGED <<phase, at, destroyed, got, new_state>> /\ PullUnchanged

PagesDone ==
    /\ phase = "page" /\ pages = {}
    /\ phase' = "get-all"
    /\ UNCHANGED fetchvars /\ PullUnchanged

\* The only sign of the end is an empty page.
SerialPage ==
    /\ phase = "serial"
    /\ ids' = ids \cup ToSet(PageAt(at))
    /\ at' = at + Len(PageAt(at))
    /\ phase' = IF PageAt(at) = <<>> THEN "get-all" ELSE "serial"
    /\ UNCHANGED <<pages, destroyed, got, new_state>> /\ PullUnchanged

-----------------------------------------------------------------------------
(* Email/get.                                                              *)

\* A row without its required ids is dropped, the others are kept.
partition(chunk, garbled) == (chunk \cap Live) \ garbled

get_by_ids(chunk, garbled) ==
    /\ phase \in {"get", "get-all"}
    /\ chunk \subseteq ids /\ Cardinality(chunk) = SmallerOf(GetChunk, Cardinality(ids))
    /\ chunk # {}
    /\ ids' = ids \ chunk
    /\ got' = got \cup {<<e, LastChange(e)>> : e \in partition(chunk, garbled)}
    /\ dropped' = (dropped \ partition(chunk, garbled)) \cup (chunk \cap Live \cap garbled)
    /\ UNCHANGED <<servervars, cursor, phase, at, pages, destroyed, new_state, mirror, troubles, tvars>>

GetDone ==
    /\ phase \in {"get", "get-all"} /\ ids = {}
    /\ phase' = IF phase = "get" THEN "apply" ELSE "state"
    /\ UNCHANGED fetchvars /\ PullUnchanged

get_current_state_Mistake ==
    /\ phase = "state"
    /\ new_state' = State + 1
    /\ phase' = "apply"
    /\ UNCHANGED <<at, pages, ids, destroyed, got>> /\ PullUnchanged

get_current_state ==
    /\ phase = "state"
    /\ new_state' = State
    /\ phase' = "apply"
    /\ UNCHANGED <<at, pages, ids, destroyed, got>> /\ PullUnchanged

-----------------------------------------------------------------------------
(* Applying what was fetched, and the cursor.                              *)

GotEmails == {g[1] : g \in got}
Missing == {e \in GotEmails : e \notin have}

\* Known emails get their new flags, destroyed ones go; what is left to download
\* are the others.
Apply ==
    /\ phase = "apply"
    /\ have' = have \ destroyed
    /\ mirror' = [e \in Emails |->
                    IF e \in GotEmails THEN CHOOSE v \in 0 .. MaxChanges : <<e, v>> \in got
                    ELSE mirror[e]]
    /\ phase' = "download"
    /\ UNCHANGED <<servervars, cursor, fetchvars, dropped, troubles, want, status>>

StartDownloads ==
    /\ phase = "download"
    /\ TBegin /\ want' = Missing \ destroyed
    /\ phase' = "downloading"
    /\ UNCHANGED <<servervars, cursor, fetchvars, mirror, dropped, troubles>>

NothingToDownload ==
    /\ phase = "download" /\ Missing \ destroyed = {}
    /\ phase' = "save"
    /\ UNCHANGED fetchvars /\ PullUnchanged

Downloading ==
    /\ phase = "downloading"
    /\ TStore \/ TFinish
    /\ phase' = IF status' = "done" THEN "save" ELSE phase
    /\ UNCHANGED <<servervars, cursor, fetchvars, mirror, dropped, troubles>>

SaveCursor ==
    /\ phase = "save"
    /\ cursor' = new_state
    /\ phase' = "idle"
    /\ UNCHANGED <<servervars, fetchvars, mirror, dropped, troubles, tvars>>

\* A request fails for good, or the program is stopped: the cycle ends, and
\* the DB keeps what is in it.
CycleFails ==
    /\ phase # "idle"
    /\ troubles < MaxTroubles /\ troubles' = troubles + 1
    /\ IF phase = "downloading" THEN TFail ELSE UNCHANGED tvars
    /\ phase' = "idle"
    /\ UNCHANGED <<servervars, cursor, fetchvars, mirror, dropped>>

Cycle ==
    \/ fetch_remote_state \/ get_changes \/ is_cannot_calculate_changes
    \/ query_mailbox \/ PagesDone \/ SerialPage
    \/ \E p \in pages : query_page(p)
    \/ \E chunk \in SUBSET ids : \E garbled \in SUBSET (chunk \cap Garbles) : get_by_ids(chunk, garbled)
    \/ GetDone \/ get_current_state
    \/ Apply \/ StartDownloads \/ NothingToDownload \/ Downloading \/ SaveCursor

\* The server has some mail and no history; the DB is empty.
PInit ==
    /\ TInit /\ troubles = 0
    /\ box = SetToSeq(Existing)
    /\ log = <<>> /\ oldest = 0
    /\ cursor = NoState /\ phase = "idle"
    /\ at = 0 /\ pages = {} /\ ids = {} /\ destroyed = {} /\ got = {} /\ new_state = 0
    /\ mirror = [e \in Emails |-> 0] /\ dropped = {}

PNext == Server \/ Cycle \/ CycleFails

PSpec == PInit /\ [][PNext]_pvars /\ WF_pvars(Cycle)

-----------------------------------------------------------------------------
PTypeOK ==
    /\ want \subseteq Emails /\ have \subseteq Emails /\ status \in {"idle", "running", "done", "failed"}
    /\ Live \subseteq Emails /\ log \in Seq(Emails) /\ oldest \in 0 .. State
    /\ dropped \subseteq Garbles
    /\ cursor \in NoState .. State /\ new_state \in 0 .. State
    /\ ids \subseteq Emails /\ destroyed \subseteq Emails /\ got \subseteq Emails \X (0 .. State)
    /\ mirror \in [Emails -> 0 .. State]

\* The cursor passes nothing by: whatever the mailbox held or changed up to the
\* state the DB remembers is in the DB as it then was, however the pages, the
\* chunks, failing downloads and the server's own changes interleave; only a
\* row the server garbled may be missing.
NothingSkipped ==
    phase = "idle" /\ cursor # NoState =>
        \A e \in Live \ dropped :
            LastChange(e) <= cursor => e \in have /\ mirror[e] >= LastChange(e)

\* A cycle that moves the cursor on applies the destructions it passes, those of
\* every page of Email/changes.  (A cycle that lists the mailbox anew applies none:
\* what was destroyed behind a cursor that was lost stays.)
DestructionsApplied ==
    [][cursor # NoState /\ cursor' \notin {NoState, cursor} =>
        \A e \in have' \ Live : LastChange(e) \notin cursor + 1 .. cursor']_pvars

\* Mail that stays on the server arrives, if the server is not forever in trouble.
EventuallyPulled ==
    \A e \in Emails : e \in Live ~> (e \in have \/ e \notin Live \/ e \in dropped)
=============================================================================
