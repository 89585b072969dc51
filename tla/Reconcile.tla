----------------------------- MODULE Reconcile -----------------------------
(***************************************************************************)
(* sync/reconcile.rs as a pure operator: from one cycle's observations and *)
(* the rows of message_map to a plan of actions.  An observation o is      *)
(*                                                                         *)
(*   o.news       NewMessage      [f, box, mid, fl]                        *)
(*   o.flagged    FlagsChanged    [f, fl]                                  *)
(*   o.dels       DeletedMessage  [f, box]                                 *)
(*   o.seen       local_flags     [f, fl]   every file the scan met        *)
(*   o.index      LocalIndex      [f, box, mid]                            *)
(*   o.remote     remote_emails   [e, box, mid, kw]                        *)
(*   o.destroyed  remote_destroyed, a set of email ids                     *)
(*   o.initial    used_initial_path                                        *)
(*                                                                         *)
(* A file f stands for a maildir id, an email e for a JMAP email id.  A    *)
(* flag set stands both for a filename suffix and for its keywords: the    *)
(* two conversions of maildir_ops/flags.rs are inverse on the six standard *)
(* flags, and other keywords never reach a decision.  R maps every email   *)
(* to its message_map row; NoRow is the row of an email that has none.     *)
(***************************************************************************)
EXTENDS Integers, FiniteSets

CONSTANTS
    Box,        \* the synced mailboxes, numbered in binding order
    Mid,        \* RFC 5322 Message-IDs
    Flag,       \* maildir flags; "S" is Seen
    MaxFile,    \* bound: maildir ids are 1 .. MaxFile, older ids first
    MaxEmail    \* bound: JMAP email ids are 1 .. MaxEmail

ASSUME BoxAssumption == Box \subseteq Nat \ {0}
ASSUME MidAssumption == Mid # {}
ASSUME BoundAssumption == MaxFile \in Nat \ {0} /\ MaxEmail \in Nat \ {0}

File == 1 .. MaxFile
Email == 1 .. MaxEmail
Unsynced == 0           \* any mailbox outside the synced set
NoFile == 0
NoEmail == 0

AnyMid == CHOOSE m \in Mid : TRUE
NoRow == [box |-> Unsynced, mid |-> AnyMid, file |-> NoFile, flags |-> {}, blob |-> FALSE]

HasRow(R, e) == R[e].file # NoFile
Owners(R, f) == {e \in Email : R[e].file = f}
RowsOf(R, mid, box) == {e \in Email : HasRow(R, e) /\ R[e].mid = mid /\ R[e].box = box}
Least(S) == CHOOSE x \in S : \A y \in S : x <= y

-----------------------------------------------------------------------------
(* What goes in and out: observations, rows and the actions of a plan.     *)

Row == {NoRow} \cup [box : Box, mid : Mid, file : File, flags : SUBSET Flag, blob : BOOLEAN]
Rows == [Email -> Row]
FlaggedFile == [f : File, fl : SUBSET Flag]
NewMessage == [f : File, box : Box, mid : Mid, fl : SUBSET Flag]
RemoteEmail == [e : Email, box : Box \cup {Unsynced}, mid : Mid, kw : SUBSET Flag]
Policies == {"ServerWins", "LocalWins"}      \* conflict_strategy
Observation ==
    [news : SUBSET NewMessage, flagged : SUBSET FlaggedFile, dels : SUBSET [f : File, box : Box],
     seen : SUBSET FlaggedFile, index : SUBSET [f : File, box : Box, mid : Mid],
     remote : SUBSET RemoteEmail, destroyed : SUBSET Email, initial : BOOLEAN,
     policy : Policies]

AdoptAction == [e : Email, f : File, box : Box, mid : Mid, kw : SUBSET Flag, fl : SUBSET Flag,
                blob : BOOLEAN, oldF : File \cup {NoFile}, oldE : Email \cup {NoEmail}]
Download == [e : Email, box : Box, mid : Mid, kw : SUBSET Flag]
UpdateLocalFlags == [f : File, e : Email, box : Box, mid : Mid, fl : SUBSET Flag]
MoveLocal == [f : File, e : Email, from : Box, to : Box]
DeleteLocal == [f : File, e : Email, box : Box]
UpdateRemoteKeywords == [e : Email, on : SUBSET Flag, off : SUBSET Flag, fl : SUBSET Flag]
MoveRemote == [e : Email, to : Box]
Plan ==
    [adoptR : SUBSET AdoptAction, adoptL : SUBSET AdoptAction, down : SUBSET Download,
     lflag : SUBSET UpdateLocalFlags, lmove : SUBSET MoveLocal, ldel : SUBSET DeleteLocal,
     up : SUBSET NewMessage, rkw : SUBSET UpdateRemoteKeywords, rmove : SUBSET MoveRemote,
     rdel : SUBSET Email, pair : SUBSET AdoptAction]

-----------------------------------------------------------------------------
(* Operators named X_Y, here and in SyncCycle, are not part of the model:  *)
(* each is the X that follows it with one plausible mistake, Y, and        *)
(* PROJECT.json pairs it with the property that notices the mistake.       *)

(* The move pre-pass: a DeletedMessage in one folder and a NewMessage with *)
(* the same Message-ID in another are one cross-folder move.               *)

\* news_by_message_id keeps the last NewMessage of each Message-ID: a later
\* binding overwrites an earlier one, within a folder readdir order decides.
NewsByMid(o) ==
    {p \in [{n.mid : n \in o.news} -> o.news] :
        \A m \in DOMAIN p :
            p[m].mid = m /\ \A n \in o.news : n.mid = m => n.box <= p[m].box}

DetectedMoves(o, R, byMid) ==
    {[e |-> x[2], oldF |-> x[1].f, prior |-> R[x[2]].flags, blob |-> R[x[2]].blob,
      new |-> byMid[R[x[2]].mid]] :
        x \in {y \in o.dels \X Email :
                 /\ R[y[2]].file = y[1].f
                 /\ R[y[2]].mid \in DOMAIN byMid
                 /\ byMid[R[y[2]].mid].box # y[1].box}}

Deleted(o, R) == {e \in Email : \E d \in o.dels : R[e].file = d.f}
LocalDeletes_IgnoresMoves(o, R, moves) == Deleted(o, R)
LocalDeletes(o, R, moves) == Deleted(o, R) \ {m.e : m \in moves}

\* A flag change seen by the scan on the file bound to e, if any.
LocalFlagChange(o, R, e) == {x \in o.flagged : x.f = R[e].file /\ HasRow(R, e)}

-----------------------------------------------------------------------------
(* process_remote_emails: the emails of this cycle that are alive and in a *)
(* synced mailbox, those with a row apart from those without.              *)

Matched(o) == {r \in o.remote : r.e \notin o.destroyed /\ r.box \in Box}
KnownRemote(o, R) == {r \in Matched(o) : HasRow(R, r.e)}
FreshRemote(o, R) == {r \in Matched(o) : ~HasRow(R, r.e)}

\* handle_known_remote: delete-against-update conflicts, then the rest.
DeleteConflicts(o, R, moves) ==
    {r \in KnownRemote(o, R) : r.e \in LocalDeletes(o, R, moves)}
Overruled(o, R, moves) ==
    IF o.policy = "ServerWins" THEN {r.e : r \in DeleteConflicts(o, R, moves)} ELSE {}
Steady(o, R, moves) == KnownRemote(o, R) \ DeleteConflicts(o, R, moves)

Drifted(o, R, moves) == {r \in Steady(o, R, moves) : R[r.e].flags # r.kw}
ServerFlagWins(o, R, moves) ==
    {r \in Drifted(o, R, moves) :
        LocalFlagChange(o, R, r.e) = {} \/ o.policy = "ServerWins"}
LocalFlagWins(o, R, moves) == Drifted(o, R, moves) \ ServerFlagWins(o, R, moves)

Restores(o, R, moves) == {r \in DeleteConflicts(o, R, moves) : r.e \in Overruled(o, R, moves)}

-----------------------------------------------------------------------------
(* try_adopt_remote: an email without a row whose Message-ID is local.     *)

\* Branch A: a row of the same Message-ID and mailbox.  It is rebound only if
\* its own email is known to be gone; else the newcomer is a duplicate.
Anchored(o, R) == {r \in FreshRemote(o, R) : RowsOf(R, r.mid, r.box) # {}}
AnchorOf(R, r) == Least(RowsOf(R, r.mid, r.box))
ProvablyGone_Assumed(o, e) == TRUE
ProvablyGone(o, e) == e \in o.destroyed \/ (o.initial /\ e \notin {x.e : x \in o.remote})
Rebinds(o, R) == {r \in Anchored(o, R) : ProvablyGone(o, AnchorOf(R, r))}
ConsumedDestroys(o, R) == {AnchorOf(R, r) : r \in Rebinds(o, R)} \cap o.destroyed

\* Branch B: the index of the dedupe walk names a file; the first email wins.
IndexEntries_Unused(o, r) == {}
IndexEntries(o, r) == {x \in o.index : x.mid = r.mid /\ x.box = r.box}
Indexed(o, R) == {r \in FreshRemote(o, R) \ Anchored(o, R) : IndexEntries(o, r) # {}}
Rescues(o, R) ==
    {r \in Indexed(o, R) :
        \A q \in Indexed(o, R) : IndexEntries(o, q) = IndexEntries(o, r) => r.e <= q.e}

Downloads(o, R, moves) ==
    {[e |-> r.e, box |-> r.box, mid |-> r.mid, kw |-> r.kw] :
        r \in Restores(o, R, moves) \cup
              (FreshRemote(o, R) \ (Anchored(o, R) \cup Indexed(o, R)))}

SeenFlags(o, f, fallback) ==
    IF \E x \in o.seen : x.f = f THEN (CHOOSE x \in o.seen : x.f = f).fl ELSE fallback

Adopt(e, f, box, mid, kw, fl, blob, oldF, oldE) ==
    [e |-> e, f |-> f, box |-> box, mid |-> mid, kw |-> kw, fl |-> fl, blob |-> blob,
     oldF |-> oldF, oldE |-> oldE]

RemoteAdopts(o, R) ==
    {LET a == AnchorOf(R, r) IN
     Adopt(r.e, R[a].file, r.box, r.mid, r.kw, SeenFlags(o, R[a].file, R[a].flags),
           TRUE, NoFile, a) : r \in Rebinds(o, R)}
    \cup
    {LET x == CHOOSE x \in o.index : x.mid = r.mid /\ x.box = r.box IN
     Adopt(r.e, x.f, r.box, r.mid, r.kw, SeenFlags(o, x.f, {}), TRUE, NoFile, NoEmail) :
        r \in Rescues(o, R)}

-----------------------------------------------------------------------------
(* process_local_changes: what the scan saw and no remote rule consumed.   *)

LiveNews_KeepsAdopted(o, R, moves) == {n \in o.news : n.f \notin {m.new.f : m \in moves}}
LiveNews(o, R, moves) ==
    {n \in o.news : /\ n.f \notin {m.new.f : m \in moves}
                    /\ n.f \notin {a.f : a \in RemoteAdopts(o, R)}}
LocalAdopts(o, R, moves) ==
    {LET e == Least(RowsOf(R, n.mid, n.box)) IN
     Adopt(e, n.f, n.box, n.mid, R[e].flags, n.fl, R[e].blob, NoFile, NoEmail) :
        n \in {x \in LiveNews(o, R, moves) : RowsOf(R, x.mid, x.box) # {}}}
Uploads(o, R, moves) ==
    {n \in LiveNews(o, R, moves) : \A e \in Email : HasRow(R, e) => R[e].mid # n.mid}

KeywordPush(e, on, off, fl) == [e |-> e, on |-> on, off |-> off, fl |-> fl]

\* handle_local_flags: pushed unless the server's flags drifted as well.  The
\* patch is flags_to_keywords(new_flags): it only ever sets keywords.
FlagPushes(o, R) ==
    {KeywordPush(x[2], x[1].fl, {}, x[1].fl) :
        x \in {y \in o.flagged \X Email :
                 /\ R[y[2]].file = y[1].f
                 /\ \A r \in o.remote : r.e = y[2] => r.kw = R[y[2]].flags}}
ConflictPushes(o, R, moves) ==
    {KeywordPush(x[1].e, x[2].fl, {}, x[2].fl) :
        x \in {y \in LocalFlagWins(o, R, moves) \X o.flagged : y[2].f = R[y[1].e].file}}
MovePushes(moves) ==
    {KeywordPush(m.e, m.new.fl, {}, m.new.fl) : m \in {x \in moves : x.prior # x.new.fl}}

\* emit_adoption_flag_reconciliation, for both kinds of unconditional adopt.
\* Under LocalWins the patch names all six flags, so it clears as well.
Disagreeing(adopts) == {a \in adopts : a.fl # a.kw}
AdoptionFlags_LeftToNextCycle(o, adopts) == {}
AdoptionFlags(o, adopts) ==
    {[f |-> a.f, e |-> a.e, box |-> a.box, mid |-> a.mid, fl |-> a.kw] :
        a \in {x \in Disagreeing(adopts) : o.policy = "ServerWins" /\ x.blob}}
AdoptionPushes(o, adopts) ==
    {KeywordPush(a.e, a.fl, Flag \ a.fl, a.fl) :
        a \in {x \in Disagreeing(adopts) : o.policy = "LocalWins"}}

\* handle_local_delete.
Destroys(o, R, moves) ==
    (LocalDeletes(o, R, moves) \ o.destroyed) \ Overruled(o, R, moves)

-----------------------------------------------------------------------------
\* reconcile(): the plan, one field for each phase of the executor.
PlanOf(o, R, byMid) ==
    LET moves == DetectedMoves(o, R, byMid)
        remoteAdopts == RemoteAdopts(o, R)
        localAdopts == LocalAdopts(o, R, moves)
        adopts == remoteAdopts \cup localAdopts
    IN
    [adoptR |-> remoteAdopts,
     adoptL |-> localAdopts,
     down   |-> Downloads(o, R, moves),
     lflag  |-> AdoptionFlags(o, adopts) \cup
                {[f |-> R[r.e].file, e |-> r.e, box |-> R[r.e].box, mid |-> R[r.e].mid,
                  fl |-> r.kw] : r \in ServerFlagWins(o, R, moves)},
     lmove  |-> {[f |-> R[r.e].file, e |-> r.e, from |-> R[r.e].box, to |-> r.box] :
                    r \in {x \in Steady(o, R, moves) : R[x.e].box # x.box}},
     ldel   |-> {[f |-> R[e].file, e |-> e, box |-> R[e].box] :
                    e \in {x \in o.destroyed \ ConsumedDestroys(o, R) : HasRow(R, x)}},
     up     |-> Uploads(o, R, moves),
     rkw    |-> FlagPushes(o, R) \cup ConflictPushes(o, R, moves) \cup
                MovePushes(moves) \cup AdoptionPushes(o, adopts),
     rmove  |-> {[e |-> m.e, to |-> m.new.box] : m \in moves},
     rdel   |-> Destroys(o, R, moves),
     pair   |-> {Adopt(m.e, m.new.f, m.new.box, m.new.mid, m.new.fl, m.new.fl, m.blob,
                       m.oldF, NoEmail) : m \in moves}]

EmptyPlan == [adoptR |-> {}, adoptL |-> {}, down |-> {}, lflag |-> {}, lmove |-> {},
              ldel |-> {}, up |-> {}, rkw |-> {}, rmove |-> {}, rdel |-> {}, pair |-> {}]

\* SyncPlan::into_filtered.  An adopt is kept in every direction, the adopt of
\* a move pair included, and the new cursor state is kept as it is.
Filtered(p, direction) ==
    IF direction = "PullOnly"
    THEN [p EXCEPT !.up = {}, !.rkw = {}, !.rmove = {}, !.rdel = {}]
    ELSE IF direction = "PushOnly"
    THEN [p EXCEPT !.down = {}, !.lflag = {}, !.lmove = {}, !.ldel = {}]
    ELSE p
=============================================================================
