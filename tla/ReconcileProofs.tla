-------------------------- MODULE ReconcileProofs --------------------------
(***************************************************************************)
(* Whatever a cycle observed and whatever message_map holds, reconcile     *)
(* returns a well-formed plan: every action names files, emails and synced *)
(* folders, and an action on a known email takes them from a row that is   *)
(* there.  The rules that choose one of several rows (AnchorOf, the        *)
(* adoption of a local file) choose the least, so a least one must exist.  *)
(***************************************************************************)
EXTENDS Reconcile, FiniteSetTheorems, WellFoundedInduction, TLAPS

\* A nonempty bounded set of numbers has a least element: the sets 0 .. x for x
\* in S are finite, so one of them is minimal under inclusion.
LEMMA LeastExists ==
    ASSUME NEW n \in Nat, NEW S \in SUBSET (0 .. n), S # {}
    PROVE  \E x \in S : \A y \in S : x <= y
<1> DEFINE T == {0 .. x : x \in S}
           R == StrictSubsetOrdering(0 .. n)
<1>1. IsWellFoundedOn(R, SUBSET (0 .. n))
    <2>1. IsFiniteSet(0 .. n)
        BY FS_Interval
    <2> QED
        BY <2>1, FS_StrictSubsetOrderingWellFounded, FS_FiniteSubsetsOfFinite, Zenon
<1>2. T \subseteq SUBSET (0 .. n) /\ T # {}
    <2>1. \A x \in S : 0 .. x \subseteq 0 .. n
        OBVIOUS
    <2> QED
        BY <2>1
<1>3. PICK t \in T : \A u \in T : <<u, t>> \notin R
    <2> HIDE DEF R, T
    <2> QED
        BY <1>1, <1>2, WFMin
<1>4. PICK x \in S : t = 0 .. x
    OBVIOUS
<1>5. ASSUME NEW y \in S, y < x PROVE FALSE
    <2>1. 0 .. y \in T /\ 0 .. y \subseteq t /\ x \in t /\ x \notin 0 .. y
        BY <1>4, <1>5
    <2>2. <<0 .. y, t>> \in R
        BY <2>1, <1>2 DEF StrictSubsetOrdering
    <2> QED
        BY <1>3, <2>1, <2>2
<1> QED
    BY <1>5

\* And a greatest one: the distances to n have a least.
LEMMA GreatestExists ==
    ASSUME NEW n \in Nat, NEW S \in SUBSET (0 .. n), S # {}
    PROVE  \E x \in S : \A y \in S : y <= x
<1> DEFINE D == {n - x : x \in S}
<1>1. D \in SUBSET (0 .. n) /\ D # {}
    <2>1. \A x \in S : n - x \in 0 .. n
        OBVIOUS
    <2> QED
        BY <2>1
<1>2. PICK d \in D : \A c \in D : d <= c
    <2> HIDE DEF D
    <2> QED
        BY <1>1, LeastExists
<1>3. PICK x \in S : d = n - x
    OBVIOUS
<1>4. ASSUME NEW y \in S PROVE y <= x
    <2>1. n - x <= n - y
        BY <1>2, <1>3
    <2> QED
        BY <2>1
<1> QED
    BY <1>4

\* Least picks an email of the set it is given.
LEMMA LeastEmail ==
    ASSUME NEW S \in SUBSET Email, S # {}
    PROVE  Least(S) \in S
<1>1. \E x \in S : \A y \in S : x <= y
    <2>1. S \in SUBSET (0 .. MaxEmail)
        BY BoundAssumption DEF Email
    <2> QED
        BY <2>1, BoundAssumption, LeastExists
<1> QED
    BY <1>1 DEF Least

LEMMA AnyMidType == AnyMid \in Mid
BY MidAssumption DEF AnyMid

\* A row that is there has a file in a synced folder.
LEMMA RowThere ==
    ASSUME NEW R \in Rows, NEW e \in Email, HasRow(R, e)
    PROVE  R[e] \in [box : Box, mid : Mid, file : File, flags : SUBSET Flag, blob : BOOLEAN]
BY DEF Rows, Row, HasRow, NoRow

LEMMA RowFields ==
    ASSUME NEW R \in Rows, NEW e \in Email
    PROVE  R[e].mid \in Mid /\ R[e].flags \in SUBSET Flag /\ R[e].blob \in BOOLEAN
<1>1. CASE R[e] = NoRow
    BY <1>1, AnyMidType DEF NoRow
<1>2. CASE R[e] # NoRow
    BY <1>2 DEF Rows, Row
<1> QED
    BY <1>1, <1>2

\* The row of a file names it: nothing in File is NoFile.
LEMMA FileHasRow ==
    ASSUME NEW R \in Rows, NEW e \in Email, NEW f \in File, R[e].file = f
    PROVE  HasRow(R, e)
BY DEF HasRow, File, NoFile

-----------------------------------------------------------------------------
Move == [e : Email, oldF : File, prior : SUBSET Flag, blob : BOOLEAN, new : NewMessage]

LEMMA MoveTypes ==
    ASSUME NEW o \in Observation, NEW R \in Rows, NEW byMid \in NewsByMid(o)
    PROVE  DetectedMoves(o, R, byMid) \subseteq Move
<1> SUFFICES ASSUME NEW x \in o.dels \X Email, R[x[2]].mid \in DOMAIN byMid
             PROVE  [e |-> x[2], oldF |-> x[1].f, prior |-> R[x[2]].flags,
                     blob |-> R[x[2]].blob, new |-> byMid[R[x[2]].mid]] \in Move
    BY DEF DetectedMoves
<1>1. x[1].f \in File /\ x[2] \in Email
    BY DEF Observation
<1>2. byMid[R[x[2]].mid] \in NewMessage
    <2>1. byMid \in [DOMAIN byMid -> o.news]
        BY DEF NewsByMid
    <2>2. o.news \subseteq NewMessage
        BY DEF Observation
    <2> QED
        BY <2>1, <2>2
<1>3. R[x[2]].flags \in SUBSET Flag /\ R[x[2]].blob \in BOOLEAN
    BY <1>1, RowFields
<1> QED
    BY <1>1, <1>2, <1>3 DEF Move

LEMMA MatchedTypes ==
    ASSUME NEW o \in Observation, NEW r \in Matched(o)
    PROVE  r \in [e : Email, box : Box, mid : Mid, kw : SUBSET Flag]
BY DEF Matched, Observation, RemoteEmail

\* The email whose row a newcomer anchors on has that row.
LEMMA AnchorTypes ==
    ASSUME NEW o \in Observation, NEW R \in Rows, NEW r \in Anchored(o, R)
    PROVE  /\ AnchorOf(R, r) \in Email
           /\ HasRow(R, AnchorOf(R, r))
<1>1. RowsOf(R, r.mid, r.box) \in SUBSET Email /\ RowsOf(R, r.mid, r.box) # {}
    BY DEF RowsOf, Anchored
<1>2. AnchorOf(R, r) \in RowsOf(R, r.mid, r.box)
    BY <1>1, LeastEmail DEF AnchorOf
<1> QED
    BY <1>2 DEF RowsOf

LEMMA SeenFlagsType ==
    ASSUME NEW o \in Observation, NEW f \in File, NEW fallback \in SUBSET Flag
    PROVE  SeenFlags(o, f, fallback) \in SUBSET Flag
BY DEF SeenFlags, Observation, FlaggedFile

LEMMA AdoptType ==
    ASSUME NEW e \in Email, NEW f \in File, NEW box \in Box, NEW mid \in Mid,
           NEW kw \in SUBSET Flag, NEW fl \in SUBSET Flag, NEW blob \in BOOLEAN,
           NEW oldF \in File \cup {NoFile}, NEW oldE \in Email \cup {NoEmail}
    PROVE  Adopt(e, f, box, mid, kw, fl, blob, oldF, oldE) \in AdoptAction
BY DEF Adopt, AdoptAction

LEMMA RemoteAdoptTypes ==
    ASSUME NEW o \in Observation, NEW R \in Rows
    PROVE  RemoteAdopts(o, R) \subseteq AdoptAction
<1>1. ASSUME NEW r \in Rebinds(o, R)
      PROVE  Adopt(r.e, R[AnchorOf(R, r)].file, r.box, r.mid, r.kw,
                   SeenFlags(o, R[AnchorOf(R, r)].file, R[AnchorOf(R, r)].flags),
                   TRUE, NoFile, AnchorOf(R, r)) \in AdoptAction
    <2> DEFINE a == AnchorOf(R, r)
    <2>1. r \in Anchored(o, R)
        BY DEF Rebinds
    <2>2. r \in [e : Email, box : Box, mid : Mid, kw : SUBSET Flag]
        BY <2>1, MatchedTypes DEF Anchored, FreshRemote
    <2>3. a \in Email /\ R[a].file \in File /\ R[a].flags \in SUBSET Flag
        BY <2>1, AnchorTypes, RowThere
    <2>4. SeenFlags(o, R[a].file, R[a].flags) \in SUBSET Flag
        BY <2>3, SeenFlagsType
    <2> QED
        BY <2>2, <2>3, <2>4, AdoptType
<1>2. ASSUME NEW r \in Rescues(o, R)
      PROVE  LET x == CHOOSE x \in o.index : x.mid = r.mid /\ x.box = r.box IN
             Adopt(r.e, x.f, r.box, r.mid, r.kw, SeenFlags(o, x.f, {}), TRUE, NoFile, NoEmail)
                \in AdoptAction
    <2> DEFINE x == CHOOSE x \in o.index : x.mid = r.mid /\ x.box = r.box
    <2>1. r \in Matched(o) /\ IndexEntries(o, r) # {}
        BY DEF Rescues, Indexed, FreshRemote
    <2>2. r \in [e : Email, box : Box, mid : Mid, kw : SUBSET Flag]
        BY <2>1, MatchedTypes
    <2>3. x \in o.index
        BY <2>1 DEF IndexEntries
    <2>4. x.f \in File
        BY <2>3 DEF Observation
    <2>5. SeenFlags(o, x.f, {}) \in SUBSET Flag
        BY <2>4, SeenFlagsType
    <2> HIDE DEF x
    <2> QED
        BY <2>2, <2>4, <2>5, AdoptType DEF x
<1> QED
    BY <1>1, <1>2 DEF RemoteAdopts

-----------------------------------------------------------------------------
LEMMA SteadyTypes ==
    ASSUME NEW o \in Observation, NEW R \in Rows, NEW moves, NEW r \in KnownRemote(o, R)
    PROVE  /\ r \in [e : Email, box : Box, mid : Mid, kw : SUBSET Flag]
           /\ R[r.e] \in [box : Box, mid : Mid, file : File, flags : SUBSET Flag, blob : BOOLEAN]
<1>1. r \in [e : Email, box : Box, mid : Mid, kw : SUBSET Flag] /\ HasRow(R, r.e)
    BY MatchedTypes DEF KnownRemote
<1> QED
    BY <1>1, RowThere

LEMMA DownloadTypes ==
    ASSUME NEW o \in Observation, NEW R \in Rows, NEW moves
    PROVE  Downloads(o, R, moves) \subseteq Download
<1>1. Restores(o, R, moves) \cup FreshRemote(o, R) \subseteq Matched(o)
    BY DEF Restores, DeleteConflicts, KnownRemote, FreshRemote
<1> QED
    BY <1>1, MatchedTypes DEF Downloads, Download

LEMMA LocalAdoptTypes ==
    ASSUME NEW o \in Observation, NEW R \in Rows, NEW moves
    PROVE  LocalAdopts(o, R, moves) \subseteq AdoptAction
<1>1. ASSUME NEW n \in LiveNews(o, R, moves), RowsOf(R, n.mid, n.box) # {}
      PROVE  LET e == Least(RowsOf(R, n.mid, n.box)) IN
             Adopt(e, n.f, n.box, n.mid, R[e].flags, n.fl, R[e].blob, NoFile, NoEmail)
                \in AdoptAction
    <2> DEFINE e == Least(RowsOf(R, n.mid, n.box))
    <2>1. n \in NewMessage
        BY DEF LiveNews, Observation
    <2>2. RowsOf(R, n.mid, n.box) \in SUBSET Email
        BY DEF RowsOf
    <2>3. e \in Email
        BY <1>1, <2>2, LeastEmail
    <2>4. R[e].flags \in SUBSET Flag /\ R[e].blob \in BOOLEAN
        BY <2>3, RowFields
    <2> HIDE DEF e
    <2> QED
        BY <2>1, <2>3, <2>4, AdoptType DEF e, NewMessage
<1> QED
    BY <1>1 DEF LocalAdopts

LEMMA PushTypes ==
    ASSUME NEW o \in Observation, NEW R \in Rows, NEW moves \in SUBSET Move,
           NEW adopts \in SUBSET AdoptAction
    PROVE  /\ FlagPushes(o, R) \subseteq UpdateRemoteKeywords
           /\ ConflictPushes(o, R, moves) \subseteq UpdateRemoteKeywords
           /\ MovePushes(moves) \subseteq UpdateRemoteKeywords
           /\ AdoptionPushes(o, adopts) \subseteq UpdateRemoteKeywords
<1>1. o.flagged \subseteq FlaggedFile
    BY DEF Observation
<1>2. FlagPushes(o, R) \subseteq UpdateRemoteKeywords
    BY <1>1 DEF FlagPushes, KeywordPush, UpdateRemoteKeywords, FlaggedFile
<1>3. ConflictPushes(o, R, moves) \subseteq UpdateRemoteKeywords
    <2>1. LocalFlagWins(o, R, moves) \subseteq Matched(o)
        BY DEF LocalFlagWins, Drifted, Steady, KnownRemote
    <2>2. ASSUME NEW r \in LocalFlagWins(o, R, moves), NEW x \in o.flagged
          PROVE  KeywordPush(r.e, x.fl, {}, x.fl) \in UpdateRemoteKeywords
        <3>1. r.e \in Email
            BY <2>1, MatchedTypes
        <3> QED
            BY <3>1, <1>1 DEF KeywordPush, UpdateRemoteKeywords, FlaggedFile
    <2> QED
        BY <2>2 DEF ConflictPushes
<1>4. MovePushes(moves) \subseteq UpdateRemoteKeywords
    BY DEF MovePushes, Move, NewMessage, KeywordPush, UpdateRemoteKeywords
<1>5. AdoptionPushes(o, adopts) \subseteq UpdateRemoteKeywords
    BY DEF AdoptionPushes, Disagreeing, AdoptAction, KeywordPush, UpdateRemoteKeywords
<1> QED
    BY <1>2, <1>3, <1>4, <1>5

LEMMA FlagUpdateTypes ==
    ASSUME NEW o \in Observation, NEW R \in Rows, NEW moves,
           NEW adopts \in SUBSET AdoptAction
    PROVE  /\ AdoptionFlags(o, adopts) \subseteq UpdateLocalFlags
           /\ {[f |-> R[r.e].file, e |-> r.e, box |-> R[r.e].box, mid |-> R[r.e].mid,
                fl |-> r.kw] : r \in ServerFlagWins(o, R, moves)} \subseteq UpdateLocalFlags
<1>1. AdoptionFlags(o, adopts) \subseteq UpdateLocalFlags
    BY DEF AdoptionFlags, Disagreeing, AdoptAction, UpdateLocalFlags
<1>2. ServerFlagWins(o, R, moves) \subseteq KnownRemote(o, R)
    BY DEF ServerFlagWins, Drifted, Steady
<1>3. ASSUME NEW r \in ServerFlagWins(o, R, moves)
      PROVE  [f |-> R[r.e].file, e |-> r.e, box |-> R[r.e].box, mid |-> R[r.e].mid,
              fl |-> r.kw] \in UpdateLocalFlags
    BY <1>2, SteadyTypes DEF UpdateLocalFlags
<1> QED
    BY <1>1, <1>3

LEMMA MoveLocalTypes ==
    ASSUME NEW o \in Observation, NEW R \in Rows, NEW moves
    PROVE  {[f |-> R[r.e].file, e |-> r.e, from |-> R[r.e].box, to |-> r.box] :
               r \in {x \in Steady(o, R, moves) : R[x.e].box # x.box}} \subseteq MoveLocal
<1>1. Steady(o, R, moves) \subseteq KnownRemote(o, R)
    BY DEF Steady
<1> QED
    BY <1>1, SteadyTypes DEF MoveLocal

LEMMA DeleteLocalTypes ==
    ASSUME NEW o \in Observation, NEW R \in Rows
    PROVE  {[f |-> R[e].file, e |-> e, box |-> R[e].box] :
               e \in {x \in o.destroyed \ ConsumedDestroys(o, R) : HasRow(R, x)}} \subseteq DeleteLocal
<1>1. o.destroyed \subseteq Email
    BY DEF Observation
<1> QED
    BY <1>1, RowThere DEF DeleteLocal

-----------------------------------------------------------------------------
\* reconcile() returns a well-formed plan from any observation and any rows,
\* and filtering it by direction keeps it so.
THEOREM PlanWellFormed ==
    ASSUME NEW o \in Observation, NEW R \in Rows, NEW byMid \in NewsByMid(o), NEW direction
    PROVE  Filtered(PlanOf(o, R, byMid), direction) \in Plan
<1> DEFINE moves == DetectedMoves(o, R, byMid)
           adopts == RemoteAdopts(o, R) \cup LocalAdopts(o, R, moves)
           p == PlanOf(o, R, byMid)
<1>1. moves \in SUBSET Move
    BY MoveTypes
<1>2. p \in Plan
    <2>1. p.adoptR \subseteq AdoptAction /\ p.adoptL \subseteq AdoptAction
        BY RemoteAdoptTypes, LocalAdoptTypes DEF PlanOf
    <2>2. adopts \in SUBSET AdoptAction
        BY RemoteAdoptTypes, LocalAdoptTypes
    <2>3. p.down \subseteq Download
        BY DownloadTypes DEF PlanOf
    <2>4. p.lflag \subseteq UpdateLocalFlags
        BY <2>2, FlagUpdateTypes DEF PlanOf
    <2>5. p.lmove \subseteq MoveLocal
        BY MoveLocalTypes DEF PlanOf
    <2>6. p.ldel \subseteq DeleteLocal
        BY DeleteLocalTypes DEF PlanOf
    <2>7. p.up \subseteq NewMessage
        BY DEF PlanOf, Uploads, LiveNews, Observation
    <2>8. p.rkw \subseteq UpdateRemoteKeywords
        BY <1>1, <2>2, PushTypes DEF PlanOf
    <2>9. p.rmove \subseteq MoveRemote
        BY <1>1 DEF PlanOf, Move, NewMessage, MoveRemote
    <2>10. p.rdel \subseteq Email
        BY DEF PlanOf, Destroys, LocalDeletes, Deleted
    <2>11. p.pair \subseteq AdoptAction
        <3>1. \A m \in moves :
                  Adopt(m.e, m.new.f, m.new.box, m.new.mid, m.new.fl, m.new.fl, m.blob,
                        m.oldF, NoEmail) \in AdoptAction
            BY <1>1, AdoptType DEF Move, NewMessage
        <3> QED
            BY <3>1 DEF PlanOf
    <2> QED
        BY <2>1, <2>3, <2>4, <2>5, <2>6, <2>7, <2>8, <2>9, <2>10, <2>11 DEF PlanOf, Plan
<1> HIDE DEF p
<1> QED
    BY <1>2 DEF Filtered, Plan, p
=============================================================================
