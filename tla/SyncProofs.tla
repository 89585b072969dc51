---------------------------- MODULE SyncProofs ----------------------------
(***************************************************************************)
(* The types of SyncCycle and what the Email cursor may pass, for any      *)
(* folders, messages, flags, bounds, users' steps, crashes and refusals.   *)
(*                                                                         *)
(* TypeOK is inductive as it stands: a row or file that is there is in a   *)
(* synced folder, which is what makes reconcile return a well-formed plan  *)
(* (PlanWellFormed) and every phase of the executor keep the tables well   *)
(* formed.                                                                 *)
(*                                                                         *)
(* CursorSkipsOnlyOwn is about one step, but it needs an invariant over    *)
(* the whole run: the versions the cycle's own calls led to (own) and      *)
(* those other clients' changes led to (foreign) never meet (Clock).       *)
(* Every step moves the server's clock in one of three ways (Still,        *)
(* OwnTick, ForeignTick), and each of them keeps the invariant.            *)
(***************************************************************************)
EXTENDS SyncCycle, ReconcileProofs

LEMMA EmptyTypes ==
    /\ NoObs \in Observation /\ EmptyPlan \in Plan /\ NoMirrors \in Mirrors
    /\ NoRow \in Row /\ NoState \in LocalState /\ NoFileHere \in MaildirFile
BY DEF NoObs, Observation, Policies, EmptyPlan, Plan, NoMirrors, Mirrors, Row, LocalState, MaildirFile

LEMMA NextPhaseType ==
    ASSUME NEW p \in ExecPhases, NEW pl, NEW im, NEW mi
    PROVE  NextPhase(p, pl, im, mi) \in Phases
<1> DEFINE S == {i \in 1 .. 11 : HasWork(ExecOrder[i], pl, im, mi)
                                   /\ \E j \in 1 .. i : ExecOrder[j] = p}
<1>1. ExecOrder[11] = "cursor"
    BY DEF ExecOrder
<1>2. 11 \in S
    BY <1>1 DEF HasWork, ExecPhases
<1>3. Least(S) \in 1 .. 11
    <2>1. S \in SUBSET (0 .. 11) /\ S # {}
        BY <1>2
    <2>2. \E x \in S : \A y \in S : x <= y
        <3> HIDE DEF S
        <3> QED
            BY <2>1, LeastExists
    <2>3. Least(S) \in S
        <3> HIDE DEF S
        <3> QED
            BY <2>2 DEF Least
    <2> QED
        BY <2>3
<1> QED
    BY <1>3 DEF NextPhase, Phases, ExecPhases

LEMMA PhaseNames ==
    /\ ExecPhases = {"adopt", "download", "lflag", "lmove", "ldelete", "upload", "commit", "set",
                     "mirror", "pair", "cursor"}
    /\ {"idle", "checkpoint", "scan", "changes", "query", "get", "state", "reconcile", "cursor"}
           \subseteq Phases
<1>1. \A i \in 1 .. 11 : i \in {1, 2, 3, 4, 5, 6, 7, 8, 9, 10, 11}
    OBVIOUS
<1>2. /\ ExecOrder[1] = "adopt" /\ ExecOrder[2] = "download" /\ ExecOrder[3] = "lflag"
      /\ ExecOrder[4] = "lmove" /\ ExecOrder[5] = "ldelete" /\ ExecOrder[6] = "upload"
      /\ ExecOrder[7] = "commit" /\ ExecOrder[8] = "set" /\ ExecOrder[9] = "mirror"
      /\ ExecOrder[10] = "pair" /\ ExecOrder[11] = "cursor"
    BY DEF ExecOrder
<1>3. ExecPhases = {"adopt", "download", "lflag", "lmove", "ldelete", "upload", "commit", "set",
                    "mirror", "pair", "cursor"}
    <2>1. ASSUME NEW p \in ExecPhases
          PROVE  p \in {"adopt", "download", "lflag", "lmove", "ldelete", "upload", "commit",
                        "set", "mirror", "pair", "cursor"}
        BY <1>1, <1>2 DEF ExecPhases
    <2>2. ASSUME NEW p \in {"adopt", "download", "lflag", "lmove", "ldelete", "upload", "commit",
                            "set", "mirror", "pair", "cursor"}
          PROVE  p \in ExecPhases
        BY <1>2 DEF ExecPhases
    <2> QED
        BY <2>1, <2>2
<1> QED
    BY <1>3 DEF Phases, ScanPhases

-----------------------------------------------------------------------------
(* What the executor writes to the two tables.                             *)

LEMMA AdoptRowsType ==
    ASSUME NEW R \in Rows, NEW A \in SUBSET AdoptAction
    PROVE  AdoptRows(R, A) \in Rows
<1> SUFFICES ASSUME NEW e \in Email
             PROVE  (IF \E a \in A : a.e = e THEN AdoptRow(LastFor(A, e))
                     ELSE IF \E a \in A : a.oldE = e THEN NoRow ELSE R[e]) \in Row
    BY DEF AdoptRows, Rows
<1>1. CASE \E a \in A : a.e = e
    <2> DEFINE S == {a.f : a \in {x \in A : x.e = e}}
    <2>1. S \in SUBSET (0 .. MaxFile) /\ S # {}
        BY <1>1, BoundAssumption DEF AdoptAction, File
    <2>2. PICK f \in S : \A g \in S : g <= f
        <3> HIDE DEF S
        <3> QED
            BY <2>1, BoundAssumption, GreatestExists
    <2>3. \E a \in A : a.e = e /\ \A x \in A : x.e = e => x.f <= a.f
        BY <2>2
    <2>4. LastFor(A, e) \in A
        BY <2>3 DEF LastFor
    <2> QED
        BY <1>1, <2>4 DEF AdoptRow, AdoptAction, Row
<1>2. CASE ~\E a \in A : a.e = e
    BY <1>2 DEF Rows, Row
<1> QED
    BY <1>1, <1>2

LEMMA AdoptStatesType ==
    ASSUME NEW L \in [File -> LocalState], NEW A \in SUBSET AdoptAction
    PROVE  AdoptStates(L, A) \in [File -> LocalState]
<1> SUFFICES ASSUME NEW f \in File
             PROVE  (IF \E a \in A : a.f = f
                     THEN LET a == CHOOSE x \in A : x.f = f IN [box |-> a.box, fl |-> a.fl]
                     ELSE IF \E a \in A : a.oldF = f THEN NoState ELSE L[f]) \in LocalState
    BY DEF AdoptStates
<1>1. CASE \E a \in A : a.f = f
    <2> DEFINE a == CHOOSE x \in A : x.f = f
    <2>1. a \in A
        BY <1>1
    <2>2. [box |-> a.box, fl |-> a.fl] \in LocalState
        BY <2>1 DEF AdoptAction, LocalState
    <2> QED
        BY <1>1, <2>2
<1>2. CASE ~\E a \in A : a.f = f
    BY <1>2, EmptyTypes
<1> QED
    BY <1>1, <1>2

-----------------------------------------------------------------------------
(* What a step leaves alone keeps its type, also if the server's clock     *)
(* goes on.                                                                *)

LEMMA DiskStays == DiskTypes /\ UNCHANGED diskVars => DiskTypes'
BY DEF DiskTypes, diskVars

LEMMA ServerStays == ServerTypes /\ UNCHANGED serverVars => ServerTypes'
BY DEF ServerTypes, serverVars

LEMMA DbStays ==
    ServerTypes /\ DbTypes /\ ver' \in {ver, ver + 1} /\ UNCHANGED dbVars => DbTypes'
BY DEF ServerTypes, DbTypes, dbVars

LEMMA CycleStays ==
    ServerTypes /\ ScanTypes /\ ExecTypes /\ ver' \in {ver, ver + 1} /\ UNCHANGED cycleVars
        => ScanTypes' /\ ExecTypes'
BY DEF ServerTypes, ScanTypes, ExecTypes, cycleVars

LEMMA GhostStays == GhostTypes /\ UNCHANGED ghostVars => GhostTypes'
BY DEF GhostTypes, ghostVars

LEMMA ResetTypes == ServerTypes' /\ CycleReset => ScanTypes' /\ ExecTypes'
<1> SUFFICES ASSUME ServerTypes', CycleReset PROVE ScanTypes' /\ ExecTypes'
    OBVIOUS
<1>1. ScanTypes'
    BY EmptyTypes, PhaseNames DEF CycleReset, ServerTypes, ScanTypes, NoCursor
<1>2. ExecTypes'
    BY EmptyTypes DEF CycleReset, ServerTypes, ExecTypes
<1> QED
    BY <1>1, <1>2

LEMMA FailTypes == ServerTypes' /\ GhostTypes /\ CycleFails => ScanTypes' /\ ExecTypes' /\ GhostTypes'
BY ResetTypes DEF CycleFails, GhostTypes, CalmCap

-----------------------------------------------------------------------------
LEMMA InitTypes == Init => TypeOK
<1> SUFFICES ASSUME Init PROVE TypeOK
    OBVIOUS
<1>1. PICK fl \in SUBSET budget.flags, blob \in BOOLEAN, b \in Box :
        /\ disk = [f \in File |-> IF Seeded /\ f = 1
                     THEN [sub |-> IF blob THEN Sub(fl) ELSE "cur", box |-> b,
                           mid |-> AnyMid, fl |-> fl]
                     ELSE NoFileHere]
        /\ server = [e \in Email |-> IF Seeded /\ e = 1
                       THEN [st |-> "live", box |-> b, mid |-> AnyMid, kw |-> fl, at |-> 1]
                       ELSE NoEmailHere]
        /\ rows = [e \in Email |-> IF Seeded /\ e = 1
                     THEN [box |-> b, mid |-> AnyMid, file |-> 1, flags |-> fl, blob |-> blob]
                     ELSE NoRow]
        /\ ls = [f \in File |-> IF Seeded /\ f = 1 THEN [box |-> b, fl |-> fl] ELSE NoState]
    BY DEF Init
<1>2. fl \in SUBSET Flag
    BY BudgetAssumption DEF Init, Environment
<1>3. DiskTypes
    <2>1. nextFile \in 1 .. MaxFile + 1
        BY BoundAssumption DEF Init
    <2>2. disk \in [File -> MaildirFile]
        BY <1>1, <1>2, AnyMidType DEF MaildirFile, Sub
    <2> QED
        BY <2>1, <2>2 DEF DiskTypes
<1>4. ServerTypes
    <2>1. nextEmail \in 1 .. MaxEmail + 1 /\ ver \in Nat \ {0} /\ foreign \subseteq 1 .. ver
        BY BoundAssumption DEF Init
    <2>2. server \in [Email -> EmailObject]
        BY <1>1, <1>2, AnyMidType DEF EmailObject, NoEmailHere
    <2> QED
        BY <2>1, <2>2 DEF ServerTypes
<1>5. DbTypes
    <2>1. cursor \in 0 .. ver /\ dirty \subseteq Box
        BY DEF Init, NoCursor
    <2>2. rows \in Rows
        <3>1. 1 \in File
            BY BoundAssumption DEF File
        <3> QED
            BY <1>1, <1>2, <3>1, AnyMidType DEF Rows, Row
    <2>3. ls \in [File -> LocalState]
        BY <1>1, <1>2 DEF LocalState
    <2> QED
        BY <2>1, <2>2, <2>3 DEF DbTypes
<1>6. ScanTypes
    BY EmptyTypes, PhaseNames DEF Init, ScanTypes, NoCursor
<1>7. ExecTypes
    BY EmptyTypes DEF Init, ExecTypes
<1>8. GhostTypes
    BY DEF Init, GhostTypes, CalmCap
<1> QED
    BY <1>3, <1>4, <1>5, <1>6, <1>7, <1>8 DEF TypeOK

-----------------------------------------------------------------------------
(* A cycle starts, scans, fetches and plans.                               *)

LEMMA StartCycleTypes ==
    ASSUME TypeOK, NEW d \in Directions, StartCycle(d) PROVE TypeOK'
<1> USE DEF StartCycle, TypeOK
<1>1. DiskTypes'
    BY EmptyTypes DEF DiskTypes
<1>2. ServerTypes' /\ DbTypes'
    BY ServerStays, DbStays DEF serverVars
<1>3. ScanTypes'
    <2>1. obs' \in Observation
        <3>1. \A f \in Kept : f \in File /\ disk[f].box \in Box /\ disk[f].mid \in Mid
            BY DEF Kept, OnDisk, DiskTypes, MaildirFile, NoFileHere
        <3>2. {[f |-> f, box |-> disk[f].box, mid |-> disk[f].mid] : f \in Kept}
                 \subseteq [f : File, box : Box, mid : Mid]
            BY <3>1
        <3> QED
            BY <3>2 DEF NoObs, Observation
    <2> QED
        BY <2>1, DirectionAssumption, PhaseNames DEF ScanTypes, serverVars
<1>4. ExecTypes'
    BY DEF ExecTypes, serverVars
<1>5. GhostTypes'
    BY DEF GhostTypes
<1> QED
    BY <1>1, <1>2, <1>3, <1>4, <1>5

LEMMA ScanFolderTypes ==
    ASSUME TypeOK, NEW b \in Box, ScanFolder(b) PROVE TypeOK'
<1> USE DEF ScanFolder, TypeOK
<1>1. DiskTypes' /\ ServerTypes' /\ DbTypes' /\ GhostTypes'
    BY DiskStays, ServerStays, DbStays, GhostStays DEF serverVars
<1>2. ScanTypes'
    <2>1. \A f \in File : disk[f].mid \in Mid /\ disk[f].fl \in SUBSET Flag
        BY AnyMidType DEF DiskTypes, MaildirFile, NoFileHere
    <2>2. {[f |-> f, box |-> b, mid |-> disk[f].mid, fl |-> disk[f].fl] :
              f \in {g \in File : InCur(g, b) /\ ~Known(g, b)}} \subseteq NewMessage
        BY <2>1 DEF NewMessage
    <2>3. {[f |-> f, fl |-> disk[f].fl] :
              f \in {g \in File : InCur(g, b) /\ Known(g, b) /\ disk[g].fl # ls[g].fl}}
                 \subseteq FlaggedFile
        BY <2>1 DEF FlaggedFile
    <2>4. {[f |-> f, box |-> b] : f \in {g \in File : Known(g, b) /\ ~Observed(g, b)}}
                 \subseteq [f : File, box : Box]
        OBVIOUS
    <2>5. {[f |-> f, fl |-> IF disk[f].sub = "cur" THEN disk[f].fl ELSE {}] :
              f \in {g \in File : Observed(g, b)}} \subseteq FlaggedFile
        BY <2>1 DEF FlaggedFile
    <2>6. obs' \in Observation
        BY <2>2, <2>3, <2>4, <2>5 DEF ScanTypes, Observation
    <2> QED
        BY <2>6, PhaseNames DEF ScanTypes, serverVars
<1>3. ExecTypes'
    BY DEF ExecTypes, serverVars
<1> QED
    BY <1>1, <1>2, <1>3

LEMMA FetchTypes ==
    ASSUME TypeOK, FetchChanges \/ ChangesRefused \/ QueryMailboxes \/ GetEmails \/ GetState
    PROVE  TypeOK'
<1> USE DEF TypeOK
<1>1. CASE FetchChanges
    <2>1. DiskTypes' /\ ServerTypes' /\ DbTypes' /\ GhostTypes'
        BY <1>1, DiskStays, ServerStays, DbStays, GhostStays DEF FetchChanges, serverVars
    <2>2. ScanTypes'
        BY <1>1, PhaseNames DEF FetchChanges, ScanTypes, ServerTypes, serverVars, Observation
    <2>3. ExecTypes'
        BY <1>1 DEF FetchChanges, ExecTypes, serverVars
    <2> QED
        BY <2>1, <2>2, <2>3
<1>2. CASE ChangesRefused
    <2>1. DiskTypes' /\ ServerTypes' /\ GhostTypes'
        BY <1>2, DiskStays, ServerStays, GhostStays DEF ChangesRefused
    <2>2. DbTypes'
        BY <1>2 DEF ChangesRefused, DbTypes, ServerTypes, serverVars, NoCursor
    <2>3. ScanTypes' /\ ExecTypes'
        BY <1>2, PhaseNames DEF ChangesRefused, ScanTypes, ExecTypes, serverVars
    <2> QED
        BY <2>1, <2>2, <2>3
<1>3. CASE QueryMailboxes
    <2>1. DiskTypes' /\ ServerTypes' /\ DbTypes' /\ GhostTypes'
        BY <1>3, DiskStays, ServerStays, DbStays, GhostStays DEF QueryMailboxes, serverVars
    <2>2. ScanTypes' /\ ExecTypes'
        BY <1>3, PhaseNames DEF QueryMailboxes, ScanTypes, ExecTypes, serverVars, Observation
    <2> QED
        BY <2>1, <2>2
<1>4. CASE GetEmails
    <2>1. DiskTypes' /\ ServerTypes' /\ DbTypes' /\ GhostTypes'
        BY <1>4, DiskStays, ServerStays, DbStays, GhostStays DEF GetEmails, serverVars
    <2>2. {[e |-> e, box |-> server[e].box, mid |-> server[e].mid, kw |-> server[e].kw] :
              e \in {x \in ids : Live(x)}} \subseteq RemoteEmail
        BY DEF ScanTypes, ServerTypes, EmailObject, RemoteEmail
    <2>3. ScanTypes' /\ ExecTypes'
        BY <1>4, <2>2, PhaseNames DEF GetEmails, ScanTypes, ExecTypes, serverVars, Observation
    <2> QED
        BY <2>1, <2>3
<1>5. CASE GetState
    <2>1. DiskTypes' /\ ServerTypes' /\ DbTypes' /\ GhostTypes'
        BY <1>5, DiskStays, ServerStays, DbStays, GhostStays DEF GetState, serverVars
    <2>2. ScanTypes' /\ ExecTypes'
        BY <1>5, PhaseNames DEF GetState, ScanTypes, ExecTypes, ServerTypes, serverVars
    <2> QED
        BY <2>1, <2>2
<1> QED
    BY <1>1, <1>2, <1>3, <1>4, <1>5

LEMMA MakePlanTypes ==
    ASSUME TypeOK, MakePlan PROVE TypeOK'
<1> USE DEF MakePlan, TypeOK
<1>1. DiskTypes' /\ ServerTypes' /\ DbTypes' /\ GhostTypes'
    BY DiskStays, ServerStays, DbStays, GhostStays DEF serverVars
<1>2. plan' \in Plan
    BY PlanWellFormed DEF ScanTypes, DbTypes
<1>3. pc' \in Phases
    BY NextPhaseType, PhaseNames
<1>4. ScanTypes' /\ ExecTypes'
    BY <1>2, <1>3, EmptyTypes DEF ScanTypes, ExecTypes, serverVars
<1> QED
    BY <1>1, <1>4

-----------------------------------------------------------------------------
(* The executor.                                                           *)

\* What the scan left, while the executor goes from phase to phase.
LEMMA ScanStays ==
    ASSUME ServerTypes, ScanTypes, ver' \in {ver, ver + 1}, pc' \in Phases,
           UNCHANGED <<dir, todo, obs, ids, newState>>
    PROVE  ScanTypes'
BY DEF ServerTypes, ScanTypes

LEMMA AdoptTypes ==
    ASSUME TypeOK, AdoptAll PROVE TypeOK'
<1> USE DEF AdoptAll, TypeOK
<1>1. DiskTypes' /\ ServerTypes' /\ GhostTypes'
    BY DiskStays, ServerStays, GhostStays
<1>2. plan \in Plan /\ plan.adoptR \in SUBSET AdoptAction /\ plan.adoptL \in SUBSET AdoptAction
    BY DEF ExecTypes, Plan
<1>3. rows' \in Rows /\ ls' \in [File -> LocalState]
    BY <1>2, AdoptRowsType, AdoptStatesType DEF UnconditionalRows, DbTypes
<1>4. DbTypes'
    BY <1>3 DEF DbTypes, serverVars
<1>5. pc' \in Phases
    BY NextPhaseType, PhaseNames
<1>6. ScanTypes' /\ ExecTypes'
    BY <1>2, <1>5, ScanStays DEF ExecTypes, Plan, serverVars
<1> QED
    BY <1>1, <1>4, <1>6

\* A file delivered, reflagged, moved or unlinked.
LEMMA DiskSteps ==
    ASSUME DiskTypes, dirty \subseteq Box
    PROVE  /\ \A d \in Download : Delivered(d) => DiskTypes' /\ dirty' \subseteq Box
           /\ \A a \in UpdateLocalFlags :
                 Observed(a.f, a.box) /\ FlagDisk(a) => DiskTypes' /\ dirty' \subseteq Box
           /\ \A a \in MoveLocal :
                 Observed(a.f, a.from) /\ MoveDisk(a) => DiskTypes' /\ dirty' \subseteq Box
           /\ \A a \in DeleteLocal : DeleteDisk(a) => DiskTypes' /\ dirty' \subseteq Box
<1>1. ASSUME NEW d \in Download, Delivered(d) PROVE DiskTypes' /\ dirty' \subseteq Box
    <2>1. [sub |-> Sub(d.kw), box |-> d.box, mid |-> d.mid, fl |-> d.kw] \in MaildirFile
        BY DEF Download, MaildirFile, Sub
    <2>2. nextFile \in File /\ nextFile' \in 1 .. MaxFile + 1
        BY <1>1, BoundAssumption DEF Delivered, File
    <2>3. disk' \in [File -> MaildirFile]
        BY <1>1, <2>1, <2>2 DEF Delivered, DiskTypes
    <2>4. dirty' \subseteq Box
        BY <1>1 DEF Delivered, Download
    <2> QED
        BY <2>2, <2>3, <2>4 DEF DiskTypes
<1>2. ASSUME NEW a \in UpdateLocalFlags, Observed(a.f, a.box), FlagDisk(a)
      PROVE  DiskTypes' /\ dirty' \subseteq Box
    <2>1. disk[a.f] \in [sub : {"cur", "new"}, box : Box, mid : Mid, fl : SUBSET Flag]
        BY <1>2 DEF Observed, OnDisk, DiskTypes, UpdateLocalFlags, MaildirFile, NoFileHere
    <2>2. [disk[a.f] EXCEPT !.sub = "cur", !.fl = a.fl] \in MaildirFile
        BY <2>1 DEF UpdateLocalFlags, MaildirFile
    <2> QED
        BY <1>2, <2>2 DEF FlagDisk, DiskTypes, UpdateLocalFlags
<1>3. ASSUME NEW a \in MoveLocal, Observed(a.f, a.from), MoveDisk(a)
      PROVE  DiskTypes' /\ dirty' \subseteq Box
    <2>1. [disk[a.f] EXCEPT !.box = a.to] \in MaildirFile
        BY <1>3 DEF Observed, OnDisk, DiskTypes, MoveLocal, MaildirFile, NoFileHere
    <2> QED
        BY <1>3, <2>1 DEF MoveDisk, DiskTypes, MoveLocal
<1>4. ASSUME NEW a \in DeleteLocal, DeleteDisk(a) PROVE DiskTypes' /\ dirty' \subseteq Box
    BY <1>4, EmptyTypes DEF DeleteDisk, DiskTypes, DeleteLocal
<1> QED
    BY <1>1, <1>2, <1>3, <1>4

LEMMA DownloadOneTypes ==
    ASSUME TypeOK, NEW d \in plan.down, DownloadOne(d) PROVE TypeOK'
<1> USE DEF DownloadOne, TypeOK
<1>1. ServerTypes' /\ GhostTypes'
    BY ServerStays, GhostStays
<1>2. plan \in Plan /\ d \in Download
    BY DEF ExecTypes, Plan
<1>3. DiskTypes' /\ dirty' \subseteq Box
    BY <1>2, DiskSteps DEF DbTypes
<1>4. DbTypes'
    <2>1. nextFile \in File
        BY DEF Delivered
    <2>2. rows' \in Rows
        BY <1>2, <2>1 DEF DbTypes, Rows, Row, Download
    <2>3. ls' \in [File -> LocalState]
        BY <1>2, <2>1 DEF DbTypes, LocalState, Download
    <2> QED
        BY <1>3, <2>2, <2>3 DEF DbTypes, serverVars
<1>5. pc' \in Phases
    BY NextPhaseType, PhaseNames
<1>6. ScanTypes' /\ ExecTypes'
    BY <1>2, <1>5, ScanStays DEF ExecTypes, Plan, serverVars
<1> QED
    BY <1>1, <1>3, <1>4, <1>6

LEMMA LocalFlagTypes ==
    ASSUME TypeOK, NEW a \in plan.lflag, LocalFlag(a) PROVE TypeOK'
<1> USE DEF LocalFlag, TypeOK
<1>1. ServerTypes' /\ GhostTypes'
    BY ServerStays, GhostStays
<1>2. plan \in Plan /\ a \in UpdateLocalFlags
    BY DEF ExecTypes, Plan
<1>3. DiskTypes' /\ dirty' \subseteq Box
    BY <1>2, DiskSteps DEF DbTypes
<1>4. DbTypes'
    <2>1. rows' \in Rows
        BY <1>2 DEF FlagRows, DbTypes, Rows, Row, UpdateLocalFlags
    <2>2. ls' \in [File -> LocalState]
        BY <1>2 DEF DbTypes, LocalState, UpdateLocalFlags
    <2> QED
        BY <1>3, <2>1, <2>2 DEF DbTypes, serverVars
<1>5. pc' \in Phases
    BY NextPhaseType, PhaseNames
<1>6. ScanTypes' /\ ExecTypes'
    BY <1>2, <1>5, ScanStays DEF ExecTypes, Plan, serverVars
<1> QED
    BY <1>1, <1>3, <1>4, <1>6

LEMMA LocalMoveTypes ==
    ASSUME TypeOK, NEW a \in plan.lmove, LocalMove(a) PROVE TypeOK'
<1> USE DEF LocalMove, TypeOK
<1>1. ServerTypes' /\ GhostTypes'
    BY ServerStays, GhostStays
<1>2. plan \in Plan /\ a \in MoveLocal
    BY DEF ExecTypes, Plan
<1>3. DiskTypes' /\ dirty' \subseteq Box
    BY <1>2, DiskSteps DEF DbTypes
<1>4. DbTypes'
    <2>1. rows' \in Rows
        <3>1. CASE HasRow(rows, a.e)
            <4>1. rows[a.e] \in [box : Box, mid : Mid, file : File, flags : SUBSET Flag,
                                 blob : BOOLEAN]
                BY <1>2, <3>1, RowThere DEF DbTypes, MoveLocal
            <4>2. [rows[a.e] EXCEPT !.box = a.to] \in Row
                BY <1>2, <4>1 DEF Row, MoveLocal
            <4> QED
                BY <1>2, <3>1, <4>2 DEF DbTypes, Rows, MoveLocal
        <3>2. CASE ~HasRow(rows, a.e)
            BY <3>2 DEF DbTypes
        <3> QED
            BY <3>1, <3>2
    <2>2. ls' \in [File -> LocalState]
        <3>1. rows[a.e].flags \in SUBSET Flag
            BY <1>2, RowFields DEF DbTypes, MoveLocal
        <3> QED
            BY <1>2, <3>1 DEF DbTypes, LocalState, MoveLocal
    <2> QED
        BY <1>3, <2>1, <2>2 DEF DbTypes, serverVars
<1>5. pc' \in Phases
    BY NextPhaseType, PhaseNames
<1>6. ScanTypes' /\ ExecTypes'
    BY <1>2, <1>5, ScanStays DEF ExecTypes, Plan, serverVars
<1> QED
    BY <1>1, <1>3, <1>4, <1>6

LEMMA LocalDeleteTypes ==
    ASSUME TypeOK, NEW a \in plan.ldel, LocalDelete(a) PROVE TypeOK'
<1> USE DEF LocalDelete, TypeOK
<1>1. ServerTypes' /\ GhostTypes'
    BY ServerStays, GhostStays
<1>2. plan \in Plan /\ a \in DeleteLocal
    BY DEF ExecTypes, Plan
<1>3. DiskTypes' /\ dirty' \subseteq Box
    BY <1>2, DiskSteps DEF DbTypes
<1>4. DbTypes'
    <2>1. rows' \in Rows /\ ls' \in [File -> LocalState]
        BY <1>2, EmptyTypes DEF DbTypes, Rows
    <2> QED
        BY <1>3, <2>1 DEF DbTypes, serverVars
<1>5. pc' \in Phases
    BY NextPhaseType, PhaseNames
<1>6. ScanTypes' /\ ExecTypes'
    BY <1>2, <1>5, ScanStays DEF ExecTypes, Plan, serverVars
<1> QED
    BY <1>1, <1>3, <1>4, <1>6

LEMMA SkippedTypes ==
    ASSUME TypeOK,
           \/ \E a \in plan.lflag : LocalFlagSkipped(a)
           \/ \E a \in plan.lmove : LocalMoveSkipped(a)
           \/ \E u \in plan.up : UploadSkipped(u)
    PROVE  TypeOK'
<1> USE DEF TypeOK
<1>1. /\ UNCHANGED <<diskVars, serverVars, dbVars, ghostVars>>
      /\ UNCHANGED <<dir, todo, obs, ids, newState, imported, own, failed, mirrors>>
      /\ held' \in {held, TRUE}
      /\ \/ \E a \in plan.lflag : plan' = [plan EXCEPT !.lflag = @ \ {a}]
         \/ \E a \in plan.lmove : plan' = [plan EXCEPT !.lmove = @ \ {a}]
         \/ \E u \in plan.up : plan' = [plan EXCEPT !.up = @ \ {u}]
      /\ \E p \in {"lflag", "lmove", "upload"} : pc' = NextPhase(p, plan', imported, mirrors)
    BY DEF LocalFlagSkipped, LocalMoveSkipped, UploadSkipped
<1>2. DiskTypes' /\ ServerTypes' /\ DbTypes' /\ GhostTypes'
    BY <1>1, DiskStays, ServerStays, DbStays, GhostStays DEF serverVars
<1>3. plan' \in Plan
    BY <1>1 DEF ExecTypes, Plan
<1>4. pc' \in Phases
    BY <1>1, NextPhaseType, PhaseNames
<1>5. ScanTypes'
    BY <1>1, <1>4, ScanStays DEF serverVars
<1>6. ExecTypes'
    BY <1>1, <1>3 DEF ExecTypes, serverVars
<1> QED
    BY <1>2, <1>5, <1>6

LEMMA UploadOneTypes ==
    ASSUME TypeOK, NEW u \in plan.up, UploadOne(u) PROVE TypeOK'
<1> USE DEF UploadOne, TypeOK
<1>1. DiskTypes' /\ GhostTypes' /\ DbTypes'
    BY DiskStays, GhostStays, DbStays
<1>2. plan \in Plan /\ u \in NewMessage
    BY DEF ExecTypes, Plan
<1>3. ServerTypes'
    <2>1. nextEmail' \in 1 .. MaxEmail + 1 /\ ver' \in Nat \ {0} /\ foreign' \subseteq 1 .. ver'
        BY BoundAssumption DEF ServerTypes, Email
    <2>2. server' \in [Email -> EmailObject]
        BY <1>2 DEF ServerTypes, EmailObject, NewMessage
    <2> QED
        BY <2>1, <2>2 DEF ServerTypes
<1>4. pc' \in Phases
    BY NextPhaseType, PhaseNames
<1>5. ScanTypes'
    BY <1>4, ScanStays
<1>6. ExecTypes'
    <2>1. imported' \subseteq Imported
        BY <1>2 DEF ExecTypes, Imported
    <2>2. own' \subseteq 0 .. ver'
        BY DEF ExecTypes, ServerTypes
    <2> QED
        BY <1>2, <2>1, <2>2 DEF ExecTypes, Plan
<1> QED
    BY <1>1, <1>3, <1>5, <1>6

LEMMA UploadRowTypes ==
    ASSUME NEW i \in Imported
    PROVE  UploadRow(i) \in Row /\ UploadState(i) \in LocalState
BY DEF Imported, NewMessage, UploadRow, UploadState, Row, LocalState

LEMMA CommitUploadTypes ==
    ASSUME TypeOK, NEW i \in imported, CommitUpload(i) PROVE TypeOK'
<1> USE DEF CommitUpload, TypeOK
<1>1. DiskTypes' /\ ServerTypes' /\ GhostTypes'
    BY DiskStays, ServerStays, GhostStays
<1>2. i \in Imported
    BY DEF ExecTypes
<1>3. DbTypes'
    BY <1>2, UploadRowTypes DEF DbTypes, Rows, Imported, NewMessage, serverVars
<1>4. pc' \in Phases
    BY NextPhaseType, PhaseNames
<1>5. ScanTypes' /\ ExecTypes'
    BY <1>4, ScanStays DEF ExecTypes, serverVars
<1> QED
    BY <1>1, <1>3, <1>5

LEMMA UploadErrorTypes ==
    ASSUME TypeOK, UploadError PROVE TypeOK'
<1> USE DEF UploadError, TypeOK
<1>1. DiskTypes' /\ ServerTypes'
    BY DiskStays, ServerStays
<1>2. ScanTypes' /\ ExecTypes' /\ GhostTypes'
    BY <1>1, FailTypes
<1>3. imported \subseteq Imported
    BY DEF ExecTypes
<1>. PICK I \in SUBSET imported :
        /\ rows' = Uploaded(I)
        /\ ls' = [f \in File |-> IF \E i \in I : i.u.f = f
                    THEN UploadState(CHOOSE i \in I : i.u.f = f) ELSE ls[f]]
    OBVIOUS
<1>4. rows' \in Rows
    <2>1. ASSUME NEW e \in Email, \E i \in I : i.e = e
          PROVE  UploadRow(CHOOSE i \in I : i.e = e) \in Row
        BY <1>3, <2>1, UploadRowTypes
    <2> QED
        BY <2>1 DEF DbTypes, Rows, Uploaded
<1>5. ls' \in [File -> LocalState]
    <2>1. ASSUME NEW f \in File, \E i \in I : i.u.f = f
          PROVE  UploadState(CHOOSE i \in I : i.u.f = f) \in LocalState
        BY <1>3, <2>1, UploadRowTypes
    <2> QED
        BY <2>1 DEF DbTypes
<1>6. DbTypes'
    BY <1>4, <1>5 DEF DbTypes, serverVars
<1> QED
    BY <1>1, <1>2, <1>6

\* An Email/set patches keywords, moves emails to synced mailboxes or destroys.
LEMMA RemoteSetTypes ==
    ASSUME TypeOK, NEW refused \in SUBSET Email, RemoteSet(refused) PROVE TypeOK'
<1> DEFINE updates == {a.e : a \in plan.rkw} \cup {a.e : a \in plan.rmove}
           updated == {e \in updates : Live(e)} \ (plan.rdel \cup refused)
           destroyed == {e \in plan.rdel : Live(e)} \ refused
           change == updated \cup destroyed # {}
           Patched(e) ==
               (server[e].kw \cup UNION {a.on : a \in {x \in plan.rkw : x.e = e}})
                   \ UNION {a.off : a \in {x \in plan.rkw : x.e = e}}
           Placed(e) ==
               IF \E a \in plan.rmove : a.e = e
               THEN (CHOOSE a \in plan.rmove : a.e = e).to ELSE server[e].box
<1>1. /\ ver' = IF change THEN ver + 1 ELSE ver
      /\ own' = own \cup {IF change THEN ver + 1 ELSE 0}
      /\ server' = [e \in Email |->
            IF e \in destroyed THEN [server[e] EXCEPT !.st = "gone", !.at = ver']
            ELSE IF e \in updated
                 THEN [server[e] EXCEPT !.kw = Patched(e), !.box = Placed(e), !.at = ver']
            ELSE server[e]]
      /\ failed' = updates \ updated
      /\ mirrors' = [rkw |-> {a \in plan.rkw : a.e \in updated}, rdel |-> destroyed]
      /\ plan' = [plan EXCEPT !.rkw = {}, !.rmove = {}, !.rdel = {}]
      /\ pc' = NextPhase("mirror", plan', imported, mirrors')
      /\ quiet' = (quiet /\ refused = {})
      /\ UNCHANGED <<diskVars, nextEmail, foreign, dbVars, dir, todo, obs, ids, newState,
                     imported, held, removed, foreignMove, calm>>
    BY DEF RemoteSet
<1>2. /\ plan \in Plan /\ plan.rkw \in SUBSET UpdateRemoteKeywords
      /\ plan.rmove \in SUBSET MoveRemote /\ plan.rdel \in SUBSET Email
    BY DEF TypeOK, ExecTypes, Plan
<1>3. updates \in SUBSET Email /\ destroyed \in SUBSET Email
    BY <1>2 DEF UpdateRemoteKeywords, MoveRemote
<1>4. /\ ver' \in {ver, ver + 1} /\ ver \in Nat \ {0}
      /\ foreign' \subseteq 1 .. ver' /\ own' \subseteq 0 .. ver'
    <2>1. /\ foreign' = foreign /\ foreign \subseteq 1 .. ver
          /\ ver \in Nat \ {0} /\ own \subseteq 0 .. ver
        BY <1>1 DEF TypeOK, ServerTypes, ExecTypes
    <2>2. \/ ver' = ver + 1 /\ own' = own \cup {ver + 1}
          \/ ver' = ver /\ own' = own \cup {0}
        BY <1>1
    <2>3. CASE ver' = ver + 1 /\ own' = own \cup {ver + 1}
        BY <2>1, <2>3
    <2>4. CASE ver' = ver /\ own' = own \cup {0}
        BY <2>1, <2>4
    <2> QED
        BY <2>2, <2>3, <2>4
<1>5. ASSUME NEW e \in Email
      PROVE  Patched(e) \in SUBSET Flag /\ Placed(e) \in Box \cup {Unsynced}
    <2>1. server[e].kw \in SUBSET Flag /\ server[e].box \in Box \cup {Unsynced}
        BY DEF TypeOK, ServerTypes, EmailObject
    <2>2. UNION {a.on : a \in {x \in plan.rkw : x.e = e}} \subseteq Flag
        BY <1>2 DEF UpdateRemoteKeywords
    <2>3. Patched(e) \in SUBSET Flag
        BY <2>1, <2>2
    <2>4. Placed(e) \in Box \cup {Unsynced}
        BY <1>2, <2>1 DEF MoveRemote
    <2> QED
        BY <2>3, <2>4
<1> HIDE DEF updates, updated, destroyed, change, Patched, Placed
<1>6. ServerTypes'
    <2>1. server' \in [Email -> EmailObject]
        <3>1. ASSUME NEW e \in Email
              PROVE  /\ server[e] \in EmailObject
                     /\ [server[e] EXCEPT !.st = "gone", !.at = ver'] \in EmailObject
                     /\ [server[e] EXCEPT !.kw = Patched(e), !.box = Placed(e), !.at = ver']
                           \in EmailObject
            <4>1. server[e] \in EmailObject /\ ver' \in Nat
                BY <1>4 DEF TypeOK, ServerTypes
            <4>2. [server[e] EXCEPT !.st = "gone", !.at = ver'] \in EmailObject
                BY <4>1 DEF EmailObject
            <4>3. [server[e] EXCEPT !.kw = Patched(e), !.box = Placed(e), !.at = ver']
                      \in EmailObject
                BY <1>5, <4>1 DEF EmailObject
            <4> QED
                BY <4>1, <4>2, <4>3
        <3> QED
            BY <1>1, <3>1
    <2>2. nextEmail' = nextEmail /\ nextEmail \in 1 .. MaxEmail + 1
        BY <1>1 DEF TypeOK, ServerTypes
    <2>3. ver' \in Nat \ {0}
        BY <1>4
    <2> QED
        BY <1>4, <2>1, <2>2, <2>3 DEF ServerTypes
<1>7. DiskTypes' /\ DbTypes'
    BY <1>1, <1>4, DiskStays, DbStays DEF TypeOK
<1>8. GhostTypes'
    BY <1>1 DEF TypeOK, GhostTypes
<1>9. ScanTypes'
    <2>1. pc' \in Phases
        BY <1>1, NextPhaseType, PhaseNames
    <2> QED
        BY <1>1, <1>4, <2>1, ScanStays DEF TypeOK
<1>10. ExecTypes'
    <2>1. plan' \in Plan
        BY <1>1, <1>2 DEF Plan
    <2>2. mirrors' \in Mirrors
        BY <1>1, <1>2, <1>3 DEF Mirrors
    <2>3. failed' \subseteq Email
        BY <1>1, <1>3
    <2> QED
        BY <1>1, <1>4, <2>1, <2>2, <2>3 DEF TypeOK, ExecTypes
<1> QED
    BY <1>6, <1>7, <1>8, <1>9, <1>10 DEF TypeOK

LEMMA MirrorSetTypes ==
    ASSUME TypeOK, MirrorSet PROVE TypeOK'
<1> USE DEF MirrorSet, TypeOK
<1>1. DiskTypes' /\ ServerTypes' /\ GhostTypes'
    BY DiskStays, ServerStays, GhostStays
<1>2. mirrors.rkw \in SUBSET UpdateRemoteKeywords
    BY DEF ExecTypes, Mirrors
<1>3. rows' \in Rows
    <2>1. ASSUME NEW e \in Email, HasRow(rows, e), \E a \in mirrors.rkw : a.e = e
          PROVE  [rows[e] EXCEPT !.flags = (@ \cup MirrorOf(e).on) \ MirrorOf(e).off] \in Row
        <3>1. MirrorOf(e) \in UpdateRemoteKeywords
            BY <1>2, <2>1 DEF MirrorOf
        <3>2. rows[e] \in [box : Box, mid : Mid, file : File, flags : SUBSET Flag,
                           blob : BOOLEAN]
            BY <2>1, RowThere DEF DbTypes
        <3> QED
            BY <3>1, <3>2 DEF Row, UpdateRemoteKeywords
    <2> QED
        BY <2>1, EmptyTypes DEF DbTypes, Rows
<1>4. ls' \in [File -> LocalState]
    <2>1. ASSUME NEW f \in File, HasState(f), \E a \in mirrors.rkw : rows[a.e].file = f
          PROVE  [ls[f] EXCEPT !.fl = (CHOOSE a \in mirrors.rkw : rows[a.e].file = f).fl]
                    \in LocalState
        <3>1. (CHOOSE a \in mirrors.rkw : rows[a.e].file = f).fl \in SUBSET Flag
            BY <1>2, <2>1 DEF UpdateRemoteKeywords
        <3>2. ls[f] \in [box : Box, fl : SUBSET Flag]
            BY <2>1 DEF DbTypes, LocalState, HasState, NoState
        <3> QED
            BY <3>1, <3>2 DEF LocalState
    <2> QED
        BY <2>1, EmptyTypes DEF DbTypes
<1>5. DbTypes'
    BY <1>3, <1>4 DEF DbTypes, serverVars
<1>6. pc' \in Phases
    BY NextPhaseType, PhaseNames
<1>7. ScanTypes' /\ ExecTypes'
    BY <1>6, ScanStays, EmptyTypes DEF ExecTypes, serverVars
<1> QED
    BY <1>1, <1>5, <1>7

LEMMA AdoptPairsTypes ==
    ASSUME TypeOK, AdoptPairs PROVE TypeOK'
<1> USE DEF AdoptPairs, TypeOK
<1>1. DiskTypes' /\ ServerTypes' /\ GhostTypes'
    BY DiskStays, ServerStays, GhostStays
<1>2. plan \in Plan /\ LandedPairs \in SUBSET AdoptAction
    BY DEF ExecTypes, Plan, LandedPairs
<1>3. DbTypes'
    BY <1>2, AdoptRowsType, AdoptStatesType DEF DbTypes, serverVars
<1>4. ScanTypes' /\ ExecTypes'
    BY <1>2, ScanStays, PhaseNames DEF ExecTypes, Plan, serverVars
<1> QED
    BY <1>1, <1>3, <1>4

LEMMA AdvanceCursorTypes ==
    ASSUME TypeOK, AdvanceCursor PROVE TypeOK'
<1> USE DEF AdvanceCursor, TypeOK
<1>1. DiskTypes' /\ ServerTypes' /\ GhostTypes'
    BY DiskStays, ServerStays, GhostStays
<1>2. WalkChain(newState, own) \in 0 .. ver
    BY DEF WalkChain, ScanTypes, ExecTypes
<1>3. DbTypes'
    BY <1>2 DEF DbTypes, serverVars
<1>4. ScanTypes' /\ ExecTypes'
    BY ScanStays, PhaseNames DEF ExecTypes, serverVars
<1> QED
    BY <1>1, <1>3, <1>4

LEMMA CheckpointTypes ==
    ASSUME TypeOK, Checkpoint PROVE TypeOK'
<1> USE DEF Checkpoint, TypeOK
<1>1. DiskTypes' /\ ServerTypes'
    BY DiskStays, ServerStays
<1>2. DbTypes'
    BY DEF DbTypes, serverVars
<1>3. ScanTypes' /\ ExecTypes'
    BY <1>1, ResetTypes
<1>4. GhostTypes'
    BY DEF GhostTypes, CalmCap
<1> QED
    BY <1>1, <1>2, <1>3, <1>4

-----------------------------------------------------------------------------
(* A cycle that ends early.                                                *)

LEMMA FailedTypes ==
    ASSUME TypeOK,
           \/ IndexRefuses \/ CycleDies
           \/ \E d \in plan.down : DownloadGone(d)
    PROVE  TypeOK'
<1>1. CycleFails /\ UNCHANGED <<diskVars, serverVars, dbVars>>
    BY DEF IndexRefuses, CycleDies, DownloadGone
<1>2. DiskTypes' /\ ServerTypes' /\ DbTypes'
    BY <1>1, DiskStays, ServerStays, DbStays DEF TypeOK, serverVars
<1> QED
    BY <1>1, <1>2, FailTypes DEF TypeOK

LEMMA DiesAfterDiskTypes ==
    ASSUME TypeOK, DiesAfterDisk PROVE TypeOK'
<1>1. ServerTypes'
    BY ServerStays DEF DiesAfterDisk, TypeOK
<1>2. ScanTypes' /\ ExecTypes' /\ GhostTypes'
    BY <1>1, FailTypes DEF DiesAfterDisk, TypeOK
<1>3. DiskTypes' /\ dirty' \subseteq Box
    <2>1. /\ DiskTypes /\ dirty \subseteq Box
          /\ plan.down \subseteq Download /\ plan.lflag \subseteq UpdateLocalFlags
          /\ plan.lmove \subseteq MoveLocal /\ plan.ldel \subseteq DeleteLocal
        BY DEF TypeOK, DbTypes, ExecTypes, Plan
    <2> QED
        BY <2>1, DiskSteps DEF DiesAfterDisk
<1>4. DbTypes'
    BY <1>3 DEF DiesAfterDisk, TypeOK, DbTypes, serverVars
<1> QED
    BY <1>1, <1>2, <1>3, <1>4 DEF TypeOK

-----------------------------------------------------------------------------
(* The user's mail programs and other clients.                             *)

LEMMA UserTypes ==
    ASSUME TypeOK, UserActs PROVE TypeOK'
<1> USE DEF UserStep, Disturb
<1>1. ASSUME UNCHANGED <<serverVars, rows, ls, cursor, cycleVars, foreignMove>>, calm' = 0,
             quiet' = FALSE, DiskTypes', dirty' \subseteq Box, removed' \subseteq Mid
      PROVE  TypeOK'
    <2>1. ServerTypes' /\ ScanTypes' /\ ExecTypes'
        BY <1>1, ServerStays, CycleStays DEF TypeOK, serverVars
    <2>2. DbTypes'
        BY <1>1 DEF TypeOK, DbTypes, serverVars
    <2>3. GhostTypes'
        <3>1. quiet' \in BOOLEAN
            BY <1>1, Zenon
        <3> QED
            BY <1>1, <3>1 DEF TypeOK, GhostTypes, CalmCap
    <2> QED
        BY <1>1, <2>1, <2>2, <2>3 DEF TypeOK
<1>2. /\ dirty \subseteq Box /\ removed \subseteq Mid
      /\ nextFile \in 1 .. MaxFile + 1 /\ disk \in [File -> MaildirFile]
    BY DEF TypeOK, DbTypes, GhostTypes, DiskTypes
<1>3. \A f \in File : OnDisk(f) =>
          disk[f] \in [sub : {"cur", "new"}, box : Box, mid : Mid, fl : SUBSET Flag]
    BY <1>2 DEF OnDisk, MaildirFile, NoFileHere
<1>4. ASSUME NEW b \in Box, NEW m \in Mid, NEW fl \in SUBSET Flag, PutFile(b, m, fl)
      PROVE  DiskTypes' /\ dirty' \subseteq Box
    <2>1. nextFile' \in 1 .. MaxFile + 1
        BY <1>4, BoundAssumption DEF PutFile, File
    <2>2. disk' \in [File -> MaildirFile]
        BY <1>2, <1>4 DEF PutFile, MaildirFile
    <2> QED
        BY <1>2, <1>4, <2>1, <2>2 DEF PutFile, DiskTypes
<1>5. ASSUME NEW b \in Box, NEW m \in Mid, NEW fl \in SUBSET Flag, UserNew(b, m, fl)
      PROVE  TypeOK'
    BY <1>1, <1>2, <1>4, <1>5 DEF UserNew
<1>6. ASSUME NEW b \in Box, NEW f \in File, UserCopy(f, b) PROVE TypeOK'
    BY <1>1, <1>2, <1>3, <1>4, <1>6 DEF UserCopy
<1>7. ASSUME NEW b \in Box, NEW f \in File, UserMove(f, b) PROVE TypeOK'
    <2>1. /\ disk[f] \in [sub : {"cur", "new"}, box : Box, mid : Mid, fl : SUBSET Flag]
          /\ disk' = [disk EXCEPT ![f].box = b, ![f].sub = "cur"]
          /\ dirty' = dirty \cup {b, disk[f].box} /\ nextFile' = nextFile /\ removed' = removed
        BY <1>3, <1>7 DEF UserMove
    <2>2. [disk[f] EXCEPT !.box = b, !.sub = "cur"] \in MaildirFile
        BY <2>1 DEF MaildirFile
    <2>3. disk' = [disk EXCEPT ![f] = [disk[f] EXCEPT !.box = b, !.sub = "cur"]]
        BY <1>2, <2>1
    <2>4. DiskTypes' /\ dirty' \subseteq Box
        BY <1>2, <2>1, <2>2, <2>3 DEF DiskTypes
    <2> QED
        BY <1>1, <1>2, <1>7, <2>1, <2>4 DEF UserMove
<1>8. ASSUME NEW b \in Box, NEW f \in File, UserRename(f, b) PROVE TypeOK'
    <2>1. /\ disk[f] \in [sub : {"cur", "new"}, box : Box, mid : Mid, fl : SUBSET Flag]
          /\ nextFile \in File /\ nextFile' = nextFile + 1
          /\ disk' = [disk EXCEPT ![f] = NoFileHere,
                                  ![nextFile] = [disk[f] EXCEPT !.box = b, !.sub = "cur"]]
          /\ dirty' = dirty \cup {b, disk[f].box} /\ removed' = removed
        BY <1>3, <1>8 DEF UserRename
    <2>2. [disk[f] EXCEPT !.box = b, !.sub = "cur"] \in MaildirFile
        BY <2>1 DEF MaildirFile
    <2>3. nextFile' \in 1 .. MaxFile + 1
        BY <2>1, BoundAssumption DEF File
    <2>4. DiskTypes' /\ dirty' \subseteq Box
        BY <1>2, <2>1, <2>2, <2>3, EmptyTypes DEF DiskTypes
    <2> QED
        BY <1>1, <1>2, <1>8, <2>1, <2>4 DEF UserRename
<1>9. ASSUME NEW f \in File, NEW fl \in SUBSET Flag, UserFlag(f, fl) PROVE TypeOK'
    <2>1. /\ disk[f] \in [sub : {"cur", "new"}, box : Box, mid : Mid, fl : SUBSET Flag]
          /\ disk' = [disk EXCEPT ![f].sub = "cur", ![f].fl = fl]
          /\ dirty' = dirty \cup {disk[f].box} /\ nextFile' = nextFile /\ removed' = removed
        BY <1>3, <1>9 DEF UserFlag
    <2>2. [disk[f] EXCEPT !.sub = "cur", !.fl = fl] \in MaildirFile
        BY <2>1 DEF MaildirFile
    <2>3. disk' = [disk EXCEPT ![f] = [disk[f] EXCEPT !.sub = "cur", !.fl = fl]]
        BY <1>2, <2>1
    <2>4. DiskTypes' /\ dirty' \subseteq Box
        BY <1>2, <2>1, <2>2, <2>3 DEF DiskTypes
    <2> QED
        BY <1>1, <1>2, <1>9, <2>1, <2>4 DEF UserFlag
<1>10. ASSUME NEW f \in File, NEW fl \in SUBSET Flag, UserUnflag(f, fl) PROVE TypeOK'
    <2>1. /\ disk[f] \in [sub : {"cur", "new"}, box : Box, mid : Mid, fl : SUBSET Flag]
          /\ disk' = [disk EXCEPT ![f].fl = fl]
          /\ dirty' = dirty \cup {disk[f].box} /\ nextFile' = nextFile /\ removed' = removed
        BY <1>3, <1>10 DEF UserUnflag, OnDisk
    <2>2. [disk[f] EXCEPT !.fl = fl] \in MaildirFile
        BY <2>1 DEF MaildirFile
    <2>3. DiskTypes' /\ dirty' \subseteq Box
        BY <1>2, <2>1, <2>2 DEF DiskTypes
    <2> QED
        BY <1>1, <1>2, <1>10, <2>1, <2>3 DEF UserUnflag
<1>11. ASSUME NEW f \in File, UserDelete(f) PROVE TypeOK'
    <2>1. disk[f] \in [sub : {"cur", "new"}, box : Box, mid : Mid, fl : SUBSET Flag]
        BY <1>3, <1>11 DEF UserDelete
    <2>2. DiskTypes' /\ dirty' \subseteq Box /\ removed' \subseteq Mid
        BY <1>2, <1>11, <2>1, EmptyTypes DEF UserDelete, DiskTypes
    <2> QED
        BY <1>1, <1>11, <2>2 DEF UserDelete
<1>12. CASE DbLost
    <2>1. DiskTypes' /\ ServerTypes' /\ ScanTypes' /\ ExecTypes'
        BY <1>12, DiskStays, ServerStays, CycleStays DEF DbLost, TypeOK, serverVars
    <2>2. DbTypes'
        BY <1>12, EmptyTypes DEF DbLost, TypeOK, DbTypes, ServerTypes, serverVars, Rows, NoCursor
    <2>3. GhostTypes'
        <3>1. quiet' \in BOOLEAN
            BY <1>12, Zenon DEF DbLost
        <3> QED
            BY <1>12, <3>1 DEF DbLost, TypeOK, GhostTypes, CalmCap
    <2> QED
        BY <2>1, <2>2, <2>3 DEF TypeOK
<1> QED
    BY <1>5, <1>6, <1>7, <1>8, <1>9, <1>10, <1>11, <1>12 DEF UserActs

LEMMA ServerActTypes ==
    ASSUME TypeOK, ServerActs PROVE TypeOK'
<1> USE DEF ServerStep, Disturb
<1>1. ASSUME UNCHANGED <<diskVars, dbVars, cycleVars>>, calm' = 0, quiet' = FALSE,
             ver' = ver + 1, foreign' = foreign \cup {ver'},
             server' \in [Email -> EmailObject], nextEmail' \in 1 .. MaxEmail + 1,
             removed' \subseteq Mid, foreignMove' \subseteq Email
      PROVE  TypeOK'
    <2>1. DiskTypes' /\ DbTypes' /\ ScanTypes' /\ ExecTypes'
        BY <1>1, DiskStays, DbStays, CycleStays DEF TypeOK
    <2>2. ver' \in Nat \ {0} /\ foreign' \subseteq 1 .. ver'
        BY <1>1 DEF TypeOK, ServerTypes
    <2>3. ServerTypes'
        BY <1>1, <2>2 DEF ServerTypes
    <2>4. GhostTypes'
        <3>1. quiet' \in BOOLEAN
            BY <1>1, Zenon
        <3> QED
            BY <1>1, <3>1 DEF GhostTypes, CalmCap
    <2> QED
        BY <2>1, <2>3, <2>4 DEF TypeOK
<1>2. /\ ver \in Nat /\ nextEmail \in 1 .. MaxEmail + 1 /\ server \in [Email -> EmailObject]
      /\ removed \subseteq Mid /\ foreignMove \subseteq Email
    BY DEF TypeOK, ServerTypes, GhostTypes
<1>3. ASSUME NEW b \in Box \cup {Unsynced}, NEW m \in Mid, NEW kw \in SUBSET Flag,
             ver' = ver + 1, NewEmail(b, m, kw)
      PROVE  /\ server' \in [Email -> EmailObject] /\ nextEmail' \in 1 .. MaxEmail + 1
             /\ removed' \subseteq Mid /\ foreignMove' \subseteq Email
    <2>1. nextEmail' \in 1 .. MaxEmail + 1
        BY <1>3, BoundAssumption DEF NewEmail, Email
    <2>2. [st |-> "live", box |-> b, mid |-> m, kw |-> kw, at |-> ver'] \in EmailObject
        BY <1>2, <1>3 DEF EmailObject
    <2> QED
        BY <1>2, <1>3, <2>1, <2>2 DEF NewEmail
<1>4. ASSUME NEW b \in Box \cup {Unsynced}, NEW m \in Mid, NEW kw \in SUBSET Flag,
             ServerCreate(b, m, kw)
      PROVE  TypeOK'
    BY <1>1, <1>3, <1>4 DEF ServerCreate
<1>5. ASSUME NEW b \in Box, NEW e \in Email, ServerDuplicate(e, b) PROVE TypeOK'
    <2>1. server[e].mid \in Mid /\ server[e].kw \in SUBSET Flag
        BY <1>2 DEF EmailObject
    <2> QED
        BY <1>1, <1>3, <1>5, <2>1 DEF ServerDuplicate
<1>6. ASSUME NEW b \in Box \cup {Unsynced}, NEW e \in Email, ServerMove(e, b) PROVE TypeOK'
    <2> server[e] \in EmailObject /\ ver' \in Nat
        BY <1>2, <1>6 DEF ServerMove
    <2>1. [server[e] EXCEPT !.box = b, !.at = ver'] \in EmailObject
        BY DEF EmailObject
    <2>2. server' \in [Email -> EmailObject]
        BY <1>2, <1>6, <2>1 DEF ServerMove
    <2> QED
        BY <1>1, <1>2, <1>6, <2>2 DEF ServerMove
<1>7. ASSUME NEW e \in Email, NEW kw \in SUBSET Flag, ServerFlag(e, kw) PROVE TypeOK'
    <2> server[e] \in EmailObject /\ ver' \in Nat
        BY <1>2, <1>7 DEF ServerFlag
    <2>1. [server[e] EXCEPT !.kw = kw, !.at = ver'] \in EmailObject
        BY DEF EmailObject
    <2>2. server' \in [Email -> EmailObject]
        BY <1>2, <1>7, <2>1 DEF ServerFlag
    <2> QED
        BY <1>1, <1>2, <1>7, <2>2 DEF ServerFlag
<1>8. ASSUME NEW e \in Email, ServerDestroy(e) PROVE TypeOK'
    <2> server[e] \in EmailObject /\ ver' \in Nat
        BY <1>2, <1>8 DEF ServerDestroy
    <2>1. [server[e] EXCEPT !.st = "gone", !.at = ver'] \in EmailObject /\ server[e].mid \in Mid
        BY DEF EmailObject
    <2>2. server' \in [Email -> EmailObject]
        BY <1>2, <1>8, <2>1 DEF ServerDestroy
    <2> QED
        BY <1>1, <1>2, <1>8, <2>1, <2>2 DEF ServerDestroy
<1> QED
    BY <1>4, <1>5, <1>6, <1>7, <1>8 DEF ServerActs

-----------------------------------------------------------------------------
LEMMA StepTypes == TypeOK /\ [Next]_vars => TypeOK'
<1> SUFFICES ASSUME TypeOK, [Next]_vars PROVE TypeOK'
    OBVIOUS
<1>1. CASE \E d \in Directions : StartCycle(d)
    BY <1>1, StartCycleTypes
<1>2. CASE Observe
    BY <1>2, ScanFolderTypes, FetchTypes, MakePlanTypes DEF Observe
<1>3. CASE Execute
    BY <1>3, AdoptTypes, FailedTypes, DownloadOneTypes, LocalFlagTypes, LocalMoveTypes,
       LocalDeleteTypes, SkippedTypes, UploadOneTypes, CommitUploadTypes, RemoteSetTypes,
       MirrorSetTypes, AdoptPairsTypes, AdvanceCursorTypes, CheckpointTypes DEF Execute
<1>4. CASE Fails
    BY <1>4, UploadErrorTypes, FailedTypes, DiesAfterDiskTypes DEF Fails
<1>5. CASE UserActs
    BY <1>5, UserTypes
<1>6. CASE ServerActs
    BY <1>6, ServerActTypes
<1>7. CASE UNCHANGED vars
    BY <1>7, DiskStays, ServerStays, DbStays, CycleStays, GhostStays DEF vars, serverVars, TypeOK
<1> QED
    BY <1>1, <1>2, <1>3, <1>4, <1>5, <1>6, <1>7 DEF Next

\* Whatever the user, other clients, crashes and refusals do, every variable of
\* the sync keeps its type: each row and each file of the maildir is in a synced
\* folder, each plan names existing rows and such folders, and the cursor is
\* never ahead of the server.
THEOREM SyncTypeCorrect == Spec => []TypeOK
<1> QED
    BY InitTypes, StepTypes, PTL DEF Spec

-----------------------------------------------------------------------------
(* The cursor and the clock of the server.                                 *)

Clock ==
    /\ ver \in Nat \ {0}
    /\ newState \in 0 .. ver
    /\ own \subseteq 0 .. ver
    /\ foreign \subseteq 1 .. ver
    /\ own \cap foreign = {}

\* No call of the cycle or of another client reaches the server.
Still ==
    /\ ver' = ver /\ foreign' = foreign
    /\ own' \in {own, {}}
    /\ newState' \in {newState, ver, NoCursor}

\* A call of the cycle that changes something, or that changes nothing.
OwnTick ==
    /\ foreign' = foreign /\ newState' = newState
    /\ \/ ver' = ver + 1 /\ own' = own \cup {ver + 1}
       \/ ver' = ver /\ own' = own \cup {0}

ForeignTick ==
    /\ ver' = ver + 1
    /\ foreign' = foreign \cup {ver + 1}
    /\ own' = own /\ newState' = newState

\* Where a step may leave the cursor.
CursorStep ==
    \/ cursor' \in {cursor, NoCursor}
    \/ cursor' = WalkChain(newState, own)

-----------------------------------------------------------------------------
\* A walk ends where it starts, or at the last of the edges it consumed, all of
\* them and in one unbroken run.
LEMMA WalkChainFollowsEdges ==
    ASSUME NEW state \in Nat, NEW edges \in SUBSET Nat
    PROVE  \/ WalkChain(state, edges) = state
           \/ /\ WalkChain(state, edges) \in edges
              /\ edges = (state + 1) .. WalkChain(state, edges)
<1>1. CASE \E v \in edges : edges = (state + 1) .. v
    <2>1. WalkChain(state, edges) = CHOOSE v \in edges : edges = (state + 1) .. v
        BY <1>1 DEF WalkChain
    <2>2. /\ WalkChain(state, edges) \in edges
          /\ edges = (state + 1) .. WalkChain(state, edges)
        BY <1>1, <2>1, Zenon
    <2> QED
        BY <2>2
<1>2. CASE ~\E v \in edges : edges = (state + 1) .. v
    BY <1>2 DEF WalkChain
<1> QED
    BY <1>1, <1>2

LEMMA ClockStill == Clock /\ Still => Clock'
BY DEF Clock, Still, NoCursor

LEMMA ClockOwnTick == Clock /\ OwnTick => Clock'
<1> SUFFICES ASSUME Clock, OwnTick PROVE Clock'
    OBVIOUS
<1>1. CASE ver' = ver + 1 /\ own' = own \cup {ver + 1}
    <2>1. ver + 1 \notin foreign
        BY DEF Clock
    <2> QED
        BY <1>1, <2>1 DEF Clock, OwnTick
<1>2. CASE ver' = ver /\ own' = own \cup {0}
    <2>1. 0 \notin foreign
        BY DEF Clock
    <2> QED
        BY <1>2, <2>1 DEF Clock, OwnTick
<1> QED
    BY <1>1, <1>2 DEF OwnTick

LEMMA ClockForeignTick == Clock /\ ForeignTick => Clock'
BY DEF Clock, ForeignTick

-----------------------------------------------------------------------------
\* Each step of the program, its user and the server, by what it does to the
\* clock and to the cursor.
LEMMA ScanSteps ==
    ASSUME \/ \E d \in Directions : StartCycle(d)
           \/ Observe
    PROVE  Still /\ CursorStep
<1> USE DEF serverVars, dbVars, diskVars, Still, CursorStep
<1>1. ASSUME NEW d \in Directions, StartCycle(d) PROVE Still /\ CursorStep
    BY <1>1 DEF StartCycle
<1>2. ASSUME NEW b \in Box, ScanFolder(b) PROVE Still /\ CursorStep
    BY <1>2 DEF ScanFolder
<1>3. CASE FetchChanges
    BY <1>3 DEF FetchChanges
<1>4. CASE ChangesRefused
    BY <1>4 DEF ChangesRefused
<1>5. CASE QueryMailboxes
    BY <1>5 DEF QueryMailboxes
<1>6. CASE GetEmails
    BY <1>6 DEF GetEmails
<1>7. CASE GetState
    BY <1>7 DEF GetState
<1>8. CASE MakePlan
    BY <1>8 DEF MakePlan
<1> QED
    BY <1>1, <1>2, <1>3, <1>4, <1>5, <1>6, <1>7, <1>8 DEF Observe

LEMMA ExecuteSteps ==
    ASSUME Execute
    PROVE  (Still \/ OwnTick) /\ CursorStep
<1> USE DEF serverVars, dbVars, diskVars, Still, CursorStep
<1>1. CASE AdoptAll
    BY <1>1 DEF AdoptAll
<1>2. CASE IndexRefuses
    BY <1>2 DEF IndexRefuses, CycleFails, CycleReset
<1>3. ASSUME NEW d \in plan.down, DownloadOne(d) PROVE Still /\ CursorStep
    BY <1>3 DEF DownloadOne
<1>4. ASSUME NEW d \in plan.down, DownloadGone(d) PROVE Still /\ CursorStep
    BY <1>4 DEF DownloadGone, CycleFails, CycleReset
<1>5. ASSUME NEW a \in plan.lflag, LocalFlag(a) \/ LocalFlagSkipped(a) PROVE Still /\ CursorStep
    BY <1>5 DEF LocalFlag, LocalFlagSkipped
<1>6. ASSUME NEW a \in plan.lmove, LocalMove(a) \/ LocalMoveSkipped(a) PROVE Still /\ CursorStep
    BY <1>6 DEF LocalMove, LocalMoveSkipped
<1>7. ASSUME NEW a \in plan.ldel, LocalDelete(a) PROVE Still /\ CursorStep
    BY <1>7 DEF LocalDelete
<1>8. ASSUME NEW u \in plan.up, UploadOne(u) PROVE OwnTick /\ CursorStep
    BY <1>8 DEF UploadOne, OwnTick
<1>9. ASSUME NEW u \in plan.up, UploadSkipped(u) PROVE Still /\ CursorStep
    BY <1>9 DEF UploadSkipped
<1>10. ASSUME NEW i \in imported, CommitUpload(i) PROVE Still /\ CursorStep
    BY <1>10 DEF CommitUpload
<1>11. ASSUME NEW refused \in SUBSET Email, RemoteSet(refused) PROVE OwnTick /\ CursorStep
    BY <1>11 DEF RemoteSet, OwnTick
<1>12. CASE MirrorSet
    BY <1>12 DEF MirrorSet
<1>13. CASE AdoptPairs
    BY <1>13 DEF AdoptPairs
<1>14. CASE AdvanceCursor
    BY <1>14 DEF AdvanceCursor
<1>15. CASE Checkpoint
    BY <1>15 DEF Checkpoint, CycleReset
<1> QED
    BY <1>1, <1>2, <1>3, <1>4, <1>5, <1>6, <1>7, <1>8, <1>9, <1>10, <1>11, <1>12, <1>13, <1>14,
       <1>15 DEF Execute

LEMMA FailureSteps ==
    ASSUME Fails
    PROVE  Still /\ CursorStep
BY DEF Fails, UploadError, CycleDies, DiesAfterDisk, CycleFails, CycleReset, serverVars, dbVars,
       diskVars, Still, CursorStep

LEMMA UserSteps ==
    ASSUME UserActs
    PROVE  Still /\ CursorStep
<1> USE DEF serverVars, cycleVars, UserStep, Still, CursorStep
<1>1. ASSUME NEW b \in Box, NEW m \in Mid, NEW fl \in SUBSET Flag, UserNew(b, m, fl)
      PROVE  Still /\ CursorStep
    BY <1>1 DEF UserNew
<1>2. ASSUME NEW b \in Box, NEW f \in File, UserCopy(f, b) \/ UserMove(f, b) \/ UserRename(f, b)
      PROVE  Still /\ CursorStep
    BY <1>2 DEF UserCopy, UserMove, UserRename
<1>3. ASSUME NEW f \in File, NEW fl \in SUBSET Flag, UserFlag(f, fl) \/ UserUnflag(f, fl)
      PROVE  Still /\ CursorStep
    BY <1>3 DEF UserFlag, UserUnflag
<1>4. ASSUME NEW f \in File, UserDelete(f)
      PROVE  Still /\ CursorStep
    BY <1>4 DEF UserDelete
<1>5. CASE DbLost
    BY <1>5 DEF DbLost
<1> QED
    BY <1>1, <1>2, <1>3, <1>4, <1>5 DEF UserActs

LEMMA ServerSteps ==
    ASSUME ServerActs
    PROVE  ForeignTick /\ CursorStep
<1> USE DEF cycleVars, dbVars, ServerStep, ForeignTick, CursorStep
<1>1. ASSUME NEW b \in Box \cup {Unsynced}, NEW m \in Mid, NEW kw \in SUBSET Flag,
             ServerCreate(b, m, kw)
      PROVE  ForeignTick /\ CursorStep
    BY <1>1 DEF ServerCreate
<1>2. ASSUME NEW b \in Box \cup {Unsynced}, NEW e \in Email,
             ServerMove(e, b) \/ ServerDuplicate(e, b)
      PROVE  ForeignTick /\ CursorStep
    BY <1>2 DEF ServerMove, ServerDuplicate
<1>3. ASSUME NEW e \in Email, NEW kw \in SUBSET Flag, ServerFlag(e, kw)
      PROVE  ForeignTick /\ CursorStep
    BY <1>3 DEF ServerFlag
<1>4. ASSUME NEW e \in Email, ServerDestroy(e)
      PROVE  ForeignTick /\ CursorStep
    BY <1>4 DEF ServerDestroy
<1> QED
    BY <1>1, <1>2, <1>3, <1>4 DEF ServerActs

LEMMA StepKinds ==
    ASSUME [Next]_vars
    PROVE  (Still \/ OwnTick \/ ForeignTick) /\ CursorStep
<1>1. CASE Next
    BY <1>1, ScanSteps, ExecuteSteps, FailureSteps, UserSteps, ServerSteps DEF Next
<1>2. CASE UNCHANGED vars
    BY <1>2 DEF vars, serverVars, dbVars, cycleVars, Still, CursorStep
<1> QED
    BY <1>1, <1>2

-----------------------------------------------------------------------------
\* A version of the server is the cycle's own or another client's, never both.
LEMMA ClockInvariant == Spec => []Clock
<1>1. Init => Clock
    BY DEF Init, Clock, NoCursor
<1>2. Clock /\ [Next]_vars => Clock'
    BY StepKinds, ClockStill, ClockOwnTick, ClockForeignTick
<1> QED
    BY <1>1, <1>2, PTL DEF Spec

\* The cursor never passes a change of another client: advancing it past the
\* state the cycle fetched, the ratchet only passes the cycle's own versions.
THEOREM CursorNeverSkipsForeign == Spec => CursorSkipsOnlyOwn
<1> DEFINE Safe == cursor' \notin {cursor, NoCursor} =>
                      /\ cursor' >= newState
                      /\ foreign \cap ((newState + 1) .. cursor') = {}
<1>1. Clock /\ [Next]_vars => Safe
    <2> SUFFICES ASSUME Clock, [Next]_vars, cursor' \notin {cursor, NoCursor}
                 PROVE  /\ cursor' >= newState
                        /\ foreign \cap ((newState + 1) .. cursor') = {}
        OBVIOUS
    <2>1. cursor' = WalkChain(newState, own)
        BY StepKinds DEF CursorStep
    <2>2. newState \in Nat /\ own \in SUBSET Nat /\ foreign \in SUBSET Nat
        BY DEF Clock
    <2>3. CASE cursor' = newState
        BY <2>2, <2>3
    <2>4. CASE cursor' \in own /\ own = (newState + 1) .. cursor'
        BY <2>2, <2>4 DEF Clock
    <2> QED
        BY <2>1, <2>2, <2>3, <2>4, WalkChainFollowsEdges
<1>2. Clock /\ [Next]_vars => [Safe]_vars
    BY <1>1
<1> QED
    BY <1>2, ClockInvariant, PTL DEF Spec, CursorSkipsOnlyOwn
=============================================================================
