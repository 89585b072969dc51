---------------------------- MODULE HookProofs ----------------------------
(***************************************************************************)
(* Proofs about the single-slot runner of Hook.tla, for any set of callers *)
(* and any number of retries.                                              *)
(*                                                                         *)
(* None of the properties is inductive by itself.  What carries them is    *)
(* that running is exactly "some run_loop is alive or about to be spawned" *)
(* (Slot) and that the runs a request can still cost add up to two         *)
(* (Spent): one for the follow-up flag, one for a task about to start.     *)
(***************************************************************************)
EXTENDS Hook, TLAPS

\* c's task, or the one it is about to spawn, starts a run next.
Starting(c) == caller[c] = "spawning" \/ task[c] = "top"

\* The slot is taken if and only if somebody holds it, a caller holds it in one
\* way at a time, and the follow-up flag is up only while it is taken.
Slot ==
    /\ running <=> \E c \in Callers : c \in Alive
    /\ \A c \in Callers : caller[c] = "spawning" => task[c] = "none"
    /\ pending => running

Spent ==
    /\ sinceTrigger <= 2
    /\ pending => sinceTrigger <= 1
    /\ \A c \in Callers : Starting(c) => sinceTrigger <= 1
    /\ \A c \in Callers : Starting(c) /\ pending => sinceTrigger = 0

IInv == TypeOK /\ SingleRun /\ Slot /\ NoLostTrigger /\ Spent

-----------------------------------------------------------------------------
\* Whatever post_arrival_command_retries asks for, there are at most ten.
LEMMA RetriesBounded == Retries \in 0 .. 10
BY RequestedAssumption DEF Retries, clamp_retries, MAX_POST_ARRIVAL_RETRIES

LEMMA InitIInv == Init => IInv
<1> SUFFICES ASSUME Init PROVE IInv
    OBVIOUS
<1>1. Alive = {}
    BY DEF Init, Alive
<1>2. TypeOK
    <2>1. attempt \in 0 .. Retries /\ sinceTrigger \in 0 .. RunsCap
        BY RetriesBounded DEF Init, RunsCap
    <2>2. caller \in [Callers -> {"out", "spawning"}]
        BY DEF Init
    <2>3. task \in [Callers -> {"none", "top", "command", "ended"}]
        BY DEF Init
    <2> QED
        BY <2>1, <2>2, <2>3 DEF Init, TypeOK
<1>3. SingleRun /\ Slot
    BY <1>1 DEF Init, SingleRun, Slot
<1>4. NoLostTrigger /\ Spent
    BY DEF Init, NoLostTrigger, Spent, Starting
<1> QED
    BY <1>2, <1>3, <1>4 DEF IInv

\* Every step of the runner keeps the invariant.
LEMMA NextIInv == IInv /\ [Next]_vars => IInv'
<1> SUFFICES ASSUME IInv, [Next]_vars PROVE IInv'
    OBVIOUS
<1> USE RetriesBounded DEF IInv, TypeOK, RunsCap
<1>1. ASSUME NEW c \in Callers, TriggerBusy(c) PROVE IInv'
    BY <1>1 DEF TriggerBusy, SingleRun, Slot, NoLostTrigger, Spent, Alive, Starting
<1>2. ASSUME NEW c \in Callers, TriggerIdle(c) PROVE IInv'
    BY <1>2 DEF TriggerIdle, SingleRun, Slot, NoLostTrigger, Spent, Alive, Starting
<1>3. ASSUME NEW c \in Callers, Spawn(c) PROVE IInv'
    BY <1>3 DEF Spawn, SingleRun, Slot, NoLostTrigger, Spent, Alive, Starting
<1>4. ASSUME NEW c \in Callers, BeginRun(c) PROVE IInv'
    BY <1>4 DEF BeginRun, SingleRun, Slot, NoLostTrigger, Spent, Alive, Starting
<1>5. ASSUME NEW c \in Callers, CommandSucceeds(c) PROVE IInv'
    BY <1>5 DEF CommandSucceeds, SingleRun, Slot, NoLostTrigger, Spent, Alive, Starting
<1>6. ASSUME NEW c \in Callers, CommandFails(c) PROVE IInv'
    BY <1>6 DEF CommandFails, SingleRun, Slot, NoLostTrigger, Spent, Alive, Starting
<1>7. ASSUME NEW c \in Callers, Settle(c) PROVE IInv'
    BY <1>7 DEF Settle, SingleRun, Slot, NoLostTrigger, Spent, Alive, Starting
<1>8. CASE UNCHANGED vars
    BY <1>8 DEF vars, SingleRun, Slot, NoLostTrigger, Spent, Alive, Starting
<1> QED
    BY <1>1, <1>2, <1>3, <1>4, <1>5, <1>6, <1>7, <1>8 DEF Next, Trigger, TaskStep

LEMMA Invariance == Spec => []IInv
BY InitIInv, NextIInv, PTL DEF Spec

-----------------------------------------------------------------------------
\* The variables keep their types; in particular no run is retried more often
\* than the clamped configuration allows.
THEOREM TypeCorrect == Spec => []TypeOK
<1>1. IInv => TypeOK BY DEF IInv
<1> QED BY <1>1, Invariance, PTL

\* Two post-arrival commands never run at the same time, however many callers
\* trigger() has and whenever each of them gets to its spawn.
THEOREM OneRunAtATime == Spec => []SingleRun
<1>1. IInv => SingleRun BY DEF IInv
<1> QED BY <1>1, Invariance, PTL

\* A request that no run has answered is always remembered somewhere.
THEOREM TriggersAreKept == Spec => []NoLostTrigger
<1>1. IInv => NoLostTrigger BY DEF IInv
<1> QED BY <1>1, Invariance, PTL

\* After the last request of a burst at most two more runs start.
THEOREM FollowUpsBounded == Spec => []BoundedFollowUps
<1>1. IInv => BoundedFollowUps BY DEF IInv, Spent, BoundedFollowUps
<1> QED BY <1>1, Invariance, PTL
=============================================================================
