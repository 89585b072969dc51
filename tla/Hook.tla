-------------------------------- MODULE Hook --------------------------------
(***************************************************************************)
(* The post-arrival hook of the daemon (daemon/hook.rs): a single-slot     *)
(* coalescing runner for a shell command.  Callers ask for a run with      *)
(* trigger(); at most one run_loop task is alive at a time, and requests   *)
(* that land while it is busy collapse into one follow-up run.             *)
(*                                                                         *)
(* A caller is a task that calls trigger().  The critical section of       *)
(* trigger() and the tokio::spawn after it are two steps: another caller   *)
(* may run between the unlock and the spawn.  Since a task is spawned by   *)
(* the caller that won the slot, it is named after that caller.            *)
(***************************************************************************)
EXTENDS Integers, FiniteSets

CONSTANTS
    Callers,        \* the tasks that call trigger()
    HasCommand,     \* is post_arrival_command configured?
    Requested       \* the configured post_arrival_command_retries

ASSUME RequestedAssumption == Requested \in Nat
ASSUME HasCommandAssumption == HasCommand \in BOOLEAN

MAX_POST_ARRIVAL_RETRIES == 10

clamp_retries(requested) ==
    IF requested > MAX_POST_ARRIVAL_RETRIES THEN MAX_POST_ARRIVAL_RETRIES ELSE requested

Retries == clamp_retries(Requested)

VARIABLES
    running,        \* State.running
    pending,        \* State.pending
    caller,         \* caller[c]: where c is inside trigger()
    task,           \* task[c]: where the run_loop task spawned by c is
    attempt,        \* attempt counter of the run in progress
    waiting,        \* ghost: callers whose request no run has started since
    sinceTrigger    \* ghost: runs started since the last request (capped at 3)

vars == <<running, pending, caller, task, attempt, waiting, sinceTrigger>>

RunsCap == 3

Init ==
    /\ running = FALSE
    /\ pending = FALSE
    /\ caller = [c \in Callers |-> "out"]
    /\ task = [c \in Callers |-> "none"]
    /\ attempt = 0
    /\ waiting = {}
    /\ sinceTrigger = 0

(* The operators whose names end in _ForgetsX, _OffByOne and so on are not  *)
(* part of the model.  Each is the definition that follows it with one     *)
(* plausible mistake, and PROJECT.json pairs it with the property that     *)
(* notices the mistake.                                                    *)

TriggerBusy_ForgetsFollowUp(c) ==
    /\ HasCommand /\ caller[c] = "out" /\ running
    /\ waiting' = waiting \cup {c}
    /\ sinceTrigger' = 0
    /\ UNCHANGED <<running, pending, caller, task, attempt>>

\* trigger() while a run is in flight: raise the follow-up flag and return.
TriggerBusy(c) ==
    /\ HasCommand
    /\ caller[c] = "out"
    /\ running
    /\ pending' = TRUE
    /\ waiting' = waiting \cup {c}
    /\ sinceTrigger' = 0
    /\ UNCHANGED <<running, caller, task, attempt>>

TriggerIdle_LeavesSlotFree(c) ==
    /\ HasCommand /\ caller[c] = "out" /\ ~running
    /\ caller' = [caller EXCEPT ![c] = "spawning"]
    /\ waiting' = waiting \cup {c}
    /\ sinceTrigger' = 0
    /\ UNCHANGED <<running, pending, task, attempt>>

\* trigger() while idle: take the slot, unlock, and go on to the spawn.
TriggerIdle(c) ==
    /\ HasCommand
    /\ caller[c] = "out"
    /\ ~running
    /\ running' = TRUE
    /\ caller' = [caller EXCEPT ![c] = "spawning"]
    /\ waiting' = waiting \cup {c}
    /\ sinceTrigger' = 0
    /\ UNCHANGED <<pending, task, attempt>>

Spawn(c) ==
    /\ caller[c] = "spawning"
    /\ caller' = [caller EXCEPT ![c] = "out"]
    /\ task' = [task EXCEPT ![c] = "top"]
    /\ UNCHANGED <<running, pending, attempt, waiting, sinceTrigger>>

\* The task enters run_with_retries: a run starts, and answers every request
\* made before this point.
BeginRun(c) ==
    /\ task[c] = "top"
    /\ task' = [task EXCEPT ![c] = "command"]
    /\ attempt' = 0
    /\ waiting' = {}
    /\ sinceTrigger' = IF sinceTrigger < RunsCap THEN sinceTrigger + 1 ELSE RunsCap
    /\ UNCHANGED <<running, pending, caller>>

CommandSucceeds(c) ==
    /\ task[c] = "command"
    /\ task' = [task EXCEPT ![c] = "ended"]
    /\ UNCHANGED <<running, pending, caller, attempt, waiting, sinceTrigger>>

CommandFails_OffByOne(c) ==
    /\ task[c] = "command"
    /\ IF attempt > Retries
       THEN task' = [task EXCEPT ![c] = "ended"] /\ UNCHANGED attempt
       ELSE attempt' = attempt + 1 /\ UNCHANGED task
    /\ UNCHANGED <<running, pending, caller, waiting, sinceTrigger>>

CommandFails(c) ==
    /\ task[c] = "command"
    /\ IF attempt >= Retries
       THEN /\ task' = [task EXCEPT ![c] = "ended"]
            /\ UNCHANGED attempt
       ELSE /\ attempt' = attempt + 1
            /\ UNCHANGED task
    /\ UNCHANGED <<running, pending, caller, waiting, sinceTrigger>>

Settle_IgnoresFollowUp(c) ==
    /\ task[c] = "ended"
    /\ running' = FALSE
    /\ pending' = FALSE
    /\ task' = [task EXCEPT ![c] = "none"]
    /\ UNCHANGED <<caller, attempt, waiting, sinceTrigger>>

Settle_KeepsFollowUp(c) ==
    /\ task[c] = "ended"
    /\ running' = pending
    /\ task' = [task EXCEPT ![c] = IF pending THEN "top" ELSE "none"]
    /\ UNCHANGED <<pending, caller, attempt, waiting, sinceTrigger>>

\* The critical section at the foot of run_loop.
Settle(c) ==
    /\ task[c] = "ended"
    /\ IF pending
       THEN /\ pending' = FALSE
            /\ task' = [task EXCEPT ![c] = "top"]
            /\ UNCHANGED running
       ELSE /\ running' = FALSE
            /\ task' = [task EXCEPT ![c] = "none"]
            /\ UNCHANGED pending
    /\ UNCHANGED <<caller, attempt, waiting, sinceTrigger>>

Trigger(c) == TriggerBusy(c) \/ TriggerIdle(c)
TaskStep(c) == BeginRun(c) \/ CommandSucceeds(c) \/ CommandFails(c) \/ Settle(c)

Next == \E c \in Callers : Trigger(c) \/ Spawn(c) \/ TaskStep(c)

\* A caller that has the slot goes on to spawn (no await in between), and the
\* runtime keeps polling a spawned task.  Callers need never call.
Fairness == \A c \in Callers : WF_vars(Spawn(c)) /\ WF_vars(TaskStep(c))

Spec == Init /\ [][Next]_vars /\ Fairness

-----------------------------------------------------------------------------
Alive == {c \in Callers : caller[c] = "spawning" \/ task[c] # "none"}

\* Every variable keeps its type; attempt never passes the clamped number of
\* retries.
TypeOK ==
    /\ running \in BOOLEAN
    /\ pending \in BOOLEAN
    /\ caller \in [Callers -> {"out", "spawning"}]
    /\ task \in [Callers -> {"none", "top", "command", "ended"}]
    /\ attempt \in 0 .. Retries
    /\ waiting \subseteq Callers
    /\ sinceTrigger \in 0 .. RunsCap

\* At most one run_loop is alive or about to be spawned, so two commands never
\* run at the same time, although trigger() spawns outside its lock.
SingleRun ==
    \A c, d \in Callers : c \in Alive /\ d \in Alive => c = d

\* A request no run has answered yet is remembered: by the follow-up flag, by
\* the caller about to spawn, or by a task about to start its next run.
NoLostTrigger ==
    waiting # {} =>
        \/ pending /\ Alive # {}
        \/ \E c \in Callers : caller[c] = "spawning" \/ task[c] = "top"

\* A burst of requests costs at most two runs after its last one: the run that
\* answers it, and one more when that request fell between Settle and BeginRun.
BoundedFollowUps == sinceTrigger <= 2

\* Every accepted request is followed by a run that starts after it.
EveryTriggerServed == \A c \in Callers : c \in waiting ~> c \notin waiting
=============================================================================
