---------------------------- MODULE MCSyncCycle ----------------------------
(***************************************************************************)
(* SyncCycle as TLC checks it: the environments of each run, and the       *)
(* phases of a cycle during which a run lets the user act.                 *)
(***************************************************************************)
EXTENDS SyncCycle

AnyPhase == Phases

\* Not between the walks of two folders: a file moved from a folder the scan
\* has yet to walk to one it has walked is in neither.
OutsideScan == Phases \ {"scan"}

\* u steps of the user and s of another client, of any of the kinds in ops.
Steps(u, s, ops) ==
    [user |-> u, server |-> s, crash |-> 0, reject |-> 0, may |-> ops,
     flags |-> Flag, policy |-> "ServerWins"]

FullCycles == {"Both"}
Anything == UserOps \cup ServerOps

\* A DB that is kept, and one that is lost.
KeptDb == [Steps(2, 1, FullCycles \cup (Anything \ {"dbloss"})) EXCEPT !.policy = "LocalWins"]
LostDb == Steps(2, 1, FullCycles \cup (Anything \ {"move"}))
Recovering == {KeptDb, LostDb}

\* One disturbance of each kind.
Broken == [Steps(1, 1, FullCycles \cup Anything) EXCEPT !.crash = 1, !.reject = 1]

\* Several emails with one Message-ID, and cycles in one direction.
Copies(u, ops) ==
    [Steps(u, 2, {"Both", "PullOnly", "move", "duplicate", "destroy"} \cup ops) EXCEPT !.flags = {}]
Hostile == {Broken, Copies(1, {"PushOnly", "moveout", "forget"}), Copies(2, {})}

\* A single step of the user, with a crash or without.
Crashing == {[Steps(1, 0, FullCycles \cup Anything) EXCEPT !.crash = 1]}
Alone == {[Steps(1, 0, FullCycles \cup Anything) EXCEPT !.policy = p] : p \in Policies}
=============================================================================
