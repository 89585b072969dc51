------------------------------ MODULE Transfer ------------------------------
(***************************************************************************)
(* What the download phase promises the executor, whatever the server, the *)
(* network and the disk do: it is given a set of emails, it stores each of *)
(* them at most once, and it reports success only when all are stored.     *)
(* What was stored before a failure stays.                                 *)
(***************************************************************************)
CONSTANT Emails

VARIABLES want, have, status

tvars == <<want, have, status>>

TInit == want = {} /\ have = {} /\ status = "idle"

TBegin ==
    /\ status # "running"
    /\ want' \in (SUBSET (Emails \ have)) \ {{}}
    /\ status' = "running"
    /\ UNCHANGED have

TStore ==
    /\ status = "running"
    /\ \E e \in want \ have : have' = have \cup {e}
    /\ UNCHANGED <<want, status>>

TFinish ==
    /\ status = "running" /\ want \subseteq have
    /\ status' = "done"
    /\ UNCHANGED <<want, have>>

TFail ==
    /\ status = "running"
    /\ status' = "failed"
    /\ UNCHANGED <<want, have>>

\* Between two phases the rest of the cycle may add and remove rows.
TOther ==
    /\ status # "running"
    /\ have' \in SUBSET Emails
    /\ UNCHANGED <<want, status>>

TNext == TOther \/ TBegin \/ TStore \/ TFinish \/ TFail

TSpec == TInit /\ [][TNext]_tvars
=============================================================================
