------------------------------ MODULE Downloads -----------------------------
(***************************************************************************)
(* The download phase of the executor.  A producer task keeps a bounded    *)
(* number of blob requests going, each retried a few times, and hands the  *)
(* finished tmp/ files over a bounded channel to the writer, which renames *)
(* each into its maildir and commits its row.  What stays rate-limited     *)
(* after its retries waits for another pass at half the concurrency; any   *)
(* other error fails the phase, but not what is already on its way.        *)
(***************************************************************************)
EXTENDS Integers, Sequences, FiniteSets

CONSTANTS
    Emails,             \* the emails there may be
    Concurrency,        \* [sync].download_concurrency
    ServerConcurrency,  \* maxConcurrentRequests
    MaxAttempts,        \* RetryConfig.max_attempts
    MaxTroubles         \* bound on what server, network and disk do wrong

ASSUME DownloadAssumption ==
    /\ Concurrency \in Nat /\ ServerConcurrency \in Nat
    /\ MaxAttempts \in Nat \ {0} /\ MaxTroubles \in Nat

VARIABLES
    jobs,       \* the downloads of the plan
    concurrency,
    pending,    \* actions the stream has not started
    attempt,    \* attempt[e]: the attempt a running request is in, or 0
    ready,      \* finished requests the stream has not yielded: [email, result]
    held,       \* what the producer is sending: at most one item
    producer,   \* "running" or "ended"
    chan, open, \* the channel, and whether its receiver is still there
    writer,     \* "idle", "recv", "commit", "join", "sleep", "done" or "failed"
    storing,    \* the email whose file is renamed and whose row is not committed
    retry, limited, hard,   \* to_retry, rate_limited, hard_error
    tmp,        \* emails with an open file in tmp/
    files,      \* files[e]: how often e was delivered
    rows,       \* emails with a row in message_map
    troubles    \* how much went wrong so far

batchvars == <<pending, attempt, ready, held, producer, chan, open>>
resultvars == <<retry, limited, hard>>
diskvars == <<tmp, files, rows>>
dvars == <<jobs, concurrency, batchvars, writer, storing, resultvars, diskvars, troubles>>

Results == {"ok", "transient", "hard"}
Items == [email : Emails, result : Results]
Item(e, r) == [email |-> e, result |-> r]

\* limits.rs: the server's value can only lower ours, and never below one.
AtLeastOne(n) == IF n < 1 THEN 1 ELSE n
concurrent_requests ==
    AtLeastOne(IF ServerConcurrency < Concurrency THEN ServerConcurrency ELSE Concurrency)

\* The operators named X_Mistake, each before its X, are not part of the model:
\* PROJECT.json puts them in the place of X to show that a property notices.

Halved_Mistake(n) == n \div 2
Halved(n) == AtLeastOne(n \div 2)

Running == {e \in Emails : attempt[e] > 0}
ReadyEmails == {i.email : i \in ready}
InChannel == {chan[i].email : i \in DOMAIN chan}
Held == {i.email : i \in held}

Trouble == troubles < MaxTroubles /\ troubles' = troubles + 1

-----------------------------------------------------------------------------
(* The producer task.  It polls its requests only while it waits for the   *)
(* next one to finish, not while it sends.                                 *)

Polls == producer = "running" /\ held = {}

Launch(e) ==
    /\ Polls /\ e \in pending
    /\ Cardinality(Running) + Cardinality(ready) < concurrency
    /\ pending' = pending \ {e}
    /\ attempt' = [attempt EXCEPT ![e] = 1]
    /\ tmp' = tmp \cup {e}
    /\ UNCHANGED <<jobs, concurrency, ready, held, producer, chan, open, writer, storing,
                   resultvars, files, rows, troubles>>

Arrives(e) ==
    /\ Polls /\ e \in Running
    /\ attempt' = [attempt EXCEPT ![e] = 0]
    /\ ready' = ready \cup {Item(e, "ok")}
    /\ UNCHANGED <<jobs, concurrency, pending, held, producer, chan, open, writer, storing,
                   resultvars, diskvars, troubles>>

\* do_retry: a transient error is tried again with a new tmp/ file, until the
\* attempts are used up; dropping the old one unlinks it.
do_retry(e) ==
    /\ Polls /\ e \in Running /\ attempt[e] < MaxAttempts
    /\ Trouble
    /\ attempt' = [attempt EXCEPT ![e] = @ + 1]
    /\ UNCHANGED <<jobs, concurrency, pending, ready, held, producer, chan, open, writer, storing,
                   resultvars, diskvars>>

GivesUp(e, result) ==
    /\ Polls /\ e \in Running
    /\ result = "transient" => attempt[e] = MaxAttempts
    /\ Trouble
    /\ attempt' = [attempt EXCEPT ![e] = 0]
    /\ ready' = ready \cup {Item(e, result)}
    /\ tmp' = tmp \ {e}
    /\ UNCHANGED <<jobs, concurrency, pending, held, producer, chan, open, writer, storing,
                   resultvars, files, rows>>

Yields(i) ==
    /\ Polls /\ i \in ready
    /\ ready' = ready \ {i}
    /\ held' = {i}
    /\ UNCHANGED <<jobs, concurrency, pending, attempt, producer, chan, open, writer, storing,
                   resultvars, diskvars, troubles>>

Sends ==
    /\ held # {} /\ open /\ Len(chan) < concurrency
    /\ \E i \in held : chan' = Append(chan, i)
    /\ held' = {}
    /\ UNCHANGED <<jobs, concurrency, pending, attempt, ready, producer, open, writer, storing,
                   resultvars, diskvars, troubles>>

SendFails_Mistake ==
    /\ held # {} /\ ~open
    /\ tmp' = tmp \ Held
    /\ held' = {} /\ ready' = {} /\ pending' = {}
    /\ attempt' = [e \in Emails |-> 0]
    /\ producer' = "ended"
    /\ UNCHANGED <<jobs, concurrency, chan, open, writer, storing, resultvars, files, rows,
                   troubles>>

\* The receiver is gone: the stream is dropped, and with it every tmp/ file.
SendFails ==
    /\ held # {} /\ ~open
    /\ tmp' = tmp \ (Held \cup Running \cup ReadyEmails)
    /\ held' = {} /\ ready' = {} /\ pending' = {}
    /\ attempt' = [e \in Emails |-> 0]
    /\ producer' = "ended"
    /\ UNCHANGED <<jobs, concurrency, chan, open, writer, storing, resultvars, files, rows,
                   troubles>>

StreamEnds ==
    /\ Polls /\ pending = {} /\ Running = {} /\ ready = {}
    /\ producer' = "ended"
    /\ UNCHANGED <<jobs, concurrency, pending, attempt, ready, held, chan, open, writer, storing,
                   resultvars, diskvars, troubles>>

Producer ==
    \/ \E e \in Emails : Launch(e) \/ Arrives(e) \/ do_retry(e)
    \/ \E e \in Emails, r \in {"transient", "hard"} : GivesUp(e, r)
    \/ \E i \in ready : Yields(i)
    \/ Sends \/ SendFails \/ StreamEnds

-----------------------------------------------------------------------------
(* The writer: download_batch and download_messages.                       *)

StartBatch(batch) ==
    /\ pending' = batch
    /\ producer' = "running"
    /\ chan' = <<>> /\ open' = TRUE
    /\ retry' = {} /\ limited' = FALSE
    /\ writer' = "recv"

\* An empty plan does nothing.
download_messages(batch) ==
    /\ writer \in {"idle", "done", "failed"}
    /\ batch # {}
    /\ jobs' = batch
    /\ concurrency' = concurrent_requests
    /\ hard' = FALSE
    /\ StartBatch(batch)
    /\ UNCHANGED <<attempt, ready, held, storing, diskvars, troubles>>

Recv(r) ==
    /\ writer = "recv" /\ chan # <<>> /\ Head(chan).result = r
    /\ chan' = Tail(chan)

RecvTransient_Mistake ==
    /\ Recv("transient")
    /\ limited' = TRUE
    /\ UNCHANGED <<jobs, concurrency, pending, attempt, ready, held, producer, open, writer,
                   storing, retry, hard, diskvars, troubles>>

RecvTransient ==
    /\ Recv("transient")
    /\ retry' = retry \cup {Head(chan).email}
    /\ limited' = TRUE
    /\ UNCHANGED <<jobs, concurrency, pending, attempt, ready, held, producer, open, writer,
                   storing, hard, diskvars, troubles>>

RecvHard_Mistake ==
    /\ Recv("hard")
    /\ UNCHANGED <<jobs, concurrency, pending, attempt, ready, held, producer, open, writer,
                   storing, resultvars, diskvars, troubles>>

\* The first hard error is kept, and the rest of the batch still stored.
RecvHard ==
    /\ Recv("hard")
    /\ hard' = TRUE
    /\ UNCHANGED <<jobs, concurrency, pending, attempt, ready, held, producer, open, writer,
                   storing, retry, limited, diskvars, troubles>>

\* store_downloaded_message: the file first, then its row.
finalize_message ==
    /\ Recv("ok")
    /\ LET e == Head(chan).email
       IN  /\ files' = [files EXCEPT ![e] = @ + 1]
           /\ tmp' = tmp \ {e}
           /\ storing' = {e}
    /\ writer' = "commit"
    /\ UNCHANGED <<jobs, concurrency, pending, attempt, ready, held, producer, open, resultvars,
                   rows, troubles>>

CommitRow ==
    /\ writer = "commit"
    /\ rows' = rows \cup storing
    /\ storing' = {}
    /\ writer' = "recv"
    /\ UNCHANGED <<jobs, concurrency, batchvars, resultvars, tmp, files, troubles>>

Leaves_Mistake(lost) ==
    /\ hard' = TRUE
    /\ tmp' = tmp \ lost
    /\ storing' = {}
    /\ writer' = "join"
    /\ UNCHANGED <<jobs, concurrency, pending, attempt, ready, held, producer, chan, open, retry,
                   limited, files, rows>>

\* The writer leaves its loop for good: the receiver is dropped, and with it
\* the tmp/ files still in the channel.
Leaves(lost) ==
    /\ hard' = TRUE
    /\ open' = FALSE
    /\ chan' = <<>>
    /\ tmp' = tmp \ (InChannel \cup lost)
    /\ storing' = {}
    /\ writer' = "join"
    /\ UNCHANGED <<jobs, concurrency, pending, attempt, ready, held, producer, retry, limited,
                   files, rows>>

FinalizeFails ==
    /\ writer = "recv" /\ chan # <<>> /\ Head(chan).result = "ok"
    /\ Trouble
    /\ Leaves({Head(chan).email})

CommitFails == writer = "commit" /\ Trouble /\ Leaves({})

ChannelClosed ==
    /\ writer = "recv" /\ chan = <<>> /\ producer = "ended"
    /\ open' = FALSE
    /\ writer' = "join"
    /\ UNCHANGED <<jobs, concurrency, pending, attempt, ready, held, producer, chan, storing,
                   resultvars, diskvars, troubles>>

JoinProducer ==
    /\ writer = "join" /\ producer = "ended"
    /\ writer' = IF hard THEN "failed"
                 ELSE IF retry = {} THEN "done"
                 ELSE IF limited THEN "sleep" ELSE "failed"
    /\ UNCHANGED <<jobs, concurrency, batchvars, storing, resultvars, diskvars, troubles>>

NextPass_Mistake ==
    /\ writer = "sleep"
    /\ concurrency' = Halved(concurrency)
    /\ StartBatch(jobs)
    /\ UNCHANGED <<jobs, attempt, ready, held, storing, hard, diskvars, troubles>>

\* After the pause, another pass over what was rate-limited.
NextPass ==
    /\ writer = "sleep"
    /\ concurrency' = Halved(concurrency)
    /\ StartBatch(retry)
    /\ UNCHANGED <<jobs, attempt, ready, held, storing, hard, diskvars, troubles>>

Writer ==
    \/ RecvTransient \/ RecvHard \/ finalize_message \/ CommitRow
    \/ FinalizeFails \/ CommitFails \/ ChannelClosed \/ JoinProducer \/ NextPass

-----------------------------------------------------------------------------
DInit ==
    /\ jobs = {} /\ concurrency = concurrent_requests
    /\ pending = {} /\ attempt = [e \in Emails |-> 0] /\ ready = {} /\ held = {}
    /\ producer = "ended" /\ chan = <<>> /\ open = FALSE
    /\ writer = "idle" /\ storing = {}
    /\ retry = {} /\ limited = FALSE /\ hard = FALSE
    /\ tmp = {} /\ files = [e \in Emails |-> 0] /\ rows = {}
    /\ troubles = 0

\* Reconcile asks only for what is not on the disk; a file that has lost its row
\* it adopts instead.
Wanted(batch) == \A e \in batch : e \notin rows /\ files[e] = 0

Request == \E batch \in SUBSET Emails : Wanted(batch) /\ download_messages(batch)

DNext == Request \/ Producer \/ Writer

DSpec == DInit /\ [][DNext]_dvars /\ WF_dvars(Producer) /\ WF_dvars(Writer)

-----------------------------------------------------------------------------
\* Every email, item and counter of the phase is one it can have, and the
\* concurrency of a pass is neither below one nor above what the server allows.
DTypeOK ==
    /\ jobs \subseteq Emails /\ pending \subseteq Emails /\ retry \subseteq Emails
    /\ concurrency \in 1 .. concurrent_requests
    /\ attempt \in [Emails -> 0 .. MaxAttempts]
    /\ ready \subseteq Items /\ held \subseteq Items /\ chan \in Seq(Items)
    /\ producer \in {"running", "ended"} /\ open \in BOOLEAN
    /\ writer \in {"idle", "recv", "commit", "join", "sleep", "done", "failed"}
    /\ storing \subseteq Emails /\ limited \in BOOLEAN /\ hard \in BOOLEAN
    /\ tmp \subseteq Emails /\ rows \subseteq Emails /\ files \in [Emails -> Nat]
    /\ troubles \in 0 .. MaxTroubles

\* A phase that is over leaves nothing behind in tmp/, whichever way it ended
\* and whatever was in flight.
NoTmpLeft == writer \in {"done", "failed"} => tmp = {}

\* While a phase goes on and nothing has failed for good, it forgets no email:
\* what it was asked for has its row, or is still on its way, or waits for the
\* next pass, however attempts, passes and the channel interleave.
NothingDropped ==
    writer \in {"recv", "commit"} /\ ~hard =>
        jobs \subseteq rows \cup pending \cup Running \cup ReadyEmails \cup Held
                         \cup InChannel \cup storing \cup retry

\* No email is delivered twice, however its requests, its retries and the
\* passes interleave; a row always has its file.
StoredOnce ==
    /\ \A e \in Emails : files[e] <= 1
    /\ \A e \in rows : files[e] = 1

\* A phase ends: the producer and the writer never wait for each other for good,
\* whichever of them stops first and however full the channel is.
PhaseEnds == writer = "recv" ~> writer \in {"done", "failed"}

\* The phase keeps the promise of Transfer.
status == IF writer \in {"recv", "commit", "join", "sleep"} THEN "running" ELSE writer

T == INSTANCE Transfer WITH want <- jobs, have <- rows

ImplementsTransfer == T!TSpec
=============================================================================
