--------------------------- MODULE DownloadsProofs --------------------------
(***************************************************************************)
(* Theorems of Downloads, for every number of emails, every concurrency    *)
(* and any number of troubles: what a phase is given it stores at most     *)
(* once, never forgets and leaves no tmp/ file of, and the phase keeps the *)
(* promise of Transfer.  The invariant follows an email on its way: it is  *)
(* in one place at a time (Apart), each place only holds emails of the     *)
(* phase that are not delivered yet (Undelivered), and while nothing has   *)
(* failed for good every email of the phase is somewhere (Kept).           *)
(***************************************************************************)
EXTENDS Downloads, TLAPS

Flying == Running \cup ReadyEmails \cup Held \cup InChannel
OnWay == pending \cup Flying \cup retry

\* Who is at work in which state of the writer.
Control ==
    /\ producer = "ended" => pending = {} /\ Running = {} /\ ready = {} /\ held = {}
    /\ writer \in {"recv", "commit"} => open
    /\ writer \notin {"recv", "commit"} => chan = <<>> /\ ~open
    /\ writer # "commit" => storing = {}
    /\ writer = "commit" => \E e \in Emails : storing = {e}
    /\ writer \in {"idle", "sleep", "done", "failed"} => producer = "ended"
    /\ writer = "join" /\ ~hard => producer = "ended"

\* An email is in one place, and there once.
Apart ==
    /\ pending \cap (Flying \cup retry \cup storing) = {}
    /\ Running \cap (ReadyEmails \cup Held \cup InChannel \cup retry \cup storing) = {}
    /\ ReadyEmails \cap (Held \cup InChannel \cup retry \cup storing) = {}
    /\ Held \cap (InChannel \cup retry \cup storing) = {}
    /\ InChannel \cap (retry \cup storing) = {}
    /\ retry \cap storing = {}
    /\ \A i, j \in ready : i.email = j.email => i = j
    /\ \A i, j \in held : i = j
    /\ \A i, j \in DOMAIN chan : chan[i].email = chan[j].email => i = j

Undelivered ==
    /\ OnWay \cup storing \subseteq jobs
    /\ \A e \in OnWay : files[e] = 0 /\ e \notin rows
    /\ \A e \in storing : files[e] = 1 /\ e \notin rows
    /\ StoredOnce

Kept ==
    writer \in {"recv", "commit", "join", "sleep"} /\ ~hard =>
        jobs \subseteq rows \cup OnWay \cup storing

\* Only a finished or running request has a file in tmp/.
Open ==
    /\ tmp \subseteq Flying
    /\ \A i \in ready \cup held : i.result # "ok" => i.email \notin tmp
    /\ \A i \in DOMAIN chan : chan[i].result # "ok" => chan[i].email \notin tmp

DInv == DTypeOK /\ Control /\ Apart /\ Undelivered /\ Kept /\ Open

\* What sending and receiving do to a channel of items.
LEMMA ChannelAppend ==
    ASSUME NEW S, NEW s \in Seq(S), NEW x \in S
    PROVE  /\ Append(s, x) \in Seq(S)
           /\ DOMAIN Append(s, x) = DOMAIN s \cup {Len(s) + 1}
           /\ Len(s) + 1 \notin DOMAIN s
           /\ \A i \in DOMAIN s : Append(s, x)[i] = s[i]
           /\ Append(s, x)[Len(s) + 1] = x
  OBVIOUS

LEMMA ChannelTail ==
    ASSUME NEW S, NEW s \in Seq(S), s # <<>>
    PROVE  /\ Tail(s) \in Seq(S)
           /\ Head(s) = s[1] /\ 1 \in DOMAIN s
           /\ \A i \in DOMAIN Tail(s) : i + 1 \in DOMAIN s /\ Tail(s)[i] = s[i + 1] /\ i + 1 # 1
           /\ \A i \in DOMAIN s : i # 1 => i - 1 \in DOMAIN Tail(s) /\ Tail(s)[i - 1] = s[i]
  OBVIOUS

LEMMA EmptyChannel == \A S : <<>> \in Seq(S)
  OBVIOUS

LEMMA HeadIn ==
    ASSUME chan \in Seq(Items), chan # <<>>
    PROVE  /\ Head(chan) \in Items /\ Head(chan).email \in Emails
           /\ \E j \in DOMAIN chan : Head(chan) = chan[j]
<1>1. Head(chan) = chan[1] /\ 1 \in DOMAIN chan
  BY ChannelTail
<1>2. chan[1] \in Items
  BY <1>1
<1>. QED
  BY <1>1, <1>2 DEF Items

LEMMA Received ==
    ASSUME chan \in Seq(Items), chan # <<>>, chan' = Tail(chan),
           \A i, j \in DOMAIN chan : chan[i].email = chan[j].email => i = j
    PROVE  /\ Head(chan) \in Items /\ Head(chan).email \in InChannel
           /\ InChannel' = InChannel \ {Head(chan).email}
           /\ \A i, j \in DOMAIN chan' : chan'[i].email = chan'[j].email => i = j
           /\ \A i \in DOMAIN chan' : \E j \in DOMAIN chan : chan'[i] = chan[j]
           /\ \E j \in DOMAIN chan : Head(chan) = chan[j]
<1>. DEFINE t == Tail(chan)
<1>1. /\ t \in Seq(Items) /\ Head(chan) = chan[1] /\ 1 \in DOMAIN chan
      /\ \A i \in DOMAIN t : i + 1 \in DOMAIN chan /\ t[i] = chan[i + 1] /\ i + 1 # 1
      /\ \A i \in DOMAIN chan : i # 1 => i - 1 \in DOMAIN t /\ t[i - 1] = chan[i]
  BY ChannelTail
<1>2. \A i \in DOMAIN chan : chan[i] \in Items
  OBVIOUS
<1>3. DOMAIN t \subseteq Int
  BY <1>1
<1>4. {t[i].email : i \in DOMAIN t} = {chan[i].email : i \in DOMAIN chan} \ {Head(chan).email}
  <2>1. ASSUME NEW i \in DOMAIN t
        PROVE  /\ t[i].email \in {chan[j].email : j \in DOMAIN chan}
               /\ t[i].email # Head(chan).email
    BY <1>1
  <2>2. ASSUME NEW i \in DOMAIN chan, chan[i].email # Head(chan).email
        PROVE  chan[i].email \in {t[j].email : j \in DOMAIN t}
    <3>1. i # 1
      BY <1>1, <2>2
    <3>. QED
      BY <1>1, <3>1
  <2>. QED
    BY <2>1, <2>2
<1>5. \A i, j \in DOMAIN t : t[i].email = t[j].email => i = j
  BY <1>1, <1>3
<1>6. InChannel' = InChannel \ {Head(chan).email}
  BY <1>4 DEF InChannel
<1>7. Head(chan) \in Items /\ \E j \in DOMAIN chan : Head(chan) = chan[j]
  BY <1>1, <1>2
<1>8. Head(chan).email \in InChannel
  BY <1>7 DEF InChannel
<1>9. \A i \in DOMAIN chan' : \E j \in DOMAIN chan : chan'[i] = chan[j]
  BY <1>1
<1>. QED
  BY <1>5, <1>6, <1>7, <1>8, <1>9

LEMMA Sent ==
    ASSUME chan \in Seq(Items), NEW x \in Items, chan' = Append(chan, x),
           x.email \notin InChannel,
           \A i, j \in DOMAIN chan : chan[i].email = chan[j].email => i = j
    PROVE  /\ chan' \in Seq(Items)
           /\ InChannel' = InChannel \cup {x.email}
           /\ \A i, j \in DOMAIN chan' : chan'[i].email = chan'[j].email => i = j
           /\ \A i \in DOMAIN chan' : chan'[i] = x \/ \E j \in DOMAIN chan : chan'[i] = chan[j]
<1>1. /\ chan' \in Seq(Items)
      /\ DOMAIN chan' = DOMAIN chan \cup {Len(chan) + 1}
      /\ Len(chan) + 1 \notin DOMAIN chan
      /\ \A i \in DOMAIN chan : chan'[i] = chan[i]
      /\ chan'[Len(chan) + 1] = x
  BY ChannelAppend
<1>2. InChannel' = InChannel \cup {x.email}
  BY <1>1 DEF InChannel
<1>3. ASSUME NEW i \in DOMAIN chan', NEW j \in DOMAIN chan', chan'[i].email = chan'[j].email
      PROVE  i = j
  BY <1>1, <1>3 DEF InChannel
<1>. QED
  BY <1>1, <1>2, <1>3

-----------------------------------------------------------------------------
(* The types.                                                              *)

LEMMA AtLeastOnePos == \A n \in Nat : AtLeastOne(n) \in Nat \ {0} /\ (n # 0 => AtLeastOne(n) = n)
  BY DEF AtLeastOne

LEMMA RequestsPos == concurrent_requests \in Nat \ {0}
  BY DownloadAssumption DEF concurrent_requests, AtLeastOne

LEMMA HalvedIn == \A n \in 1 .. concurrent_requests : Halved(n) \in 1 .. concurrent_requests
  BY RequestsPos DEF Halved, AtLeastOne

LEMMA TypeInit == DInit => DTypeOK
<1>. SUFFICES ASSUME DInit PROVE DTypeOK
  OBVIOUS
<1>1. concurrency \in 1 .. concurrent_requests /\ chan \in Seq(Items)
  BY RequestsPos, EmptyChannel DEF DInit
<1>2. /\ attempt \in [Emails -> 0 .. MaxAttempts] /\ files \in [Emails -> Nat]
      /\ troubles \in 0 .. MaxTroubles
  BY DownloadAssumption DEF DInit
<1>3. open \in BOOLEAN /\ limited \in BOOLEAN /\ hard \in BOOLEAN
  BY DEF DInit
<1>. QED
  BY <1>1, <1>2, <1>3 DEF DInit, DTypeOK

LEMMA TypeStep == DTypeOK /\ [DNext]_dvars => DTypeOK'
<1>. SUFFICES ASSUME DTypeOK, [DNext]_dvars PROVE DTypeOK'
  OBVIOUS
<1>. USE DownloadAssumption DEF DTypeOK, diskvars, resultvars, batchvars
<1>1. ASSUME NEW e \in Emails, Launch(e) PROVE DTypeOK'
  BY <1>1 DEF Launch
<1>2. ASSUME NEW e \in Emails, Arrives(e) PROVE DTypeOK'
  BY <1>2 DEF Arrives, Item, Items, Results
<1>3. ASSUME NEW e \in Emails, do_retry(e) PROVE DTypeOK'
  BY <1>3 DEF do_retry, Trouble
<1>4. ASSUME NEW e \in Emails, NEW r \in {"transient", "hard"}, GivesUp(e, r) PROVE DTypeOK'
  BY <1>4 DEF GivesUp, Trouble, Item, Items, Results
<1>5. ASSUME NEW i \in ready, Yields(i) PROVE DTypeOK'
  BY <1>5 DEF Yields
<1>6. CASE Sends
  BY <1>6, ChannelAppend DEF Sends
<1>7. CASE SendFails
  BY <1>7 DEF SendFails
<1>8. CASE StreamEnds
  BY <1>8 DEF StreamEnds
<1>9. CASE RecvTransient
  BY <1>9, ChannelTail, HeadIn DEF RecvTransient, Recv
<1>10. CASE RecvHard
  BY <1>10, ChannelTail DEF RecvHard, Recv
<1>11. CASE finalize_message
  BY <1>11, ChannelTail, HeadIn DEF finalize_message, Recv
<1>12. CASE CommitRow
  BY <1>12 DEF CommitRow
<1>13. ASSUME NEW lost, Leaves(lost), Trouble PROVE DTypeOK'
  <2>1. chan' \in Seq(Items)
    BY <1>13, EmptyChannel DEF Leaves
  <2>2. /\ open' \in BOOLEAN /\ hard' \in BOOLEAN
        /\ writer' \in {"idle", "recv", "commit", "join", "sleep", "done", "failed"}
    BY <1>13 DEF Leaves
  <2>3. /\ storing' \subseteq Emails /\ tmp' \subseteq Emails
        /\ troubles' \in 0 .. MaxTroubles
    BY <1>13 DEF Leaves, Trouble
  <2>. QED
    BY <1>13, <2>1, <2>2, <2>3 DEF Leaves
<1>15. CASE ChannelClosed
  BY <1>15 DEF ChannelClosed
<1>16. CASE JoinProducer
  BY <1>16 DEF JoinProducer
<1>17. CASE NextPass
  BY <1>17, HalvedIn, EmptyChannel DEF NextPass, StartBatch
<1>18. CASE Request
  <2>1. PICK batch \in SUBSET Emails : download_messages(batch)
    BY <1>18 DEF Request
  <2>2. concurrency' \in 1 .. concurrent_requests
    BY <2>1, RequestsPos DEF download_messages
  <2>3. chan' \in Seq(Items)
    BY <2>1, EmptyChannel DEF download_messages, StartBatch
  <2>4. open' \in BOOLEAN /\ limited' \in BOOLEAN /\ hard' \in BOOLEAN
    BY <2>1 DEF download_messages, StartBatch
  <2>. QED
    BY <2>1, <2>2, <2>3, <2>4 DEF download_messages, StartBatch
<1>19. CASE UNCHANGED dvars
  BY <1>19 DEF dvars
<1>. QED
  BY <1>1, <1>2, <1>3, <1>4, <1>5, <1>6, <1>7, <1>8, <1>9, <1>10, <1>11, <1>12, <1>13,
     <1>15, <1>16, <1>17, <1>18, <1>19
  DEF DNext, Producer, Writer, FinalizeFails, CommitFails

-----------------------------------------------------------------------------
(* The producer's steps: each moves an email to the next place.            *)

LEMMA Carried ==
    ASSUME Undelivered, Kept, OnWay' = OnWay,
           UNCHANGED <<jobs, rows, files, storing, writer, hard>>
    PROVE  Undelivered' /\ Kept'
  BY DEF Undelivered, Kept, StoredOnce

LEMMA LaunchStep ==
    ASSUME DInv, NEW e \in Emails, Launch(e)
    PROVE  Control' /\ Apart' /\ Undelivered' /\ Kept' /\ Open'
<1>. USE DEF DInv
<1>1. /\ Running' = Running \cup {e} /\ ReadyEmails' = ReadyEmails /\ Held' = Held
      /\ InChannel' = InChannel
  BY DEF Launch, Running, ReadyEmails, Held, InChannel, DTypeOK
<1>2. Flying' = Flying \cup {e} /\ e \in pending
  BY <1>1 DEF Flying, Launch
<1>3. OnWay' = OnWay
  BY <1>2 DEF OnWay, Launch, resultvars
<1>4. Undelivered' /\ Kept'
  BY <1>3, Carried DEF Launch, diskvars, resultvars
<1>5. Control'
  BY DEF Launch, Control, Polls, resultvars
<1>6. Apart'
  BY <1>1, <1>2 DEF Launch, Apart, Flying, resultvars
<1>7. \A i \in ready \cup held : i.email # e
  BY <1>2 DEF Apart, Flying, ReadyEmails, Held
<1>8. \A i \in DOMAIN chan : chan[i].email # e
  BY <1>2 DEF Apart, Flying, InChannel
<1>9. Open'
  BY <1>2, <1>7, <1>8 DEF Open, Launch
<1>. QED
  BY <1>4, <1>5, <1>6, <1>9

\* A request that is over, one way or the other.
LEMMA FinishStep ==
    ASSUME DInv, NEW e \in Emails, NEW r \in Results, Polls, e \in Running,
           attempt' = [attempt EXCEPT ![e] = 0], ready' = ready \cup {Item(e, r)},
           tmp' = IF r = "ok" THEN tmp ELSE tmp \ {e},
           UNCHANGED <<jobs, concurrency, pending, held, producer, chan, open, writer, storing,
                       retry, limited, hard, files, rows>>
    PROVE  Control' /\ Apart' /\ Undelivered' /\ Kept' /\ Open'
<1>. USE DEF DInv
<1>1. /\ Running' = Running \ {e} /\ ReadyEmails' = ReadyEmails \cup {e} /\ Held' = Held
      /\ InChannel' = InChannel
  <2>1. Running' = Running \ {e}
    BY DEF Running, DTypeOK
  <2>2. Item(e, r).email = e
    BY DEF Item
  <2>3. ReadyEmails' = ReadyEmails \cup {e}
    BY <2>2 DEF ReadyEmails
  <2>. QED
    BY <2>1, <2>3 DEF Held, InChannel
<1>2. Flying' = Flying
  BY <1>1 DEF Flying
<1>3. OnWay' = OnWay
  BY <1>2 DEF OnWay
<1>4. Undelivered' /\ Kept'
  BY <1>3, Carried
<1>5. Control'
  BY DEF Control, Polls
<1>6. \A i \in ready \cup held : i.email # e
  BY DEF Apart, Flying, ReadyEmails, Held
<1>7. \A i \in DOMAIN chan : chan[i].email # e
  BY DEF Apart, Flying, InChannel
<1>8. \A i, j \in ready' : i.email = j.email => i = j
  BY <1>6 DEF Apart, Item
<1>9. Apart'
  BY <1>1, <1>2, <1>8 DEF Apart, Flying
<1>10. Open'
  BY <1>2, <1>6, <1>7 DEF Open, Item, Flying
<1>. QED
  BY <1>4, <1>5, <1>9, <1>10

LEMMA YieldStep ==
    ASSUME DInv, NEW i \in ready, Yields(i)
    PROVE  Control' /\ Apart' /\ Undelivered' /\ Kept' /\ Open'
<1>. USE DEF DInv
<1>1. held = {} /\ Held = {}
  BY DEF Yields, Polls, Held
<1>2. /\ Running' = Running /\ ReadyEmails' = ReadyEmails \ {i.email} /\ Held' = {i.email}
      /\ InChannel' = InChannel /\ i.email \in ReadyEmails
  BY <1>1 DEF Yields, Running, ReadyEmails, Held, InChannel, Apart
<1>3. Flying' = Flying
  BY <1>1, <1>2 DEF Flying
<1>4. OnWay' = OnWay
  BY <1>3 DEF OnWay, Yields, resultvars
<1>5. Undelivered' /\ Kept'
  BY <1>4, Carried DEF Yields, diskvars, resultvars
<1>6. Control'
  BY DEF Control, Polls, Yields, resultvars
<1>7. Apart'
  BY <1>1, <1>2, <1>3 DEF Apart, Flying, Yields, resultvars
<1>8. Open'
  BY <1>3 DEF Open, Yields, diskvars
<1>. QED
  BY <1>5, <1>6, <1>7, <1>8

LEMMA SendStep ==
    ASSUME DInv, Sends
    PROVE  Control' /\ Apart' /\ Undelivered' /\ Kept' /\ Open'
<1>. USE DEF DInv
<1>1. PICK i \in held : chan' = Append(chan, i)
  BY DEF Sends
<1>2. held = {i} /\ Held = {i.email} /\ i \in Items /\ chan \in Seq(Items)
  BY DEF Apart, Held, DTypeOK
<1>3. /\ InChannel' = InChannel \cup {i.email}
      /\ \A j, k \in DOMAIN chan' : chan'[j].email = chan'[k].email => j = k
      /\ \A j \in DOMAIN chan' : chan'[j] = i \/ \E k \in DOMAIN chan : chan'[j] = chan[k]
  BY <1>1, <1>2, Sent DEF Apart
<1>4. Running' = Running /\ ReadyEmails' = ReadyEmails /\ Held' = {}
  BY DEF Sends, Running, ReadyEmails, Held
<1>5. Flying' = Flying
  BY <1>2, <1>3, <1>4 DEF Flying
<1>6. OnWay' = OnWay
  BY <1>5 DEF OnWay, Sends, resultvars
<1>7. Undelivered' /\ Kept'
  BY <1>6, Carried DEF Sends, diskvars, resultvars
<1>8. Control'
  BY DEF Control, Sends, resultvars
<1>9. Apart'
  BY <1>2, <1>3, <1>4, <1>5 DEF Apart, Flying, Sends, resultvars
<1>10. Open'
  BY <1>2, <1>3, <1>5 DEF Open, Sends, diskvars
<1>. QED
  BY <1>7, <1>8, <1>9, <1>10

\* The receiver has gone only after an error that fails the phase.
LEMMA SendFailStep ==
    ASSUME DInv, SendFails
    PROVE  Control' /\ Apart' /\ Undelivered' /\ Kept' /\ Open'
<1>. USE DEF DInv
<1>1. writer = "join" /\ hard /\ chan = <<>> /\ storing = {}
  BY DEF Control, SendFails, DTypeOK
<1>2. /\ Running' = {} /\ ReadyEmails' = {} /\ Held' = {} /\ InChannel' = {} /\ InChannel = {}
  BY <1>1 DEF SendFails, Running, ReadyEmails, Held, InChannel
<1>3. Flying' = {} /\ OnWay' = retry /\ retry' = retry
  BY <1>2 DEF Flying, OnWay, SendFails, resultvars
<1>4. Undelivered'
  BY <1>3 DEF Undelivered, OnWay, StoredOnce, SendFails
<1>5. Kept'
  BY <1>1 DEF Kept, SendFails, resultvars
<1>6. Control'
  BY <1>1, <1>2 DEF Control, SendFails, resultvars
<1>7. Apart'
  BY <1>1, <1>2, <1>3 DEF Apart, SendFails
<1>8. Open'
  BY <1>1, <1>2, <1>3 DEF Open, Flying, SendFails
<1>. QED
  BY <1>4, <1>5, <1>6, <1>7, <1>8

LEMMA QuietStep ==
    ASSUME DInv,
           UNCHANGED <<jobs, pending, Running, ready, held, chan, open, writer, storing, retry,
                       hard, tmp, files, rows>>,
           producer' = producer \/ (StreamEnds /\ producer' = "ended")
    PROVE  Control' /\ Apart' /\ Undelivered' /\ Kept' /\ Open'
<1>. USE DEF DInv
<1>1. ReadyEmails' = ReadyEmails /\ Held' = Held /\ InChannel' = InChannel
  BY DEF ReadyEmails, Held, InChannel
<1>2. Flying' = Flying /\ OnWay' = OnWay
  BY <1>1 DEF Flying, OnWay
<1>3. Undelivered' /\ Kept'
  BY <1>2, Carried
<1>4. Control'
  BY DEF Control, StreamEnds, Polls
<1>5. Apart' /\ Open'
  BY <1>1, <1>2 DEF Apart, Open
<1>. QED
  BY <1>3, <1>4, <1>5

-----------------------------------------------------------------------------
(* The writer's steps.                                                     *)

LEMMA TransientStep ==
    ASSUME DInv, RecvTransient
    PROVE  Control' /\ Apart' /\ Undelivered' /\ Kept' /\ Open'
<1>. USE DEF DInv
<1>. DEFINE e == Head(chan).email
<1>1. /\ InChannel' = InChannel \ {e} /\ e \in InChannel
      /\ \A i, j \in DOMAIN chan' : chan'[i].email = chan'[j].email => i = j
      /\ \A i \in DOMAIN chan' : \E j \in DOMAIN chan : chan'[i] = chan[j]
      /\ \E j \in DOMAIN chan : Head(chan) = chan[j]
  BY Received DEF RecvTransient, Recv, Apart, DTypeOK
<1>2. Running' = Running /\ ReadyEmails' = ReadyEmails /\ Held' = Held
  BY DEF RecvTransient, Running, ReadyEmails, Held
<1>3. retry' = retry \cup {e} /\ e \notin Running \cup ReadyEmails \cup Held
  BY <1>1 DEF RecvTransient, Apart
<1>4. Flying' = Flying \ {e}
  BY <1>1, <1>2, <1>3 DEF Flying
<1>5. OnWay' = OnWay
  BY <1>1, <1>2, <1>3, <1>4 DEF OnWay, Flying, RecvTransient
<1>6. Undelivered' /\ Kept'
  BY <1>5, Carried DEF RecvTransient, diskvars
<1>7. Control'
  BY <1>2 DEF Control, RecvTransient, Recv
<1>8. Apart'
  BY <1>1, <1>2, <1>3, <1>4 DEF Apart, Flying, RecvTransient
<1>9. e \notin tmp
  BY <1>1 DEF Open, RecvTransient, Recv
<1>10. Open'
  BY <1>1, <1>4, <1>9 DEF Open, RecvTransient, diskvars
<1>. QED
  BY <1>6, <1>7, <1>8, <1>10

LEMMA HardStep ==
    ASSUME DInv, RecvHard
    PROVE  Control' /\ Apart' /\ Undelivered' /\ Kept' /\ Open'
<1>. USE DEF DInv
<1>. DEFINE e == Head(chan).email
<1>1. /\ InChannel' = InChannel \ {e} /\ e \in InChannel
      /\ \A i, j \in DOMAIN chan' : chan'[i].email = chan'[j].email => i = j
      /\ \A i \in DOMAIN chan' : \E j \in DOMAIN chan : chan'[i] = chan[j]
      /\ \E j \in DOMAIN chan : Head(chan) = chan[j]
  BY Received DEF RecvHard, Recv, Apart, DTypeOK
<1>2. Running' = Running /\ ReadyEmails' = ReadyEmails /\ Held' = Held
  BY DEF RecvHard, Running, ReadyEmails, Held
<1>3. e \notin Running \cup ReadyEmails \cup Held
  BY <1>1 DEF RecvHard, Apart
<1>4. Flying' = Flying \ {e}
  BY <1>1, <1>2, <1>3 DEF Flying
<1>5. OnWay' \subseteq OnWay
  BY <1>4 DEF OnWay, RecvHard
<1>6. Undelivered'
  BY <1>5 DEF Undelivered, StoredOnce, RecvHard, diskvars
<1>7. Kept'
  BY DEF Kept, RecvHard
<1>8. Control'
  BY <1>2 DEF Control, RecvHard, Recv
<1>9. Apart'
  BY <1>1, <1>2, <1>4 DEF Apart, Flying, RecvHard
<1>10. e \notin tmp
  BY <1>1 DEF Open, RecvHard, Recv
<1>11. Open'
  BY <1>1, <1>4, <1>10 DEF Open, RecvHard, diskvars
<1>. QED
  BY <1>6, <1>7, <1>8, <1>9, <1>11

LEMMA FinalizeStep ==
    ASSUME DInv, finalize_message
    PROVE  Control' /\ Apart' /\ Undelivered' /\ Kept' /\ Open'
<1>. USE DEF DInv
<1>. DEFINE e == Head(chan).email
<1>1. /\ InChannel' = InChannel \ {e} /\ e \in InChannel
      /\ \A i, j \in DOMAIN chan' : chan'[i].email = chan'[j].email => i = j
      /\ \A i \in DOMAIN chan' : \E j \in DOMAIN chan : chan'[i] = chan[j]
  BY Received DEF finalize_message, Recv, Apart, DTypeOK
<1>2. Running' = Running /\ ReadyEmails' = ReadyEmails /\ Held' = Held /\ retry' = retry
  BY DEF finalize_message, resultvars, Running, ReadyEmails, Held
<1>3. /\ e \notin Running \cup ReadyEmails \cup Held \cup retry \cup pending
      /\ storing = {} /\ storing' = {e} /\ pending' = pending /\ e \in Emails
  BY <1>1, HeadIn DEF finalize_message, Recv, Apart, Control, Flying, DTypeOK
<1>4. Flying' = Flying \ {e} /\ OnWay' = OnWay \ {e} /\ e \in OnWay
  BY <1>1, <1>2, <1>3 DEF Flying, OnWay
<1>5. files' = [files EXCEPT ![e] = @ + 1] /\ rows' = rows /\ jobs' = jobs
  BY DEF finalize_message
<1>6. Undelivered'
  <2>1. OnWay' \cup storing' \subseteq jobs'
    BY <1>3, <1>4, <1>5 DEF Undelivered
  <2>2. files[e] = 0 /\ e \notin rows
    BY <1>4 DEF Undelivered
  <2>3. files'[e] = 1 /\ \A d \in Emails : d # e => files'[d] = files[d]
    BY <1>3, <1>5, <2>2 DEF DTypeOK
  <2>4. OnWay \subseteq Emails
    BY DEF DTypeOK, Undelivered
  <2>5. \A d \in OnWay' : files'[d] = 0 /\ d \notin rows'
    BY <1>4, <1>5, <2>3, <2>4 DEF Undelivered
  <2>6. StoredOnce'
    BY <1>5, <2>2, <2>3 DEF Undelivered, StoredOnce, DTypeOK
  <2>. QED
    BY <1>3, <1>5, <2>1, <2>2, <2>3, <2>5, <2>6 DEF Undelivered
<1>7. Kept'
  BY <1>3, <1>4, <1>5 DEF Kept, finalize_message, Recv, resultvars
<1>8. Control'
  BY <1>2, <1>3 DEF Control, finalize_message, Recv
<1>9. Apart'
  BY <1>1, <1>2, <1>3, <1>4 DEF Apart, Flying, finalize_message
<1>10. Open'
  BY <1>1, <1>4 DEF Open, finalize_message
<1>. QED
  BY <1>6, <1>7, <1>8, <1>9, <1>10

LEMMA CommitStep ==
    ASSUME DInv, CommitRow
    PROVE  Control' /\ Apart' /\ Undelivered' /\ Kept' /\ Open'
<1>. USE DEF DInv
<1>1. /\ Running' = Running /\ ReadyEmails' = ReadyEmails /\ Held' = Held
      /\ InChannel' = InChannel
  BY DEF CommitRow, batchvars, Running, ReadyEmails, Held, InChannel
<1>2. Flying' = Flying /\ OnWay' = OnWay /\ storing' = {}
  BY <1>1 DEF Flying, OnWay, CommitRow, batchvars, resultvars
<1>3. OnWay \cap storing = {}
  BY DEF OnWay, Flying, Apart
<1>4. Undelivered'
  BY <1>2, <1>3 DEF Undelivered, StoredOnce, CommitRow
<1>5. Kept'
  BY <1>2 DEF Kept, CommitRow, resultvars
<1>6. Control'
  BY <1>1, <1>2 DEF Control, CommitRow, batchvars
<1>7. Apart'
  BY <1>1, <1>2 DEF Apart, CommitRow, batchvars, resultvars
<1>8. Open'
  BY <1>2 DEF Open, CommitRow, batchvars
<1>. QED
  BY <1>4, <1>5, <1>6, <1>7, <1>8

LEMMA LeaveStep ==
    ASSUME DInv, NEW lost, writer \in {"recv", "commit"}, Leaves(lost)
    PROVE  Control' /\ Apart' /\ Undelivered' /\ Kept' /\ Open'
<1>. USE DEF DInv
<1>1. /\ Running' = Running /\ ReadyEmails' = ReadyEmails /\ Held' = Held
      /\ InChannel' = {} /\ chan' = <<>> /\ storing' = {} /\ hard'
  BY DEF Leaves, Running, ReadyEmails, Held, InChannel
<1>2. Flying' = Running \cup ReadyEmails \cup Held /\ OnWay' \subseteq OnWay
  BY <1>1 DEF Flying, OnWay, Leaves
<1>3. Undelivered'
  BY <1>1, <1>2 DEF Undelivered, StoredOnce, Leaves
<1>4. Kept'
  BY <1>1 DEF Kept
<1>5. Control'
  BY <1>1 DEF Control, Leaves
<1>6. Apart'
  BY <1>1, <1>2 DEF Apart, Flying, Leaves
<1>7. Open'
  BY <1>1, <1>2 DEF Open, Flying, Leaves
<1>. QED
  BY <1>3, <1>4, <1>5, <1>6, <1>7

\* Leaving the loop at its end, and joining the producer.
LEMMA EndStep ==
    ASSUME DInv, ChannelClosed \/ JoinProducer
    PROVE  Control' /\ Apart' /\ Undelivered' /\ Kept' /\ Open'
<1>. USE DEF DInv
<1>1. /\ Running' = Running /\ ReadyEmails' = ReadyEmails /\ Held' = Held
      /\ InChannel' = InChannel
  BY DEF ChannelClosed, JoinProducer, batchvars, Running, ReadyEmails, Held, InChannel
<1>2. Flying' = Flying /\ OnWay' = OnWay /\ storing' = storing
  BY <1>1 DEF Flying, OnWay, ChannelClosed, JoinProducer, batchvars, resultvars
<1>3. Undelivered'
  BY <1>2 DEF Undelivered, StoredOnce, ChannelClosed, JoinProducer, diskvars
<1>4. Kept'
  BY <1>2 DEF Kept, ChannelClosed, JoinProducer, resultvars, diskvars
<1>5. Control'
  BY <1>1 DEF Control, ChannelClosed, JoinProducer, batchvars, resultvars
<1>6. Apart' /\ Open'
  BY <1>1, <1>2 DEF Apart, Open, ChannelClosed, JoinProducer, batchvars, resultvars, diskvars
<1>. QED
  BY <1>3, <1>4, <1>5, <1>6

\* A pass over emails of the phase that are nowhere on their way.
LEMMA BatchStep ==
    ASSUME DInv, NEW batch \in SUBSET Emails, StartBatch(batch),
           writer \in {"idle", "sleep", "done", "failed"},
           \/ jobs' = jobs /\ batch = retry /\ hard' = hard /\ writer = "sleep"
           \/ jobs' = batch /\ Wanted(batch) /\ ~hard',
           UNCHANGED <<attempt, ready, held, storing, files, rows, tmp>>
    PROVE  Control' /\ Apart' /\ Undelivered' /\ Kept' /\ Open'
<1>. USE DEF DInv
<1>1. /\ pending = {} /\ Running = {} /\ ready = {} /\ held = {} /\ chan = <<>>
      /\ storing = {}
  BY DEF Control
<1>2. /\ Running' = {} /\ ReadyEmails' = {} /\ Held' = {} /\ InChannel' = {} /\ chan' = <<>>
      /\ ready' = {} /\ held' = {} /\ storing' = {}
  BY <1>1 DEF StartBatch, Running, ReadyEmails, Held, InChannel
<1>3. Running = {} /\ ReadyEmails = {} /\ Held = {} /\ InChannel = {}
  BY <1>1 DEF ReadyEmails, Held, InChannel
<1>4. Flying' = {} /\ Flying = {} /\ OnWay' = batch /\ OnWay = retry /\ pending' = batch
  BY <1>1, <1>2, <1>3 DEF Flying, OnWay, StartBatch
<1>5. Undelivered'
  BY <1>2, <1>4 DEF Undelivered, StoredOnce, Wanted
<1>6. Kept'
  BY <1>1, <1>2, <1>4 DEF Kept
<1>7. Control'
  BY <1>2 DEF Control, StartBatch
<1>8. Apart'
  BY <1>2, <1>4 DEF Apart, StartBatch
<1>9. Open'
  BY <1>2, <1>3, <1>4 DEF Open
<1>. QED
  BY <1>5, <1>6, <1>7, <1>8, <1>9

-----------------------------------------------------------------------------
LEMMA InvInit == DInit => DInv
<1>. SUFFICES ASSUME DInit PROVE DInv
  OBVIOUS
<1>1. /\ Running = {} /\ ReadyEmails = {} /\ Held = {} /\ InChannel = {}
      /\ chan = <<>> /\ DOMAIN chan = {}
  BY DEF DInit, Running, ReadyEmails, Held, InChannel
<1>2. Flying = {} /\ OnWay = {}
  BY <1>1 DEF DInit, Flying, OnWay
<1>3. Control
  BY <1>1 DEF DInit, Control
<1>4. Apart /\ Kept /\ Open
  BY <1>1, <1>2 DEF DInit, Apart, Kept, Open
<1>5. Undelivered
  BY <1>2 DEF DInit, Undelivered, StoredOnce
<1>. QED
  BY TypeInit, <1>3, <1>4, <1>5 DEF DInv

LEMMA InvStep == DInv /\ [DNext]_dvars => DInv'
<1>. SUFFICES ASSUME DInv, [DNext]_dvars
              PROVE  Control' /\ Apart' /\ Undelivered' /\ Kept' /\ Open'
  BY TypeStep DEF DInv
<1>. DEFINE Goal == Control' /\ Apart' /\ Undelivered' /\ Kept' /\ Open'
<1>. USE DEF diskvars, resultvars, batchvars
<1>1. ASSUME NEW e \in Emails, Launch(e) PROVE Goal
  BY <1>1, LaunchStep
<1>2. ASSUME NEW e \in Emails, Arrives(e) PROVE Goal
  BY <1>2, FinishStep DEF Arrives, Results
<1>3. ASSUME NEW e \in Emails, do_retry(e) PROVE Goal
  <2>1. Running' = Running
    BY <1>3 DEF do_retry, Running, DTypeOK, DInv
  <2>. QED
    BY <1>3, <2>1, QuietStep DEF do_retry
<1>4. ASSUME NEW e \in Emails, NEW r \in {"transient", "hard"}, GivesUp(e, r) PROVE Goal
  BY <1>4, FinishStep DEF GivesUp, Results
<1>5. ASSUME NEW i \in ready, Yields(i) PROVE Goal
  BY <1>5, YieldStep
<1>6. CASE Sends
  BY <1>6, SendStep
<1>7. CASE SendFails
  BY <1>7, SendFailStep
<1>8. CASE StreamEnds
  <2>1. Running' = Running
    BY <1>8 DEF StreamEnds, Running
  <2>. QED
    BY <1>8, <2>1, QuietStep DEF StreamEnds
<1>9. CASE RecvTransient
  BY <1>9, TransientStep
<1>10. CASE RecvHard
  BY <1>10, HardStep
<1>11. CASE finalize_message
  BY <1>11, FinalizeStep
<1>12. CASE CommitRow
  BY <1>12, CommitStep
<1>13. CASE FinalizeFails \/ CommitFails
  BY <1>13, LeaveStep DEF FinalizeFails, CommitFails
<1>14. CASE ChannelClosed \/ JoinProducer
  BY <1>14, EndStep
<1>15. CASE NextPass
  <2>1. retry \in SUBSET Emails
    BY DEF DInv, DTypeOK
  <2>2. /\ StartBatch(retry)
        /\ jobs' = jobs /\ hard' = hard /\ writer = "sleep"
        /\ UNCHANGED <<attempt, ready, held, storing, files, rows, tmp>>
    BY <1>15 DEF NextPass
  <2>. QED
    BY <2>1, <2>2, BatchStep
<1>16. CASE Request
  <2>1. PICK batch \in SUBSET Emails : Wanted(batch) /\ download_messages(batch)
    BY <1>16 DEF Request
  <2>. QED
    BY <2>1, BatchStep DEF download_messages, Wanted
<1>17. CASE UNCHANGED dvars
  <2>1. Running' = Running
    BY <1>17 DEF dvars, Running
  <2>. QED
    BY <1>17, <2>1, QuietStep DEF dvars
<1>. QED
  BY <1>1, <1>2, <1>3, <1>4, <1>5, <1>6, <1>7, <1>8, <1>9, <1>10, <1>11, <1>12, <1>13, <1>14,
     <1>15, <1>16, <1>17 DEF DNext, Producer, Writer

\* The inductive invariant of the download phase holds in every state.
THEOREM PhaseInvariant == DSpec => []DInv
  BY InvInit, InvStep, PTL DEF DSpec

\* The variables of the phase keep their types, and the concurrency of a pass
\* its bounds (limits.rs, run_download_stream).
THEOREM PhaseTypes == DSpec => []DTypeOK
<1>1. DInv => DTypeOK
  BY DEF DInv
<1>. QED
  BY PhaseInvariant, <1>1, PTL

\* While nothing has failed for good, download_batch forgets no email: its
\* result streams over the channel, the retries and the passes.
THEOREM PhaseForgetsNothing == DSpec => []NothingDropped
<1>1. DInv => NothingDropped
  BY DEF DInv, Kept, NothingDropped, OnWay, Flying
<1>. QED
  BY PhaseInvariant, <1>1, PTL

\* store_downloaded_message delivers no email twice, and only a delivered one
\* has a row.
THEOREM PhaseStoresOnce == DSpec => []StoredOnce
<1>1. DInv => StoredOnce
  BY DEF DInv, Undelivered
<1>. QED
  BY PhaseInvariant, <1>1, PTL

\* download_messages returns with tmp/ empty, whether it succeeds or fails.
THEOREM PhaseCleansUp == DSpec => []NoTmpLeft
<1>1. ASSUME DInv, writer \in {"done", "failed"} PROVE tmp = {}
  <2>1. Running = {} /\ ready = {} /\ held = {} /\ chan = <<>>
    BY <1>1 DEF DInv, Control
  <2>2. ReadyEmails = {} /\ Held = {} /\ InChannel = {}
    BY <2>1 DEF ReadyEmails, Held, InChannel
  <2>. QED
    BY <1>1, <2>1, <2>2 DEF DInv, Open, Flying
<1>2. DInv => NoTmpLeft
  BY <1>1 DEF NoTmpLeft
<1>. QED
  BY PhaseInvariant, <1>2, PTL

-----------------------------------------------------------------------------
(* The phase implements Transfer.                                          *)

LEMMA TransferInit == DInit => T!TInit
  BY DEF DInit, T!TInit, status

LEMMA TransferStep == DInv /\ [DNext]_dvars => [T!TNext]_(T!tvars)
<1>. SUFFICES ASSUME DInv, [DNext]_dvars PROVE [T!TNext]_(T!tvars)
  OBVIOUS
<1>. USE DEF diskvars, resultvars, batchvars
<1>. DEFINE Stutter == UNCHANGED <<jobs, rows, status>>
<1>1. Stutter => [T!TNext]_(T!tvars)
  BY DEF T!tvars
<1>2. ASSUME Producer PROVE Stutter
  BY <1>2 DEF Producer, Launch, Arrives, do_retry, GivesUp, Yields, Sends, SendFails, StreamEnds,
              status
<1>3. CASE RecvTransient \/ RecvHard \/ finalize_message
  BY <1>1, <1>3 DEF RecvTransient, RecvHard, finalize_message, Recv, status
<1>4. CASE CommitRow
  <2>1. PICK e \in Emails : storing = {e}
    BY <1>4 DEF CommitRow, DInv, Control
  <2>2. e \in jobs \ rows
    BY <2>1 DEF DInv, Undelivered
  <2>3. status = "running" /\ status' = status /\ rows' = rows \cup {e} /\ jobs' = jobs
    BY <1>4, <2>1 DEF CommitRow, status
  <2>4. T!TStore
    BY <2>2, <2>3 DEF T!TStore
  <2>. QED
    BY <2>4 DEF T!TNext
<1>5. CASE FinalizeFails \/ CommitFails \/ ChannelClosed \/ NextPass
  BY <1>1, <1>5 DEF FinalizeFails, CommitFails, ChannelClosed, NextPass, StartBatch, Leaves, status
<1>6. CASE JoinProducer
  <2>1. status = "running" /\ jobs' = jobs /\ rows' = rows
    BY <1>6 DEF JoinProducer, status
  <2>2. CASE writer' = "failed"
    <3>1. T!TFail
      BY <2>1, <2>2 DEF T!TFail, status
    <3>. QED
      BY <3>1 DEF T!TNext
  <2>3. CASE writer' = "sleep"
    BY <1>1, <2>1, <2>3 DEF status
  <2>4. CASE writer' = "done"
    <3>1. ~hard /\ retry = {} /\ producer = "ended" /\ writer = "join"
      BY <1>6, <2>4 DEF JoinProducer
    <3>2. /\ pending = {} /\ Running = {} /\ ready = {} /\ held = {} /\ chan = <<>>
          /\ storing = {}
      BY <3>1 DEF DInv, Control
    <3>3. ReadyEmails = {} /\ Held = {} /\ InChannel = {}
      BY <3>2 DEF ReadyEmails, Held, InChannel
    <3>4. jobs \subseteq rows
      BY <3>1, <3>2, <3>3 DEF DInv, Kept, OnWay, Flying
    <3>5. T!TFinish
      BY <2>1, <2>4, <3>4 DEF T!TFinish, status
    <3>. QED
      BY <3>5 DEF T!TNext
  <2>. QED
    BY <1>6, <2>2, <2>3, <2>4 DEF JoinProducer
<1>7. CASE Request
  <2>1. PICK batch \in SUBSET Emails : Wanted(batch) /\ download_messages(batch)
    BY <1>7 DEF Request
  <2>2. /\ status # "running" /\ status' = "running" /\ jobs' = batch /\ rows' = rows
        /\ batch # {} /\ batch \in SUBSET (Emails \ rows)
    BY <2>1 DEF download_messages, StartBatch, Wanted, status
  <2>3. T!TBegin
    BY <2>2 DEF T!TBegin
  <2>. QED
    BY <2>3 DEF T!TNext
<1>8. CASE UNCHANGED dvars
  BY <1>1, <1>8 DEF dvars, status
<1>. QED
  BY <1>1, <1>2, <1>3, <1>4, <1>5, <1>6, <1>7, <1>8 DEF DNext, Writer

\* The phase keeps the promise of Transfer: what it is given it stores at most
\* once, and it reports success only when all of it is stored.
THEOREM PhaseImplementsTransfer == DSpec => ImplementsTransfer
  BY PhaseInvariant, TransferInit, TransferStep, PTL DEF DSpec, ImplementsTransfer, T!TSpec
=============================================================================
