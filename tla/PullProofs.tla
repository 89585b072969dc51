----------------------------- MODULE PullProofs -----------------------------
(***************************************************************************)
(* The cursor passes nothing by (Pull), for every number of emails, pages  *)
(* and chunks of any size, and any number of changes and failures.         *)
(*                                                                         *)
(* NothingSkipped speaks of a cycle that is over.  What holds all the time *)
(* is that the DB knows what changed up to its cursor (Remembered), and    *)
(* that a running cycle has the rest up to its horizon in hand: named by   *)
(* Email/changes or got (Fetched), or on a page of Email/query that is     *)
(* still to be asked for (Listed), and then stored or wanted (Stored).  It *)
(* needs that rows are not older than the state saved with them (Fresh)    *)
(* and that nothing in hand is older than the cursor (InHand).             *)
(***************************************************************************)
EXTENDS Pull, FiniteSetTheorems, WellFoundedInduction, SequenceTheorems, TLAPS

\* The phases in which what was fetched reaches up to Horizon.
Fetching == phase \in {"changes", "get", "apply"}
Storing == phase \in {"download", "downloading", "save"}
Horizon == IF phase = "changes" THEN at ELSE new_state

Known(e) == e \in have /\ mirror[e] >= LastChange(e)

\* Of the values a variable takes only in some phases.
Phases ==
    /\ phase \in {"idle", "changes", "query", "page", "serial", "get", "get-all",
                  "state", "apply", "download", "downloading", "save"}
    /\ Listing => cursor = NoState /\ destroyed = {}
    /\ phase = "changes" => cursor # NoState /\ at \in cursor .. State
    /\ phase \in {"changes", "query", "page", "serial"} => got = {}
    /\ phase \in {"query", "state", "apply"} => ids = {}
    /\ phase = "page" => pages \subseteq Nat
    /\ phase = "serial" => at \in Nat
    /\ box \in Seq(Emails) /\ Len(log) <= MaxChanges
    /\ phase = "downloading" <=> status = "running"

\* What the DB remembers is in it.
Remembered ==
    cursor # NoState =>
        \A e \in Live \ dropped : LastChange(e) <= cursor => Known(e)

\* What a cycle has in hand has changed since the cursor.
InHand ==
    phase # "idle" /\ cursor # NoState =>
        \A e \in ids \cup GotEmails \cup destroyed : LastChange(e) > cursor

\* What the server destroyed does not come back.
Gone == \A e \in destroyed : e \notin Live /\ LastChange(e) > 0

\* A row shows its email as it is, or as it was after the state fetched.
Fresh ==
    /\ phase \in {"get", "apply"} =>
        \A g \in got : LastChange(g[1]) <= new_state => g[2] >= LastChange(g[1])
    /\ phase \in {"get-all", "state"} =>
        \A g \in got : g[2] >= LastChange(g[1])

\* What changed up to the horizon is known or in hand.
Fetched ==
    Fetching => \A e \in Live \ dropped : LastChange(e) <= Horizon =>
                    Known(e) \/ e \in ids \/ e \in GotEmails

\* What the mailbox holds is in hand or will be asked for.
Listed ==
    /\ phase = "page" => \A i \in DOMAIN box :
            box[i] \in ids \/ \E p \in pages : i \in p + 1 .. p + QueryPage
    /\ phase = "serial" => at <= Len(box) /\ \A i \in 1 .. at : box[i] \in ids
    /\ phase = "get-all" => Live \ dropped \subseteq ids \cup GotEmails
    /\ phase = "state" => Live \ dropped \subseteq GotEmails

\* What changed up to the new state is stored or being stored.
Stored ==
    Storing => \A e \in Live \ dropped : LastChange(e) <= new_state =>
        /\ mirror[e] >= LastChange(e)
        /\ \/ e \in have
           \/ phase = "download" /\ e \in GotEmails
           \/ phase = "downloading" /\ e \in want

\* What was destroyed up to the horizon is in hand, and then gone.
Swept ==
    /\ cursor # NoState /\ (Fetching \/ Storing) =>
        \A e \in Emails \ Live : LastChange(e) \in cursor + 1 .. Horizon => e \in destroyed
    /\ Storing => have \cap destroyed = {}
    /\ phase = "downloading" => want \cap destroyed = {}

\* A mailbox is listed whole: it keeps still, and pages are as long as asked for.
Quiet == QuietQuery /\ QueryPage <= ServerPage

PInv ==
    /\ PTypeOK /\ Phases /\ InHand /\ Gone /\ Swept
    /\ Quiet => Remembered /\ Fresh /\ Fetched /\ Listed /\ Stored
-----------------------------------------------------------------------------
(* The last change of an email in a log.                                   *)

LastIn(l, e) == CHOOSE i \in 0 .. Len(l) :
    /\ i = 0 \/ l[i] = e
    /\ \A j \in i + 1 .. Len(l) : l[j] # e

LEMMA LastInIs ==
    ASSUME NEW l \in Seq(Emails), NEW e, NEW i \in 0 .. Len(l),
           i = 0 \/ l[i] = e, \A j \in i + 1 .. Len(l) : l[j] # e
    PROVE  LastIn(l, e) = i
<1>1. Len(l) \in Nat
    OBVIOUS
<1>2. ASSUME NEW k \in 0 .. Len(l), k = 0 \/ l[k] = e, \A j \in k + 1 .. Len(l) : l[j] # e
      PROVE  k = i
    <2>1. CASE k < i
        BY <1>1, <1>2, <2>1
    <2>2. CASE i < k
        BY <1>1, <1>2, <2>2
    <2> QED
        BY <1>1, <2>1, <2>2
<1> QED
    BY <1>2 DEF LastIn

\* A nonempty bounded set of numbers has a greatest element: of the sets x .. n
\* for x in S one is minimal under inclusion.
LEMMA LastOfAll ==
    ASSUME NEW n \in Nat, NEW S \in SUBSET (0 .. n), S # {}
    PROVE  \E x \in S : \A y \in S : y <= x
<1> DEFINE T == {x .. n : x \in S}
           R == StrictSubsetOrdering(0 .. n)
<1>1. IsWellFoundedOn(R, SUBSET (0 .. n))
    <2>1. IsFiniteSet(0 .. n)
        BY FS_Interval
    <2> QED
        BY <2>1, FS_StrictSubsetOrderingWellFounded, FS_FiniteSubsetsOfFinite, Zenon
<1>2. T \subseteq SUBSET (0 .. n) /\ T # {}
    <2>1. \A x \in S : x .. n \subseteq 0 .. n
        OBVIOUS
    <2> QED
        BY <2>1
<1>3. PICK t \in T : \A u \in T : <<u, t>> \notin R
    <2> HIDE DEF R, T
    <2> QED
        BY <1>1, <1>2, WFMin
<1>4. PICK x \in S : t = x .. n
    OBVIOUS
<1>5. ASSUME NEW y \in S, x < y PROVE FALSE
    <2>1. y .. n \in T /\ y .. n \subseteq t /\ x \in t /\ x \notin y .. n
        BY <1>4, <1>5
    <2>2. <<y .. n, t>> \in R
        BY <2>1, <1>2 DEF StrictSubsetOrdering
    <2> QED
        BY <1>3, <2>1, <2>2
<1> QED
    BY <1>5

LEMMA LastInExists ==
    ASSUME NEW l \in Seq(Emails), NEW e
    PROVE  /\ LastIn(l, e) \in 0 .. Len(l)
           /\ LastIn(l, e) = 0 \/ l[LastIn(l, e)] = e
           /\ \A j \in LastIn(l, e) + 1 .. Len(l) : l[j] # e
<1> DEFINE S == {i \in 0 .. Len(l) : i = 0 \/ l[i] = e}
<1>1. Len(l) \in Nat
    OBVIOUS
<1>2. S \in SUBSET (0 .. Len(l)) /\ S # {}
    <2>1. 0 \in S
        BY <1>1
    <2> QED
        BY <2>1
<1>3. PICK i \in S : \A k \in S : k <= i
    <2> HIDE DEF S
    <2> QED
        BY <1>1, <1>2, LastOfAll
<1>4. \A j \in i + 1 .. Len(l) : l[j] # e
    BY <1>1, <1>3
<1> QED
    BY <1>1, <1>3, <1>4, LastInIs

LEMMA LastInAppend ==
    ASSUME NEW l \in Seq(Emails), NEW x \in Emails, NEW e
    PROVE  LastIn(Append(l, x), e) = IF e = x THEN Len(l) + 1 ELSE LastIn(l, e)
<1> DEFINE m == Append(l, x)
<1>1. /\ m \in Seq(Emails) /\ Len(m) = Len(l) + 1 /\ Len(l) \in Nat
      /\ m[Len(l) + 1] = x /\ \A i \in 1 .. Len(l) : m[i] = l[i]
    BY AppendProperties
<1> HIDE DEF m
<1>2. CASE e = x
    <2>1. LastIn(m, e) = Len(l) + 1
        BY <1>1, <1>2, LastInIs
    <2> QED
        BY <1>2, <2>1 DEF m
<1>3. CASE e # x
    <2> DEFINE i == LastIn(l, e)
    <2>1. /\ i \in 0 .. Len(l)
          /\ i = 0 \/ l[i] = e
          /\ \A j \in i + 1 .. Len(l) : l[j] # e
        BY LastInExists
    <2> HIDE DEF i
    <2>2. /\ i \in 0 .. Len(m)
          /\ i = 0 \/ m[i] = e
          /\ \A j \in i + 1 .. Len(m) : m[j] # e
        BY <1>1, <1>3, <2>1
    <2>3. LastIn(m, e) = i
        BY <1>1, <2>2, LastInIs
    <2> QED
        BY <1>3, <2>3 DEF i, m
<1> QED
    BY <1>2, <1>3

LEMMA LastChangeIs ==
    /\ \A e : LastChange(e) = LastIn(log, e)
    /\ \A e : LastChange(e)' = LastIn(log', e)
BY DEF LastChange, LastIn, State

-----------------------------------------------------------------------------
(* The pages of Email/query.                                               *)

\* Every place of the mailbox after the first page is on one of the others.
LEMMA PositionsCover ==
    ASSUME NEW q \in Nat \ {0}, NEW first \in Nat, NEW total \in Nat, NEW i \in first + 1 .. total
    PROVE  \E p \in {p \in first .. total - 1 : (p - first) % q = 0} : i \in p + 1 .. p + q
<1> DEFINE x == i - 1 - first
           k == x \div q
<1>1. x \in Nat
    OBVIOUS
<1>2. k \in Nat /\ x = q * k + (x % q) /\ x % q \in 0 .. q - 1
    BY <1>1
<1>3. (q * k) % q = 0 /\ q * k \in Nat
    BY <1>2
<1> HIDE DEF k
<1> DEFINE p == first + q * k
<1>4. p \in first .. total - 1 /\ p - first = q * k /\ i \in p + 1 .. p + q
    BY <1>2, <1>3
<1>5. (p - first) % q = 0
    BY <1>3, <1>4
<1> HIDE DEF p
<1> QED
    BY <1>4, <1>5

-----------------------------------------------------------------------------
(* The steps of the server.                                                *)

LEMMA RemoveAtElements ==
    ASSUME NEW S, NEW s \in Seq(S), NEW i \in 1 .. Len(s)
    PROVE  /\ RemoveAt(s, i) \in Seq(S)
           /\ ToSet(RemoveAt(s, i)) \subseteq ToSet(s)
           /\ ToSet(s) \subseteq ToSet(RemoveAt(s, i)) \cup {s[i]}
<1> DEFINE a == SubSeq(s, 1, i - 1)
           b == SubSeq(s, i + 1, Len(s))
           r == a \o b
<1>1. /\ Len(s) \in Nat /\ DOMAIN s = 1 .. Len(s) /\ \A j \in 1 .. Len(s) : s[j] \in S
    BY LenProperties, ElementOfSeq
<1>2. /\ a \in Seq(S) /\ Len(a) = i - 1
      /\ \A j \in 1 .. i - 1 : a[j] = s[j]
    <2>1. \A j \in 1 .. i - 1 : s[j] \in S
        BY <1>1
    <2> QED
        BY <1>1, <2>1, SubSeqProperties
<1>3. /\ b \in Seq(S) /\ Len(b) = Len(s) - i
      /\ \A j \in 1 .. Len(s) - i : b[j] = s[i + j]
    <2>1. \A j \in i + 1 .. Len(s) : s[j] \in S
        BY <1>1
    <2>2. /\ b \in Seq(S)
          /\ Len(b) = IF i + 1 <= Len(s) THEN Len(s) - (i + 1) + 1 ELSE 0
          /\ \A j \in 1 .. Len(s) - (i + 1) + 1 : b[j] = s[(i + 1) + j - 1]
        <3> HIDE DEF b
        <3> QED
            BY <1>1, <2>1, SubSeqProperties DEF b
    <2> HIDE DEF b
    <2>3. /\ Len(s) - (i + 1) + 1 = Len(s) - i
          /\ (IF i + 1 <= Len(s) THEN Len(s) - (i + 1) + 1 ELSE 0) = Len(s) - i
        <3>1. Len(s) \in Nat /\ i \in 1 .. Len(s)
            BY <1>1
        <3> QED
            BY <3>1
    <2>4. ASSUME NEW j \in 1 .. Len(s) - i PROVE b[j] = s[i + j]
        <3>1. (i + 1) + j - 1 = i + j
            BY <1>1
        <3> QED
            BY <2>2, <2>3, <3>1
    <2> QED
        BY <2>2, <2>3, <2>4
<1> HIDE DEF a, b
<1>4. /\ r \in Seq(S) /\ Len(r) = Len(s) - 1
      /\ \A j \in 1 .. Len(s) - 1 : r[j] = IF j < i THEN s[j] ELSE s[j + 1]
    <2>1. /\ r \in Seq(S) /\ Len(r) = Len(a) + Len(b)
          /\ \A j \in 1 .. Len(a) + Len(b) : r[j] = IF j <= Len(a) THEN a[j] ELSE b[j - Len(a)]
        BY <1>2, <1>3, ConcatProperties
    <2> HIDE DEF r
    <2>2. ASSUME NEW j \in 1 .. Len(s) - 1 PROVE r[j] = IF j < i THEN s[j] ELSE s[j + 1]
        <3> j \in 1 .. Len(a) + Len(b)
            BY <1>1, <1>2, <1>3
        <3>1. CASE j < i
            <4>1. j <= Len(a) /\ j \in 1 .. i - 1
                BY <1>1, <1>2, <3>1
            <4> QED
                BY <1>2, <2>1, <3>1, <4>1
        <3>2. CASE j >= i
            <4>1. ~ (j <= Len(a)) /\ j - Len(a) \in 1 .. Len(s) - i /\ i + (j - Len(a)) = j + 1
                BY <1>1, <1>2, <3>2
            <4>2. r[j] = b[j - Len(a)] /\ b[j - Len(a)] = s[j + 1]
                BY <1>3, <2>1, <4>1
            <4> QED
                BY <3>2, <4>2
        <3> QED
            BY <1>1, <3>1, <3>2
    <2> QED
        BY <1>1, <1>2, <1>3, <2>1, <2>2
<1>5. r = RemoveAt(s, i)
    BY DEF r, a, b, RemoveAt
<1> HIDE DEF r
<1>6. DOMAIN r = 1 .. Len(s) - 1
    BY <1>4, LenProperties
<1>7. ASSUME NEW j \in 1 .. Len(s), j # i PROVE s[j] \in ToSet(r)
    <2>1. CASE j < i
        BY <1>1, <1>4, <1>6, <2>1 DEF ToSet
    <2>2. CASE j > i
        <3>1. j - 1 \in 1 .. Len(s) - 1 /\ ~ (j - 1 < i) /\ (j - 1) + 1 = j
            BY <1>1, <2>2
        <3> QED
            BY <1>1, <1>4, <1>6, <3>1 DEF ToSet
    <2> QED
        BY <1>1, <1>7, <2>1, <2>2
<1>8. ASSUME NEW j \in 1 .. Len(s) - 1 PROVE r[j] \in ToSet(s)
    <2>1. j \in 1 .. Len(s) /\ j + 1 \in 1 .. Len(s)
        BY <1>1
    <2>2. s[j] \in ToSet(s) /\ s[j + 1] \in ToSet(s)
        BY <1>1, <2>1 DEF ToSet
    <2> QED
        BY <1>4, <2>2
<1> QED
    BY <1>1, <1>4, <1>5, <1>6, <1>7, <1>8 DEF ToSet

LEMMA HeadElements ==
    ASSUME NEW S, NEW s \in Seq(S), NEW e \in S
    PROVE  /\ <<e>> \o s \in Seq(S)
           /\ ToSet(<<e>> \o s) = {e} \cup ToSet(s)
<1> DEFINE r == <<e>> \o s
<1>1. <<e>> \in Seq(S) /\ Len(<<e>>) = 1 /\ <<e>>[1] = e
    OBVIOUS
<1>2. /\ r \in Seq(S) /\ Len(r) = Len(s) + 1
      /\ \A i \in 1 .. Len(s) + 1 : r[i] = IF i <= 1 THEN e ELSE s[i - 1]
    <2>1. /\ r \in Seq(S) /\ Len(r) = Len(<<e>>) + Len(s)
          /\ \A i \in 1 .. Len(<<e>>) + Len(s) :
                r[i] = IF i <= Len(<<e>>) THEN <<e>>[i] ELSE s[i - Len(<<e>>)]
        BY <1>1, ConcatProperties
    <2>2. \A i \in 1 .. Len(s) + 1 : i <= 1 => i = 1
        BY LenProperties
    <2> HIDE DEF r
    <2> QED
        BY <1>1, <2>1, <2>2, LenProperties
<1> HIDE DEF r
<1>3. Len(s) \in Nat /\ DOMAIN s = 1 .. Len(s) /\ DOMAIN r = 1 .. Len(s) + 1
    BY <1>2, LenProperties
<1>4. ToSet(r) \subseteq {e} \cup ToSet(s)
    BY <1>2, <1>3 DEF ToSet
<1>5. e \in ToSet(r)
    BY <1>2, <1>3 DEF ToSet
<1>6. ASSUME NEW i \in 1 .. Len(s) PROVE s[i] \in ToSet(r)
    <2>1. i + 1 \in 1 .. Len(s) + 1 /\ ~ (i + 1 <= 1) /\ (i + 1) - 1 = i
        BY <1>3
    <2> QED
        BY <1>2, <1>3, <2>1 DEF ToSet
<1> QED
    BY <1>2, <1>3, <1>4, <1>5, <1>6 DEF ToSet, r

\* Only the email it is about is another one after a step of the server.
LEMMA ServerTick ==
    ASSUME PInv, NEW e \in Emails, Deliver(e) \/ Change(e) \/ Destroy(e)
    PROVE  /\ log' \in Seq(Emails) /\ box' \in Seq(Emails) /\ Live' \subseteq Emails
           /\ State' = State + 1 /\ State \in Nat /\ Len(log) < MaxChanges
           /\ LastChange(e)' = State + 1
           /\ \A x \in Emails \ {e} : /\ LastChange(x)' = LastChange(x)
                                      /\ x \in Live' <=> x \in Live
           /\ \A x \in destroyed : x \notin Live'
           /\ oldest' = oldest /\ ServerUnchanged /\ ServerMayAct
<1>1. /\ log' = Append(log, e) /\ oldest' = oldest /\ ServerUnchanged /\ ServerMayAct
      /\ log \in Seq(Emails) /\ box \in Seq(Emails) /\ Live \subseteq Emails
      /\ destroyed \subseteq Emails
    BY DEF Deliver, Change, Destroy, PInv, PTypeOK, Phases
<1>2. /\ log' \in Seq(Emails) /\ State' = State + 1 /\ State \in Nat /\ Len(log) < MaxChanges
    BY <1>1, AppendProperties, LenProperties DEF State, ServerMayAct
<1>3. LastChange(e)' = State + 1 /\ \A x \in Emails \ {e} : LastChange(x)' = LastChange(x)
    BY <1>1, LastInAppend, LastChangeIs DEF State
<1>4. CASE Deliver(e)
    <2>1. box' \in Seq(Emails) /\ Live' = {e} \cup Live /\ LastChange(e) = 0
        BY <1>1, <1>4, HeadElements DEF Deliver, Live
    <2>2. e \notin destroyed
        BY <1>1, <2>1 DEF PInv, Gone
    <2> QED
        BY <1>1, <1>2, <1>3, <2>1, <2>2 DEF PInv, Gone
<1>5. CASE Change(e)
    <2>1. box' = box /\ Live' = Live
        BY <1>5 DEF Change, Live
    <2> QED
        BY <1>1, <1>2, <1>3, <2>1 DEF PInv, Gone
<1>6. CASE Destroy(e)
    <2>1. PICK i \in DOMAIN box : box[i] = e /\ box' = RemoveAt(box, i)
        BY <1>6 DEF Destroy
    <2>2. i \in 1 .. Len(box)
        BY <1>1, LenProperties
    <2>3. box' \in Seq(Emails) /\ Live' \subseteq Live /\ Live \subseteq Live' \cup {e}
        BY <1>1, <2>1, <2>2, RemoveAtElements DEF Live
    <2> QED
        BY <1>1, <1>2, <1>3, <2>3 DEF PInv, Gone
<1> QED
    BY <1>4, <1>5, <1>6

LEMMA LastChangeType ==
    ASSUME PInv
    PROVE  State \in Nat /\ \A e : LastChange(e) \in 0 .. State
<1>1. log \in Seq(Emails)
    BY DEF PInv, PTypeOK
<1> QED
    BY <1>1, LastInExists, LastChangeIs, LenProperties DEF State

LEMMA Still ==
    ASSUME UNCHANGED <<box, log>>
    PROVE  State' = State /\ Live' = Live /\ \A e : LastChange(e)' = LastChange(e)
BY DEF State, Live, LastChange

LEMMA ServerKeeps ==
    ASSUME PInv, Server
    PROVE  PInv'
<1>1. ASSUME NEW e \in Emails, Deliver(e) \/ Change(e) \/ Destroy(e)
      PROVE  PInv'
    <2>1. /\ log' \in Seq(Emails) /\ box' \in Seq(Emails) /\ Live' \subseteq Emails
          /\ State' = State + 1 /\ State \in Nat /\ Len(log) < MaxChanges
          /\ LastChange(e)' = State + 1
          /\ \A x \in Emails \ {e} : /\ LastChange(x)' = LastChange(x)
                                     /\ x \in Live' <=> x \in Live
          /\ \A x \in destroyed : x \notin Live'
          /\ oldest' = oldest /\ ServerUnchanged /\ (Quiet => ~Listing)
        BY <1>1, ServerTick DEF ServerMayAct, Quiet
    <2>2. \A x : LastChange(x) \in 0 .. State
        BY LastChangeType
    <2>3. /\ cursor' = cursor /\ phase' = phase /\ at' = at /\ pages' = pages /\ ids' = ids
          /\ destroyed' = destroyed /\ got' = got /\ new_state' = new_state /\ mirror' = mirror
          /\ dropped' = dropped /\ have' = have /\ want' = want /\ status' = status
        BY <2>1 DEF ServerUnchanged, fetchvars, tvars
    <2>4. Listing' = Listing /\ GotEmails' = GotEmails /\ Horizon' = Horizon
        BY <2>3 DEF Listing, GotEmails, Horizon
    <2>5. PTypeOK'
        BY <2>1, <2>3 DEF PInv, PTypeOK
    <2>6. Phases'
        <3>1. Len(log') <= MaxChanges
            BY <2>1, PageAssumption DEF State
        <3> QED
            BY <2>1, <2>3, <2>4, <3>1 DEF PInv, Phases, Listing, PTypeOK
    <2>7. /\ cursor \in NoState .. State /\ new_state \in 0 .. State
          /\ phase = "changes" => at \in 0 .. State
          /\ ids \subseteq Emails /\ destroyed \subseteq Emails /\ GotEmails \subseteq Emails
          /\ have \subseteq Emails
        BY DEF PInv, PTypeOK, Phases, GotEmails, NoState
    <2>8. Quiet => Remembered'
        BY <2>1, <2>2, <2>3, <2>7 DEF PInv, Remembered, Known, NoState
    <2>9. InHand'
        BY <2>1, <2>2, <2>3, <2>4, <2>7 DEF PInv, InHand, NoState
    <2>10. Gone'
        BY <2>1, <2>2, <2>3, <2>7 DEF PInv, Gone
    <2>11. Quiet => Fresh'
        <3> HAVE Quiet
        <3>1. \A g \in got : g[1] \in Emails
            BY DEF PInv, PTypeOK
        <3> QED
            BY <2>1, <2>2, <2>3, <2>7, <3>1 DEF PInv, Fresh, Listing
    <2>12. Quiet => Fetched'
        BY <2>1, <2>2, <2>3, <2>4, <2>7 DEF PInv, Fetched, Fetching, Known, Horizon
    <2>13. Quiet => Listed'
        BY <2>1, <2>3 DEF Listed, Listing
    <2>14. Quiet => Stored'
        BY <2>1, <2>2, <2>3, <2>4, <2>7 DEF PInv, Stored, Storing
    <2>15. Swept'
        BY <2>1, <2>2, <2>3, <2>4, <2>7 DEF PInv, Swept, Storing, Fetching, Horizon
    <2> QED
        BY <2>5, <2>6, <2>8, <2>9, <2>10, <2>11, <2>12, <2>13, <2>14, <2>15 DEF PInv
<1>2. ASSUME Forget PROVE PInv'
    <2>1. /\ State' = State /\ Live' = Live /\ (\A e : LastChange(e)' = LastChange(e))
          /\ State \in Nat
        BY <1>2, Still, LastChangeType DEF Forget
    <2>2. /\ cursor' = cursor /\ phase' = phase /\ at' = at /\ pages' = pages /\ ids' = ids
          /\ destroyed' = destroyed /\ got' = got /\ new_state' = new_state /\ mirror' = mirror
          /\ dropped' = dropped /\ have' = have /\ want' = want /\ status' = status
          /\ oldest' = State /\ box' = box /\ log' = log
        BY <1>2 DEF Forget, ServerUnchanged, fetchvars, tvars
    <2>3. GotEmails' = GotEmails /\ Horizon' = Horizon /\ (Listing' <=> Listing)
        BY <2>2 DEF GotEmails, Horizon, Listing
    <2>4. PTypeOK' /\ Phases'
        BY <2>1, <2>2, <2>3 DEF PInv, PTypeOK, Phases
    <2>5. InHand' /\ Gone' /\ (Quiet => Remembered' /\ Fresh' /\ Fetched')
        BY <2>1, <2>2, <2>3
        DEF PInv, Remembered, InHand, Gone, Fresh, Fetched, Fetching, Known
    <2>6. Swept' /\ (Quiet => Listed' /\ Stored')
        BY <2>1, <2>2, <2>3 DEF PInv, Listed, Stored, Swept, Storing, Fetching
    <2> QED
        BY <2>4, <2>5, <2>6 DEF PInv
<1> QED
    BY <1>1, <1>2 DEF Server

-----------------------------------------------------------------------------
(* The steps of a cycle: none of them changes the mailbox.                 *)

LEMMA FetchKeeps ==
    ASSUME PInv, fetch_remote_state
    PROVE  PInv'
<1>1. /\ State' = State /\ Live' = Live /\ (\A e : LastChange(e)' = LastChange(e))
      /\ State \in Nat /\ \A e : LastChange(e) \in 0 .. State
    BY Still, LastChangeType DEF fetch_remote_state, PullUnchanged, servervars
<1>2. /\ phase = "idle" /\ phase' = IF cursor = NoState THEN "query" ELSE "changes"
      /\ at' = cursor /\ pages' = {} /\ ids' = {} /\ destroyed' = {} /\ got' = {}
      /\ new_state' = new_state /\ box' = box /\ log' = log /\ oldest' = oldest
      /\ cursor' = cursor /\ mirror' = mirror /\ dropped' = dropped
      /\ want' = want /\ have' = have /\ status' = status
    BY DEF fetch_remote_state, PullUnchanged, servervars, tvars
<1>3. cursor \in NoState .. State
    BY DEF PInv, PTypeOK
<1>4. GotEmails' = {}
    BY <1>2 DEF GotEmails
<1>5. PTypeOK'
    BY <1>1, <1>2 DEF PInv, PTypeOK
<1>6. Phases'
    BY <1>1, <1>2, <1>3 DEF PInv, Phases, Listing, NoState
<1>7. Quiet => Remembered'
    BY <1>1, <1>2 DEF PInv, Remembered, Known
<1>8. InHand' /\ Gone' /\ (Quiet => Fresh')
    BY <1>2, <1>4 DEF InHand, Gone, Fresh
<1>9. Quiet => Fetched'
    BY <1>1, <1>2, <1>3, <1>7 DEF Fetched, Fetching, Remembered, Known, Horizon
<1>10. Quiet => Listed' /\ Stored'
    BY <1>2 DEF Listed, Stored, Storing
<1>11. Swept'
    <2>1. ASSUME phase' = "changes" PROVE Horizon' = cursor
        BY <1>2, <2>1 DEF Horizon
    <2>2. \A x \in Int : x \notin cursor + 1 .. cursor
        BY <1>1, <1>3 DEF NoState
    <2> QED
        BY <1>1, <1>2, <2>1, <2>2 DEF Swept, Storing, Fetching
<1> QED
    BY <1>5, <1>6, <1>7, <1>8, <1>9, <1>10, <1>11 DEF PInv

\* An email that changed on a page is one the page names.
LEMMA PageOfChanges ==
    ASSUME PInv, NEW m \in Nat, NEW n \in 0 .. State, NEW e, LastChange(e) \in m + 1 .. n
    PROVE  e \in {log[i] : i \in m + 1 .. n}
<1>1. log \in Seq(Emails)
    BY DEF PInv, PTypeOK
<1>2. LastChange(e) = 0 \/ log[LastChange(e)] = e
    BY <1>1, LastInExists, LastChangeIs
<1> QED
    BY <1>2

LEMMA ChangesKeep ==
    ASSUME PInv, get_changes
    PROVE  PInv'
<1> DEFINE upto == IF at + ChangesPage < State THEN at + ChangesPage ELSE State
           changed == {log[i] : i \in at + 1 .. upto}
<1>1. /\ State' = State /\ Live' = Live /\ (\A e : LastChange(e)' = LastChange(e))
      /\ State \in Nat /\ \A e : LastChange(e) \in 0 .. State
    BY Still, LastChangeType DEF get_changes, PullUnchanged, servervars
<1>2. /\ phase = "changes" /\ phase' = IF upto < State THEN "changes" ELSE "get"
      /\ at' = upto /\ pages' = pages /\ ids' = ids \cup (changed \cap Live)
      /\ destroyed' = destroyed \cup (changed \ Live) /\ got' = got
      /\ new_state' = upto /\ box' = box /\ log' = log /\ oldest' = oldest
      /\ cursor' = cursor /\ mirror' = mirror /\ dropped' = dropped
      /\ want' = want /\ have' = have /\ status' = status
    BY DEF get_changes, PullUnchanged, servervars, tvars
<1>3. /\ cursor \in 0 .. State /\ at \in cursor .. State /\ got = {}
      /\ log \in Seq(Emails)
    BY <1>1, <1>2 DEF PInv, PTypeOK, Phases, NoState
<1>4. upto \in at .. State /\ upto \in Nat
    BY <1>1, <1>3, PageAssumption
<1>5. changed \subseteq Emails /\ \A e \in changed : LastChange(e) > at
    <2>1. ASSUME NEW i \in at + 1 .. upto PROVE log[i] \in Emails /\ LastChange(log[i]) > at
        <3>1. i \in 1 .. Len(log)
            BY <1>1, <1>3, <1>4 DEF State
        <3>2. log[i] \in Emails
            BY <1>3, <3>1, ElementOfSeq
        <3>3. \A j \in LastChange(log[i]) + 1 .. Len(log) : log[j] # log[i]
            BY <1>3, LastInExists, LastChangeIs
        <3> QED
            BY <1>1, <1>3, <1>4, <3>1, <3>2, <3>3
    <2> QED
        BY <2>1
<1>6. \A e : LastChange(e) \in at + 1 .. upto => e \in changed
    BY <1>1, <1>3, <1>4, PageOfChanges
<1> HIDE DEF upto, changed
<1>7. GotEmails = {} /\ GotEmails' = {} /\ Horizon = at /\ Horizon' = upto
    BY <1>2, <1>3 DEF GotEmails, Horizon
<1>8. PTypeOK'
    BY <1>1, <1>2, <1>4, <1>5 DEF PInv, PTypeOK
<1>9. Phases'
    BY <1>1, <1>2, <1>3, <1>4 DEF PInv, Phases, Listing
<1>10. Quiet => Remembered'
    BY <1>1, <1>2 DEF PInv, Remembered, Known
<1>11. InHand'
    BY <1>1, <1>2, <1>3, <1>5, <1>7 DEF PInv, InHand
<1>12. Gone'
    BY <1>1, <1>2, <1>3, <1>5 DEF PInv, Gone
<1>13. Quiet => Fresh' /\ Listed' /\ Stored'
    BY <1>2, <1>3 DEF Fresh, Listed, Stored, Storing
<1>14. Quiet => Fetched'
    <2> HAVE Quiet
    <2>1. ASSUME NEW e \in Live \ dropped, LastChange(e) <= upto
          PROVE  Known(e) \/ e \in ids'
        <3>1. CASE LastChange(e) <= at
            BY <1>2, <1>7, <3>1 DEF PInv, Fetched, Fetching
        <3>2. CASE LastChange(e) > at
            BY <1>1, <1>2, <1>3, <1>4, <1>6, <2>1, <3>2
        <3> QED
            BY <1>1, <1>3, <3>1, <3>2
    <2> QED
        BY <1>1, <1>2, <1>7, <2>1 DEF Fetched, Fetching, Known
<1>15. Swept'
    <2>1. ASSUME NEW e \in Emails \ Live, LastChange(e) \in cursor + 1 .. upto
          PROVE  e \in destroyed'
        <3>1. CASE LastChange(e) <= at
            BY <1>1, <1>2, <1>3, <1>7, <2>1, <3>1 DEF PInv, Swept, Fetching, NoState
        <3>2. CASE LastChange(e) > at
            BY <1>1, <1>2, <1>3, <1>4, <1>6, <2>1, <3>2
        <3> QED
            BY <1>1, <1>3, <3>1, <3>2
    <2> QED
        BY <1>1, <1>2, <1>7, <2>1 DEF Swept, Storing
<1> QED
    BY <1>8, <1>9, <1>10, <1>11, <1>12, <1>13, <1>14, <1>15 DEF PInv

LEMMA ResetKeeps ==
    ASSUME PInv, is_cannot_calculate_changes
    PROVE  PInv'
<1>1. /\ State' = State /\ Live' = Live /\ (\A e : LastChange(e)' = LastChange(e))
      /\ State \in Nat
    BY Still, LastChangeType DEF is_cannot_calculate_changes, servervars
<1>2. /\ phase = "changes" /\ phase' = "query" /\ cursor' = NoState
      /\ at' = 0 /\ pages' = pages /\ ids' = {} /\ destroyed' = {} /\ got' = got
      /\ new_state' = new_state /\ box' = box /\ log' = log /\ oldest' = oldest
      /\ mirror' = mirror /\ dropped' = dropped
      /\ want' = want /\ have' = have /\ status' = status
    BY DEF is_cannot_calculate_changes, servervars, tvars
<1>3. PTypeOK'
    BY <1>1, <1>2 DEF PInv, PTypeOK, NoState
<1>4. Phases'
    BY <1>1, <1>2 DEF PInv, Phases, Listing
<1> QED
    BY <1>2, <1>3, <1>4 DEF PInv, Remembered, InHand, Gone, Fresh, Fetched, Fetching, Listed, Stored,
        Storing, Swept

PageWidth == SmallerOf(QueryPage, ServerPage)

LEMMA PageAtIs ==
    ASSUME box \in Seq(Emails), NEW p \in Nat
    PROVE  /\ PageWidth \in Nat \ {0}
           /\ Len(PageAt(p)) \in Nat
           /\ \A i \in 1 .. Len(box) : i \in p + 1 .. p + PageWidth => box[i] \in ToSet(PageAt(p))
           /\ ToSet(PageAt(p)) \subseteq Emails
           /\ p <= Len(box) => /\ Len(PageAt(p)) = SmallerOf(Len(box) - p, PageWidth)
                               /\ PageAt(p) = <<>> => p = Len(box)
<1> DEFINE n == SmallerOf(Len(box), p + PageWidth)
           s == PageAt(p)
<1>1. PageWidth \in Nat \ {0}
    BY PageAssumption DEF PageWidth, SmallerOf
<1>2. Len(box) \in Nat /\ \A i \in 1 .. Len(box) : box[i] \in Emails
    BY LenProperties, ElementOfSeq
<1>3. n \in Nat /\ n <= Len(box) /\ n <= p + PageWidth /\ (n = Len(box) \/ n = p + PageWidth)
    BY <1>1, <1>2 DEF SmallerOf
<1>4. s = SubSeq(box, p + 1, n)
    BY DEF PageAt, PageWidth
<1> HIDE DEF n, s
<1>5. /\ s \in Seq(Emails)
      /\ Len(s) = IF p + 1 <= n THEN n - (p + 1) + 1 ELSE 0
      /\ \A i \in 1 .. n - (p + 1) + 1 : s[i] = box[(p + 1) + i - 1]
    <2>1. \A i \in p + 1 .. n : box[i] \in Emails
        BY <1>2, <1>3
    <2> QED
        BY <1>3, <1>4, <2>1, SubSeqProperties
<1>6. DOMAIN s = 1 .. Len(s) /\ Len(s) \in Nat /\ \A i \in 1 .. Len(s) : s[i] \in Emails
    BY <1>5, LenProperties, ElementOfSeq
<1>7. ASSUME NEW i \in 1 .. Len(box), i \in p + 1 .. p + PageWidth
      PROVE  box[i] \in ToSet(s)
    <2>1. i <= n /\ p + 1 <= n
        BY <1>1, <1>2, <1>3, <1>7
    <2>2. i - p \in 1 .. n - (p + 1) + 1 /\ (p + 1) + (i - p) - 1 = i /\ i - p \in 1 .. Len(s)
        BY <1>3, <1>5, <1>7, <2>1
    <2>3. s[i - p] = box[i]
        BY <1>5, <2>2
    <2> QED
        BY <1>6, <2>2, <2>3 DEF ToSet
<1>8. ToSet(s) \subseteq Emails
    BY <1>6 DEF ToSet
<1>9. ASSUME p <= Len(box)
      PROVE  /\ Len(s) = SmallerOf(Len(box) - p, PageWidth)
             /\ s = <<>> => p = Len(box)
    <2>1. Len(s) = SmallerOf(Len(box) - p, PageWidth)
        BY <1>1, <1>2, <1>3, <1>5, <1>9 DEF SmallerOf
    <2>2. ASSUME s = <<>> PROVE p = Len(box)
        <3>1. Len(s) = 0
            BY <2>2, EmptySeq
        <3> QED
            BY <1>1, <1>2, <1>9, <2>1, <3>1 DEF SmallerOf
    <2> QED
        BY <2>1, <2>2
<1> QED
    BY <1>1, <1>6, <1>7, <1>8, <1>9 DEF s

\* While the mailbox is listed only what is in hand of it grows.
LEMMA ListingKeeps ==
    ASSUME PInv, Listing, Listing', UNCHANGED <<servervars, cursor, mirror, dropped, tvars>>,
           destroyed' = {}, new_state' \in 0 .. State, PTypeOK', Phases',
           Quiet => Fresh' /\ Listed'
    PROVE  PInv'
<1>1. /\ State' = State /\ Live' = Live /\ (\A e : LastChange(e)' = LastChange(e))
    BY Still DEF servervars
<1>2. cursor' = cursor /\ mirror' = mirror /\ dropped' = dropped /\ have' = have
    BY DEF tvars
<1>3. cursor = NoState
    BY DEF PInv, Phases
<1>4. ~ Fetching' /\ ~ Storing'
    BY DEF Listing, Fetching, Storing
<1> QED
    BY <1>2, <1>3, <1>4
    DEF PInv, Remembered, InHand, Gone, Fetched, Stored, Swept, Storing

LEMMA ProbeKeeps ==
    ASSUME PInv, query_mailbox
    PROVE  PInv'
<1>1. PICK total \in Totals :
        /\ pages' = IF total THEN Positions(Len(PageAt(0)), Len(box)) ELSE {}
        /\ phase' = IF total THEN "page" ELSE "serial"
    BY DEF query_mailbox
<1>2. /\ State' = State /\ State \in Nat
    BY Still, LastChangeType DEF query_mailbox, PullUnchanged, servervars
<1>3. /\ phase = "query" /\ at' = Len(PageAt(0)) /\ ids' = ToSet(PageAt(0))
      /\ destroyed' = destroyed /\ got' = got
      /\ new_state' = new_state /\ box' = box /\ log' = log /\ oldest' = oldest
      /\ cursor' = cursor /\ mirror' = mirror /\ dropped' = dropped
      /\ want' = want /\ have' = have /\ status' = status
    BY DEF query_mailbox, PullUnchanged, servervars, tvars
<1>4. /\ box \in Seq(Emails) /\ Len(box) \in Nat /\ DOMAIN box = 1 .. Len(box)
    BY LenProperties DEF PInv, Phases
<1>5. PageWidth \in Nat \ {0} /\ (Quiet => PageWidth = QueryPage)
    BY PageAssumption DEF PageWidth, SmallerOf, Quiet
<1>6. /\ Len(PageAt(0)) \in Nat
      /\ \A i \in 1 .. Len(box) : i \in 1 .. PageWidth => box[i] \in ids'
      /\ ids' \subseteq Emails
      /\ Len(PageAt(0)) = SmallerOf(Len(box), PageWidth)
    <2>1. 0 \in Nat /\ 0 <= Len(box) /\ 0 + 1 = 1 /\ 0 + PageWidth = PageWidth
              /\ Len(box) - 0 = Len(box)
        BY <1>4, <1>5
    <2>2. /\ Len(PageAt(0)) \in Nat
          /\ \A i \in 1 .. Len(box) : i \in 0 + 1 .. 0 + PageWidth => box[i] \in ToSet(PageAt(0))
          /\ ToSet(PageAt(0)) \subseteq Emails
          /\ Len(PageAt(0)) = SmallerOf(Len(box) - 0, PageWidth)
        BY <1>4, <2>1, PageAtIs
    <2> QED
        BY <1>3, <1>5, <2>1, <2>2
<1>7. Len(PageAt(0)) <= Len(box) /\ Len(PageAt(0)) <= PageWidth
    BY <1>4, <1>5, <1>6 DEF SmallerOf
<1>8. Listing /\ Listing' /\ destroyed = {} /\ got = {} /\ cursor = NoState
    BY <1>1, <1>3 DEF Listing, PInv, Phases
<1>9. PTypeOK'
    BY <1>2, <1>3, <1>6, Still DEF PInv, PTypeOK, Live
<1>10. Phases'
    <2>1. pages' \subseteq Nat
        BY <1>1, <1>4, <1>6 DEF Positions
    <2> QED
        BY <1>1, <1>3, <1>4, <1>6, <1>7, <1>8, <2>1 DEF PInv, Phases, Listing
<1>11. Quiet => Fresh'
    BY <1>1 DEF Fresh
<1>12. Quiet => Listed'
    <2> HAVE Quiet
    <2> PageWidth = QueryPage /\ QueryPage \in Nat \ {0}
        BY <1>5
    <2>1. CASE total
        <3>1. ASSUME NEW i \in 1 .. Len(box)
              PROVE  box[i] \in ids' \/ \E p \in pages' : i \in p + 1 .. p + QueryPage
            <4>1. CASE i <= QueryPage
                BY <1>5, <1>6, <4>1
            <4>2. CASE i > QueryPage
                <5>1. i \in Len(PageAt(0)) + 1 .. Len(box)
                    BY <1>4, <1>5, <1>6, <1>7, <4>2
                <5>2. \E p \in {p \in Len(PageAt(0)) .. Len(box) - 1 :
                                    (p - Len(PageAt(0))) % QueryPage = 0} :
                            i \in p + 1 .. p + QueryPage
                    BY <1>4, <1>5, <1>6, <5>1, PositionsCover
                <5> QED
                    BY <1>1, <2>1, <5>2 DEF Positions
            <4> QED
                BY <1>5, <4>1, <4>2
        <3> QED
            BY <1>1, <1>3, <1>4, <2>1, <3>1 DEF Listed
    <2>2. CASE ~ total
        <3>1. at' <= Len(box') /\ \A i \in 1 .. at' : box'[i] \in ids'
            BY <1>3, <1>4, <1>5, <1>6, <1>7
        <3> QED
            BY <1>1, <2>2, <3>1 DEF Listed
    <2> QED
        BY <2>1, <2>2
<1> QED
    BY <1>3, <1>8, <1>9, <1>10, <1>11, <1>12, ListingKeeps
    DEF servervars, tvars, PInv, PTypeOK

LEMMA QueryPageKeeps ==
    ASSUME PInv, NEW position \in pages, query_page(position)
    PROVE  PInv'
<1>1. /\ State' = State /\ Live' = Live /\ State \in Nat
    BY Still, LastChangeType DEF query_page, PullUnchanged, servervars
<1>2. /\ phase = "page" /\ phase' = "page" /\ at' = at
      /\ pages' = pages \ {position} /\ ids' = ids \cup ToSet(PageAt(position))
      /\ destroyed' = destroyed /\ got' = got
      /\ new_state' = new_state /\ box' = box /\ log' = log /\ oldest' = oldest
      /\ cursor' = cursor /\ mirror' = mirror /\ dropped' = dropped
      /\ want' = want /\ have' = have /\ status' = status
    BY DEF query_page, PullUnchanged, servervars, tvars
<1>3. /\ box \in Seq(Emails) /\ DOMAIN box = 1 .. Len(box) /\ position \in Nat /\ pages \subseteq Nat
    BY <1>2, LenProperties DEF PInv, Phases
<1>4. PageWidth \in Nat \ {0} /\ (Quiet => PageWidth = QueryPage)
    BY PageAssumption DEF PageWidth, SmallerOf, Quiet
<1>5. /\ \A i \in 1 .. Len(box) : i \in position + 1 .. position + PageWidth => box[i] \in ids'
      /\ ids' \subseteq Emails
    <2>1. ids \subseteq Emails
        BY DEF PInv, PTypeOK
    <2> QED
        BY <1>2, <1>3, <1>4, <2>1, PageAtIs
<1>6. Listing /\ Listing' /\ destroyed = {}
    BY <1>2 DEF Listing, PInv, Phases
<1>7. PTypeOK'
    BY <1>1, <1>2, <1>5 DEF PInv, PTypeOK
<1>8. Phases'
    BY <1>1, <1>2, <1>6 DEF PInv, Phases, Listing
<1>9. Quiet => Listed'
    <2> HAVE Quiet
    <2>1. ASSUME NEW i \in 1 .. Len(box)
          PROVE  box[i] \in ids' \/ \E p \in pages' : i \in p + 1 .. p + QueryPage
        <3>1. box[i] \in ids \/ \E p \in pages : i \in p + 1 .. p + QueryPage
            BY <1>2, <1>3 DEF PInv, Listed
        <3> QED
            BY <1>2, <1>4, <1>5, <3>1
    <2> QED
        BY <1>2, <1>3, <2>1 DEF Listed
<1>10. Quiet => Fresh'
    BY <1>2 DEF Fresh
<1> QED
    BY <1>2, <1>6, <1>7, <1>8, <1>9, <1>10, ListingKeeps
    DEF servervars, tvars, PInv, PTypeOK

\* A listed mailbox is in hand: no row was fetched yet.
LEMMA PagesDoneKeeps ==
    ASSUME PInv, PagesDone
    PROVE  PInv'
<1>1. /\ State' = State /\ Live' = Live /\ State \in Nat
    BY Still, LastChangeType DEF PagesDone, PullUnchanged, servervars
<1>2. /\ phase = "page" /\ phase' = "get-all" /\ at' = at /\ pages = {} /\ pages' = pages
      /\ ids' = ids /\ destroyed' = destroyed /\ got' = got
      /\ new_state' = new_state /\ box' = box /\ log' = log /\ oldest' = oldest
      /\ cursor' = cursor /\ mirror' = mirror /\ dropped' = dropped
      /\ want' = want /\ have' = have /\ status' = status
    BY DEF PagesDone, PullUnchanged, fetchvars, servervars, tvars
<1>3. Listing /\ Listing' /\ destroyed = {} /\ got = {}
    BY <1>2 DEF Listing, PInv, Phases
<1>4. PTypeOK'
    BY <1>1, <1>2 DEF PInv, PTypeOK
<1>5. Phases'
    BY <1>1, <1>2, <1>3 DEF PInv, Phases, Listing
<1>6. Quiet => Live \subseteq ids
    BY <1>2 DEF PInv, Listed, Live, ToSet
<1>7. Quiet => Listed' /\ Fresh'
    BY <1>1, <1>2, <1>3, <1>6 DEF Listed, Fresh
<1> QED
    BY <1>2, <1>3, <1>4, <1>5, <1>7, ListingKeeps
    DEF servervars, tvars, PInv, PTypeOK

LEMMA SerialKeeps ==
    ASSUME PInv, SerialPage
    PROVE  PInv'
<1>1. /\ State' = State /\ Live' = Live /\ State \in Nat
    BY Still, LastChangeType DEF SerialPage, PullUnchanged, servervars
<1>2. /\ phase = "serial" /\ phase' = IF PageAt(at) = <<>> THEN "get-all" ELSE "serial"
      /\ at' = at + Len(PageAt(at)) /\ pages' = pages /\ ids' = ids \cup ToSet(PageAt(at))
      /\ destroyed' = destroyed /\ got' = got
      /\ new_state' = new_state /\ box' = box /\ log' = log /\ oldest' = oldest
      /\ cursor' = cursor /\ mirror' = mirror /\ dropped' = dropped
      /\ want' = want /\ have' = have /\ status' = status
    BY DEF SerialPage, PullUnchanged, servervars, tvars
<1>3. /\ box \in Seq(Emails) /\ DOMAIN box = 1 .. Len(box) /\ Len(box) \in Nat
      /\ at \in Nat /\ got = {} /\ destroyed = {} /\ ids \subseteq Emails
    BY <1>2, LenProperties DEF PInv, PTypeOK, Phases, Listing
<1>4. ToSet(PageAt(at)) \subseteq Emails /\ Len(PageAt(at)) \in Nat /\ PageWidth \in Nat \ {0}
    BY <1>3, PageAtIs
<1>5. Listing /\ Listing'
    BY <1>2 DEF Listing
<1>6. PTypeOK'
    BY <1>1, <1>2, <1>3, <1>4 DEF PInv, PTypeOK
<1>7. Phases'
    BY <1>1, <1>2, <1>3, <1>4 DEF PInv, Phases, Listing
<1>8. Quiet => Fresh' /\ Listed'
    <2> HAVE Quiet
    <2>1. at <= Len(box) /\ \A i \in 1 .. at : box[i] \in ids
        BY <1>2 DEF PInv, Listed
    <2>2. /\ \A i \in 1 .. Len(box) : i \in at + 1 .. at + PageWidth => box[i] \in ids'
          /\ Len(PageAt(at)) = SmallerOf(Len(box) - at, PageWidth)
          /\ PageAt(at) = <<>> => at = Len(box)
        BY <1>2, <1>3, <2>1, PageAtIs
    <2>3. at' \in at .. Len(box) /\ at' <= at + PageWidth
        <3>1. at' = at + SmallerOf(Len(box) - at, PageWidth)
            BY <1>2, <2>2
        <3> QED
            BY <1>3, <1>4, <2>1, <3>1 DEF SmallerOf
    <2>4. ASSUME NEW i \in 1 .. at' PROVE box[i] \in ids'
        <3>1. CASE i <= at
            BY <1>2, <1>3, <2>1, <3>1
        <3>2. CASE i > at
            <4>1. i \in 1 .. Len(box) /\ i \in at + 1 .. at + PageWidth
                BY <1>3, <1>4, <2>3, <3>2
            <4> QED
                BY <2>2, <4>1
        <3> QED
            BY <1>3, <2>3, <3>1, <3>2
    <2>5. CASE PageAt(at) = <<>>
        <3>1. Live \subseteq ids'
            BY <1>2, <1>3, <2>1, <2>2, <2>5 DEF Live, ToSet
        <3> QED
            BY <1>1, <1>2, <1>3, <2>5, <3>1 DEF Listed, Fresh
    <2>6. CASE PageAt(at) # <<>>
        BY <1>2, <1>3, <2>3, <2>4, <2>6 DEF Listed, Fresh
    <2> QED
        BY <2>5, <2>6
<1> QED
    BY <1>2, <1>3, <1>5, <1>6, <1>7, <1>8, ListingKeeps
    DEF servervars, tvars, PInv, PTypeOK

\* A row that parses is in hand, one that does not is dropped.
LEMMA GetKeeps ==
    ASSUME PInv, NEW chunk \in SUBSET ids, NEW garbled \in SUBSET (chunk \cap Garbles),
           get_by_ids(chunk, garbled)
    PROVE  PInv'
<1> DEFINE parsed == (chunk \cap Live) \ garbled
<1>1. /\ State' = State /\ Live' = Live /\ (\A e : LastChange(e)' = LastChange(e))
      /\ State \in Nat /\ \A e : LastChange(e) \in 0 .. State
    BY Still, LastChangeType DEF get_by_ids, servervars
<1>2. /\ phase \in {"get", "get-all"} /\ phase' = phase /\ at' = at /\ pages' = pages
      /\ ids' = ids \ chunk
      /\ got' = got \cup {<<e, LastChange(e)>> : e \in parsed}
      /\ dropped' = (dropped \ parsed) \cup (chunk \cap Live \cap garbled)
      /\ destroyed' = destroyed
      /\ new_state' = new_state /\ box' = box /\ log' = log /\ oldest' = oldest
      /\ cursor' = cursor /\ mirror' = mirror
      /\ want' = want /\ have' = have /\ status' = status
    BY DEF get_by_ids, partition, servervars, tvars
<1>3. parsed \subseteq ids /\ ids \subseteq Emails /\ garbled \subseteq Garbles
    BY DEF PInv, PTypeOK
<1>4. \A e \in Live \ dropped' :
        \/ e \in Live \ dropped /\ e \notin chunk
        \/ e \in parsed
    BY <1>2
<1> HIDE DEF parsed
<1>5. GotEmails' = GotEmails \cup parsed /\ GotEmails \subseteq Emails
    <2>1. \A e \in parsed : <<e, LastChange(e)>>[1] = e
        OBVIOUS
    <2>2. GotEmails' = GotEmails \cup {<<e, LastChange(e)>>[1] : e \in parsed}
        BY <1>2 DEF GotEmails
    <2>3. GotEmails \subseteq Emails
        BY DEF GotEmails, PInv, PTypeOK
    <2> QED
        BY <2>1, <2>2, <2>3
<1>6. PTypeOK'
    <2>1. got' \subseteq Emails \X (0 .. State)
        BY <1>1, <1>2, <1>3 DEF PInv, PTypeOK
    <2> QED
        BY <1>1, <1>2, <1>3, <2>1 DEF PInv, PTypeOK
<1>7. Phases'
    BY <1>1, <1>2 DEF PInv, Phases, Listing
<1>8. Quiet => Remembered'
    <2> HAVE Quiet
    <2>1. ASSUME cursor # NoState, NEW e \in parsed PROVE LastChange(e) > cursor
        BY <1>2, <1>3, <2>1 DEF PInv, InHand
    <2>2. cursor \in NoState .. State
        BY DEF PInv, PTypeOK
    <2>3. ASSUME cursor # NoState, NEW e \in Live \ dropped', LastChange(e) <= cursor
          PROVE  Known(e)
        <3>1. e \notin parsed
            BY <1>1, <2>1, <2>2, <2>3 DEF NoState
        <3> QED
            BY <1>4, <2>3, <3>1 DEF PInv, Remembered
    <2> QED
        BY <1>1, <1>2, <2>3 DEF Remembered, Known
<1>9. InHand' /\ Gone'
    BY <1>1, <1>2, <1>3, <1>5 DEF PInv, InHand, Gone
<1>10. Quiet => Fresh'
    <2> HAVE Quiet
    <2>1. \A g \in got' : g \in got \/ g[2] = LastChange(g[1])
        BY <1>2
    <2> QED
        BY <1>1, <1>2, <2>1 DEF PInv, Fresh
<1>11. Quiet => Fetched'
    BY <1>1, <1>2, <1>4, <1>5 DEF PInv, Fetched, Fetching, Known, Horizon
<1>12. Quiet => Listed'
    BY <1>1, <1>2, <1>4, <1>5 DEF PInv, Listed
<1>13. Quiet => Stored'
    BY <1>2 DEF Stored, Storing
<1>14. Swept'
    BY <1>1, <1>2 DEF PInv, Swept, Fetching, Storing, Horizon
<1> QED
    BY <1>6, <1>7, <1>8, <1>9, <1>10, <1>11, <1>12, <1>13, <1>14 DEF PInv

LEMMA GetDoneKeeps ==
    ASSUME PInv, GetDone
    PROVE  PInv'
<1>1. /\ State' = State /\ Live' = Live /\ (\A e : LastChange(e)' = LastChange(e))
      /\ State \in Nat
    BY Still, LastChangeType DEF GetDone, PullUnchanged, servervars
<1>2. /\ phase \in {"get", "get-all"} /\ ids = {}
      /\ phase' = IF phase = "get" THEN "apply" ELSE "state"
      /\ at' = at /\ pages' = pages /\ ids' = ids /\ destroyed' = destroyed /\ got' = got
      /\ new_state' = new_state /\ box' = box /\ log' = log /\ oldest' = oldest
      /\ cursor' = cursor /\ mirror' = mirror /\ dropped' = dropped
      /\ want' = want /\ have' = have /\ status' = status
    BY DEF GetDone, PullUnchanged, fetchvars, servervars, tvars
<1>3. GotEmails' = GotEmails
    BY <1>2 DEF GotEmails
<1>4. PTypeOK' /\ Phases'
    BY <1>1, <1>2 DEF PInv, PTypeOK, Phases, Listing
<1>5. InHand' /\ Gone' /\ (Quiet => Remembered')
    BY <1>1, <1>2, <1>3 DEF PInv, Remembered, InHand, Gone, Known
<1>6. Quiet => Fresh' /\ Fetched'
    BY <1>1, <1>2, <1>3 DEF PInv, Fresh, Fetched, Fetching, Known, Horizon
<1>7. Swept' /\ (Quiet => Listed' /\ Stored')
    BY <1>1, <1>2, <1>3 DEF PInv, Listed, Stored, Swept, Fetching, Storing, Horizon
<1> QED
    BY <1>4, <1>5, <1>6, <1>7 DEF PInv

\* The state is fetched last, and the mailbox did not move since it was listed.
LEMMA StateKeeps ==
    ASSUME PInv, get_current_state
    PROVE  PInv'
<1>1. /\ State' = State /\ Live' = Live /\ (\A e : LastChange(e)' = LastChange(e))
      /\ State \in Nat
    BY Still, LastChangeType DEF get_current_state, PullUnchanged, servervars
<1>2. /\ phase = "state" /\ phase' = "apply"
      /\ at' = at /\ pages' = pages /\ ids' = ids /\ destroyed' = destroyed /\ got' = got
      /\ new_state' = State /\ box' = box /\ log' = log /\ oldest' = oldest
      /\ cursor' = cursor /\ mirror' = mirror /\ dropped' = dropped
      /\ want' = want /\ have' = have /\ status' = status
    BY DEF get_current_state, PullUnchanged, servervars, tvars
<1>3. GotEmails' = GotEmails /\ cursor = NoState /\ ids = {} /\ destroyed = {}
    BY <1>2 DEF GotEmails, PInv, Phases, Listing
<1>4. PTypeOK' /\ Phases'
    BY <1>1, <1>2, <1>3 DEF PInv, PTypeOK, Phases, Listing
<1>5. InHand' /\ Gone' /\ Swept' /\ (Quiet => Remembered' /\ Listed' /\ Stored')
    BY <1>2, <1>3 DEF Remembered, InHand, Gone, Listed, Stored, Swept, Fetching, Storing
<1>6. Quiet => Fresh' /\ Fetched'
    BY <1>1, <1>2, <1>3 DEF PInv, Fresh, Listed, Fetched
<1> QED
    BY <1>4, <1>5, <1>6 DEF PInv

\* Nothing that is applied is older than what the DB remembers.
LEMMA ApplyKeeps ==
    ASSUME PInv, Apply
    PROVE  PInv'
<1>1. /\ State' = State /\ Live' = Live /\ (\A e : LastChange(e)' = LastChange(e))
      /\ State \in Nat /\ \A e : LastChange(e) \in 0 .. State
    BY Still, LastChangeType DEF Apply, servervars
<1>2. /\ phase = "apply" /\ phase' = "download" /\ have' = have \ destroyed
      /\ mirror' = [e \in Emails |->
                        IF e \in GotEmails THEN CHOOSE v \in 0 .. MaxChanges : <<e, v>> \in got
                        ELSE mirror[e]]
      /\ at' = at /\ pages' = pages /\ ids' = ids /\ destroyed' = destroyed /\ got' = got
      /\ new_state' = new_state /\ box' = box /\ log' = log /\ oldest' = oldest
      /\ cursor' = cursor /\ dropped' = dropped
      /\ want' = want /\ status' = status
    BY DEF Apply, fetchvars, servervars
<1>3. GotEmails' = GotEmails /\ Horizon = new_state /\ Horizon' = new_state
    BY <1>2 DEF GotEmails, Horizon
<1>4. /\ State <= MaxChanges /\ MaxChanges \in Nat /\ got \subseteq Emails \X (0 .. State)
      /\ mirror \in [Emails -> 0 .. State] /\ Live \subseteq Emails /\ ids = {}
      /\ cursor \in NoState .. State /\ new_state \in 0 .. State
    BY <1>2, PageAssumption DEF PInv, Phases, PTypeOK, State
<1>5. ASSUME NEW e \in GotEmails PROVE <<e, mirror'[e]>> \in got /\ mirror'[e] \in 0 .. State
    <2>1. PICK g \in got : g[1] = e
        BY DEF GotEmails
    <2>2. g = <<e, g[2]>> /\ g[2] \in 0 .. MaxChanges /\ e \in Emails
        BY <1>1, <1>4, <2>1
    <2>3. <<e, CHOOSE v \in 0 .. MaxChanges : <<e, v>> \in got>> \in got
        BY <2>2
    <2> QED
        BY <1>2, <1>4, <2>2, <2>3
<1>6. ASSUME NEW e \in Emails \ GotEmails PROVE mirror'[e] = mirror[e]
    BY <1>2
<1>7. PTypeOK'
    <2>1. mirror' \in [Emails -> 0 .. State]
        BY <1>2, <1>4, <1>5, <1>6
    <2> QED
        BY <1>1, <1>2, <2>1 DEF PInv, PTypeOK
<1>8. Phases'
    BY <1>1, <1>2 DEF PInv, Phases, Listing
<1>9. Quiet => Remembered'
    <2> HAVE Quiet
    <2>1. ASSUME cursor # NoState, NEW e \in Live \ dropped, LastChange(e) <= cursor
          PROVE  e \notin GotEmails /\ e \notin destroyed /\ Known(e)
        BY <1>1, <1>2, <1>4, <2>1 DEF PInv, InHand, Gone, Remembered, NoState
    <2> QED
        BY <1>1, <1>2, <1>4, <1>6, <2>1 DEF Remembered, Known
<1>10. InHand' /\ Gone' /\ (Quiet => Fresh' /\ Fetched' /\ Listed')
    BY <1>1, <1>2, <1>3 DEF PInv, InHand, Gone, Fresh, Fetched, Fetching, Listed
<1>11. Quiet => Stored'
    <2> HAVE Quiet
    <2>1. ASSUME NEW e \in Live \ dropped, LastChange(e) <= new_state
          PROVE  mirror'[e] >= LastChange(e) /\ (e \in have' \/ e \in GotEmails)
        <3>1. CASE e \in GotEmails
            <4>1. <<e, mirror'[e]>>[1] = e /\ <<e, mirror'[e]>>[2] = mirror'[e]
                OBVIOUS
            <4> QED
                BY <1>2, <1>5, <2>1, <3>1, <4>1 DEF PInv, Fresh
        <3>2. CASE e \notin GotEmails
            BY <1>2, <1>3, <1>4, <1>6, <2>1, <3>2 DEF PInv, Fetched, Fetching, Known, Gone
        <3> QED
            BY <3>1, <3>2
    <2> QED
        BY <1>1, <1>2, <1>3, <2>1 DEF Stored
<1>12. Swept'
    BY <1>1, <1>2, <1>3 DEF PInv, Swept, Fetching, Storing
<1> QED
    BY <1>7, <1>8, <1>9, <1>10, <1>11, <1>12 DEF PInv

LEMMA StartKeeps ==
    ASSUME PInv, StartDownloads
    PROVE  PInv'
<1>1. /\ State' = State /\ Live' = Live /\ (\A e : LastChange(e)' = LastChange(e))
      /\ State \in Nat
    BY Still, LastChangeType DEF StartDownloads, servervars
<1>2. /\ phase = "download" /\ phase' = "downloading"
      /\ want' = Missing \ destroyed /\ want' \subseteq Emails
      /\ have' = have /\ status' = "running"
      /\ at' = at /\ pages' = pages /\ ids' = ids /\ destroyed' = destroyed /\ got' = got
      /\ new_state' = new_state /\ box' = box /\ log' = log /\ oldest' = oldest
      /\ cursor' = cursor /\ mirror' = mirror /\ dropped' = dropped
    BY DEF StartDownloads, TBegin, fetchvars, servervars
<1>3. GotEmails' = GotEmails
    BY <1>2 DEF GotEmails
<1>4. PTypeOK' /\ Phases'
    BY <1>1, <1>2 DEF PInv, PTypeOK, Phases, Listing
<1>5. InHand' /\ Gone' /\ (Quiet => Remembered' /\ Fresh' /\ Fetched' /\ Listed')
    BY <1>1, <1>2, <1>3 DEF PInv, Remembered, InHand, Gone, Known, Fresh, Fetched, Fetching, Listed
<1>6. Swept' /\ (Quiet => Stored')
    BY <1>1, <1>2, <1>3 DEF PInv, Stored, Swept, Storing, Fetching, Horizon, Gone, Missing
<1> QED
    BY <1>4, <1>5, <1>6 DEF PInv

LEMMA NothingKeeps ==
    ASSUME PInv, NothingToDownload
    PROVE  PInv'
<1>1. /\ State' = State /\ Live' = Live /\ (\A e : LastChange(e)' = LastChange(e))
      /\ State \in Nat
    BY Still, LastChangeType DEF NothingToDownload, PullUnchanged, servervars
<1>2. /\ phase = "download" /\ phase' = "save" /\ Missing \ destroyed = {}
      /\ at' = at /\ pages' = pages /\ ids' = ids /\ destroyed' = destroyed /\ got' = got
      /\ new_state' = new_state /\ box' = box /\ log' = log /\ oldest' = oldest
      /\ cursor' = cursor /\ mirror' = mirror /\ dropped' = dropped
      /\ want' = want /\ have' = have /\ status' = status
    BY DEF NothingToDownload, PullUnchanged, fetchvars, servervars, tvars
<1>3. GotEmails' = GotEmails
    BY <1>2 DEF GotEmails
<1>4. PTypeOK' /\ Phases'
    BY <1>1, <1>2 DEF PInv, PTypeOK, Phases, Listing
<1>5. InHand' /\ Gone' /\ (Quiet => Remembered' /\ Fresh' /\ Fetched' /\ Listed')
    BY <1>1, <1>2, <1>3 DEF PInv, Remembered, InHand, Gone, Known, Fresh, Fetched, Fetching, Listed
<1>6. Swept' /\ (Quiet => Stored')
    BY <1>1, <1>2, <1>3 DEF PInv, Stored, Swept, Storing, Fetching, Horizon, Gone, Missing
<1> QED
    BY <1>4, <1>5, <1>6 DEF PInv

\* Success is reported only when all that was wanted is stored.
LEMMA DownloadingKeeps ==
    ASSUME PInv, Downloading
    PROVE  PInv'
<1>1. /\ State' = State /\ Live' = Live /\ (\A e : LastChange(e)' = LastChange(e))
      /\ State \in Nat
    BY Still, LastChangeType DEF Downloading, servervars
<1>2. /\ phase = "downloading" /\ want' = want /\ status = "running"
      /\ at' = at /\ pages' = pages /\ ids' = ids /\ destroyed' = destroyed /\ got' = got
      /\ new_state' = new_state /\ box' = box /\ log' = log /\ oldest' = oldest
      /\ cursor' = cursor /\ mirror' = mirror /\ dropped' = dropped
    BY DEF Downloading, TStore, TFinish, fetchvars, servervars
<1>3. \/ phase' = "downloading" /\ status' = status /\ \E e \in want \ have : have' = have \cup {e}
      \/ phase' = "save" /\ status' = "done" /\ have' = have /\ want \subseteq have
    BY <1>2 DEF Downloading, TStore, TFinish
<1>4. have \subseteq have' /\ have' \subseteq have \cup want /\ phase' \in {"downloading", "save"}
      /\ status' \in {"running", "done"}
    BY <1>2, <1>3
<1>5. GotEmails' = GotEmails
    BY <1>2 DEF GotEmails
<1>6. PTypeOK' /\ Phases'
    BY <1>1, <1>2, <1>3, <1>4 DEF PInv, PTypeOK, Phases, Listing
<1>7. InHand' /\ Gone' /\ (Quiet => Remembered')
    BY <1>1, <1>2, <1>4, <1>5 DEF PInv, Remembered, InHand, Gone, Known
<1>8. Quiet => Fresh' /\ Fetched' /\ Listed'
    BY <1>4 DEF Fresh, Fetched, Fetching, Listed
<1>9. Quiet => Stored'
    BY <1>1, <1>2, <1>3, <1>4, <1>5 DEF PInv, Stored, Storing
<1>10. Swept'
    BY <1>1, <1>2, <1>4 DEF PInv, Swept, Storing, Fetching, Horizon
<1> QED
    BY <1>6, <1>7, <1>8, <1>9, <1>10 DEF PInv

LEMMA SaveKeeps ==
    ASSUME PInv, SaveCursor
    PROVE  PInv'
<1>1. /\ State' = State /\ Live' = Live /\ (\A e : LastChange(e)' = LastChange(e))
      /\ State \in Nat
    BY Still, LastChangeType DEF SaveCursor, servervars
<1>2. /\ phase = "save" /\ phase' = "idle" /\ cursor' = new_state
      /\ at' = at /\ pages' = pages /\ ids' = ids /\ destroyed' = destroyed /\ got' = got
      /\ new_state' = new_state /\ box' = box /\ log' = log /\ oldest' = oldest
      /\ mirror' = mirror /\ dropped' = dropped
      /\ want' = want /\ have' = have /\ status' = status
    BY DEF SaveCursor, fetchvars, servervars, tvars
<1>3. PTypeOK' /\ Phases'
    BY <1>1, <1>2 DEF PInv, PTypeOK, Phases, Listing, NoState
<1>4. Quiet => Remembered'
    BY <1>1, <1>2 DEF PInv, Stored, Storing, Remembered, Known
<1>5. Gone'
    BY <1>1, <1>2 DEF PInv, Gone
<1> QED
    BY <1>2, <1>3, <1>4, <1>5
    DEF PInv, InHand, Fresh, Fetched, Fetching, Listed, Stored, Swept, Storing

LEMMA FailureKeeps ==
    ASSUME PInv, CycleFails
    PROVE  PInv'
<1>1. /\ State' = State /\ Live' = Live /\ (\A e : LastChange(e)' = LastChange(e))
      /\ State \in Nat
    BY Still, LastChangeType DEF CycleFails, servervars
<1>2. /\ phase' = "idle" /\ want' = want /\ have' = have
      /\ status' \in {"failed", status} /\ status' # "running"
      /\ at' = at /\ pages' = pages /\ ids' = ids /\ destroyed' = destroyed /\ got' = got
      /\ new_state' = new_state /\ box' = box /\ log' = log /\ oldest' = oldest
      /\ cursor' = cursor /\ mirror' = mirror /\ dropped' = dropped
    BY DEF CycleFails, TFail, fetchvars, servervars, tvars, PInv, Phases
<1>3. PTypeOK' /\ Phases'
    BY <1>1, <1>2 DEF PInv, PTypeOK, Phases, Listing
<1>4. Gone' /\ (Quiet => Remembered')
    BY <1>1, <1>2 DEF PInv, Remembered, Known, Gone
<1> QED
    BY <1>2, <1>3, <1>4
    DEF PInv, InHand, Fresh, Fetched, Fetching, Listed, Stored, Swept, Storing

-----------------------------------------------------------------------------

LEMMA InitialMailbox ==
    ASSUME NEW S, IsFiniteSet(S)
    PROVE  SetToSeq(S) \in Seq(S)
<1>1. Cardinality(S) \in Nat /\ ExistsBijection(1 .. Cardinality(S), S)
    BY FS_CardinalityType
<1>2. PICK f : f \in Bijection(1 .. Cardinality(S), S)
    BY <1>1 DEF ExistsBijection
<1>3. f \in [1 .. Cardinality(S) -> S] /\ IsInjective(f)
    BY <1>2 DEF Bijection, Injection, IsInjective
<1>4. SetToSeq(S) \in [1 .. Cardinality(S) -> S]
    BY <1>3 DEF SetToSeq
<1> QED
    BY <1>1, <1>4

LEMMA InitInv == PInit => PInv
<1> SUFFICES ASSUME PInit PROVE PInv
    OBVIOUS
<1>1. /\ want = {} /\ have = {} /\ status = "idle" /\ phase = "idle" /\ cursor = NoState
      /\ box = SetToSeq(Existing) /\ log = <<>> /\ oldest = 0 /\ new_state = 0
      /\ at = 0 /\ pages = {} /\ ids = {} /\ destroyed = {} /\ got = {} /\ dropped = {}
      /\ mirror = [e \in Emails |-> 0]
    BY DEF PInit, TInit
<1>2. box \in Seq(Existing) /\ box \in Seq(Emails)
    <2>1. box \in Seq(Existing)
        BY <1>1, PageAssumption, InitialMailbox
    <2> QED
        BY <2>1, PageAssumption, SeqMonotonic
<1>3. Live \subseteq Emails
    BY <1>2, LenProperties, ElementOfSeq DEF Live, ToSet
<1>4. State = 0 /\ log \in Seq(Emails)
    BY <1>1, EmptySeq DEF State
<1>5. PTypeOK
    BY <1>1, <1>3, <1>4 DEF PTypeOK, NoState
<1>6. Phases
    BY <1>1, <1>2, <1>4, PageAssumption DEF Phases, Listing, State
<1> QED
    BY <1>1, <1>5, <1>6
    DEF PInv, Remembered, InHand, Gone, Fresh, Fetched, Fetching, Listed, Stored, Swept, Storing

LEMMA StepInv == PInv /\ [PNext]_pvars => PInv'
<1> SUFFICES ASSUME PInv, [PNext]_pvars PROVE PInv'
    OBVIOUS
<1>1. CASE Server
    BY <1>1, ServerKeeps
<1>2. CASE Cycle
    <2>1. CASE fetch_remote_state \/ get_changes \/ is_cannot_calculate_changes
        BY <2>1, FetchKeeps, ChangesKeep, ResetKeeps
    <2>2. CASE query_mailbox \/ PagesDone \/ SerialPage \/ \E p \in pages : query_page(p)
        BY <2>2, ProbeKeeps, PagesDoneKeeps, SerialKeeps, QueryPageKeeps
    <2>3. CASE \E chunk \in SUBSET ids : \E garbled \in SUBSET (chunk \cap Garbles) :
                    get_by_ids(chunk, garbled)
        BY <2>3, GetKeeps
    <2>4. CASE GetDone \/ get_current_state \/ Apply
        BY <2>4, GetDoneKeeps, StateKeeps, ApplyKeeps
    <2>5. CASE StartDownloads \/ NothingToDownload \/ Downloading \/ SaveCursor
        BY <2>5, StartKeeps, NothingKeeps, DownloadingKeeps, SaveKeeps
    <2> QED
        BY <1>2, <2>1, <2>2, <2>3, <2>4, <2>5 DEF Cycle
<1>3. CASE CycleFails
    BY <1>3, FailureKeeps
<1>4. CASE UNCHANGED pvars
    <2>1. /\ State' = State /\ Live' = Live /\ \A e : LastChange(e)' = LastChange(e)
        BY <1>4, Still DEF pvars, servervars
    <2>2. GotEmails' = GotEmails /\ Horizon' = Horizon
        BY <1>4 DEF pvars, fetchvars, GotEmails, Horizon
    <2>3. PTypeOK' /\ Phases' /\ InHand' /\ Gone' /\ (Quiet => Remembered')
        BY <1>4, <2>1, <2>2
        DEF pvars, servervars, fetchvars, tvars, PInv, PTypeOK, Phases, Listing, Remembered, Known,
            InHand, Gone
    <2>4. Swept' /\ (Quiet => Fresh' /\ Fetched' /\ Listed' /\ Stored')
        BY <1>4, <2>1, <2>2
        DEF pvars, servervars, fetchvars, tvars, PInv, Fresh, Fetched, Fetching, Known, Listed, Stored,
            Storing, Swept
    <2> QED
        BY <2>3, <2>4 DEF PInv
<1> QED
    BY <1>1, <1>2, <1>3, <1>4 DEF PNext

LEMMA PInvariant == PSpec => []PInv
BY InitInv, StepInv, PTL DEF PSpec

\* The variables of Pull keep to their types, on any server.
THEOREM PullTypes == PSpec => []PTypeOK
<1>1. PInv => PTypeOK
    BY DEF PInv
<1> QED
    BY <1>1, PInvariant, PTL

\* Where the mailbox keeps still while it is listed and the server gives whole
\* pages of Email/query, what the DB remembers of the server's state is in it.
THEOREM PullSkipsNothing ==
    ASSUME QuietQuery, QueryPage <= ServerPage
    PROVE  PSpec => []NothingSkipped
<1>1. PInv => NothingSkipped
    BY DEF PInv, Quiet, Remembered, Known, NothingSkipped
<1> QED
    BY <1>1, PInvariant, PTL

LEMMA DestructionsStep ==
    ASSUME PInv, [PNext]_pvars, cursor # NoState, cursor' \notin {NoState, cursor},
           NEW e \in have' \ Live
    PROVE  LastChange(e) \notin cursor + 1 .. cursor'
<1>1. SaveCursor
    BY DEF PNext, Server, Deliver, Change, Destroy, Forget, ServerUnchanged, Cycle, CycleFails,
           fetch_remote_state, get_changes, is_cannot_calculate_changes, query_mailbox, query_page,
           PagesDone, SerialPage, get_by_ids, GetDone, get_current_state, PullUnchanged,
           Apply, StartDownloads, NothingToDownload, Downloading, pvars
<1>2. phase = "save" /\ cursor' = new_state /\ have' = have
    BY <1>1 DEF SaveCursor, tvars
<1>3. e \in Emails \ Live /\ e \notin destroyed
    BY <1>2 DEF PInv, PTypeOK, Swept, Storing
<1> QED
    BY <1>2, <1>3 DEF PInv, Swept, Storing, Horizon

\* A cycle that moves the cursor on has applied every destruction it passes, on
\* any server.
THEOREM PullAppliesDestructions == PSpec => DestructionsApplied
<1>1. PInv /\ [PNext]_pvars =>
        [cursor # NoState /\ cursor' \notin {NoState, cursor} =>
            \A e \in have' \ Live : LastChange(e) \notin cursor + 1 .. cursor']_pvars
    BY DestructionsStep
<1> QED
    BY <1>1, PInvariant, PTL DEF PSpec, DestructionsApplied
=============================================================================
