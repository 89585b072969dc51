---------------------------- MODULE WatchProofs ----------------------------
(***************************************************************************)
(* No change is forgotten (Watch), for any files and folders, channels of  *)
(* any capacity and any number of events, where a file changes only after  *)
(* its last change is synced and a burst with an own write is not split.   *)
(*                                                                         *)
(* Control is inductive by itself: types and capacities, what the runner   *)
(* holds in each of its states (Staged), no stream between sessions        *)
(* (Offline).  FilesInv follows one file: the names on their way to a scan *)
(* are those of its last rename (Bursts), half a rename that is ahead has  *)
(* the other half behind it (Together), the window closes on all of it     *)
(* (Complete); so the scan is right about every file that it finds changed *)
(* (VerdictIs), and what the exchange acts on is still so (Exact), since   *)
(* disk and server take turns (InTurn).                                    *)
(*                                                                         *)
(* NothingForgotten is inductive over both.  Most steps move what is on    *)
(* its way, or set a full trigger going (MovesKept, FullKept).  The rest   *)
(* is the batch the watcher drops (FlushKept), the merging of triggers     *)
(* (WindowKept), what a scan takes out of them (ScanKept), and what the    *)
(* exchange then leaves different (ExchangeKept).                          *)
(*                                                                         *)
(* OnlyHardErrorsDeafen needs only Control, and that no state is heard of  *)
(* before the server is in it (Heard): every state that the event source   *)
(* takes in orders a fetch, which ends at the state the server then has.   *)
(***************************************************************************)
EXTENDS Watch, SequenceTheorems, FiniteSetTheorems, TLAPS

-----------------------------------------------------------------------------
(* Sequences: what is in them, and what SetToSeq makes of a set.           *)

LEMMA ToSetIs ==
    ASSUME NEW S, NEW s \in Seq(S)
    PROVE  ToSet(s) = {s[i] : i \in 1 .. Len(s)} /\ ToSet(s) \subseteq S
BY DEF ToSet

LEMMA ToSetEmpty == ToSet(<<>>) = {}
BY DEF ToSet

LEMMA ToSetAppend ==
    ASSUME NEW S, NEW s \in Seq(S), NEW e \in S
    PROVE  /\ Append(s, e) \in Seq(S) /\ Len(Append(s, e)) = Len(s) + 1
           /\ ToSet(Append(s, e)) = ToSet(s) \cup {e}
<1> DEFINE t == Append(s, e)
<1>1. /\ t \in Seq(S) /\ Len(t) = Len(s) + 1 /\ Len(s) \in Nat
      /\ \A i \in 1 .. Len(s) : t[i] = s[i]
      /\ t[Len(s) + 1] = e
    BY AppendProperties
<1> HIDE DEF t
<1>2. ToSet(t) = {t[i] : i \in 1 .. Len(s) + 1}
    BY <1>1, ToSetIs
<1>3. 1 .. Len(s) + 1 = (1 .. Len(s)) \cup {Len(s) + 1}
    BY <1>1
<1>4. ToSet(s) = {s[i] : i \in 1 .. Len(s)}
    BY ToSetIs
<1>5. ToSet(t) = ToSet(s) \cup {e}
    BY <1>1, <1>2, <1>3, <1>4
<1> QED
    BY <1>1, <1>5 DEF t

LEMMA ToSetTail ==
    ASSUME NEW S, NEW s \in Seq(S), s # <<>>
    PROVE  /\ Head(s) \in S /\ Tail(s) \in Seq(S) /\ Len(Tail(s)) < Len(s) /\ Len(s) \in Nat
           /\ ToSet(s) = ToSet(Tail(s)) \cup {Head(s)}
<1>1. /\ Head(s) \in S /\ Tail(s) \in Seq(S) /\ Len(Tail(s)) = Len(s) - 1
      /\ \A i \in 1 .. Len(Tail(s)) : Tail(s)[i] = s[i + 1]
    BY HeadTailProperties
<1>2. Len(s) \in Nat \ {0} /\ Head(s) = s[1]
    BY EmptySeq
<1>3. ToSet(s) = {s[i] : i \in 1 .. Len(s)} /\ ToSet(Tail(s)) = {Tail(s)[i] : i \in 1 .. Len(s) - 1}
    BY <1>1, ToSetIs
<1>4. ASSUME NEW x \in ToSet(s), x # s[1] PROVE x \in ToSet(Tail(s))
    <2>1. PICK i \in 1 .. Len(s) : x = s[i]
        BY <1>3
    <2>2. i - 1 \in 1 .. Len(s) - 1 /\ Tail(s)[i - 1] = s[i]
        BY <1>1, <1>2, <1>4, <2>1
    <2> QED
        BY <1>3, <2>1, <2>2
<1>5. ASSUME NEW x \in ToSet(Tail(s)) PROVE x \in ToSet(s)
    <2>1. PICK i \in 1 .. Len(s) - 1 : x = Tail(s)[i]
        BY <1>3, <1>5
    <2>2. i + 1 \in 1 .. Len(s) /\ x = s[i + 1]
        BY <1>1, <1>2, <2>1
    <2> QED
        BY <1>3, <2>2
<1>6. s[1] \in ToSet(s)
    BY <1>2, <1>3
<1> QED
    BY <1>1, <1>2, <1>4, <1>5, <1>6

LEMMA SetToSeqIs ==
    ASSUME NEW S, IsFiniteSet(S)
    PROVE  SetToSeq(S) \in Seq(S) /\ Len(SetToSeq(S)) = Cardinality(S)
<1>1. Cardinality(S) \in Nat /\ ExistsBijection(1 .. Cardinality(S), S)
    BY FS_CardinalityType
<1>2. \E f \in [1 .. Cardinality(S) -> S] : IsInjective(f)
    BY <1>1 DEF ExistsBijection, Bijection, Injection, IsInjective
<1>3. SetToSeq(S) \in [1 .. Cardinality(S) -> S]
    BY <1>2 DEF SetToSeq
<1> QED
    BY <1>1, <1>3

\* A set of at most one element.
LEMMA SetToSeqOfOne ==
    ASSUME NEW S, \A x, y \in S : x = y
    PROVE  SetToSeq(S) \in Seq(S) /\ Len(SetToSeq(S)) <= 1 /\ ToSet(SetToSeq(S)) = S
<1>1. CASE S = {}
    <2>1. IsFiniteSet(S) /\ Cardinality(S) = 0
        BY <1>1, FS_EmptySet
    <2>2. SetToSeq(S) \in Seq(S) /\ Len(SetToSeq(S)) = 0
        BY <2>1, SetToSeqIs
    <2> QED
        BY <1>1, <2>2, ToSetIs
<1>2. CASE S # {}
    <2>1. PICK x : S = {x}
        BY <1>2
    <2>2. IsFiniteSet(S) /\ Cardinality(S) = 1
        BY <2>1, FS_Singleton
    <2>3. SetToSeq(S) \in Seq(S) /\ Len(SetToSeq(S)) = 1
        BY <2>2, SetToSeqIs
    <2>4. SetToSeq(S)[1] = x
        BY <2>1, <2>3, ElementOfSeq
    <2>5. ToSet(SetToSeq(S)) = {SetToSeq(S)[i] : i \in {1}}
        BY <2>3, ToSetIs
    <2>6. ToSet(SetToSeq(S)) = S
        BY <2>1, <2>4, <2>5, Zenon
    <2> QED
        BY <2>3, <2>6
<1> QED
    BY <1>1, <1>2

LEMMA ToSetConcat ==
    ASSUME NEW S, NEW s \in Seq(S), NEW t \in Seq(S)
    PROVE  /\ s \o t \in Seq(S) /\ Len(s \o t) = Len(s) + Len(t)
           /\ ToSet(s \o t) = ToSet(s) \cup ToSet(t)
<1>1. /\ s \o t \in Seq(S) /\ Len(s \o t) = Len(s) + Len(t)
      /\ \A i \in 1 .. Len(s) + Len(t) : (s \o t)[i] = IF i <= Len(s) THEN s[i] ELSE t[i - Len(s)]
    BY ConcatProperties
<1>2. Len(s) \in Nat /\ Len(t) \in Nat
    BY LenProperties
<1>3. /\ ToSet(s) = {s[i] : i \in 1 .. Len(s)} /\ ToSet(t) = {t[i] : i \in 1 .. Len(t)}
      /\ ToSet(s \o t) = {(s \o t)[i] : i \in 1 .. Len(s) + Len(t)}
    BY <1>1, ToSetIs
<1>4. ASSUME NEW x \in ToSet(s \o t) PROVE x \in ToSet(s) \cup ToSet(t)
    <2>1. PICK i \in 1 .. Len(s) + Len(t) : x = (s \o t)[i]
        BY <1>3
    <2>2. CASE i <= Len(s)
        BY <1>1, <1>2, <1>3, <2>1, <2>2
    <2>3. CASE i > Len(s)
        <3>1. i - Len(s) \in 1 .. Len(t) /\ x = t[i - Len(s)]
            BY <1>1, <1>2, <2>1, <2>3
        <3> QED
            BY <1>3, <3>1
    <2> QED
        BY <1>2, <2>2, <2>3
<1>5. ASSUME NEW i \in 1 .. Len(s) PROVE s[i] \in ToSet(s \o t)
    <2>1. i \in 1 .. Len(s) + Len(t) /\ (s \o t)[i] = s[i]
        BY <1>1, <1>2
    <2> QED
        BY <1>3, <2>1
<1>6. ASSUME NEW i \in 1 .. Len(t) PROVE t[i] \in ToSet(s \o t)
    <2>1. i + Len(s) \in 1 .. Len(s) + Len(t) /\ (s \o t)[i + Len(s)] = t[i]
        BY <1>1, <1>2
    <2> QED
        BY <1>3, <2>1
<1> QED
    BY <1>1, <1>3, <1>4, <1>5, <1>6

-----------------------------------------------------------------------------
(* The helpers of the model.                                               *)

Groups == Seq(SUBSET FilePaths)

LEMMA WithoutIs ==
    ASSUME NEW groups \in Groups, NEW paths
    PROVE  /\ Without(groups, paths) \in Groups
           /\ UNION ToSet(Without(groups, paths)) \subseteq UNION ToSet(groups)
<1>1. DOMAIN groups = 1 .. Len(groups) /\ Len(groups) \in Nat
      /\ \A i \in DOMAIN groups : groups[i] \in SUBSET FilePaths
    BY LenProperties, ElementOfSeq DEF Groups
<1>2. Without(groups, paths) = [i \in 1 .. Len(groups) |-> groups[i] \ paths]
    BY <1>1 DEF Without
<1>3. Without(groups, paths) \in [1 .. Len(groups) -> SUBSET FilePaths]
    BY <1>1, <1>2
<1>4. Without(groups, paths) \in Groups
    BY <1>1, <1>3 DEF Groups
<1>5. \A i \in DOMAIN groups : Without(groups, paths)[i] \subseteq groups[i]
    BY <1>1, <1>2
<1>6. DOMAIN Without(groups, paths) = DOMAIN groups
    BY <1>1, <1>2
<1> QED
    BY <1>4, <1>5, <1>6 DEF ToSet

LEMMA CachedTail ==
    ASSUME cache \in Groups, cache # <<>>
    PROVE  Tail(cache) \in Groups /\ UNION ToSet(Tail(cache)) \subseteq Cached
BY ToSetTail DEF Groups, Cached

LEMMA NamesType ==
    ASSUME NEW f \in Files
    PROVE  NamesOf(f) \subseteq FilePaths /\ NamesOf(f) \subseteq {f} \X Places
BY DEF NamesOf, FilePaths

LEMMA DiskAfterType ==
    ASSUME TypeOK, NEW f \in Files
    PROVE  DiskAfter(f) \in Places \cup {"gone"}
BY DEF TypeOK, DiskAfter, Places

LEMMA SelfWritesType ==
    ASSUME TypeOK, NEW f \in Files, DiskAfter(f) # "gone"
    PROVE  SelfWrites(f) \subseteq {f} \X Places /\ SelfWrites(f) \subseteq FilePaths
BY DiskAfterType DEF SelfWrites, FilePaths, Places

LEMMA RecordedIs ==
    ASSUME TypeOK
    PROVE  /\ Recorded \in Groups
           /\ UNION ToSet(Recorded) \subseteq
                 Cached \cup UNION {SelfWrites(f) : f \in {g \in Written : DiskAfter(g) # "gone"}}
<1> DEFINE Op(f) == SelfWrites(f)
           W == {g \in Written : DiskAfter(g) # "gone"}
           G == {SelfWrites(f) : f \in W}
           F == [f \in W |-> SelfWrites(f)]
<1>1. IsFiniteSet(W)
    BY FiniteAssumption, FS_Subset DEF Written
<1>2. F \in Surjection(W, G)
    BY DEF Surjection
<1>3. IsFiniteSet(G)
    BY <1>1, <1>2, FS_Surjection
<1>4. G \subseteq SUBSET FilePaths
    BY SelfWritesType DEF Written
<1>5. SetToSeq(G) \in Groups /\ ToSet(SetToSeq(G)) \subseteq G
    <2>1. SetToSeq(G) \in Seq(G)
        BY <1>3, SetToSeqIs
    <2>2. SetToSeq(G) \in Seq(SUBSET FilePaths)
        BY <1>4, <2>1, SeqMonotonic
    <2> QED
        BY <2>1, <2>2, ToSetIs DEF Groups
<1>6. /\ Without(cache, UNION G) \in Groups
      /\ UNION ToSet(Without(cache, UNION G)) \subseteq Cached
    BY WithoutIs DEF TypeOK, Groups, Cached
<1>7. Recorded = Without(cache, UNION G) \o SetToSeq(G)
    BY DEF Recorded
<1> HIDE DEF G, W
<1>8. /\ Recorded \in Groups
      /\ ToSet(Recorded) = ToSet(Without(cache, UNION G)) \cup ToSet(SetToSeq(G))
    <2>1. \A s, t \in Groups : s \o t \in Groups /\ ToSet(s \o t) = ToSet(s) \cup ToSet(t)
        BY ToSetConcat DEF Groups
    <2> QED
        BY <1>5, <1>6, <1>7, <2>1, Zenon
<1>9. UNION ToSet(Recorded) \subseteq Cached \cup UNION G
    BY <1>5, <1>6, <1>8
<1> QED
    BY <1>8, <1>9 DEF G, W

LEMMA ClassifyIs ==
    ASSUME NEW S \in SUBSET (FilePaths \cup DirPaths)
    PROVE  /\ classify_batch(S) \subseteq Triggers
           /\ \A x, y \in classify_batch(S) : x = y
           /\ \A t \in classify_batch(S) :
                 t.paths = Surviving(S \cap FilePaths) /\ (IsFull(t) <=> batch_fires(S \cap DirPaths))
           /\ classify_batch(S) # {} <=>
                 batch_fires(S \cap DirPaths) \/ Surviving(S \cap FilePaths) # {}
<1> DEFINE m == Surviving(S \cap FilePaths)
<1>1. m \subseteq FilePaths /\ m \subseteq S
    BY DEF Surviving
<1> HIDE DEF m
<1>2. CASE batch_fires(S \cap DirPaths)
    <2>1. classify_batch(S) = {[kind |-> "structural", paths |-> m]}
        BY <1>2 DEF classify_batch, m
    <2> QED
        BY <1>1, <1>2, <2>1 DEF Triggers, IsFull, m
<1>3. CASE ~batch_fires(S \cap DirPaths)
    <2>1. classify_batch(S) = IF m # {} THEN {[kind |-> "local", paths |-> m]} ELSE {}
        BY <1>3 DEF classify_batch, m, LocalChange
    <2>2. CASE m # {}
        <3> DEFINE c == [kind |-> "local", paths |-> m]
        <3>1. c \in Triggers /\ c.paths = m /\ ~IsFull(c)
            BY <1>1 DEF Triggers, IsFull
        <3>2. classify_batch(S) = {c}
            BY <2>1, <2>2
        <3> HIDE DEF c
        <3> QED
            BY <1>3, <2>2, <3>1, <3>2 DEF m
    <2>3. CASE m = {}
        BY <1>3, <2>1, <2>3 DEF m
    <2> QED
        BY <2>2, <2>3
<1> QED
    BY <1>2, <1>3

\* A window's triggers become one: full if any was, and otherwise with all paths.
LEMMA CoalesceIs ==
    ASSUME NEW ts \in Seq(Triggers), ts # <<>>
    PROVE  /\ coalesce_triggers(ts) \in Triggers
           /\ IsFull(coalesce_triggers(ts)) <=> \E u \in ToSet(ts) : IsFull(u)
           /\ \/ coalesce_triggers(ts).paths = UNION {u.paths : u \in ToSet(ts)}
              \/ coalesce_triggers(ts).paths = {} /\ IsFull(coalesce_triggers(ts))
<1> DEFINE t == coalesce_triggers(ts)
           paths == UNION {u.paths : u \in ToSet(ts)}
           kinds == {ts[i].kind : i \in DOMAIN ts}
<1>1. paths = UNION {ts[i].paths : i \in DOMAIN ts}
    BY DEF ToSet
<1>2. \A u \in ToSet(ts) : u \in Triggers
    BY ToSetIs
<1>3. kinds = {u.kind : u \in ToSet(ts)} /\ kinds # {}
    BY EmptySeq DEF ToSet
<1>4. paths \subseteq FilePaths
    BY <1>2 DEF Triggers
<1>5. kinds \subseteq {"local", "structural", "remote", "manual", "initial"}
    BY <1>2, <1>3 DEF Triggers
<1>6. t = IF "initial" \in kinds THEN Whole("initial")
          ELSE IF "manual" \in kinds THEN Whole("manual")
          ELSE IF "remote" \in kinds THEN Whole("remote")
          ELSE IF "structural" \in kinds THEN [kind |-> "structural", paths |-> paths]
          ELSE LocalChange(paths)
    BY <1>1 DEF coalesce_triggers
<1>7. (\E u \in ToSet(ts) : IsFull(u)) <=> kinds \cap {"structural", "remote", "manual", "initial"} # {}
    BY <1>3, <1>5 DEF IsFull
<1> HIDE DEF kinds, paths, t
<1>8. /\ t \in Triggers
      /\ t.paths = paths \/ (t.paths = {} /\ IsFull(t))
      /\ IsFull(t) <=> kinds \cap {"structural", "remote", "manual", "initial"} # {}
    BY <1>4, <1>6 DEF Triggers, IsFull, Whole, LocalChange
<1> QED
    <2>1. t = coalesce_triggers(ts) /\ paths = UNION {u.paths : u \in ToSet(ts)}
        BY DEF t, paths
    <2>2. IsFull(t) <=> \E u \in ToSet(ts) : IsFull(u)
        BY <1>7, <1>8
    <2> QED
        BY <1>8, <2>1, <2>2

-----------------------------------------------------------------------------
(* Types and capacities.                                                   *)

LEMMA InitType == Init => TypeOK
<1> SUFFICES ASSUME Init PROVE TypeOK
    OBVIOUS
<1>1. Whole("initial") \in Triggers /\ batch = <<Whole("initial")>>
    BY DEF Init, Whole, Triggers
<1>2. {notifyQ, chan, batch} \subseteq Seq(Triggers)
    BY <1>1 DEF Init
<1>3. Len(notifyQ) <= NotifyCap /\ Len(chan) <= ChanCap /\ backoff \in 1 .. MaxBackoff
    BY CapAssumption DEF Init
<1>4. /\ url \in {"configured", "cached", "none"} /\ left \in 0 .. Budget /\ link \in Links
      /\ state \in Nat /\ cursor \in 0 .. state /\ last \in Nat /\ push \in Seq(Nat)
    BY UrlAssumption, FiniteAssumption, LinkAssumption DEF Init
<1>5. /\ events \subseteq FilePaths \cup DirPaths /\ late \subseteq events
      /\ young \in [Files -> SUBSET FilePaths] /\ cache \in Seq(SUBSET FilePaths)
    BY DEF Init
<1>6. /\ disk \in [Files -> Places \cup {"gone"}] /\ fresh \subseteq Files
      /\ srv \in [Files -> {"none", "-", "S"}] /\ db \in [Files -> {"none", "-", "S"}]
    BY DEF Init, Places
<1> QED
    BY <1>2, <1>3, <1>4, <1>5, <1>6 DEF Init, TypeOK

LEMMA LostType == Lost' \subseteq Files \cup Folders \cup {Server}
BY DEF Lost, Unseen

LEMMA SwallowedType == ASSUME NEW S PROVE Swallowed(S) \subseteq Files
BY DEF Swallowed

LEMMA SeenAsType ==
    ASSUME TypeOK, NEW t
    PROVE  /\ SeenAs(t) \in [Files \cup Folders -> {"same", "deleted", "-", "S", "there"}]
           /\ \A f \in Files : SeenAs(t)[f] # "there"
<1>1. \A f \in Files : Verdict(f, t) \in {"same", "deleted", "-", "S"}
    BY DEF Verdict, FullVerdict, PathVerdict, FlagsOf
<1>2. \A d \in Folders : FolderVerdict(d, t) \in {"same", "deleted", "there"}
    BY DEF FolderVerdict
<1> QED
    BY <1>1, <1>2 DEF SeenAs

\* What a pushed state adds to the stream.
LEMMA PushedType ==
    ASSUME TypeOK, state' \in Nat
    PROVE  Pushed \in Seq(Nat)
BY DEF TypeOK, Pushed

LEMMA TypeEnvironment == ASSUME TypeOK, Environment PROVE TypeOK'
<1> USE DEF TypeOK, Spends
<1>1. ASSUME NEW f \in Files, NEW to \in {"gone", "cur", "curS"}, UserActs(f, to) PROVE TypeOK'
    <2> DEFINE names == {<<f, disk[f]>>, <<f, to>>} \cap FilePaths
    <2>1. names \subseteq FilePaths
        OBVIOUS
    <2>2. events' = events \cup names /\ young' = [young EXCEPT ![f] = names]
        BY <1>1 DEF UserActs
    <2> HIDE DEF names
    <2>3. events' \subseteq FilePaths \cup DirPaths /\ young' \in [Files -> SUBSET FilePaths]
        BY <2>1, <2>2
    <2>4. disk' \in [Files -> Places \cup {"gone"}] /\ fresh' \subseteq Files /\ left' \in 0 .. Budget
        BY <1>1, FiniteAssumption DEF UserActs, Places
    <2>5. late' = late /\ late' \subseteq events'
        BY <1>1, <2>2 DEF UserActs
    <2> QED
        BY <1>1, <2>3, <2>4, <2>5 DEF UserActs, store, ssevars, runvars
<1>2. ASSUME NEW d \in Folders, MakeFolder(d) \/ RemoveFolder(d) \/ MoveFolderOut(d) \/ Churn(d)
      PROVE  TypeOK'
    <2>1. PICK becomes \in {"absent", "unbound", "bound"}, paths \in SUBSET DirPaths :
              FolderActs(d, becomes, paths)
        <3>1. dirs[d] \in {"absent", "unbound", "bound"} /\ <<d, "dir">> \in DirPaths /\ <<d, "trio">> \in DirPaths
            BY DEF DirPaths
        <3> QED
            BY <1>2, <3>1 DEF MakeFolder, RemoveFolder, MoveFolderOut, Churn
    <2>2. /\ dirs' \in [Folders -> {"absent", "unbound", "bound"}]
          /\ events' \subseteq FilePaths \cup DirPaths /\ late' \subseteq events'
        BY <2>1 DEF FolderActs, fsvars
    <2>3. left' \in 0 .. Budget /\ excused' \subseteq Files \cup Folders \cup {Server}
        BY <1>2, LostType, FiniteAssumption DEF MakeFolder, RemoveFolder, MoveFolderOut, Churn
    <2> QED
        BY <2>1, <2>2, <2>3 DEF FolderActs, store, ssevars, runvars
<1>3. ASSUME NEW d \in Folders, NEW e \in Folders, RenameFolder(d, e) PROVE TypeOK'
    <2>1. dirs' \in [Folders -> {"absent", "unbound", "bound"}]
        <3>1. dirs' = [dirs EXCEPT ![d] = "absent", ![e] = dirs[d]]
            BY <1>3 DEF RenameFolder
        <3>2. dirs[d] \in {"absent", "unbound", "bound"}
            OBVIOUS
        <3> QED
            BY <3>1, <3>2
    <2>4. left' \in 0 .. Budget
        BY <1>3, FiniteAssumption DEF RenameFolder
    <2>2. /\ events' = events \cup {<<d, "dir">>, <<e, "dir">>} /\ late' = late
          /\ {<<d, "dir">>, <<e, "dir">>} \subseteq DirPaths
        BY <1>3 DEF RenameFolder, DirPaths
    <2>3. events' \subseteq FilePaths \cup DirPaths /\ late' \subseteq events'
        BY <2>2
    <2> QED
        BY <1>3, <2>1, <2>3, <2>4 DEF RenameFolder, store, ssevars, runvars
<1>4. ASSUME NEW f \in Files, NEW to \in {"none", "-", "S"}, ServerActs(f, to) PROVE TypeOK'
    <2>1. state' \in Nat /\ cursor \in 0 .. state'
        BY <1>4 DEF ServerActs
    <2>2. push' \in Seq(Nat)
        BY <1>4, <2>1, PushedType DEF ServerActs
    <2>3. /\ srv' \in [Files -> {"none", "-", "S"}] /\ fresh' \subseteq Files /\ left' \in 0 .. Budget
          /\ excused' \subseteq Files \cup Folders \cup {Server}
        BY <1>4, LostType, FiniteAssumption DEF ServerActs
    <2> QED
        BY <1>4, <2>1, <2>2, <2>3 DEF ServerActs, store, fsvars, runvars
<1>5. ASSUME NEW to \in Links, LinkChanges(to) \/ LinkRestored PROVE TypeOK'
    <2>1. link' \in Links /\ left' \in 0 .. Budget
        BY <1>5, LinkAssumption, FiniteAssumption DEF LinkChanges, LinkRestored
    <2> QED
        BY <1>5, <2>1 DEF LinkChanges, LinkRestored, store, fsvars, ssevars, runvars
<1>6. ASSUME PressesS PROVE TypeOK'
    <2>1. left' \in 0 .. Budget
        BY <1>6, FiniteAssumption DEF PressesS
    <2> QED
        BY <1>6, <2>1 DEF PressesS, world, store, fsvars, ssevars, runvars
<1>7. ASSUME NEW to \in {"closed", "stale"}, StreamFails(to) PROVE TypeOK'
    <2>1. left' \in 0 .. Budget /\ excused' \subseteq Files \cup Folders \cup {Server} /\ push' \in Seq(Nat)
        BY <1>7, LostType, FiniteAssumption DEF StreamFails
    <2> QED
        BY <1>7, <2>1 DEF StreamFails, world, store, fsvars, runvars
<1> HIDE DEF TypeOK, Spends
<1>8. ASSUME LinkRestored PROVE TypeOK'
    BY <1>5, <1>8, LinkAssumption
<1> QED
    BY <1>1, <1>2, <1>3, <1>4, <1>5, <1>6, <1>7, <1>8, Zenon DEF Environment

LEMMA TypeWatcher == ASSUME TypeOK, Watcher \/ Expires PROVE TypeOK'
<1> USE DEF TypeOK
<1>1. ASSUME NEW S \in SUBSET events, Flush(S) PROVE TypeOK'
    <2> DEFINE c == classify_batch(S)
    <2>1. SetToSeq(c) \in Seq(c) /\ Len(SetToSeq(c)) <= 1 /\ c \subseteq Triggers
        BY ClassifyIs, SetToSeqOfOne
    <2>2. SetToSeq(c) \in Seq(Triggers)
        BY <2>1, SeqMonotonic
    <2>3. notifyQ' = notifyQ \o SetToSeq(c) /\ Len(notifyQ) < NotifyCap
        BY <1>1 DEF Flush
    <2> HIDE DEF c
    <2>4. notifyQ' \in Seq(Triggers) /\ Len(notifyQ') <= NotifyCap
        BY <2>1, <2>2, <2>3, ToSetConcat, LenProperties, CapAssumption
    <2>5. cache' \in Seq(SUBSET FilePaths)
        BY <1>1, WithoutIs DEF Flush, Groups
    <2>6. events' \subseteq FilePaths \cup DirPaths /\ late' \subseteq events'
        BY <1>1 DEF Flush
    <2>7. excused' \subseteq Files \cup Folders \cup {Server}
        BY <1>1, SwallowedType DEF Flush
    <2> QED
        BY <1>1, <2>4, <2>5, <2>6, <2>7 DEF Flush, world, store, ssevars, runvars
<1>2. ASSUME Forward PROVE TypeOK'
    <2>1. /\ notifyQ' \in Seq(Triggers) /\ Len(notifyQ') <= NotifyCap
          /\ chan' \in Seq(Triggers) /\ Len(chan') <= ChanCap
        BY <1>2, ToSetTail, ToSetAppend, LenProperties, CapAssumption DEF Forward
    <2> QED
        BY <1>2, <2>1 DEF Forward, world, store, ssevars, runvars
<1>3. ASSUME Expires PROVE TypeOK'
    <2>1. cache' \in Seq(SUBSET FilePaths)
        BY <1>3, CachedTail DEF Expires, Groups
    <2> QED
        BY <1>3, <2>1 DEF Expires, world, store, ssevars, runvars
<1> QED
    BY <1>1, <1>2, <1>3 DEF Watcher

LEMMA WholeType == ASSUME NEW k \in {"remote", "manual", "initial"} PROVE Whole(k) \in Triggers
BY DEF Whole, Triggers

LEMMA TypeEvents == ASSUME TypeOK, EventSource \/ forward_manual_triggers PROVE TypeOK'
<1> USE DEF TypeOK
<1>1. ASSUME StreamOpens \/ Watchdog PROVE TypeOK'
    BY <1>1 DEF StreamOpens, Watchdog, world, store, fsvars, runvars
<1>2. ASSUME ReceiveState PROVE TypeOK'
    <2>1. push' \in Seq(Nat) /\ last' \in Nat /\ sending' \in BOOLEAN
        BY <1>2, ToSetTail DEF ReceiveState
    <2> QED
        BY <1>2, <2>1 DEF ReceiveState, world, store, fsvars, runvars
<1>3. ASSUME SendRemoteChange PROVE TypeOK'
    <2>1. chan' \in Seq(Triggers) /\ Len(chan') <= ChanCap
        BY <1>3, WholeType, ToSetAppend, LenProperties, CapAssumption DEF SendRemoteChange
    <2> QED
        BY <1>3, <2>1 DEF SendRemoteChange, world, store, fsvars, runvars
<1>4. ASSUME forward_manual_triggers PROVE TypeOK'
    <2>1. chan' \in Seq(Triggers) /\ Len(chan') <= ChanCap
        BY <1>4, WholeType, ToSetAppend, LenProperties, CapAssumption DEF forward_manual_triggers
    <2> QED
        BY <1>4, <2>1 DEF forward_manual_triggers, world, store, fsvars, ssevars, runvars
<1> QED
    BY <1>1, <1>2, <1>3, <1>4 DEF EventSource

\* The part of the runner that only connects and sleeps.
Session ==
    \/ Connected \/ CachedUrlFails \/ ConnectFails \/ OpenSession \/ SetupFails
    \/ SessionAborts \/ SleepsBackoff

LEMMA TypeSession == ASSUME TypeOK, Session PROVE TypeOK'
<1> USE DEF TypeOK
<1>1. ASSUME Connected PROVE TypeOK'
    <2>1. backoff' \in 1 .. MaxBackoff
        BY <1>1, CapAssumption DEF Connected, Doubled
    <2> QED
        BY <1>1, <2>1 DEF Connected, world, store, fsvars, ssevars
<1>2. ASSUME CachedUrlFails \/ ConnectFails PROVE TypeOK'
    BY <1>2 DEF CachedUrlFails, ConnectFails, world, store, fsvars, ssevars
<1>3. ASSUME OpenSession PROVE TypeOK'
    <2>1. last' \in Nat
        BY <1>3 DEF OpenSession
    <2> QED
        BY <1>3, <2>1 DEF OpenSession, world, store, fsvars
<1>4. ASSUME SetupFails PROVE TypeOK'
    <2>1. left' \in 0 .. Budget
        BY <1>4, FiniteAssumption DEF SetupFails, Spends
    <2> QED
        BY <1>4, <2>1 DEF SetupFails, world, store, fsvars, ssevars
<1>5. ASSUME SessionAborts \/ SleepsBackoff PROVE TypeOK'
    BY <1>5 DEF SessionAborts, SleepsBackoff, world, store, fsvars, ssevars
<1> QED
    BY <1>1, <1>2, <1>3, <1>4, <1>5 DEF Session

\* What a cycle makes of the disk, the server and the tables.
LEMMA AfterType ==
    ASSUME TypeOK, NEW f \in Files
    PROVE  SrvAfter(f) \in {"none", "-", "S"} /\ DbAfter(f) \in {"none", "-", "S"}
BY DEF TypeOK, SrvAfter, DbAfter, Changed

LEMMA TypeCycle ==
    ASSUME TypeOK, pc = "window" => batch # <<>>,
           Receive \/ WindowElapses \/ Scan \/ Exchange \/ CycleFailsTransient \/ CycleFailsHard
    PROVE  TypeOK'
<1> USE DEF TypeOK
<1>1. ASSUME Receive PROVE TypeOK'
    <2>1. chan' \in Seq(Triggers) /\ Len(chan') <= ChanCap /\ batch' \in Seq(Triggers)
        BY <1>1, ToSetTail, ToSetAppend, LenProperties, CapAssumption DEF Receive
    <2> QED
        BY <1>1, <2>1 DEF Receive, world, store, fsvars, ssevars
<1>2. ASSUME WindowElapses PROVE TypeOK'
    <2>1. batch' \in Seq(Triggers)
        BY <1>2, CoalesceIs DEF WindowElapses
    <2> QED
        BY <1>2, <2>1 DEF WindowElapses, world, store, fsvars, ssevars
<1>3. ASSUME Scan PROVE TypeOK'
    <2>1. /\ seen' \in [Files \cup Folders -> {"same", "deleted", "-", "S", "there"}]
          /\ \A f \in Files : seen'[f] # "there"
        BY <1>3, SeenAsType DEF Scan
    <2>2. excused' \subseteq Files \cup Folders \cup {Server}
        BY <1>3 DEF Scan
    <2> QED
        BY <1>3, <2>1, <2>2 DEF Scan, world, store, fsvars, ssevars
<1>4. ASSUME Exchange PROVE TypeOK'
    <2>1. state' \in Nat /\ cursor' \in 0 .. state' /\ push' \in Seq(Nat)
        <3>1. state' \in {state, state + 1} /\ push' \in {push, Append(push, state')}
            BY <1>4 DEF Exchange
        <3>2. cursor' \in {cursor, state'}
            BY <1>4 DEF Exchange
        <3>3. state' \in Nat /\ 0 .. state \subseteq 0 .. state' /\ state' \in 0 .. state'
            BY <3>1
        <3>4. cursor' \in 0 .. state'
            BY <3>2, <3>3
        <3>5. push' \in Seq(Nat)
            <4>1. push \in Seq(Nat) /\ Append(push, state') \in Seq(Nat)
                BY <3>3, AppendProperties
            <4> QED
                BY <3>1, <4>1, Zenon
        <3> QED
            BY <3>3, <3>4, <3>5
    <2>2. /\ disk' \in [Files -> Places \cup {"gone"}] /\ srv' \in [Files -> {"none", "-", "S"}]
          /\ db' \in [Files -> {"none", "-", "S"}]
        BY <1>4, AfterType, DiskAfterType DEF Exchange
    <2>3. events' \subseteq FilePaths \cup DirPaths /\ late' \subseteq events'
        <3>1. UNION {NamesOf(f) : f \in Written} \subseteq FilePaths
            BY NamesType DEF Written
        <3>2. events' = events \cup UNION {NamesOf(f) : f \in Written} /\ late' = late
            BY <1>4 DEF Exchange
        <3> QED
            BY <3>1, <3>2
    <2>4. young' \in [Files -> SUBSET FilePaths]
        BY <1>4, NamesType DEF Exchange
    <2>5. cache' \in Seq(SUBSET FilePaths)
        BY <1>4, RecordedIs DEF Exchange, Groups
    <2>6. bound' \subseteq Folders /\ dirs' \in [Folders -> {"absent", "unbound", "bound"}]
        BY <1>4 DEF Exchange
    <2>7. backoff' \in 1 .. MaxBackoff /\ batch' \in Seq(Triggers)
        BY <1>4, CapAssumption DEF Exchange
    <2>8. boot' \in BOOLEAN /\ pc' \in {"session", "recv"}
        BY <1>4 DEF Exchange
    <2>9. excused' \subseteq Files \cup Folders \cup {Server}
        <3>1. excused' \subseteq excused
            BY <1>4, Zenon DEF Exchange
        <3> QED
            BY <3>1
    <2> QED
        BY <1>4, <2>1, <2>2, <2>3, <2>4, <2>5, <2>6, <2>7, <2>8, <2>9 DEF Exchange
<1>5. ASSUME CycleFailsTransient PROVE TypeOK'
    <2>1. excused' \subseteq Files \cup Folders \cup {Server}
        <3>1. excused' = excused \cup Lost'
            BY <1>5 DEF CycleFailsTransient
        <3> QED
            BY <3>1, LostType
    <2>2. push' = <<>> /\ batch' = <<>> /\ sending' = FALSE /\ boot' = FALSE
        BY <1>5 DEF CycleFailsTransient, CycleFails
    <2>3. pc' \in {"session", "backoff"}
        BY <1>5 DEF CycleFailsTransient, CycleFails
    <2>4. batch' \in Seq(Triggers) /\ push' \in Seq(Nat)
        BY <2>2, EmptySeq
    <2> QED
        BY <1>5, <2>1, <2>2, <2>3, <2>4 DEF CycleFailsTransient, CycleFails, world, store, fsvars
<1>6. ASSUME CycleFailsHard PROVE TypeOK'
    <2>1. excused' \subseteq Files \cup Folders \cup {Server}
        <3>1. excused' = excused \cup Lost'
            BY <1>6 DEF CycleFailsHard
        <3> QED
            BY <3>1, LostType
    <2>2. batch' = <<>> /\ boot' = FALSE
        BY <1>6 DEF CycleFailsHard, CycleFails
    <2>3. pc' \in {"session", "recv"}
        BY <1>6 DEF CycleFailsHard, CycleFails
    <2>4. batch' \in Seq(Triggers)
        BY <2>2, EmptySeq
    <2> QED
        BY <1>6, <2>1, <2>2, <2>3, <2>4 DEF CycleFailsHard, CycleFails, world, store, fsvars
<1> HIDE DEF TypeOK
<1> QED
    BY <1>1, <1>2, <1>3, <1>4, <1>5, <1>6

-----------------------------------------------------------------------------
(* Where the runner is, and what it then holds.                            *)

\* A batch is being collected in the window, is one trigger from there on, and
\* is gone with the cycle; the initial sync starts from a full one.
Staged ==
    /\ pc = "window" => batch # <<>> /\ ~boot
    /\ pc \in {"scan", "exchange"} => \E t \in Triggers : batch = <<t>> /\ (boot => IsFull(t))
    /\ pc = "connect" => batch = IF boot THEN <<Whole("initial")>> ELSE <<>>
    /\ pc \in {"session", "recv", "backoff"} => batch = <<>> /\ ~boot

\* Between two sessions there is no stream, and nothing it could carry.
Offline ==
    pc # "dead" /\ (boot \/ pc \in {"connect", "session", "backoff"}) => stream = "off" /\ push = <<>>

Control == TypeOK /\ Staged /\ Offline

LEMMA InitControl == Init => Control
<1> SUFFICES ASSUME Init PROVE Control
    OBVIOUS
<1>1. TypeOK
    BY InitType
<1>2. Staged /\ Offline
    BY DEF Init, Staged, Offline
<1> QED
    BY <1>1, <1>2 DEF Control

\* Everything that is neither the runner's nor the stream's.
Beside == Watcher \/ Expires \/ forward_manual_triggers

LEMMA BesideUntouched ==
    ASSUME Beside
    PROVE  /\ UNCHANGED <<world, store, young, ssevars, runvars, left>>
           /\ Watcher \/ Expires => UNCHANGED permit
BY DEF Beside, Watcher, Flush, Forward, Expires, forward_manual_triggers, fsvars

LEMMA ControlStep == ASSUME Control, [Next]_vars PROVE Control'
<1> USE DEF Control
<1>1. CASE Environment
    <2>1. TypeOK'
        BY <1>1, TypeEnvironment
    <2>2. UNCHANGED runvars /\ (push' # push => stream = "open")
        BY <1>1 DEF Environment, UserActs, MakeFolder, RemoveFolder, MoveFolderOut, Churn, FolderActs,
                    RenameFolder, ServerActs, Pushed, LinkChanges, LinkRestored, PressesS, StreamFails,
                    ssevars
    <2>3. stream' # stream => stream = "open"
        BY <1>1 DEF Environment, UserActs, MakeFolder, RemoveFolder, MoveFolderOut, Churn, FolderActs,
                    RenameFolder, ServerActs, LinkChanges, LinkRestored, PressesS, StreamFails, ssevars
    <2> QED
        BY <2>1, <2>2, <2>3 DEF runvars, Staged, Offline
<1>2. CASE Beside
    <2>1. TypeOK'
        BY <1>2, TypeWatcher, TypeEvents DEF Beside
    <2> QED
        BY <1>2, <2>1, BesideUntouched DEF runvars, ssevars, Staged, Offline
<1>3. CASE EventSource
    <2>1. TypeOK'
        BY <1>3, TypeEvents
    <2>2. UNCHANGED runvars /\ (stream' # stream => stream # "off") /\ (push' # push => push # <<>>)
        BY <1>3 DEF EventSource, StreamOpens, Watchdog, ReceiveState, SendRemoteChange, ssevars
    <2> QED
        BY <2>1, <2>2 DEF runvars, Staged, Offline
<1>4. CASE Session
    <2>1. TypeOK'
        BY <1>4, TypeSession
    <2>2. UNCHANGED <<boot, batch, push>> /\ (stream' # stream => pc' = "recv")
        BY <1>4 DEF Session, Connected, CachedUrlFails, ConnectFails, OpenSession, SetupFails,
                    SessionAborts, SleepsBackoff, ssevars
    <2>3. \/ pc' \in {pc, "dead"}
          \/ pc = "connect" /\ pc' = IF boot THEN "scan" ELSE "session"
          \/ pc = "session" /\ pc' \in {"recv", "backoff"}
          \/ pc = "backoff" /\ pc' = "connect"
        BY <1>4 DEF Session, Connected, CachedUrlFails, ConnectFails, OpenSession, SetupFails,
                    SessionAborts, SleepsBackoff
    <2>4. Whole("initial") \in Triggers /\ IsFull(Whole("initial"))
        BY WholeType DEF Whole, IsFull
    <2>5. Staged'
        BY <2>2, <2>3, <2>4 DEF Staged
    <2>6. Offline'
        BY <2>2, <2>3 DEF Offline, Staged
    <2> QED
        BY <2>1, <2>5, <2>6
<1>5. CASE Receive
    <2>1. TypeOK'
        BY <1>5, TypeCycle DEF Staged
    <2>2. batch' # <<>>
        <3>1. Head(chan) \in Triggers /\ batch \in Seq(Triggers) /\ batch' = Append(batch, Head(chan))
            BY <1>5, ToSetTail DEF Receive, TypeOK
        <3> QED
            BY <3>1, AppendProperties
    <2> QED
        BY <1>5, <2>1, <2>2 DEF Receive, ssevars, Staged, Offline
<1>6. CASE WindowElapses
    <2>1. TypeOK'
        BY <1>6, TypeCycle DEF Staged
    <2>2. coalesce_triggers(batch) \in Triggers
        BY <1>6, CoalesceIs DEF WindowElapses, Staged, TypeOK
    <2> QED
        BY <1>6, <2>1, <2>2 DEF WindowElapses, ssevars, Staged, Offline
<1>7. CASE Scan
    <2>1. TypeOK'
        BY <1>7, TypeCycle DEF Staged
    <2> QED
        BY <1>7, <2>1 DEF Scan, ssevars, Staged, Offline
<1>8. CASE Exchange
    <2>1. TypeOK'
        BY <1>8, TypeCycle DEF Staged
    <2>2. /\ batch' = <<>> /\ boot' = FALSE /\ pc' = IF boot THEN "session" ELSE "recv"
          /\ UNCHANGED <<stream, url>> /\ (push' # push => stream = "open")
        BY <1>8 DEF Exchange
    <2> QED
        BY <1>8, <2>1, <2>2 DEF Exchange, Staged, Offline
<1>9. CASE CycleFailsTransient \/ CycleFailsHard
    <2>1. TypeOK'
        BY <1>9, TypeCycle DEF Staged
    <2> QED
        BY <1>9, <2>1 DEF CycleFailsTransient, CycleFailsHard, CycleFails, Staged, Offline
<1>10. CASE UNCHANGED vars
    BY <1>10 DEF vars, world, store, fsvars, ssevars, runvars, TypeOK, Staged, Offline
<1> QED
    BY <1>1, <1>2, <1>3, <1>4, <1>5, <1>6, <1>7, <1>8, <1>9, <1>10
       DEF Next, Runner, Session, Beside

\* Nothing the daemon does takes a variable out of its type, and no trigger is
\* put into a channel that is full: for any capacities, files and folders.
THEOREM WatchTypeCorrect == Spec => []TypeOK
<1>1. Init => Control
    BY InitControl
<1>2. Control /\ [Next]_vars => Control'
    BY ControlStep
<1>3. Control => TypeOK
    BY DEF Control
<1> QED
    BY <1>1, <1>2, <1>3, PTL DEF Spec

-----------------------------------------------------------------------------
(* The way of one file: a change, the names it left in the debouncer, the  *)
(* triggers that carry them, the scan, the exchange.                       *)

PathsOf(S, f) == {p \in S \cap FilePaths : p[1] = f}
PathsIn(T) == UNION {t.paths : t \in T}
InChannels == PathsIn(ToSet(notifyQ) \cup ToSet(chan))
InBatch == IF pc \in {"window", "scan"} THEN PathsIn(ToSet(batch)) ELSE {}
Carried == InChannels \cup InBatch
Underway(f) == PathsOf(events \cup Carried, f)
Here(f) == <<f, disk[f]>>

\* An id no file has had yet is nowhere.
Unborn(f) == f \in fresh => disk[f] = "gone" /\ db[f] = "none" /\ srv[f] = "none"

\* One change at a time: what the server has done to a file is fetched before
\* anybody touches the file.
InTurn(f) == srv[f] # db[f] => ~Differs(f) /\ Underway(f) = {}

\* The names on their way are those of the last rename.
Bursts(f) ==
    /\ young[f] \subseteq {f} \X Places /\ Underway(f) \subseteq young[f]
    /\ young[f] # {} /\ disk[f] # "gone" => Here(f) \in young[f]
    /\ disk[f] = "new" => young[f] \subseteq {Here(f)}

\* A burst is only split when none of it is an own write.
Uncached(f) == PathsOf(late, f) # {} => young[f] \cap Cached = {}

\* While a part of a burst is on its way to a scan, the rest is late, and the
\* name the file has now is with the one or the other.
Together(f) ==
    /\ PathsOf(Carried, f) # {} => PathsOf(events, f) \subseteq late
    /\ PathsOf(Carried, f) # {} /\ disk[f] # "gone" => Here(f) \in Carried \cup late
    /\ PathsOf(events, f) # {} /\ disk[f] # "gone" /\ Here(f) \notin events =>
          PathsOf(events, f) \subseteq late /\ Here(f) \in Carried

\* Once the window has closed on a burst, nothing of it is left behind.
Complete(f) ==
    pc = "scan" /\ PathsOf(batch[1].paths, f) # {} => PathsOf(events \cup InChannels, f) = {}

\* What a cycle acts on is still so when it acts.
Exact(f) == pc = "exchange" /\ Changed(f) => Differs(f) /\ seen[f] = FullVerdict(f)

FileInv(f) ==
    Unborn(f) /\ InTurn(f) /\ Bursts(f) /\ Uncached(f) /\ Together(f) /\ Complete(f) /\ Exact(f)

FilesInv == \A f \in Files : FileInv(f)

LEMMA PathsInUnion == \A A, B : PathsIn(A \cup B) = PathsIn(A) \cup PathsIn(B)
BY DEF PathsIn

LEMMA PathsInOne == \A t : PathsIn({t}) = t.paths /\ PathsIn({}) = {}
BY DEF PathsIn

LEMMA InFlightIs == UNION {t.paths : t \in TriggersInFlight} = Carried
<1>1. PathsIn(TriggersInFlight) = Carried
    BY PathsInUnion, PathsInOne DEF TriggersInFlight, Carried, InChannels, InBatch
<1> QED
    BY <1>1 DEF PathsIn

\* For an account that may not overlap its changes, Settled is what InTurn needs.
LEMMA SettledIs ==
    ASSUME NEW f, Settled(f)
    PROVE  Underway(f) = {} /\ ~Differs(f) /\ srv[f] = db[f]
BY InFlightIs DEF Settled, Underway, PathsOf

LEMMA InitFiles == Init => FilesInv
<1> SUFFICES ASSUME Init, NEW f \in Files PROVE FileInv(f)
    BY DEF FilesInv
<1>1. Carried = {} /\ events = {} /\ late = {} /\ young[f] = {} /\ pc = "connect"
    <2>1. ToSet(notifyQ) = {} /\ ToSet(chan) = {}
        BY ToSetEmpty DEF Init
    <2> QED
        BY <2>1, PathsInOne DEF Init, Carried, InChannels, InBatch
<1>2. Underway(f) = {} /\ PathsOf(late, f) = {} /\ PathsOf(Carried, f) = {} /\ PathsOf(events, f) = {}
    BY <1>1 DEF Underway, PathsOf
<1>3. srv[f] = db[f] /\ (f \in fresh => disk[f] = "gone" /\ srv[f] = "none")
    BY DEF Init
<1> QED
    BY <1>1, <1>2, <1>3 DEF FileInv, Unborn, InTurn, Bursts, Uncached, Together, Complete, Exact

\* A step that moves triggers at most, from one channel to the next.
Frame ==
    /\ UNCHANGED <<disk, fresh, srv, db, young, late>>
    /\ events' \cap FilePaths = events \cap FilePaths
    /\ Cached' \subseteq Cached
    /\ Carried' = Carried
    /\ pc' = "scan" => \/ pc = "scan" /\ batch' = batch /\ InChannels' = InChannels
                       \/ batch'[1].paths = {}
    /\ pc' = "exchange" => pc = "exchange" /\ seen' = seen

LEMMA FrameKept == ASSUME FilesInv, Frame PROVE FilesInv'
<1> SUFFICES ASSUME NEW f \in Files PROVE FileInv(f)'
    BY DEF FilesInv
<1> USE DEF Frame
<1>0. FileInv(f)
    BY DEF FilesInv
<1>1. \A S, T : S \cap FilePaths = T \cap FilePaths => PathsOf(S, f) = PathsOf(T, f)
    BY DEF PathsOf
<1>2. /\ Underway(f)' = Underway(f) /\ PathsOf(events, f)' = PathsOf(events, f)
      /\ PathsOf(Carried, f)' = PathsOf(Carried, f) /\ PathsOf(late, f)' = PathsOf(late, f)
    BY DEF Underway, PathsOf
<1>3. Here(f)' = Here(f) /\ Differs(f)' = Differs(f) /\ FullVerdict(f)' = FullVerdict(f)
    BY DEF Here, Differs, FullVerdict
<1>4. Unborn(f)' /\ InTurn(f)' /\ Bursts(f)' /\ Uncached(f)'
    BY <1>0, <1>2, <1>3 DEF FileInv, Unborn, InTurn, Bursts, Uncached
<1>5. Together(f)'
    <2>1. disk[f] # "gone" /\ PathsOf(events, f) # {} => (Here(f) \in events' <=> Here(f) \in events)
        <3>1. ASSUME disk[f] # "gone", PathsOf(events, f) # {} PROVE Here(f) \in FilePaths
            <4>1. Here(f) \in young[f]
                BY <1>0, <3>1 DEF FileInv, Bursts, Underway, PathsOf
            <4> QED
                BY <1>0, <4>1 DEF FileInv, Bursts, FilePaths
        <3> QED
            BY <3>1
    <2> QED
        BY <1>0, <1>2, <1>3, <2>1 DEF FileInv, Together
<1>6. Complete(f)'
    <2>1. CASE pc' = "scan" /\ batch'[1].paths = {}
        BY <2>1 DEF Complete, PathsOf
    <2>2. CASE pc' = "scan" /\ pc = "scan" /\ batch' = batch /\ InChannels' = InChannels
        <3>1. PathsOf(events \cup InChannels, f)' = PathsOf(events \cup InChannels, f)
            BY <2>2 DEF PathsOf
        <3> QED
            BY <1>0, <2>2, <3>1 DEF FileInv, Complete
    <2> QED
        BY <2>1, <2>2 DEF Complete
<1>7. Exact(f)'
    BY <1>0, <1>3 DEF FileInv, Exact, Changed
<1> QED
    BY <1>4, <1>5, <1>6, <1>7 DEF FileInv

\* Steps of the environment that leave the files alone.
Elsewhere ==
    \/ \E d \in Folders : MakeFolder(d) \/ RemoveFolder(d) \/ MoveFolderOut(d) \/ Churn(d)
    \/ \E d, e \in Folders : RenameFolder(d, e)
    \/ \E to \in Links : LinkChanges(to)
    \/ LinkRestored
    \/ PressesS
    \/ \E to \in {"closed", "stale"} : StreamFails(to)

LEMMA DirPathsApart ==
    DirPaths \cap FilePaths = {} /\ \A d \in Folders, k \in {"dir", "trio"} : <<d, k>> \in DirPaths
BY DisjointAssumption DEF DirPaths, FilePaths

LEMMA ElsewhereFrame ==
    ASSUME Elsewhere
    PROVE  Frame /\ UNCHANGED <<notifyQ, chan, batch, pc, boot, seen, db, cursor, bound, state>>
<1>1. UNCHANGED <<disk, fresh, srv, state, store, young, late, cache, notifyQ, chan, runvars>>
    BY DEF Elsewhere, MakeFolder, RemoveFolder, MoveFolderOut, Churn, FolderActs, RenameFolder,
           LinkChanges, LinkRestored, PressesS, StreamFails, fsvars, world
<1>2. events' \cap FilePaths = events \cap FilePaths
    <2>1. \E x \in SUBSET DirPaths : events' = events \cup x
        <3>1. CASE \E d \in Folders : MakeFolder(d) \/ RemoveFolder(d) \/ MoveFolderOut(d) \/ Churn(d)
            BY <3>1, DirPathsApart DEF MakeFolder, RemoveFolder, MoveFolderOut, Churn, FolderActs
        <3>2. CASE \E d, e \in Folders : RenameFolder(d, e)
            BY <3>2, DirPathsApart DEF RenameFolder
        <3>3. CASE events' = events
            <4> WITNESS {} \in SUBSET DirPaths
            <4> QED
                BY <3>3
        <3> QED
            BY <3>1, <3>2, <3>3 DEF Elsewhere, LinkChanges, LinkRestored, PressesS, StreamFails, fsvars
    <2> QED
        BY <2>1, DirPathsApart
<1>3. Cached' = Cached /\ Carried' = Carried /\ InChannels' = InChannels
    BY <1>1 DEF Cached, Carried, InChannels, InBatch, runvars
<1> QED
    BY <1>1, <1>2, <1>3 DEF Frame, runvars, store

\* What is in the channels, when a trigger leaves one or enters the other.
LEMMA WholeIs ==
    ASSUME NEW k \in {"remote", "manual", "initial"}
    PROVE  Whole(k) \in Triggers /\ IsFull(Whole(k)) /\ Whole(k).paths = {}
BY DEF Whole, Triggers, IsFull

LEMMA ForwardFrame ==
    ASSUME TypeOK, Forward
    PROVE  Frame /\ ToSet(notifyQ') \cup ToSet(chan') = ToSet(notifyQ) \cup ToSet(chan)
<1>1. ToSet(notifyQ') \cup ToSet(chan') = ToSet(notifyQ) \cup ToSet(chan)
    <2>1. notifyQ \in Seq(Triggers) /\ chan \in Seq(Triggers) /\ notifyQ # <<>>
        BY DEF TypeOK, Forward
    <2>2. Head(notifyQ) \in Triggers /\ ToSet(notifyQ) = ToSet(Tail(notifyQ)) \cup {Head(notifyQ)}
        BY <2>1, ToSetTail
    <2>3. ToSet(Append(chan, Head(notifyQ))) = ToSet(chan) \cup {Head(notifyQ)}
        BY <2>1, <2>2, ToSetAppend
    <2> QED
        BY <2>2, <2>3 DEF Forward
<1>2. InChannels' = InChannels
    BY <1>1 DEF InChannels
<1> QED
    BY <1>1, <1>2 DEF Forward, Frame, Cached, Carried, InBatch, world, store, runvars

LEMMA ExpiresFrame == ASSUME TypeOK, Expires PROVE Frame
<1>1. Cached' \subseteq Cached
    BY CachedTail DEF Expires, TypeOK, Groups, Cached
<1> QED
    BY <1>1 DEF Expires, Frame, Carried, InChannels, InBatch, world, store, runvars

\* SendRemoteChange, forward_manual_triggers.
Sends(k) ==
    /\ chan' = Append(chan, Whole(k))
    /\ UNCHANGED <<world, store, fsvars, runvars>>

LEMMA SendsFrame ==
    ASSUME TypeOK, NEW k \in {"remote", "manual", "initial"}, Sends(k)
    PROVE  Frame /\ ToSet(chan') = ToSet(chan) \cup {Whole(k)} /\ IsFull(Whole(k))
<1>1. ToSet(chan') = ToSet(chan) \cup {Whole(k)}
    BY WholeIs, ToSetAppend DEF TypeOK, Sends
<1>2. InChannels' = InChannels
    <2>1. ToSet(notifyQ') \cup ToSet(chan') = (ToSet(notifyQ) \cup ToSet(chan)) \cup {Whole(k)}
        BY <1>1 DEF Sends, fsvars
    <2>2. PathsIn({Whole(k)}) = {}
        BY WholeIs, PathsInOne
    <2>3. InChannels' = PathsIn((ToSet(notifyQ) \cup ToSet(chan)) \cup {Whole(k)})
        BY <2>1 DEF InChannels
    <2> QED
        BY <2>2, <2>3, PathsInUnion DEF InChannels
<1> QED
    BY <1>1, <1>2, WholeIs DEF Sends, Frame, Cached, Carried, InBatch, world, store, fsvars, runvars

LEMMA EventsFrame ==
    ASSUME TypeOK, EventSource \/ forward_manual_triggers
    PROVE  Frame
<1>1. ASSUME StreamOpens \/ Watchdog \/ ReceiveState PROVE Frame
    BY <1>1 DEF StreamOpens, Watchdog, ReceiveState, Frame, Cached, Carried, InChannels, InBatch,
                world, store, fsvars, runvars
<1>2. ASSUME SendRemoteChange PROVE Sends("remote")
    BY <1>2 DEF SendRemoteChange, Sends
<1>3. ASSUME forward_manual_triggers PROVE Sends("manual")
    BY <1>3 DEF forward_manual_triggers, Sends
<1> QED
    BY <1>1, <1>2, <1>3, SendsFrame DEF EventSource

LEMMA SessionFrame ==
    ASSUME Control, Session
    PROVE  Frame /\ UNCHANGED <<world, store, fsvars, chan, permit, batch, seen, boot, excused, push, sending>>
<1>1. /\ UNCHANGED <<world, store, fsvars, chan, permit, batch, seen, boot, excused, push, sending>>
      /\ pc \in {"connect", "session", "backoff"}
      /\ pc' \in {"connect", "session", "recv", "backoff", "dead"} \/ (pc = "connect" /\ pc' = "scan" /\ boot)
    BY DEF Session, Connected, CachedUrlFails, ConnectFails, OpenSession, SetupFails, SessionAborts,
           SleepsBackoff, ssevars
<1>2. pc' = "scan" => batch' = <<Whole("initial")>>
    BY <1>1 DEF Control, Staged
<1>3. InBatch' = {} /\ InBatch = {}
    <2>1. InBatch = {}
        BY <1>1 DEF InBatch
    <2>2. CASE pc' = "scan"
        <3>1. ToSet(<<Whole("initial")>>) = {Whole("initial")}
            BY DEF ToSet
        <3>2. InBatch' = PathsIn({Whole("initial")})
            BY <1>2, <2>2, <3>1 DEF InBatch
        <3> QED
            BY <2>1, <3>2, PathsInOne, WholeIs
    <2>3. CASE pc' # "scan"
        BY <1>1, <2>3 DEF InBatch
    <2> QED
        BY <2>1, <2>2, <2>3
<1>4. Carried' = Carried /\ Cached' = Cached
    BY <1>1, <1>3 DEF Carried, InChannels, Cached, fsvars
<1>5. pc' = "scan" => batch'[1].paths = {}
    BY <1>2, WholeIs
<1> QED
    BY <1>1, <1>4, <1>5 DEF Frame, world, store, fsvars

LEMMA ReceiveFrame ==
    ASSUME Control, Receive
    PROVE  /\ Frame /\ pc' = "window"
           /\ ToSet(chan') \cup ToSet(batch') = ToSet(chan) \cup (IF pc = "window" THEN ToSet(batch) ELSE {})
<1>1. chan \in Seq(Triggers) /\ batch \in Seq(Triggers) /\ chan # <<>>
    BY DEF Control, TypeOK, Receive
<1>2. Head(chan) \in Triggers /\ ToSet(chan) = ToSet(Tail(chan)) \cup {Head(chan)}
    BY <1>1, ToSetTail
<1>3. ToSet(Append(batch, Head(chan))) = ToSet(batch) \cup {Head(chan)}
    BY <1>1, <1>2, ToSetAppend
<1>4. pc = "recv" => ToSet(batch) = {}
    BY ToSetEmpty DEF Control, Staged
<1>5. ToSet(chan') \cup ToSet(batch') = ToSet(chan) \cup (IF pc = "window" THEN ToSet(batch) ELSE {})
    BY <1>2, <1>3, <1>4 DEF Receive
<1>6. Carried' = Carried
    <2> DEFINE W == IF pc = "window" THEN ToSet(batch) ELSE {}
    <2>1. InBatch = PathsIn(W) /\ InBatch' = PathsIn(ToSet(batch'))
        BY PathsInOne DEF InBatch, Receive
    <2>2. Carried = PathsIn(ToSet(notifyQ)) \cup PathsIn(ToSet(chan) \cup W)
        <3>1. InChannels = PathsIn(ToSet(notifyQ)) \cup PathsIn(ToSet(chan))
            BY PathsInUnion DEF InChannels
        <3>2. PathsIn(ToSet(chan) \cup W) = PathsIn(ToSet(chan)) \cup PathsIn(W)
            BY PathsInUnion
        <3> QED
            BY <2>1, <3>1, <3>2 DEF Carried
    <2>3. Carried' = PathsIn(ToSet(notifyQ')) \cup PathsIn(ToSet(chan') \cup ToSet(batch'))
        <3>1. InChannels' = PathsIn(ToSet(notifyQ')) \cup PathsIn(ToSet(chan'))
            BY PathsInUnion DEF InChannels
        <3>2. PathsIn(ToSet(chan') \cup ToSet(batch')) = PathsIn(ToSet(chan')) \cup PathsIn(ToSet(batch'))
            BY PathsInUnion
        <3> QED
            BY <2>1, <3>1, <3>2 DEF Carried
    <2> QED
        BY <1>5, <2>2, <2>3 DEF Receive, fsvars
<1> QED
    BY <1>5, <1>6 DEF Receive, Frame, Cached, world, store, fsvars

LEMMA BatchIs ==
    ASSUME Control, pc \in {"scan", "exchange"}
    PROVE  /\ batch = <<batch[1]>> /\ batch[1] \in Triggers /\ ToSet(batch) = {batch[1]}
           /\ boot => IsFull(batch[1])
           /\ pc = "scan" => InBatch = batch[1].paths
<1>1. PICK t \in Triggers : batch = <<t>> /\ (boot => IsFull(t))
    BY DEF Control, Staged
<1>2. batch[1] = t /\ ToSet(batch) = {t}
    BY <1>1 DEF ToSet
<1> QED
    BY <1>1, <1>2, PathsInOne DEF InBatch

LEMMA UserActsFiles ==
    ASSUME FilesInv, Control, ~Overlaps, NEW f \in Files, NEW to \in {"gone", "cur", "curS"},
           UserActs(f, to)
    PROVE  FilesInv'
<1> SUFFICES ASSUME NEW g \in Files PROVE FileInv(g)'
    BY DEF FilesInv
<1>0. FileInv(g)
    BY DEF FilesInv
<1>10. TypeOK
    BY DEF Control
<1> DEFINE names == {<<f, disk[f]>>, <<f, to>>} \cap FilePaths
<1>1. /\ disk' = [disk EXCEPT ![f] = to] /\ fresh' = fresh \ {f} /\ to # disk[f]
      /\ events' = events \cup names /\ young' = [young EXCEPT ![f] = names]
      /\ UNCHANGED <<srv, db, late, cache, notifyQ, chan, pc, batch, seen>>
    BY DEF UserActs, store, runvars
<1>2. Carried' = Carried /\ Cached' = Cached /\ InChannels' = InChannels
    BY <1>1 DEF Carried, Cached, InChannels, InBatch
<1>3. Underway(f) = {} /\ ~Differs(f) /\ srv[f] = db[f]
    BY SettledIs DEF UserActs
<1>4. /\ PathsOf(events, f) = {} /\ PathsOf(Carried, f) = {} /\ PathsOf(InChannels, f) = {}
      /\ PathsOf(late, f) = {}
    BY <1>3, <1>10 DEF Underway, PathsOf, Carried, TypeOK
<1>5. names \subseteq {f} \X Places /\ names \subseteq FilePaths
    BY DEF FilePaths
<1>6. to # "gone" => <<f, to>> \in names
    BY DEF FilePaths, Places
<1>7. disk[g] \in Places \cup {"gone"} /\ young[g] \subseteq FilePaths
    BY <1>10 DEF TypeOK
<1> HIDE DEF names
<1>8. CASE g = f
    <2>1. disk'[g] = to /\ young'[g] = names /\ g \notin fresh'
        BY <1>1, <1>8, <1>10 DEF TypeOK
    <2>2. PathsOf(events', g) = names /\ Underway(g)' = names /\ PathsOf(Carried', g) = {}
        BY <1>1, <1>2, <1>4, <1>5, <1>8 DEF PathsOf, Underway
    <2>3. Unborn(g)' /\ InTurn(g)' /\ Uncached(g)'
        BY <1>1, <1>3, <1>4, <1>8, <2>1 DEF Unborn, InTurn, Uncached
    <2>4. Bursts(g)'
        BY <1>5, <1>6, <1>8, <2>1, <2>2 DEF Bursts, Here
    <2>5. Together(g)'
        BY <1>1, <1>6, <1>8, <2>1, <2>2 DEF Together, Here
    <2>6. Complete(g)'
        <3>1. pc = "scan" => batch[1].paths \subseteq Carried
            BY BatchIs DEF Carried
        <3> QED
            BY <1>1, <1>4, <1>8, <3>1 DEF Complete, PathsOf
    <2>7. Exact(g)'
        BY <1>0, <1>1, <1>3, <1>8 DEF Exact, FileInv, Changed
    <2> QED
        BY <2>3, <2>4, <2>5, <2>6, <2>7 DEF FileInv
<1>9. CASE g # f
    <2>1. disk'[g] = disk[g] /\ young'[g] = young[g] /\ (g \in fresh' <=> g \in fresh)
        BY <1>1, <1>9, <1>10 DEF TypeOK
    <2>2. /\ PathsOf(events', g) = PathsOf(events, g) /\ Underway(g)' = Underway(g)
          /\ PathsOf(events \cup InChannels, g)' = PathsOf(events \cup InChannels, g)
        BY <1>1, <1>2, <1>5, <1>9 DEF PathsOf, Underway
    <2>3. Here(g)' = Here(g) /\ Differs(g)' = Differs(g) /\ FullVerdict(g)' = FullVerdict(g)
        BY <1>1, <2>1 DEF Here, Differs, FullVerdict
    <2>4. Here(g) \in events' <=> Here(g) \in events
        BY <1>1, <1>5, <1>9 DEF Here
    <2> QED
        BY <1>0, <1>1, <1>2, <2>1, <2>2, <2>3, <2>4
           DEF FileInv, Unborn, InTurn, Bursts, Uncached, Together, Complete, Exact, Changed
<1> QED
    BY <1>8, <1>9

LEMMA ServerActsFiles ==
    ASSUME FilesInv, TypeOK, ~Overlaps, NEW f \in Files, NEW to \in {"none", "-", "S"}, ServerActs(f, to)
    PROVE  FilesInv'
<1> SUFFICES ASSUME NEW g \in Files PROVE FileInv(g)'
    BY DEF FilesInv
<1>0. FileInv(g)
    BY DEF FilesInv
<1>1. /\ fresh' = fresh \ {f} /\ srv' = [srv EXCEPT ![f] = to]
      /\ UNCHANGED <<disk, db, events, young, late, cache, notifyQ, chan, pc, batch, seen>>
    BY DEF ServerActs, store, fsvars, runvars
<1>2. Carried' = Carried /\ Cached' = Cached /\ InChannels' = InChannels
    BY <1>1 DEF Carried, Cached, InChannels, InBatch
<1>3. Underway(f) = {} /\ ~Differs(f)
    BY SettledIs DEF ServerActs
<1>4. /\ Underway(g)' = Underway(g) /\ Differs(g)' = Differs(g) /\ Here(g)' = Here(g)
      /\ FullVerdict(g)' = FullVerdict(g)
    BY <1>1, <1>2 DEF Underway, Differs, Here, FullVerdict
<1>5. Unborn(g)' /\ InTurn(g)'
    <2>1. CASE g = f
        BY <1>1, <1>3, <1>4, <2>1 DEF Unborn, InTurn
    <2>2. CASE g # f
        BY <1>0, <1>1, <1>4, <2>2 DEF FileInv, Unborn, InTurn, TypeOK
    <2> QED
        BY <2>1, <2>2
<1> QED
    BY <1>0, <1>1, <1>2, <1>4, <1>5 DEF FileInv, Bursts, Uncached, Together, Complete, Exact, Changed

LEMMA FlushFiles ==
    ASSUME FilesInv, Control, ~SplitsEchoes, NEW S \in SUBSET events, Flush(S)
    PROVE  FilesInv'
<1> SUFFICES ASSUME NEW f \in Files PROVE FileInv(f)'
    BY DEF FilesInv
<1> DEFINE m == Surviving(S \cap FilePaths)
<1>0. FileInv(f) /\ TypeOK
    BY DEF FilesInv, Control
<1>1. /\ UNCHANGED <<disk, fresh, srv, db, young, chan, pc, batch, seen>>
      /\ events' = events \ S
      /\ late' = (late \cup UNION {young[g] : g \in {h \in Files : young[h] \cap S # {}}}) \cap events'
    BY DEF Flush, world, store, runvars
<1>2. InChannels' = InChannels \cup m /\ m \subseteq S /\ m \subseteq FilePaths
    <2>1. ToSet(notifyQ') = ToSet(notifyQ) \cup classify_batch(S)
        <3>1. S \in SUBSET (FilePaths \cup DirPaths)
            BY <1>0 DEF TypeOK
        <3>2. SetToSeq(classify_batch(S)) \in Seq(classify_batch(S)) /\ classify_batch(S) \subseteq Triggers
              /\ ToSet(SetToSeq(classify_batch(S))) = classify_batch(S)
            BY <3>1, ClassifyIs, SetToSeqOfOne
        <3>3. SetToSeq(classify_batch(S)) \in Seq(Triggers)
            BY <3>2, SeqMonotonic
        <3> QED
            BY <1>0, <3>2, <3>3, ToSetConcat DEF Flush, TypeOK
    <2>2. PathsIn(classify_batch(S)) = m
        <3>1. S \in SUBSET (FilePaths \cup DirPaths)
            BY <1>0 DEF TypeOK
        <3>2. /\ \A t \in classify_batch(S) : t.paths = m
              /\ m # {} => classify_batch(S) # {}
            BY <3>1, ClassifyIs
        <3> HIDE DEF m
        <3> QED
            BY <3>2 DEF PathsIn
    <2>4. m \subseteq S /\ m \subseteq FilePaths
        BY DEF Surviving
    <2> HIDE DEF m
    <2>5. InChannels' = PathsIn((ToSet(notifyQ) \cup ToSet(chan)) \cup classify_batch(S))
        <3>1. (ToSet(notifyQ) \cup classify_batch(S)) \cup ToSet(chan)
                 = (ToSet(notifyQ) \cup ToSet(chan)) \cup classify_batch(S)
            OBVIOUS
        <3> QED
            BY <1>1, <2>1, <3>1 DEF InChannels
    <2> QED
        BY <2>2, <2>4, <2>5, PathsInUnion DEF InChannels
<1>3. Carried' = Carried \cup m
    BY <1>1, <1>2 DEF Carried, InBatch
<1>4. Cached' \subseteq Cached
    BY <1>0, WithoutIs DEF Flush, TypeOK, Groups, Cached
<1>5. /\ young[f] \subseteq {f} \X Places /\ Underway(f) \subseteq young[f]
      /\ young[f] # {} /\ disk[f] # "gone" => Here(f) \in young[f]
      /\ disk[f] = "new" => young[f] \subseteq {Here(f)}
    BY <1>0 DEF FileInv, Bursts
\* What S has of f is of the last burst, whose rest is late from now on.
<1>6. PathsOf(S, f) # {} => young[f] \cap events' \subseteq late'
    <2>1. PathsOf(S, f) \subseteq young[f] \cap S
        BY <1>5 DEF Underway, PathsOf
    <2> QED
        BY <1>1, <2>1
\* A batch is dropped when f is still in new/ under the one name it has, or when
\* all of the burst is in S.
<1>7. ASSUME disk[f] # "gone", Here(f) \in S, Here(f) \notin m
      PROVE  PathsOf(events', f) = {} /\ (PathsOf(Carried, f) # {} => Here(f) \in Carried)
    <2>1. Here(f) \in young[f] /\ Here(f) \in FilePaths /\ Here(f) \in PathsOf(S, f)
        <3>1. Here(f) \in FilePaths
            BY <1>0, <1>7 DEF Here, FilePaths, TypeOK
        <3> QED
            BY <1>5, <1>7, <3>1 DEF Underway, PathsOf, Here
    <2>2. CASE disk[f] = "new"
        <3>1. young[f] \subseteq {Here(f)}
            BY <1>5, <2>2
        <3>2. PathsOf(events, f) \subseteq {Here(f)} /\ PathsOf(Carried, f) \subseteq {Here(f)}
            BY <1>5, <3>1 DEF Underway, PathsOf
        <3> QED
            BY <1>1, <1>7, <3>2 DEF PathsOf
    <2>3. CASE disk[f] # "new"
        <3>1. disk[f] \in {"cur", "curS"}
            BY <1>0, <1>7, <2>3 DEF TypeOK, Places
        <3>2. batch_might_emit_changes(S \cap FilePaths)
            BY <1>7, <2>1, <3>1 DEF batch_might_emit_changes, Here
        <3>3. S \cap FilePaths \subseteq Cached
            BY <1>7, <2>1, <3>2 DEF Surviving, matches_all
        <3>4. young[f] \cap Cached # {} /\ S \cap {p \in events : p[1] = f} # {}
            BY <1>7, <2>1, <3>3 DEF Here
        <3>5. {p \in events : p[1] = f} \subseteq S
            BY <3>4 DEF Flush, CanEmit
        <3>6. PathsOf(late, f) = {}
            BY <1>0, <3>4 DEF FileInv, Uncached
        <3>7. PathsOf(Carried, f) # {} => Here(f) \in Carried
            BY <1>0, <1>7, <2>1, <3>6 DEF FileInv, Together, PathsOf, Here
        <3> QED
            BY <1>1, <3>5, <3>7 DEF PathsOf
    <2> QED
        BY <2>2, <2>3
<1>8. Unborn(f)' /\ InTurn(f)' /\ Bursts(f)'
    <2>1. Underway(f)' \subseteq Underway(f)
        BY <1>1, <1>2, <1>3 DEF Underway, PathsOf
    <2>2. Differs(f)' = Differs(f) /\ Here(f)' = Here(f)
        BY <1>1 DEF Differs, Here
    <2> QED
        BY <1>0, <1>1, <2>1, <2>2 DEF FileInv, Unborn, InTurn, Bursts
<1>9. Uncached(f)'
    <2>1. SUFFICES ASSUME PathsOf(late', f) # {} PROVE young[f] \cap Cached = {}
        BY <1>1, <1>4 DEF Uncached
    <2>2. CASE PathsOf(late, f) # {}
        BY <1>0, <2>2 DEF FileInv, Uncached
    <2>3. CASE PathsOf(late, f) = {}
        <3>1. PICK p \in late' : p \in FilePaths /\ p[1] = f
            BY <2>1 DEF PathsOf
        <3>2. PICK g \in Files : young[g] \cap S # {} /\ p \in young[g]
            BY <1>1, <2>3, <3>1 DEF PathsOf
        <3>3. g = f
            BY <3>1, <3>2 DEF FilesInv, FileInv, Bursts
        <3>4. p \in events /\ p \notin S
            BY <1>1, <3>1
        <3>5. S \cap {q \in events : q[1] = f} # {}
            BY <1>5, <3>2, <3>3
        <3> QED
            BY <3>1, <3>4, <3>5 DEF Flush, CanEmit
    <2> QED
        BY <2>2, <2>3
<1>10. Together(f)'
    <2>1. PathsOf(events', f) \subseteq PathsOf(events, f) /\ PathsOf(events, f) \subseteq young[f]
          /\ PathsOf(Carried, f) \subseteq young[f] /\ PathsOf(m, f) \subseteq PathsOf(S, f)
          /\ PathsOf(S, f) \subseteq PathsOf(events, f)
        BY <1>1, <1>2, <1>5 DEF PathsOf, Underway
    <2>2. PathsOf(Carried', f) = PathsOf(Carried, f) \cup PathsOf(m, f)
        BY <1>3 DEF PathsOf
    <2>3. PathsOf(events, f) \subseteq late => PathsOf(events', f) \subseteq late'
        BY <1>1 DEF PathsOf
    <2>4. PathsOf(S, f) # {} => PathsOf(events', f) \subseteq late'
        BY <1>6, <2>1 DEF PathsOf
    <2>5. PathsOf(Carried', f) # {} => PathsOf(events', f) \subseteq late'
        BY <1>0, <2>1, <2>2, <2>3, <2>4 DEF FileInv, Together
    <2>6. ASSUME PathsOf(Carried', f) # {}, disk[f] # "gone" PROVE Here(f) \in Carried' \cup late'
        <3>1. Here(f) \in young[f]
            BY <1>5, <2>1, <2>2, <2>6
        <3>2. CASE Here(f) \in S
            <4>1. CASE Here(f) \in m
                BY <1>3, <4>1
            <4>2. CASE Here(f) \notin m
                <5>1. Here(f) \in FilePaths
                    BY <1>0, <3>1 DEF TypeOK
                <5>2. m = {}
                    BY <3>2, <4>2, <5>1 DEF Surviving
                <5> QED
                    BY <1>3, <1>7, <2>2, <2>6, <3>2, <4>2, <5>2 DEF PathsOf
            <4> QED
                BY <4>1, <4>2
        <3>3. CASE Here(f) \in events \ S
            <4>1. Here(f) \in PathsOf(events', f)
                BY <1>1, <1>5, <3>1, <3>3, <1>0 DEF PathsOf, Here, TypeOK
            <4> QED
                BY <2>5, <2>6, <4>1
        <3>4. CASE Here(f) \notin events
            <4>1. Here(f) \notin late
                BY <1>0, <3>4 DEF TypeOK
            <4> QED
                BY <1>0, <1>3, <2>1, <2>2, <2>6, <3>4, <4>1 DEF FileInv, Together
        <3> QED
            BY <3>2, <3>3, <3>4
    <2>7. ASSUME PathsOf(events', f) # {}, disk[f] # "gone", Here(f) \notin events'
          PROVE  PathsOf(events', f) \subseteq late' /\ Here(f) \in Carried'
        <3>1. CASE Here(f) \notin events
            BY <1>0, <1>3, <2>1, <2>3, <2>7, <3>1 DEF FileInv, Together
        <3>2. CASE Here(f) \in S
            <4>1. Here(f) \in m
                BY <1>7, <2>7, <3>2
            <4> QED
                BY <1>2, <1>3, <2>1, <2>4, <4>1 DEF PathsOf, Here
        <3> QED
            BY <1>1, <2>7, <3>1, <3>2
    <2> QED
        BY <1>1, <2>5, <2>6, <2>7 DEF Together, Here
<1>11. Complete(f)'
    <2>1. PathsOf(events \cup InChannels, f)' \subseteq PathsOf(events \cup InChannels, f)
        BY <1>1, <1>2 DEF PathsOf
    <2> QED
        BY <1>0, <1>1, <2>1 DEF FileInv, Complete
<1>12. Exact(f)'
    BY <1>0, <1>1 DEF FileInv, Exact, Changed, Differs, FullVerdict
<1> QED
    BY <1>8, <1>9, <1>10, <1>11, <1>12 DEF FileInv

\* The window closes on whole bursts: what the channels held is in the batch.
LEMMA WindowFiles == ASSUME FilesInv, Control, WindowElapses PROVE FilesInv'
<1> SUFFICES ASSUME NEW f \in Files PROVE FileInv(f)'
    BY DEF FilesInv
<1> DEFINE t == coalesce_triggers(batch)
<1>0. FileInv(f) /\ Control' /\ pc' = "scan"
    BY ControlStep DEF FilesInv, WindowElapses, Next, Runner
<1>1. /\ UNCHANGED <<disk, fresh, srv, db, events, young, late, cache, notifyQ, chan, seen>>
      /\ chan = <<>> /\ notifyQ = <<>> /\ late = {} /\ pc = "window" /\ batch' = <<t>>
    BY DEF WindowElapses, world, store, fsvars
<1>2. InChannels = {} /\ InChannels' = {}
    BY <1>1, ToSetEmpty, PathsInOne DEF InChannels
<1>3. t.paths = Carried \/ t.paths = {}
    <2>1. batch \in Seq(Triggers) /\ batch # <<>>
        BY <1>1 DEF Control, Staged, TypeOK
    <2>2. t.paths = UNION {u.paths : u \in ToSet(batch)} \/ t.paths = {}
        BY <2>1, CoalesceIs
    <2>3. Carried = UNION {u.paths : u \in ToSet(batch)}
        BY <1>1, <1>2 DEF Carried, InBatch, PathsIn
    <2> QED
        BY <2>2, <2>3
<1>4. Carried' = t.paths /\ batch'[1] = t
    <2>1. InBatch' = batch'[1].paths /\ batch'[1] = t
        <3>1. ToSet(batch') = {t}
            BY <1>1 DEF ToSet
        <3> QED
            BY <1>0, <1>1, <3>1, PathsInOne DEF InBatch
    <2> QED
        BY <1>2, <2>1 DEF Carried
<1> HIDE DEF t
<1>5. /\ Here(f)' = Here(f) /\ Differs(f)' = Differs(f) /\ Underway(f)' \subseteq Underway(f)
      /\ PathsOf(Carried', f) \subseteq PathsOf(Carried, f)
    BY <1>1, <1>3, <1>4 DEF Here, Differs, Underway, PathsOf
<1>6. Unborn(f)' /\ InTurn(f)' /\ Bursts(f)' /\ Uncached(f)'
    BY <1>0, <1>1, <1>5 DEF FileInv, Unborn, InTurn, Bursts, Uncached, Cached
<1>7. PathsOf(late, f) = {}
    BY <1>1 DEF PathsOf
<1>8. Together(f)'
    <2>1. PathsOf(events, f) # {} /\ disk[f] # "gone" => Here(f) \in events
        BY <1>0, <1>1, <1>7 DEF FileInv, Together, PathsOf
    <2>2. PathsOf(Carried', f) # {} => PathsOf(events, f) = {}
        BY <1>0, <1>1, <1>5 DEF FileInv, Together
    <2>3. PathsOf(Carried', f) # {} /\ disk[f] # "gone" => Here(f) \in Carried'
        <3>1. PathsOf(Carried', f) # {} => Carried' = Carried
            BY <1>3, <1>4 DEF PathsOf
        <3> QED
            BY <1>0, <1>1, <3>1 DEF FileInv, Together
    <2> QED
        BY <1>1, <1>5, <2>1, <2>2, <2>3 DEF Together
<1>9. Complete(f)'
    <2>1. PathsOf(Carried', f) # {} => PathsOf(events, f) = {}
        BY <1>0, <1>1, <1>5 DEF FileInv, Together
    <2> QED
        BY <1>1, <1>2, <1>4, <2>1 DEF Complete, PathsOf
<1>10. Exact(f)'
    BY <1>0 DEF Exact
<1> QED
    BY <1>6, <1>8, <1>9, <1>10 DEF FileInv

\* The batch has been looked at, or is forgotten: what is in the channels stays.
BatchLeaves ==
    /\ UNCHANGED <<disk, fresh, srv, db, events, young, late, cache, notifyQ, chan>>
    /\ pc \in {"scan", "exchange"} /\ pc' \notin {"window", "scan"}

LEMMA BatchLeavesFiles ==
    ASSUME FilesInv, Control, BatchLeaves, NEW f \in Files, Exact(f)'
    PROVE  FileInv(f)'
<1> USE DEF BatchLeaves
<1>0. FileInv(f)
    BY DEF FilesInv
<1>1. InChannels' = InChannels /\ Carried' = InChannels /\ Carried = InChannels \cup InBatch
    BY DEF Carried, InBatch, InChannels
<1>2. PathsOf(InBatch, f) # {} => PathsOf(events \cup InChannels, f) = {}
    BY <1>0, BatchIs DEF FileInv, Complete, InBatch, PathsOf
<1>3. /\ Here(f)' = Here(f) /\ Differs(f)' = Differs(f) /\ Underway(f)' \subseteq Underway(f)
    BY <1>1 DEF Here, Differs, Underway, PathsOf
<1>4. Unborn(f)' /\ InTurn(f)' /\ Bursts(f)' /\ Uncached(f)'
    BY <1>0, <1>3 DEF FileInv, Unborn, InTurn, Bursts, Uncached, Cached
<1>5. Together(f)'
    <2>1. CASE PathsOf(InBatch, f) = {}
        <3>1. PathsOf(Carried, f) = PathsOf(InChannels, f)
            BY <1>1, <2>1 DEF PathsOf
        <3>2. disk[f] # "gone" /\ young[f] # {} => Here(f) \in FilePaths
            BY <1>0 DEF FileInv, Bursts, Here, FilePaths
        <3>3. PathsOf(Carried, f) \cup PathsOf(events, f) \subseteq young[f]
            BY <1>0 DEF FileInv, Bursts, Underway, PathsOf
        <3>4. Here(f) \in Carried /\ Here(f) \in FilePaths => Here(f) \in InChannels
            BY <3>1 DEF PathsOf, Here
        <3> QED
            BY <1>0, <1>1, <1>3, <3>1, <3>2, <3>3, <3>4 DEF FileInv, Together
    <2>2. CASE PathsOf(InBatch, f) # {}
        <3>1. PathsOf(Carried', f) = {} /\ PathsOf(events', f) = {}
            BY <1>1, <1>2, <2>2 DEF PathsOf
        <3> QED
            BY <3>1 DEF Together
    <2> QED
        BY <2>1, <2>2
<1>6. Complete(f)'
    BY DEF Complete
<1> QED
    BY <1>4, <1>5, <1>6 DEF FileInv

\* The scan is right about every file it finds changed: a name it misses is the
\* name of a file that is gone.
LEMMA VerdictIs ==
    ASSUME FilesInv, Control, pc = "scan", NEW f \in Files
    PROVE  LET v == Verdict(f, batch[1])
           IN  /\ v \notin {"same", db[f]} => Differs(f) /\ v = FullVerdict(f)
               /\ Differs(f) /\ (IsFull(batch[1]) \/ PathsOf(InBatch, f) # {}) => v \notin {"same", db[f]}
<1> DEFINE t == batch[1]
<1>0. FileInv(f) /\ TypeOK
    BY DEF FilesInv, Control
<1>1. t \in Triggers /\ InBatch = t.paths /\ t.paths \subseteq FilePaths
    BY BatchIs DEF Triggers
<1> HIDE DEF t
<1>2. disk[f] \in {"gone", "new", "cur", "curS"} /\ db[f] \in {"none", "-", "S"}
    BY <1>0 DEF TypeOK, Places
<1>3. CASE IsFull(t)
    BY <1>2, <1>3 DEF Verdict, FullVerdict, FlagsOf, Differs, t
<1>4. CASE ~IsFull(t) /\ PathsOf(InBatch, f) = {}
    <2>1. \A p \in t.paths : p[1] # f
        BY <1>1, <1>4 DEF PathsOf
    <2> QED
        BY <1>4, <2>1 DEF Verdict, PathVerdict, t
<1>5. CASE ~IsFull(t) /\ PathsOf(InBatch, f) # {}
    <2>1. disk[f] # "gone" => Here(f) \in t.paths
        <3>1. PathsOf(events \cup InChannels, f) = {}
            BY <1>0, <1>1, <1>5 DEF FileInv, Complete, t
        <3>2. PathsOf(Carried, f) # {}
            BY <1>5 DEF Carried, PathsOf
        <3>3. disk[f] # "gone" => Here(f) \in Carried \cup late /\ Here(f) \in FilePaths
            BY <1>0, <1>2, <3>2 DEF FileInv, Together, Here, FilePaths, Places
        <3>4. disk[f] # "gone" => Here(f) \notin events \cup InChannels
            BY <3>1, <3>3 DEF PathsOf, Here
        <3> QED
            BY <1>0, <1>1, <3>3, <3>4 DEF Carried, TypeOK
    <2>2. <<f, "gone">> \notin t.paths
        BY <1>1 DEF FilePaths, Places
    <2>3. PathVerdict(f, t.paths) = FullVerdict(f)
        BY <1>1, <1>5, <2>1, <2>2 DEF PathVerdict, PathsOf, FullVerdict, Here
    <2>4. Verdict(f, t) = IF FullVerdict(f) = "deleted" /\ db[f] = "none" THEN "same" ELSE FullVerdict(f)
        BY <1>5, <2>3 DEF Verdict
    <2> QED
        BY <1>2, <2>4 DEF FullVerdict, FlagsOf, Differs, t
<1> QED
    BY <1>3, <1>4, <1>5

LEMMA ScanFiles == ASSUME FilesInv, Control, Scan PROVE FilesInv'
<1>1. BatchLeaves /\ pc = "scan" /\ seen' = SeenAs(batch[1])
    BY DEF Scan, BatchLeaves, world, store, fsvars
<1>2. ASSUME NEW f \in Files PROVE Exact(f)'
    <2>1. seen'[f] = Verdict(f, batch[1])
        BY <1>1 DEF SeenAs
    <2>2. Changed(f)' => seen'[f] \notin {"same", db[f]}
        BY <1>1 DEF Changed, BatchLeaves
    <2>3. Differs(f)' = Differs(f) /\ FullVerdict(f)' = FullVerdict(f)
        BY <1>1 DEF Differs, FullVerdict, BatchLeaves
    <2> QED
        BY <1>1, <2>1, <2>2, <2>3, VerdictIs DEF Exact
<1> QED
    BY <1>1, <1>2, BatchLeavesFiles DEF FilesInv

LEMMA CycleFailsFiles ==
    ASSUME FilesInv, Control, CycleFailsTransient \/ CycleFailsHard
    PROVE  FilesInv'
<1>1. BatchLeaves /\ pc' # "exchange"
    BY DEF CycleFailsTransient, CycleFailsHard, CycleFails, BatchLeaves, world, store, fsvars
<1>2. ASSUME NEW f \in Files PROVE Exact(f)'
    BY <1>1 DEF Exact
<1> QED
    BY <1>1, <1>2, BatchLeavesFiles DEF FilesInv

\* A cycle takes from the server only what nobody has touched since, and what it
\* gives to the server is on the disk.
LEMMA ExchangeOf ==
    ASSUME FilesInv, Control, Exchange, NEW f \in Files
    PROVE  /\ disk'[f] = DiskAfter(f) /\ db'[f] = DbAfter(f) /\ srv'[f] = SrvAfter(f)
           /\ young'[f] = IF f \in Written THEN NamesOf(f) ELSE young[f]
           /\ f \in Written <=> DiskAfter(f) # disk[f]
           /\ PathsOf(events', f) = PathsOf(events, f) \cup (IF f \in Written THEN NamesOf(f) ELSE {})
           /\ Carried' = Carried /\ InChannels' = InChannels /\ UNCHANGED late
           /\ f \in Written => Pulled(f)
           /\ Pulled(f) => ~Differs(f) /\ Underway(f) = {} /\ srv[f] # db[f] /\ ~Changed(f)
           /\ srv'[f] # db'[f] => srv[f] # db[f] /\ disk'[f] = disk[f] /\ db'[f] = db[f]
<1>1. FileInv(f) /\ TypeOK
    BY DEF FilesInv, Control
<1>2. /\ disk'[f] = DiskAfter(f) /\ db'[f] = DbAfter(f) /\ srv'[f] = SrvAfter(f)
      /\ young'[f] = IF f \in Written THEN NamesOf(f) ELSE young[f]
    BY DEF Exchange
<1>3. (f \in Written <=> DiskAfter(f) # disk[f]) /\ (f \in Written => Pulled(f))
    BY DEF Written, DiskAfter
<1>4. PathsOf(events', f) = PathsOf(events, f) \cup (IF f \in Written THEN NamesOf(f) ELSE {})
    <2>1. events' = events \cup UNION {NamesOf(g) : g \in Written}
        BY DEF Exchange
    <2>2. \A g \in Written : NamesOf(g) \subseteq FilePaths /\ NamesOf(g) \subseteq {g} \X Places
        BY NamesType DEF Written
    <2>3. PathsOf(UNION {NamesOf(g) : g \in Written}, f) = IF f \in Written THEN NamesOf(f) ELSE {}
        <3>1. ASSUME NEW p \in PathsOf(UNION {NamesOf(g) : g \in Written}, f)
              PROVE  f \in Written /\ p \in NamesOf(f)
            <4>1. PICK g \in Written : p \in NamesOf(g)
                BY DEF PathsOf
            <4>2. p[1] = g /\ p[1] = f
                BY <2>2, <4>1 DEF PathsOf
            <4> QED
                BY <4>1, <4>2
        <3>2. ASSUME f \in Written, NEW p \in NamesOf(f)
              PROVE  p \in PathsOf(UNION {NamesOf(g) : g \in Written}, f)
            <4>1. p \in FilePaths /\ p[1] = f
                BY <2>2, <3>2
            <4> QED
                BY <3>2, <4>1 DEF PathsOf
        <3> QED
            BY <3>1, <3>2
    <2> QED
        BY <2>1, <2>3 DEF PathsOf
<1>5. Carried' = Carried /\ InChannels' = InChannels /\ UNCHANGED late
    BY DEF Exchange, Carried, InChannels, InBatch
<1>6. Pulled(f) => ~Differs(f) /\ Underway(f) = {} /\ srv[f] # db[f] /\ ~Changed(f)
    BY <1>1 DEF Pulled, FileInv, InTurn
<1>7. Changed(f) => srv[f] = db[f] /\ SrvAfter(f) = DbAfter(f)
    BY <1>1 DEF FileInv, InTurn, Exact, Exchange, SrvAfter, DbAfter
<1>8. Pulled(f) => SrvAfter(f) = DbAfter(f)
    BY <1>6 DEF SrvAfter, DbAfter, Differs
<1>9. ~Changed(f) /\ ~Pulled(f) => SrvAfter(f) = srv[f] /\ DbAfter(f) = db[f] /\ DiskAfter(f) = disk[f]
    BY DEF SrvAfter, DbAfter, DiskAfter
<1>10. srv'[f] # db'[f] => srv[f] # db[f] /\ disk'[f] = disk[f] /\ db'[f] = db[f]
    BY <1>2, <1>7, <1>8, <1>9
<1> QED
    BY <1>2, <1>3, <1>4, <1>5, <1>6, <1>10

LEMMA ExchangeFiles == ASSUME FilesInv, Control, Exchange PROVE FilesInv'
<1> SUFFICES ASSUME NEW f \in Files PROVE FileInv(f)'
    BY DEF FilesInv
<1>0. FileInv(f) /\ TypeOK
    BY DEF FilesInv, Control
<1>1. /\ disk'[f] = DiskAfter(f) /\ db'[f] = DbAfter(f) /\ srv'[f] = SrvAfter(f)
      /\ young'[f] = IF f \in Written THEN NamesOf(f) ELSE young[f]
      /\ f \in Written <=> DiskAfter(f) # disk[f]
      /\ PathsOf(events', f) = PathsOf(events, f) \cup (IF f \in Written THEN NamesOf(f) ELSE {})
      /\ Carried' = Carried /\ InChannels' = InChannels /\ UNCHANGED late
      /\ f \in Written => Pulled(f)
      /\ Pulled(f) => ~Differs(f) /\ Underway(f) = {} /\ srv[f] # db[f] /\ ~Changed(f)
      /\ srv'[f] # db'[f] => srv[f] # db[f] /\ disk'[f] = disk[f] /\ db'[f] = db[f]
    BY ExchangeOf
<1>2. Underway(f)' = PathsOf(events', f) \cup PathsOf(Carried, f) /\ Underway(f) = PathsOf(events, f) \cup PathsOf(Carried, f)
    BY <1>1 DEF Underway, PathsOf
<1>3. Unborn(f)'
    <2>1. ASSUME f \in fresh PROVE disk[f] = "gone" /\ db[f] = "none" /\ srv[f] = "none" /\ ~Differs(f)
        BY <1>0, <2>1 DEF FileInv, Unborn, Differs
    <2>2. ASSUME f \in fresh PROVE ~Changed(f) /\ ~Pulled(f)
        BY <1>0, <2>1, <2>2 DEF FileInv, Exact, Exchange, Pulled
    <2>3. fresh' = fresh
        BY DEF Exchange
    <2> QED
        BY <1>1, <2>1, <2>2, <2>3 DEF Unborn, SrvAfter, DbAfter, DiskAfter
<1>4. InTurn(f)'
    <2> SUFFICES ASSUME srv'[f] # db'[f] PROVE ~Differs(f)' /\ Underway(f)' = {}
        BY DEF InTurn
    <2>1. ~Differs(f) /\ Underway(f) = {} /\ f \notin Written
        BY <1>0, <1>1 DEF FileInv, InTurn
    <2> QED
        BY <1>1, <1>2, <2>1 DEF Differs
<1>5. CASE f \notin Written
    <2>1. /\ disk'[f] = disk[f] /\ young'[f] = young[f] /\ PathsOf(events', f) = PathsOf(events, f)
          /\ Underway(f)' = Underway(f) /\ Here(f)' = Here(f)
        BY <1>1, <1>2, <1>5 DEF Here
    <2>2. Bursts(f)'
        BY <1>0, <2>1 DEF FileInv, Bursts
    <2>3. Uncached(f)'
        <3>1. SUFFICES ASSUME PathsOf(late, f) # {} PROVE young[f] \cap Cached' = {}
            BY <1>1, <2>1 DEF Uncached
        <3>2. young[f] \cap Cached = {} /\ young[f] \subseteq {f} \X Places
            BY <1>0, <3>1 DEF FileInv, Uncached, Bursts
        <3>3. Cached' \subseteq Cached \cup UNION {SelfWrites(g) : g \in {h \in Written : DiskAfter(h) # "gone"}}
            BY <1>0, RecordedIs DEF Exchange, Cached
        <3>4. \A g \in {h \in Written : DiskAfter(h) # "gone"} : SelfWrites(g) \cap young[f] = {}
            <4> TAKE g \in {h \in Written : DiskAfter(h) # "gone"}
            <4>1. g \in Files /\ g # f /\ SelfWrites(g) \subseteq {g} \X Places
                BY <1>0, <1>5, SelfWritesType DEF Written
            <4> QED
                BY <3>2, <4>1
        <3> QED
            BY <3>2, <3>3, <3>4
    <2>4. Together(f)'
        <3>1. Here(f) \in events' \/ PathsOf(events, f) = {} \/ disk[f] = "gone" \/ Here(f) \notin events
            BY DEF Exchange
        <3>2. events \subseteq events'
            BY DEF Exchange
        <3> QED
            BY <1>0, <1>1, <2>1, <3>1, <3>2 DEF FileInv, Together
    <2>5. Complete(f)' /\ Exact(f)'
        BY DEF Complete, Exact, Exchange
    <2> QED
        BY <1>3, <1>4, <2>2, <2>3, <2>4, <2>5 DEF FileInv
<1>6. CASE f \in Written
    <2>1. /\ ~Differs(f) /\ PathsOf(events, f) = {} /\ PathsOf(Carried, f) = {} /\ PathsOf(late, f) = {}
        BY <1>0, <1>1, <1>2, <1>6 DEF PathsOf, TypeOK
    <2>2. PathsOf(events', f) = NamesOf(f) /\ Underway(f)' = NamesOf(f) /\ young'[f] = NamesOf(f)
        BY <1>1, <1>2, <1>6, <2>1
    <2>3. disk'[f] # "gone" => Here(f)' \in NamesOf(f)
        BY <1>0, <1>1, DiskAfterType DEF Here, NamesOf, FilePaths
    <2>4. disk'[f] = "new" => disk[f] = "gone"
        BY <1>0, <1>1, <1>6, <2>1 DEF DiskAfter, Differs, FlagsOf, TypeOK, Places
    <2>5. Bursts(f)'
        <3>1. NamesOf(f) \subseteq {f} \X Places
            BY NamesType
        <3>2. disk'[f] = "new" => NamesOf(f) \subseteq {Here(f)'}
            BY <1>1, <2>4 DEF NamesOf, Here, FilePaths, Places
        <3> QED
            BY <2>2, <2>3, <3>1, <3>2 DEF Bursts
    <2>6. Uncached(f)'
        BY <1>1, <2>1 DEF Uncached
    <2>7. Together(f)'
        <3>1. disk'[f] # "gone" => Here(f)' \in events'
            BY <2>2, <2>3 DEF PathsOf
        <3> QED
            BY <1>1, <2>1, <3>1 DEF Together
    <2>8. Complete(f)' /\ Exact(f)'
        BY DEF Complete, Exact, Exchange
    <2> QED
        BY <1>3, <1>4, <2>5, <2>6, <2>7, <2>8 DEF FileInv
<1> QED
    BY <1>5, <1>6

LEMMA FilesStep ==
    ASSUME FilesInv, Control, ~Overlaps, ~SplitsEchoes, [Next]_vars
    PROVE  FilesInv'
<1>1. CASE Environment
    <2>1. \/ \E f \in Files, to \in {"gone", "cur", "curS"} : UserActs(f, to)
          \/ \E f \in Files, to \in {"none", "-", "S"} : ServerActs(f, to)
          \/ Elsewhere
        BY <1>1, Zenon DEF Environment, Elsewhere
    <2> QED
        BY <2>1, UserActsFiles, ServerActsFiles, ElsewhereFrame, FrameKept DEF Control
<1>2. CASE Watcher \/ Expires
    BY <1>2, FlushFiles, ForwardFrame, ExpiresFrame, FrameKept DEF Watcher, Control
<1>3. CASE EventSource \/ forward_manual_triggers
    BY <1>3, EventsFrame, FrameKept DEF Control
<1>4. CASE Session
    BY <1>4, SessionFrame, FrameKept
<1>5. CASE Receive
    BY <1>5, ReceiveFrame, FrameKept
<1>6. CASE WindowElapses \/ Scan \/ Exchange \/ CycleFailsTransient \/ CycleFailsHard
    BY <1>6, WindowFiles, ScanFiles, ExchangeFiles, CycleFailsFiles
<1>7. CASE UNCHANGED vars
    <2>1. Frame
        BY <1>7 DEF vars, world, store, fsvars, runvars, Frame, Cached, Carried, InChannels, InBatch
    <2> QED
        BY <2>1, FrameKept
<1> QED
    BY <1>1, <1>2, <1>3, <1>4, <1>5, <1>6, <1>7 DEF Next, Runner, Session

\* Where a file changes only after its last change is synced, and the debouncer
\* keeps a burst with an own write together, a cycle destroys an email only when
\* its file is gone from the disk.
THEOREM DestroysOnlyGoneCorrect ==
    ASSUME ~Overlaps, ~SplitsEchoes
    PROVE  Spec => DestroysOnlyGone
<1>1. Init => Control /\ FilesInv
    BY InitControl, InitFiles
<1>2. Control /\ FilesInv /\ [Next]_vars => (Control /\ FilesInv)'
    BY ControlStep, FilesStep
<1>3. Control /\ FilesInv /\ [Next]_vars =>
         [\A f \in Files : pc' # pc /\ srv[f] # "none" /\ srv'[f] = "none" => disk[f] = "gone"]_vars
    <2> SUFFICES ASSUME Control, FilesInv, Next, NEW f \in Files,
                        pc' # pc, srv[f] # "none", srv'[f] = "none"
                 PROVE  disk[f] = "gone"
        OBVIOUS
    <2>1. Exchange
        <3>1. Environment => UNCHANGED pc
            BY DEF Environment, UserActs, MakeFolder, RemoveFolder, MoveFolderOut, Churn, FolderActs,
                   RenameFolder, ServerActs, LinkChanges, LinkRestored, PressesS, StreamFails, runvars
        <3>2. Beside \/ EventSource => UNCHANGED pc
            BY BesideUntouched
               DEF EventSource, StreamOpens, Watchdog, ReceiveState, SendRemoteChange, runvars
        <3>3. Runner => Exchange \/ UNCHANGED srv
            BY DEF Runner, Connected, CachedUrlFails, ConnectFails, OpenSession, SetupFails,
                   SessionAborts, SleepsBackoff, Receive, WindowElapses, Scan, CycleFailsTransient,
                   CycleFailsHard, CycleFails, world
        <3> QED
            BY <3>1, <3>2, <3>3 DEF Next, Beside
    <2>2. Changed(f) /\ (seen[f] = "deleted" \/ seen[f] = "none")
        BY <2>1 DEF Exchange, SrvAfter
    <2>3. seen[f] = FullVerdict(f)
        BY <2>1, <2>2 DEF FilesInv, FileInv, Exact, Exchange
    <2> QED
        BY <2>2, <2>3 DEF FullVerdict, FlagsOf
<1> QED
    BY <1>1, <1>2, <1>3, PTL DEF Spec, DestroysOnlyGone

-----------------------------------------------------------------------------
(* No change is forgotten: the way of each thing that may have changed.    *)

Kept(x) == x \in Unseen => OnItsWay(x) \/ x \in excused

Things == Files \cup Folders \cup {Server}

\* The stream carries a state that decide_trigger will find new.
PushNews == \E i \in DOMAIN push : push[i] # last

LEMMA ThingsApart ==
    /\ Server \notin Files /\ Server \notin Folders /\ Files \cap Folders = {}
    /\ Unseen \subseteq Things
BY DisjointAssumption DEF Server, Unseen, Things

LEMMA UnseenIs ==
    /\ \A x \in Files : x \in Unseen <=> Differs(x)
    /\ \A x \in Folders : x \in Unseen <=> DirDiffers(x) \/ Misread(x)
    /\ Server \in Unseen <=> cursor < state
BY DisjointAssumption DEF Server, Unseen

\* What has its name in a path is a file.
LEMMA OnlyFilesHavePaths ==
    ASSUME TypeOK
    PROVE  /\ \A p \in events \cap FilePaths : p[1] \in Files
           /\ \A t \in TriggersInFlight : t \in Triggers /\ \A p \in t.paths : p \in FilePaths /\ p[1] \in Files
<1>1. \A t \in TriggersInFlight : t \in Triggers
    BY ToSetIs DEF TypeOK, TriggersInFlight
<1> QED
    BY <1>1 DEF Triggers, FilePaths

LEMMA FullCarriesAll == FullOnItsWay => \A x : OnItsWay(x)
BY DEF OnItsWay

LEMMA ForgottenIs == NothingForgotten <=> (pc # "dead" => \A x \in Things : Kept(x))
BY ThingsApart DEF NothingForgotten, Lost, Kept

\* A step after which nothing is further from its cycle than before.
Moves ==
    /\ UNCHANGED <<db, dirs, permit>>
    /\ events \subseteq events'
    /\ TriggersInFlight \subseteq TriggersInFlight'
    /\ sending => sending'
    /\ boot /\ pc \in {"connect", "scan"} => boot' /\ pc' \in {"connect", "scan"}
    /\ pc' = "exchange" <=> pc = "exchange"
    /\ pc = "exchange" => UNCHANGED <<seen, batch>>

LEMMA MovesWay ==
    ASSUME Moves, NEW x, x = Server => (PushNews => PushNews')
    PROVE  OnItsWay(x) => OnItsWay(x)'
<1>1. FullOnItsWay => FullOnItsWay'
    <2>1. \A p : Signals(p)' = Signals(p)
        BY DEF Signals, Moves
    <2> QED
        BY <2>1 DEF FullOnItsWay, Moves
<1>2. WillSettle(x) => WillSettle(x)'
    <2>1. pc = "exchange" => FetchDue' = FetchDue /\ Changed(x)' = Changed(x) /\ Misread(x)' = Misread(x)
        BY DEF Moves, FetchDue, Changed, Misread
    <2> QED
        BY <2>1 DEF WillSettle, Moves
<1> QED
    BY <1>1, <1>2 DEF OnItsWay, PushNews, Moves

LEMMA MovesKept ==
    ASSUME NothingForgotten, pc # "dead", Moves, UNCHANGED <<disk, bound>>, excused \subseteq excused',
           \/ UNCHANGED <<cursor, state>> /\ (PushNews => PushNews')
           \/ Lost' \cap {Server} \subseteq excused'
    PROVE  NothingForgotten'
<1>1. \A x \in Things : Kept(x)
    BY ForgottenIs
<1>2. ASSUME NEW x \in Files \cup Folders, x \in Unseen' PROVE OnItsWay(x)' \/ x \in excused'
    <2>1. x \in Unseen
        <3>1. CASE x \in Files
            <4>1. Differs(x)
                BY <1>2, <3>1, DisjointAssumption DEF Unseen, Server, Differs, Moves
            <4> QED
                BY <3>1, <4>1, UnseenIs
        <3>2. CASE x \in Folders
            <4>1. DirDiffers(x) \/ Misread(x)
                BY <1>2, <3>2, DisjointAssumption DEF Unseen, Server, DirDiffers, Misread, Moves
            <4> QED
                BY <3>2, <4>1, UnseenIs
        <3> QED
            BY <3>1, <3>2
    <2>2. x # Server
        BY ThingsApart
    <2> QED
        BY <1>1, <2>1, <2>2, MovesWay DEF Kept, Things
<1>3. ASSUME Server \in Unseen' PROVE OnItsWay(Server)' \/ Server \in excused'
    <2>1. CASE Lost' \cap {Server} \subseteq excused'
        BY <1>3, <2>1 DEF Lost
    <2>2. CASE UNCHANGED <<cursor, state>> /\ (PushNews => PushNews')
        <3>1. Server \in Unseen
            BY <1>3, <2>2, DisjointAssumption DEF Unseen, Server
        <3> QED
            BY <1>1, <2>2, <3>1, MovesWay DEF Kept, Things
    <2> QED
        BY <2>1, <2>2
<1> QED
    BY <1>2, <1>3 DEF NothingForgotten, Lost, Unseen

\* After a step that sets a full trigger going, or excuses what it loses.
LEMMA FullKept == ASSUME FullOnItsWay' PROVE NothingForgotten'
BY DEF NothingForgotten, Lost, OnItsWay

LEMMA ExcusedKept == ASSUME excused' = excused \cup Lost' PROVE NothingForgotten'
BY DEF NothingForgotten

LEMMA InitKept == Init => NothingForgotten
<1> SUFFICES ASSUME Init PROVE FullOnItsWay
    BY FullCarriesAll DEF NothingForgotten, Lost
<1> QED
    BY DEF Init, FullOnItsWay

LEMMA UserActsKept ==
    ASSUME NothingForgotten, pc # "dead", Control, NEW f \in Files, NEW to \in {"gone", "cur", "curS"},
           UserActs(f, to)
    PROVE  NothingForgotten'
<1>1. /\ disk' = [disk EXCEPT ![f] = to]
      /\ events' = events \cup ({<<f, disk[f]>>, <<f, to>>} \cap FilePaths)
      /\ UNCHANGED <<dirs, state, store, notifyQ, chan, permit, ssevars, runvars, excused>>
    BY DEF UserActs
<1>2. Moves
    BY <1>1 DEF Moves, TriggersInFlight, store, ssevars, runvars
<1>3. \A x \in Things : Kept(x)
    BY ForgottenIs
<1>4. OnItsWay(f)'
    <2>1. <<f, disk[f]>> \in FilePaths \/ <<f, to>> \in FilePaths
        BY DEF UserActs, FilePaths, Places, Control, TypeOK
    <2>2. PICK p \in events' \cap FilePaths : p[1] = f
        BY <1>1, <2>1
    <2> QED
        BY <2>2 DEF OnItsWay
<1>5. ASSUME NEW x \in Things, x # f, x \in Unseen' PROVE OnItsWay(x)' \/ x \in excused'
    <2>1. x \in Unseen
        <3>1. CASE x \in Files
            <4>1. Differs(x)
                BY <1>1, <1>5, <3>1, DisjointAssumption DEF Unseen, Server, Differs, store, Control, TypeOK
            <4> QED
                BY <3>1, <4>1, UnseenIs
        <3>2. CASE x \in Folders
            <4>1. DirDiffers(x) \/ Misread(x)
                BY <1>1, <1>5, <3>2, DisjointAssumption
                   DEF Unseen, Server, DirDiffers, Misread, store, runvars
            <4> QED
                BY <3>2, <4>1, UnseenIs
        <3>3. CASE x = Server
            BY <1>1, <1>5, <3>3, DisjointAssumption DEF Unseen, Server, store
        <3> QED
            BY <3>1, <3>2, <3>3 DEF Things
    <2>2. OnItsWay(x) => OnItsWay(x)'
        BY <1>1, <1>2, MovesWay DEF PushNews, ssevars
    <2> QED
        BY <1>1, <1>3, <1>5, <2>1, <2>2 DEF Kept
<1> QED
    BY <1>4, <1>5 DEF NothingForgotten, Lost, Unseen, Things

LEMMA ServerActsKept ==
    ASSUME NothingForgotten, pc # "dead", NEW f \in Files, NEW to \in {"none", "-", "S"}, ServerActs(f, to)
    PROVE  NothingForgotten'
<1>1. /\ UNCHANGED <<disk, dirs, store, fsvars, chan, permit, sending, runvars>>
      /\ excused' = excused \cup (Lost' \cap {Server})
    BY DEF ServerActs
<1>2. Moves /\ UNCHANGED <<disk, bound>>
    BY <1>1 DEF Moves, TriggersInFlight, store, fsvars, runvars
<1>3. Lost' \cap {Server} \subseteq excused' /\ excused \subseteq excused'
    BY <1>1
<1> QED
    BY <1>2, <1>3, MovesKept

LEMMA SignalIsKept ==
    ASSUME NEW d \in Folders, NEW k \in {"dir", "trio"}, <<d, k>> \in events',
           (k = "trio") = (dirs'[d] = "absent")
    PROVE  NothingForgotten'
<1> DEFINE p == <<d, k>>
<1>1. p \in events' \cap DirPaths
    BY DirPathsApart
<1>2. Signals(p)'
    BY DEF Signals
<1> HIDE DEF p
<1>3. FullOnItsWay'
    BY <1>1, <1>2 DEF FullOnItsWay
<1> QED
    BY <1>3, FullKept

LEMMA ElsewhereKept ==
    ASSUME NothingForgotten, pc # "dead", Control, Elsewhere
    PROVE  NothingForgotten'
<1>0. UNCHANGED <<disk, notifyQ, chan, batch, pc, boot, seen, db, cursor, bound, state>>
    BY ElsewhereFrame DEF Frame
<1>1. TriggersInFlight' = TriggersInFlight
    BY <1>0 DEF TriggersInFlight
<1>2. ASSUME NEW d \in Folders, MakeFolder(d) PROVE NothingForgotten'
    <2>1. <<d, "dir">> \in events' /\ dirs'[d] = "unbound"
        BY <1>2 DEF MakeFolder, FolderActs, Control, TypeOK
    <2> QED
        BY <2>1, SignalIsKept
<1>3. ASSUME NEW d \in Folders, RemoveFolder(d) PROVE NothingForgotten'
    <2>1. <<d, "trio">> \in events' /\ dirs'[d] = "absent"
        BY <1>3 DEF RemoveFolder, FolderActs, Control, TypeOK
    <2> QED
        BY <2>1, SignalIsKept
<1>4. ASSUME NEW d \in Folders, NEW e \in Folders, RenameFolder(d, e) PROVE NothingForgotten'
    <2>1. <<e, "dir">> \in events' /\ dirs'[e] # "absent"
        BY <1>4 DEF RenameFolder, Control, TypeOK
    <2> QED
        BY <2>1, SignalIsKept
<1>5. ASSUME NEW d \in Folders, MoveFolderOut(d) PROVE NothingForgotten'
    BY <1>5, ExcusedKept DEF MoveFolderOut
<1>6. ASSUME NEW d \in Folders, Churn(d) PROVE NothingForgotten'
    <2>1. UNCHANGED <<dirs, permit, sending, push, last, excused>> /\ events \subseteq events'
        BY <1>6 DEF Churn, FolderActs, ssevars, Control, TypeOK
    <2>2. Moves /\ (PushNews => PushNews')
        BY <1>0, <1>1, <2>1 DEF Moves, PushNews
    <2> QED
        BY <1>0, <2>1, <2>2, MovesKept
<1>7. ASSUME PressesS PROVE NothingForgotten'
    BY <1>7, FullKept DEF PressesS, FullOnItsWay
<1>8. ASSUME NEW to, LinkChanges(to) \/ LinkRestored PROVE NothingForgotten'
    <2>1. UNCHANGED <<dirs, permit, sending, push, last, excused, events>>
        BY <1>8 DEF LinkChanges, LinkRestored, ssevars, fsvars
    <2>2. Moves /\ (PushNews => PushNews')
        BY <1>0, <1>1, <2>1 DEF Moves, PushNews
    <2> QED
        BY <1>0, <2>1, <2>2, MovesKept
<1>9. ASSUME NEW to, StreamFails(to) PROVE NothingForgotten'
    <2>1. /\ UNCHANGED <<dirs, permit, sending, events>>
          /\ excused' = excused \cup (Lost' \cap {Server})
        BY <1>9 DEF StreamFails, fsvars, world
    <2>2. Moves
        BY <1>0, <1>1, <2>1 DEF Moves
    <2>3. Lost' \cap {Server} \subseteq excused' /\ excused \subseteq excused'
        BY <2>1
    <2> QED
        BY <1>0, <2>2, <2>3, MovesKept
<1> QED
    BY <1>2, <1>3, <1>4, <1>5, <1>6, <1>7, <1>8, <1>9, Zenon DEF Elsewhere

LEMMA FlushIs ==
    ASSUME TypeOK, NEW S \in SUBSET events, Flush(S)
    PROVE  TriggersInFlight' = TriggersInFlight \cup classify_batch(S)
<1>1. S \in SUBSET (FilePaths \cup DirPaths)
    BY DEF TypeOK
<1>2. /\ SetToSeq(classify_batch(S)) \in Seq(classify_batch(S)) /\ classify_batch(S) \subseteq Triggers
      /\ ToSet(SetToSeq(classify_batch(S))) = classify_batch(S)
    BY <1>1, ClassifyIs, SetToSeqOfOne
<1>3. SetToSeq(classify_batch(S)) \in Seq(Triggers)
    BY <1>2, SeqMonotonic
<1>4. ToSet(notifyQ') = ToSet(notifyQ) \cup classify_batch(S)
    BY <1>2, <1>3, ToSetConcat DEF Flush, TypeOK
<1>5. UNCHANGED <<chan, pc, batch>>
    BY DEF Flush, runvars
<1> QED
    BY <1>4, <1>5 DEF TriggersInFlight

\* A batch is a full trigger when a path of it signals; a message path of it goes
\* on its way, unless its file is one of the two kinds nobody need look at.
LEMMA FlushKept ==
    ASSUME NothingForgotten, pc # "dead", Control, NEW S \in SUBSET events, Flush(S)
    PROVE  NothingForgotten'
<1>0. TypeOK
    BY DEF Control
<1>1. /\ UNCHANGED <<world, store, permit, ssevars, runvars>>
      /\ events' = events \ S /\ excused' = excused \cup Swallowed(S)
    BY DEF Flush
<1>2. TriggersInFlight' = TriggersInFlight \cup classify_batch(S)
    BY <1>0, FlushIs
<1>3. S \in SUBSET (FilePaths \cup DirPaths)
    BY <1>0 DEF TypeOK
<1>4. FullOnItsWay => FullOnItsWay'
    <2>1. CASE \E t \in TriggersInFlight : IsFull(t)
        BY <1>2, <2>1 DEF FullOnItsWay
    <2>2. CASE permit \/ sending \/ (boot /\ pc \in {"connect", "scan"})
        BY <1>1, <2>2 DEF FullOnItsWay, ssevars, runvars
    <2>3. ASSUME NEW p \in events \cap DirPaths, Signals(p) PROVE FullOnItsWay'
        <3>1. CASE p \in S
            <4>1. fires(p)
                BY <2>3 DEF Signals, fires
            <4>2. batch_fires(S \cap DirPaths)
                BY <2>3, <3>1, <4>1 DEF batch_fires
            <4>3. \E t \in classify_batch(S) : IsFull(t)
                <5>1. classify_batch(S) # {}
                    BY <1>3, <4>2, ClassifyIs
                <5>2. \A t \in classify_batch(S) : IsFull(t)
                    BY <1>3, <4>2, ClassifyIs
                <5> QED
                    BY <5>1, <5>2
            <4> QED
                BY <1>2, <4>3 DEF FullOnItsWay
        <3>2. CASE p \notin S
            <4>1. p \in events' \cap DirPaths /\ Signals(p)'
                BY <1>1, <2>3, <3>2 DEF Signals, world
            <4> QED
                BY <4>1 DEF FullOnItsWay
        <3> QED
            BY <3>1, <3>2
    <2> QED
        BY <2>1, <2>2, <2>3 DEF FullOnItsWay
<1>5. \A x : WillSettle(x)' = WillSettle(x)
    BY <1>1 DEF WillSettle, FetchDue, Changed, Misread, world, store, runvars
<1>6. Unseen' = Unseen
    BY <1>1 DEF Unseen, Differs, DirDiffers, Misread, world, store, runvars
<1>7. ASSUME NEW x \in Unseen, NEW p \in S \cap FilePaths, p[1] = x
      PROVE  OnItsWay(x)' \/ x \in excused'
    <2>1. x \in Files /\ Differs(x)
        <3>1. x \in Files
            BY <1>7 DEF FilePaths
        <3> QED
            BY <1>7, <3>1, UnseenIs
    <2>2. CASE p \in Surviving(S \cap FilePaths)
        <3>1. PICK t \in classify_batch(S) : t.paths = Surviving(S \cap FilePaths)
            BY <1>3, <2>2, ClassifyIs
        <3>2. t \in TriggersInFlight' /\ p \in t.paths
            BY <1>2, <2>2, <3>1
        <3> QED
            BY <1>7, <3>2 DEF OnItsWay
    <2>3. CASE ~batch_might_emit_changes(S \cap FilePaths)
        <3>1. p[2] \notin {"cur", "curS"} /\ disk[x] = p[2]
            BY <1>7, <2>3 DEF batch_might_emit_changes
        <3>2. disk[x] = "new"
            BY <1>7, <3>1 DEF FilePaths, Places
        <3> QED
            BY <2>1, <3>2 DEF Differs
    <2>4. CASE matches_all(S \cap FilePaths)
        <3>1. S \cap ({x} \X Places) \subseteq S \cap FilePaths
            BY <2>1 DEF FilePaths
        <3>2. S \cap ({x} \X Places) \subseteq Cached
            BY <2>4, <3>1 DEF matches_all
        <3>3. x \in Swallowed(S)
            BY <1>7, <2>1, <3>2 DEF Swallowed
        <3> QED
            BY <1>1, <3>3
    <2> QED
        BY <1>7, <2>2, <2>3, <2>4 DEF Surviving
<1>8. ASSUME NEW x \in Unseen PROVE OnItsWay(x)' \/ x \in excused'
    <2>1. CASE x \in excused
        BY <1>1, <2>1
    <2>2. CASE FullOnItsWay \/ WillSettle(x)
        BY <1>4, <1>5, <2>2 DEF OnItsWay
    <2>3. CASE \E p \in events \cap FilePaths : p[1] = x
        <3>1. PICK p \in events \cap FilePaths : p[1] = x
            BY <2>3
        <3>2. CASE p \in S
            BY <1>7, <3>1, <3>2
        <3>3. CASE p \notin S
            BY <1>1, <3>1, <3>3 DEF OnItsWay
        <3> QED
            BY <3>2, <3>3
    <2>4. CASE \E t \in TriggersInFlight : \E p \in t.paths : p[1] = x
        BY <1>2, <2>4 DEF OnItsWay
    <2>5. CASE x = Server /\ \E i \in DOMAIN push : push[i] # last
        BY <1>1, <2>5 DEF OnItsWay, ssevars
    <2>6. OnItsWay(x) \/ x \in excused
        BY <1>8, ForgottenIs, ThingsApart DEF Kept
    <2> QED
        BY <2>1, <2>2, <2>3, <2>4, <2>5, <2>6 DEF OnItsWay
<1> QED
    BY <1>6, <1>8 DEF NothingForgotten, Lost

LEMMA CarryingKept ==
    ASSUME NothingForgotten, pc # "dead", Control,
           Forward \/ Expires \/ EventSource \/ forward_manual_triggers \/ Receive \/ UNCHANGED vars
    PROVE  NothingForgotten'
<1>0. TypeOK
    BY DEF Control
<1>1. CASE Forward
    <2>1. TriggersInFlight' = TriggersInFlight
        BY <1>0, <1>1, ForwardFrame DEF Forward, TriggersInFlight, runvars
    <2>2. Moves /\ UNCHANGED <<disk, bound, cursor, state, excused>> /\ (PushNews => PushNews')
        BY <1>1, <2>1 DEF Forward, Moves, PushNews, world, store, ssevars, runvars
    <2> QED
        BY <2>2, MovesKept
<1>2. CASE Expires
    <2>1. TriggersInFlight' = TriggersInFlight
        BY <1>2 DEF Expires, TriggersInFlight, runvars
    <2>2. Moves /\ UNCHANGED <<disk, bound, cursor, state, excused>> /\ (PushNews => PushNews')
        BY <1>2, <2>1 DEF Expires, Moves, PushNews, world, store, ssevars, runvars
    <2> QED
        BY <2>2, MovesKept
<1>3. CASE UNCHANGED vars
    <2>1. TriggersInFlight' = TriggersInFlight
        BY <1>3 DEF vars, fsvars, TriggersInFlight, runvars
    <2>2. Moves /\ UNCHANGED <<disk, bound, cursor, state, excused>> /\ (PushNews => PushNews')
        BY <1>3, <2>1 DEF vars, Moves, PushNews, world, store, fsvars, ssevars, runvars
    <2> QED
        BY <2>2, MovesKept
<1>4. CASE StreamOpens \/ Watchdog
    <2>1. TriggersInFlight' = TriggersInFlight
        BY <1>4 DEF StreamOpens, Watchdog, fsvars, TriggersInFlight, runvars
    <2>2. Moves /\ UNCHANGED <<disk, bound, cursor, state, excused>> /\ (PushNews => PushNews')
        BY <1>4, <2>1 DEF StreamOpens, Watchdog, Moves, PushNews, world, store, fsvars, runvars
    <2> QED
        BY <2>2, MovesKept
<1>5. CASE ReceiveState
    <2>1. CASE Head(push) # last
        BY <1>5, <2>1, FullKept DEF ReceiveState, FullOnItsWay
    <2>2. CASE Head(push) = last
        <3>1. TriggersInFlight' = TriggersInFlight
            BY <1>5 DEF ReceiveState, fsvars, TriggersInFlight, runvars
        <3>2. PushNews => PushNews'
            <4> SUFFICES ASSUME NEW i \in DOMAIN push, push[i] # last PROVE PushNews'
                BY DEF PushNews
            <4>1. push \in Seq(Nat) /\ push # <<>> /\ push' = Tail(push) /\ last' = last
                BY <1>0, <1>5, <2>2 DEF TypeOK, ReceiveState
            <4>2. /\ Len(push) \in Nat \ {0} /\ DOMAIN push = 1 .. Len(push) /\ Head(push) = push[1]
                  /\ DOMAIN Tail(push) = 1 .. Len(push) - 1
                  /\ \A j \in 1 .. Len(push) - 1 : Tail(push)[j] = push[j + 1]
                BY <4>1, HeadTailProperties, EmptySeq, LenProperties
            <4>3. i - 1 \in 1 .. Len(push) - 1 /\ Tail(push)[i - 1] = push[i]
                BY <2>2, <4>2
            <4> QED
                BY <4>1, <4>2, <4>3 DEF PushNews
        <3>3. Moves /\ UNCHANGED <<disk, bound, cursor, state, excused>>
            BY <1>5, <3>1 DEF ReceiveState, Moves, world, store, fsvars, runvars
        <3> QED
            BY <3>2, <3>3, MovesKept
    <2> QED
        BY <2>1, <2>2
<1>6. ASSUME NEW k \in {"remote", "manual"}, Sends(k) PROVE NothingForgotten'
    <2>1. Whole(k) \in ToSet(chan') /\ IsFull(Whole(k))
        BY <1>0, <1>6, SendsFrame
    <2>2. FullOnItsWay'
        BY <2>1 DEF FullOnItsWay, TriggersInFlight
    <2> QED
        BY <2>2, FullKept
<1>7. CASE SendRemoteChange
    BY <1>6, <1>7 DEF SendRemoteChange, Sends
<1>8. CASE forward_manual_triggers
    BY <1>6, <1>8 DEF forward_manual_triggers, Sends
<1>9. CASE Receive
    <2>1. TriggersInFlight' = TriggersInFlight
        <3>1. pc' = "window" /\ notifyQ' = notifyQ /\ pc \in {"recv", "window"}
            BY <1>9 DEF Receive, fsvars
        <3>2. ToSet(chan') \cup ToSet(batch') = ToSet(chan) \cup (IF pc = "window" THEN ToSet(batch) ELSE {})
            BY <1>9, ReceiveFrame
        <3>3. TriggersInFlight' = ToSet(notifyQ) \cup (ToSet(chan') \cup ToSet(batch'))
            BY <3>1 DEF TriggersInFlight
        <3>4. TriggersInFlight
                 = ToSet(notifyQ) \cup (ToSet(chan) \cup (IF pc = "window" THEN ToSet(batch) ELSE {}))
            BY <3>1 DEF TriggersInFlight
        <3> QED
            BY <3>2, <3>3, <3>4
    <2>2. Moves /\ UNCHANGED <<disk, bound, cursor, state, excused>> /\ (PushNews => PushNews')
        BY <1>9, <2>1 DEF Receive, Moves, PushNews, world, store, fsvars, ssevars
    <2> QED
        BY <2>2, MovesKept
<1> QED
    BY <1>1, <1>2, <1>3, <1>4, <1>5, <1>7, <1>8, <1>9 DEF EventSource

LEMMA SessionKept ==
    ASSUME NothingForgotten, pc # "dead", Control, Session
    PROVE  NothingForgotten'
<1>1. SUFFICES ASSUME pc' # "dead" PROVE NothingForgotten'
    BY DEF NothingForgotten
<1>2. /\ UNCHANGED <<world, store, fsvars, chan, permit, batch, seen, boot, excused, push, sending>>
      /\ pc \in {"connect", "session", "backoff"}
      /\ pc' \in {"connect", "session", "recv", "backoff"} \/ (pc = "connect" /\ pc' = "scan" /\ boot)
      /\ pc = "connect" /\ boot => pc' \in {"connect", "scan"}
    BY <1>1 DEF Session, Connected, CachedUrlFails, ConnectFails, OpenSession, SetupFails, SessionAborts,
                SleepsBackoff, ssevars
<1>3. CASE boot
    <2>1. boot' /\ pc' \in {"connect", "scan"}
        BY <1>2, <1>3 DEF Control, Staged
    <2> QED
        BY <2>1, FullKept DEF FullOnItsWay
<1>4. CASE ~boot
    <2>1. TriggersInFlight' = TriggersInFlight
        BY <1>2, <1>4 DEF TriggersInFlight, fsvars
    <2>2. push = <<>>
        BY <1>2 DEF Control, Offline
    <2>3. Moves /\ UNCHANGED <<disk, bound, cursor, state, excused>>
        BY <1>2, <1>4, <2>1 DEF Moves, world, store, fsvars
    <2>4. PushNews => PushNews'
        BY <2>2 DEF PushNews
    <2> QED
        BY <2>3, <2>4, MovesKept
<1> QED
    BY <1>3, <1>4

\* The trigger of a window covers what its parts covered.
LEMMA WindowKept ==
    ASSUME NothingForgotten, pc # "dead", Control, WindowElapses
    PROVE  NothingForgotten'
<1> DEFINE c == coalesce_triggers(batch)
<1>1. /\ pc = "window" /\ pc' = "scan" /\ chan = <<>> /\ notifyQ = <<>> /\ batch' = <<c>> /\ ~boot
      /\ UNCHANGED <<world, store, fsvars, chan, permit, ssevars, boot, seen, excused>>
    BY DEF WindowElapses, Control, Staged
<1>2. /\ IsFull(c) <=> \E u \in ToSet(batch) : IsFull(u)
      /\ c.paths = UNION {u.paths : u \in ToSet(batch)} \/ (c.paths = {} /\ IsFull(c))
    BY CoalesceIs DEF Control, Staged, TypeOK, WindowElapses
<1> HIDE DEF c
<1>3. TriggersInFlight = ToSet(batch) /\ TriggersInFlight' = {c}
    <2>1. ToSet(notifyQ) = {} /\ ToSet(chan) = {} /\ notifyQ' = notifyQ /\ chan' = chan
        BY <1>1, ToSetEmpty DEF fsvars
    <2>2. ToSet(<<c>>) = {c}
        BY DEF ToSet
    <2> QED
        BY <1>1, <2>1, <2>2 DEF TriggersInFlight
<1>4. FullOnItsWay => FullOnItsWay'
    <2>1. \A p : Signals(p)' = Signals(p)
        BY <1>1 DEF Signals, world
    <2> QED
        BY <1>1, <1>2, <1>3, <2>1 DEF FullOnItsWay, ssevars, fsvars
<1>5. Unseen' = Unseen
    BY <1>1 DEF Unseen, Differs, DirDiffers, Misread, world, store
<1>6. ASSUME NEW x, OnItsWay(x) PROVE OnItsWay(x)'
    <2>1. CASE FullOnItsWay
        BY <1>4, <2>1 DEF OnItsWay
    <2>2. CASE \E t \in TriggersInFlight : \E p \in t.paths : p[1] = x
        <3>1. CASE IsFull(c)
            BY <1>3, <3>1 DEF FullOnItsWay, OnItsWay
        <3>2. CASE ~IsFull(c)
            <4>1. \E p \in c.paths : p[1] = x
                BY <1>2, <1>3, <2>2, <3>2
            <4> QED
                BY <1>3, <4>1 DEF OnItsWay
        <3> QED
            BY <3>1, <3>2
    <2>3. CASE \E p \in events \cap FilePaths : p[1] = x
        BY <1>1, <2>3 DEF OnItsWay, fsvars
    <2>4. CASE x = Server /\ \E i \in DOMAIN push : push[i] # last
        BY <1>1, <2>4 DEF OnItsWay, ssevars
    <2>5. ~WillSettle(x)
        BY <1>1 DEF WillSettle
    <2> QED
        BY <1>6, <2>1, <2>2, <2>3, <2>4, <2>5 DEF OnItsWay
<1> QED
    BY <1>1, <1>5, <1>6 DEF NothingForgotten, Lost

\* A full scan finds all there is, another one the files it was told of; the rest
\* stays where it was.
LEMMA ScanKept ==
    ASSUME NothingForgotten, FilesInv, Control, Scan
    PROVE  NothingForgotten'
<1> DEFINE t == batch[1]
<1>0. TypeOK
    BY DEF Control
<1>1. /\ pc = "scan" /\ pc' = "exchange" /\ seen' = SeenAs(t)
      /\ excused' = IF IsFull(t) THEN excused \cap {Server} ELSE excused
      /\ UNCHANGED <<world, store, fsvars, chan, permit, ssevars, boot, batch>>
    BY DEF Scan
<1>2. t \in Triggers /\ ToSet(batch) = {t} /\ (boot => IsFull(t)) /\ InBatch = t.paths
    BY <1>1, BatchIs
<1> HIDE DEF t
<1>3. TriggersInFlight = TriggersInFlight' \cup {t}
    BY <1>1, <1>2 DEF TriggersInFlight, fsvars
<1>4. ASSUME NEW x \in Files, Differs(x), IsFull(t) \/ PathsOf(InBatch, x) # {} PROVE OnItsWay(x)'
    <2>1. seen'[x] = Verdict(x, t)
        BY <1>1 DEF SeenAs
    <2>2. Verdict(x, t) \notin {"same", db[x]}
        BY <1>1, <1>4, VerdictIs DEF t
    <2>3. Changed(x)'
        BY <1>1, <2>1, <2>2 DEF Changed, store
    <2> QED
        BY <1>1, <2>3, ThingsApart DEF WillSettle, OnItsWay
<1>5. ASSUME NEW x \in Files, x \in Unseen' PROVE Differs(x)
    <2>1. Differs(x)'
        BY <1>5, DisjointAssumption DEF Unseen, Server
    <2> QED
        BY <1>1, <2>1 DEF Differs, world, store
<1>6. CASE IsFull(t)
    <2>1. ASSUME NEW x \in Files, x \in Unseen' PROVE OnItsWay(x)'
        BY <1>4, <1>5, <1>6, <2>1
    <2>2. ASSUME NEW x \in Folders PROVE OnItsWay(x)'
        <3>1. seen'[x] = IF dirs[x] = "absent" THEN "deleted" ELSE "there"
            BY <1>1, <1>6, <2>2, DisjointAssumption DEF SeenAs, FolderVerdict
        <3>2. seen'[x] # "same" /\ ~Misread(x)'
            BY <1>1, <3>1 DEF Misread, world
        <3> QED
            BY <1>1, <2>2, <3>2, ThingsApart DEF WillSettle, OnItsWay
    <2>3. OnItsWay(Server)'
        <3>1. FetchDue'
            BY <1>1, <1>6 DEF FetchDue, t
        <3> QED
            BY <1>1, <3>1 DEF WillSettle, OnItsWay
    <2> QED
        BY <2>1, <2>2, <2>3 DEF NothingForgotten, Lost, Unseen
<1>7. CASE ~IsFull(t)
    <2>1. FullOnItsWay => FullOnItsWay'
        <3>1. \A p : Signals(p)' = Signals(p)
            BY <1>1 DEF Signals, world
        <3> QED
            BY <1>1, <1>2, <1>3, <1>7, <3>1 DEF FullOnItsWay, ssevars, fsvars
    <2>2. ASSUME NEW x, OnItsWay(x), ~\E p \in t.paths : p[1] = x PROVE OnItsWay(x)'
        BY <1>1, <1>3, <2>1, <2>2 DEF OnItsWay, WillSettle, ssevars, fsvars
    <2>3. \A p \in t.paths : p \in FilePaths /\ p[1] \in Files
        BY <1>2 DEF Triggers, FilePaths
    <2>4. ASSUME NEW x \in Files, x \in Unseen' PROVE OnItsWay(x)' \/ x \in excused'
        <3>1. Differs(x) /\ x \in Unseen
            BY <1>5, <2>4, UnseenIs
        <3>2. CASE \E p \in t.paths : p[1] = x
            <4>1. PathsOf(InBatch, x) # {}
                BY <1>2, <2>3, <3>2 DEF PathsOf
            <4> QED
                BY <1>4, <3>1, <4>1
        <3>3. CASE ~\E p \in t.paths : p[1] = x
            BY <1>1, <1>7, <2>2, <3>1, <3>3, ForgottenIs, ThingsApart DEF Kept
        <3> QED
            BY <3>2, <3>3
    <2>5. ASSUME NEW x \in Folders, x \in Unseen' PROVE OnItsWay(x)' \/ x \in excused'
        <3>1. seen'[x] = "same"
            BY <1>1, <1>7, DisjointAssumption DEF SeenAs, FolderVerdict
        <3>2. DirDiffers(x)
            BY <1>1, <2>5, <3>1, DisjointAssumption DEF Unseen, Server, DirDiffers, Misread, world, store
        <3>3. x \in Unseen /\ ~\E p \in t.paths : p[1] = x
            BY <2>3, <3>2, UnseenIs, ThingsApart
        <3> QED
            BY <1>1, <1>7, <2>2, <3>3, ForgottenIs, ThingsApart DEF Kept
    <2>6. ASSUME Server \in Unseen' PROVE OnItsWay(Server)' \/ Server \in excused'
        <3>1. Server \in Unseen
            BY <1>1, <2>6, DisjointAssumption DEF Unseen, Server, world, store
        <3>2. ~\E p \in t.paths : p[1] = Server
            BY <2>3, ThingsApart
        <3> QED
            BY <1>1, <1>7, <2>2, <3>1, <3>2, ForgottenIs, ThingsApart DEF Kept
    <2> QED
        BY <2>4, <2>5, <2>6 DEF NothingForgotten, Lost, Unseen
<1> QED
    BY <1>6, <1>7

\* What still differs after a cycle is what the cycle did not act on.
LEMMA ExchangeSettles ==
    ASSUME FilesInv, Control, Exchange, NEW f \in Files, f \notin Written, Differs(f)'
    PROVE  Differs(f) /\ ~Changed(f)
<1>1. FileInv(f) /\ TypeOK
    BY DEF FilesInv, Control
<1>2. disk'[f] = disk[f] /\ db'[f] = DbAfter(f) /\ DiskAfter(f) = disk[f]
    BY ExchangeOf
<1>3. disk[f] \in {"gone", "new", "cur", "curS"} /\ db[f] \in {"none", "-", "S"} /\ srv[f] \in {"none", "-", "S"}
    BY <1>1 DEF TypeOK, Places
<1>4. ~Changed(f)
    <2>1. ASSUME Changed(f) PROVE ~Differs(f)'
        <3>1. seen[f] = FullVerdict(f) /\ seen[f] # "same"
            BY <1>1, <2>1 DEF FileInv, Exact, Exchange, Changed
        <3>2. db'[f] = IF FullVerdict(f) = "deleted" THEN "none" ELSE FullVerdict(f)
            BY <1>2, <2>1, <3>1 DEF DbAfter
        <3> QED
            BY <1>2, <1>3, <3>1, <3>2 DEF FullVerdict, FlagsOf, Differs
    <2> QED
        BY <2>1
<1>5. ~Pulled(f)
    <2>1. ASSUME Pulled(f) PROVE ~Differs(f)'
        <3>1. ~Differs(f)
            BY <2>1, ExchangeOf
        <3>2. db'[f] = IF ~(disk[f] = "gone" /\ db[f] # "none" /\ srv[f] # "none") THEN srv[f] ELSE db[f]
            BY <1>2, <1>4, <2>1 DEF DbAfter
        <3> QED
            BY <1>2, <1>3, <2>1, <3>1, <3>2 DEF DiskAfter, FlagsOf, Differs
    <2> QED
        BY <2>1
<1> QED
    BY <1>2, <1>4, <1>5 DEF DbAfter, Differs

LEMMA ExchangeKept ==
    ASSUME NothingForgotten, FilesInv, Control, Exchange
    PROVE  NothingForgotten'
<1>0. TypeOK
    BY DEF Control
<1>1. /\ pc = "exchange" /\ pc' \in {"session", "recv"} /\ events \subseteq events'
      /\ state' = IF \E f \in Files : Changed(f) THEN state + 1 ELSE state
      /\ ~(\E f \in Files : Changed(f)) => push' = push
      /\ cursor' = IF FetchDue THEN state' ELSE cursor
      /\ bound' = {d \in Folders : seen[d] = "there" \/ (seen[d] = "same" /\ d \in bound)}
      /\ dirs' = [d \in Folders |->
                      IF seen[d] = "there" /\ dirs[d] = "unbound" THEN "bound" ELSE dirs[d]]
      /\ excused' = IF FetchDue THEN excused \ {Server} ELSE excused
      /\ UNCHANGED <<notifyQ, chan, permit, last, sending>>
    BY DEF Exchange
<1>2. TriggersInFlight' = TriggersInFlight
    BY <1>1 DEF TriggersInFlight
<1>3. \A d \in Folders : dirs'[d] = "absent" <=> dirs[d] = "absent"
    BY <1>1
<1>4. FullOnItsWay => FullOnItsWay'
    <2>1. ASSUME NEW p \in events \cap DirPaths, Signals(p) PROVE FullOnItsWay'
        <3>1. p[1] \in Folders
            BY <2>1 DEF DirPaths
        <3>2. Signals(p)' /\ p \in events' \cap DirPaths
            BY <1>1, <1>3, <2>1, <3>1 DEF Signals
        <3> QED
            BY <3>2 DEF FullOnItsWay
    <2> QED
        BY <1>1, <1>2, <2>1 DEF FullOnItsWay
<1>5. ASSUME NEW x \in Things, OnItsWay(x), ~WillSettle(x), x # Server PROVE OnItsWay(x)'
    BY <1>1, <1>2, <1>4, <1>5 DEF OnItsWay
<1>6. ASSUME NEW x \in Files, x \in Unseen' PROVE OnItsWay(x)' \/ x \in excused'
    <2>1. Differs(x)'
        BY <1>6, DisjointAssumption DEF Unseen, Server
    <2>2. CASE x \in Written
        <3>1. disk[x] # DiskAfter(x)
            BY <2>2, ExchangeOf
        <3>2. NamesOf(x) # {}
            <4>1. disk[x] \in Places \cup {"gone"} /\ DiskAfter(x) \in Places \cup {"gone"}
                BY <1>0, DiskAfterType DEF TypeOK
            <4>2. disk[x] \in Places \/ DiskAfter(x) \in Places
                BY <3>1, <4>1
            <4>3. <<x, disk[x]>> \in FilePaths \/ <<x, DiskAfter(x)>> \in FilePaths
                BY <4>2 DEF FilePaths
            <4> QED
                BY <4>3 DEF NamesOf
        <3>3. NamesOf(x) \subseteq PathsOf(events', x)
            BY <2>2, ExchangeOf
        <3>4. \E p \in events' \cap FilePaths : p[1] = x
            BY <3>2, <3>3 DEF PathsOf
        <3> QED
            BY <3>4 DEF OnItsWay
    <2>3. CASE x \notin Written
        <3>1. Differs(x) /\ ~Changed(x)
            BY <2>1, <2>3, ExchangeSettles
        <3>2. x \in Unseen /\ ~WillSettle(x) /\ x \in Things /\ x # Server
            BY <3>1, UnseenIs, ThingsApart DEF WillSettle, Things
        <3> QED
            BY <1>1, <1>5, <3>2, ForgottenIs DEF Kept
    <2> QED
        BY <2>2, <2>3
<1>7. ASSUME NEW x \in Folders, x \in Unseen' PROVE OnItsWay(x)' \/ x \in excused'
    <2>1. DirDiffers(x)'
        BY <1>1, <1>7, DisjointAssumption DEF Unseen, Server, Misread
    <2>2. x \in Unseen /\ ~WillSettle(x)
        <3>1. CASE seen[x] = "same"
            <4>1. DirDiffers(x)
                BY <1>1, <1>3, <2>1, <3>1 DEF DirDiffers
            <4> QED
                BY <3>1, <4>1, UnseenIs, ThingsApart DEF WillSettle
        <3>2. CASE seen[x] # "same"
            <4>1. Misread(x)
                BY <1>1, <1>3, <2>1, <3>2 DEF DirDiffers, Misread
            <4> QED
                BY <4>1, UnseenIs, ThingsApart DEF WillSettle
        <3> QED
            BY <3>1, <3>2
    <2>3. x \in Things /\ x # Server
        BY ThingsApart DEF Things
    <2> QED
        BY <1>1, <1>5, <2>2, <2>3, ForgottenIs DEF Kept
<1>8. ASSUME Server \in Unseen' PROVE OnItsWay(Server)' \/ Server \in excused'
    <2>1. cursor' < state'
        BY <1>8, DisjointAssumption DEF Unseen, Server
    <2>2. ~FetchDue
        BY <1>0, <1>1, <2>1 DEF TypeOK
    <2>3. UNCHANGED <<state, cursor, push, excused>>
        BY <1>1, <2>2 DEF FetchDue
    <2>4. Server \in Unseen /\ ~WillSettle(Server)
        BY <2>1, <2>2, <2>3, UnseenIs DEF WillSettle
    <2>5. OnItsWay(Server) => OnItsWay(Server)'
        BY <1>1, <1>2, <1>4, <2>3, <2>4 DEF OnItsWay
    <2> QED
        BY <1>1, <2>3, <2>4, <2>5, ForgottenIs DEF Kept, Things
<1> QED
    BY <1>6, <1>7, <1>8 DEF NothingForgotten, Lost, Unseen

LEMMA DeadStays == ASSUME pc = "dead", [Next]_vars PROVE pc' = "dead"
<1>1. Environment => UNCHANGED pc
    BY DEF Environment, UserActs, MakeFolder, RemoveFolder, MoveFolderOut, Churn, FolderActs,
           RenameFolder, ServerActs, LinkChanges, LinkRestored, PressesS, StreamFails, runvars
<1>2. Beside \/ EventSource => UNCHANGED pc
    BY BesideUntouched DEF EventSource, StreamOpens, Watchdog, ReceiveState, SendRemoteChange, runvars
<1>3. ~Runner
    BY DEF Runner, Connected, CachedUrlFails, ConnectFails, OpenSession, SetupFails, SessionAborts,
           SleepsBackoff, Receive, WindowElapses, Scan, Exchange, CycleFailsTransient, CycleFailsHard,
           CycleFails
<1> QED
    BY <1>1, <1>2, <1>3 DEF Next, Beside, vars, runvars

LEMMA KeptStep == ASSUME NothingForgotten, FilesInv, Control, [Next]_vars PROVE NothingForgotten'
<1>1. CASE pc = "dead"
    BY <1>1, DeadStays DEF NothingForgotten
<1>2. CASE pc # "dead"
    <2>1. CASE Environment
        <3>1. \/ \E f \in Files, to \in {"gone", "cur", "curS"} : UserActs(f, to)
              \/ \E f \in Files, to \in {"none", "-", "S"} : ServerActs(f, to)
              \/ Elsewhere
            BY <2>1, Zenon DEF Environment, Elsewhere
        <3> QED
            BY <1>2, <3>1, UserActsKept, ServerActsKept, ElsewhereKept
    <2>2. CASE \E S \in SUBSET events : Flush(S)
        BY <1>2, <2>2, FlushKept
    <2>3. CASE Forward \/ Expires \/ EventSource \/ forward_manual_triggers \/ Receive \/ UNCHANGED vars
        BY <1>2, <2>3, CarryingKept
    <2>4. CASE Session
        BY <1>2, <2>4, SessionKept
    <2>5. CASE WindowElapses \/ Scan \/ Exchange
        BY <1>2, <2>5, WindowKept, ScanKept, ExchangeKept
    <2>6. CASE CycleFailsTransient \/ CycleFailsHard
        BY <2>6, ExcusedKept DEF CycleFailsTransient, CycleFailsHard
    <2> QED
        BY <2>1, <2>2, <2>3, <2>4, <2>5, <2>6 DEF Next, Watcher, Runner, Session
<1> QED
    BY <1>1, <1>2

\* For any files and folders, channels of any size and any number of events: while
\* the daemon lives, what differs between disk, server and DB is on its way to a
\* cycle or was lost in a way the code accepts, where a file changes only after
\* its last change is synced and a burst with an own write is kept together.
THEOREM NothingForgottenCorrect ==
    ASSUME ~Overlaps, ~SplitsEchoes
    PROVE  Spec => []NothingForgotten
<1>1. Init => Control /\ FilesInv /\ NothingForgotten
    BY InitControl, InitFiles, InitKept
<1>2. Control /\ FilesInv /\ NothingForgotten /\ [Next]_vars => (Control /\ FilesInv /\ NothingForgotten)'
    BY ControlStep, FilesStep, KeptStep
<1> QED
    BY <1>1, <1>2, PTL DEF Spec

-----------------------------------------------------------------------------
(* The event source and the fetches it asks for.                           *)

\* No state is heard of before the server is in it.
Heard == last \in 0 .. state /\ \A i \in DOMAIN push : push[i] \in 0 .. state

LEMMA HeardStep == ASSUME Control, Heard, [Next]_vars PROVE Heard'
<1>0. /\ state \in Nat /\ cursor \in 0 .. state /\ push \in Seq(Nat) /\ last \in Nat
      /\ state' \in Nat /\ cursor' \in 0 .. state' /\ push' \in Seq(Nat)
    BY ControlStep DEF Control, TypeOK
<1>1. ASSUME state' >= state, push' = Append(push, state') \/ push' = push \/ push' = <<>>, last' = last
      PROVE  Heard'
    <2>1. CASE push' = Append(push, state')
        <3>1. /\ DOMAIN push = 1 .. Len(push) /\ Len(push) \in Nat
              /\ DOMAIN push' = 1 .. Len(push) + 1 /\ push'[Len(push) + 1] = state'
              /\ \A i \in 1 .. Len(push) : push'[i] = push[i]
            BY <1>0, <2>1, AppendProperties, LenProperties
        <3> QED
            BY <1>0, <1>1, <3>1 DEF Heard
    <2>2. CASE push' = push
        BY <1>0, <1>1, <2>2 DEF Heard
    <2>3. CASE push' = <<>>
        BY <1>0, <1>1, <2>3 DEF Heard
    <2> QED
        BY <1>1, <2>1, <2>2, <2>3
<1>2. CASE Environment
    <2>1. /\ state' = state \/ state' = state + 1
          /\ push' = push \/ push' = Pushed \/ push' = <<>>
          /\ last' = last
        BY <1>2 DEF Environment, UserActs, MakeFolder, RemoveFolder, MoveFolderOut, Churn, FolderActs,
                    RenameFolder, ServerActs, LinkChanges, LinkRestored, PressesS, StreamFails, world, ssevars
    <2>2. state' >= state
        BY <1>0, <2>1
    <2> QED
        BY <1>1, <2>1, <2>2 DEF Pushed
<1>3. CASE Beside \/ StreamOpens \/ Watchdog \/ SendRemoteChange \/ Receive \/ WindowElapses \/ Scan
           \/ CycleFailsTransient \/ CycleFailsHard \/ UNCHANGED vars
    <2>1. UNCHANGED <<state, last>> /\ (push' = push \/ push' = <<>>)
        BY <1>3, BesideUntouched DEF StreamOpens, Watchdog, SendRemoteChange, Receive, WindowElapses, Scan,
           CycleFailsTransient, CycleFailsHard, CycleFails, vars, world, ssevars
    <2> QED
        BY <1>0, <1>1, <2>1
<1>4. CASE ReceiveState
    <2>1. push # <<>> /\ push' = Tail(push) /\ last' = Head(push) /\ state' = state
        BY <1>4 DEF ReceiveState, world
    <2>2. /\ Len(push) \in Nat \ {0} /\ DOMAIN push = 1 .. Len(push) /\ Head(push) = push[1]
          /\ DOMAIN Tail(push) = 1 .. Len(push) - 1
          /\ \A j \in 1 .. Len(push) - 1 : Tail(push)[j] = push[j + 1]
        BY <1>0, <2>1, HeadTailProperties, EmptySeq, LenProperties
    <2> QED
        BY <2>1, <2>2 DEF Heard
<1>5. CASE Session
    <2>1. UNCHANGED <<state, push, cursor>> /\ last' \in {last, cursor}
        BY <1>5 DEF Session, Connected, CachedUrlFails, ConnectFails, OpenSession, SetupFails, SessionAborts,
                    SleepsBackoff, world, store, ssevars
    <2> QED
        BY <1>0, <2>1 DEF Heard
<1>6. CASE Exchange
    <2>1. /\ state' = state \/ state' = state + 1
          /\ push' = push \/ push' = Append(push, state')
          /\ last' = last
        BY <1>6 DEF Exchange
    <2> QED
        BY <1>0, <1>1, <2>1
<1> QED
    BY <1>2, <1>3, <1>4, <1>5, <1>6 DEF Next, Runner, Session, EventSource, Beside

\* A step that carries what is ordered, and asks for a fetch of what it hears of.
Orders ==
    /\ stream' # "off" => stream # "off"
    /\ last' # last \/ cursor' # cursor => FetchOrdered'
    /\ FetchOrdered => FetchOrdered'

LEMMA OrdersHears == ASSUME Orders, ~Deaf PROVE ~Deaf'
BY DEF Orders, Deaf

\* The lanes to the runner.
LEMMA BesideOrders ==
    ASSUME Control, Watcher \/ Expires \/ forward_manual_triggers \/ Receive \/ EventSource
    PROVE  Orders
<1>0. TypeOK
    BY DEF Control
<1>1. CASE Watcher \/ Expires \/ forward_manual_triggers
    <2>1. UNCHANGED <<last, stream, sending, cursor, boot, pc, db, seen, batch>>
        BY <1>1, BesideUntouched DEF Beside, store, ssevars, runvars
    <2>2. FetchDue' = FetchDue
        BY <2>1 DEF FetchDue, Changed
    <2>3. CASE Watcher \/ Expires
        <3>1. TriggersInFlight \subseteq TriggersInFlight' /\ permit' = permit
            <4>1. ASSUME NEW S \in SUBSET events, Flush(S) PROVE TriggersInFlight \subseteq TriggersInFlight'
                BY <1>0, <4>1, FlushIs
            <4>2. CASE Forward
                BY <1>0, <4>2, ForwardFrame DEF Forward, TriggersInFlight, runvars
            <4>3. CASE Expires
                BY <4>3 DEF Expires, TriggersInFlight, runvars
            <4>4. permit' = permit
                BY <2>3, BesideUntouched DEF Beside
            <4> QED
                BY <2>3, <4>1, <4>2, <4>3, <4>4 DEF Watcher
        <3> QED
            BY <2>1, <2>2, <3>1 DEF Orders, FetchOrdered
    <2>4. CASE forward_manual_triggers
        <3>1. Whole("manual") \in ToSet(chan') /\ IsFull(Whole("manual"))
            BY <1>0, <2>4, SendsFrame DEF forward_manual_triggers, Sends
        <3> QED
            BY <2>1, <3>1 DEF Orders, FetchOrdered, TriggersInFlight
    <2> QED
        BY <1>1, <2>3, <2>4
<1>2. CASE SendRemoteChange
    <2>1. Whole("remote") \in ToSet(chan') /\ IsFull(Whole("remote"))
        BY <1>0, <1>2, SendsFrame DEF SendRemoteChange, Sends
    <2>2. stream' = stream
        BY <1>2 DEF SendRemoteChange
    <2> QED
        BY <2>1, <2>2 DEF Orders, FetchOrdered, TriggersInFlight
<1>3. CASE StreamOpens \/ Watchdog \/ ReceiveState
    <2>1. UNCHANGED <<cursor, permit, boot, pc, db, seen, batch, notifyQ, chan>>
        BY <1>3 DEF StreamOpens, Watchdog, ReceiveState, store, fsvars, runvars
    <2>2. (sending => sending') /\ (last' # last => sending')
        <3>1. CASE StreamOpens \/ Watchdog
            BY <3>1 DEF StreamOpens, Watchdog
        <3>2. CASE ReceiveState
            <4>1. ~sending /\ last' = Head(push) /\ sending' = (Head(push) # last)
                BY <3>2 DEF ReceiveState
            <4> QED
                BY <4>1, Zenon
        <3> QED
            BY <1>3, <3>1, <3>2
    <2>3. stream' # "off" => stream # "off"
        BY <1>3 DEF StreamOpens, Watchdog, ReceiveState
    <2>4. FetchDue' = FetchDue /\ TriggersInFlight' = TriggersInFlight
        BY <2>1 DEF FetchDue, Changed, TriggersInFlight
    <2> QED
        BY <2>1, <2>2, <2>3, <2>4 DEF Orders, FetchOrdered
<1>4. CASE Receive
    <2>1. pc' = "window" /\ notifyQ' = notifyQ /\ pc \in {"recv", "window"}
        BY <1>4 DEF Receive, fsvars
    <2>2. ToSet(chan') \cup ToSet(batch') = ToSet(chan) \cup (IF pc = "window" THEN ToSet(batch) ELSE {})
        BY <1>0, <1>4, ReceiveFrame DEF Control
    <2>3. TriggersInFlight' = TriggersInFlight
        <3>1. TriggersInFlight' = ToSet(notifyQ) \cup (ToSet(chan') \cup ToSet(batch'))
            BY <2>1 DEF TriggersInFlight
        <3>2. TriggersInFlight
                 = ToSet(notifyQ) \cup (ToSet(chan) \cup (IF pc = "window" THEN ToSet(batch) ELSE {}))
            BY <2>1 DEF TriggersInFlight
        <3> QED
            BY <2>2, <3>1, <3>2
    <2>4. UNCHANGED <<last, stream, sending, cursor, permit>>
        BY <1>4 DEF Receive, store, ssevars
    <2> QED
        BY <2>1, <2>3, <2>4 DEF Orders, FetchOrdered
<1> QED
    BY <1>1, <1>2, <1>3, <1>4 DEF EventSource

LEMMA EnvironmentOrders == ASSUME Control, Environment PROVE Orders
<1>1. /\ UNCHANGED <<last, cursor, sending, boot, pc, db, seen, batch, notifyQ, chan>>
      /\ permit => permit'
      /\ stream' # "off" => stream # "off"
    BY DEF Environment, UserActs, MakeFolder, RemoveFolder, MoveFolderOut, Churn, FolderActs,
           RenameFolder, ServerActs, LinkChanges, LinkRestored, PressesS, StreamFails, store, fsvars,
           ssevars, runvars
<1>2. FetchDue' = FetchDue /\ TriggersInFlight' = TriggersInFlight
    BY <1>1 DEF FetchDue, Changed, TriggersInFlight
<1> QED
    BY <1>1, <1>2 DEF Orders, FetchOrdered

\* The runner: a full trigger reaches the fetch, and the fetch the server's state.
LEMMA RunnerHears ==
    ASSUME Control, Heard, ~Deaf, WindowElapses \/ Scan \/ Exchange \/ Session \/ CycleFailsTransient
    PROVE  ~Deaf'
<1>0. TypeOK
    BY DEF Control
<1>1. CASE WindowElapses
    <2> DEFINE c == coalesce_triggers(batch)
    <2>1. /\ pc = "window" /\ pc' = "scan" /\ chan = <<>> /\ notifyQ = <<>> /\ batch' = <<c>> /\ ~boot
          /\ UNCHANGED <<notifyQ, chan, permit, stream, last, sending, cursor>>
        BY <1>1 DEF WindowElapses, Control, Staged, fsvars, ssevars, store
    <2>2. IsFull(c) <=> \E u \in ToSet(batch) : IsFull(u)
        BY <1>0, <1>1, <2>1, CoalesceIs DEF Control, Staged, TypeOK
    <2> HIDE DEF c
    <2>3. TriggersInFlight = ToSet(batch) /\ TriggersInFlight' = {c}
        <3>1. ToSet(notifyQ) = {} /\ ToSet(chan) = {} /\ ToSet(<<c>>) = {c}
            BY <2>1, ToSetEmpty DEF ToSet
        <3> QED
            BY <2>1, <3>1 DEF TriggersInFlight
    <2> QED
        BY <2>1, <2>2, <2>3, OrdersHears DEF Orders, FetchOrdered
<1>2. CASE Scan
    <2>1. PICK t \in Triggers : batch = <<t>> /\ (boot => IsFull(t))
        BY <1>2 DEF Scan, Control, Staged
    <2>2. /\ pc = "scan" /\ pc' = "exchange"
          /\ UNCHANGED <<notifyQ, chan, permit, stream, last, sending, cursor, batch, boot>>
        BY <1>2 DEF Scan, fsvars, ssevars, store
    <2>3. ToSet(batch) = {t} /\ batch[1] = t
        BY <2>1 DEF ToSet
    <2>4. IsFull(t) => FetchDue'
        BY <2>2, <2>3 DEF FetchDue
    <2>5. TriggersInFlight = TriggersInFlight' \cup {t}
        BY <2>2, <2>3 DEF TriggersInFlight
    <2> QED
        BY <2>1, <2>2, <2>4, <2>5, OrdersHears DEF Orders, FetchOrdered
<1>3. CASE Exchange
    <2>1. /\ pc = "exchange" /\ pc' = IF boot THEN "session" ELSE "recv"
          /\ UNCHANGED <<notifyQ, chan, permit, stream, last, sending>>
          /\ state' \in {state, state + 1}
          /\ cursor' = IF FetchDue THEN state' ELSE cursor
        BY <1>3 DEF Exchange
    <2>2. CASE FetchDue
        <3>1. ~(last' > cursor')
            BY <1>0, <2>1, <2>2 DEF Heard, TypeOK
        <3> QED
            BY <3>1 DEF Deaf
    <2>3. CASE ~FetchDue
        <3>1. TriggersInFlight' = TriggersInFlight
            BY <2>1 DEF TriggersInFlight
        <3> QED
            BY <2>1, <2>3, <3>1, OrdersHears DEF Orders, FetchOrdered
    <2> QED
        BY <2>2, <2>3
<1>4. CASE Session
    <2>1. stream = "off"
        BY <1>4 DEF Control, Offline, Session, Connected, CachedUrlFails, ConnectFails, OpenSession, SetupFails,
                    SessionAborts, SleepsBackoff
    <2>2. stream' = "off" \/ (last' = cursor /\ cursor' = cursor)
        BY <1>4, <2>1 DEF Session, Connected, CachedUrlFails, ConnectFails, OpenSession, SetupFails,
                    SessionAborts, SleepsBackoff, store, ssevars
    <2>3. cursor \in Int
        BY <1>0 DEF TypeOK
    <2> QED
        BY <2>2, <2>3 DEF Deaf
<1>5. CASE CycleFailsTransient
    BY <1>5 DEF CycleFailsTransient, Deaf
<1> QED
    BY <1>1, <1>2, <1>3, <1>4, <1>5

\* For any files, channels and events, and wherever the server is found: only a
\* cycle that fails for good leaves the event source deaf to a state of the server
\* that no fetch has reached.
THEOREM OnlyHardErrorsDeafenCorrect == Spec => OnlyHardErrorsDeafen
<1>1. Init => Control /\ Heard
    <2>1. Init => Heard
        BY DEF Init, Heard
    <2> QED
        BY <2>1, InitControl
<1>2. Control /\ Heard /\ [Next]_vars => (Control /\ Heard)'
    BY ControlStep, HeardStep
<1>3. Control /\ Heard /\ [Next]_vars
          => [~Deaf /\ Deaf' => link = "unauthorized" /\ pc \in {"scan", "exchange"}]_vars
    <2> SUFFICES ASSUME Control, Heard, Next, ~Deaf, Deaf'
                 PROVE  link = "unauthorized" /\ pc \in {"scan", "exchange"}
        OBVIOUS
    <2>1. CycleFailsHard
        BY BesideOrders, EnvironmentOrders, RunnerHears, OrdersHears DEF Next, Runner, Session
    <2> QED
        BY <2>1 DEF CycleFailsHard, CycleFails
<1> QED
    BY <1>1, <1>2, <1>3, PTL DEF Spec, OnlyHardErrorsDeafen
=============================================================================
