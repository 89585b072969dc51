---------------------------- MODULE FoldersProofs ---------------------------
(***************************************************************************)
(* What holds of the folder half of a cycle, and of the commands beside    *)
(* it, for any account, any number of acts and any crashes.                *)
(***************************************************************************)
EXTENDS Janitor, ReconcileProofs

-----------------------------------------------------------------------------
(* The types of what is stored, looked at, decided and answered.           *)

Box0 == Box \cup {NoBox}
Place == [name : Names, parent : Box0]
Mark == {Unmarked} \cup [id : Box, name : Names, parent : Box0]
\* Files have places and mail has a mailbox.
Places == [at : Paths \cup {Nowhere, Rescued}, mid : Mid]
Mailed == [box : Box0, mid : Mid]
Binding == [name : Names, parent : Box0, folder : Paths]

IsTree(t) == DOMAIN t \subseteq Box /\ t \in [DOMAIN t -> Place]
IsDirs(ds) == DOMAIN ds \subseteq Paths /\ ds \in [DOMAIN ds -> Mark]
IsCache(c) == DOMAIN c \subseteq Box /\ c \in [DOMAIN c -> Binding]

IsInput(in) ==
    /\ IsTree(in.server) /\ IsCache(in.cached) /\ IsDirs(in.dirs)
    /\ DOMAIN in.sids \subseteq Box /\ in.sids \in [DOMAIN in.sids -> DOMAIN in.dirs]
    /\ \A b \in DOMAIN in.sids : in.dirs[in.sids[b]].id = b

PullItem == [b : Box, from : Paths, db : Paths, to : Paths]
PushItem == [b : Box, db : Paths, to : Paths, name : Names, parent : Box0]
Orphan == [b : Box, folder : Paths, name : Names, parent : Box0, files : SUBSET File]
Creation == [folder : Paths, name : Names, replaces : Box0,
             parent : [value : Box0, ref : Paths \cup {Nowhere}]]

IsCycle(c) ==
    /\ DOMAIN c = DOMAIN None
    /\ IsInput(c.in)
    /\ DOMAIN c.folder \subseteq DOMAIN c.in.server /\ c.folder \in [DOMAIN c.folder -> Paths]
    /\ c.obs \in Observation
    /\ c.rorph \cup c.mk \cup c.pend \cup c.kill \subseteq DOMAIN c.folder
    /\ c.rorph \cup c.replaced \subseteq DOMAIN c.folder \cap DOMAIN c.in.cached
    /\ \A w \in c.mv \cup c.moved : w \in PullItem /\ w.b \in DOMAIN c.folder
    /\ c.push \subseteq PushItem
    /\ c.orphans \subseteq Orphan
    /\ c.strays \subseteq Paths
    /\ c.create \subseteq Creation
    /\ c.reup \subseteq [f : File, folder : Paths]
    /\ c.rmdir \subseteq [b : Box, folder : Paths]
    /\ DOMAIN c.refs \subseteq Paths /\ c.refs \in [DOMAIN c.refs -> Box]

IsPlan(p) ==
    /\ DOMAIN p = DOMAIN EmptyPlan
    /\ \A a \in p.adoptR \cup p.adoptL \cup p.pair : a \in AdoptAction /\ a.box \in Live
    /\ IsFiniteSet(p.down) /\ \A d \in p.down : d \in Download /\ d.box \in Live
    /\ p.lmove \subseteq [f : File, e : Email, from : Paths, to : Live]
    /\ p.ldel \subseteq DeleteLocal
    /\ p.up \subseteq NewMessage
    /\ p.rmove \subseteq MoveRemote
    /\ p.rdel \subseteq Email

IsReply ==
    \/ reply = NoReply
    \/ pc = "mkremote" /\ reply \in [kind : {"created"}, a : Creation, b : Box, parent : Box0]
    \/ pc = "mvremote" /\ reply \in [kind : {"renamed"}, w : PushItem]
    \/ pc = "killremote" /\ reply \in [kind : {"destroyed"}, b : Box]

IsChores ==
    /\ DOMAIN chores = {"todo", "dropped"}
    /\ pc = "rebind" => chores.todo \subseteq
            [f : Paths, sentinel : [id : Box, name : Names, parent : Box0]]
    /\ pc = "prune" => chores.todo \subseteq [folder : Paths, b : Box0]
    /\ pc = "dedupe" => chores.todo \subseteq Email

Stores ==
    /\ setup \in Setups
    /\ IsTree(tree) /\ IsDirs(dirs) /\ IsCache(cache)
    /\ emails \in [Email -> Mailed]
    /\ rows \in Rows
    /\ ls \in [File -> Paths \cup {Nowhere}]
    /\ disk \in [File -> Places]
    /\ nextFile \in Nat \ {0}
    /\ unseen \subseteq Email /\ later \subseteq Email /\ mine \subseteq Email
Executing == Range(Phases)
Phased ==
    /\ pc \in {"idle", "scan", "fetch", "writes", "pending", "rebind", "prune", "dedupe"}
              \cup Executing
    /\ ~Cycling => cyc = None
    /\ ~Cycling \/ pc \in {"scan", "fetch"} => plan = EmptyPlan
    /\ pc = "scan" => Live \ DOMAIN cyc.in.cached \subseteq cyc.mk
    /\ pc = "fetch" => \A n \in cyc.obs.news :
            n.box \in Live \/ (FolderDeletable /\ \E d \in cyc.orphans : d.b = n.box)
Control == IsCycle(cyc) /\ IsPlan(plan) /\ IsReply /\ IsChores /\ Phased
Typed == Stores /\ Control

LEMMA NoBoxApart == NoBox \notin Box
BY BoxAssumption DEF NoBox, Unsynced

LEMMA OnePath ==
    ASSUME NEW n \in Names
    PROVE  <<n>> \in Paths /\ Len(<<n>>) = 1 /\ <<n>> # Nowhere
           /\ Front(<<n>>) = Nowhere /\ Last(<<n>>) = n
BY DEF Paths, Front, Last, Nowhere

LEMMA TwoPath ==
    ASSUME NEW n \in Names, NEW m \in Names
    PROVE  <<n, m>> \in Paths /\ Len(<<n, m>>) = 2 /\ <<n, m>> # Nowhere
           /\ Front(<<n, m>>) = <<n>> /\ Last(<<n, m>>) = m
<1>1. <<n, m>> \in Paths /\ Len(<<n, m>>) = 2 /\ <<n, m>> # Nowhere
    BY DEF Paths, Nowhere
<1>2. Last(<<n, m>>) = m
    BY <1>1 DEF Last
<1>3. SubSeq(<<n, m>>, 1, 1) = <<n>>
    <2> DEFINE s == <<n, m>>
               t == SubSeq(s, 1, 1)
    <2>1. s \in Seq(Names) /\ Len(s) = 2 /\ s[1] = n
        OBVIOUS
    <2>2. t = [i \in 1 .. 1 |-> s[i]]
        BY <2>1
    <2>3. <<n>> = [i \in 1 .. 1 |-> n]
        OBVIOUS
    <2>4. [i \in 1 .. 1 |-> s[i]] = [i \in 1 .. 1 |-> n]
        <3> HIDE DEF s
        <3> QED
            BY <2>1
    <2> QED
        BY <2>2, <2>3, <2>4
<1> QED
    BY <1>1, <1>2, <1>3 DEF Front

LEMMA PathFacts ==
    ASSUME NEW f \in Paths
    PROVE  /\ f # Nowhere /\ Last(f) \in Names
           /\ ParentFolder(f) \in Paths \cup {Nowhere}
           /\ Nested(f) => ParentFolder(f) \in Paths
<1>1. CASE \E n \in Names : f = <<n>>
    BY <1>1, OnePath DEF ParentFolder, Nested
<1>2. CASE \E n, m \in Names : f = <<n, m>>
    BY <1>2, OnePath, TwoPath DEF ParentFolder, Nested
<1> QED
    BY <1>1, <1>2 DEF Paths

-----------------------------------------------------------------------------
(* Trees, maildirs and bindings keep their types when one is added,        *)
(* removed or overwritten.                                                 *)

LEMMA TreeGrows ==
    ASSUME NEW t, IsTree(t), NEW b \in Box, NEW p \in Place
    PROVE  IsTree(With(t, b, p))
BY DEF IsTree, With

LEMMA TreeShrinks ==
    ASSUME NEW t, IsTree(t), NEW S
    PROVE  IsTree(Restrict(t, DOMAIN t \ S))
BY DEF IsTree, Restrict

LEMMA TreeChanges ==
    ASSUME NEW t, IsTree(t), NEW b \in DOMAIN t, NEW p \in Place
    PROVE  IsTree([t EXCEPT ![b] = p])
BY DEF IsTree

LEMMA UnmarkedMark == Unmarked \in Mark
BY DEF Mark

LEMMA MarkOfBox ==
    ASSUME NEW s \in Mark
    PROVE  s.id = NoBox \/ s \in [id : Box, name : Names, parent : Box0]
<1>1. Unmarked.id = NoBox
    BY DEF Unmarked
<1> QED
    BY <1>1 DEF Mark

LEMMA DirsGrow ==
    ASSUME NEW ds, IsDirs(ds), NEW folders \in SUBSET Paths
    PROVE  IsDirs(Ensured(ds, folders))
BY UnmarkedMark DEF IsDirs, Ensured, Over

LEMMA DirsMarked ==
    ASSUME NEW ds, IsDirs(ds), NEW f \in Paths, NEW s \in Mark
    PROVE  IsDirs(Marked(ds, f, s))
BY DEF IsDirs, Marked, With

LEMMA DirsShrink ==
    ASSUME NEW ds, IsDirs(ds), NEW S
    PROVE  IsDirs(Restrict(ds, DOMAIN ds \ S))
BY DEF IsDirs, Restrict

LEMMA DirsRead ==
    ASSUME NEW ds, IsDirs(ds), NEW f \in DOMAIN ds
    PROVE  ds[f] \in Mark /\ f \in Paths
BY DEF IsDirs

LEMMA CacheShrinks ==
    ASSUME NEW c, IsCache(c), NEW S
    PROVE  IsCache(Restrict(c, DOMAIN c \ S))
BY DEF IsCache, Restrict

LEMMA CacheWritten ==
    ASSUME NEW c, IsCache(c), NEW S \in SUBSET Box, NEW R(_), \A b \in S : R(b) \in Binding
    PROVE  IsCache(Over([b \in S |-> R(b)], c))
BY DEF IsCache, Over

LEMMA PathType ==
    ASSUME NEW t, IsTree(t), NEW b \in DOMAIN t
    PROVE  Path(t, b) \in Paths
BY DEF IsTree, Path, Place, Paths

LEMMA NoFileHerePlaced == NoFileHere \in Places
BY AnyMidType DEF NoFileHere, Places

LEMMA NoMailMailed == NoMail \in Mailed
BY AnyMidType DEF NoMail, Mailed, Box0

LEMMA NoRowRow == NoRow \in Row
BY DEF Row

LEMMA RowsWithoutTypes ==
    ASSUME rows \in Rows, NEW S
    PROVE  RowsWithout(S) \in Rows
BY NoRowRow DEF RowsWithout, Rows

-----------------------------------------------------------------------------
(* The executor goes on with the first phase that has work.                *)

LEMMA PhasesLength == DOMAIN Phases = 1 .. 14 /\ Phases[14] = "cursor"
BY DEF Phases

LEMMA CursorHasWork ==
    ASSUME NEW c, NEW p
    PROVE  HasWork("cursor", c, p)
BY DEF HasWork

LEMMA PhaseFromFirst ==
    ASSUME NEW i \in 1 .. 14, NEW c, NEW p
    PROVE  \E j \in 1 .. 14 :
              /\ i <= j /\ PhaseFrom(i, c, p) = Phases[j] /\ HasWork(Phases[j], c, p)
              /\ \A k \in 1 .. 14 : i <= k /\ HasWork(Phases[k], c, p) => j <= k
<1> DEFINE todo == {j \in DOMAIN Phases : j >= i /\ HasWork(Phases[j], c, p)}
<1>1. 14 \in todo /\ todo \in SUBSET (0 .. 14)
    BY PhasesLength, CursorHasWork
<1>2. \E j \in todo : \A k \in todo : j <= k
    <2> HIDE DEF todo
    <2> QED
        BY <1>1, LeastExists
<1>3. PICK j \in todo : PhaseFrom(i, c, p) = Phases[j] /\ \A k \in todo : j <= k
    <2> DEFINE j == CHOOSE j \in todo : \A k \in todo : j <= k
    <2>1. j \in todo /\ \A k \in todo : j <= k
        <3> HIDE DEF todo
        <3> QED
            BY <1>2
    <2> QED
        BY <2>1 DEF PhaseFrom
<1> QED
    BY <1>3, PhasesLength

LEMMA StayThere ==
    ASSUME NEW i \in 1 .. 14
    PROVE  Stay(Phases[i]) \in 1 .. 14 /\ Phases[Stay(Phases[i])] = Phases[i]
BY PhasesLength DEF Stay

\* An executor phase is followed by one.
LEMMA Continues ==
    ASSUME NEW phase \in Executing, Continue(phase)
    PROVE  pc' \in Executing
<1>1. PICK i \in 1 .. 14 : phase = Phases[i]
    BY PhasesLength DEF Executing, Range
<1>2. Stay(phase) \in 1 .. 14
    BY <1>1, StayThere
<1> QED
    BY <1>2, PhaseFromFirst, PhasesLength DEF Continue, Executing, Range

-----------------------------------------------------------------------------
(* Steps of the user and of other clients leave the cycle alone.           *)

LEMMA ControlStays ==
    ASSUME Control, UNCHANGED <<pc, cyc, plan, reply, chores, setup>>
    PROVE  Control'
BY DEF Control, IsCycle, IsInput, IsTree, IsDirs, IsCache, IsPlan, IsReply, IsChores, Phased,
       Live, Cycling, FolderDeletable

LEMMA RenameTreeTypes ==
    ASSUME IsDirs(dirs), disk \in [File -> Places], NEW f, NEW g,
           CanRename(f, g), RenameTree(f, g)
    PROVE  IsDirs(dirs)' /\ disk' \in [File -> Places]
<1> DEFINE under == Subtree(f)
           new == {Rebased(f, g, h) : h \in under}
<1>1. under \subseteq DOMAIN dirs /\ \A h \in under : Rebased(f, g, h) \in Paths
    BY PathsAssumption DEF Subtree, CanRename
<1>2. IsDirs(dirs)'
    <2>1. \A h \in new : (CHOOSE x \in under : Rebased(f, g, x) = h) \in under
        OBVIOUS
    <2>2. dirs' = [h \in (DOMAIN dirs \ under) \cup new |->
                      IF h \in new THEN dirs[CHOOSE x \in under : Rebased(f, g, x) = h]
                      ELSE dirs[h]]
        BY DEF RenameTree
    <2>3. new \subseteq Paths
        BY <1>1
    <2> HIDE DEF under, new
    <2> QED
        BY <1>1, <2>1, <2>2, <2>3 DEF IsDirs
<1>3. disk' \in [File -> Places]
    <2>1. disk' = [x \in File |-> IF disk[x].at \in under
                                  THEN [disk[x] EXCEPT !.at = Rebased(f, g, @)] ELSE disk[x]]
        BY DEF RenameTree
    <2> HIDE DEF under
    <2>2. ASSUME NEW x \in File, disk[x].at \in under
          PROVE  [disk[x] EXCEPT !.at = Rebased(f, g, @)] \in Places
        BY <1>1, <2>2 DEF Places
    <2> QED
        BY <2>1, <2>2
<1> QED
    BY <1>2, <1>3

LEMMA RemoveTreeTypes ==
    ASSUME IsDirs(dirs), disk \in [File -> Places], NEW under, RemoveTree(under)
    PROVE  IsDirs(dirs)' /\ disk' \in [File -> Places]
BY DirsShrink, NoFileHerePlaced DEF RemoveTree, IsDirs

LEMMA FoldersPaths ==
    ASSUME Stores
    PROVE  setup.folders \subseteq Paths
BY PathsAssumption, SetupsAssumption DEF Stores

LEMMA UserTypes ==
    ASSUME Typed, UserStep, UNCHANGED chores
    PROVE  Typed'
<1> USE DEF Typed
<1>1. ASSUME NEW f, NEW g, Mv(f, g) PROVE Stores'
    BY <1>1, RenameTreeTypes DEF Mv, Stores, serverVars, dbVars, cursorVars, cycleVars, sinceVars,
       IsTree, IsCache
<1>2. ASSUME NEW f \in setup.folders, Mkdir(f) PROVE Stores'
    <2>1. IsDirs(Ensured(dirs, {f}))
        BY FoldersPaths, DirsGrow DEF Stores
    <2> QED
        BY <1>2, <2>1 DEF Mkdir, Stores, serverVars, dbVars, cursorVars, cycleVars, sinceVars,
           IsTree, IsCache, IsDirs
<1>3. ASSUME NEW f, Rm(f) PROVE Stores'
    BY <1>3, RemoveTreeTypes DEF Rm, Stores, serverVars, dbVars, cursorVars, cycleVars, sinceVars,
       IsTree, IsCache
<1>4. ASSUME NEW f, NEW m \in Mid, Save(f, m) PROVE Stores'
    <2>1. f \in Paths
        BY <1>4 DEF Save, Stores, IsDirs
    <2>2. disk' \in [File -> Places] /\ nextFile' \in Nat \ {0}
        BY <1>4, <2>1 DEF Save, Stores, Places
    <2> QED
        BY <1>4, <2>2 DEF Save, Stores, serverVars, dbVars, cursorVars, cycleVars, sinceVars,
           IsTree, IsCache, IsDirs
<1>5. ASSUME NEW x \in File, NEW g, MvMail(x, g) PROVE Stores'
    <2>1. g \in Paths
        BY <1>5 DEF MvMail, Stores, IsDirs
    <2>2. disk' \in [File -> Places]
        BY <1>5, <2>1 DEF MvMail, Stores, Places
    <2> QED
        BY <1>5, <2>2 DEF MvMail, Stores, serverVars, dbVars, cursorVars, cycleVars, sinceVars,
           IsTree, IsCache, IsDirs
<1>6. ASSUME NEW f \in setup.folders, Unmark(f) PROVE Stores'
    <2>1. IsDirs(Marked(dirs, f, Unmarked))
        BY FoldersPaths, UnmarkedMark, DirsMarked DEF Stores
    <2> QED
        BY <1>6, <2>1 DEF Unmark, Stores, serverVars, dbVars, cursorVars, cycleVars, sinceVars,
           IsTree, IsCache, IsDirs
<1>7. ASSUME LoseDb PROVE Stores'
    <2>1. IsCache(<<>>)
        BY DEF IsCache
    <2>2. rows' \in Rows
        BY <1>7, NoRowRow DEF LoseDb, Rows
    <2> QED
        BY <1>7, <2>1, <2>2 DEF LoseDb, Stores, serverVars, diskVars, cycleVars, sinceVars,
           IsTree, IsCache, IsDirs
<1>8. UNCHANGED <<pc, cyc, plan, reply, setup>>
    BY DEF UserStep, Mv, Mkdir, Rm, Save, MvMail, Unmark, LoseDb, cycleVars
<1> QED
    BY <1>1, <1>2, <1>3, <1>4, <1>5, <1>6, <1>7, <1>8, ControlStays DEF UserStep

LEMMA ForeignTypes ==
    ASSUME Stores, NEW es \in SUBSET Email, Foreign(es)
    PROVE  unseen' \subseteq Email /\ later' \subseteq Email
BY DEF Foreign, Stores

LEMMA EmailsGone ==
    ASSUME Stores, NEW es
    PROVE  [e \in Email |-> IF e \in es THEN NoMail ELSE emails[e]] \in [Email -> Mailed]
BY NoMailMailed DEF Stores

LEMMA EmailsPut ==
    ASSUME Stores, NEW e, NEW m \in Mailed
    PROVE  [emails EXCEPT ![e] = m] \in [Email -> Mailed]
BY DEF Stores

LEMMA ServerTypes ==
    ASSUME Typed, ServerStep, UNCHANGED chores
    PROVE  Typed'
<1> USE DEF Typed
<1> DEFINE Rest == UNCHANGED <<dirs, disk, nextFile, cache, rows, ls, mine, setup>>
<1>0. ASSUME Rest, IsTree(tree'), emails' \in [Email -> Mailed], unseen' \subseteq Email,
             later' \subseteq Email
      PROVE  Stores'
    BY <1>0 DEF Stores, IsTree, IsCache, IsDirs
<1>1. ASSUME NEW n \in Names, NEW p \in DOMAIN tree \cup {NoBox}, OtherCreate(n, p) PROVE Stores'
    <2>1. [name |-> n, parent |-> p] \in Place /\ boxes + 1 \in Box
        BY <1>1 DEF OtherCreate, Stores, IsTree, Place, Box0
    <2>2. IsTree(With(tree, boxes + 1, [name |-> n, parent |-> p]))
        BY <2>1, TreeGrows DEF Stores
    <2> QED
        BY <1>0, <1>1, <2>2 DEF OtherCreate, Stores, diskVars
<1>2. ASSUME NEW b \in DOMAIN tree, NEW n \in Names, NEW p \in DOMAIN tree \cup {NoBox},
             OtherRename(b, n, p)
      PROVE  Stores'
    <2>1. [name |-> n, parent |-> p] \in Place
        BY DEF Stores, IsTree, Place, Box0
    <2>2. IsTree([tree EXCEPT ![b] = [name |-> n, parent |-> p]])
        BY <2>1, TreeChanges DEF Stores
    <2> QED
        BY <1>0, <1>2, <2>2 DEF OtherRename, Stores, diskVars
<1>3. ASSUME NEW b \in DOMAIN tree, OtherDestroy(b) PROVE Stores'
    <2>1. MailIn(b) \in SUBSET Email
        BY DEF MailIn
    <2> QED
        BY <1>0, <1>3, <2>1, TreeShrinks, EmailsGone, ForeignTypes DEF OtherDestroy, Stores, diskVars
<1>4. ASSUME NEW b \in DOMAIN tree, NEW m \in Mid, Deliver(b, m) PROVE Stores'
    <2>1. [box |-> b, mid |-> m] \in Mailed /\ {nextEmail} \in SUBSET Email
        BY <1>4 DEF Deliver, Stores, IsTree, Mailed, Box0
    <2> QED
        BY <1>0, <1>4, <2>1, EmailsPut, ForeignTypes DEF Deliver, Stores, diskVars
<1>5. ASSUME NEW e \in Email, OtherCopy(e) PROVE Stores'
    <2>1. emails[e] \in Mailed /\ {nextEmail} \in SUBSET Email
        BY <1>5 DEF OtherCopy, Stores
    <2> QED
        BY <1>0, <1>5, <2>1, EmailsPut, ForeignTypes DEF OtherCopy, Stores, diskVars
<1>6. ASSUME NEW e \in Email, NEW b \in DOMAIN tree, OtherMove(e, b) PROVE Stores'
    <2>1. [emails[e] EXCEPT !.box = b] \in Mailed
        BY DEF Stores, IsTree, Mailed, Box0
    <2>2. emails' = [emails EXCEPT ![e] = [emails[e] EXCEPT !.box = b]]
        BY <1>6 DEF OtherMove, Stores
    <2> QED
        BY <1>0, <1>6, <2>1, <2>2, EmailsPut, ForeignTypes DEF OtherMove, Stores, diskVars
<1>7. ASSUME NEW e \in Email, OtherExpunge(e) PROVE Stores'
    BY <1>0, <1>7, EmailsPut, NoMailMailed, ForeignTypes DEF OtherExpunge, Stores, diskVars
<1> DEFINE Kept == UNCHANGED <<pc, cyc, plan, reply, setup>>
<1>8. ASSUME NEW n, NEW p, OtherCreate(n, p) PROVE Kept
    BY <1>8 DEF OtherCreate
<1>9. ASSUME NEW b, NEW n, NEW p, OtherRename(b, n, p) PROVE Kept
    BY <1>9 DEF OtherRename
<1>10. ASSUME NEW b, OtherDestroy(b) PROVE Kept
    BY <1>10 DEF OtherDestroy
<1>11. ASSUME NEW b, NEW m, Deliver(b, m) PROVE Kept
    BY <1>11 DEF Deliver
<1>12. ASSUME NEW e, OtherCopy(e) \/ OtherExpunge(e) \/ (\E b \in DOMAIN tree : OtherMove(e, b))
       PROVE  Kept
    BY <1>12 DEF OtherCopy, OtherExpunge, OtherMove
<1>13. Stores' /\ Kept
    <2> HIDE DEF Kept
    <2> QED
        BY <1>1, <1>2, <1>3, <1>4, <1>5, <1>6, <1>7, <1>8, <1>9, <1>10, <1>11, <1>12
        DEF ServerStep
<1> QED
    BY <1>13, ControlStays

-----------------------------------------------------------------------------
(* The end of a cycle or of a command, and the commands.                   *)

LEMMA EmptyObservation == EmptyObs \in Observation
BY PolicyAssumption DEF EmptyObs, Observation

LEMMA NoneCycle == IsCycle(None)
<1>1. IsInput(None.in)
    <2>1. IsTree(<<>>) /\ IsCache(<<>>) /\ IsDirs(<<>>)
        BY DEF IsTree, IsCache, IsDirs
    <2>2. DOMAIN <<>> = {} /\ <<>> \in [DOMAIN <<>> -> DOMAIN <<>>]
        OBVIOUS
    <2>3. /\ None.in.server = <<>> /\ None.in.cached = <<>>
          /\ None.in.sids = <<>> /\ None.in.dirs = <<>>
        BY DEF None
    <2> QED
        BY <2>1, <2>2, <2>3 DEF IsInput
<1>2. None.obs \in Observation
    BY EmptyObservation DEF None
<1> QED
    BY <1>1, <1>2 DEF IsCycle, None

LEMMA IdleControl ==
    ASSUME Idle, DOMAIN chores' = {"todo", "dropped"}
    PROVE  Control'
<1>1. pc' = "idle" /\ cyc' = None /\ plan' = EmptyPlan /\ reply' = NoReply
    BY DEF Idle
<1>2. IsCycle(cyc)'
    BY <1>1, NoneCycle
<1>3. IsPlan(plan)'
    <2>1. IsFiniteSet({})
        BY FS_EmptySet
    <2> QED
        BY <1>1, <2>1 DEF IsPlan, EmptyPlan
<1>4. IsReply' /\ IsChores'
    BY <1>1 DEF IsReply, IsChores
<1>5. Phased'
    BY <1>1 DEF Phased, Cycling, Executing
<1> QED
    BY <1>2, <1>3, <1>4, <1>5 DEF Control

LEMMA IdleStores ==
    ASSUME Stores, Idle, UNCHANGED <<tree, emails, diskVars, cache, rows, ls, unseen, setup>>
    PROVE  Stores'
BY DEF Stores, Idle, diskVars, IsTree, IsDirs, IsCache

LEMMA ReleaseControl ==
    ASSUME Release
    PROVE  Control'
BY IdleControl DEF Release, NoChores

LEMMA CrashTypes ==
    ASSUME Typed, Crash, UNCHANGED chores
    PROVE  Typed'
<1>1. Stores'
    BY IdleStores DEF Typed, Crash, serverVars, dbVars, cursorVars
<1>2. Control'
    BY IdleControl DEF Typed, Control, IsChores, Crash
<1> QED
    BY <1>1, <1>2 DEF Typed

\* What a command may be given to do.
ChoresOf(command) ==
    CASE command = "rebind" -> [f : Paths, sentinel : [id : Box, name : Names, parent : Box0]]
      [] command = "prune" -> [folder : Paths, b : Box0]
      [] command = "dedupe" -> Email

LEMMA BeginTypes ==
    ASSUME Typed, NEW command \in {"rebind", "prune", "dedupe"}, NEW todo \in SUBSET ChoresOf(command),
           Begin(command, todo)
    PROVE  Typed'
<1>1. Stores'
    BY DEF Typed, Begin, Stores, serverVars, diskVars, dbVars, cursorVars, sinceVars, IsTree, IsDirs,
       IsCache
<1>2. pc = "idle" /\ pc' = command /\ UNCHANGED <<cyc, plan, reply, setup>>
    BY DEF Begin, Unlocked
<1>3. IsCycle(cyc)' /\ IsPlan(plan)'
    BY <1>2 DEF Typed, Control, IsCycle, IsInput, IsTree, IsDirs, IsCache, IsPlan, Live
<1>4. IsReply'
    BY <1>2 DEF Typed, Control, IsReply
<1>5. IsChores'
    BY <1>2 DEF Begin, IsChores, ChoresOf
<1>6. Phased'
    BY <1>2 DEF Typed, Control, Phased, Cycling
<1> QED
    BY <1>1, <1>3, <1>4, <1>5, <1>6 DEF Typed, Control

LEMMA CandidateTypes ==
    ASSUME Stores, NEW sampled, NEW given \in Givens, DOMAIN sampled = OrphanFolders
    PROVE  \A a \in Candidates(sampled, given) : a.f \in Paths /\ a.b \in DOMAIN tree
<1>1. OrphanFolders \subseteq Paths
    BY DEF OrphanFolders, Unbound, Stores, IsDirs
<1>2. \A a \in given : a.f \in Paths /\ a.b \in DOMAIN tree
    BY <1>1 DEF Givens
<1> DEFINE probed == DOMAIN sampled \ {a.f : a \in given}
           agreed == {a \in probed \X DOMAIN tree : a[2] \in Consensus(sampled[a[1]])}
           binds == {[f |-> a[1], b |-> a[2]] : a \in agreed}
<1>3. \A a \in binds : a.f \in Paths /\ a.b \in DOMAIN tree
    BY <1>1
<1>4. \A a \in CrossResolved(sampled, binds) : a.f \in Paths /\ a.b \in DOMAIN tree
    <2> HIDE DEF binds
    <2> QED
        BY <1>1 DEF CrossResolved
<1> QED
    BY <1>2, <1>3, <1>4 DEF Candidates

LEMMA RebindfoldersTypes ==
    ASSUME Typed, Rebindfolders
    PROVE  Typed'
<1>1. PICK n \in SampleSizes, given \in Givens :
          \E sampled \in [OrphanFolders -> UNION {Groupings(MidsAt(f), n) : f \in OrphanFolders}] :
            Begin("rebind",
                  {[f |-> a.f, sentinel |->
                       [id |-> a.b, name |-> tree[a.b].name, parent |-> tree[a.b].parent]] :
                     a \in Candidates(sampled, given)})
    BY DEF Rebindfolders
<1>2. PICK sampled \in [OrphanFolders -> UNION {Groupings(MidsAt(f), n) : f \in OrphanFolders}] :
            Begin("rebind",
                  {[f |-> a.f, sentinel |->
                       [id |-> a.b, name |-> tree[a.b].name, parent |-> tree[a.b].parent]] :
                     a \in Candidates(sampled, given)})
    BY <1>1
<1>3. \A a \in Candidates(sampled, given) : a.f \in Paths /\ a.b \in DOMAIN tree
    BY CandidateTypes DEF Typed
<1>4. \A b \in DOMAIN tree : b \in Box /\ tree[b].name \in Names /\ tree[b].parent \in Box0
    BY DEF Typed, Stores, IsTree, Place
<1>5. {[f |-> a.f, sentinel |->
            [id |-> a.b, name |-> tree[a.b].name, parent |-> tree[a.b].parent]] :
          a \in Candidates(sampled, given)} \subseteq ChoresOf("rebind")
    BY <1>3, <1>4 DEF ChoresOf
<1> QED
    BY <1>2, <1>5, BeginTypes

LEMMA PruneTypes ==
    ASSUME Typed, Prune
    PROVE  Typed'
<1>1. PICK nonEmpty \in BOOLEAN, inConfig \in BOOLEAN :
          \E todo \in SUBSET Entries(nonEmpty, inConfig) : Begin("prune", todo)
    BY DEF Prune
<1>2. Entries(nonEmpty, inConfig) \subseteq ChoresOf("prune")
    BY DEF Entries, ChoresOf, DiskOnly, Unbound, ConfigDropped, DbOnly, DbOrphans, Typed, Stores,
       IsDirs, IsCache, Binding, Box0
<1> QED
    BY <1>1, <1>2, BeginTypes

LEMMA RemotededupeTypes ==
    ASSUME Typed, Remotededupe
    PROVE  Typed'
<1>1. PICK scope \in {DOMAIN cache} \cup {{b} : b \in DOMAIN cache} :
          Begin("dedupe", UNION {Redundant(b) : b \in scope})
    BY DEF Remotededupe
<1>2. UNION {Redundant(b) : b \in scope} \subseteq ChoresOf("dedupe")
    <2>1. \A b : Redundant(b) \subseteq Email
        BY DEF Redundant, Copies, MailIn
    <2> QED
        BY <2>1 DEF ChoresOf
<1> QED
    BY <1>1, <1>2, BeginTypes

LEMMA RemoveMaildirTreeTypes ==
    ASSUME Stores, NEW b, NEW folder, RemoveMaildirTree(b, folder)
    PROVE  /\ IsDirs(dirs)' /\ disk' \in [File -> Places] /\ rows' \in Rows
           /\ ls' \in [File -> Paths \cup {Nowhere}]
<1>1. IsDirs(dirs)' /\ rows' \in Rows
    BY DirsShrink, RowsWithoutTypes DEF RemoveMaildirTree, Stores, IsDirs
<1>2. disk' \in [File -> Places]
    <2>1. \A x \in File : [disk[x] EXCEPT !.at = Rescued] \in Places
        BY DEF Stores, Places
    <2> QED
        BY <2>1, NoFileHerePlaced DEF RemoveMaildirTree, Stores
<1>3. ls' \in [File -> Paths \cup {Nowhere}]
    BY DEF RemoveMaildirTree, Stores
<1> QED
    BY <1>1, <1>2, <1>3

LEMMA RemovalCutShortTypes ==
    ASSUME Stores, NEW b, NEW folder, NEW outcome, RemovalCutShort(b, folder, outcome)
    PROVE  IsDirs(dirs)' /\ disk' \in [File -> Places] /\ UNCHANGED <<rows, ls>>
<1>1. IsDirs(dirs)'
    <2>1. folder \in Paths
        BY DEF RemovalCutShort, Stores, IsDirs
    <2>2. /\ IsDirs(Restrict(dirs, DOMAIN dirs \ {folder}))
          /\ IsDirs(Marked(dirs, folder, Unmarked))
        BY <2>1, DirsShrink, DirsMarked, UnmarkedMark DEF Stores
    <2> QED
        BY <2>2 DEF RemovalCutShort, Stores, IsDirs
<1>2. disk' \in [File -> Places] /\ UNCHANGED <<rows, ls>>
    <2>1. \A x \in File : [disk[x] EXCEPT !.at = Rescued] \in Places
        BY DEF Stores, Places
    <2>2. PICK rescued, removed :
              /\ disk' = [x \in File |-> IF x \in rescued THEN [disk[x] EXCEPT !.at = Rescued]
                                         ELSE IF x \in removed THEN NoFileHere ELSE disk[x]]
              /\ UNCHANGED <<rows, ls>>
        BY DEF RemovalCutShort
    <2> QED
        BY <2>1, <2>2, NoFileHerePlaced DEF Stores
<1> QED
    BY <1>1, <1>2

LEMMA ControlOfCommand ==
    ASSUME Control, UNCHANGED <<pc, cyc, plan, reply, setup>>, DOMAIN chores' = {"todo", "dropped"},
           chores'.todo \subseteq chores.todo
    PROVE  Control'
BY DEF Control, IsCycle, IsInput, IsTree, IsDirs, IsCache, IsPlan, IsReply, IsChores, Phased,
       Live, Cycling, FolderDeletable

LEMMA WriteSentinelTypes ==
    ASSUME Typed, NEW c \in chores.todo, WriteSentinel(c)
    PROVE  Typed'
<1>1. Stores'
    <2>1. c.f \in Paths /\ c.sentinel \in Mark
        BY DEF WriteSentinel, Typed, Control, IsChores, Mark
    <2>2. IsDirs(dirs)'
        BY <2>1, DirsMarked DEF WriteSentinel, Typed, Stores, IsDirs
    <2>3. UNCHANGED cycleVars \/ Idle
        BY DEF WriteSentinel, Release
    <2>4. later' \subseteq Email /\ mine' \subseteq Email
        BY <2>3 DEF Typed, Stores, cycleVars, sinceVars, Idle
    <2> QED
        BY <2>2, <2>4 DEF WriteSentinel, Typed, Stores, serverVars, dbVars, cursorVars, IsTree, IsCache
<1>2. CASE Release
    BY <1>1, <1>2, ReleaseControl DEF Typed
<1>3. CASE ~Release
    <2>1. chores' = [chores EXCEPT !.todo = @ \ {c}] /\ UNCHANGED <<cycleVars, setup>>
        BY <1>3 DEF WriteSentinel
    <2>2. DOMAIN chores' = {"todo", "dropped"} /\ chores'.todo \subseteq chores.todo
        BY <2>1 DEF Typed, Control, IsChores
    <2> QED
        BY <1>1, <2>1, <2>2, ControlOfCommand DEF Typed, cycleVars
<1> QED
    BY <1>2, <1>3

LEMMA PruneEntryTypes ==
    ASSUME Typed, NEW w \in chores.todo, PruneEntry(w)
    PROVE  Typed'
<1>1. Stores'
    <2>1. IsDirs(dirs)' /\ disk' \in [File -> Places] /\ rows' \in Rows
          /\ ls' \in [File -> Paths \cup {Nowhere}] /\ IsCache(cache)'
        <3>1. CASE HoldsMaildirs(w.folder)
            BY <3>1 DEF PruneEntry, Typed, Stores, IsDirs, IsCache
        <3>2. CASE ~HoldsMaildirs(w.folder)
            <4>1. RemoveMaildirTree(w.b, w.folder)
                  /\ cache' = Restrict(cache, DOMAIN cache \ {w.b})
                BY <3>2 DEF PruneEntry
            <4> QED
                BY <4>1, RemoveMaildirTreeTypes, CacheShrinks DEF Typed, Stores, IsCache
        <3> QED
            BY <3>1, <3>2
    <2> QED
        BY <2>1 DEF PruneEntry, Typed, Stores, serverVars, cursorVars, cycleVars, sinceVars,
           ghostVars, IsTree
<1>2. UNCHANGED <<pc, cyc, plan, reply, setup>>
    BY DEF PruneEntry, cycleVars, ghostVars
<1>3. DOMAIN chores' = {"todo", "dropped"} /\ chores'.todo \subseteq chores.todo
    BY DEF PruneEntry, Typed, Control, IsChores
<1> QED
    BY <1>1, <1>2, <1>3, ControlOfCommand DEF Typed

LEMMA PruneEntryFailsTypes ==
    ASSUME Typed, NEW w \in chores.todo, PruneEntryFails(w)
    PROVE  Typed'
<1>1. Stores'
    <2>1. IsDirs(dirs)' /\ disk' \in [File -> Places] /\ UNCHANGED <<rows, ls>>
        BY RemovalCutShortTypes DEF PruneEntryFails, Typed
    <2> QED
        BY <2>1 DEF PruneEntryFails, Typed, Stores, serverVars, cursorVars, cycleVars, sinceVars,
           IsTree, IsCache
<1>2. UNCHANGED <<pc, cyc, plan, reply, setup>>
    BY DEF PruneEntryFails, cycleVars
<1>3. DOMAIN chores' = {"todo", "dropped"} /\ chores'.todo \subseteq chores.todo
    BY DEF PruneEntryFails, Typed, Control, IsChores
<1> QED
    BY <1>1, <1>2, <1>3, ControlOfCommand DEF Typed

LEMMA DestroyCopiesTypes ==
    ASSUME Typed, NEW chunk \in SUBSET chores.todo, DestroyCopies(chunk)
    PROVE  Typed'
<1>1. PICK accepted \in SUBSET chunk :
        LET destroyed == {e \in accepted : Alive(e)}
        IN /\ emails' = [e \in Email |-> IF e \in destroyed THEN NoMail ELSE emails[e]]
           /\ unseen' = IF ecur THEN unseen \cup destroyed ELSE {}
    BY DEF DestroyCopies
<1>2. chores.todo \subseteq Email
    BY DEF DestroyCopies, Typed, Control, IsChores
<1>3. emails' \in [Email -> Mailed] /\ unseen' \subseteq Email
    BY <1>1, <1>2, EmailsGone DEF Typed, Stores
<1>4. Stores'
    BY <1>3 DEF DestroyCopies, Release, Idle, Typed, Stores, diskVars, ghostVars, cycleVars, sinceVars,
       IsTree, IsDirs, IsCache
<1>5. CASE chores.todo \subseteq chunk
    BY <1>4, <1>5, ReleaseControl DEF DestroyCopies, Typed
<1>6. CASE ~(chores.todo \subseteq chunk)
    <2>1. chores' = [chores EXCEPT !.todo = @ \ chunk] /\ UNCHANGED <<cycleVars, setup>>
        BY <1>6 DEF DestroyCopies, ghostVars
    <2>2. DOMAIN chores' = {"todo", "dropped"} /\ chores'.todo \subseteq chores.todo
        BY <2>1 DEF Typed, Control, IsChores
    <2> QED
        BY <1>4, <2>1, <2>2, ControlOfCommand DEF Typed, cycleVars
<1> QED
    BY <1>5, <1>6

LEMMA JanitorTypes ==
    ASSUME Typed, JanitorStep
    PROVE  Typed'
<1>1. CASE PruneDone
    BY <1>1, IdleStores, ReleaseControl DEF PruneDone, Release, Typed, serverVars, ghostVars
<1>2. CASE CommandDies
    BY <1>2, IdleStores, ReleaseControl DEF CommandDies, Release, Typed, serverVars, dbVars, cursorVars
<1> QED
    BY <1>1, <1>2, RebindfoldersTypes, PruneTypes, RemotededupeTypes, WriteSentinelTypes,
       PruneEntryTypes, PruneEntryFailsTypes, DestroyCopiesTypes DEF JanitorStep

-----------------------------------------------------------------------------
(* What a cycle resolves.                                                  *)

LEMMA DiskPath ==
    ASSUME NEW in, IsInput(in), NEW b \in DOMAIN in.cached
    PROVE  OnDisk(in, b) \in Paths /\ Cached(in, b) \in Paths
BY DEF IsInput, IsCache, IsDirs, Binding, OnDisk, Cached

LEMMA ServerPath ==
    ASSUME NEW in, IsInput(in), NEW b \in DOMAIN in.server
    PROVE  OnServer(in, b) \in Paths
BY PathType DEF IsInput, OnServer

LEMMA WalkPath ==
    ASSUME NEW in, IsInput(in), NEW b \in DOMAIN in.server
    PROVE  WalkFolder(in, b) \in Paths
BY DiskPath, ServerPath DEF WalkFolder, PushesRename, UserMoved

LEMMA PullRenameTypes ==
    ASSUME NEW in, IsInput(in), NEW live \in SUBSET DOMAIN in.server
    PROVE  \A w \in PullRenames(in, live) : w \in PullItem /\ w.b \in live
<1> SUFFICES ASSUME NEW b \in live, ServerRename(in, b) \/ ConflictServerWins(in, b)
             PROVE  [b |-> b, from |-> OnDisk(in, b), db |-> Cached(in, b),
                     to |-> OnServer(in, b)] \in PullItem
    BY DEF PullRenames
<1>1. b \in DOMAIN in.cached /\ b \in Box
    BY DEF ServerRename, ConflictServerWins, ServerMoved, IsInput, IsTree
<1> QED
    BY <1>1, DiskPath, ServerPath DEF PullItem

LEMMA PushRenameTypes ==
    ASSUME NEW in, IsInput(in), NEW live \in SUBSET DOMAIN in.server
    PROVE  PushRenames(in, live) \subseteq PushItem
<1> SUFFICES ASSUME NEW b \in live, PushesRename(in, b)
             PROVE  [b |-> b, db |-> Cached(in, b), to |-> OnDisk(in, b), name |-> Last(OnDisk(in, b)),
                     parent |-> DecomposedParent(in, OnDisk(in, b))] \in PushItem
    BY DEF PushRenames
<1>1. b \in DOMAIN in.cached /\ b \in Box
    BY DEF PushesRename, UserMoved, IsInput, IsTree
<1>2. OnDisk(in, b) \in Paths /\ Cached(in, b) \in Paths /\ Last(OnDisk(in, b)) \in Names
    BY <1>1, DiskPath, PathFacts
<1>3. DecomposedParent(in, OnDisk(in, b)) \in Box0
    <2>1. Decomposes(in, OnDisk(in, b))
        BY DEF PushesRename
    <2>2. CASE Nested(OnDisk(in, b))
        <3>1. CachedAt(in, ParentFolder(OnDisk(in, b))) # {}
            BY <2>1, <2>2 DEF Decomposes
        <3>2. CachedAt(in, ParentFolder(OnDisk(in, b))) \subseteq Box
            BY DEF CachedAt, IsInput, IsCache
        <3> QED
            BY <2>2, <3>1, <3>2 DEF DecomposedParent, Box0
    <2>3. CASE ~Nested(OnDisk(in, b))
        BY <2>3 DEF DecomposedParent, Box0
    <2> QED
        BY <2>2, <2>3
<1> QED
    BY <1>1, <1>2, <1>3 DEF PushItem

LEMMA OrphanTypes ==
    ASSUME NEW in, IsInput(in), NEW d \in LocalOrphans(in), NEW files \in SUBSET File
    PROVE  OrphanRecord(d, files) \in Orphan
<1>1. ASSUME NEW b \in CacheOrphans(in),
             d = [b |-> b, folder |-> Cached(in, b), name |-> in.cached[b].name,
                  parent |-> in.cached[b].parent]
      PROVE  OrphanRecord(d, files) \in Orphan
    BY <1>1 DEF CacheOrphans, IsInput, IsCache, Binding, Cached, OrphanRecord, Orphan
<1>2. ASSUME NEW b \in SentinelOrphans(in),
             d = [b |-> b, folder |-> in.sids[b], name |-> in.dirs[in.sids[b]].name,
                  parent |-> in.dirs[in.sids[b]].parent]
      PROVE  OrphanRecord(d, files) \in Orphan
    <2>1. b \in DOMAIN in.sids /\ b \in Box
        BY DEF SentinelOrphans, IsInput
    <2>2. in.sids[b] \in DOMAIN in.dirs /\ in.sids[b] \in Paths
        BY <2>1 DEF IsInput, IsDirs
    <2>3. in.dirs[in.sids[b]] \in Mark /\ in.dirs[in.sids[b]].id = b
        BY <2>1, <2>2 DEF IsInput, IsDirs
    <2>4. in.dirs[in.sids[b]] \in [id : Box, name : Names, parent : Box0]
        BY <2>1, <2>3, NoBoxApart, MarkOfBox
    <2> QED
        BY <1>2, <2>1, <2>2, <2>4 DEF OrphanRecord, Orphan
<1> QED
    BY <1>1, <1>2 DEF LocalOrphans

LEMMA SynthesizedTypes ==
    ASSUME NEW c, IsCache(c)
    PROVE  IsTree(Synthesized(c))
BY DEF IsCache, IsTree, Synthesized, Binding, Place

LEMMA SnapshotTypes ==
    ASSUME Stores, NEW sids \in SentinelWalks
    PROVE  IsInput([server |-> Listing, cached |-> cache, sids |-> sids, dirs |-> dirs])
<1>1. IsTree(Listing)
    BY SynthesizedTypes DEF Listing, Stores
<1>2. SentinelIds \subseteq Box
    <2>1. \A f \in DOMAIN dirs : dirs[f].id = NoBox \/ dirs[f].id \in Box
        BY MarkOfBox, DirsRead DEF Stores
    <2> QED
        BY <2>1 DEF SentinelIds
<1>3. sids \in [SentinelIds -> DOMAIN dirs] /\ \A b \in SentinelIds : dirs[sids[b]].id = b
    BY DEF SentinelWalks
<1>4. DOMAIN sids = SentinelIds
    BY <1>3
<1> QED
    BY <1>1, <1>2, <1>3, <1>4 DEF IsInput, Stores

LEMMA ResolveTypes ==
    ASSUME Typed, Resolve, UNCHANGED chores
    PROVE  Typed' /\ cyc'.kill = {} /\ cyc'.rmdir = {}
<1>1. PICK sids \in SentinelWalks :
          LET in == [server |-> Listing, cached |-> cache, sids |-> sids, dirs |-> dirs]
              live == SelectedIn(Listing)
          IN cyc' = [None EXCEPT
                !.in = in,
                !.folder = [b \in live |-> WalkFolder(in, b)],
                !.mk = NewMailboxes(in, live),
                !.mv = PullRenames(in, live),
                !.push = PushRenames(in, live),
                !.pend = PendingWrites(in, live),
                !.orphans = {OrphanRecord(d, FilesAt(d.folder)) : d \in LocalOrphans(in)}]
    BY DEF Resolve
<1> DEFINE in == [server |-> Listing, cached |-> cache, sids |-> sids, dirs |-> dirs]
           live == SelectedIn(Listing)
<1>2. IsInput(in)
    BY SnapshotTypes DEF Typed
<1>3. live \subseteq DOMAIN in.server
    BY DEF SelectedIn
<1>4. Stores'
    BY DEF Typed, Resolve, Stores, serverVars, diskVars, dbVars, cursorVars, ghostVars, IsTree,
       IsDirs, IsCache
<1>5. /\ DOMAIN cyc' = DOMAIN None
      /\ cyc'.in = in
      /\ cyc'.folder = [b \in live |-> WalkFolder(in, b)]
      /\ cyc'.mk = NewMailboxes(in, live)
      /\ cyc'.mv = PullRenames(in, live)
      /\ cyc'.push = PushRenames(in, live)
      /\ cyc'.pend = PendingWrites(in, live)
      /\ cyc'.orphans = {OrphanRecord(d, FilesAt(d.folder)) : d \in LocalOrphans(in)}
      /\ cyc'.obs = EmptyObs /\ cyc'.rorph = {} /\ cyc'.strays = {} /\ cyc'.replaced = {}
      /\ cyc'.moved = {} /\ cyc'.create = {} /\ cyc'.reup = {} /\ cyc'.rmdir = {}
      /\ cyc'.kill = {} /\ cyc'.refs = <<>>
    <2> HIDE DEF in, live
    <2> QED
        BY <1>1 DEF None, in, live
<1> HIDE DEF in, live
<1>6. IsCycle(cyc')
    <2>1. cyc'.folder \in [live -> Paths] /\ DOMAIN cyc'.folder = live
        BY <1>2, <1>3, <1>5, WalkPath
    <2>2. cyc'.mk \subseteq live /\ cyc'.pend \subseteq live
        BY <1>5 DEF NewMailboxes, PendingWrites
    <2>3. \A w \in cyc'.mv : w \in PullItem /\ w.b \in live
        BY <1>2, <1>3, <1>5, PullRenameTypes
    <2>4. cyc'.push \subseteq PushItem
        BY <1>2, <1>3, <1>5, PushRenameTypes
    <2>5. cyc'.orphans \subseteq Orphan
        <3>1. \A f : FilesAt(f) \subseteq File
            BY DEF FilesAt
        <3> QED
            BY <1>2, <1>5, <3>1, OrphanTypes
    <2>6. cyc'.refs \in [DOMAIN cyc'.refs -> Box] /\ DOMAIN cyc'.refs = {}
        BY <1>5
    <2> QED
        BY <1>2, <1>3, <1>5, <2>1, <2>2, <2>3, <2>4, <2>5, <2>6, EmptyObservation DEF IsCycle
<1>7. pc' = "scan" /\ plan' = EmptyPlan /\ reply' = NoReply
    BY DEF Resolve, Unlocked, Typed, Control, Phased, Cycling, IsReply
<1>8. Control'
    <2>1. IsPlan(plan)'
        BY <1>7, FS_EmptySet DEF IsPlan, EmptyPlan
    <2>2. IsReply' /\ IsChores'
        BY <1>7 DEF IsReply, IsChores, Typed, Control
    <2>3. Phased'
        <3>1. live \ DOMAIN in.cached \subseteq NewMailboxes(in, live)
            BY DEF NewMailboxes, FirstCycle
        <3>2. (Live \ DOMAIN cyc.in.cached)' \subseteq cyc'.mk
            BY <1>5, <3>1 DEF Live
        <3> QED
            BY <1>7, <3>2 DEF Phased, Cycling
    <2> QED
        BY <1>6, <2>1, <2>2, <2>3 DEF Control, IsCycle
<1> QED
    BY <1>4, <1>5, <1>8 DEF Typed

-----------------------------------------------------------------------------
(* The scan and the fetch.                                                 *)

LEMMA ScanTypes ==
    ASSUME Typed, Scan, UNCHANGED chores
    PROVE  Typed'
<1> DEFINE orphans == IF FolderDeletable THEN cyc.orphans ELSE {}
           places == {[b |-> b, at |-> cyc.folder[b]] : b \in Live} \cup
                     {[b |-> d.b, at |-> d.folder] : d \in orphans}
           walked == {p \in places : p.at \in DOMAIN dirs}
           found == {[f |-> x[2], box |-> x[1].b, mid |-> disk[x[2]].mid, fl |-> {}] :
                        x \in {y \in walked \X File : disk[y[2]].at = y[1].at}}
           vanished == {[f |-> x[2], box |-> x[1].b] :
                        x \in {y \in walked \X File :
                                 ls[y[2]] = y[1].at /\ disk[y[2]].at # y[1].at}}
           obs == [EmptyObs EXCEPT
                !.news = {n \in found : \A p \in walked : p.b = n.box => ls[n.f] # p.at},
                !.dels = vanished,
                !.seen = {[f |-> n.f, fl |-> {}] : n \in found},
                !.index = IF \A e \in Email : ~HasRow(rows, e)
                          THEN {[f |-> n.f, box |-> n.box, mid |-> n.mid] :
                                    n \in {x \in found : x.box \in Live}}
                          ELSE {}]
<1>1. cyc' = [cyc EXCEPT !.obs = obs, !.rorph = RemoteOrphans, !.strays = Strays]
    BY DEF Scan
<1>2. \A p \in walked : p.b \in Box /\ (p.b \in Live \/ (FolderDeletable /\ \E d \in cyc.orphans : d.b = p.b))
    <2>1. Live \subseteq Box /\ \A d \in cyc.orphans : d.b \in Box
        BY DEF Typed, Control, IsCycle, IsInput, IsTree, Live, Orphan
    <2> QED
        BY <2>1
<1> HIDE DEF walked
<1>3. \A n \in found : /\ n \in NewMessage
                       /\ n.box \in Live \/ (FolderDeletable /\ \E d \in cyc.orphans : d.b = n.box)
    <2>1. \A f \in File : disk[f].mid \in Mid
        BY DEF Typed, Stores, Places
    <2> QED
        BY <1>2, <2>1 DEF NewMessage
<1>4. vanished \subseteq [f : File, box : Box]
    BY <1>2
<1> HIDE DEF found, vanished
<1>5. obs \in Observation
    <2>1. {n \in found : \A p \in walked : p.b = n.box => ls[n.f] # p.at} \subseteq NewMessage
        BY <1>3
    <2>2. {[f |-> n.f, fl |-> {}] : n \in found} \subseteq FlaggedFile
        BY <1>3 DEF NewMessage, FlaggedFile
    <2>3. {[f |-> n.f, box |-> n.box, mid |-> n.mid] : n \in {x \in found : x.box \in Live}}
            \subseteq [f : File, box : Box, mid : Mid]
        BY <1>3 DEF NewMessage
    <2> QED
        BY <1>4, <2>1, <2>2, <2>3, PolicyAssumption DEF EmptyObs, Observation
<1>6. obs.news \subseteq found
    BY DEF EmptyObs
<1> HIDE DEF obs
<1>7. pc = "scan" /\ pc' = "fetch" /\ UNCHANGED <<plan, reply, setup>>
    BY DEF Scan, ghostVars
<1>8. /\ DOMAIN cyc' = DOMAIN None
      /\ cyc'.obs = obs /\ cyc'.rorph = RemoteOrphans /\ cyc'.strays = Strays
      /\ cyc'.in = cyc.in /\ cyc'.folder = cyc.folder /\ cyc'.orphans = cyc.orphans
      /\ cyc'.mk = cyc.mk /\ cyc'.replaced = cyc.replaced /\ cyc'.mv = cyc.mv
      /\ cyc'.moved = cyc.moved /\ cyc'.create = cyc.create /\ cyc'.reup = cyc.reup
      /\ cyc'.push = cyc.push /\ cyc'.pend = cyc.pend /\ cyc'.rmdir = cyc.rmdir
      /\ cyc'.kill = cyc.kill /\ cyc'.refs = cyc.refs
    BY <1>1 DEF Typed, Control, IsCycle, None
<1>9. IsCycle(cyc')
    <2>1. RemoteOrphans \subseteq DOMAIN cyc.folder \cap DOMAIN cyc.in.cached
        BY <1>7 DEF RemoteOrphans, Typed, Control, Phased, Live
    <2>2. Strays \subseteq Paths
        BY DEF Strays, Typed, Stores, IsDirs
    <2> QED
        BY <1>5, <1>8, <2>1, <2>2 DEF Typed, Control, IsCycle
<1>10. Stores'
    BY DEF Typed, Scan, Stores, serverVars, diskVars, dbVars, cursorVars, sinceVars, ghostVars, IsTree,
       IsDirs, IsCache
<1>11. IsPlan(plan)'
    BY <1>7, <1>8 DEF Typed, Control, IsPlan, Live
<1>12. IsReply' /\ IsChores'
    BY <1>7 DEF IsReply, IsChores, Typed, Control
<1>13. Phased'
    BY <1>3, <1>6, <1>7, <1>8 DEF Phased, Typed, Control, Cycling, Live, FolderDeletable
<1> QED
    BY <1>9, <1>10, <1>11, <1>12, <1>13 DEF Typed, Control, IsCycle

\* What was resolved stays as it was.
SameLook ==
    cyc'.in = cyc.in /\ cyc'.folder = cyc.folder /\ cyc'.pend = cyc.pend /\ cyc'.push = cyc.push

\* The rows a cycle indexes are of mailboxes it looked at.
LEMMA KnownTypes ==
    ASSUME rows \in Rows
    PROVE  /\ Known \in Rows
           /\ \A e \in Email : HasRow(Known, e) => Known[e].box \in Live
<1>1. \A e \in Email : Known[e] = IF rows[e].box \in Live THEN rows[e] ELSE NoRow
    BY DEF Known
<1>2. Known \in Rows
    BY NoRowRow DEF Known, Rows
<1>3. ~(NoRow.file # NoFile)
    BY DEF NoRow
<1> QED
    BY <1>1, <1>2, <1>3 DEF HasRow

LEMMA ToldOnce == \A q, r \in RemoteEmails(Email) : q.e = r.e => q = r
BY DEF RemoteEmails

\* And so is the mail it is told of.
LEMMA RemoteEmailTypes ==
    ASSUME Stores, Live \subseteq Box, NEW es \in SUBSET Email
    PROVE  /\ RemoteEmails(es) \subseteq RemoteEmail
           /\ \A r \in RemoteEmails(es) : r.box \in Live \cup {Unsynced}
           /\ RemoteEmails(es) \subseteq RemoteEmails(Email)
<1>1. \A e \in Email : emails[e].mid \in Mid
    BY DEF Stores, Mailed
<1>2. \A r \in RemoteEmails(es) : r \in RemoteEmail /\ r.box \in Live \cup {Unsynced}
    BY <1>1 DEF RemoteEmails, RemoteEmail
<1>3. RemoteEmails(es) \subseteq RemoteEmails(Email)
    BY DEF RemoteEmails
<1> QED
    BY <1>2, <1>3

\* Rows and mail of live mailboxes make a plan that is about live mailboxes,
\* but for the messages found where nobody looked for any.
RowsAbout(R, L) == \A e \in Email : HasRow(R, e) => R[e].box \in L
MailAbout(o, L) == \A r \in o.remote : r.box \in L \cup {Unsynced}
PlanAbout(o, p, L) ==
    /\ \A a \in p.adoptR \cup p.adoptL : a.box \in L
    /\ \A d \in p.down : d.box \in L
    /\ \A m \in p.lmove : m.from \in L /\ m.to \in L
    /\ \A a \in p.pair : \E n \in o.news : a.box = n.box

LEMMA PlanBoxes ==
    ASSUME NEW L \in SUBSET Box, NEW o \in Observation, NEW R \in Rows, NEW byMid \in NewsByMid(o),
           RowsAbout(R, L), MailAbout(o, L)
    PROVE  PlanAbout(o, PlanOf(o, R, byMid), L)
<1> USE DEF RowsAbout, MailAbout
<1> DEFINE p == PlanOf(o, R, byMid)
           moves == DetectedMoves(o, R, byMid)
<1>1. \A r \in Matched(o) : r.box \in L
    BY NoBoxApart DEF Matched, NoBox
<1>2. p.adoptR = RemoteAdopts(o, R) /\ p.adoptL = LocalAdopts(o, R, moves)
      /\ p.down = Downloads(o, R, moves)
    BY DEF PlanOf
<1>3. \A a \in RemoteAdopts(o, R) : a.box \in L
    <2>1. Rebinds(o, R) \subseteq Matched(o) /\ Rescues(o, R) \subseteq Matched(o)
        BY DEF Rebinds, Anchored, Rescues, Indexed, FreshRemote
    <2> QED
        BY <1>1, <2>1 DEF RemoteAdopts, Adopt
<1>4. \A a \in LocalAdopts(o, R, moves) : a.box \in L
    <2>1. \A a \in LocalAdopts(o, R, moves) :
              \E n \in LiveNews(o, R, moves) : RowsOf(R, n.mid, n.box) # {} /\ a.box = n.box
        BY DEF LocalAdopts, Adopt
    <2>2. \A mid, box : RowsOf(R, mid, box) # {} => box \in L
        BY DEF RowsOf
    <2> QED
        BY <2>1, <2>2
<1>5. \A d \in Downloads(o, R, moves) : d.box \in L
    <2>1. Restores(o, R, moves) \cup FreshRemote(o, R) \subseteq Matched(o)
        BY DEF Restores, DeleteConflicts, KnownRemote, FreshRemote
    <2> QED
        BY <1>1, <2>1 DEF Downloads
<1>6. \A m \in p.lmove : m.from \in L /\ m.to \in L
    <2>1. \A r \in Steady(o, R, moves) : r \in Matched(o) /\ HasRow(R, r.e)
        BY DEF Steady, KnownRemote
    <2>2. \A r \in Steady(o, R, moves) : r.box \in L /\ R[r.e].box \in L
        BY <1>1, <2>1, MatchedTypes
    <2> QED
        BY <2>2 DEF PlanOf
<1>7. \A a \in p.pair : \E n \in o.news : a.box = n.box
    <2>1. \A m \in moves : m.new \in o.news
        BY DEF DetectedMoves, NewsByMid
    <2> QED
        BY <2>1 DEF PlanOf, Adopt
<1> HIDE DEF p
<1> QED
    BY <1>2, <1>3, <1>4, <1>5, <1>6, <1>7 DEF PlanAbout, p

\* An email is told of once, so there are no more downloads than emails.
LEMMA DownloadsFinite ==
    ASSUME NEW o, NEW R, NEW byMid, o.remote \subseteq RemoteEmails(Email)
    PROVE  IsFiniteSet(PlanOf(o, R, byMid).down)
<1> DEFINE D == PlanOf(o, R, byMid).down
           f == [d \in D |-> d.e]
<1>1. \A d \in D : \E r \in RemoteEmails(Email) :
          d = [e |-> r.e, box |-> r.box, mid |-> r.mid, kw |-> r.kw]
    BY DEF PlanOf, Downloads, Restores, DeleteConflicts, KnownRemote, FreshRemote, Matched
<1>2. \A r \in RemoteEmails(Email) : r.e \in Email
    BY DEF RemoteEmails
<1>3. \A d \in D : d.e \in Email
    BY <1>1, <1>2
<1>4. \A d, c \in D : d.e = c.e => d = c
    <2> HIDE DEF D
    <2> TAKE d, c \in D
    <2> HAVE d.e = c.e
    <2>1. PICK r \in RemoteEmails(Email) : d = [e |-> r.e, box |-> r.box, mid |-> r.mid, kw |-> r.kw]
        BY <1>1
    <2>2. PICK q \in RemoteEmails(Email) : c = [e |-> q.e, box |-> q.box, mid |-> q.mid, kw |-> q.kw]
        BY <1>1
    <2>3. q.e = r.e
        BY <2>1, <2>2
    <2>4. q = r
        BY <2>3, ToldOnce
    <2> QED
        BY <2>1, <2>2, <2>4
<1> HIDE DEF D
<1>5. f \in Injection(D, Email)
    BY <1>3, <1>4 DEF Injection, IsInjective
<1>6. IsFiniteSet(Email)
    BY BoundAssumption, FS_Interval DEF Email
<1> QED
    BY <1>5, <1>6, FS_Injection DEF D

LEMMA CreateRemoteTypes ==
    ASSUME NEW strays \in SUBSET Paths, NEW folderOf, DOMAIN folderOf \subseteq Box
    PROVE  CreateRemotes(strays, folderOf) \subseteq Creation
<1> DEFINE bound == {folderOf[b] : b \in DOMAIN folderOf}
           OwnerOf(f) == CHOOSE b \in DOMAIN folderOf : folderOf[b] = f
           ParentRef(f) == IF ~Nested(f) THEN Value(NoBox)
                           ELSE IF ParentFolder(f) \in bound THEN Value(OwnerOf(ParentFolder(f)))
                           ELSE Reference(ParentFolder(f))
<1>1. ASSUME NEW g \in strays, NEW f \in Chain(g, bound)
      PROVE  f \in Paths
    <2>1. g \in Paths /\ ParentFolder(g) \in Paths \cup {Nowhere}
        BY PathFacts
    <2>2. f \in {g, ParentFolder(g)} /\ f # Nowhere
        BY DEF Chain
    <2> QED
        BY <2>1, <2>2
<1>2. ASSUME NEW f \in Paths PROVE ParentRef(f) \in [value : Box0, ref : Paths \cup {Nowhere}]
    <2>1. CASE ~Nested(f)
        BY <2>1 DEF Value, Box0
    <2>2. CASE Nested(f) /\ ParentFolder(f) \in bound
        <3>1. OwnerOf(ParentFolder(f)) \in Box
            BY <2>2
        <3> HIDE DEF bound, OwnerOf
        <3> QED
            BY <2>2, <3>1 DEF Value, Box0
    <2>3. CASE Nested(f) /\ ParentFolder(f) \notin bound
        <3>1. ParentFolder(f) \in Paths
            BY <2>3, PathFacts
        <3> HIDE DEF bound, OwnerOf
        <3> QED
            BY <2>3, <3>1 DEF Reference, Box0
    <2> QED
        BY <2>1, <2>2, <2>3
<1>3. ASSUME NEW f \in Paths
      PROVE  [folder |-> f, name |-> Last(f), replaces |-> NoBox, parent |-> ParentRef(f)] \in Creation
    <2>1. Last(f) \in Names
        BY PathFacts
    <2> HIDE DEF ParentRef
    <2> QED
        BY <1>2, <2>1 DEF Creation, Box0
<1>4. CreateRemotes(strays, folderOf) =
          {[folder |-> f, name |-> Last(f), replaces |-> NoBox, parent |-> ParentRef(f)] :
              f \in UNION {Chain(g, bound) : g \in strays}}
    BY DEF CreateRemotes
<1> HIDE DEF ParentRef, bound
<1> QED
    BY <1>1, <1>3, <1>4

LEMMA ResurrectionTypes ==
    ASSUME NEW d \in Orphan
    PROVE  /\ ResurrectCreate(d) \in Creation
           /\ ResurrectUploads(d, d.files) \subseteq [f : File, folder : Paths]
BY DEF Orphan, ResurrectCreate, ResurrectUploads, Creation, Value, Box0

LEMMA FetchTypes ==
    ASSUME Typed, Fetch, UNCHANGED chores
    PROVE  /\ Typed' /\ SameLook
           /\ MailboxDeletable \/ cyc'.kill = {}
           /\ FolderDeletable \/ cyc'.rmdir = {}
<1> DEFINE fetched == IF ecur THEN RemoteEmails(unseen)
                      ELSE RemoteEmails(UNION {MailIn(b) : b \in Live})
           hoisted == Hoisted(fetched)
           remote == fetched \cup RemoteEmails(UNION {MailIn(b) : b \in hoisted})
           o == [cyc.obs EXCEPT
                    !.remote = remote,
                    !.destroyed = IF ecur THEN {e \in unseen : ~Alive(e)} ELSE {},
                    !.initial = ~ecur]
           kill == IF MailboxDeletable THEN cyc.rorph \ hoisted ELSE {}
<1>1. PICK byMid \in NewsByMid(o) :
            LET p == PlanOf(o, Known, byMid)
                blocked == IF FolderDeletable THEN BlockedOrphans(p, cyc.orphans) ELSE {}
                resurrected == IF FolderDeletable THEN Resurrected(blocked) ELSE cyc.orphans
            IN /\ plan' = [DropBlockers(p, blocked) EXCEPT
                    !.lmove =
                        {[f |-> m.f, e |-> m.e, from |-> cyc.folder[m.from], to |-> m.to] : m \in @}
                        \cup UNION {CounterMoveLocals(p, Known, d) : d \in CounterMoved(blocked)},
                    !.rmove = @ \cup UNION {CounterMoveRemotes(o, Known, b) : b \in kill}]
               /\ cyc' = [cyc EXCEPT
                    !.obs = EmptyObs, !.rorph = {}, !.strays = {},
                    !.mk = @ \cup hoisted, !.replaced = hoisted, !.kill = kill,
                    !.rmdir = {[b |-> d.b, folder |-> d.folder] :
                                d \in IF FolderDeletable THEN cyc.orphans \ resurrected ELSE {}},
                    !.orphans = {},
                    !.create = {ResurrectCreate(d) : d \in resurrected} \cup
                               CreateRemotes(cyc.strays, cyc.folder),
                    !.reup = UNION {ResurrectUploads(d, d.files) : d \in resurrected}]
    BY DEF Fetch
<1> DEFINE p == PlanOf(o, Known, byMid)
           blocked == IF FolderDeletable THEN BlockedOrphans(p, cyc.orphans) ELSE {}
           resurrected == IF FolderDeletable THEN Resurrected(blocked) ELSE cyc.orphans
           doomed == IF FolderDeletable THEN cyc.orphans \ resurrected ELSE {}
           moveBack == UNION {CounterMoveLocals(p, Known, d) : d \in CounterMoved(blocked)}
           sendBack == UNION {CounterMoveRemotes(o, Known, b) : b \in kill}
<1>2. pc = "fetch" /\ pc' = "writes" /\ UNCHANGED <<reply, setup>>
    BY DEF Fetch, ghostVars
<1>3. IsCycle(cyc) /\ Stores /\ Live \subseteq Box
    BY DEF Typed, Control, IsCycle, IsInput, IsTree, Live
<1>4. fetched \subseteq RemoteEmails(Email) /\ hoisted \subseteq cyc.rorph
    <2>1. unseen \in SUBSET Email /\ UNION {MailIn(b) : b \in Live} \in SUBSET Email
        BY <1>3 DEF Stores, MailIn
    <2> QED
        BY <1>3, <2>1, RemoteEmailTypes DEF Hoisted
<1> HIDE DEF fetched, hoisted
<1>5. /\ remote \subseteq RemoteEmail /\ remote \subseteq RemoteEmails(Email)
      /\ \A r \in remote : r.box \in Live \cup {Unsynced}
    <2>1. UNION {MailIn(b) : b \in hoisted} \in SUBSET Email
        BY DEF MailIn
    <2>2. remote \subseteq RemoteEmails(Email)
        BY <1>3, <1>4, <2>1, RemoteEmailTypes
    <2> HIDE DEF remote
    <2> QED
        BY <1>3, <2>2, RemoteEmailTypes
<1> HIDE DEF remote
<1>6. /\ o \in Observation /\ o.remote = remote /\ o.news = cyc.obs.news
    <2>1. cyc.obs \in Observation
        BY <1>3 DEF IsCycle
    <2>2. {e \in unseen : ~Alive(e)} \subseteq Email
        BY <1>3 DEF Stores
    <2>3. (~ecur) \in BOOLEAN
        OBVIOUS
    <2> QED
        BY <1>5, <2>1, <2>2, <2>3 DEF Observation
<1> HIDE DEF o
<1>7. Known \in Rows /\ \A e \in Email : HasRow(Known, e) => Known[e].box \in Live
    BY <1>3, KnownTypes DEF Stores
<1>8. p \in Plan
    <2>1. Filtered(p, "") = p
        BY DEF Filtered
    <2> QED
        BY <1>6, <1>7, <2>1, PlanWellFormed
<1>9. /\ \A a \in p.adoptR \cup p.adoptL : a.box \in Live
      /\ IsFiniteSet(p.down) /\ \A d \in p.down : d.box \in Live
      /\ \A m \in p.lmove : m.from \in Live /\ m.to \in Live
      /\ \A a \in p.pair : \E n \in cyc.obs.news : a.box = n.box
    <2>1. IsFiniteSet(p.down)
        BY <1>5, <1>6, DownloadsFinite
    <2>2. RowsAbout(Known, Live) /\ MailAbout(o, Live)
        BY <1>5, <1>6, <1>7 DEF RowsAbout, MailAbout
    <2>3. PlanAbout(o, p, Live)
        BY <1>3, <1>6, <1>7, <2>2, PlanBoxes
    <2> QED
        BY <1>6, <2>1, <2>3 DEF PlanAbout
<1> HIDE DEF p
<1>10. /\ plan' = [DropBlockers(p, blocked) EXCEPT
                    !.lmove =
                        {[f |-> m.f, e |-> m.e, from |-> cyc.folder[m.from], to |-> m.to] : m \in @}
                        \cup moveBack,
                    !.rmove = @ \cup sendBack]
       /\ cyc' = [cyc EXCEPT
                    !.obs = EmptyObs, !.rorph = {}, !.strays = {},
                    !.mk = @ \cup hoisted, !.replaced = hoisted, !.kill = kill,
                    !.rmdir = {[b |-> d.b, folder |-> d.folder] : d \in doomed},
                    !.orphans = {},
                    !.create = {ResurrectCreate(d) : d \in resurrected} \cup
                               CreateRemotes(cyc.strays, cyc.folder),
                    !.reup = UNION {ResurrectUploads(d, d.files) : d \in resurrected}]
    BY <1>1 DEF p
<1>11. blocked \subseteq cyc.orphans /\ resurrected \subseteq cyc.orphans /\ doomed \subseteq cyc.orphans
       /\ cyc.orphans \subseteq Orphan
    BY <1>3 DEF BlockedOrphans, Resurrected, IsCycle
<1>12. ASSUME NEW a \in p.pair, a \notin UNION {BlockedPairs(p, d) : d \in blocked}
       PROVE  a.box \in Live
    <2>1. PICK n \in cyc.obs.news : a.box = n.box
        BY <1>9
    <2>2. CASE FolderDeletable /\ \E d \in cyc.orphans : d.b = n.box
        <3>1. PICK d \in cyc.orphans : d.b = n.box
            BY <2>2
        <3>2. a \in BlockedPairs(p, d)
            BY <2>1, <3>1 DEF BlockedPairs
        <3>3. d \in blocked
            BY <2>2, <3>2 DEF BlockedOrphans, Blocked
        <3> QED
            BY <1>12, <3>2, <3>3
    <2> QED
        BY <1>2, <2>1, <2>2 DEF Typed, Control, Phased
<1>13. moveBack \subseteq [f : File, e : Email, from : Paths, to : Live]
    <2> SUFFICES ASSUME NEW d \in CounterMoved(blocked), NEW m \in BlockedMoves(p, d),
                        HasRow(Known, m.e)
                 PROVE  [f |-> Known[m.e].file, e |-> m.e, from |-> d.folder, to |-> Known[m.e].box]
                            \in [f : File, e : Email, from : Paths, to : Live]
        BY DEF CounterMoveLocals
    <2>1. d.folder \in Paths
        BY <1>11 DEF CounterMoved, Orphan
    <2>2. m.e \in Email
        BY <1>8 DEF BlockedMoves, Plan, MoveRemote
    <2> QED
        BY <1>7, <2>1, <2>2, RowThere
<1>14. sendBack \subseteq MoveRemote
    <2> SUFFICES ASSUME NEW r \in o.remote, HasRow(Known, r.e)
                 PROVE  [e |-> r.e, to |-> Known[r.e].box] \in MoveRemote
        BY DEF CounterMoveRemotes
    <2>1. r.e \in Email
        BY <1>5, <1>6 DEF RemoteEmail
    <2> QED
        BY <1>7, <2>1, RowThere DEF MoveRemote
<1> HIDE DEF moveBack, sendBack, blocked
<1>15. /\ DOMAIN plan' = DOMAIN EmptyPlan
       /\ plan'.adoptR = p.adoptR /\ plan'.adoptL = p.adoptL /\ plan'.down = p.down
       /\ plan'.ldel = p.ldel /\ plan'.rdel = p.rdel /\ plan'.up \subseteq p.up
       /\ plan'.pair = p.pair \ UNION {BlockedPairs(p, d) : d \in blocked}
       /\ plan'.rmove \subseteq p.rmove \cup sendBack
       /\ plan'.lmove = {[f |-> m.f, e |-> m.e, from |-> cyc.folder[m.from], to |-> m.to] :
                            m \in p.lmove} \cup moveBack
    <2>1. DOMAIN p = DOMAIN EmptyPlan
        BY <1>8 DEF Plan, EmptyPlan
    <2> QED
        BY <1>10, <2>1 DEF DropBlockers, EmptyPlan
<1> HIDE DEF resurrected, doomed, kill
<1>16. /\ DOMAIN cyc' = DOMAIN None
       /\ cyc'.obs = EmptyObs /\ cyc'.rorph = {} /\ cyc'.strays = {} /\ cyc'.orphans = {}
       /\ cyc'.mk = cyc.mk \cup hoisted /\ cyc'.replaced = hoisted /\ cyc'.kill = kill
       /\ cyc'.rmdir = {[b |-> d.b, folder |-> d.folder] : d \in doomed}
       /\ cyc'.create = {ResurrectCreate(d) : d \in resurrected} \cup
                        CreateRemotes(cyc.strays, cyc.folder)
       /\ cyc'.reup = UNION {ResurrectUploads(d, d.files) : d \in resurrected}
       /\ cyc'.in = cyc.in /\ cyc'.folder = cyc.folder /\ cyc'.mv = cyc.mv
       /\ cyc'.moved = cyc.moved /\ cyc'.push = cyc.push /\ cyc'.pend = cyc.pend
       /\ cyc'.refs = cyc.refs
    BY <1>3, <1>10 DEF IsCycle, None
<1>17. IsCycle(cyc')
    <2>1. cyc'.kill \subseteq DOMAIN cyc.folder /\ hoisted \subseteq DOMAIN cyc.folder \cap DOMAIN cyc.in.cached
        BY <1>3, <1>4, <1>16 DEF IsCycle, kill
    <2>2. cyc'.create \subseteq Creation
        <3>1. CreateRemotes(cyc.strays, cyc.folder) \subseteq Creation
            BY <1>3, CreateRemoteTypes DEF IsCycle, Live
        <3> QED
            BY <1>11, <1>16, <3>1, ResurrectionTypes
    <2>3. cyc'.reup \subseteq [f : File, folder : Paths]
        BY <1>11, <1>16, ResurrectionTypes
    <2>4. cyc'.rmdir \subseteq [b : Box, folder : Paths]
        BY <1>11, <1>16 DEF Orphan
    <2> QED
        BY <1>3, <1>16, <2>1, <2>2, <2>3, <2>4, EmptyObservation DEF IsCycle
<1>18. Live' = Live
    BY <1>16 DEF Live
<1>19. IsPlan(plan)'
    <2>1. \A a \in plan'.adoptR \cup plan'.adoptL \cup plan'.pair : a \in AdoptAction /\ a.box \in Live
        BY <1>8, <1>9, <1>12, <1>15 DEF Plan
    <2>2. IsFiniteSet(plan'.down) /\ \A d \in plan'.down : d \in Download /\ d.box \in Live
        BY <1>8, <1>9, <1>15 DEF Plan
    <2>3. plan'.lmove \subseteq [f : File, e : Email, from : Paths, to : Live]
        <3>1. \A b \in Live : cyc.folder[b] \in Paths
            BY <1>3 DEF IsCycle, Live
        <3>2. \A m \in p.lmove : m.f \in File /\ m.e \in Email
            BY <1>8 DEF Plan, MoveLocal
        <3> QED
            BY <1>9, <1>13, <1>15, <3>1, <3>2
    <2>4. plan'.ldel \subseteq DeleteLocal /\ plan'.up \subseteq NewMessage
          /\ plan'.rmove \subseteq MoveRemote /\ plan'.rdel \subseteq Email
        BY <1>8, <1>14, <1>15 DEF Plan
    <2> QED
        BY <1>15, <1>18, <2>1, <2>2, <2>3, <2>4 DEF IsPlan
<1>20. Stores'
    BY DEF Typed, Fetch, Stores, serverVars, diskVars, dbVars, cursorVars, sinceVars, ghostVars, IsTree,
       IsDirs, IsCache
<1>21. IsReply' /\ IsChores'
    BY <1>2 DEF IsReply, IsChores, Typed, Control
<1>22. Phased'
    BY <1>2 DEF Phased, Cycling
<1>23. /\ MailboxDeletable \/ cyc'.kill = {}
       /\ FolderDeletable \/ cyc'.rmdir = {}
    BY <1>16 DEF kill, doomed
<1> QED
    BY <1>16, <1>17, <1>19, <1>20, <1>21, <1>22, <1>23 DEF Typed, Control, IsCycle, SameLook

-----------------------------------------------------------------------------
(* The phases.  A phase uses up what was decided, and adds nothing to it.  *)

LEMMA ExecutingPhases ==
    Executing = {"mklocal", "mvlocal", "adopt", "download", "lmove", "ldelete", "rmlocal",
                 "mkremote", "mvremote", "upload", "set", "killremote", "pair", "cursor"}
BY DEF Executing, Range, Phases

LEMMA CycleFacts ==
    ASSUME Typed
    PROVE  /\ IsCycle(cyc) /\ IsInput(cyc.in) /\ IsPlan(plan) /\ Stores
           /\ Live \subseteq Box /\ Live \subseteq DOMAIN cyc.in.server
           /\ \A b \in Live : cyc.folder[b] \in Paths
BY DEF Typed, Control, IsCycle, IsInput, IsTree, Live

LEMMA CycleShrinks ==
    ASSUME IsCycle(cyc), DOMAIN cyc' = DOMAIN None,
           cyc'.in = cyc.in, cyc'.folder = cyc.folder, cyc'.obs = cyc.obs, cyc'.rorph = cyc.rorph,
           cyc'.orphans = cyc.orphans, cyc'.strays = cyc.strays, cyc'.pend = cyc.pend,
           cyc'.mk \subseteq cyc.mk, cyc'.replaced \subseteq cyc.replaced,
           cyc'.mv \cup cyc'.moved \subseteq cyc.mv \cup cyc.moved, cyc'.create \subseteq cyc.create,
           cyc'.reup \subseteq cyc.reup, cyc'.push \subseteq cyc.push,
           cyc'.rmdir \subseteq cyc.rmdir, cyc'.kill \subseteq cyc.kill,
           DOMAIN cyc'.refs \subseteq Paths, cyc'.refs \in [DOMAIN cyc'.refs -> Box]
    PROVE  IsCycle(cyc')
BY DEF IsCycle

LEMMA PlanShrinks ==
    ASSUME IsPlan(plan), Live' = Live, DOMAIN plan' = DOMAIN EmptyPlan,
           plan'.adoptR \subseteq plan.adoptR, plan'.adoptL \subseteq plan.adoptL,
           plan'.pair \subseteq plan.pair, plan'.down \subseteq plan.down,
           plan'.lmove \subseteq plan.lmove, plan'.ldel \subseteq plan.ldel,
           plan'.up \subseteq plan.up, plan'.rmove \subseteq plan.rmove, plan'.rdel \subseteq plan.rdel
    PROVE  IsPlan(plan)'
<1>1. IsFiniteSet(plan'.down)
    BY FS_Subset DEF IsPlan
<1> QED
    BY <1>1 DEF IsPlan

\* A step of a phase that has heard what it asked for.
LEMMA Proceeds ==
    ASSUME Typed, pc' \in Executing \cup {"writes", "pending"}, IsCycle(cyc'), cyc'.folder = cyc.folder,
           DOMAIN plan' = DOMAIN EmptyPlan,
           plan'.adoptR \subseteq plan.adoptR, plan'.adoptL \subseteq plan.adoptL,
           plan'.pair \subseteq plan.pair, plan'.down \subseteq plan.down,
           plan'.lmove \subseteq plan.lmove, plan'.ldel \subseteq plan.ldel,
           plan'.up \subseteq plan.up, plan'.rmove \subseteq plan.rmove, plan'.rdel \subseteq plan.rdel,
           UNCHANGED chores, IsReply'
    PROVE  Control'
<1>1. IsPlan(plan)'
    BY PlanShrinks DEF Typed, Control, Live
<1>2. IsChores'
    BY ExecutingPhases DEF Typed, Control, IsChores
<1>3. Phased'
    BY ExecutingPhases DEF Phased, Cycling
<1> QED
    BY <1>1, <1>2, <1>3 DEF Control, IsCycle

LEMMA NoReplyTyped ==
    ASSUME reply' = NoReply
    PROVE  IsReply'
BY DEF IsReply

\* A phase with nothing to do but to change one of the stores.
LEMMA CycleKeeps ==
    ASSUME Typed, pc' \in Executing \cup {"writes", "pending"}, UNCHANGED <<cyc, chores>>,
           DOMAIN plan' = DOMAIN EmptyPlan,
           plan'.adoptR \subseteq plan.adoptR, plan'.adoptL \subseteq plan.adoptL,
           plan'.pair \subseteq plan.pair, plan'.down \subseteq plan.down,
           plan'.lmove \subseteq plan.lmove, plan'.ldel \subseteq plan.ldel,
           plan'.up \subseteq plan.up, plan'.rmove \subseteq plan.rmove, plan'.rdel \subseteq plan.rdel,
           reply' = NoReply
    PROVE  Control'
<1>1. IsCycle(cyc')
    BY DEF Typed, Control, IsCycle
<1> QED
    BY <1>1, Proceeds, NoReplyTyped

LEMMA NoReplyYet ==
    ASSUME Typed, pc \notin {"mkremote", "mvremote", "killremote"}
    PROVE  reply = NoReply
BY DEF Typed, Control, IsReply

LEMMA RecordTypes ==
    ASSUME NEW in, IsInput(in), NEW b \in DOMAIN in.server
    PROVE  /\ Record(in, b) \in Binding
           /\ Sentinel(in, b) \in [id : Box, name : Names, parent : Box0]
           /\ Sentinel(in, b) \in Mark
<1>1. in.server[b] \in Place /\ b \in Box
    BY DEF IsInput, IsTree
<1> QED
    BY <1>1, ServerPath DEF Record, Sentinel, Binding, Place, Mark

LEMMA ApplyUnconditionalTypes ==
    ASSUME Typed, ApplyUnconditional, UNCHANGED chores
    PROVE  Typed'
<1>1. IsCache(cache)'
    <2> DEFINE kept == Restrict(cache, DOMAIN cache \ CacheOrphans(cyc.in))
    <2>1. IsCache(kept)
        BY CycleFacts, CacheShrinks DEF Stores
    <2>2. MetadataWrites(cyc.in, Live) \in SUBSET Box
          /\ \A b \in MetadataWrites(cyc.in, Live) : Record(cyc.in, b) \in Binding
        BY CycleFacts, RecordTypes DEF MetadataWrites
    <2>3. IsCache(Over([b \in MetadataWrites(cyc.in, Live) |-> Record(cyc.in, b)], kept))
        <3> HIDE DEF kept
        <3> QED
            BY <2>1, <2>2 DEF IsCache, Over
    <2> QED
        BY <2>3 DEF ApplyUnconditional, IsCache
<1>2. Stores'
    BY <1>1 DEF Typed, Stores, ApplyUnconditional, serverVars, diskVars, cursorVars, sinceVars,
       ghostVars, IsTree, IsDirs
<1>3. pc' \in Executing
    BY PhaseFromFirst, PhasesLength DEF ApplyUnconditional, Executing, Range
<1>4. UNCHANGED <<cyc, plan, reply>> /\ reply = NoReply
    BY NoReplyYet DEF ApplyUnconditional
<1>5. DOMAIN plan' = DOMAIN EmptyPlan
    BY <1>4, CycleFacts DEF IsPlan
<1>6. Control'
    BY <1>3, <1>4, <1>5, CycleKeeps
<1> QED
    BY <1>2, <1>6 DEF Typed

LEMMA Died ==
    ASSUME Typed, Idle, UNCHANGED chores
    PROVE  Control'
BY IdleControl DEF Typed, Control, IsChores

\* A run of writes that ends, in either way, for a cycle with less to do.
LEMMA EndsTypes ==
    ASSUME Typed, NEW phase \in Executing, NEW outcome, NEW next, Ends(phase, outcome, next),
           cyc' = next => IsCycle(cyc') /\ cyc'.folder = cyc.folder, UNCHANGED chores
    PROVE  Control' /\ later' \subseteq Email /\ mine' \subseteq Email
<1>1. CASE Idle
    BY <1>1, Died DEF Idle
<1>2. CASE ~Idle
    <2>1. cyc' = next /\ reply' = NoReply /\ UNCHANGED <<plan, sinceVars>> /\ Continue(phase)
        BY <1>2 DEF Ends
    <2>2. pc' \in Executing /\ DOMAIN plan' = DOMAIN EmptyPlan
        BY <2>1, Continues, CycleFacts DEF IsPlan
    <2>3. Control'
        BY <2>1, <2>2, NoReplyTyped, Proceeds
    <2> QED
        BY <2>1, <2>3 DEF sinceVars, Typed, Stores
<1> QED
    BY <1>1, <1>2

LEMMA CreateLocalTypes ==
    ASSUME Typed, NEW b \in cyc.mk, CreateLocal(b), UNCHANGED chores
    PROVE  Typed'
<1> DEFINE parent == IF b \in cyc.replaced THEN cyc.in.cached[b].parent ELSE cyc.in.server[b].parent
           mark == [Sentinel(cyc.in, b) EXCEPT !.parent = parent]
           next == [cyc EXCEPT !.mk = @ \ {b}, !.replaced = @ \ {b}]
<1>1. b \in Live /\ cyc.folder[b] \in Paths
    BY CycleFacts DEF IsCycle, Live
<1>2. mark \in Mark
    <2>1. Sentinel(cyc.in, b) \in [id : Box, name : Names, parent : Box0]
        BY <1>1, CycleFacts, RecordTypes
    <2>2. parent \in Box0
        <3>1. CASE b \in cyc.replaced
            BY <3>1, CycleFacts DEF IsCycle, IsInput, IsCache, Binding
        <3>2. CASE b \notin cyc.replaced
            BY <1>1, <3>2, CycleFacts DEF IsInput, IsTree, Place
        <3> QED
            BY <3>1, <3>2
    <2> HIDE DEF parent
    <2>3. mark \in [id : Box, name : Names, parent : Box0]
        BY <2>1, <2>2
    <2> QED
        BY <2>3 DEF Mark
<1>3. PICK outcome \in Outcomes :
          /\ rows' = RowsWithout({b} \cap cyc.replaced) \/ rows' = rows
          /\ \/ dirs' = Marked(dirs, cyc.folder[b], mark)
             \/ dirs' = Ensured(dirs, {cyc.folder[b]})
             \/ dirs' = dirs
          /\ Ends("mklocal", outcome, next)
    BY DEF CreateLocal
<1> HIDE DEF mark
<1>4. IsDirs(dirs)'
    <2>1. /\ IsDirs(dirs) /\ IsDirs(Marked(dirs, cyc.folder[b], mark))
          /\ IsDirs(Ensured(dirs, {cyc.folder[b]}))
        BY <1>1, <1>2, CycleFacts, DirsMarked, DirsGrow DEF Stores
    <2> QED
        BY <1>3, <2>1 DEF IsDirs
<1>5. rows' \in Rows
    BY <1>3, CycleFacts, RowsWithoutTypes DEF Stores
<1>6. ASSUME cyc' = next PROVE IsCycle(cyc') /\ cyc'.folder = cyc.folder
    <2>1. /\ DOMAIN cyc' = DOMAIN None /\ cyc'.mk \subseteq cyc.mk /\ cyc'.replaced \subseteq cyc.replaced
          /\ cyc'.in = cyc.in /\ cyc'.folder = cyc.folder /\ cyc'.obs = cyc.obs
          /\ cyc'.orphans = cyc.orphans /\ cyc'.rorph = cyc.rorph /\ cyc'.strays = cyc.strays
          /\ cyc'.mv = cyc.mv /\ cyc'.moved = cyc.moved /\ cyc'.create = cyc.create
          /\ cyc'.reup = cyc.reup /\ cyc'.push = cyc.push /\ cyc'.pend = cyc.pend
          /\ cyc'.rmdir = cyc.rmdir /\ cyc'.kill = cyc.kill /\ cyc'.refs = cyc.refs
        BY <1>6, CycleFacts DEF IsCycle, None
    <2> QED
        BY <2>1, CycleFacts DEF IsCycle
<1> HIDE DEF next
<1>7. Control' /\ later' \subseteq Email /\ mine' \subseteq Email
    BY <1>3, <1>6, EndsTypes, ExecutingPhases
<1>8. Stores'
    BY <1>4, <1>5, <1>7 DEF Typed, Stores, CreateLocal, serverVars, cursorVars, IsTree, IsCache
<1> QED
    BY <1>7, <1>8 DEF Typed

LEMMA RenameLocalTypes ==
    ASSUME Typed, NEW w \in cyc.mv, RenameLocal(w), UNCHANGED chores
    PROVE  Typed'
<1>1. IsDirs(dirs)' /\ disk' \in [File -> Places]
    <2>1. CASE CanRename(w.from, w.to)
        BY <2>1, CycleFacts, RenameTreeTypes DEF RenameLocal, Stores
    <2>2. CASE ~CanRename(w.from, w.to)
        BY <2>2, CycleFacts DEF RenameLocal, Stores, IsDirs
    <2> QED
        BY <2>1, <2>2
<1>2. Stores'
    BY <1>1 DEF Typed, Stores, RenameLocal, serverVars, dbVars, cursorVars, sinceVars, ghostVars,
       IsTree, IsCache
<1>3. /\ cyc' = [cyc EXCEPT !.moved = {w}] \/ cyc' = [cyc EXCEPT !.mv = @ \ {w}]
      /\ UNCHANGED <<plan, reply>> /\ pc = "mvlocal"
    BY DEF RenameLocal
<1>4. IsCycle(cyc') /\ cyc'.folder = cyc.folder
    <2>1. /\ DOMAIN cyc' = DOMAIN None /\ cyc'.mv \subseteq cyc.mv /\ cyc'.moved \subseteq cyc.moved \cup {w}
          /\ cyc'.in = cyc.in /\ cyc'.folder = cyc.folder /\ cyc'.obs = cyc.obs
          /\ cyc'.orphans = cyc.orphans /\ cyc'.rorph = cyc.rorph /\ cyc'.strays = cyc.strays
          /\ cyc'.mk = cyc.mk /\ cyc'.replaced = cyc.replaced /\ cyc'.create = cyc.create
          /\ cyc'.reup = cyc.reup /\ cyc'.push = cyc.push /\ cyc'.pend = cyc.pend
          /\ cyc'.rmdir = cyc.rmdir /\ cyc'.kill = cyc.kill /\ cyc'.refs = cyc.refs
        BY <1>3, CycleFacts DEF IsCycle, None
    <2> QED
        BY <2>1, CycleFacts DEF IsCycle
<1>5. pc' \in Executing
    BY <1>3, Continues, ExecutingPhases DEF RenameLocal
<1>6. Control'
    BY <1>3, <1>4, <1>5, NoReplyYet, NoReplyTyped, Proceeds, CycleFacts DEF IsPlan
<1> QED
    BY <1>2, <1>6 DEF Typed

LEMMA RenameRefusedTypes ==
    ASSUME Typed, NEW w \in cyc.mv, RenameRefused(w), UNCHANGED chores
    PROVE  Typed'
<1> DEFINE next == [cyc EXCEPT !.mv = @ \ {w}]
<1>1. Ends("mvlocal", "logged", next)
    BY DEF RenameRefused
<1>2. ASSUME cyc' = next PROVE IsCycle(cyc') /\ cyc'.folder = cyc.folder
    <2>1. /\ DOMAIN cyc' = DOMAIN None /\ cyc'.mv \subseteq cyc.mv /\ cyc'.moved = cyc.moved
          /\ cyc'.in = cyc.in /\ cyc'.folder = cyc.folder /\ cyc'.obs = cyc.obs
          /\ cyc'.orphans = cyc.orphans /\ cyc'.rorph = cyc.rorph /\ cyc'.strays = cyc.strays
          /\ cyc'.mk = cyc.mk /\ cyc'.replaced = cyc.replaced /\ cyc'.create = cyc.create
          /\ cyc'.reup = cyc.reup /\ cyc'.push = cyc.push /\ cyc'.pend = cyc.pend
          /\ cyc'.rmdir = cyc.rmdir /\ cyc'.kill = cyc.kill /\ cyc'.refs = cyc.refs
        BY <1>2, CycleFacts DEF IsCycle, None
    <2> QED
        BY <2>1, CycleFacts DEF IsCycle
<1> HIDE DEF next
<1>3. Control' /\ later' \subseteq Email /\ mine' \subseteq Email
    BY <1>1, <1>2, EndsTypes, ExecutingPhases
<1>4. Stores'
    BY <1>3 DEF Typed, Stores, RenameRefused, serverVars, diskVars, dbVars, cursorVars, IsTree,
       IsDirs, IsCache
<1> QED
    BY <1>3, <1>4 DEF Typed

LEMMA FollowRenameTypes ==
    ASSUME Typed, FollowRename, UNCHANGED chores
    PROVE  Typed'
<1>1. PICK w \in cyc.moved, outcome \in Outcomes :
        /\ ls' = StatesMoved(w) \/ ls' = ls
        /\ dirs' = Marked(dirs, w.to, Sentinel(cyc.in, w.b)) \/ dirs' = dirs
        /\ Ends("mvlocal", outcome, [cyc EXCEPT !.mv = @ \ {w}, !.moved = {}])
    BY DEF FollowRename
<1> DEFINE next == [cyc EXCEPT !.mv = @ \ {w}, !.moved = {}]
<1>2. w \in PullItem /\ w.b \in Live
    BY CycleFacts DEF IsCycle, Live
<1>3. ls' \in [File -> Paths \cup {Nowhere}]
    BY <1>1, <1>2, CycleFacts DEF Stores, PullItem, StatesMoved
<1>4. IsDirs(dirs)'
    <2>1. Sentinel(cyc.in, w.b) \in Mark /\ w.to \in Paths
        BY <1>2, CycleFacts, RecordTypes DEF PullItem
    <2>2. IsDirs(Marked(dirs, w.to, Sentinel(cyc.in, w.b))) /\ IsDirs(dirs)
        BY <2>1, CycleFacts, DirsMarked DEF Stores
    <2> QED
        BY <1>1, <2>2 DEF IsDirs
<1>5. ASSUME cyc' = next PROVE IsCycle(cyc') /\ cyc'.folder = cyc.folder
    <2>1. /\ DOMAIN cyc' = DOMAIN None /\ cyc'.mv \subseteq cyc.mv /\ cyc'.moved = {}
          /\ cyc'.in = cyc.in /\ cyc'.folder = cyc.folder /\ cyc'.obs = cyc.obs
          /\ cyc'.orphans = cyc.orphans /\ cyc'.rorph = cyc.rorph /\ cyc'.strays = cyc.strays
          /\ cyc'.mk = cyc.mk /\ cyc'.replaced = cyc.replaced /\ cyc'.create = cyc.create
          /\ cyc'.reup = cyc.reup /\ cyc'.push = cyc.push /\ cyc'.pend = cyc.pend
          /\ cyc'.rmdir = cyc.rmdir /\ cyc'.kill = cyc.kill /\ cyc'.refs = cyc.refs
        BY <1>5, CycleFacts DEF IsCycle, None
    <2> QED
        BY <2>1, CycleFacts DEF IsCycle
<1> HIDE DEF next
<1>6. Ends("mvlocal", outcome, next)
    BY <1>1 DEF next
<1>7. Control' /\ later' \subseteq Email /\ mine' \subseteq Email
    BY <1>5, <1>6, EndsTypes, ExecutingPhases
<1>8. Stores'
    BY <1>3, <1>4, <1>7 DEF Typed, Stores, FollowRename, serverVars, cursorVars, IsTree, IsCache
<1> QED
    BY <1>7, <1>8 DEF Typed

LEMMA AdoptedTypes ==
    ASSUME NEW R \in Rows, NEW A \in SUBSET AdoptAction
    PROVE  Adopted(R, A) \in Rows
<1> SUFFICES ASSUME NEW e \in Email PROVE Adopted(R, A)[e] \in Row
    BY DEF Adopted, Rows
<1>1. CASE \E a \in A : a.e = e
    <2> DEFINE F == {a.f : a \in {x \in A : x.e = e}}
               a == CHOOSE a \in A : a.e = e /\ \A x \in A : x.e = e => x.f <= a.f
    <2>1. F \in SUBSET (0 .. MaxFile) /\ F # {}
        <3>1. F # {}
            BY <1>1
        <3>2. \A x \in A : x.f \in 0 .. MaxFile
            BY BoundAssumption DEF AdoptAction, File
        <3> QED
            BY <3>1, <3>2
    <2>2. PICK f \in F : \A g \in F : g <= f
        <3> HIDE DEF F
        <3> QED
            BY <2>1, BoundAssumption, GreatestExists
    <2>3. \E x \in A : x.e = e /\ \A y \in A : y.e = e => y.f <= x.f
        BY <2>2
    <2>4. a \in A
        BY <2>3
    <2>5. Adopted(R, A)[e] = [box |-> a.box, mid |-> a.mid, file |-> a.f, flags |-> {}, blob |-> a.blob]
        BY <1>1 DEF Adopted
    <2> HIDE DEF a
    <2>6. a.box \in Box /\ a.mid \in Mid /\ a.f \in File /\ a.blob \in BOOLEAN
        BY <2>4 DEF AdoptAction
    <2> QED
        BY <2>5, <2>6 DEF Row
<1>2. CASE ~\E a \in A : a.e = e
    BY <1>2, NoRowRow DEF Adopted, Rows
<1> QED
    BY <1>1, <1>2

LEMMA AdoptedStateTypes ==
    ASSUME Typed, NEW A, \A a \in A : a.box \in Live
    PROVE  AdoptedStates(A) \in [File -> Paths \cup {Nowhere}]
<1> SUFFICES ASSUME NEW x \in File PROVE AdoptedStates(A)[x] \in Paths \cup {Nowhere}
    BY DEF AdoptedStates
<1>1. CASE \E a \in A : a.f = x
    <2> DEFINE a == CHOOSE a \in A : a.f = x
    <2>1. a \in A
        BY <1>1
    <2>2. AdoptedStates(A)[x] = cyc.folder[a.box]
        BY <1>1 DEF AdoptedStates
    <2> HIDE DEF a
    <2> QED
        BY <2>1, <2>2, CycleFacts
<1>2. CASE ~\E a \in A : a.f = x
    BY <1>2, CycleFacts DEF AdoptedStates, Stores
<1> QED
    BY <1>1, <1>2

LEMMA AdoptMessagesTypes ==
    ASSUME Typed, AdoptMessages, UNCHANGED chores
    PROVE  Typed'
<1>1. plan.adoptR \in SUBSET AdoptAction /\ plan.adoptL \in SUBSET AdoptAction
      /\ \A a \in plan.adoptR \cup plan.adoptL : a.box \in Live
    BY CycleFacts DEF IsPlan
<1>2. rows' \in Rows
    BY <1>1, CycleFacts, AdoptedTypes DEF AdoptMessages, Stores
<1>3. ls' \in [File -> Paths \cup {Nowhere}]
    BY <1>1, AdoptedStateTypes DEF AdoptMessages
<1>4. Stores'
    BY <1>2, <1>3 DEF Typed, Stores, AdoptMessages, serverVars, diskVars, cursorVars, sinceVars,
       ghostVars, IsTree, IsDirs, IsCache
<1>5. /\ pc' \in Executing /\ UNCHANGED <<cyc, reply>> /\ reply = NoReply
      /\ plan' = [plan EXCEPT !.adoptR = {}, !.adoptL = {}]
    BY Continues, ExecutingPhases, NoReplyYet DEF AdoptMessages
<1>6. Control'
    BY <1>5, CycleKeeps, CycleFacts DEF IsPlan, EmptyPlan
<1> QED
    BY <1>4, <1>6 DEF Typed

LEMMA RefusedTypes ==
    ASSUME Typed, AdoptRefused \/ PairsRefused, UNCHANGED chores
    PROVE  Typed'
<1>1. Idle /\ UNCHANGED <<serverVars, diskVars, dbVars, ghostVars>>
    BY DEF AdoptRefused, PairsRefused
<1>2. Stores'
    BY <1>1, IdleStores DEF Typed, serverVars, dbVars, ghostVars, cursorVars
<1> QED
    BY <1>1, <1>2, Died DEF Typed

\* Every download gets a file of its own, below the bound.
LEMMA NumberTypes ==
    ASSUME Typed, Downloadable, NEW d \in plan.down
    PROVE  nextFile + Cardinality({x \in plan.down : x.e < d.e}) \in File
<1> DEFINE before == {x \in plan.down : x.e < d.e}
<1>1. IsFiniteSet(plan.down) /\ d.e \in Email /\ nextFile \in Nat \ {0}
    BY CycleFacts DEF IsPlan, Download, Stores
<1>2. IsFiniteSet(plan.down \ {d}) /\ Cardinality(plan.down \ {d}) = Cardinality(plan.down) - 1
    BY <1>1, FS_RemoveElement
<1>3. before \in SUBSET (plan.down \ {d})
    BY <1>1 DEF Email
<1>4. IsFiniteSet(before) /\ Cardinality(before) <= Cardinality(plan.down \ {d})
    BY <1>2, <1>3, FS_Subset
<1>5. Cardinality(before) \in Nat /\ Cardinality(plan.down) \in Nat
    BY <1>1, <1>4, FS_CardinalityType
<1>6. nextFile + Cardinality(plan.down) <= MaxFile + 1
    BY DEF Downloadable
<1> QED
    BY <1>1, <1>2, <1>4, <1>5, <1>6, BoundAssumption DEF File

LEMMA DownloadMessagesTypes ==
    ASSUME Typed, DownloadMessages, UNCHANGED chores
    PROVE  Typed'
<1> DEFINE number(d) == nextFile + Cardinality({x \in plan.down : x.e < d.e})
           of(x) == {d \in plan.down : number(d) = x}
<1>1. \A d \in plan.down : /\ d.box \in Box /\ d.mid \in Mid /\ cyc.folder[d.box] \in Paths
                           /\ number(d) \in File
    BY CycleFacts, NumberTypes DEF IsPlan, Download, DownloadMessages
<1> HIDE DEF number
<1>2. /\ dirs' = Ensured(dirs, {cyc.folder[d.box] : d \in plan.down})
      /\ disk' = [x \in File |-> IF of(x) = {} THEN disk[x]
                        ELSE LET d == CHOOSE d \in of(x) : TRUE
                             IN [at |-> cyc.folder[d.box], mid |-> d.mid]]
      /\ rows' = [e \in Email |-> IF \A d \in plan.down : d.e # e THEN rows[e]
                        ELSE LET d == CHOOSE d \in plan.down : d.e = e
                             IN [box |-> d.box, mid |-> d.mid, file |-> number(d),
                                 flags |-> {}, blob |-> TRUE]]
      /\ ls' = [x \in File |-> IF of(x) = {} THEN ls[x]
                      ELSE cyc.folder[(CHOOSE d \in of(x) : TRUE).box]]
      /\ nextFile' = nextFile + Cardinality(plan.down)
    BY DEF DownloadMessages, number
<1>3. IsDirs(dirs)'
    <2>1. {cyc.folder[d.box] : d \in plan.down} \in SUBSET Paths
        BY <1>1
    <2> QED
        BY <1>2, <2>1, CycleFacts, DirsGrow DEF Stores, IsDirs
<1>4. \A x \in File : of(x) # {} => (CHOOSE d \in of(x) : TRUE) \in plan.down
    BY DEF of
<1> HIDE DEF of
<1>5. disk' \in [File -> Places]
    BY <1>1, <1>2, <1>4, CycleFacts DEF Stores, Places
<1>6. ls' \in [File -> Paths \cup {Nowhere}]
    BY <1>1, <1>2, <1>4, CycleFacts DEF Stores
<1>7. rows' \in Rows
    <2> SUFFICES ASSUME NEW e \in Email PROVE rows'[e] \in Row
        BY <1>2 DEF Rows
    <2>1. CASE \A d \in plan.down : d.e # e
        BY <1>2, <2>1, CycleFacts DEF Stores, Rows
    <2>2. CASE \E d \in plan.down : d.e = e
        <3> DEFINE d == CHOOSE d \in plan.down : d.e = e
        <3>1. d \in plan.down
            BY <2>2
        <3>2. rows'[e] = [box |-> d.box, mid |-> d.mid, file |-> number(d), flags |-> {}, blob |-> TRUE]
            BY <1>2, <2>2
        <3> HIDE DEF d
        <3> QED
            BY <1>1, <3>1, <3>2 DEF Row
    <2> QED
        BY <2>1, <2>2
<1>8. nextFile' \in Nat \ {0}
    BY <1>2, CycleFacts, FS_CardinalityType DEF Stores, IsPlan
<1>9. Stores'
    BY <1>3, <1>5, <1>6, <1>7, <1>8 DEF Typed, Stores, DownloadMessages, serverVars, cursorVars,
       sinceVars, ghostVars, IsTree, IsCache
<1>10. /\ pc' \in Executing /\ UNCHANGED <<cyc, reply>> /\ reply = NoReply
       /\ plan' = [plan EXCEPT !.down = {}]
    BY Continues, ExecutingPhases, NoReplyYet DEF DownloadMessages
<1>11. Control'
    BY <1>10, CycleKeeps, CycleFacts DEF IsPlan, EmptyPlan
<1> QED
    BY <1>9, <1>11 DEF Typed

LEMMA DownloadFailsTypes ==
    ASSUME Typed, DownloadFails, UNCHANGED chores
    PROVE  Typed'
<1>1. IsDirs(dirs)'
    <2>1. {cyc.folder[d.box] : d \in plan.down} \in SUBSET Paths
        BY CycleFacts DEF IsPlan
    <2> QED
        BY <2>1, CycleFacts, DirsGrow DEF DownloadFails, Stores, IsDirs
<1>2. Stores'
    BY <1>1 DEF Typed, Stores, DownloadFails, Idle, serverVars, dbVars, cursorVars, ghostVars, IsTree,
       IsCache
<1> QED
    BY <1>2, Died DEF DownloadFails, Typed

LEMMA MoveLocalsTypes ==
    ASSUME Typed, MoveLocals, UNCHANGED chores
    PROVE  Typed'
<1> DEFINE landed == {m \in plan.lmove : disk[m.f].at = m.from}
           of(x) == {m \in landed : m.f = x}
           to(m) == cyc.folder[m.to]
<1>1. \A m \in plan.lmove : m.from \in Paths /\ to(m) \in Paths /\ m.to \in Box
    BY CycleFacts DEF IsPlan
<1>2. /\ dirs' = Ensured(dirs, UNION {{m.from, to(m)} : m \in plan.lmove})
      /\ disk' = [x \in File |-> IF of(x) = {} THEN disk[x]
                        ELSE [disk[x] EXCEPT !.at = to(CHOOSE m \in of(x) : TRUE)]]
      /\ rows' = [e \in Email |-> IF HasRow(rows, e) /\ \E m \in landed : m.e = e
                        THEN [rows[e] EXCEPT !.box = (CHOOSE m \in landed : m.e = e).to]
                        ELSE rows[e]]
      /\ ls' = [x \in File |-> IF of(x) = {} THEN ls[x]
                      ELSE to(CHOOSE m \in of(x) : TRUE)]
    BY DEF MoveLocals
<1>3. \A x \in File : of(x) # {} => to(CHOOSE m \in of(x) : TRUE) \in Paths
    <2> SUFFICES ASSUME NEW x \in File, of(x) # {} PROVE to(CHOOSE m \in of(x) : TRUE) \in Paths
        OBVIOUS
    <2>1. (CHOOSE m \in of(x) : TRUE) \in plan.lmove
        OBVIOUS
    <2> HIDE DEF to, of
    <2> QED
        BY <1>1, <2>1
<1>4. IsDirs(dirs)'
    <2> HIDE DEF to
    <2>1. UNION {{m.from, to(m)} : m \in plan.lmove} \in SUBSET Paths
        BY <1>1
    <2> QED
        BY <1>2, <2>1, CycleFacts, DirsGrow DEF Stores, IsDirs
<1>5. rows' \in Rows
    <2> SUFFICES ASSUME NEW e \in Email PROVE rows'[e] \in Row
        BY <1>2 DEF Rows
    <2>1. rows[e] \in Row
        BY CycleFacts DEF Stores, Rows
    <2>2. CASE HasRow(rows, e) /\ \E m \in landed : m.e = e
        <3>1. (CHOOSE m \in landed : m.e = e) \in plan.lmove
            BY <2>2
        <3>2. (CHOOSE m \in landed : m.e = e).to \in Box
            BY <1>1, <3>1
        <3>3. rows[e] \in [box : Box, mid : Mid, file : File, flags : SUBSET Flag, blob : BOOLEAN]
            BY <2>2, CycleFacts, RowThere DEF Stores
        <3>4. rows'[e] = [rows[e] EXCEPT !.box = (CHOOSE m \in landed : m.e = e).to]
            BY <1>2, <2>2
        <3> HIDE DEF landed
        <3> QED
            BY <3>2, <3>3, <3>4 DEF Row
    <2> QED
        BY <1>2, <2>1, <2>2
<1> HIDE DEF of, to, landed
<1>6. disk' \in [File -> Places]
    BY <1>2, <1>3, CycleFacts DEF Stores, Places
<1>7. ls' \in [File -> Paths \cup {Nowhere}]
    BY <1>2, <1>3, CycleFacts DEF Stores
<1>8. Stores'
    BY <1>4, <1>5, <1>6, <1>7 DEF Typed, Stores, MoveLocals, serverVars, cursorVars, sinceVars,
       ghostVars, IsTree, IsCache
<1>9. /\ pc' \in Executing /\ UNCHANGED <<cyc, reply>> /\ reply = NoReply
      /\ plan' = [plan EXCEPT !.lmove = {}]
    BY Continues, ExecutingPhases, NoReplyYet DEF MoveLocals
<1>10. Control'
    BY <1>9, CycleKeeps, CycleFacts DEF IsPlan, EmptyPlan
<1> QED
    BY <1>8, <1>10 DEF Typed

LEMMA DeleteLocalsTypes ==
    ASSUME Typed, DeleteLocals, UNCHANGED chores
    PROVE  Typed'
<1>1. disk' \in [File -> Places] /\ rows' \in Rows /\ ls' \in [File -> Paths \cup {Nowhere}]
    BY CycleFacts, NoFileHerePlaced, NoRowRow DEF DeleteLocals, Stores, Rows
<1>2. Stores'
    BY <1>1 DEF Typed, Stores, DeleteLocals, serverVars, cursorVars, sinceVars, ghostVars, IsTree,
       IsDirs, IsCache
<1>3. /\ pc' \in Executing /\ UNCHANGED <<cyc, reply>> /\ reply = NoReply
      /\ plan' = [plan EXCEPT !.ldel = {}]
    BY Continues, ExecutingPhases, NoReplyYet DEF DeleteLocals
<1>4. Control'
    BY <1>3, CycleKeeps, CycleFacts DEF IsPlan, EmptyPlan
<1> QED
    BY <1>2, <1>4 DEF Typed

LEMMA DeleteLocalFolderTypes ==
    ASSUME Typed, NEW w \in cyc.rmdir, DeleteLocalFolder(w), UNCHANGED chores
    PROVE  Typed'
<1> DEFINE next == [cyc EXCEPT !.rmdir = @ \ {w}]
<1>1. PICK outcome \in Outcomes :
        /\ \/ UNCHANGED <<dirs, disk, rows, ls>>
           \/ RemoveMaildirTree(w.b, w.folder)
           \/ RemovalCutShort(w.b, w.folder, outcome)
        /\ Ends("rmlocal", outcome, next)
    BY DEF DeleteLocalFolder
<1>2. IsDirs(dirs)' /\ disk' \in [File -> Places] /\ rows' \in Rows
      /\ ls' \in [File -> Paths \cup {Nowhere}]
    <2>1. CASE UNCHANGED <<dirs, disk, rows, ls>>
        BY <2>1, CycleFacts DEF Stores, IsDirs
    <2>2. CASE RemoveMaildirTree(w.b, w.folder)
        BY <2>2, CycleFacts, RemoveMaildirTreeTypes
    <2>3. CASE RemovalCutShort(w.b, w.folder, outcome)
        <3>1. IsDirs(dirs)' /\ disk' \in [File -> Places] /\ UNCHANGED <<rows, ls>>
            BY <2>3, CycleFacts, RemovalCutShortTypes
        <3> QED
            BY <3>1, CycleFacts DEF Stores
    <2> QED
        BY <1>1, <2>1, <2>2, <2>3
<1>3. ASSUME cyc' = next PROVE IsCycle(cyc') /\ cyc'.folder = cyc.folder
    <2>1. /\ DOMAIN cyc' = DOMAIN None /\ cyc'.rmdir \subseteq cyc.rmdir
          /\ cyc'.in = cyc.in /\ cyc'.folder = cyc.folder /\ cyc'.obs = cyc.obs
          /\ cyc'.orphans = cyc.orphans /\ cyc'.rorph = cyc.rorph /\ cyc'.strays = cyc.strays
          /\ cyc'.mk = cyc.mk /\ cyc'.replaced = cyc.replaced /\ cyc'.create = cyc.create
          /\ cyc'.reup = cyc.reup /\ cyc'.push = cyc.push /\ cyc'.pend = cyc.pend
          /\ cyc'.mv = cyc.mv /\ cyc'.moved = cyc.moved /\ cyc'.kill = cyc.kill
          /\ cyc'.refs = cyc.refs
        BY <1>3, CycleFacts DEF IsCycle, None
    <2> QED
        BY <2>1, CycleFacts DEF IsCycle
<1> HIDE DEF next
<1>4. Control' /\ later' \subseteq Email /\ mine' \subseteq Email
    BY <1>1, <1>3, EndsTypes, ExecutingPhases
<1>5. Stores'
    BY <1>2, <1>4 DEF Typed, Stores, DeleteLocalFolder, serverVars, cursorVars, IsTree, IsCache
<1> QED
    BY <1>4, <1>5 DEF Typed

\* A creation is off the list, done or not.
LEMMA CreationOver ==
    ASSUME Typed, NEW a, DOMAIN cyc' = DOMAIN None,
           \/ cyc' = [cyc EXCEPT !.create = @ \ {a}]
           \/ \E f \in Paths, b \in Box :
                 cyc' = [cyc EXCEPT !.create = @ \ {a}, !.refs = With(@, f, b)]
    PROVE  IsCycle(cyc') /\ cyc'.folder = cyc.folder
<1>1. /\ cyc'.create \subseteq cyc.create
      /\ cyc'.in = cyc.in /\ cyc'.folder = cyc.folder /\ cyc'.obs = cyc.obs
      /\ cyc'.orphans = cyc.orphans /\ cyc'.rorph = cyc.rorph /\ cyc'.strays = cyc.strays
      /\ cyc'.mk = cyc.mk /\ cyc'.replaced = cyc.replaced /\ cyc'.rmdir = cyc.rmdir
      /\ cyc'.reup = cyc.reup /\ cyc'.push = cyc.push /\ cyc'.pend = cyc.pend
      /\ cyc'.mv = cyc.mv /\ cyc'.moved = cyc.moved /\ cyc'.kill = cyc.kill
      /\ cyc'.refs = cyc.refs \/ \E f \in Paths, b \in Box : cyc'.refs = With(cyc.refs, f, b)
    BY CycleFacts DEF IsCycle, None
<1>2. DOMAIN cyc.refs \subseteq Paths /\ cyc.refs \in [DOMAIN cyc.refs -> Box]
    BY CycleFacts DEF IsCycle
<1>3. DOMAIN cyc'.refs \subseteq Paths /\ cyc'.refs \in [DOMAIN cyc'.refs -> Box]
    <2>1. ASSUME NEW f \in Paths, NEW b \in Box
          PROVE  /\ DOMAIN With(cyc.refs, f, b) \subseteq Paths
                 /\ With(cyc.refs, f, b) \in [DOMAIN With(cyc.refs, f, b) -> Box]
        BY <1>2 DEF With
    <2> QED
        BY <1>1, <1>2, <2>1
<1> QED
    BY <1>1, <1>3, CycleFacts DEF IsCycle

LEMMA ParentTypes ==
    ASSUME Typed, NEW a \in cyc.create, ParentKnown(a)
    PROVE  a \in Creation /\ ParentOf(a) \in Box0
<1>1. a \in Creation /\ DOMAIN cyc.refs \subseteq Paths /\ cyc.refs \in [DOMAIN cyc.refs -> Box]
    BY CycleFacts DEF IsCycle
<1> QED
    BY <1>1 DEF ParentOf, ParentKnown, Creation, Box0

LEMMA CreateRemoteStep ==
    ASSUME Typed, NEW a \in cyc.create, CreateRemote(a), UNCHANGED chores
    PROVE  Typed'
<1>1. a \in Creation /\ ParentOf(a) \in Box0
    BY ParentTypes DEF CreateRemote
<1>2. rows' \in Rows
    BY CycleFacts, RowsWithoutTypes DEF CreateRemote, Stores
<1>3. CASE Acceptable(a)
    <2>1. boxes + 1 \in Box /\ [name |-> a.name, parent |-> ParentOf(a)] \in Place
        BY <1>1, <1>3 DEF Acceptable, Creation, Place
    <2>2. IsTree(With(tree, boxes + 1, [name |-> a.name, parent |-> ParentOf(a)]))
        BY <2>1, CycleFacts, TreeGrows DEF Stores
    <2>3. Stores'
        BY <1>2, <1>3, <2>2 DEF Typed, Stores, CreateRemote, diskVars, ghostVars, IsTree, IsDirs, IsCache
    <2>4. /\ UNCHANGED <<cyc, plan, pc>> /\ pc = "mkremote"
          /\ reply' = [kind |-> "created", a |-> a, b |-> boxes + 1, parent |-> ParentOf(a)]
        BY <1>3 DEF CreateRemote
    <2>5. IsReply'
        BY <1>1, <2>1, <2>4 DEF IsReply
    <2>6. IsCycle(cyc') /\ cyc'.folder = cyc.folder /\ DOMAIN plan' = DOMAIN EmptyPlan
        BY <2>4, CycleFacts DEF IsCycle, IsPlan
    <2>7. Control'
        BY <2>4, <2>5, <2>6, Proceeds, ExecutingPhases
    <2> QED
        BY <2>3, <2>7 DEF Typed
<1>4. CASE ~Acceptable(a)
    <2>1. Stores'
        BY <1>2, <1>4 DEF Typed, Stores, CreateRemote, diskVars, ghostVars, IsTree, IsDirs, IsCache
    <2>2. /\ cyc' = [cyc EXCEPT !.create = @ \ {a}] /\ Continue("mkremote")
          /\ UNCHANGED <<plan, reply>> /\ reply = NoReply
        BY <1>4 DEF CreateRemote
    <2>3. DOMAIN cyc' = DOMAIN None
        BY <2>2, CycleFacts DEF IsCycle
    <2>4. IsCycle(cyc') /\ cyc'.folder = cyc.folder
        BY <2>2, <2>3, CreationOver
    <2>5. pc' \in Executing
        BY <2>2, Continues, ExecutingPhases
    <2>6. Control'
        BY <2>2, <2>4, <2>5, NoReplyTyped, Proceeds, CycleFacts DEF IsPlan
    <2> QED
        BY <2>1, <2>6 DEF Typed
<1> QED
    BY <1>3, <1>4

LEMMA SkipCreateTypes ==
    ASSUME Typed, NEW a \in cyc.create, SkipCreate(a), UNCHANGED chores
    PROVE  Typed'
<1>1. Stores'
    BY DEF Typed, Stores, SkipCreate, serverVars, dbVars, cursorVars, sinceVars, diskVars, ghostVars,
       IsTree, IsDirs, IsCache
<1>2. /\ cyc' = [cyc EXCEPT !.create = @ \ {a}] /\ Continue("mkremote")
      /\ UNCHANGED <<plan, reply>> /\ reply = NoReply
    BY DEF SkipCreate
<1>3. DOMAIN cyc' = DOMAIN None
    BY <1>2, CycleFacts DEF IsCycle
<1>4. IsCycle(cyc') /\ cyc'.folder = cyc.folder
    BY <1>2, <1>3, CreationOver
<1>5. pc' \in Executing
    BY <1>2, Continues, ExecutingPhases
<1>6. Control'
    BY <1>2, <1>4, <1>5, NoReplyTyped, Proceeds, CycleFacts DEF IsPlan
<1> QED
    BY <1>1, <1>6 DEF Typed

LEMMA LandCreateTypes ==
    ASSUME Typed, LandCreate, UNCHANGED chores
    PROVE  Typed'
<1>1. pc = "mkremote" /\ reply \in [kind : {"created"}, a : Creation, b : Box, parent : Box0]
    BY DEF LandCreate, Typed, Control, IsReply, NoReply
<1>2. reply.a.folder \in Paths /\ reply.a.name \in Names /\ reply.b \in Box /\ reply.parent \in Box0
    BY <1>1 DEF Creation
<1>3. IsDirs(dirs)'
    <2>1. [id |-> reply.b, name |-> reply.a.name, parent |-> reply.parent] \in Mark
        BY <1>2 DEF Mark
    <2> QED
        BY <1>2, <2>1, CycleFacts, DirsMarked DEF LandCreate, Stores, IsDirs
<1>4. Stores'
    BY <1>3 DEF Typed, Stores, LandCreate, serverVars, dbVars, cursorVars, sinceVars, ghostVars,
       IsTree, IsCache
<1>5. /\ cyc' = [cyc EXCEPT !.create = @ \ {reply.a},
                            !.refs = With(@, reply.a.folder, reply.b)]
      /\ Continue("mkremote") /\ UNCHANGED plan /\ reply' = NoReply
    BY DEF LandCreate
<1>6. DOMAIN cyc' = DOMAIN None
    BY <1>5, CycleFacts DEF IsCycle
<1>7. IsCycle(cyc') /\ cyc'.folder = cyc.folder
    BY <1>2, <1>5, <1>6, CreationOver
<1>8. pc' \in Executing
    BY <1>5, Continues, ExecutingPhases
<1>9. Control'
    BY <1>5, <1>7, <1>8, NoReplyTyped, Proceeds, CycleFacts DEF IsPlan
<1> QED
    BY <1>4, <1>9 DEF Typed

\* A rename that is off the list, done or not.
LEMMA RenameOver ==
    ASSUME Typed, NEW w, cyc' = [cyc EXCEPT !.push = @ \ {w}]
    PROVE  IsCycle(cyc') /\ cyc'.folder = cyc.folder
<1>1. /\ DOMAIN cyc' = DOMAIN None /\ cyc'.push \subseteq cyc.push
      /\ cyc'.in = cyc.in /\ cyc'.folder = cyc.folder /\ cyc'.obs = cyc.obs
      /\ cyc'.orphans = cyc.orphans /\ cyc'.rorph = cyc.rorph /\ cyc'.strays = cyc.strays
      /\ cyc'.mk = cyc.mk /\ cyc'.replaced = cyc.replaced /\ cyc'.rmdir = cyc.rmdir
      /\ cyc'.reup = cyc.reup /\ cyc'.create = cyc.create /\ cyc'.pend = cyc.pend
      /\ cyc'.mv = cyc.mv /\ cyc'.moved = cyc.moved /\ cyc'.kill = cyc.kill /\ cyc'.refs = cyc.refs
    BY CycleFacts DEF IsCycle, None
<1> QED
    BY <1>1, CycleFacts DEF IsCycle

LEMMA RenameRemoteTypes ==
    ASSUME Typed, NEW w \in cyc.push, RenameRemote(w), UNCHANGED chores
    PROVE  Typed'
<1>1. w \in PushItem
    BY CycleFacts DEF IsCycle
<1>2. CASE RenameAcceptable(w)
    <2>1. [name |-> w.name, parent |-> w.parent] \in Place
        BY <1>1 DEF PushItem, Place
    <2>2. IsTree([tree EXCEPT ![w.b] = [name |-> w.name, parent |-> w.parent]])
        BY <1>2, <2>1, CycleFacts, TreeChanges DEF Stores, RenameAcceptable
    <2>3. Stores'
        BY <1>2, <2>2 DEF Typed, Stores, RenameRemote, diskVars, ghostVars, IsTree, IsDirs, IsCache
    <2>4. /\ UNCHANGED <<cyc, plan, pc>> /\ pc = "mvremote" /\ reply' = [kind |-> "renamed", w |-> w]
        BY <1>2 DEF RenameRemote
    <2>5. IsReply'
        BY <1>1, <2>4 DEF IsReply
    <2>6. IsCycle(cyc') /\ cyc'.folder = cyc.folder /\ DOMAIN plan' = DOMAIN EmptyPlan
        BY <2>4, CycleFacts DEF IsCycle, IsPlan
    <2>7. Control'
        BY <2>4, <2>5, <2>6, Proceeds, ExecutingPhases
    <2> QED
        BY <2>3, <2>7 DEF Typed
<1>3. CASE ~RenameAcceptable(w)
    <2>1. Stores'
        BY <1>3 DEF Typed, Stores, RenameRemote, diskVars, ghostVars, IsTree, IsDirs, IsCache
    <2>2. /\ cyc' = [cyc EXCEPT !.push = @ \ {w}] /\ Continue("mvremote")
          /\ UNCHANGED <<plan, reply>> /\ reply = NoReply
        BY <1>3 DEF RenameRemote
    <2>3. IsCycle(cyc') /\ cyc'.folder = cyc.folder /\ pc' \in Executing
        BY <2>2, RenameOver, Continues, ExecutingPhases
    <2>4. Control'
        BY <2>2, <2>3, NoReplyTyped, Proceeds, CycleFacts DEF IsPlan
    <2> QED
        BY <2>1, <2>4 DEF Typed
<1> QED
    BY <1>2, <1>3

LEMMA LandRenameTypes ==
    ASSUME Typed, LandRename, UNCHANGED chores
    PROVE  Typed'
<1>1. reply \in [kind : {"renamed"}, w : PushItem]
    BY DEF LandRename, Typed, Control, IsReply, NoReply
<1> DEFINE w == reply.w
           next == [cyc EXCEPT !.push = @ \ {w}]
<1>2. w.b \in Box /\ w.db \in Paths /\ w.to \in Paths /\ w.name \in Names /\ w.parent \in Box0
    BY <1>1 DEF PushItem
<1>3. PICK outcome \in Outcomes :
      /\ \/ cache' = [cache EXCEPT ![w.b] = [name |-> w.name, parent |-> w.parent, folder |-> w.to]]
         \/ cache' = cache
      /\ ls' = StatesMoved(w) \/ ls' = ls
      /\ \/ dirs' = Marked(dirs, w.to, [id |-> w.b, name |-> w.name, parent |-> w.parent])
         \/ dirs' = dirs
      /\ Ends("mvremote", outcome, next)
    BY DEF LandRename
<1> HIDE DEF w
<1>4. IsDirs(dirs)'
    <2>1. [id |-> w.b, name |-> w.name, parent |-> w.parent] \in Mark
        BY <1>2 DEF Mark
    <2>2. IsDirs(dirs) /\ IsDirs(Marked(dirs, w.to, [id |-> w.b, name |-> w.name, parent |-> w.parent]))
        BY <1>2, <2>1, CycleFacts, DirsMarked DEF Stores
    <2> QED
        BY <1>3, <2>2 DEF IsDirs
<1>5. IsCache(cache)'
    <2>1. [name |-> w.name, parent |-> w.parent, folder |-> w.to] \in Binding
        BY <1>2 DEF Binding
    <2> QED
        BY <1>3, <2>1, CycleFacts DEF Stores, IsCache
<1>6. ls' \in [File -> Paths \cup {Nowhere}]
    BY <1>2, <1>3, CycleFacts DEF Stores, StatesMoved
<1>7. cyc' = next => IsCycle(cyc') /\ cyc'.folder = cyc.folder
    BY RenameOver
<1> HIDE DEF next
<1>8. Control' /\ later' \subseteq Email /\ mine' \subseteq Email
    BY <1>3, <1>7, EndsTypes, ExecutingPhases
<1>9. Stores'
    BY <1>4, <1>5, <1>6, <1>8 DEF Typed, Stores, LandRename, serverVars, cursorVars, IsTree
<1> QED
    BY <1>8, <1>9 DEF Typed

LEMMA PendingUploadTypes ==
    ASSUME Typed, NEW u \in PendingUploads
    PROVE  u.f \in File /\ u.at \in Paths /\ u.box \in Box
<1>1. ASSUME NEW x \in plan.up, x.box \in Live
      PROVE  x.f \in File /\ cyc.folder[x.box] \in Paths /\ x.box \in Box
    BY <1>1, CycleFacts DEF IsPlan, NewMessage
<1>2. ASSUME NEW x \in cyc.reup, x.folder \in DOMAIN cyc.refs
      PROVE  x.f \in File /\ x.folder \in Paths /\ cyc.refs[x.folder] \in Box
    BY <1>2, CycleFacts DEF IsCycle
<1> QED
    BY <1>1, <1>2 DEF PendingUploads

LEMMA ImportTypes ==
    ASSUME Typed, NEW u, Import(u)
    PROVE  /\ emails' \in [Email -> Mailed]
           /\ UploadRows(u) \in Rows
           /\ u.at \in Paths /\ nextEmail \in Email
<1>1. u.f \in File /\ u.at \in Paths /\ u.box \in Box /\ nextEmail \in Email
    BY PendingUploadTypes DEF Import, Uploadable
<1>2. disk[u.f].mid \in Mid
    BY <1>1, CycleFacts DEF Stores, Places
<1>3. [box |-> u.box, mid |-> disk[u.f].mid] \in Mailed
    BY <1>1, <1>2 DEF Mailed, Box0
<1>4. emails' \in [Email -> Mailed]
    BY <1>3, CycleFacts, EmailsPut DEF Import
<1>5. [box |-> u.box, mid |-> disk[u.f].mid, file |-> u.f, flags |-> {}, blob |-> FALSE] \in Row
    BY <1>1, <1>2 DEF Row
<1>6. UploadRows(u) \in Rows
    BY <1>5, CycleFacts DEF UploadRows, Stores, Rows
<1> QED
    BY <1>1, <1>4, <1>6

LEMMA OwnTypes ==
    ASSUME Stores, NEW es \in SUBSET Email, Own(es)
    PROVE  unseen' \subseteq Email /\ mine' \subseteq Email
BY DEF Own, Stores

LEMMA UploadOneTypes ==
    ASSUME Typed, NEW u, UploadOne(u), UNCHANGED chores
    PROVE  Typed'
<1>1. emails' \in [Email -> Mailed] /\ rows' \in Rows /\ u.at \in Paths /\ nextEmail \in Email
    BY ImportTypes DEF UploadOne
<1>2. unseen' \subseteq Email /\ mine' \subseteq Email
    BY <1>1, CycleFacts, OwnTypes DEF UploadOne
<1>3. ls' \in [File -> Paths \cup {Nowhere}]
    BY <1>1, CycleFacts DEF UploadOne, Stores
<1>4. Stores'
    BY <1>1, <1>2, <1>3 DEF Typed, Stores, UploadOne, diskVars, ghostVars, IsTree, IsDirs, IsCache
<1>5. /\ plan' = [plan EXCEPT !.up = {x \in @ : x.f # u.f}]
      /\ cyc' = [cyc EXCEPT !.reup = {x \in @ : x.f # u.f}]
      /\ Continue("upload") /\ UNCHANGED reply /\ reply = NoReply
    BY NoReplyYet DEF UploadOne, Import
<1>6. IsCycle(cyc') /\ cyc'.folder = cyc.folder
    <2>1. /\ DOMAIN cyc' = DOMAIN None /\ cyc'.reup \subseteq cyc.reup
          /\ cyc'.in = cyc.in /\ cyc'.folder = cyc.folder /\ cyc'.obs = cyc.obs
          /\ cyc'.orphans = cyc.orphans /\ cyc'.rorph = cyc.rorph /\ cyc'.strays = cyc.strays
          /\ cyc'.mk = cyc.mk /\ cyc'.replaced = cyc.replaced /\ cyc'.rmdir = cyc.rmdir
          /\ cyc'.push = cyc.push /\ cyc'.create = cyc.create /\ cyc'.pend = cyc.pend
          /\ cyc'.mv = cyc.mv /\ cyc'.moved = cyc.moved /\ cyc'.kill = cyc.kill
          /\ cyc'.refs = cyc.refs
        BY <1>5, CycleFacts DEF IsCycle, None
    <2> QED
        BY <2>1, CycleFacts DEF IsCycle
<1>7. pc' \in Executing
    BY <1>5, Continues, ExecutingPhases
<1>8. Control'
    BY <1>5, <1>6, <1>7, NoReplyTyped, Proceeds, CycleFacts DEF IsPlan, EmptyPlan
<1> QED
    BY <1>4, <1>8 DEF Typed

LEMMA UploadRefusedTypes ==
    ASSUME Typed, NEW u, UploadRefused(u), UNCHANGED chores
    PROVE  Typed'
<1>1. emails' \in [Email -> Mailed] /\ nextEmail \in Email
    BY ImportTypes DEF UploadRefused
<1>2. Stores'
    BY <1>1 DEF Typed, Stores, UploadRefused, Idle, diskVars, ghostVars, IsTree, IsDirs, IsCache
<1> QED
    BY <1>2, Died DEF UploadRefused, Typed

LEMMA UploadsOverTypes ==
    ASSUME Typed, UploadsOver, UNCHANGED chores
    PROVE  Typed'
<1>1. Stores'
    BY DEF Typed, Stores, UploadsOver, serverVars, dbVars, cursorVars, sinceVars, diskVars, ghostVars,
       IsTree, IsDirs, IsCache
<1>2. /\ plan' = [plan EXCEPT !.up = {}] /\ cyc' = [cyc EXCEPT !.reup = {}]
      /\ Continue("upload") /\ UNCHANGED reply /\ reply = NoReply
    BY NoReplyYet DEF UploadsOver
<1>3. IsCycle(cyc') /\ cyc'.folder = cyc.folder
    <2>1. /\ DOMAIN cyc' = DOMAIN None /\ cyc'.reup = {}
          /\ cyc'.in = cyc.in /\ cyc'.folder = cyc.folder /\ cyc'.obs = cyc.obs
          /\ cyc'.orphans = cyc.orphans /\ cyc'.rorph = cyc.rorph /\ cyc'.strays = cyc.strays
          /\ cyc'.mk = cyc.mk /\ cyc'.replaced = cyc.replaced /\ cyc'.rmdir = cyc.rmdir
          /\ cyc'.push = cyc.push /\ cyc'.create = cyc.create /\ cyc'.pend = cyc.pend
          /\ cyc'.mv = cyc.mv /\ cyc'.moved = cyc.moved /\ cyc'.kill = cyc.kill
          /\ cyc'.refs = cyc.refs
        BY <1>2, CycleFacts DEF IsCycle, None
    <2> QED
        BY <2>1, CycleFacts DEF IsCycle
<1>4. pc' \in Executing
    BY <1>2, Continues, ExecutingPhases
<1>5. Control'
    BY <1>2, <1>3, <1>4, NoReplyTyped, Proceeds, CycleFacts DEF IsPlan, EmptyPlan
<1> QED
    BY <1>1, <1>5 DEF Typed

LEMMA RemoteSetTypes ==
    ASSUME Typed, RemoteSet, UNCHANGED chores
    PROVE  Typed'
<1> DEFINE moved == {m \in plan.rmove : Alive(m.e) /\ m.to \in DOMAIN tree /\ m.e \notin plan.rdel}
           destroyed == {e \in plan.rdel : Alive(e)}
<1>1. /\ emails' = [e \in Email |->
                IF e \in destroyed THEN NoMail
                ELSE IF \E m \in moved : m.e = e
                     THEN [emails[e] EXCEPT !.box = (CHOOSE m \in moved : m.e = e).to]
                ELSE emails[e]]
      /\ Own(destroyed \cup {m.e : m \in moved})
      /\ rows' = [e \in Email |-> IF e \in destroyed THEN NoRow ELSE rows[e]]
      /\ ls' = [x \in File |-> IF \E e \in destroyed : rows[e].file = x THEN Nowhere ELSE ls[x]]
    BY DEF RemoteSet
<1>2. destroyed \subseteq Email /\ \A m \in moved : m.e \in Email /\ m.to \in Box
    BY CycleFacts DEF IsPlan, MoveRemote
<1> HIDE DEF moved, destroyed
<1>3. emails' \in [Email -> Mailed]
    <2>1. ASSUME NEW e \in Email, \E m \in moved : m.e = e
          PROVE  [emails[e] EXCEPT !.box = (CHOOSE m \in moved : m.e = e).to] \in Mailed
        <3>1. (CHOOSE m \in moved : m.e = e) \in moved
            BY <2>1
        <3>2. (CHOOSE m \in moved : m.e = e).to \in Box
            BY <1>2, <3>1
        <3> QED
            BY <3>2, CycleFacts DEF Stores, Mailed, Box0
    <2> QED
        BY <1>1, <2>1, NoMailMailed, CycleFacts DEF Stores
<1>4. unseen' \subseteq Email /\ mine' \subseteq Email
    <2>1. destroyed \cup {m.e : m \in moved} \in SUBSET Email
        BY <1>2
    <2> QED
        BY <1>1, <2>1, OwnTypes, CycleFacts
<1>5. rows' \in Rows /\ ls' \in [File -> Paths \cup {Nowhere}]
    BY <1>1, NoRowRow, CycleFacts DEF Stores, Rows
<1>6. Stores'
    BY <1>3, <1>4, <1>5 DEF Typed, Stores, RemoteSet, diskVars, ghostVars, IsTree, IsDirs, IsCache
<1>7. /\ pc' \in Executing /\ UNCHANGED <<cyc, reply>> /\ reply = NoReply
      /\ plan' = [plan EXCEPT !.rmove = {}, !.rdel = {}]
    BY Continues, ExecutingPhases, NoReplyYet DEF RemoteSet
<1>8. Control'
    BY <1>7, CycleKeeps, CycleFacts DEF IsPlan, EmptyPlan
<1> QED
    BY <1>6, <1>8 DEF Typed

\* A mailbox that is off the list, destroyed or not.
LEMMA DestroyOver ==
    ASSUME Typed, NEW b, cyc' = [cyc EXCEPT !.kill = @ \ {b}]
    PROVE  IsCycle(cyc') /\ cyc'.folder = cyc.folder
<1>1. /\ DOMAIN cyc' = DOMAIN None /\ cyc'.kill \subseteq cyc.kill
      /\ cyc'.in = cyc.in /\ cyc'.folder = cyc.folder /\ cyc'.obs = cyc.obs
      /\ cyc'.orphans = cyc.orphans /\ cyc'.rorph = cyc.rorph /\ cyc'.strays = cyc.strays
      /\ cyc'.mk = cyc.mk /\ cyc'.replaced = cyc.replaced /\ cyc'.rmdir = cyc.rmdir
      /\ cyc'.reup = cyc.reup /\ cyc'.create = cyc.create /\ cyc'.pend = cyc.pend
      /\ cyc'.mv = cyc.mv /\ cyc'.moved = cyc.moved /\ cyc'.push = cyc.push /\ cyc'.refs = cyc.refs
    BY CycleFacts DEF IsCycle, None
<1> QED
    BY <1>1, CycleFacts DEF IsCycle

LEMMA DestroyMailboxTypes ==
    ASSUME Typed, NEW b \in cyc.kill, DestroyMailbox(b), UNCHANGED chores
    PROVE  Typed'
<1>1. b \in Box
    BY CycleFacts DEF IsCycle, Live
<1>2. CASE b \in DOMAIN tree /\ Children(tree, b) = {}
    <2>1. /\ tree' = Restrict(tree, DOMAIN tree \ {b})
          /\ emails' = [e \in Email |-> IF e \in MailIn(b) THEN NoMail ELSE emails[e]]
          /\ Foreign(MailIn(b))
        BY <1>2 DEF DestroyMailbox
    <2>2. IsTree(tree') /\ emails' \in [Email -> Mailed]
        BY <2>1, TreeShrinks, EmailsGone, CycleFacts DEF Stores
    <2>3. unseen' \subseteq Email /\ later' \subseteq Email
        <3>1. MailIn(b) \in SUBSET Email
            BY DEF MailIn
        <3> QED
            BY <2>1, <3>1, ForeignTypes, CycleFacts
    <2>4. Stores'
        BY <2>2, <2>3 DEF Typed, Stores, DestroyMailbox, diskVars, IsTree, IsDirs, IsCache
    <2>5. /\ UNCHANGED <<cyc, plan, pc>> /\ pc = "killremote" /\ reply' = [kind |-> "destroyed", b |-> b]
        BY <1>2 DEF DestroyMailbox
    <2>6. IsReply'
        BY <1>1, <2>5 DEF IsReply
    <2>7. IsCycle(cyc') /\ cyc'.folder = cyc.folder /\ DOMAIN plan' = DOMAIN EmptyPlan
        BY <2>5, CycleFacts DEF IsCycle, IsPlan
    <2>8. Control'
        BY <2>5, <2>6, <2>7, Proceeds, ExecutingPhases
    <2> QED
        BY <2>4, <2>8 DEF Typed
<1>3. CASE ~(b \in DOMAIN tree /\ Children(tree, b) = {})
    <2>1. Stores'
        BY <1>3 DEF Typed, Stores, DestroyMailbox, diskVars, IsTree, IsDirs, IsCache
    <2>2. /\ cyc' = [cyc EXCEPT !.kill = @ \ {b}] /\ Continue("killremote")
          /\ UNCHANGED <<plan, reply>> /\ reply = NoReply
        BY <1>3 DEF DestroyMailbox
    <2>3. IsCycle(cyc') /\ cyc'.folder = cyc.folder /\ pc' \in Executing
        BY <2>2, DestroyOver, Continues, ExecutingPhases
    <2>4. Control'
        BY <2>2, <2>3, NoReplyTyped, Proceeds, CycleFacts DEF IsPlan
    <2> QED
        BY <2>1, <2>4 DEF Typed
<1> QED
    BY <1>2, <1>3

LEMMA LandDestroyTypes ==
    ASSUME Typed, LandDestroy, UNCHANGED chores
    PROVE  Typed'
<1>1. IsCache(cache)'
    BY CacheShrinks, CycleFacts DEF LandDestroy, Stores, IsCache
<1>2. Stores'
    BY <1>1 DEF Typed, Stores, LandDestroy, serverVars, diskVars, cursorVars, sinceVars, ghostVars,
       IsTree, IsDirs
<1>3. /\ cyc' = [cyc EXCEPT !.kill = @ \ {reply.b}] /\ Continue("killremote")
      /\ UNCHANGED plan /\ reply' = NoReply
    BY DEF LandDestroy
<1>4. IsCycle(cyc') /\ cyc'.folder = cyc.folder /\ pc' \in Executing
    BY <1>3, DestroyOver, Continues, ExecutingPhases
<1>5. Control'
    BY <1>3, <1>4, NoReplyTyped, Proceeds, CycleFacts DEF IsPlan
<1> QED
    BY <1>2, <1>5 DEF Typed

LEMMA AdoptPairsTypes ==
    ASSUME Typed, AdoptPairs, UNCHANGED chores
    PROVE  Typed'
<1>1. LandedPairs \in SUBSET AdoptAction /\ \A a \in LandedPairs : a.box \in Live
    BY CycleFacts DEF IsPlan, LandedPairs
<1>2. rows' \in Rows
    BY <1>1, CycleFacts, AdoptedTypes DEF AdoptPairs, Stores
<1>3. ls' \in [File -> Paths \cup {Nowhere}]
    BY <1>1, AdoptedStateTypes DEF AdoptPairs
<1>4. Stores'
    BY <1>2, <1>3 DEF Typed, Stores, AdoptPairs, serverVars, diskVars, cursorVars, sinceVars,
       ghostVars, IsTree, IsDirs, IsCache
<1>5. /\ pc' \in Executing /\ UNCHANGED <<cyc, reply>> /\ reply = NoReply
      /\ plan' = [plan EXCEPT !.pair = {}]
    BY ExecutingPhases, NoReplyYet DEF AdoptPairs
<1>6. Control'
    BY <1>5, CycleKeeps, CycleFacts DEF IsPlan, EmptyPlan
<1> QED
    BY <1>4, <1>6 DEF Typed

LEMMA AdvanceEmailCursorTypes ==
    ASSUME Typed, AdvanceEmailCursor, UNCHANGED chores
    PROVE  Typed'
<1>1. unseen' \subseteq Email
    BY CycleFacts DEF AdvanceEmailCursor, Stores
<1>2. Stores'
    BY <1>1 DEF Typed, Stores, AdvanceEmailCursor, serverVars, diskVars, sinceVars, ghostVars, IsTree,
       IsDirs, IsCache
<1>3. pc' = "pending" /\ UNCHANGED <<cyc, plan, reply>> /\ reply = NoReply
    BY NoReplyYet DEF AdvanceEmailCursor
<1>4. DOMAIN plan' = DOMAIN EmptyPlan
    BY <1>3, CycleFacts DEF IsPlan
<1>5. Control'
    BY <1>3, <1>4, CycleKeeps
<1> QED
    BY <1>2, <1>5 DEF Typed

LEMMA ApplyPendingTypes ==
    ASSUME Typed, ApplyPending, UNCHANGED chores
    PROVE  Typed'
<1> DEFINE S == {x \in cyc.pend : Landed(x)}
<1>1. S \in SUBSET Box /\ \A b \in S : Record(cyc.in, b) \in Binding
    <2>1. cyc.pend \subseteq Live
        BY CycleFacts DEF IsCycle, Live
    <2> QED
        BY <2>1, CycleFacts, RecordTypes
<1>2. IsCache(Over([b \in S |-> Record(cyc.in, b)], cache))
    <2> HIDE DEF S
    <2> QED
        BY <1>1, CycleFacts DEF Stores, IsCache, Over
<1>3. IsCache(cache)'
    BY <1>2 DEF ApplyPending, IsCache
<1>4. Stores'
    BY <1>3 DEF Typed, Stores, ApplyPending, Idle, serverVars, diskVars, ghostVars, IsTree, IsDirs
<1> QED
    BY <1>4, Died DEF ApplyPending, Typed

LEMMA CycleTypes ==
    ASSUME Typed, CycleStep, UNCHANGED chores
    PROVE  Typed'
BY ResolveTypes, ScanTypes, FetchTypes, ApplyUnconditionalTypes, CreateLocalTypes, FollowRenameTypes,
   RenameLocalTypes, RenameRefusedTypes, AdoptMessagesTypes, RefusedTypes, DownloadMessagesTypes,
   DownloadFailsTypes, MoveLocalsTypes, DeleteLocalsTypes, DeleteLocalFolderTypes, CreateRemoteStep, SkipCreateTypes,
   LandCreateTypes, RenameRemoteTypes, LandRenameTypes, UploadOneTypes, UploadRefusedTypes,
   UploadsOverTypes, RemoteSetTypes, DestroyMailboxTypes, LandDestroyTypes, AdoptPairsTypes,
   AdvanceEmailCursorTypes, ApplyPendingTypes DEF CycleStep

-----------------------------------------------------------------------------
(* The start, and the invariant.                                           *)

LEMMA SequenceFacts ==
    ASSUME NEW T, NEW q \in Seq(T)
    PROVE  Len(q) \in Nat /\ DOMAIN q = 1 .. Len(q) /\ \A i \in DOMAIN q : q[i] \in T
OBVIOUS

LEMMA InitTypes ==
    ASSUME JInit
    PROVE  Typed
<1> DEFINE s == setup
           bound == SelectedIn(s.tree)
           at(f) == CHOOSE b \in bound : Path(s.tree, b) = f
           synced == {e \in DOMAIN s.mail : s.mail[e].box \in bound}
<1>1. /\ s \in Setups /\ s.tree \in Trees
      /\ Len(s.mail) \in Nat /\ Len(s.mail) <= MaxFile /\ Len(s.mail) <= MaxEmail
      /\ DOMAIN s.mail = 1 .. Len(s.mail)
      /\ \A e \in DOMAIN s.mail : s.mail[e] \in [box : DOMAIN s.tree, mid : Mid]
    <2>1. s \in Setups
        BY DEF JInit, Init
    <2>2. /\ s.tree \in Trees /\ s.mail \in Seq([box : DOMAIN s.tree, mid : Mid])
          /\ Len(s.mail) <= MaxFile /\ Len(s.mail) <= MaxEmail
        BY <2>1, SetupsAssumption
    <2> QED
        BY <2>1, <2>2, SequenceFacts
<1>2. IsTree(s.tree)
    BY <1>1 DEF Trees, IsTree, Place, Box0
<1>3. bound \subseteq DOMAIN s.tree /\ \A b \in bound : Path(s.tree, b) \in Paths /\ b \in Box
                                                       /\ s.tree[b] \in Place
    BY <1>2, PathType DEF SelectedIn, IsTree
<1>4. IsDirs(dirs)
    <2> DEFINE mark(f) == [id |-> at(f), name |-> s.tree[at(f)].name, parent |-> s.tree[at(f)].parent]
    <2>1. dirs = [f \in {Path(s.tree, b) : b \in bound} |-> mark(f)]
        BY DEF JInit, Init
    <2>2. ASSUME NEW f \in {Path(s.tree, b) : b \in bound} PROVE mark(f) \in Mark
        <3>1. at(f) \in bound
            <4> HIDE DEF bound
            <4> QED
                BY <2>2
        <3> HIDE DEF at, bound
        <3> QED
            BY <1>3, <3>1 DEF Place, Mark
    <2> HIDE DEF mark, bound
    <2> QED
        BY <1>3, <2>1, <2>2 DEF IsDirs
<1>5. IsCache(cache)
    <2>1. cache = [b \in bound |-> [name |-> s.tree[b].name, parent |-> s.tree[b].parent,
                                    folder |-> Path(s.tree, b)]]
        BY DEF JInit, Init
    <2> HIDE DEF bound
    <2> QED
        BY <1>3, <2>1 DEF IsCache, Binding, Place
<1>6. \A e \in DOMAIN s.mail : /\ e \in Email /\ e \in File
                               /\ s.mail[e].box \in DOMAIN s.tree /\ s.mail[e].mid \in Mid
    BY <1>1, BoundAssumption DEF Email, File
<1>7. emails \in [Email -> Mailed]
    <2>1. emails = [e \in Email |-> IF e \in DOMAIN s.mail THEN s.mail[e] ELSE NoMail]
        BY DEF JInit, Init
    <2>2. \A e \in DOMAIN s.mail : s.mail[e] \in Mailed
        BY <1>1, <1>2 DEF IsTree, Mailed, Box0
    <2> QED
        BY <2>1, <2>2, NoMailMailed
<1>8. \A e \in synced : s.mail[e].box \in bound /\ s.mail[e].mid \in Mid /\ e \in File
    BY <1>6
<1>9. disk \in [File -> Places] /\ ls \in [File -> Paths \cup {Nowhere}]
    <2>1. disk = [x \in File |-> IF x \in synced
                        THEN [at |-> Path(s.tree, s.mail[x].box), mid |-> s.mail[x].mid]
                        ELSE NoFileHere]
          /\ ls = [x \in File |-> disk[x].at]
        BY DEF JInit, Init
    <2> HIDE DEF bound, synced
    <2>2. \A x \in File : disk[x] \in Places /\ disk[x].at \in Paths \cup {Nowhere}
        BY <1>3, <1>8, <2>1, NoFileHerePlaced DEF Places, NoFileHere
    <2> QED
        BY <2>1, <2>2
<1>10. rows \in Rows
    <2>1. rows = [e \in Email |-> IF e \in synced
                        THEN [box |-> s.mail[e].box, mid |-> s.mail[e].mid, file |-> e,
                              flags |-> {}, blob |-> TRUE]
                        ELSE NoRow]
        BY DEF JInit, Init
    <2> HIDE DEF bound, synced
    <2> QED
        BY <1>3, <1>8, <2>1, NoRowRow DEF Rows, Row
<1>11. Stores
    BY <1>1, <1>2, <1>4, <1>5, <1>7, <1>9, <1>10 DEF JInit, Init, Stores
<1>12. Control
    <2>1. IsCycle(cyc)
        BY NoneCycle DEF JInit, Init
    <2>2. IsPlan(plan)
        BY FS_EmptySet DEF JInit, Init, IsPlan, EmptyPlan
    <2>3. IsReply /\ IsChores
        BY DEF JInit, Init, IsReply, IsChores, NoChores
    <2>4. Phased
        BY DEF JInit, Init, Phased, Cycling
    <2> QED
        BY <2>1, <2>2, <2>3, <2>4 DEF Control
<1> QED
    BY <1>11, <1>12 DEF Typed

LEMMA StutterTypes ==
    ASSUME Typed, UNCHANGED jvars
    PROVE  Typed'
<1>1. Stores'
    BY DEF Typed, Stores, jvars, fvars, serverVars, diskVars, dbVars, cursorVars, cycleVars, sinceVars,
       ghostVars, IsTree, IsDirs, IsCache
<1>2. UNCHANGED <<pc, cyc, plan, reply, chores, setup>>
    BY DEF jvars, fvars, cycleVars, ghostVars
<1> QED
    BY <1>1, <1>2, ControlStays DEF Typed

\* Whatever the user, other clients and the commands do meanwhile, every step
\* keeps the types.
LEMMA TypedInvariant == JSpec => []Typed
<1>1. JInit => Typed
    BY InitTypes
<1>2. Typed /\ [JNext]_jvars => Typed'
    <2> SUFFICES ASSUME Typed, [JNext]_jvars PROVE Typed'
        OBVIOUS
    <2> QED
        BY UserTypes, ServerTypes, CycleTypes, CrashTypes, JanitorTypes, StutterTypes DEF JNext
<1> QED
    BY <1>1, <1>2, PTL DEF JSpec

\* Every step of a cycle, of a command and of those around them handles ids,
\* folders and rows the account can have; a cycle destroys only mailboxes it
\* looked at.
THEOREM FoldersTypeCorrect == JSpec => []FTypeOK
<1>1. Typed => FTypeOK
    BY DEF Typed, Stores, Control, IsCycle, IsInput, IsTree, IsDirs, IsCache, Mailed, Places, Box0,
       Phased, Executing, Live, FTypeOK
<1> QED
    BY <1>1, TypedInvariant, PTL

-----------------------------------------------------------------------------
(* fetch_or_reuse_mailboxes: what mailbox_map has, when it stands in for   *)
(* the listing.  The mapping and the server change at different times, so  *)
(* the invariant follows a cycle from the listing it took to the cursor it *)
(* writes: every mailbox of the listing is one whose row is as the server  *)
(* had it, or is still to be written, or is still to be renamed there.     *)

Mirrors(t) == \A b \in DOMAIN tree : b \in DOMAIN t /\ t[b] = tree[b]
AsLooked(b) == b \in DOMAIN cache /\ Synthesized(cache)[b] = cyc.in.server[b]
Looking == pc \in {"scan", "fetch", "writes"}
RenamesDone == {"upload", "set", "killremote", "pair", "cursor", "pending"}

\* A cursor that is not behind mirrors the server, but for rows that a prune
\* has dropped and will take the cursor with.
FreshMirrors ==
    mcur = "fresh" /\ (pc = "prune" => ~chores.dropped) => Mirrors(Synthesized(cache))
FreshQuiet == Cycling /\ mcur = "fresh" => ~mlater
AnsweredStructural == reply # NoReply => mcur # "fresh" /\ mlater
LookedMirrors == Cycling /\ ~mlater => Mirrors(cyc.in.server)
LookedAtCache ==
    Looking => /\ cache = cyc.in.cached
               /\ mcur = "fresh" => cyc.in.server = Synthesized(cyc.in.cached)
               /\ cyc.push = PushRenames(cyc.in, Live)
LookedAtAll == Cycling => Live = DOMAIN cyc.in.server /\ cyc.pend = PendingWrites(cyc.in, Live)
Accounted ==
    Cycling /\ ~Looking /\ ~mlater =>
        \A b \in Live : b \in cyc.pend \/ AsLooked(b) \/ \E w \in cyc.push : w.b = b
RenamesOver == pc \in RenamesDone => cyc.push = {}
Reusable ==
    /\ FreshMirrors /\ FreshQuiet /\ AnsweredStructural /\ LookedMirrors /\ LookedAtCache
    /\ LookedAtAll /\ Accounted /\ RenamesOver

\* The server refuses a rename only where the structure has changed since the
\* cycle looked, or for a mailbox whose row is as the cycle found the mailbox.
RefusalsHarmless ==
    \A w \in cyc.push : RenameRemote(w) => RenameAcceptable(w) \/ mlater \/ AsLooked(w.b)

LEMMA ReusableStays ==
    ASSUME Reusable, UNCHANGED <<tree, cache, mcur, mlater, pc, cyc, reply, chores>>
    PROVE  Reusable'
BY DEF Reusable, FreshMirrors, FreshQuiet, AnsweredStructural, LookedMirrors, LookedAtCache,
       LookedAtAll, Accounted, RenamesOver, Mirrors, AsLooked, Looking, Cycling, Live

\* A change of the tree is noticed by the cursor and by the cycle at work.
LEMMA ReusableStructural ==
    ASSUME Typed, Reusable, Structural, UNCHANGED <<cache, pc, cyc, chores>>,
           reply' # NoReply => Cycling
    PROVE  Reusable'
<1>1. mcur' # "fresh" /\ mlater' = Cycling /\ Cycling' = Cycling
    BY DEF Structural, Cycling
<1>2. Looking' = Looking /\ (Looking => Cycling)
    BY DEF Looking, Cycling
<1> QED
    BY <1>1, <1>2 DEF Reusable, FreshMirrors, FreshQuiet, AnsweredStructural, LookedMirrors,
       LookedAtCache, LookedAtAll, Accounted, RenamesOver, Live

LEMMA ReusableIdle ==
    ASSUME Reusable, Idle, FreshMirrors'
    PROVE  Reusable'
BY DEF Idle, Reusable, FreshQuiet, AnsweredStructural, LookedMirrors, LookedAtCache, LookedAtAll,
       Accounted, RenamesOver, Looking, Cycling, RenamesDone, NoReply

LEMMA MirrorsStay ==
    ASSUME FreshMirrors, UNCHANGED <<tree, cache, mcur>>, pc # "prune"
    PROVE  FreshMirrors'
BY DEF FreshMirrors, Mirrors

\* The executor passes the renames only when there are none left.
LEMMA RenamesPassed ==
    ASSUME NEW phase \in Executing, Continue(phase), phase \in RenamesDone => cyc'.push = {}
    PROVE  RenamesOver'
<1>1. PICK i \in 1 .. 14 : phase = Phases[i]
    BY PhasesLength DEF Executing, Range
<1>2. Stay(phase) \in 1 .. 14 /\ Phases[Stay(phase)] = phase
    BY <1>1, StayThere
<1>3. PICK j \in 1 .. 14 :
          /\ Stay(phase) <= j /\ pc' = Phases[j]
          /\ \A k \in 1 .. 14 : Stay(phase) <= k /\ HasWork(Phases[k], cyc', plan') => j <= k
    BY <1>2, PhaseFromFirst DEF Continue
<1>4. Phases[9] = "mvremote" /\ (HasWork("mvremote", cyc', plan') <=> cyc'.push # {})
    BY DEF Phases, HasWork
<1>5. \A k \in 1 .. 9 : Phases[k] \notin RenamesDone
    BY DEF Phases, RenamesDone
<1>6. \A k \in 10 .. 14 : Phases[k] \in RenamesDone
    BY DEF Phases, RenamesDone
<1>7. CASE cyc'.push # {} /\ Stay(phase) <= 9
    BY <1>2, <1>3, <1>4, <1>5, <1>7 DEF RenamesOver
<1>8. CASE cyc'.push # {} /\ Stay(phase) > 9
    BY <1>2, <1>6, <1>8
<1>9. CASE cyc'.push = {}
    BY <1>9 DEF RenamesOver
<1> QED
    BY <1>2, <1>7, <1>8, <1>9

\* A phase that changes neither tree nor mapping.
LEMMA ReusablePhase ==
    ASSUME Typed, Reusable, pc \in Executing, pc' \in Executing \cup {"pending"},
           UNCHANGED <<tree, cache, mcur, mlater>>, reply' = NoReply,
           cyc'.in = cyc.in, cyc'.folder = cyc.folder, cyc'.pend = cyc.pend, cyc'.push = cyc.push,
           RenamesOver'
    PROVE  Reusable'
<1>1. Cycling /\ Cycling' /\ ~Looking /\ ~Looking' /\ pc # "prune" /\ pc' # "prune" /\ Live' = Live
    BY ExecutingPhases DEF Cycling, Looking, Live
<1>2. FreshMirrors' /\ FreshQuiet' /\ AnsweredStructural'
    BY <1>1 DEF Reusable, FreshMirrors, FreshQuiet, AnsweredStructural, Mirrors
<1>3. LookedMirrors' /\ LookedAtCache' /\ LookedAtAll'
    BY <1>1 DEF Reusable, LookedMirrors, LookedAtCache, LookedAtAll, Mirrors
<1>4. Accounted'
    BY <1>1 DEF Reusable, Accounted, AsLooked
<1> QED
    BY <1>2, <1>3, <1>4 DEF Reusable

\* Where the tree has moved on, the mapping may follow as it likes.
LEMMA ReusableMoved ==
    ASSUME Typed, Reusable, pc \in Executing, pc' \in Executing, reply # NoReply,
           UNCHANGED <<mcur, mlater>>, reply' = NoReply,
           cyc'.in = cyc.in, cyc'.folder = cyc.folder, cyc'.pend = cyc.pend,
           RenamesOver'
    PROVE  Reusable'
<1>1. Cycling /\ Cycling' /\ ~Looking' /\ mcur' # "fresh" /\ mlater' /\ Live' = Live
    BY ExecutingPhases DEF Cycling, Looking, Live, Reusable, AnsweredStructural
<1> QED
    BY <1>1 DEF Reusable, FreshMirrors, FreshQuiet, AnsweredStructural, LookedMirrors,
       LookedAtCache, LookedAtAll, Accounted

LEMMA ReusableUser ==
    ASSUME Typed, Reusable, UserStep, UNCHANGED chores
    PROVE  Reusable'
<1>1. CASE LoseDb
    <2>1. mcur' = "none" /\ UNCHANGED <<pc, cyc, reply>> /\ pc = "idle"
        BY <1>1 DEF LoseDb, Unlocked, cycleVars
    <2>2. reply = NoReply
        BY <2>1, NoReplyYet
    <2> QED
        BY <2>1, <2>2 DEF Reusable, FreshMirrors, FreshQuiet, AnsweredStructural, LookedMirrors,
           LookedAtCache, LookedAtAll, Accounted, RenamesOver, Looking, Cycling, RenamesDone
<1>2. ASSUME NEW f, NEW g, Mv(f, g) \/ Mkdir(f) \/ Rm(f) \/ Unmark(f) \/ (\E m \in Mid : Save(f, m))
                           \/ MvMail(f, g)
      PROVE  UNCHANGED <<tree, cache, mcur, mlater, pc, cyc, reply>>
    BY <1>2 DEF Mv, Mkdir, Rm, Unmark, Save, MvMail, serverVars, dbVars, cursorVars, cycleVars, sinceVars
<1> QED
    BY <1>1, <1>2, ReusableStays DEF UserStep

LEMMA ReusableServer ==
    ASSUME Typed, Reusable, ServerStep, UNCHANGED chores
    PROVE  Reusable'
<1> DEFINE Seen == Structural /\ UNCHANGED <<cache, pc, cyc, reply>>
           Unseen == UNCHANGED <<tree, cache, mcur, mlater, pc, cyc, reply>>
<1>1. ASSUME NEW n, NEW p, OtherCreate(n, p) PROVE Seen
    BY <1>1 DEF OtherCreate
<1>2. ASSUME NEW b, NEW n, NEW p, OtherRename(b, n, p) PROVE Seen
    BY <1>2 DEF OtherRename
<1>3. ASSUME NEW b, OtherDestroy(b) PROVE Seen
    BY <1>3 DEF OtherDestroy
<1>4. ASSUME NEW b, NEW m, Deliver(b, m) PROVE Unseen
    BY <1>4 DEF Deliver
<1>5. ASSUME NEW e, OtherCopy(e) \/ OtherExpunge(e) \/ (\E b \in DOMAIN tree : OtherMove(e, b))
      PROVE  Unseen
    BY <1>5 DEF OtherCopy, OtherExpunge, OtherMove
<1>6. Seen \/ Unseen
    <2> HIDE DEF Seen, Unseen
    <2> QED
        BY <1>1, <1>2, <1>3, <1>4, <1>5 DEF ServerStep
<1>7. reply # NoReply => Cycling
    BY DEF Typed, Control, IsReply, Cycling
<1> QED
    BY <1>6, <1>7, ReusableStays, ReusableStructural

LEMMA CommandIdle ==
    ASSUME Typed, pc \in {"rebind", "prune", "dedupe", "idle"}
    PROVE  ~Cycling /\ ~Looking /\ pc \notin RenamesDone /\ reply = NoReply
BY NoReplyYet DEF Cycling, Looking, RenamesDone

LEMMA ReusableCommand ==
    ASSUME Typed, Reusable, pc \in {"rebind", "prune", "dedupe", "idle"},
           pc' \in {"rebind", "prune", "dedupe", "idle"}, reply' = NoReply, FreshMirrors'
    PROVE  Reusable'
BY DEF Reusable, FreshQuiet, AnsweredStructural, LookedMirrors, LookedAtCache, LookedAtAll,
       Accounted, RenamesOver, Looking, Cycling, RenamesDone

LEMMA ReusableBegin ==
    ASSUME Typed, Reusable, NEW command \in {"rebind", "prune", "dedupe"}, NEW todo,
           Begin(command, todo)
    PROVE  Reusable'
<1>1. pc = "idle" /\ pc' = command /\ UNCHANGED <<tree, cache, mcur, reply>> /\ ~chores'.dropped
    BY DEF Begin, Unlocked, serverVars, dbVars, cursorVars
<1>2. reply' = NoReply
    BY <1>1, CommandIdle
<1>3. FreshMirrors'
    BY <1>1 DEF Reusable, FreshMirrors, Mirrors
<1> QED
    BY <1>1, <1>2, <1>3, ReusableCommand

LEMMA ReusablePruneEntry ==
    ASSUME Typed, Reusable, NEW w \in chores.todo, PruneEntry(w)
    PROVE  Reusable'
<1>1. pc = "prune" /\ UNCHANGED <<tree, mcur, pc, reply>>
    BY DEF PruneEntry, serverVars, cursorVars, cycleVars
<1>2. reply' = NoReply
    BY <1>1, CommandIdle
<1>3. ASSUME ~chores'.dropped
      PROVE  ~chores.dropped /\ \A b \in DOMAIN cache : b \in DOMAIN cache' /\ cache'[b] = cache[b]
    <2>1. CASE HoldsMaildirs(w.folder)
        BY <1>3, <2>1 DEF PruneEntry, Typed, Control, IsChores
    <2>2. CASE ~HoldsMaildirs(w.folder)
        <3>0. /\ cache' = Restrict(cache, DOMAIN cache \ {w.b})
              /\ chores' = [todo |-> chores.todo \ {w}, dropped |-> chores.dropped \/ w.b # NoBox]
            BY <2>2 DEF PruneEntry
        <3>1. chores'.dropped = (chores.dropped \/ w.b # NoBox)
            BY <3>0, Zenon
        <3>2. ~chores.dropped /\ w.b = NoBox
            BY <1>3, <3>1, Zenon
        <3>3. \A b \in DOMAIN cache : b # NoBox
            BY NoBoxApart, CycleFacts DEF Stores, IsCache
        <3> QED
            BY <3>0, <3>2, <3>3 DEF Restrict
    <2> QED
        BY <2>1, <2>2
<1>4. FreshMirrors'
    <2> SUFFICES ASSUME mcur = "fresh", ~chores'.dropped, NEW b \in DOMAIN tree
                 PROVE  b \in DOMAIN cache' /\ Synthesized(cache')[b] = tree[b]
        BY <1>1 DEF FreshMirrors, Mirrors, Synthesized
    <2>1. b \in DOMAIN Synthesized(cache) /\ Synthesized(cache)[b] = tree[b]
        BY <1>3 DEF Reusable, FreshMirrors, Mirrors
    <2> QED
        BY <1>3, <2>1 DEF Synthesized
<1> QED
    BY <1>1, <1>2, <1>4, ReusableCommand

LEMMA ReusableJanitor ==
    ASSUME Typed, Reusable, JanitorStep
    PROVE  Reusable'
<1>1. CASE Rebindfolders \/ Prune \/ Remotededupe
    <2>1. PICK command \in {"rebind", "prune", "dedupe"} : \E todo : Begin(command, todo)
        BY <1>1 DEF Rebindfolders, Prune, Remotededupe
    <2> QED
        BY <2>1, ReusableBegin
<1>2. ASSUME NEW c \in chores.todo, WriteSentinel(c) PROVE Reusable'
    <2>1. pc = "rebind" /\ UNCHANGED <<tree, cache, mcur>>
        BY <1>2 DEF WriteSentinel, serverVars, dbVars, cursorVars
    <2>2. CASE Release
        BY <2>1, <2>2, MirrorsStay, ReusableIdle DEF Release, Reusable
    <2>3. CASE ~Release
        <3>1. UNCHANGED cycleVars
            BY <1>2, <2>3 DEF WriteSentinel
        <3>2. pc' = "rebind" /\ reply' = NoReply
            BY <2>1, <3>1, CommandIdle DEF cycleVars
        <3> QED
            BY <2>1, <3>2, MirrorsStay, ReusableCommand DEF Reusable
    <2> QED
        BY <2>2, <2>3
<1>3. CASE PruneDone
    <2>1. FreshMirrors'
        BY <1>3 DEF PruneDone, Release, Idle, Reusable, FreshMirrors, Mirrors, serverVars
    <2> QED
        BY <1>3, <2>1, ReusableIdle DEF PruneDone, Release
<1>4. CASE CommandDies
    <2>1. pc # "prune" /\ Idle /\ UNCHANGED <<tree, cache, mcur>>
        BY <1>4 DEF CommandDies, Release, serverVars, dbVars, cursorVars
    <2> QED
        BY <2>1, MirrorsStay, ReusableIdle DEF Reusable
<1>5. ASSUME NEW chunk, DestroyCopies(chunk) PROVE Reusable'
    <2>1. pc = "dedupe" /\ UNCHANGED <<tree, cache, mcur>>
        BY <1>5 DEF DestroyCopies
    <2>2. CASE Idle
        BY <2>1, <2>2, MirrorsStay, ReusableIdle DEF Reusable
    <2>3. CASE ~Idle
        <3>1. UNCHANGED cycleVars
            BY <1>5, <2>3 DEF DestroyCopies, Release
        <3>2. pc' = "dedupe" /\ reply' = NoReply
            BY <2>1, <3>1, CommandIdle DEF cycleVars
        <3> QED
            BY <2>1, <3>2, MirrorsStay, ReusableCommand DEF Reusable
    <2> QED
        BY <2>2, <2>3
<1>6. ASSUME NEW w \in chores.todo, PruneEntryFails(w) PROVE Reusable'
    <2>1. /\ pc = "prune" /\ UNCHANGED <<tree, cache, mcur, mlater, pc, cyc, reply>>
          /\ chores' = [chores EXCEPT !.todo = @ \ {w}]
        BY <1>6 DEF PruneEntryFails, serverVars, cursorVars, cycleVars, sinceVars
    <2>2. chores'.dropped = chores.dropped
        BY <2>1 DEF Typed, Control, IsChores
    <2>3. FreshMirrors'
        BY <2>1, <2>2 DEF Reusable, FreshMirrors, Mirrors
    <2> QED
        BY <2>1, <2>3, CommandIdle, ReusableCommand
<1> QED
    BY <1>1, <1>2, <1>3, <1>4, <1>5, <1>6, ReusablePruneEntry DEF JanitorStep

\* With every mailbox selected, the listing is what the cycle is about.
LEMMA EverySelected ==
    ASSUME Selection = {}, NEW m
    PROVE  SelectedIn(m) = DOMAIN m
BY DEF SelectedIn

LEMMA ReusableResolve ==
    ASSUME Selection = {}, Typed, Reusable, Resolve
    PROVE  Reusable'
<1>1. PICK sids \in SentinelWalks :
          LET in == [server |-> Listing, cached |-> cache, sids |-> sids, dirs |-> dirs]
              live == SelectedIn(Listing)
          IN cyc' = [None EXCEPT
                !.in = in,
                !.folder = [b \in live |-> WalkFolder(in, b)],
                !.mk = NewMailboxes(in, live),
                !.mv = PullRenames(in, live),
                !.push = PushRenames(in, live),
                !.pend = PendingWrites(in, live),
                !.orphans = {OrphanRecord(d, FilesAt(d.folder)) : d \in LocalOrphans(in)}]
    BY DEF Resolve
<1> DEFINE in == [server |-> Listing, cached |-> cache, sids |-> sids, dirs |-> dirs]
           live == SelectedIn(Listing)
<1>2. /\ cyc'.in = in
      /\ cyc'.folder = [b \in live |-> WalkFolder(in, b)]
      /\ cyc'.push = PushRenames(in, live)
      /\ cyc'.pend = PendingWrites(in, live)
    <2> HIDE DEF in, live
    <2> QED
        BY <1>1 DEF None, in, live
<1>3. in.server = Listing /\ in.cached = cache /\ live = DOMAIN Listing
    BY EverySelected
<1> HIDE DEF in, live
<1>4. Live' = live /\ cyc'.in.server = Listing /\ cyc'.in.cached = cache
    BY <1>2, <1>3 DEF Live
<1>5. /\ pc = "idle" /\ pc' = "scan" /\ mlater' = FALSE /\ UNCHANGED <<tree, cache, mcur, reply>>
      /\ reply = NoReply
    BY CommandIdle DEF Resolve, Unlocked, serverVars, dbVars, cursorVars
<1>6. FreshMirrors'
    BY <1>5, MirrorsStay DEF Reusable
<1>7. Mirrors(Listing)
    BY <1>5 DEF Reusable, FreshMirrors, Listing, Mirrors
<1>8. LookedMirrors'
    BY <1>4, <1>5, <1>7 DEF LookedMirrors, Mirrors
<1>9. LookedAtCache'
    BY <1>2, <1>4, <1>5 DEF LookedAtCache, Listing
<1>10. LookedAtAll'
    BY <1>2, <1>3, <1>4 DEF LookedAtAll
<1>11. FreshQuiet' /\ AnsweredStructural' /\ Accounted' /\ RenamesOver'
    BY <1>5 DEF FreshQuiet, AnsweredStructural, Accounted, RenamesOver, Looking, RenamesDone
<1> QED
    BY <1>6, <1>8, <1>9, <1>10, <1>11 DEF Reusable

LEMMA ReusableLooking ==
    ASSUME Typed, Reusable, Scan \/ Fetch, UNCHANGED chores
    PROVE  Reusable'
<1>1. /\ pc \in {"scan", "fetch"} /\ pc' \in {"fetch", "writes"}
      /\ UNCHANGED <<tree, cache, mcur, mlater, reply>>
    BY DEF Scan, Fetch, serverVars, dbVars, cursorVars, sinceVars
<1>2. SameLook
    <2>1. CASE Scan
        <3>1. PICK obs, rorph, strays :
                  cyc' = [cyc EXCEPT !.obs = obs, !.rorph = rorph, !.strays = strays]
            BY <2>1 DEF Scan
        <3> QED
            BY <3>1, CycleFacts DEF SameLook, IsCycle, None
    <2>2. CASE Fetch
        BY <2>2, FetchTypes
    <2> QED
        BY <2>1, <2>2
<1> QED
    BY <1>1, <1>2 DEF Reusable, FreshMirrors, FreshQuiet, AnsweredStructural, LookedMirrors,
       LookedAtCache, LookedAtAll, Accounted, RenamesOver, Mirrors, Looking, Cycling, RenamesDone, Live,
       SameLook

\* A row that is written has what the listing said.
LEMMA Recorded ==
    ASSUME NEW in, IsInput(in), NEW b \in DOMAIN in.server, NEW c, b \in DOMAIN c,
           c[b] = Record(in, b)
    PROVE  Synthesized(c)[b] = in.server[b]
<1>1. in.server[b] \in Place
    BY DEF IsInput, IsTree
<1>2. in.server[b] = [name |-> in.server[b].name, parent |-> in.server[b].parent]
    BY <1>1 DEF Place
<1> QED
    BY <1>2 DEF Synthesized, Record

LEMMA ReusableUnconditional ==
    ASSUME Typed, Reusable, ApplyUnconditional
    PROVE  Reusable'
<1> DEFINE in == cyc.in
           written == MetadataWrites(in, Live)
           kept == Restrict(cache, DOMAIN cache \ CacheOrphans(in))
<1>1. /\ pc = "writes" /\ pc' = PhaseFrom(1, cyc, plan) /\ cache' = Over([b \in written |-> Record(in, b)], kept)
      /\ UNCHANGED <<tree, mcur, mlater, cyc, plan, reply>>
    BY DEF ApplyUnconditional, serverVars, cursorVars, sinceVars
<1>2. PICK j \in 1 .. 14 :
          /\ pc' = Phases[j]
          /\ \A k \in 1 .. 14 : HasWork(Phases[k], cyc, plan) => j <= k
    BY <1>1, PhaseFromFirst
<1>3. pc' \in Executing
    BY <1>2, PhasesLength DEF Executing, Range
<1>4. Cycling /\ Looking /\ Cycling' /\ ~Looking' /\ pc' # "prune" /\ reply = NoReply /\ Live' = Live
    BY <1>1, <1>3, ExecutingPhases, NoReplyYet DEF Cycling, Looking, Live
<1>5. /\ cache = in.cached /\ Live = DOMAIN in.server
      /\ mcur = "fresh" => in.server = Synthesized(in.cached)
      /\ cyc.push = PushRenames(in, Live) /\ cyc.pend = PendingWrites(in, Live)
    BY <1>4 DEF Reusable, LookedAtCache, LookedAtAll
<1>6. ASSUME NEW b \in written
      PROVE  b \in DOMAIN cache' /\ Synthesized(cache')[b] = in.server[b]
    <2>1. b \in DOMAIN cache' /\ cache'[b] = Record(in, b)
        <3> HIDE DEF written, kept
        <3> QED
            BY <1>1, <1>6 DEF Over
    <2>2. b \in DOMAIN in.server /\ IsInput(in)
        BY <1>6, CycleFacts DEF MetadataWrites
    <2> HIDE DEF in
    <2> QED
        BY <2>1, <2>2, Recorded
<1>7. ASSUME NEW b \in DOMAIN cache, b \in DOMAIN in.server, b \notin written
      PROVE  b \in DOMAIN cache' /\ cache'[b] = cache[b]
    <2>1. b \in DOMAIN kept /\ kept[b] = cache[b]
        BY <1>7 DEF Restrict, CacheOrphans
    <2> HIDE DEF written, kept
    <2> QED
        BY <1>1, <1>7, <2>1 DEF Over
<1> HIDE DEF written, kept
<1>8. FreshMirrors'
    <2> SUFFICES ASSUME mcur = "fresh", NEW b \in DOMAIN tree
                 PROVE  b \in DOMAIN cache' /\ Synthesized(cache')[b] = tree[b]
        BY <1>1 DEF FreshMirrors, Mirrors, Synthesized
    <2>1. b \in DOMAIN in.server /\ in.server[b] = tree[b]
        BY <1>4 DEF Reusable, FreshQuiet, LookedMirrors, Mirrors
    <2>2. b \in DOMAIN cache /\ Synthesized(cache)[b] = tree[b]
        BY <1>5, <2>1 DEF Synthesized
    <2>3. CASE b \in written
        BY <1>6, <2>1, <2>3
    <2>4. CASE b \notin written
        BY <1>7, <2>1, <2>2, <2>4 DEF Synthesized
    <2> QED
        BY <2>3, <2>4
<1>9. Accounted'
    <2> SUFFICES ASSUME NEW b \in Live
                 PROVE  b \in cyc.pend \/ AsLooked(b)' \/ \E w \in cyc.push : w.b = b
        BY <1>1, <1>4 DEF Accounted
    <2>1. CASE Unchanged(in, b) \/ CacheStale(in, b)
        <3>1. b \in written
            BY <2>1 DEF written, MetadataWrites
        <3> QED
            BY <1>1, <1>6, <3>1 DEF AsLooked
    <2>2. CASE FirstCycle(in, b) \/ ServerRename(in, b) \/ ConflictServerWins(in, b)
        BY <1>5, <2>2 DEF PendingWrites
    <2>3. CASE PushesRename(in, b)
        <3> DEFINE w == [b |-> b, db |-> Cached(in, b), to |-> OnDisk(in, b),
                         name |-> Last(OnDisk(in, b)), parent |-> DecomposedParent(in, OnDisk(in, b))]
        <3>1. w \in PushRenames(in, Live)
            BY <2>3 DEF PushRenames
        <3>2. w.b = b
            OBVIOUS
        <3> HIDE DEF w, in
        <3> QED
            BY <1>5, <3>1, <3>2
    <2> QED
        BY <2>1, <2>2, <2>3 DEF Unchanged
<1>10. RenamesOver'
    <2>1. Phases[9] = "mvremote" /\ (HasWork("mvremote", cyc, plan) <=> cyc.push # {})
        BY DEF Phases, HasWork
    <2>2. \A k \in 1 .. 9 : Phases[k] \notin RenamesDone
        BY DEF Phases, RenamesDone
    <2>3. CASE cyc.push # {}
        BY <1>2, <2>1, <2>2, <2>3 DEF RenamesOver
    <2>4. CASE cyc.push = {}
        BY <1>1, <2>4 DEF RenamesOver
    <2> QED
        BY <2>3, <2>4
<1>11. FreshQuiet' /\ AnsweredStructural' /\ LookedMirrors' /\ LookedAtCache' /\ LookedAtAll'
    BY <1>1, <1>4 DEF Reusable, FreshQuiet, AnsweredStructural, LookedMirrors, LookedAtCache,
       LookedAtAll, Mirrors
<1> QED
    BY <1>8, <1>9, <1>10, <1>11 DEF Reusable

\* A phase that has to do with files, rows and mail alone.
LEMMA ReusableOrdinary ==
    ASSUME Typed, Reusable, NEW phase \in Executing, pc = phase, Continue(phase),
           UNCHANGED <<tree, cache, mcur, mlater>>, reply' = NoReply, SameLook
    PROVE  Reusable'
<1>1. pc' \in Executing
    BY Continues
<1>2. RenamesOver'
    <2>1. phase \in RenamesDone => cyc'.push = {}
        BY DEF Reusable, RenamesOver, SameLook
    <2> QED
        BY <2>1, RenamesPassed
<1> QED
    BY <1>1, <1>2, ReusablePhase DEF SameLook

LEMMA SameCycle ==
    ASSUME UNCHANGED cyc
    PROVE  SameLook
BY DEF SameLook

\* The same, where a run of writes ends in either way.
LEMMA ReusableEnds ==
    ASSUME Typed, Reusable, NEW phase \in Executing, pc = phase, NEW outcome, NEW next,
           Ends(phase, outcome, next), UNCHANGED <<tree, cache, mcur>>, cyc' = next => SameLook
    PROVE  Reusable'
<1>1. CASE Idle
    <2>1. pc # "prune"
        BY ExecutingPhases
    <2> QED
        BY <1>1, <2>1, MirrorsStay, ReusableIdle DEF Reusable
<1>2. CASE ~Idle
    BY <1>2, ReusableOrdinary DEF Ends, sinceVars
<1> QED
    BY <1>1, <1>2

LEMMA ReusableFolders ==
    ASSUME Typed, Reusable,
           \/ (\E b \in cyc.mk : CreateLocal(b)) \/ FollowRename
           \/ \E w \in cyc.mv : RenameLocal(w) \/ RenameRefused(w)
           \/ \E w \in cyc.rmdir : DeleteLocalFolder(w)
           \/ \E a \in cyc.create : SkipCreate(a)
    PROVE  Reusable'
<1> DEFINE Quiet == UNCHANGED <<tree, cache, mcur, mlater, reply>> /\ reply = NoReply
           Ordinary(phase) == pc = phase /\ Continue(phase) /\ Quiet /\ SameLook
<1>1. ASSUME NEW b \in cyc.mk, CreateLocal(b) PROVE Reusable'
    <2> DEFINE next == [cyc EXCEPT !.mk = @ \ {b}, !.replaced = @ \ {b}]
    <2>1. PICK outcome : Ends("mklocal", outcome, next)
        BY <1>1 DEF CreateLocal
    <2>2. cyc' = next => SameLook
        BY CycleFacts DEF SameLook, IsCycle, None
    <2>3. pc = "mklocal" /\ UNCHANGED <<tree, cache, mcur>>
        BY <1>1 DEF CreateLocal, serverVars, cursorVars
    <2> HIDE DEF next
    <2> QED
        BY <2>1, <2>2, <2>3, ReusableEnds, ExecutingPhases
<1>2. CASE FollowRename
    <2>1. PICK w, outcome : Ends("mvlocal", outcome, [cyc EXCEPT !.mv = @ \ {w}, !.moved = {}])
        BY <1>2 DEF FollowRename
    <2> DEFINE next == [cyc EXCEPT !.mv = @ \ {w}, !.moved = {}]
    <2>2. cyc' = next => SameLook
        BY CycleFacts DEF SameLook, IsCycle, None
    <2>3. pc = "mvlocal" /\ UNCHANGED <<tree, cache, mcur>> /\ Ends("mvlocal", outcome, next)
        BY <1>2, <2>1 DEF FollowRename, serverVars, cursorVars
    <2> HIDE DEF next
    <2> QED
        BY <2>2, <2>3, ReusableEnds, ExecutingPhases
<1>3. ASSUME NEW w \in cyc.mv, RenameLocal(w) PROVE Reusable'
    <2>1. cyc' = [cyc EXCEPT !.moved = {w}] \/ cyc' = [cyc EXCEPT !.mv = @ \ {w}]
        BY <1>3 DEF RenameLocal
    <2>2. pc = "mvlocal" /\ Quiet /\ SameLook
        BY <1>3, <2>1, CycleFacts, NoReplyYet
        DEF RenameLocal, SameLook, IsCycle, None, serverVars, dbVars, cursorVars, sinceVars
    <2>3. CASE Continue("mvlocal")
        BY <2>2, <2>3, ReusableOrdinary, ExecutingPhases
    <2>4. CASE UNCHANGED pc
        BY <2>2, <2>4, ReusablePhase, ExecutingPhases DEF SameLook, RenamesOver, RenamesDone
    <2> QED
        BY <1>3, <2>3, <2>4 DEF RenameLocal
<1>6. ASSUME NEW w \in cyc.mv, RenameRefused(w) PROVE Reusable'
    <2> DEFINE next == [cyc EXCEPT !.mv = @ \ {w}]
    <2>1. Ends("mvlocal", "logged", next)
        BY <1>6 DEF RenameRefused
    <2>2. cyc' = next => SameLook
        BY CycleFacts DEF SameLook, IsCycle, None
    <2>3. pc = "mvlocal" /\ UNCHANGED <<tree, cache, mcur>>
        BY <1>6 DEF RenameRefused, serverVars, dbVars, cursorVars
    <2> HIDE DEF next
    <2> QED
        BY <2>1, <2>2, <2>3, ReusableEnds, ExecutingPhases
<1>4. ASSUME NEW w \in cyc.rmdir, DeleteLocalFolder(w) PROVE Reusable'
    <2> DEFINE next == [cyc EXCEPT !.rmdir = @ \ {w}]
    <2>1. PICK outcome : Ends("rmlocal", outcome, next)
        BY <1>4 DEF DeleteLocalFolder
    <2>2. cyc' = next => SameLook
        BY CycleFacts DEF SameLook, IsCycle, None
    <2>3. pc = "rmlocal" /\ UNCHANGED <<tree, cache, mcur>>
        BY <1>4 DEF DeleteLocalFolder, serverVars, cursorVars
    <2> HIDE DEF next
    <2> QED
        BY <2>1, <2>2, <2>3, ReusableEnds, ExecutingPhases
<1>5. ASSUME NEW a \in cyc.create, SkipCreate(a) PROVE Reusable'
    <2>1. cyc' = [cyc EXCEPT !.create = @ \ {a}]
        BY <1>5 DEF SkipCreate
    <2>2. Ordinary("mkremote")
        BY <1>5, <2>1, CycleFacts
        DEF SkipCreate, SameLook, IsCycle, None, serverVars, dbVars, cursorVars, sinceVars
    <2> QED
        BY <2>2, ReusableOrdinary, ExecutingPhases
<1> QED
    BY <1>1, <1>2, <1>3, <1>4, <1>5, <1>6

LEMMA ReusableMessages ==
    ASSUME Typed, Reusable,
           \/ AdoptMessages \/ DownloadMessages \/ MoveLocals \/ DeleteLocals \/ RemoteSet
           \/ UploadsOver \/ \E u \in PendingUploads : UploadOne(u)
    PROVE  Reusable'
<1> DEFINE Quiet == UNCHANGED <<tree, cache, mcur, mlater, reply>> /\ reply = NoReply
           Ordinary(phase) == pc = phase /\ Continue(phase) /\ Quiet /\ SameLook
<1>1. AdoptMessages => Ordinary("adopt")
    BY NoReplyYet, SameCycle DEF AdoptMessages, serverVars, cursorVars, sinceVars
<1>2. DownloadMessages => Ordinary("download")
    BY NoReplyYet, SameCycle DEF DownloadMessages, serverVars, cursorVars, sinceVars
<1>3. MoveLocals => Ordinary("lmove")
    BY NoReplyYet, SameCycle DEF MoveLocals, serverVars, cursorVars, sinceVars
<1>4. DeleteLocals => Ordinary("ldelete")
    BY NoReplyYet, SameCycle DEF DeleteLocals, serverVars, cursorVars, sinceVars
<1>5. RemoteSet => Ordinary("set")
    BY NoReplyYet, SameCycle DEF RemoteSet
<1>6. ASSUME NEW reup, cyc' = [cyc EXCEPT !.reup = reup] PROVE SameLook
    BY <1>6, CycleFacts DEF SameLook, IsCycle, None
<1>7. UploadsOver => Ordinary("upload")
    BY <1>6, NoReplyYet DEF UploadsOver, serverVars, dbVars, cursorVars, sinceVars
<1>8. ASSUME NEW u \in PendingUploads, UploadOne(u) PROVE Ordinary("upload")
    BY <1>6, <1>8, NoReplyYet DEF UploadOne, Import
<1>9. \E phase \in Executing : Ordinary(phase)
    <2> HIDE DEF Ordinary
    <2> QED
        BY <1>1, <1>2, <1>3, <1>4, <1>5, <1>7, <1>8, ExecutingPhases
<1> QED
    BY <1>9, ReusableOrdinary

LEMMA ReusableClosing ==
    ASSUME Typed, Reusable, AdoptPairs \/ AdvanceEmailCursor
    PROVE  Reusable'
<1>1. /\ pc \in {"pair", "cursor"} /\ pc' \in {"cursor", "pending"}
      /\ UNCHANGED <<tree, cache, mcur, mlater, cyc, reply>>
    BY DEF AdoptPairs, AdvanceEmailCursor, serverVars, cursorVars, sinceVars
<1>2. reply' = NoReply /\ pc \in Executing /\ pc' \in Executing \cup {"pending"}
    BY <1>1, NoReplyYet, ExecutingPhases
<1>3. RenamesOver'
    BY <1>1 DEF Reusable, RenamesOver, RenamesDone
<1> QED
    BY <1>1, <1>2, <1>3, ReusablePhase

\* A cycle that dies leaves the mapping and its cursor as they are.
LEMMA ReusableDies ==
    ASSUME Typed, Reusable,
           \/ AdoptRefused \/ PairsRefused \/ DownloadFails \/ Crash
           \/ \E u \in PendingUploads : UploadRefused(u)
    PROVE  Reusable'
<1>1. /\ Idle /\ UNCHANGED <<tree, cache, mcur>>
    BY DEF AdoptRefused, PairsRefused, DownloadFails, Crash, UploadRefused, serverVars, dbVars, cursorVars
<1>2. pc # "prune"
    BY DEF AdoptRefused, PairsRefused, DownloadFails, Crash, UploadRefused, Import, Cycling
<1> QED
    BY <1>1, <1>2, MirrorsStay, ReusableIdle DEF Reusable

\* The renames are over, so what is not written now was accounted for by a row
\* that is as the cycle found the mailbox; unless the structure has changed
\* since, that is how the mailbox is.
LEMMA ReusablePending ==
    ASSUME Typed, Reusable, ApplyPending
    PROVE  Reusable'
<1> DEFINE in == cyc.in
           written == {b \in cyc.pend : Landed(b)}
<1>1. /\ pc = "pending" /\ Idle /\ UNCHANGED tree
      /\ cache' = Over([b \in written |-> Record(in, b)], cache)
      /\ mcur' = IF \A b \in cyc.pend : Landed(b)
                 THEN (IF mlater THEN "stale" ELSE "fresh") ELSE mcur
    BY DEF ApplyPending, serverVars
<1>2. Cycling /\ ~Looking /\ pc' = "idle" /\ cyc.push = {}
    BY <1>1 DEF Cycling, Looking, Idle, Reusable, RenamesOver, RenamesDone
<1>3. Live = DOMAIN in.server /\ cyc.pend = PendingWrites(in, Live)
    BY <1>2 DEF Reusable, LookedAtAll
<1>4. ASSUME NEW b \in written
      PROVE  b \in DOMAIN cache' /\ Synthesized(cache')[b] = in.server[b]
    <2>1. b \in DOMAIN cache' /\ cache'[b] = Record(in, b)
        <3> HIDE DEF written
        <3> QED
            BY <1>1, <1>4 DEF Over
    <2>2. b \in DOMAIN in.server /\ IsInput(in)
        BY <1>3, <1>4, CycleFacts DEF PendingWrites
    <2> HIDE DEF in
    <2> QED
        BY <2>1, <2>2, Recorded
<1>5. ASSUME NEW b \in DOMAIN cache, b \notin written
      PROVE  b \in DOMAIN cache' /\ cache'[b] = cache[b]
    <2> HIDE DEF written
    <2> QED
        BY <1>1, <1>5 DEF Over
<1>6. FreshMirrors'
    <2> SUFFICES ASSUME mcur' = "fresh", NEW b \in DOMAIN tree
                 PROVE  b \in DOMAIN cache' /\ Synthesized(cache')[b] = tree[b]
        BY <1>1 DEF FreshMirrors, Mirrors, Synthesized
    <2>1. ~mlater /\ (mcur = "fresh" \/ \A x \in cyc.pend : Landed(x))
        BY <1>1, <1>2 DEF Reusable, FreshQuiet
    <2>2. b \in Live /\ in.server[b] = tree[b]
        BY <1>2, <1>3, <2>1 DEF Reusable, LookedMirrors, Mirrors
    <2>3. CASE b \in written
        BY <1>4, <2>2, <2>3
    <2>4. CASE b \notin written
        <3>1. b \in DOMAIN cache /\ Synthesized(cache)[b] = tree[b]
            <4>1. CASE mcur = "fresh"
                BY <1>1, <4>1 DEF Reusable, FreshMirrors, Mirrors, Synthesized
            <4>2. CASE \A x \in cyc.pend : Landed(x)
                <5>1. AsLooked(b)
                    BY <1>2, <2>1, <2>2, <2>4, <4>2 DEF Reusable, Accounted
                <5> QED
                    BY <2>2, <5>1 DEF AsLooked
            <4> QED
                BY <2>1, <4>1, <4>2
        <3> HIDE DEF written
        <3> QED
            BY <1>5, <2>4, <3>1 DEF Synthesized
    <2> QED
        BY <2>3, <2>4
<1> QED
    BY <1>1, <1>6, ReusableIdle

\* What the server accepts is a change of the structure; what it refuses, with
\* one exception, leaves everything as it was.
LEMMA ReusableAsked ==
    ASSUME Typed, Reusable, UNCHANGED chores,
           (\E a \in cyc.create : CreateRemote(a)) \/ (\E b \in cyc.kill : DestroyMailbox(b))
    PROVE  Reusable'
<1> DEFINE Accepted == Structural /\ UNCHANGED <<cache, pc, cyc>> /\ Cycling
           Refused(phase) == /\ pc = phase /\ Continue(phase) /\ SameLook
                             /\ UNCHANGED <<tree, cache, mcur, mlater>> /\ reply' = NoReply
<1>1. ASSUME NEW a \in cyc.create, CreateRemote(a) PROVE Accepted \/ Refused("mkremote")
    <2>1. CASE Acceptable(a)
        BY <1>1, <2>1 DEF CreateRemote, Cycling
    <2>2. CASE ~Acceptable(a)
        <3>1. cyc' = [cyc EXCEPT !.create = @ \ {a}]
            BY <1>1, <2>2 DEF CreateRemote
        <3>2. SameLook
            BY <3>1, CycleFacts DEF SameLook, IsCycle, None
        <3> QED
            BY <1>1, <2>2, <3>2 DEF CreateRemote
    <2> QED
        BY <2>1, <2>2
<1>2. ASSUME NEW b \in cyc.kill, DestroyMailbox(b) PROVE Accepted \/ Refused("killremote")
    <2>1. CASE b \in DOMAIN tree /\ Children(tree, b) = {}
        BY <1>2, <2>1 DEF DestroyMailbox, Cycling
    <2>2. CASE ~(b \in DOMAIN tree /\ Children(tree, b) = {})
        <3>1. cyc' = [cyc EXCEPT !.kill = @ \ {b}]
            BY <1>2, <2>2 DEF DestroyMailbox
        <3>2. SameLook
            BY <3>1, CycleFacts DEF SameLook, IsCycle, None
        <3> QED
            BY <1>2, <2>2, <3>2 DEF DestroyMailbox
    <2> QED
        BY <2>1, <2>2
<1>3. Accepted \/ \E phase \in Executing : Refused(phase)
    <2> HIDE DEF Accepted, Refused
    <2> QED
        BY <1>1, <1>2, ExecutingPhases
<1>4. CASE Accepted
    BY <1>4, ReusableStructural
<1>5. CASE \E phase \in Executing : Refused(phase)
    BY <1>5, ReusableOrdinary
<1> QED
    BY <1>3, <1>4, <1>5

LEMMA ReusableAnswered ==
    ASSUME Typed, Reusable, LandCreate \/ LandRename \/ LandDestroy
    PROVE  Reusable'
<1> DEFINE Moved(phase) == /\ pc = phase /\ Continue(phase) /\ reply # NoReply /\ reply' = NoReply
                           /\ UNCHANGED <<mcur, mlater>> /\ cyc'.in = cyc.in
                           /\ cyc'.folder = cyc.folder /\ cyc'.pend = cyc.pend
                           /\ cyc'.push \subseteq cyc.push
<1>1. /\ reply.kind = "created" => pc = "mkremote"
      /\ reply.kind = "renamed" => pc = "mvremote"
      /\ reply.kind = "destroyed" => pc = "killremote"
      /\ reply.kind # "none" => reply # NoReply
    BY DEF Typed, Control, IsReply, NoReply
<1>2. CASE LandCreate
    <2>1. PICK refs : cyc' = [cyc EXCEPT !.create = @ \ {reply.a}, !.refs = refs]
        BY <1>2 DEF LandCreate
    <2>2. Moved("mkremote")
        BY <1>1, <1>2, <2>1, CycleFacts
        DEF LandCreate, IsCycle, None, dbVars, cursorVars, sinceVars
    <2> QED
        BY <2>2, RenamesPassed, Continues, ReusableMoved, ExecutingPhases DEF RenamesDone
<1>3. CASE LandRename
    <2> DEFINE next == [cyc EXCEPT !.push = @ \ {reply.w}]
    <2>1. PICK outcome : Ends("mvremote", outcome, next)
        BY <1>3 DEF LandRename
    <2>2. pc = "mvremote" /\ reply # NoReply /\ UNCHANGED mcur
        BY <1>1, <1>3 DEF LandRename, cursorVars
    <2>3. CASE Idle
        <3>1. mcur # "fresh"
            BY <2>2 DEF Reusable, AnsweredStructural
        <3>2. FreshMirrors'
            BY <2>2, <3>1 DEF FreshMirrors
        <3> QED
            BY <2>3, <3>2, ReusableIdle
    <2>4. CASE ~Idle
        <3>1. cyc' = next /\ reply' = NoReply /\ UNCHANGED mlater /\ Continue("mvremote")
            BY <2>1, <2>4 DEF Ends, sinceVars
        <3>2. Moved("mvremote")
            BY <2>2, <3>1, CycleFacts DEF IsCycle, None
        <3> QED
            BY <3>2, RenamesPassed, Continues, ReusableMoved, ExecutingPhases DEF RenamesDone
    <2> QED
        BY <2>3, <2>4
<1>4. CASE LandDestroy
    <2>1. cyc' = [cyc EXCEPT !.kill = @ \ {reply.b}]
        BY <1>4 DEF LandDestroy
    <2>2. Moved("killremote")
        BY <1>1, <1>4, <2>1, CycleFacts DEF LandDestroy, IsCycle, None, cursorVars, sinceVars
    <2>3. cyc'.push = {}
        BY <2>2 DEF Reusable, RenamesOver, RenamesDone
    <2> QED
        BY <2>2, <2>3, RenamesPassed, Continues, ReusableMoved, ExecutingPhases
<1> QED
    BY <1>2, <1>3, <1>4

LEMMA ReusableRename ==
    ASSUME Typed, Reusable, UNCHANGED chores, NEW w \in cyc.push, RenameRemote(w),
           RefusalsHarmless
    PROVE  Reusable'
<1>1. pc = "mvremote" /\ UNCHANGED cache
    BY DEF RenameRemote
<1>2. CASE RenameAcceptable(w)
    <2>1. Structural /\ UNCHANGED <<cache, pc, cyc>> /\ Cycling
        BY <1>2 DEF RenameRemote, Cycling
    <2> QED
        BY <2>1, ReusableStructural
<1>3. CASE ~RenameAcceptable(w)
    <2>1. /\ cyc' = [cyc EXCEPT !.push = @ \ {w}] /\ Continue("mvremote")
          /\ UNCHANGED <<tree, mcur, mlater, reply>> /\ reply = NoReply
        BY <1>3 DEF RenameRemote
    <2>2. /\ cyc'.in = cyc.in /\ cyc'.folder = cyc.folder /\ cyc'.pend = cyc.pend
          /\ cyc'.push = cyc.push \ {w}
        BY <2>1, CycleFacts DEF IsCycle, None
    <2>3. pc' \in Executing /\ RenamesOver'
        BY <2>1, Continues, RenamesPassed, ExecutingPhases DEF RenamesDone
    <2>4. mlater \/ AsLooked(w.b)
        BY <1>3 DEF RefusalsHarmless
    <2>5. Cycling /\ Cycling' /\ ~Looking /\ ~Looking' /\ pc # "prune" /\ pc' # "prune" /\ Live' = Live
        BY <1>1, <2>2, <2>3, ExecutingPhases DEF Cycling, Looking, Live
    <2>6. Accounted'
        <3> SUFFICES ASSUME ~mlater, NEW b \in Live
                     PROVE  b \in cyc.pend \/ AsLooked(b) \/ \E v \in cyc.push \ {w} : v.b = b
            BY <1>1, <2>1, <2>2, <2>5 DEF Accounted, AsLooked
        <3>1. b \in cyc.pend \/ AsLooked(b) \/ \E v \in cyc.push : v.b = b
            BY <2>5 DEF Reusable, Accounted
        <3> QED
            BY <2>4, <3>1
    <2>7. FreshMirrors' /\ FreshQuiet' /\ AnsweredStructural'
        BY <1>1, <2>1, <2>5 DEF Reusable, FreshMirrors, FreshQuiet, AnsweredStructural, Mirrors
    <2>8. LookedMirrors' /\ LookedAtCache' /\ LookedAtAll'
        BY <2>1, <2>2, <2>5 DEF Reusable, LookedMirrors, LookedAtCache, LookedAtAll, Mirrors
    <2> QED
        BY <2>3, <2>6, <2>7, <2>8 DEF Reusable
<1> QED
    BY <1>2, <1>3

LEMMA ReusableCycle ==
    ASSUME Selection = {}, Typed, Reusable, CycleStep, UNCHANGED chores, RefusalsHarmless
    PROVE  Reusable'
BY ReusableResolve, ReusableLooking, ReusableUnconditional, ReusableFolders, ReusableMessages,
   ReusableClosing, ReusableDies, ReusablePending, ReusableAsked, ReusableAnswered, ReusableRename
DEF CycleStep

\* A synchronised account has a mapping that mirrors the server.
LEMMA ReusableInit ==
    ASSUME Selection = {}, JInit
    PROVE  Reusable
<1>1. /\ setup.tree \in Trees /\ tree = setup.tree /\ pc = "idle" /\ reply = NoReply
      /\ cache = [b \in SelectedIn(tree) |-> [name |-> tree[b].name, parent |-> tree[b].parent,
                                              folder |-> Path(tree, b)]]
    BY SetupsAssumption DEF JInit, Init
<1>2. \A b \in DOMAIN tree : tree[b] \in Place
    BY <1>1 DEF Trees, Place, Box0
<1>3. \A b \in DOMAIN tree : tree[b] = [name |-> tree[b].name, parent |-> tree[b].parent]
    BY <1>2 DEF Place
<1>4. SelectedIn(tree) = DOMAIN tree
    BY EverySelected
<1>5. Mirrors(Synthesized(cache))
    BY <1>1, <1>3, <1>4 DEF Mirrors, Synthesized
<1> QED
    BY <1>1, <1>5 DEF Reusable, FreshMirrors, FreshQuiet, AnsweredStructural, LookedMirrors,
       LookedAtCache, LookedAtAll, Accounted, RenamesOver, Looking, Cycling, RenamesDone

\* The mailbox cursor stands for what mailbox_map has: whenever a cycle may take
\* the rows for the listing, they are every mailbox of the server, as it is.  It
\* is so when every mailbox is selected and the server refuses no rename of a
\* mailbox whose row is not as the cycle found the mailbox: the two exceptions
\* are in the README.
THEOREM ReuseSoundCorrect ==
    ASSUME Selection = {}
    PROVE  JSpec /\ [][RefusalsHarmless]_jvars => []ReuseSound
<1>1. JInit => Reusable
    BY ReusableInit
<1>2. Typed /\ Reusable /\ [JNext]_jvars /\ [RefusalsHarmless]_jvars => Reusable'
    <2> SUFFICES ASSUME Typed, Reusable, [JNext]_jvars, [RefusalsHarmless]_jvars
                 PROVE  Reusable'
        OBVIOUS
    <2>1. CASE UNCHANGED jvars
        <3>1. UNCHANGED <<tree, cache, mcur, mlater, pc, cyc, reply, chores>>
            BY <2>1 DEF jvars, fvars, serverVars, dbVars, cursorVars, cycleVars, sinceVars
        <3> QED
            BY <3>1, ReusableStays
    <2>2. CASE JNext /\ RefusalsHarmless
        BY <2>2, ReusableUser, ReusableServer, ReusableCycle, ReusableDies, ReusableJanitor DEF JNext
    <2> QED
        BY <2>1, <2>2
<1>3. Reusable => ReuseSound
    <2> SUFFICES ASSUME Reusable, mcur = "fresh", pc # "prune", NEW b \in SelectedIn(tree)
                 PROVE  b \in SelectedIn(Listing) /\ Listing[b] = tree[b]
        BY DEF ReuseSound
    <2>1. Listing = Synthesized(cache) /\ Mirrors(Listing)
        BY DEF Listing, Reusable, FreshMirrors
    <2> QED
        BY <2>1, EverySelected DEF Mirrors
<1> QED
    BY <1>1, <1>2, <1>3, TypedInvariant, PTL DEF JSpec

-----------------------------------------------------------------------------
(* allow_destructive_folder_sync: what may be removed is decided once, in  *)
(* reconcile, and no later step adds to it.                                *)

AsConfigured ==
    /\ MailboxDeletable \/ cyc.kill = {}
    /\ FolderDeletable \/ cyc.rmdir = {}
Fewer == cyc'.kill \subseteq cyc.kill /\ cyc'.rmdir \subseteq cyc.rmdir

LEMMA FewerConfigured ==
    ASSUME AsConfigured, UNCHANGED setup, Fewer \/ cyc' = None
    PROVE  AsConfigured'
BY DEF AsConfigured, MailboxDeletable, FolderDeletable, Fewer, None

LEMMA FewerSame ==
    ASSUME UNCHANGED cyc
    PROVE  Fewer
BY DEF Fewer

LEMMA EndsConfigured ==
    ASSUME AsConfigured, NEW phase, NEW outcome, NEW next, Ends(phase, outcome, next),
           cyc' = next => Fewer, UNCHANGED setup
    PROVE  AsConfigured'
BY FewerConfigured DEF Ends, Idle

LEMMA ConfiguredCycle ==
    ASSUME Typed, AsConfigured, CycleStep, UNCHANGED chores
    PROVE  AsConfigured'
<1>1. CASE Fetch
    BY <1>1, FetchTypes DEF AsConfigured, MailboxDeletable, FolderDeletable, Fetch, ghostVars
<1>2. CASE Resolve
    BY <1>2, ResolveTypes DEF AsConfigured
<1>3. CASE Scan
    <2>1. PICK obs, rorph, strays :
              cyc' = [cyc EXCEPT !.obs = obs, !.rorph = rorph, !.strays = strays]
        BY <1>3 DEF Scan
    <2>2. Fewer
        BY <2>1, CycleFacts DEF Fewer, IsCycle, None
    <2> QED
        BY <1>3, <2>2, FewerConfigured DEF Scan, ghostVars
<1>4. CASE ApplyUnconditional \/ AdoptMessages \/ DownloadMessages \/ MoveLocals \/ DeleteLocals
           \/ RemoteSet \/ AdoptPairs \/ AdvanceEmailCursor
    <2>1. UNCHANGED <<cyc, setup>>
        BY <1>4 DEF ApplyUnconditional, AdoptMessages, DownloadMessages, MoveLocals, DeleteLocals,
           RemoteSet, AdoptPairs, AdvanceEmailCursor, ghostVars
    <2> QED
        BY <2>1, FewerSame, FewerConfigured
<1>5. CASE AdoptRefused \/ DownloadFails \/ PairsRefused \/ ApplyPending
           \/ \E u \in PendingUploads : UploadRefused(u)
    <2>1. cyc' = None /\ UNCHANGED setup
        BY <1>5 DEF AdoptRefused, DownloadFails, PairsRefused, ApplyPending, UploadRefused, Idle,
           ghostVars
    <2> QED
        BY <2>1, FewerConfigured
<1>6. ASSUME NEW b \in cyc.mk, CreateLocal(b) PROVE AsConfigured'
    <2> DEFINE next == [cyc EXCEPT !.mk = @ \ {b}, !.replaced = @ \ {b}]
    <2>1. (\E outcome : Ends("mklocal", outcome, next)) /\ UNCHANGED setup
        BY <1>6 DEF CreateLocal
    <2>2. cyc' = next => Fewer
        BY CycleFacts DEF Fewer, IsCycle, None
    <2> HIDE DEF next
    <2> QED
        BY <2>1, <2>2, EndsConfigured
<1>7. ASSUME NEW w \in cyc.mv, RenameLocal(w) PROVE AsConfigured'
    <2>1. PICK mv, moved : cyc' = [cyc EXCEPT !.mv = mv] \/ cyc' = [cyc EXCEPT !.moved = moved]
        BY <1>7 DEF RenameLocal
    <2>2. Fewer
        BY <2>1, CycleFacts DEF Fewer, IsCycle, None
    <2> QED
        BY <1>7, <2>2, FewerConfigured DEF RenameLocal, ghostVars
<1>15. ASSUME NEW w \in cyc.mv, RenameRefused(w) PROVE AsConfigured'
    <2> DEFINE next == [cyc EXCEPT !.mv = @ \ {w}]
    <2>1. Ends("mvlocal", "logged", next) /\ UNCHANGED setup
        BY <1>15 DEF RenameRefused
    <2>2. cyc' = next => Fewer
        BY CycleFacts DEF Fewer, IsCycle, None
    <2> HIDE DEF next
    <2> QED
        BY <2>1, <2>2, EndsConfigured
<1>13. CASE FollowRename
    <2>1. PICK w, outcome : Ends("mvlocal", outcome, [cyc EXCEPT !.mv = @ \ {w}, !.moved = {}])
        BY <1>13 DEF FollowRename
    <2> DEFINE next == [cyc EXCEPT !.mv = @ \ {w}, !.moved = {}]
    <2>2. cyc' = next => Fewer
        BY CycleFacts DEF Fewer, IsCycle, None
    <2>3. Ends("mvlocal", outcome, next) /\ UNCHANGED setup
        BY <1>13, <2>1 DEF FollowRename
    <2> HIDE DEF next
    <2> QED
        BY <2>2, <2>3, EndsConfigured
<1>8. ASSUME NEW w \in cyc.rmdir, DeleteLocalFolder(w) PROVE AsConfigured'
    <2> DEFINE next == [cyc EXCEPT !.rmdir = @ \ {w}]
    <2>1. (\E outcome : Ends("rmlocal", outcome, next)) /\ UNCHANGED setup
        BY <1>8 DEF DeleteLocalFolder
    <2>2. cyc' = next => Fewer
        BY CycleFacts DEF Fewer, IsCycle, None
    <2> HIDE DEF next
    <2> QED
        BY <2>1, <2>2, EndsConfigured
<1>9. CASE LandCreate \/ \E a \in cyc.create : CreateRemote(a) \/ SkipCreate(a)
    <2>1. PICK create, refs : UNCHANGED cyc \/ cyc' = [cyc EXCEPT !.create = create]
                              \/ cyc' = [cyc EXCEPT !.create = create, !.refs = refs]
        BY <1>9 DEF LandCreate, CreateRemote, SkipCreate
    <2>2. Fewer
        BY <2>1, CycleFacts, FewerSame DEF Fewer, IsCycle, None
    <2> QED
        BY <1>9, <2>2, FewerConfigured DEF LandCreate, CreateRemote, SkipCreate, ghostVars
<1>10. ASSUME NEW w \in cyc.push, RenameRemote(w) PROVE AsConfigured'
    <2>1. PICK push : UNCHANGED cyc \/ cyc' = [cyc EXCEPT !.push = push]
        BY <1>10 DEF RenameRemote
    <2>2. Fewer
        BY <2>1, CycleFacts, FewerSame DEF Fewer, IsCycle, None
    <2> QED
        BY <1>10, <2>2, FewerConfigured DEF RenameRemote, ghostVars
<1>14. CASE LandRename
    <2> DEFINE next == [cyc EXCEPT !.push = @ \ {reply.w}]
    <2>1. (\E outcome : Ends("mvremote", outcome, next)) /\ UNCHANGED setup
        BY <1>14 DEF LandRename
    <2>2. cyc' = next => Fewer
        BY CycleFacts DEF Fewer, IsCycle, None
    <2> HIDE DEF next
    <2> QED
        BY <2>1, <2>2, EndsConfigured
<1>11. CASE UploadsOver \/ \E u \in PendingUploads : UploadOne(u)
    <2>1. PICK reup : cyc' = [cyc EXCEPT !.reup = reup]
        BY <1>11 DEF UploadsOver, UploadOne
    <2>2. Fewer
        BY <2>1, CycleFacts DEF Fewer, IsCycle, None
    <2> QED
        BY <1>11, <2>2, FewerConfigured DEF UploadsOver, UploadOne, ghostVars
<1>12. CASE LandDestroy \/ \E b \in cyc.kill : DestroyMailbox(b)
    <2>1. PICK b : UNCHANGED cyc \/ cyc' = [cyc EXCEPT !.kill = @ \ {b}]
        BY <1>12 DEF LandDestroy, DestroyMailbox
    <2>2. Fewer
        BY <2>1, CycleFacts, FewerSame DEF Fewer, IsCycle, None
    <2> QED
        BY <1>12, <2>2, FewerConfigured DEF LandDestroy, DestroyMailbox, ghostVars
<1> QED
    BY <1>1, <1>2, <1>3, <1>4, <1>5, <1>6, <1>7, <1>8, <1>9, <1>10, <1>11, <1>12, <1>13, <1>14, <1>15
    DEF CycleStep

LEMMA ConfiguredOthers ==
    ASSUME Typed, AsConfigured, UserStep \/ ServerStep \/ Crash \/ JanitorStep
    PROVE  AsConfigured'
<1>1. CASE UserStep
    <2>1. UNCHANGED <<cyc, setup>>
        BY <1>1 DEF UserStep, Mv, Mkdir, Rm, Unmark, Save, MvMail, LoseDb, cycleVars
    <2> QED
        BY <2>1, FewerSame, FewerConfigured
<1>2. CASE ServerStep
    <2> DEFINE Apart == UNCHANGED <<cyc, setup>>
    <2>1. ASSUME NEW n, NEW p, OtherCreate(n, p) PROVE Apart
        BY <2>1 DEF OtherCreate
    <2>2. ASSUME NEW b, NEW n, NEW p, OtherRename(b, n, p) PROVE Apart
        BY <2>2 DEF OtherRename
    <2>3. ASSUME NEW b, OtherDestroy(b) PROVE Apart
        BY <2>3 DEF OtherDestroy
    <2>4. ASSUME NEW b, NEW m, Deliver(b, m) PROVE Apart
        BY <2>4 DEF Deliver
    <2>5. ASSUME NEW e, OtherCopy(e) \/ OtherExpunge(e) \/ (\E b \in DOMAIN tree : OtherMove(e, b))
          PROVE  Apart
        BY <2>5 DEF OtherCopy, OtherExpunge, OtherMove
    <2>6. Apart
        <3> HIDE DEF Apart
        <3> QED
            BY <1>2, <2>1, <2>2, <2>3, <2>4, <2>5 DEF ServerStep
    <2> QED
        BY <2>6, FewerSame, FewerConfigured
<1>3. CASE Crash
    BY <1>3, FewerConfigured DEF Crash, Idle
<1>4. CASE JanitorStep
    <2>1. ASSUME NEW command, NEW todo, Begin(command, todo) PROVE UNCHANGED <<cyc, setup>>
        BY <2>1 DEF Begin
    <2>2. UNCHANGED setup /\ (UNCHANGED cyc \/ cyc' = None)
        BY <1>4, <2>1 DEF JanitorStep, Rebindfolders, Prune, Remotededupe, WriteSentinel, PruneEntry,
           PruneEntryFails, PruneDone, DestroyCopies, CommandDies, Release, Idle, cycleVars, ghostVars
    <2> QED
        BY <2>2, FewerSame, FewerConfigured
<1> QED
    BY <1>1, <1>2, <1>3, <1>4

\* What is gone after a step of a cycle was removed by the one action that may.
LEMMA OnlyDestroyed ==
    ASSUME CycleStep
    PROVE  DOMAIN tree \subseteq DOMAIN tree' \/ cyc.kill # {}
<1>1. ASSUME NEW a, CreateRemote(a) PROVE DOMAIN tree \subseteq DOMAIN tree'
    BY <1>1 DEF CreateRemote, With
<1>2. ASSUME NEW w, RenameRemote(w) PROVE DOMAIN tree' = DOMAIN tree
    BY <1>2 DEF RenameRemote
<1>3. CASE UNCHANGED tree
    BY <1>3
<1>4. (\E b \in cyc.kill : DestroyMailbox(b)) => cyc.kill # {}
    OBVIOUS
<1>5. ASSUME NEW u, UploadOne(u) \/ UploadRefused(u) PROVE UNCHANGED tree
    BY <1>5 DEF UploadOne, UploadRefused
<1>6. ASSUME NEW w, \/ CreateLocal(w) \/ RenameLocal(w) \/ RenameRefused(w)
                    \/ DeleteLocalFolder(w) \/ SkipCreate(w)
      PROVE  UNCHANGED tree
    BY <1>6 DEF CreateLocal, RenameLocal, RenameRefused, DeleteLocalFolder, SkipCreate, serverVars
<1>7. CASE \/ Resolve \/ Scan \/ Fetch \/ ApplyUnconditional \/ FollowRename
           \/ AdoptMessages \/ AdoptRefused \/ DownloadMessages \/ DownloadFails \/ MoveLocals
           \/ DeleteLocals \/ LandCreate \/ LandRename \/ UploadsOver \/ RemoteSet \/ LandDestroy
           \/ AdoptPairs \/ PairsRefused \/ AdvanceEmailCursor \/ ApplyPending
    BY <1>7 DEF Resolve, Scan, Fetch, ApplyUnconditional, FollowRename, AdoptMessages, AdoptRefused,
       DownloadMessages, DownloadFails, MoveLocals, DeleteLocals, LandCreate, LandRename,
       UploadsOver, RemoteSet, LandDestroy, AdoptPairs, PairsRefused, AdvanceEmailCursor, ApplyPending,
       serverVars
<1> QED
    BY <1>1, <1>2, <1>3, <1>4, <1>5, <1>6, <1>7 DEF CycleStep

LEMMA OnlyRemoved ==
    ASSUME CycleStep
    PROVE  DOMAIN dirs \subseteq DOMAIN dirs' \/ pc = "mvlocal" \/ cyc.rmdir # {}
<1>1. ASSUME NEW w, RenameLocal(w) \/ RenameRefused(w) PROVE pc = "mvlocal"
    BY <1>1 DEF RenameLocal, RenameRefused
<1>2. (\E w \in cyc.rmdir : DeleteLocalFolder(w)) => cyc.rmdir # {}
    OBVIOUS
<1>3. ASSUME NEW w, \/ CreateRemote(w) \/ SkipCreate(w) \/ RenameRemote(w) \/ UploadOne(w)
                    \/ UploadRefused(w) \/ DestroyMailbox(w)
      PROVE  UNCHANGED dirs
    BY <1>3 DEF CreateRemote, SkipCreate, RenameRemote, UploadOne, UploadRefused, DestroyMailbox, diskVars
<1>4. CASE DownloadMessages \/ DownloadFails \/ MoveLocals
    <2>1. PICK f : dirs' = Over(f, dirs) \/ \E folders : dirs' = Ensured(dirs, folders)
        BY <1>4 DEF DownloadMessages, DownloadFails, MoveLocals
    <2> QED
        BY <2>1 DEF Ensured, Over
<1>7. ASSUME NEW b, CreateLocal(b) PROVE DOMAIN dirs \subseteq DOMAIN dirs'
    BY <1>7 DEF CreateLocal, Ensured, Over, Marked, With
<1>5. CASE FollowRename \/ LandCreate \/ LandRename
    BY <1>5 DEF FollowRename, LandCreate, LandRename, Marked, With
<1>6. CASE \/ Resolve \/ Scan \/ Fetch \/ ApplyUnconditional \/ AdoptMessages \/ AdoptRefused
           \/ DeleteLocals \/ UploadsOver \/ RemoteSet \/ LandDestroy \/ AdoptPairs \/ PairsRefused
           \/ AdvanceEmailCursor \/ ApplyPending
    BY <1>6 DEF Resolve, Scan, Fetch, ApplyUnconditional, AdoptMessages, AdoptRefused, DeleteLocals,
       UploadsOver, RemoteSet, LandDestroy, AdoptPairs, PairsRefused, AdvanceEmailCursor, ApplyPending,
       diskVars
<1> QED
    BY <1>1, <1>2, <1>3, <1>4, <1>5, <1>6, <1>7 DEF CycleStep

\* allow_destructive_folder_sync, "none": "never delete either side".  No step
\* of a cycle takes a mailbox away unless the policy has "delete-remote", nor,
\* but for moving it, a maildir unless it has "delete-local": whatever changes
\* between the decision and the deletion.
DeletesAsConfigured ==
    [][CycleStep =>
          /\ MailboxDeletable \/ DOMAIN tree \subseteq DOMAIN tree'
          /\ FolderDeletable \/ pc = "mvlocal" \/ DOMAIN dirs \subseteq DOMAIN dirs']_jvars

\* The folder policy holds at every step of every cycle, for every account.
THEOREM DeletesAsConfiguredCorrect == JSpec => DeletesAsConfigured
<1>1. JInit => AsConfigured
    BY DEF JInit, Init, None, AsConfigured
<1>2. Typed /\ AsConfigured /\ [JNext]_jvars => AsConfigured'
    <2>1. UNCHANGED jvars => UNCHANGED <<cyc, setup>>
        BY DEF jvars, fvars, cycleVars, ghostVars
    <2> QED
        BY <2>1, FewerSame, FewerConfigured, ConfiguredCycle, ConfiguredOthers DEF JNext
<1>3. AsConfigured /\ [JNext]_jvars =>
         [CycleStep =>
             /\ MailboxDeletable \/ DOMAIN tree \subseteq DOMAIN tree'
             /\ FolderDeletable \/ pc = "mvlocal" \/ DOMAIN dirs \subseteq DOMAIN dirs']_jvars
    BY OnlyDestroyed, OnlyRemoved DEF AsConfigured
<1> QED
    BY <1>1, <1>2, <1>3, TypedInvariant, PTL DEF JSpec, DeletesAsConfigured
=============================================================================
