-------------------------- MODULE SyncTableProofs --------------------------
(***************************************************************************)
(* message_map and local_state agree on every message that is one file and *)
(* one email: whatever cycles, crashes, users and other clients do, the    *)
(* file of its row has its local_state in the row's folder (TablesAgree).  *)
(* The invariant follows a message from the scan to the executor.  Files   *)
(* and emails keep their Message-ID wherever one is written down; a file   *)
(* the scan reports as new leaves no row of its message unaccounted for;   *)
(* so the actions of a plan never want one file for two emails, except     *)
(* that an email whose row another one took over is gone from the server,  *)
(* and then its move is refused and never adopted.                         *)
(***************************************************************************)
EXTENDS SyncProofs

\* m has one file in the maildir and one live email, at most.
OneFile(m) ==
    \A f, g \in File : OnDisk(f) /\ OnDisk(g) /\ disk[f].mid = m /\ disk[g].mid = m => f = g
OneEmail(m) ==
    \A d, e \in Email : Live(d) /\ Live(e) /\ server[d].mid = m /\ server[e].mid = m => d = e
Single(m) == OneFile(m) /\ OneEmail(m)

\* TablesAgree for the rows of m.
Agree(m) == \A e \in Email : HasRow(rows, e) /\ rows[e].mid = m => ls[rows[e].file].box = rows[e].box

-----------------------------------------------------------------------------
(* Every place where a maildir id stands beside a Message-ID, and every    *)
(* place where an email id does.                                           *)

Adopts == plan.adoptR \cup plan.adoptL
Coming == plan.up \cup {i.u : i \in imported}

DiskName(f, m) == OnDisk(f) /\ disk[f].mid = m
RowName(f, m) == \E e \in Email : rows[e].file = f /\ rows[e].mid = m
SeenName(f, m) == \E n \in obs.news \cup obs.index : n.f = f /\ n.mid = m
PlanName(f, m) ==
    \/ \E u \in Coming : u.f = f /\ u.mid = m
    \/ \E a \in Adopts \cup plan.lflag \cup plan.pair : a.f = f /\ a.mid = m
    \/ \E a \in plan.pair : a.oldF = f /\ a.mid = m
Named(f, m) == RowName(f, m) \/ SeenName(f, m) \/ PlanName(f, m)

FilesNamed ==
    /\ \A f \in File, m \in Mid : DiskName(f, m) \/ Named(f, m) => f < nextFile
    /\ \A f \in File, m, n \in Mid :
          (DiskName(f, m) \/ Named(f, m)) /\ (DiskName(f, n) \/ Named(f, n)) => m = n
    /\ \A a \in plan.lmove \cup plan.ldel : a.f < nextFile

EmailName(e, m) ==
    \/ HasRow(rows, e) /\ rows[e].mid = m
    \/ \E r \in obs.remote \cup plan.down \cup Adopts \cup plan.lflag \cup plan.pair :
          r.e = e /\ r.mid = m
    \/ \E i \in imported : i.e = e /\ i.u.mid = m

EmailsUsed == \A e \in Email : server[e].st # "none" => e < nextEmail
EmailsNamed ==
    \A e \in Email, m \in Mid : EmailName(e, m) => server[e].st # "none" /\ server[e].mid = m

-----------------------------------------------------------------------------
(* What any step does to the maildir and to the server: a file or an email *)
(* keeps its Message-ID, a new one takes the next id, a destroyed email    *)
(* stays destroyed.                                                        *)

DiskStep ==
    /\ nextFile' \in {nextFile, nextFile + 1}
    /\ \A f \in File : OnDisk(f)' =>
          \/ OnDisk(f) /\ disk'[f].mid = disk[f].mid
          \/ f = nextFile /\ nextFile' = nextFile + 1
EmailStep ==
    \A e \in Email : server[e].st # "none" =>
        /\ server'[e].st # "none" /\ server'[e].mid = server[e].mid
        /\ server[e].st = "gone" => server'[e].st = "gone"

LEMMA FilePut ==
    ASSUME DiskTypes, nextFile \in File, nextFile' = nextFile + 1, NEW g \in File, NEW x, NEW y,
           disk' = [disk EXCEPT ![nextFile] = x] \/ disk' = [disk EXCEPT ![g] = NoFileHere, ![nextFile] = y]
    PROVE  DiskStep
BY DEF DiskTypes, DiskStep, OnDisk, NoFileHere

LEMMA FileChanged ==
    ASSUME DiskTypes, nextFile' = nextFile, NEW g \in File, NEW x, disk' = [disk EXCEPT ![g] = x],
           x.sub = "none" \/ (OnDisk(g) /\ x.mid = disk[g].mid)
    PROVE  DiskStep
BY DEF DiskTypes, DiskStep, OnDisk

LEMMA DiskStill == UNCHANGED diskVars => DiskStep
BY DEF DiskStep, diskVars, OnDisk

LEMMA ServerStill == EmailsUsed /\ UNCHANGED serverVars => EmailStep /\ EmailsUsed'
BY DEF EmailStep, EmailsUsed, serverVars

LEMMA EmailPut ==
    ASSUME ServerTypes, EmailsUsed, nextEmail \in Email, nextEmail' = nextEmail + 1,
           NEW x, server' = [server EXCEPT ![nextEmail] = x]
    PROVE  EmailStep /\ EmailsUsed'
<1>1. server[nextEmail].st = "none"
    BY DEF EmailsUsed, Email, ServerTypes
<1>2. EmailStep
    BY <1>1 DEF ServerTypes, EmailStep
<1>3. ASSUME NEW e \in Email, server'[e].st # "none" PROVE e < nextEmail'
    BY <1>3 DEF ServerTypes, EmailsUsed, Email
<1> QED
    BY <1>2, <1>3 DEF EmailsUsed

\* The steps of the executor that touch a file.
LEMMA ExecDiskSteps ==
    ASSUME DiskTypes
    PROVE  /\ \A d \in Download : Delivered(d) => DiskStep
           /\ \A a \in UpdateLocalFlags : Observed(a.f, a.box) /\ FlagDisk(a) => DiskStep
           /\ \A a \in MoveLocal : Observed(a.f, a.from) /\ MoveDisk(a) => DiskStep
           /\ \A a \in DeleteLocal : DeleteDisk(a) => DiskStep
<1>1. ASSUME NEW d \in Download, Delivered(d) PROVE DiskStep
    BY <1>1, FilePut DEF Delivered
<1>2. ASSUME NEW a \in UpdateLocalFlags, Observed(a.f, a.box), FlagDisk(a) PROVE DiskStep
    <2>1. a.f \in File /\ OnDisk(a.f)
        BY <1>2 DEF UpdateLocalFlags, Observed
    <2>2. [disk[a.f] EXCEPT !.sub = "cur", !.fl = a.fl].mid = disk[a.f].mid
        BY <2>1 DEF DiskTypes, MaildirFile, NoFileHere
    <2> QED
        BY <1>2, <2>1, <2>2, FileChanged DEF FlagDisk
<1>3. ASSUME NEW a \in MoveLocal, Observed(a.f, a.from), MoveDisk(a) PROVE DiskStep
    <2>1. a.f \in File /\ OnDisk(a.f)
        BY <1>3 DEF MoveLocal, Observed
    <2>2. [disk[a.f] EXCEPT !.box = a.to].mid = disk[a.f].mid
        BY <2>1 DEF DiskTypes, MaildirFile, NoFileHere
    <2> QED
        BY <1>3, <2>1, <2>2, FileChanged DEF MoveDisk
<1>4. ASSUME NEW a \in DeleteLocal, DeleteDisk(a) PROVE DiskStep
    <2>1. NoFileHere.sub = "none" /\ a.f \in File
        BY <1>4 DEF NoFileHere, DeleteLocal
    <2> QED
        BY <1>4, <2>1, FileChanged, DiskStill DEF DeleteDisk, diskVars
<1> QED
    BY <1>1, <1>2, <1>3, <1>4

LEMMA UserDiskSteps ==
    ASSUME DiskTypes, UserActs PROVE DiskStep
<1> USE DEF UserActs
<1>1. ASSUME NEW b \in Box, NEW m \in Mid, NEW fl, UserNew(b, m, fl) PROVE DiskStep
    BY <1>1, FilePut DEF UserNew, PutFile
<1>2. ASSUME NEW f \in File, NEW b \in Box, UserCopy(f, b) PROVE DiskStep
    BY <1>2, FilePut DEF UserCopy, PutFile
<1>3. ASSUME NEW f \in File, NEW b \in Box, UserMove(f, b) PROVE DiskStep
    <2>1. [disk[f] EXCEPT !.box = b, !.sub = "cur"].mid = disk[f].mid
        BY DEF DiskTypes, MaildirFile, NoFileHere
    <2>2. /\ disk' = [disk EXCEPT ![f] = [disk[f] EXCEPT !.box = b, !.sub = "cur"]]
          /\ nextFile' = nextFile /\ OnDisk(f)
        BY <1>3 DEF UserMove, DiskTypes
    <2> QED
        BY <2>1, <2>2, FileChanged
<1>4. ASSUME NEW f \in File, NEW b \in Box, UserRename(f, b) PROVE DiskStep
    BY <1>4, FilePut DEF UserRename
<1>5. ASSUME NEW f \in File, NEW fl, UserFlag(f, fl) PROVE DiskStep
    <2>1. [disk[f] EXCEPT !.sub = "cur", !.fl = fl].mid = disk[f].mid
        BY DEF DiskTypes, MaildirFile, NoFileHere
    <2>2. /\ disk' = [disk EXCEPT ![f] = [disk[f] EXCEPT !.sub = "cur", !.fl = fl]]
          /\ nextFile' = nextFile /\ OnDisk(f)
        BY <1>5 DEF UserFlag, DiskTypes
    <2> QED
        BY <2>1, <2>2, FileChanged
<1>6. ASSUME NEW f \in File, NEW fl, UserUnflag(f, fl) PROVE DiskStep
    <2>1. [disk[f] EXCEPT !.fl = fl].mid = disk[f].mid
        BY DEF DiskTypes, MaildirFile, NoFileHere
    <2>2. /\ disk' = [disk EXCEPT ![f] = [disk[f] EXCEPT !.fl = fl]]
          /\ nextFile' = nextFile /\ OnDisk(f)
        BY <1>6 DEF UserUnflag, DiskTypes, OnDisk
    <2> QED
        BY <2>1, <2>2, FileChanged
<1>7. ASSUME NEW f \in File, UserDelete(f) PROVE DiskStep
    BY <1>7, FileChanged DEF UserDelete, NoFileHere
<1>8. CASE DbLost
    BY <1>8, DiskStill DEF DbLost
<1> QED
    BY <1>1, <1>2, <1>3, <1>4, <1>5, <1>6, <1>7, <1>8

LEMMA ClientSteps ==
    ASSUME ServerTypes, EmailsUsed, ServerActs PROVE EmailStep /\ EmailsUsed'
<1>1. ASSUME NEW b, NEW m, NEW kw, ServerCreate(b, m, kw) PROVE EmailStep /\ EmailsUsed'
    BY <1>1, EmailPut DEF ServerCreate, NewEmail
<1>2. ASSUME NEW b, NEW e \in Email, ServerDuplicate(e, b) PROVE EmailStep /\ EmailsUsed'
    BY <1>2, EmailPut DEF ServerDuplicate, NewEmail
<1>3. ASSUME NEW e \in Email, nextEmail' = nextEmail, Live(e), NEW x,
             server' = [server EXCEPT ![e] = x], x.mid = server[e].mid, x.st \in {"live", "gone"}
      PROVE  EmailStep /\ EmailsUsed'
    BY <1>3 DEF ServerTypes, EmailStep, EmailsUsed, Live
<1>4. ASSUME NEW b, NEW e \in Email, ServerMove(e, b) PROVE EmailStep /\ EmailsUsed'
    <2> DEFINE x == [server[e] EXCEPT !.box = b, !.at = ver']
    <2>1. x.mid = server[e].mid /\ x.st = server[e].st
        BY DEF ServerTypes, EmailObject
    <2>2. server' = [server EXCEPT ![e] = x] /\ nextEmail' = nextEmail /\ Live(e)
        BY <1>4 DEF ServerMove, ServerTypes
    <2> HIDE DEF x
    <2> QED
        BY <1>3, <2>1, <2>2 DEF Live
<1>5. ASSUME NEW e \in Email, NEW kw, ServerFlag(e, kw) PROVE EmailStep /\ EmailsUsed'
    <2> DEFINE x == [server[e] EXCEPT !.kw = kw, !.at = ver']
    <2>1. x.mid = server[e].mid /\ x.st = server[e].st
        BY DEF ServerTypes, EmailObject
    <2>2. server' = [server EXCEPT ![e] = x] /\ nextEmail' = nextEmail /\ Live(e)
        BY <1>5 DEF ServerFlag, ServerTypes
    <2> HIDE DEF x
    <2> QED
        BY <1>3, <2>1, <2>2 DEF Live
<1>6. ASSUME NEW e \in Email, ServerDestroy(e) PROVE EmailStep /\ EmailsUsed'
    <2> DEFINE x == [server[e] EXCEPT !.st = "gone", !.at = ver']
    <2>1. x.mid = server[e].mid /\ x.st = "gone"
        BY DEF ServerTypes, EmailObject
    <2>2. server' = [server EXCEPT ![e] = x] /\ nextEmail' = nextEmail /\ Live(e)
        BY <1>6 DEF ServerDestroy, ServerTypes
    <2> HIDE DEF x
    <2> QED
        BY <1>3, <2>1, <2>2
<1> QED
    BY <1>1, <1>2, <1>4, <1>5, <1>6 DEF ServerActs

LEMMA SetSteps ==
    ASSUME ServerTypes, EmailsUsed, NEW refused \in SUBSET Email, RemoteSet(refused)
    PROVE  EmailStep /\ EmailsUsed'
<1>1. nextEmail' = nextEmail
    BY DEF RemoteSet
<1>2. ASSUME NEW e \in Email
      PROVE  /\ server'[e].mid = server[e].mid
             /\ server'[e].st = server[e].st \/ (Live(e) /\ server'[e].st = "gone")
    <2>1. \E k, b, v :
             \/ server'[e] = [server[e] EXCEPT !.st = "gone", !.at = v] /\ Live(e)
             \/ server'[e] = [server[e] EXCEPT !.kw = k, !.box = b, !.at = v]
             \/ server'[e] = server[e]
        BY Zenon DEF RemoteSet
    <2>2. server[e] \in EmailObject
        BY DEF ServerTypes
    <2> QED
        BY <2>1, <2>2 DEF EmailObject
<1> QED
    BY <1>1, <1>2 DEF EmailStep, EmailsUsed, Live

LEMMA WorldSteps ==
    ASSUME TypeOK, EmailsUsed, [Next]_vars PROVE DiskStep /\ EmailStep /\ EmailsUsed'
<1> USE DEF TypeOK
<1>1. CASE \E d \in Directions : StartCycle(d)
    <2>1. PICK d \in Directions : StartCycle(d)
        BY <1>1
    <2>2. nextFile' = nextFile /\ disk' = [f \in File |-> IF f \in Duplicates THEN NoFileHere ELSE disk[f]]
        BY <2>1 DEF StartCycle
    <2>3. DiskStep
        BY <2>2 DEF DiskStep, OnDisk, NoFileHere
    <2> QED
        BY <2>1, <2>3, ServerStill DEF StartCycle
<1>2. CASE Observe
    BY <1>2, DiskStill, ServerStill DEF Observe, ScanFolder, FetchChanges, ChangesRefused,
       QueryMailboxes, GetEmails, GetState, MakePlan
<1>3. CASE Execute
    <2> plan \in Plan
        BY DEF ExecTypes
    <2>1. CASE \E d \in plan.down : DownloadOne(d)
        BY <2>1, ExecDiskSteps, ServerStill DEF DownloadOne, Plan
    <2>2. CASE \E a \in plan.lflag : LocalFlag(a)
        BY <2>2, ExecDiskSteps, ServerStill DEF LocalFlag, Plan
    <2>3. CASE \E a \in plan.lmove : LocalMove(a)
        BY <2>3, ExecDiskSteps, ServerStill DEF LocalMove, Plan
    <2>4. CASE \E a \in plan.ldel : LocalDelete(a)
        BY <2>4, ExecDiskSteps, ServerStill DEF LocalDelete, Plan
    <2>5. CASE \E u \in plan.up : UploadOne(u)
        BY <2>5, DiskStill, EmailPut DEF UploadOne
    <2>6. CASE \E refused \in SUBSET Email : RemoteSet(refused)
        <3>1. UNCHANGED diskVars
            BY <2>6 DEF RemoteSet
        <3> QED
            BY <2>6, <3>1, DiskStill, SetSteps
    <2>7. CASE \/ AdoptAll \/ IndexRefuses \/ \E d \in plan.down : DownloadGone(d)
               \/ \E a \in plan.lflag : LocalFlagSkipped(a)
               \/ \E a \in plan.lmove : LocalMoveSkipped(a)
               \/ \E u \in plan.up : UploadSkipped(u)
               \/ \E i \in imported : CommitUpload(i)
               \/ MirrorSet \/ AdoptPairs \/ AdvanceCursor \/ Checkpoint
        BY <2>7, DiskStill, ServerStill DEF AdoptAll, IndexRefuses, DownloadGone,
           LocalFlagSkipped, LocalMoveSkipped, UploadSkipped, CommitUpload, MirrorSet, AdoptPairs,
           AdvanceCursor, Checkpoint
    <2> QED
        BY <1>3, <2>1, <2>2, <2>3, <2>4, <2>5, <2>6, <2>7 DEF Execute
<1>4. CASE Fails
    <2> plan \in Plan
        BY DEF ExecTypes
    <2>1. CASE DiesAfterDisk
        BY <2>1, ExecDiskSteps, ServerStill DEF DiesAfterDisk, Plan
    <2>2. CASE UploadError \/ CycleDies
        BY <2>2, DiskStill, ServerStill DEF UploadError, CycleDies
    <2> QED
        BY <1>4, <2>1, <2>2 DEF Fails
<1>5. CASE UserActs
    <2>1. UNCHANGED serverVars
        BY <1>5 DEF UserActs, UserNew, UserCopy, UserMove, UserRename, UserFlag, UserUnflag,
           UserDelete, DbLost, UserStep
    <2> QED
        BY <1>5, <2>1, UserDiskSteps, ServerStill
<1>6. CASE ServerActs
    <2>1. UNCHANGED diskVars
        BY <1>6 DEF ServerActs, ServerCreate, ServerDuplicate, ServerFlag, ServerMove,
           ServerDestroy, ServerStep
    <2> QED
        BY <1>6, <2>1, ClientSteps, DiskStill
<1>7. CASE UNCHANGED vars
    BY <1>7, DiskStill, ServerStill DEF vars
<1> QED
    BY <1>1, <1>2, <1>3, <1>4, <1>5, <1>6, <1>7 DEF Next

-----------------------------------------------------------------------------
(* The executor never goes back: behind the phase it is in there is no     *)
(* work left, and outside its phases there is no plan.                     *)

Done ==
    \A i \in 1 .. 11 : pc = ExecOrder[i] =>
        \A j \in 1 .. 11 : j < i => ~HasWork(ExecOrder[j], plan, imported, mirrors)
Phased ==
    /\ pc \notin ScanPhases => obs = NoObs
    /\ pc \notin ExecPhases \cup {"checkpoint"} => plan = EmptyPlan /\ imported = {} /\ mirrors = NoMirrors
    /\ pc # "idle" => dir \in Directions
    /\ Done

\* The actions of p that are left in q.
Shrunk(p, q) ==
    /\ p.adoptR \subseteq q.adoptR /\ p.adoptL \subseteq q.adoptL /\ p.down \subseteq q.down
    /\ p.lflag \subseteq q.lflag /\ p.lmove \subseteq q.lmove /\ p.ldel \subseteq q.ldel
    /\ p.up \subseteq q.up /\ p.rkw \subseteq q.rkw /\ p.rmove \subseteq q.rmove
    /\ p.rdel \subseteq q.rdel /\ p.pair \subseteq q.pair

LEMMA ExecNames ==
    /\ ExecOrder[1] = "adopt" /\ ExecOrder[2] = "download" /\ ExecOrder[3] = "lflag"
    /\ ExecOrder[4] = "lmove" /\ ExecOrder[5] = "ldelete" /\ ExecOrder[6] = "upload"
    /\ ExecOrder[7] = "commit" /\ ExecOrder[8] = "set" /\ ExecOrder[9] = "mirror"
    /\ ExecOrder[10] = "pair" /\ ExecOrder[11] = "cursor"
BY DEF ExecOrder

LEMMA ExecDistinct ==
    \A i, j \in 1 .. 11 : ExecOrder[i] = ExecOrder[j] => i = j
<1>1. \A i \in 1 .. 11 : i \in {1, 2, 3, 4, 5, 6, 7, 8, 9, 10, 11}
    OBVIOUS
<1> QED
    BY <1>1, ExecNames

LEMMA NextPhaseSkips ==
    ASSUME NEW k \in 1 .. 11, NEW pl, NEW im, NEW mi
    PROVE  \E i \in 1 .. 11 :
              /\ k <= i /\ NextPhase(ExecOrder[k], pl, im, mi) = ExecOrder[i]
              /\ \A j \in 1 .. 11 : k <= j /\ j < i => ~HasWork(ExecOrder[j], pl, im, mi)
<1> DEFINE S == {i \in 1 .. 11 : HasWork(ExecOrder[i], pl, im, mi)
                                   /\ \E j \in 1 .. i : ExecOrder[j] = ExecOrder[k]}
<1>1. \A i \in 1 .. 11 : i \in S <=> HasWork(ExecOrder[i], pl, im, mi) /\ k <= i
    BY ExecDistinct
<1>2. 11 \in S
    BY <1>1, ExecNames DEF HasWork
<1>3. \E x \in S : \A y \in S : x <= y
    <2>1. S \in SUBSET (0 .. 11) /\ S # {}
        BY <1>2
    <2> HIDE DEF S
    <2> QED
        BY <2>1, LeastExists
<1>4. Least(S) \in S /\ \A y \in S : Least(S) <= y
    BY <1>3 DEF Least
<1>5. NextPhase(ExecOrder[k], pl, im, mi) = ExecOrder[Least(S)]
    BY DEF NextPhase
<1>6. Least(S) \in 1 .. 11
    BY <1>4
<1> HIDE DEF S
<1> QED
    BY <1>1, <1>4, <1>5, <1>6

LEMMA PhaseAdvances ==
    ASSUME Done, NEW k \in 1 .. 11, NEW n \in {k, k + 1}, n \in 1 .. 11, pc = ExecOrder[k],
           pc' = NextPhase(ExecOrder[n], plan', imported', mirrors'),
           \A j \in 1 .. 11 : j < k /\ HasWork(ExecOrder[j], plan, imported, mirrors)'
                                => HasWork(ExecOrder[j], plan, imported, mirrors),
           n = k + 1 => ~HasWork(ExecOrder[k], plan, imported, mirrors)'
    PROVE  pc' \in ExecPhases /\ Done'
<1>1. PICK i \in 1 .. 11 :
          /\ n <= i /\ pc' = ExecOrder[i]
          /\ \A j \in 1 .. 11 : n <= j /\ j < i => ~HasWork(ExecOrder[j], plan', imported', mirrors')
    BY NextPhaseSkips
<1>2. \A j \in 1 .. 11 : j < i => ~HasWork(ExecOrder[j], plan, imported, mirrors)'
    BY <1>1 DEF Done
<1> QED
    BY <1>1, <1>2, ExecDistinct DEF Done, ExecPhases

\* What a shrunk plan still has to do.
LEMMA ShrunkWork ==
    ASSUME NEW p, NEW q, NEW im, NEW im2, NEW mi, NEW mi2, Shrunk(p, q)
    PROVE  /\ \A j \in {1, 2, 3, 4, 5, 6, 8, 10} :
                  HasWork(ExecOrder[j], p, im, mi) => HasWork(ExecOrder[j], q, im2, mi2)
           /\ im \subseteq im2 => (HasWork("commit", p, im, mi) => HasWork("commit", q, im2, mi2))
           /\ mi = mi2 => (HasWork("mirror", p, im, mi) => HasWork("mirror", q, im2, mi2))
<1>1. \A j \in {1, 2, 3, 4, 5, 6, 8, 10} :
          HasWork(ExecOrder[j], p, im, mi) => HasWork(ExecOrder[j], q, im2, mi2)
    BY ExecNames DEF HasWork, Shrunk
<1> QED
    BY <1>1 DEF HasWork

LEMMA Passed ==
    ASSUME Done
    PROVE  /\ pc \in {"download", "lflag", "lmove", "ldelete", "upload", "commit", "set", "mirror", "pair"}
                 => Adopts = {}
           /\ pc \in {"commit", "set", "mirror", "pair"}
                 => plan.down = {} /\ plan.lflag = {} /\ plan.lmove = {} /\ plan.ldel = {} /\ plan.up = {}
           /\ pc \in {"mirror", "pair"} => plan.rmove = {} /\ imported = {}
<1> DEFINE Idle(p) == ~HasWork(p, plan, imported, mirrors)
<1>1. \A i, j \in 1 .. 11 : pc = ExecOrder[i] /\ j < i => Idle(ExecOrder[j])
    BY DEF Done
<1>2. pc \in {"download", "lflag", "lmove", "ldelete", "upload", "commit", "set", "mirror", "pair"}
         => Idle("adopt")
    BY <1>1, ExecNames
<1>3. pc \in {"commit", "set", "mirror", "pair"}
         => Idle("download") /\ Idle("lflag") /\ Idle("lmove") /\ Idle("ldelete") /\ Idle("upload")
    BY <1>1, ExecNames
<1>4. pc \in {"mirror", "pair"} => Idle("set") /\ Idle("commit")
    BY <1>1, ExecNames
<1>5. /\ Idle("adopt") => Adopts = {}
      /\ Idle("download") => plan.down = {}
      /\ Idle("lflag") => plan.lflag = {}
      /\ Idle("lmove") => plan.lmove = {}
      /\ Idle("ldelete") => plan.ldel = {}
      /\ Idle("upload") => plan.up = {}
      /\ Idle("set") => plan.rmove = {}
      /\ Idle("commit") => imported = {}
    BY DEF HasWork, Adopts
<1> HIDE DEF Idle
<1> QED
    BY <1>2, <1>3, <1>4, <1>5

\* The steps of the executor that go on with the plan.
Advances ==
    /\ pc \in ExecPhases /\ pc' \in ExecPhases \cup {"checkpoint"}
    /\ Shrunk(plan', plan)
    /\ UNCHANGED <<obs, dir>>
    /\ Done'

LEMMA OneShrinks ==
    ASSUME NEW p \in Plan, NEW x
    PROVE  /\ Shrunk([p EXCEPT !.down = @ \ {x}], p)
           /\ Shrunk([p EXCEPT !.lflag = @ \ {x}], p)
           /\ Shrunk([p EXCEPT !.lmove = @ \ {x}], p)
           /\ Shrunk([p EXCEPT !.ldel = @ \ {x}], p)
           /\ Shrunk([p EXCEPT !.up = @ \ {x}], p)
           /\ Shrunk([p EXCEPT !.adoptR = {}, !.adoptL = {}], p)
           /\ Shrunk([p EXCEPT !.rkw = {}, !.rmove = {}, !.rdel = {}], p)
           /\ Shrunk([p EXCEPT !.pair = {}], p)
           /\ Shrunk(p, p)
BY DEF Shrunk, Plan

LEMMA ExecAdvances ==
    ASSUME TypeOK, Phased, Execute PROVE CycleReset \/ Advances
<1> plan \in Plan
    BY DEF TypeOK, ExecTypes
<1> Done
    BY DEF Phased
<1>1. ASSUME NEW k \in {1, 2, 3, 4, 5, 6}, NEW n \in {k, k + 1}, pc = ExecOrder[k],
             pc' = NextPhase(ExecOrder[n], plan', imported', mirrors'), Shrunk(plan', plan),
             UNCHANGED <<obs, dir>>,
             n = k + 1 => ~HasWork(ExecOrder[k], plan, imported, mirrors)'
      PROVE  Advances
    <2>1. \A j \in 1 .. 11 : j < k => j \in {1, 2, 3, 4, 5, 6, 8, 10}
        OBVIOUS
    <2>2. k \in 1 .. 11 /\ n \in 1 .. 11
        OBVIOUS
    <2> QED
        BY <1>1, <2>1, <2>2, ShrunkWork, PhaseAdvances DEF Advances, ExecPhases
<1>2. CASE AdoptAll
    <2>1. plan' = [plan EXCEPT !.adoptR = {}, !.adoptL = {}] /\ pc = ExecOrder[1]
          /\ pc' = NextPhase(ExecOrder[1 + 1], plan', imported', mirrors') /\ UNCHANGED <<obs, dir>>
        BY <1>2, ExecNames DEF AdoptAll
    <2>2. ~HasWork(ExecOrder[1], plan, imported, mirrors)'
        BY <2>1, ExecNames DEF HasWork, Plan
    <2> QED
        BY <1>1, <2>1, <2>2, OneShrinks
<1>3. ASSUME NEW d \in plan.down, DownloadOne(d) PROVE Advances
    <2>1. plan' = [plan EXCEPT !.down = @ \ {d}] /\ pc = ExecOrder[2]
          /\ pc' = NextPhase(ExecOrder[2], plan', imported', mirrors') /\ UNCHANGED <<obs, dir>>
        BY <1>3, ExecNames DEF DownloadOne
    <2>2. Shrunk(plan', plan)
        BY <2>1, OneShrinks
    <2> QED
        BY <1>1, <2>1, <2>2
<1>4. ASSUME NEW a \in plan.lflag, LocalFlag(a) \/ LocalFlagSkipped(a) PROVE Advances
    <2>1. plan' = [plan EXCEPT !.lflag = @ \ {a}] /\ pc = ExecOrder[3]
          /\ pc' = NextPhase(ExecOrder[3], plan', imported', mirrors') /\ UNCHANGED <<obs, dir>>
        BY <1>4, ExecNames DEF LocalFlag, LocalFlagSkipped
    <2>2. Shrunk(plan', plan)
        BY <2>1, OneShrinks
    <2> QED
        BY <1>1, <2>1, <2>2
<1>5. ASSUME NEW a \in plan.lmove, LocalMove(a) \/ LocalMoveSkipped(a) PROVE Advances
    <2>1. plan' = [plan EXCEPT !.lmove = @ \ {a}] /\ pc = ExecOrder[4]
          /\ pc' = NextPhase(ExecOrder[4], plan', imported', mirrors') /\ UNCHANGED <<obs, dir>>
        BY <1>5, ExecNames DEF LocalMove, LocalMoveSkipped
    <2>2. Shrunk(plan', plan)
        BY <2>1, OneShrinks
    <2> QED
        BY <1>1, <2>1, <2>2
<1>6. ASSUME NEW a \in plan.ldel, LocalDelete(a) PROVE Advances
    <2>1. plan' = [plan EXCEPT !.ldel = @ \ {a}] /\ pc = ExecOrder[5]
          /\ pc' = NextPhase(ExecOrder[5], plan', imported', mirrors') /\ UNCHANGED <<obs, dir>>
        BY <1>6, ExecNames DEF LocalDelete
    <2>2. Shrunk(plan', plan)
        BY <2>1, OneShrinks
    <2> QED
        BY <1>1, <2>1, <2>2
<1>7. ASSUME NEW u \in plan.up, UploadOne(u) \/ UploadSkipped(u) PROVE Advances
    <2>1. plan' = [plan EXCEPT !.up = @ \ {u}] /\ pc = ExecOrder[6]
          /\ pc' = NextPhase(ExecOrder[6], plan', imported', mirrors') /\ UNCHANGED <<obs, dir>>
        BY <1>7, ExecNames DEF UploadOne, UploadSkipped
    <2>2. Shrunk(plan', plan)
        BY <2>1, OneShrinks
    <2> QED
        BY <1>1, <2>1, <2>2
<1>8. ASSUME NEW i \in imported, CommitUpload(i) PROVE Advances
    <2>1. /\ plan' = plan /\ imported' \subseteq imported /\ mirrors' = mirrors /\ pc = ExecOrder[7]
          /\ pc' = NextPhase(ExecOrder[7], plan', imported', mirrors') /\ UNCHANGED <<obs, dir>>
        BY <1>8, ExecNames DEF CommitUpload
    <2>2. \A j \in 1 .. 11 : j < 7 => j \in {1, 2, 3, 4, 5, 6, 8, 10}
        OBVIOUS
    <2>3. Shrunk(plan', plan)
        BY <2>1, OneShrinks
    <2>4. \A j \in 1 .. 11 : j < 7 /\ HasWork(ExecOrder[j], plan, imported, mirrors)'
                               => HasWork(ExecOrder[j], plan, imported, mirrors)
        BY <2>2, <2>3, ShrunkWork
    <2> QED
        BY <2>1, <2>3, <2>4, PhaseAdvances DEF Advances, ExecPhases
<1>9. ASSUME NEW refused \in SUBSET Email, RemoteSet(refused) PROVE Advances
    <2> /\ plan' = [plan EXCEPT !.rkw = {}, !.rmove = {}, !.rdel = {}] /\ imported' = imported
        /\ pc = "set" /\ pc' = NextPhase("mirror", plan', imported, mirrors')
        /\ UNCHANGED <<obs, dir>>
        BY <1>9, Zenon DEF RemoteSet
    <2>1. /\ plan' = [plan EXCEPT !.rkw = {}, !.rmove = {}, !.rdel = {}] /\ imported' = imported
          /\ pc = ExecOrder[8] /\ pc' = NextPhase(ExecOrder[8 + 1], plan', imported', mirrors')
          /\ UNCHANGED <<obs, dir>>
        BY ExecNames
    <2>2. ~HasWork(ExecOrder[8], plan, imported, mirrors)'
        BY <2>1, ExecNames DEF HasWork, Plan
    <2>3. \A j \in 1 .. 11 : j < 8 => j \in {1, 2, 3, 4, 5, 6, 8, 10} \/ j = 7
        OBVIOUS
    <2>5. Shrunk(plan', plan)
        BY <2>1, OneShrinks
    <2>4. \A j \in 1 .. 11 : j < 8 /\ HasWork(ExecOrder[j], plan, imported, mirrors)'
                               => HasWork(ExecOrder[j], plan, imported, mirrors)
        <3>1. imported' \subseteq imported
            BY <2>1
        <3> QED
            BY <3>1, <2>3, <2>5, ShrunkWork, ExecNames
    <2> QED
        BY <2>1, <2>2, <2>4, <2>5, PhaseAdvances DEF Advances, ExecPhases
<1>10. CASE MirrorSet
    <2>1. /\ plan' = plan /\ imported' = imported /\ mirrors' = NoMirrors
          /\ pc = ExecOrder[9] /\ pc' = NextPhase(ExecOrder[9 + 1], plan', imported', mirrors')
          /\ UNCHANGED <<obs, dir>>
        BY <1>10, ExecNames DEF MirrorSet
    <2>2. ~HasWork(ExecOrder[9], plan, imported, mirrors)'
        BY <2>1, ExecNames DEF HasWork
    <2>3. \A j \in 1 .. 11 : j < 9 => j \in {1, 2, 3, 4, 5, 6, 8, 10} \/ j = 7
        OBVIOUS
    <2>5. Shrunk(plan', plan)
        BY <2>1, OneShrinks
    <2>4. \A j \in 1 .. 11 : j < 9 /\ HasWork(ExecOrder[j], plan, imported, mirrors)'
                               => HasWork(ExecOrder[j], plan, imported, mirrors)
        <3>1. imported' \subseteq imported
            BY <2>1
        <3> QED
            BY <3>1, <2>3, <2>5, ShrunkWork, ExecNames
    <2> QED
        BY <2>1, <2>2, <2>4, <2>5, PhaseAdvances DEF Advances, ExecPhases
<1>11. CASE AdoptPairs
    <2>1. /\ plan' = [plan EXCEPT !.pair = {}] /\ imported' = imported /\ mirrors' = mirrors
          /\ pc = ExecOrder[10] /\ pc' = ExecOrder[11] /\ UNCHANGED <<obs, dir>>
        BY <1>11, ExecNames DEF AdoptPairs
    <2>2. \A j \in 1 .. 11 : j < 11 =>
              j \in {1, 2, 3, 4, 5, 6, 8, 10} \/ j = 7 \/ j = 9
        OBVIOUS
    <2>3. ~HasWork(ExecOrder[10], plan, imported, mirrors)'
        BY <2>1, ExecNames DEF HasWork, Plan
    <2>4. Shrunk(plan', plan)
        BY <2>1, OneShrinks
    <2>5. \A j \in 1 .. 11 : j < 11 => ~HasWork(ExecOrder[j], plan, imported, mirrors)'
        <3>1. ASSUME NEW j \in 1 .. 11, j < 10 PROVE ~HasWork(ExecOrder[j], plan, imported, mirrors)
            BY <2>1, <3>1 DEF Done
        <3>2. ASSUME NEW j \in 1 .. 11, j < 10, HasWork(ExecOrder[j], plan, imported, mirrors)'
              PROVE  HasWork(ExecOrder[j], plan, imported, mirrors)
            BY <2>1, <2>2, <2>4, <3>2, ShrunkWork, ExecNames
        <3> QED
            BY <2>3, <3>1, <3>2
    <2>6. Done'
        BY <2>1, <2>5, ExecDistinct DEF Done
    <2> QED
        BY <2>1, <2>4, <2>6 DEF Advances, ExecPhases
<1>12. CASE AdvanceCursor
    <2>1. /\ plan' = plan /\ pc = ExecOrder[11] /\ pc' = "checkpoint" /\ UNCHANGED <<obs, dir>>
        BY <1>12, ExecNames DEF AdvanceCursor
    <2>2. \A i \in 1 .. 11 : ExecOrder[i] # "checkpoint"
        BY PhaseNames DEF ExecPhases
    <2>3. Shrunk(plan', plan)
        BY <2>1, OneShrinks
    <2>4. Done'
        BY <2>1, <2>2 DEF Done
    <2> QED
        BY <2>1, <2>3, <2>4 DEF Advances, ExecPhases
<1>13. CASE IndexRefuses \/ (\E d \in plan.down : DownloadGone(d)) \/ Checkpoint
    BY <1>13 DEF IndexRefuses, DownloadGone, Checkpoint, CycleFails
<1> QED
    BY <1>2, <1>3, <1>4, <1>5, <1>6, <1>7, <1>8, <1>9, <1>10, <1>11, <1>12, <1>13, Zenon DEF Execute

LEMMA PhasedSteps ==
    ASSUME TypeOK, Phased, [Next]_vars PROVE Phased'
<1>1. ASSUME CycleReset PROVE Phased'
    <2>1. \A i \in 1 .. 11 : ExecOrder[i] # "idle"
        BY PhaseNames DEF ExecPhases
    <2> QED
        BY <1>1, <2>1, PhaseNames DEF CycleReset, Phased, Done, ScanPhases
<1>2. ASSUME UNCHANGED cycleVars PROVE Phased'
    BY <1>2 DEF cycleVars, Phased, Done
<1>3. ASSUME pc' \in ScanPhases, UNCHANGED <<plan, imported, mirrors>>, pc \notin ExecPhases \cup {"checkpoint"},
             dir' \in Directions
      PROVE  Phased'
    <2>1. \A i \in 1 .. 11 : ExecOrder[i] # pc'
        BY <1>3, PhaseNames DEF ExecPhases, ScanPhases
    <2> QED
        BY <1>3, <2>1 DEF Phased, Done
<1>4. CASE \E d \in Directions : StartCycle(d)
    BY <1>3, <1>4, PhaseNames DEF StartCycle, ScanPhases
<1>5. CASE Observe
    <2>1. CASE MakePlan
        <3>1. obs' = NoObs /\ dir' = dir /\ pc' = NextPhase(ExecOrder[1], plan', imported', NoMirrors)
              /\ imported' = {} /\ dir \in Directions
            BY <2>1, ExecNames, PhaseNames DEF MakePlan, Phased
        <3>2. PICK i \in 1 .. 11 :
                 /\ pc' = ExecOrder[i]
                 /\ \A j \in 1 .. 11 : 1 <= j /\ j < i => ~HasWork(ExecOrder[j], plan', imported', NoMirrors)
            BY <3>1, NextPhaseSkips
        <3>3. mirrors' = NoMirrors
            BY <2>1, PhaseNames DEF MakePlan, Phased
        <3>4. Done'
            <4>1. \A j \in 1 .. 11 : j < i => ~HasWork(ExecOrder[j], plan, imported, mirrors)'
                BY <3>2, <3>3
            <4> QED
                BY <3>2, <4>1, ExecDistinct DEF Done
        <3>5. pc' \in ExecPhases /\ pc' # "idle"
            BY <3>2, PhaseNames DEF ExecPhases
        <3> QED
            BY <3>1, <3>4, <3>5 DEF Phased
    <2>2. CASE Observe /\ ~MakePlan
        <3>1. /\ pc' \in ScanPhases /\ UNCHANGED <<plan, imported, mirrors>> /\ dir' = dir
              /\ pc \notin ExecPhases \cup {"checkpoint", "idle"}
            BY <2>2, PhaseNames DEF Observe, ScanFolder, FetchChanges, ChangesRefused,
               QueryMailboxes, GetEmails, GetState, ScanPhases
        <3> QED
            BY <1>3, <3>1 DEF Phased
    <2> QED
        BY <1>5, <2>1, <2>2
<1>6. CASE Execute
    <2>1. ASSUME Advances PROVE Phased'
        BY <2>1, PhaseNames DEF Advances, Phased, ScanPhases
    <2> QED
        BY <1>1, <1>6, <2>1, ExecAdvances
<1>7. CASE Fails
    BY <1>1, <1>7 DEF Fails, UploadError, CycleDies, DiesAfterDisk, CycleFails
<1>8. CASE UserActs
    BY <1>2, <1>8 DEF UserActs, UserNew, UserCopy, UserMove, UserRename, UserFlag, UserUnflag,
       UserDelete, DbLost, UserStep
<1>9. CASE ServerActs
    BY <1>2, <1>9 DEF ServerActs, ServerCreate, ServerDuplicate, ServerFlag, ServerMove,
       ServerDestroy, ServerStep
<1>10. CASE UNCHANGED vars
    BY <1>2, <1>10 DEF vars
<1> QED
    BY <1>4, <1>5, <1>6, <1>7, <1>8, <1>9, <1>10 DEF Next

-----------------------------------------------------------------------------
(* Where the actions of a plan come from.                                  *)

LEMMA RemoteAdoptSource ==
    ASSUME NEW o \in Observation, NEW R \in Rows, NEW x \in RemoteAdopts(o, R)
    PROVE  \E r \in FreshRemote(o, R) :
              /\ x.e = r.e /\ x.mid = r.mid /\ x.box = r.box /\ x.oldF = NoFile
              /\ \/ \E a \in Email :
                       /\ HasRow(R, a) /\ R[a].mid = r.mid /\ R[a].box = r.box
                       /\ x.f = R[a].file /\ x.oldE = a
                       /\ ProvablyGone(o, a) /\ (a \in o.destroyed => a \in ConsumedDestroys(o, R))
                 \/ \E y \in o.index :
                       y.mid = r.mid /\ y.box = r.box /\ x.f = y.f /\ x.oldE = NoEmail
<1>1. CASE \E r \in Rebinds(o, R) :
              x = Adopt(r.e, R[AnchorOf(R, r)].file, r.box, r.mid, r.kw,
                        SeenFlags(o, R[AnchorOf(R, r)].file, R[AnchorOf(R, r)].flags),
                        TRUE, NoFile, AnchorOf(R, r))
    <2>1. PICK r \in Rebinds(o, R) :
              x = Adopt(r.e, R[AnchorOf(R, r)].file, r.box, r.mid, r.kw,
                        SeenFlags(o, R[AnchorOf(R, r)].file, R[AnchorOf(R, r)].flags),
                        TRUE, NoFile, AnchorOf(R, r))
        BY <1>1
    <2> DEFINE a == AnchorOf(R, r)
    <2>2. r \in Anchored(o, R) /\ ProvablyGone(o, a)
        BY DEF Rebinds
    <2>3. a \in RowsOf(R, r.mid, r.box)
        <3>1. RowsOf(R, r.mid, r.box) \in SUBSET Email /\ RowsOf(R, r.mid, r.box) # {}
            BY <2>2 DEF RowsOf, Anchored
        <3> QED
            BY <3>1, LeastEmail DEF AnchorOf
    <2>4. a \in o.destroyed => a \in ConsumedDestroys(o, R)
        BY DEF ConsumedDestroys
    <2>5. /\ x.e = r.e /\ x.mid = r.mid /\ x.box = r.box /\ x.oldF = NoFile
          /\ x.f = R[a].file /\ x.oldE = a
        BY <2>1 DEF Adopt
    <2>6. r \in FreshRemote(o, R)
        BY <2>2 DEF Anchored
    <2> HIDE DEF a
    <2> QED
        BY <2>2, <2>3, <2>4, <2>5, <2>6 DEF RowsOf
<1>2. CASE \E r \in Rescues(o, R) :
              LET y == CHOOSE y \in o.index : y.mid = r.mid /\ y.box = r.box IN
              x = Adopt(r.e, y.f, r.box, r.mid, r.kw, SeenFlags(o, y.f, {}), TRUE, NoFile, NoEmail)
    <2>1. PICK r \in Rescues(o, R) :
              LET y == CHOOSE y \in o.index : y.mid = r.mid /\ y.box = r.box IN
              x = Adopt(r.e, y.f, r.box, r.mid, r.kw, SeenFlags(o, y.f, {}), TRUE, NoFile, NoEmail)
        BY <1>2
    <2> DEFINE y == CHOOSE y \in o.index : y.mid = r.mid /\ y.box = r.box
    <2>2. r \in FreshRemote(o, R) /\ IndexEntries(o, r) # {}
        BY DEF Rescues, Indexed
    <2>3. y \in o.index /\ y.mid = r.mid /\ y.box = r.box
        BY <2>2 DEF IndexEntries
    <2>4. /\ x.e = r.e /\ x.mid = r.mid /\ x.box = r.box /\ x.oldF = NoFile
          /\ x.f = y.f /\ x.oldE = NoEmail
        BY <2>1 DEF Adopt
    <2> HIDE DEF y
    <2> QED
        BY <2>2, <2>3, <2>4
<1> QED
    BY <1>1, <1>2 DEF RemoteAdopts

LEMMA LocalAdoptSource ==
    ASSUME NEW o \in Observation, NEW R \in Rows, NEW moves, NEW x \in LocalAdopts(o, R, moves)
    PROVE  \E n \in LiveNews(o, R, moves) :
              /\ x.f = n.f /\ x.mid = n.mid /\ x.box = n.box
              /\ x.oldF = NoFile /\ x.oldE = NoEmail
              /\ x.e \in Email /\ HasRow(R, x.e) /\ R[x.e].mid = n.mid /\ R[x.e].box = n.box
<1>1. PICK n \in LiveNews(o, R, moves) :
          /\ RowsOf(R, n.mid, n.box) # {}
          /\ x = LET e == Least(RowsOf(R, n.mid, n.box)) IN
                 Adopt(e, n.f, n.box, n.mid, R[e].flags, n.fl, R[e].blob, NoFile, NoEmail)
    BY DEF LocalAdopts
<1> DEFINE e == Least(RowsOf(R, n.mid, n.box))
<1>2. e \in RowsOf(R, n.mid, n.box)
    <2>1. RowsOf(R, n.mid, n.box) \in SUBSET Email
        BY DEF RowsOf
    <2> QED
        BY <1>1, <2>1, LeastEmail
<1>3. /\ x.e = e /\ x.f = n.f /\ x.mid = n.mid /\ x.box = n.box
      /\ x.oldF = NoFile /\ x.oldE = NoEmail
    BY <1>1 DEF Adopt
<1> HIDE DEF e
<1> QED
    BY <1>2, <1>3 DEF RowsOf

LEMMA FlagSource ==
    ASSUME NEW o \in Observation, NEW R \in Rows, NEW byMid \in NewsByMid(o),
           NEW x \in PlanOf(o, R, byMid).lflag
    PROVE  \/ \E a \in PlanOf(o, R, byMid).adoptR \cup PlanOf(o, R, byMid).adoptL :
                 x.f = a.f /\ x.e = a.e /\ x.mid = a.mid /\ x.box = a.box
           \/ /\ x.e \in Email /\ HasRow(R, x.e)
              /\ x.f = R[x.e].file /\ x.mid = R[x.e].mid
<1> DEFINE moves == DetectedMoves(o, R, byMid)
           adopts == RemoteAdopts(o, R) \cup LocalAdopts(o, R, moves)
<1>1. PlanOf(o, R, byMid).adoptR \cup PlanOf(o, R, byMid).adoptL = adopts
    BY DEF PlanOf
<1>2. \/ x \in AdoptionFlags(o, adopts)
      \/ \E r \in ServerFlagWins(o, R, moves) :
            x = [f |-> R[r.e].file, e |-> r.e, box |-> R[r.e].box, mid |-> R[r.e].mid, fl |-> r.kw]
    BY DEF PlanOf
<1>3. CASE x \in AdoptionFlags(o, adopts)
    <2>1. PICK a \in adopts : x = [f |-> a.f, e |-> a.e, box |-> a.box, mid |-> a.mid, fl |-> a.kw]
        BY <1>3 DEF AdoptionFlags, Disagreeing
    <2>2. x.f = a.f /\ x.e = a.e /\ x.mid = a.mid /\ x.box = a.box
        BY <2>1
    <2> QED
        BY <1>1, <2>2
<1>4. CASE x \notin AdoptionFlags(o, adopts)
    <2>1. PICK r \in ServerFlagWins(o, R, moves) :
            x = [f |-> R[r.e].file, e |-> r.e, box |-> R[r.e].box, mid |-> R[r.e].mid, fl |-> r.kw]
        BY <1>2, <1>4
    <2>2. r \in KnownRemote(o, R)
        BY DEF ServerFlagWins, Drifted, Steady
    <2>3. r.e \in Email /\ HasRow(R, r.e)
        BY <2>2, MatchedTypes DEF KnownRemote
    <2> QED
        BY <2>1, <2>3
<1> QED
    BY <1>3, <1>4

LEMMA PairSource ==
    ASSUME NEW o \in Observation, NEW R \in Rows, NEW byMid \in NewsByMid(o),
           NEW x \in PlanOf(o, R, byMid).pair
    PROVE  /\ x.e \in Email /\ x.oldF = R[x.e].file /\ x.oldE = NoEmail /\ x.mid = R[x.e].mid
           /\ \E b \in PlanOf(o, R, byMid).rmove : b.e = x.e
           /\ \E d \in o.dels : d.f = x.oldF
           /\ \E n \in o.news : n.mid = x.mid /\ n.f = x.f /\ n.box = x.box
           /\ x.f \in {m.new.f : m \in DetectedMoves(o, R, byMid)}
<1>1. PICK m \in DetectedMoves(o, R, byMid) :
          x = Adopt(m.e, m.new.f, m.new.box, m.new.mid, m.new.fl, m.new.fl, m.blob, m.oldF, NoEmail)
    BY DEF PlanOf
<1>2. PICK z \in o.dels \X Email :
          /\ R[z[2]].file = z[1].f /\ R[z[2]].mid \in DOMAIN byMid
          /\ m = [e |-> z[2], oldF |-> z[1].f, prior |-> R[z[2]].flags, blob |-> R[z[2]].blob,
                  new |-> byMid[R[z[2]].mid]]
    BY DEF DetectedMoves
<1>3. m.e = z[2] /\ m.oldF = z[1].f /\ m.new = byMid[R[z[2]].mid] /\ z[1] \in o.dels /\ z[2] \in Email
    BY <1>2
<1>4. m.new \in o.news /\ m.new.mid = R[z[2]].mid
    <2>1. byMid \in [DOMAIN byMid -> o.news] /\ \A i \in DOMAIN byMid : byMid[i].mid = i
        BY DEF NewsByMid
    <2> QED
        BY <1>2, <1>3, <2>1
<1>5. /\ x.e = m.e /\ x.f = m.new.f /\ x.box = m.new.box /\ x.mid = m.new.mid /\ x.oldF = m.oldF
      /\ x.oldE = NoEmail
    BY <1>1 DEF Adopt
<1>6. \E b \in PlanOf(o, R, byMid).rmove : b.e = x.e
    <2>1. [e |-> m.e, to |-> m.new.box] \in PlanOf(o, R, byMid).rmove
        BY DEF PlanOf
    <2>2. [e |-> m.e, to |-> m.new.box].e = x.e
        BY <1>5
    <2> QED
        BY <2>1, <2>2
<1> QED
    BY <1>2, <1>3, <1>4, <1>5, <1>6

\* What reconcile moves or deletes on disk is the file of a row; what it moves
\* belongs to an email that is neither gone nor deleted here.
LEMMA MoveSource ==
    ASSUME NEW o \in Observation, NEW R \in Rows, NEW byMid \in NewsByMid(o),
           NEW x \in PlanOf(o, R, byMid).lmove
    PROVE  \E r \in Steady(o, R, DetectedMoves(o, R, byMid)) :
              /\ x.e = r.e /\ x.e \in Email /\ HasRow(R, x.e) /\ x.f = R[x.e].file
              /\ x.e \notin LocalDeletes(o, R, DetectedMoves(o, R, byMid))
              /\ ~ProvablyGone(o, x.e)
<1> DEFINE moves == DetectedMoves(o, R, byMid)
<1>1. PICK r \in Steady(o, R, moves) :
          x = [f |-> R[r.e].file, e |-> r.e, from |-> R[r.e].box, to |-> r.box]
    BY DEF PlanOf
<1>2. r \in KnownRemote(o, R) /\ r.e \notin LocalDeletes(o, R, moves)
    BY DEF Steady, DeleteConflicts
<1>3. r \in o.remote /\ r.e \notin o.destroyed /\ HasRow(R, r.e) /\ r.e \in Email
    BY <1>2, MatchedTypes DEF KnownRemote, Matched
<1> QED
    BY <1>1, <1>2, <1>3 DEF ProvablyGone

LEMMA DeleteSource ==
    ASSUME NEW o \in Observation, NEW R \in Rows, NEW byMid \in NewsByMid(o),
           NEW x \in PlanOf(o, R, byMid).ldel
    PROVE  /\ x.e \in o.destroyed /\ x.e \in Email /\ x.e \notin ConsumedDestroys(o, R)
           /\ HasRow(R, x.e) /\ x.f = R[x.e].file
BY DEF PlanOf, Observation

LEMMA DownSource ==
    ASSUME NEW o \in Observation, NEW R \in Rows, NEW byMid \in NewsByMid(o),
           NEW x \in PlanOf(o, R, byMid).down
    PROVE  \E r \in Matched(o) :
              /\ x.e = r.e /\ x.mid = r.mid
              /\ ~HasRow(R, x.e) \/ x.e \in LocalDeletes(o, R, DetectedMoves(o, R, byMid))
<1> DEFINE moves == DetectedMoves(o, R, byMid)
<1>1. PICK r \in Restores(o, R, moves) \cup FreshRemote(o, R) :
          x = [e |-> r.e, box |-> r.box, mid |-> r.mid, kw |-> r.kw]
    BY DEF PlanOf, Downloads
<1>2. r \in Matched(o) /\ (~HasRow(R, r.e) \/ r.e \in LocalDeletes(o, R, moves))
    BY DEF Restores, DeleteConflicts, KnownRemote, FreshRemote
<1> QED
    BY <1>1, <1>2

LEMMA FilteredShrinks ==
    ASSUME NEW p \in Plan, NEW direction
    PROVE  /\ Shrunk(Filtered(p, direction), p)
           /\ Filtered(p, direction).pair = p.pair
           /\ direction # "PullOnly" => Filtered(p, direction).rmove = p.rmove
BY DEF Filtered, Plan, Shrunk

\* The plan a cycle makes, before it is filtered.
LEMMA MadePlan ==
    ASSUME TypeOK, Phased, MakePlan
    PROVE  /\ obs \in Observation /\ rows \in Rows /\ obs' = NoObs /\ imported = {}
           /\ UNCHANGED <<disk, nextFile, server, nextEmail, rows, ls, imported, failed>>
           /\ \E byMid \in NewsByMid(obs) :
                 /\ Shrunk(plan', PlanOf(obs, rows, byMid))
                 /\ plan'.pair = PlanOf(obs, rows, byMid).pair
                 /\ dir # "PullOnly" => plan'.rmove = PlanOf(obs, rows, byMid).rmove
<1>1. obs \in Observation /\ rows \in Rows
    BY DEF TypeOK, ScanTypes, DbTypes
<1>2. PICK byMid \in NewsByMid(obs) : plan' = Filtered(PlanOf(obs, rows, byMid), dir)
    BY DEF MakePlan
<1>3. PlanOf(obs, rows, byMid) = Filtered(PlanOf(obs, rows, byMid), "Both")
    BY DEF Filtered
<1>4. PlanOf(obs, rows, byMid) \in Plan
    BY <1>1, <1>3, PlanWellFormed
<1>5. imported = {}
    BY PhaseNames DEF MakePlan, Phased
<1> QED
    BY <1>1, <1>2, <1>4, <1>5, FilteredShrinks DEF MakePlan, diskVars, serverVars, dbVars

-----------------------------------------------------------------------------
(* Every step keeps the Message-IDs of files and emails.                   *)

LEMMA FileNamesKept ==
    ASSUME DiskTypes, DiskStep, FilesNamed,
           \A f \in File, m \in Mid :
              Named(f, m)' => Named(f, m) \/ DiskName(f, m) \/ DiskName(f, m)',
           \A a \in (plan.lmove \cup plan.ldel)' : a.f \in File /\ a.f < nextFile
    PROVE  FilesNamed'
<1> DEFINE Old(f, m) == DiskName(f, m) \/ Named(f, m)
           New(f, m) == DiskName(f, m)' \/ Named(f, m)'
<1>1. nextFile' \in {nextFile, nextFile + 1} /\ nextFile \in Nat
    BY DEF DiskTypes, DiskStep
<1>2. ASSUME NEW f \in File, NEW m \in Mid, New(f, m) PROVE Old(f, m) \/ DiskName(f, m)'
    BY <1>2
<1>3. ASSUME NEW f \in File, NEW m \in Mid, DiskName(f, m)'
      PROVE  DiskName(f, m) \/ (f = nextFile /\ nextFile' = nextFile + 1)
    BY <1>3 DEF DiskName, DiskStep
<1>4. \A f \in File, m \in Mid : Old(f, m) => f < nextFile
    BY DEF FilesNamed
<1>5. \A f \in File, m, n \in Mid : Old(f, m) /\ Old(f, n) => m = n
    BY DEF FilesNamed
<1>6. \A f \in File, m, n \in Mid : DiskName(f, m)' /\ DiskName(f, n)' => m = n
    BY DEF DiskName
<1>7. \A f \in File, m \in Mid : DiskName(f, m) => Old(f, m)
    OBVIOUS
<1>8. \A a \in (plan.lmove \cup plan.ldel)' : a.f < nextFile'
    BY <1>1 DEF File
<1> HIDE DEF Old, New
<1>9. ASSUME NEW f \in File, NEW m \in Mid, New(f, m) PROVE f < nextFile'
    <2>1. f \in Nat
        BY DEF File
    <2>2. CASE Old(f, m)
        BY <1>1, <1>4, <2>1, <2>2
    <2>3. CASE f = nextFile /\ nextFile' = nextFile + 1
        BY <1>1, <2>3
    <2> QED
        BY <1>2, <1>3, <1>7, <1>9, <2>2, <2>3
<1>10. ASSUME NEW f \in File, NEW m \in Mid, NEW n \in Mid, New(f, m), New(f, n) PROVE m = n
    <2>1. CASE f < nextFile
        <3>1. \A i \in Mid : New(f, i) => Old(f, i)
            BY <1>1, <1>2, <1>3, <1>7, <2>1
        <3> QED
            BY <1>5, <1>10, <3>1
    <2>2. CASE ~(f < nextFile)
        BY <1>2, <1>4, <1>6, <1>10, <2>2
    <2> QED
        BY <2>1, <2>2
<1> QED
    BY <1>8, <1>9, <1>10 DEF FilesNamed, New

\* What the executor leaves in a row: nothing, the file that was there, the file
\* of an action on this email, or a file just downloaded.
RowsStep ==
    \A e \in Email :
        \/ rows'[e].file = NoFile
        \/ rows'[e].file = rows[e].file /\ rows'[e].mid = rows[e].mid
        \/ \E x \in Adopts \cup plan.lflag :
              x.e = e /\ rows'[e].file = x.f /\ rows'[e].mid = x.mid
        \/ \E d \in plan.down :
              /\ d.e = e /\ rows'[e].file = nextFile /\ rows'[e].mid = d.mid
              /\ disk'[nextFile].sub # "none" /\ disk'[nextFile].mid = d.mid
        \/ /\ pc = "commit" \/ plan' = EmptyPlan
           /\ \E i \in imported \ imported' :
                 i.e = e /\ rows'[e].file = i.u.f /\ rows'[e].mid = i.u.mid
        \/ /\ pc = "pair" /\ plan'.pair = {}
           /\ \E x \in LandedPairs :
                 x.e = e /\ rows'[e].file = x.f /\ rows'[e].mid = x.mid

\* What the executor has imported and not committed.
ImportStep ==
    \/ imported' \subseteq imported
    \/ \E u \in plan.up :
          /\ imported' = imported \cup {[u |-> u, e |-> nextEmail]}
          /\ plan'.up = plan.up \ {u}
          /\ nextEmail \in Email
          /\ server'[nextEmail].st = "live" /\ server'[nextEmail].mid = u.mid

LEMMA RowFacts ==
    /\ NoRow.file = NoFile
    /\ \A a : AdoptRow(a).file = a.f /\ AdoptRow(a).mid = a.mid /\ AdoptRow(a).box = a.box
    /\ \A i : UploadRow(i).file = i.u.f /\ UploadRow(i).mid = i.u.mid /\ UploadRow(i).box = i.u.box
    /\ \A i : UploadState(i).box = i.u.box
BY DEF NoRow, AdoptRow, UploadRow, UploadState

LEMMA LastForIn ==
    ASSUME NEW A \in SUBSET AdoptAction, NEW e, \E a \in A : a.e = e
    PROVE  LastFor(A, e) \in A /\ LastFor(A, e).e = e
<1> DEFINE S == {a.f : a \in {x \in A : x.e = e}}
<1>1. S \in SUBSET (0 .. MaxFile) /\ S # {}
    BY BoundAssumption DEF AdoptAction, File
<1>2. PICK f \in S : \A g \in S : g <= f
    <2> HIDE DEF S
    <2> QED
        BY <1>1, BoundAssumption, GreatestExists
<1>3. \E a \in A : a.e = e /\ \A x \in A : x.e = e => x.f <= a.f
    BY <1>2
<1> QED
    BY <1>3 DEF LastFor

LEMMA AdoptedRow ==
    ASSUME NEW R \in Rows, NEW A \in SUBSET AdoptAction, NEW e \in Email
    PROVE  \/ AdoptRows(R, A)[e] = R[e] /\ ~\E a \in A : a.e = e \/ a.oldE = e
           \/ AdoptRows(R, A)[e] = NoRow
           \/ \E a \in A : a.e = e /\ AdoptRows(R, A)[e] = AdoptRow(a)
BY LastForIn DEF AdoptRows

LEMMA ExecRows ==
    ASSUME TypeOK, Execute \/ Fails PROVE RowsStep /\ ImportStep
<1> plan \in Plan /\ rows \in Rows
    BY DEF TypeOK, ExecTypes, DbTypes
<1>1. ASSUME UNCHANGED rows PROVE RowsStep
    BY <1>1 DEF RowsStep
<1>2. ASSUME imported' \subseteq imported PROVE ImportStep
    BY <1>2 DEF ImportStep
<1>3. CASE AdoptAll
    <2> DEFINE R1 == AdoptRows(rows, plan.adoptR)
    <2>1. /\ plan.adoptR \in SUBSET AdoptAction /\ plan.adoptL \in SUBSET AdoptAction
          /\ R1 \in Rows
        BY AdoptRowsType DEF Plan
    <2>2. rows' = AdoptRows(R1, plan.adoptL) /\ imported' = imported
        BY <1>3 DEF AdoptAll, UnconditionalRows
    <2> HIDE DEF R1
    <2>3. ASSUME NEW e \in Email
          PROVE  \/ rows'[e] = NoRow \/ rows'[e] = rows[e]
                 \/ \E x \in Adopts : x.e = e /\ rows'[e] = AdoptRow(x)
        <3>1. \/ rows'[e] = R1[e] \/ rows'[e] = NoRow
              \/ \E x \in plan.adoptL : x.e = e /\ rows'[e] = AdoptRow(x)
            BY <2>1, <2>2, AdoptedRow
        <3>2. \/ R1[e] = rows[e] \/ R1[e] = NoRow
              \/ \E x \in plan.adoptR : x.e = e /\ R1[e] = AdoptRow(x)
            BY <2>1, AdoptedRow DEF R1
        <3> QED
            BY <3>1, <3>2 DEF Adopts
    <2>4. ASSUME NEW e \in Email, NEW x, rows'[e] = AdoptRow(x)
          PROVE  rows'[e].file = x.f /\ rows'[e].mid = x.mid
        BY <2>4, RowFacts
    <2>5. ASSUME NEW e \in Email, rows'[e] = NoRow PROVE rows'[e].file = NoFile
        BY <2>5, RowFacts
    <2> QED
        BY <1>2, <2>2, <2>3, <2>4, <2>5 DEF RowsStep
<1>4. ASSUME NEW d \in plan.down, DownloadOne(d) PROVE RowsStep /\ ImportStep
    <2>1. /\ imported' = imported /\ nextFile \in File
          /\ rows' = [rows EXCEPT ![d.e] = [box |-> d.box, mid |-> d.mid, file |-> nextFile,
                                           flags |-> d.kw, blob |-> TRUE]]
          /\ disk' = [disk EXCEPT ![nextFile] =
                        [sub |-> Sub(d.kw), box |-> d.box, mid |-> d.mid, fl |-> d.kw]]
        BY <1>4 DEF DownloadOne, Delivered
    <2>2. disk'[nextFile].sub # "none" /\ disk'[nextFile].mid = d.mid
        <3>1. disk'[nextFile] = [sub |-> Sub(d.kw), box |-> d.box, mid |-> d.mid, fl |-> d.kw]
            BY <2>1 DEF TypeOK, DiskTypes
        <3> QED
            BY <3>1 DEF Sub
    <2> QED
        BY <1>2, <2>1, <2>2 DEF RowsStep, Rows
<1>5. ASSUME NEW a \in plan.lflag, LocalFlag(a) PROVE RowsStep /\ ImportStep
    BY <1>2, <1>5 DEF LocalFlag, FlagRows, RowsStep, Rows
<1>6. ASSUME NEW a \in plan.lmove, LocalMove(a) PROVE RowsStep /\ ImportStep
    <2>1. rows' = rows \/ rows' = [rows EXCEPT ![a.e] = [rows[a.e] EXCEPT !.box = a.to]]
        BY <1>6 DEF LocalMove, Rows
    <2>2. a.e \in Email
        BY DEF Plan, MoveLocal
    <2>3. LET r == [rows[a.e] EXCEPT !.box = a.to] IN r.file = rows[a.e].file /\ r.mid = rows[a.e].mid
        BY <2>2 DEF Rows, Row, NoRow
    <2> QED
        BY <1>1, <1>2, <1>6, <2>1, <2>2, <2>3 DEF LocalMove, RowsStep, Rows
<1>7. ASSUME NEW a \in plan.ldel, LocalDelete(a) PROVE RowsStep /\ ImportStep
    BY <1>2, <1>7 DEF LocalDelete, RowsStep, Rows, NoRow
<1>8. ASSUME NEW u \in plan.up, UploadOne(u) PROVE RowsStep /\ ImportStep
    <2>1. UNCHANGED rows
        BY <1>8 DEF UploadOne, dbVars
    <2>2. /\ imported' = imported \cup {[u |-> u, e |-> nextEmail]} /\ nextEmail \in Email
          /\ plan' = [plan EXCEPT !.up = @ \ {u}]
          /\ server' = [server EXCEPT ![nextEmail] =
                          [st |-> "live", box |-> u.box, mid |-> u.mid, kw |-> u.fl, at |-> ver']]
        BY <1>8 DEF UploadOne
    <2>3. server'[nextEmail].st = "live" /\ server'[nextEmail].mid = u.mid
        BY <2>2 DEF TypeOK, ServerTypes
    <2>4. plan'.up = plan.up \ {u}
        BY <2>2 DEF Plan
    <2> QED
        BY <1>1, <2>1, <2>2, <2>3, <2>4 DEF ImportStep
<1>9. ASSUME NEW i \in imported, CommitUpload(i) PROVE RowsStep /\ ImportStep
    <2>1. rows' = [rows EXCEPT ![i.e] = UploadRow(i)] /\ imported' = imported \ {i} /\ pc = "commit"
        BY <1>9 DEF CommitUpload
    <2>2. UploadRow(i).file = i.u.f /\ UploadRow(i).mid = i.u.mid
        BY DEF UploadRow
    <2> QED
        BY <1>2, <2>1, <2>2 DEF RowsStep, Rows
<1>10. CASE MirrorSet
    <2>1. imported' = imported /\ \A e \in Email :
             rows'[e] = NoRow \/ rows'[e] = rows[e]
             \/ \E fl : rows'[e] = [rows[e] EXCEPT !.flags = fl]
        BY <1>10 DEF MirrorSet
    <2>2. ASSUME NEW e \in Email, NEW fl, rows'[e] = [rows[e] EXCEPT !.flags = fl]
          PROVE  rows'[e].file = rows[e].file /\ rows'[e].mid = rows[e].mid
        BY <2>2 DEF Rows, Row, NoRow
    <2> QED
        <3>1. ASSUME NEW e \in Email
              PROVE  \/ rows'[e].file = NoFile
                     \/ rows'[e].file = rows[e].file /\ rows'[e].mid = rows[e].mid
            BY <2>1, <2>2, RowFacts, Zenon
        <3> QED
            BY <1>2, <2>1, <3>1 DEF RowsStep
<1>11. CASE AdoptPairs
    <2>1. LandedPairs \in SUBSET AdoptAction
        BY DEF LandedPairs, Plan
    <2>2. /\ rows' = AdoptRows(rows, LandedPairs) /\ imported' = imported /\ pc = "pair"
          /\ plan'.pair = {}
        BY <1>11 DEF AdoptPairs, Plan
    <2>3. \A e \in Email :
              \/ rows'[e] = rows[e] \/ rows'[e] = NoRow
              \/ \E x \in LandedPairs : x.e = e /\ rows'[e] = AdoptRow(x)
        BY <2>1, <2>2, AdoptedRow
    <2>4. ASSUME NEW e \in Email, NEW x, rows'[e] = AdoptRow(x)
          PROVE  rows'[e].file = x.f /\ rows'[e].mid = x.mid
        BY <2>4, RowFacts
    <2>5. ASSUME NEW e \in Email, rows'[e] = NoRow PROVE rows'[e].file = NoFile
        BY <2>5, RowFacts
    <2> QED
        BY <1>2, <2>2, <2>3, <2>4, <2>5 DEF RowsStep
<1>12. CASE UploadError
    <2>1. imported' = {} /\ plan' = EmptyPlan
        BY <1>12 DEF UploadError, CycleFails, CycleReset, TypeOK, ExecTypes
    <2>2. ASSUME NEW e \in Email
          PROVE  \/ rows'[e] = rows[e]
                 \/ \E i \in imported : i.e = e /\ rows'[e] = UploadRow(i)
        BY <1>12 DEF UploadError, Uploaded
    <2> QED
        <3>1. ASSUME NEW e \in Email, NEW i, rows'[e] = UploadRow(i)
              PROVE  rows'[e].file = i.u.f /\ rows'[e].mid = i.u.mid
            BY <3>1, RowFacts
        <3> QED
            BY <1>2, <2>1, <2>2, <3>1 DEF RowsStep
<1>13. ASSUME NEW refused \in SUBSET Email, RemoteSet(refused) PROVE RowsStep /\ ImportStep
    <2>1. UNCHANGED <<dbVars, imported>>
        BY <1>13, Zenon DEF RemoteSet
    <2> QED
        BY <1>1, <1>2, <2>1 DEF dbVars
<1>14. CASE \/ IndexRefuses
            \/ \E d \in plan.down : DownloadGone(d)
            \/ \E a \in plan.lflag : LocalFlagSkipped(a)
            \/ \E a \in plan.lmove : LocalMoveSkipped(a)
            \/ \E u \in plan.up : UploadSkipped(u)
            \/ AdvanceCursor \/ Checkpoint
            \/ CycleDies \/ DiesAfterDisk
    <2>1. UNCHANGED rows /\ imported' \subseteq imported
        BY <1>14 DEF IndexRefuses, DownloadGone, LocalFlagSkipped, LocalMoveSkipped, UploadSkipped,
           AdvanceCursor, Checkpoint, CycleDies, DiesAfterDisk, CycleFails,
           CycleReset, dbVars
    <2> QED
        BY <1>1, <1>2, <2>1
<1> QED
    BY <1>3, <1>4, <1>5, <1>6, <1>7, <1>8, <1>9, <1>10, <1>11, <1>12, <1>13, <1>14, Zenon
       DEF Execute, Fails

LEMMA EmailNamesKept ==
    ASSUME EmailStep, EmailsNamed,
           \A e \in Email, m \in Mid :
              EmailName(e, m)' => \/ EmailName(e, m)
                                  \/ server'[e].st # "none" /\ server'[e].mid = m
    PROVE  EmailsNamed'
BY DEF EmailsNamed, EmailStep

\* A plan names what the rows, the scan and the server's answers named.
LEMMA MadePlanNames ==
    ASSUME TypeOK, Phased, MakePlan
    PROVE  /\ \A f \in File, m \in Mid : Named(f, m)' => Named(f, m)
           /\ \A e \in Email, m \in Mid : EmailName(e, m)' => EmailName(e, m)
           /\ \A a \in (plan.lmove \cup plan.ldel)' : a.f \in File /\ \E m \in Mid : RowName(a.f, m)
<1>1. PICK byMid \in NewsByMid(obs) :
         /\ Shrunk(plan', PlanOf(obs, rows, byMid))
         /\ plan'.pair = PlanOf(obs, rows, byMid).pair
    BY MadePlan
<1> DEFINE p == PlanOf(obs, rows, byMid)
<1>2. obs \in Observation /\ rows \in Rows /\ rows' = rows /\ obs' = NoObs /\ imported' = {}
    BY MadePlan
<1>3. ASSUME NEW x \in p.adoptR \cup p.adoptL
      PROVE  RowName(x.f, x.mid) \/ SeenName(x.f, x.mid)
    <2>1. CASE x \in RemoteAdopts(obs, rows)
        BY <1>2, <2>1, RemoteAdoptSource DEF RowName, SeenName
    <2>2. CASE x \in LocalAdopts(obs, rows, DetectedMoves(obs, rows, byMid))
        BY <1>2, <2>2, LocalAdoptSource DEF SeenName, LiveNews
    <2> QED
        BY <2>1, <2>2 DEF PlanOf
<1>4. ASSUME NEW x \in p.adoptR \cup p.adoptL
      PROVE  \/ \E r \in obs.remote : r.e = x.e /\ r.mid = x.mid
             \/ HasRow(rows, x.e) /\ rows[x.e].mid = x.mid
    <2>1. CASE x \in RemoteAdopts(obs, rows)
        BY <1>2, <2>1, RemoteAdoptSource DEF FreshRemote, Matched
    <2>2. CASE x \in LocalAdopts(obs, rows, DetectedMoves(obs, rows, byMid))
        BY <1>2, <2>2, LocalAdoptSource
    <2> QED
        BY <2>1, <2>2 DEF PlanOf
<1>5. ASSUME NEW x \in p.lflag
      PROVE  \/ \E a \in p.adoptR \cup p.adoptL : x.f = a.f /\ x.e = a.e /\ x.mid = a.mid
             \/ x.e \in Email /\ HasRow(rows, x.e) /\ x.f = rows[x.e].file /\ x.mid = rows[x.e].mid
    BY <1>2, FlagSource
<1>6. ASSUME NEW x \in p.pair
      PROVE  /\ x.e \in Email /\ x.oldF = rows[x.e].file /\ x.mid = rows[x.e].mid
             /\ SeenName(x.f, x.mid)
             /\ \E d \in obs.dels : d.f = x.oldF
    BY <1>2, PairSource DEF SeenName
<1>7. ASSUME NEW x \in p.up PROVE SeenName(x.f, x.mid)
    BY DEF PlanOf, Uploads, LiveNews, SeenName
<1>8. /\ Adopts' \subseteq p.adoptR \cup p.adoptL /\ plan'.lflag \subseteq p.lflag
      /\ plan'.pair \subseteq p.pair /\ Coming' \subseteq p.up
      /\ plan'.lmove \subseteq p.lmove /\ plan'.ldel \subseteq p.ldel /\ plan'.down \subseteq p.down
    BY <1>1, <1>2 DEF Shrunk, Adopts, Coming
<1>9. ASSUME NEW f \in File, NEW m \in Mid, PlanName(f, m)' PROVE Named(f, m)
    <2>1. CASE \E u \in Coming' : u.f = f /\ u.mid = m
        BY <1>7, <1>8, <2>1 DEF Named
    <2>2. CASE \E a \in Adopts' \cup plan'.lflag \cup plan'.pair : a.f = f /\ a.mid = m
        BY <1>3, <1>5, <1>6, <1>8, <2>2 DEF Named, RowName
    <2>3. CASE \E a \in plan'.pair : a.oldF = f /\ a.mid = m
        BY <1>6, <1>8, <2>3 DEF Named, RowName
    <2> QED
        BY <1>9, <2>1, <2>2, <2>3 DEF PlanName
<1>10. ASSUME NEW f \in File, NEW m \in Mid, Named(f, m)' PROVE Named(f, m)
    BY <1>2, <1>9, <1>10 DEF Named, RowName, SeenName, NoObs
<1>11. ASSUME NEW x \in p.down PROVE \E r \in obs.remote : r.e = x.e /\ r.mid = x.mid
    BY <1>2, DownSource DEF Matched
<1>12. ASSUME NEW x \in p.pair PROVE HasRow(rows, x.e)
    <2>1. x.oldF \in File
        BY <1>2, <1>6 DEF Observation
    <2> QED
        BY <1>6, <2>1 DEF HasRow, File, NoFile
<1>13. ASSUME NEW e \in Email, NEW m \in Mid, EmailName(e, m)' PROVE EmailName(e, m)
    <2>1. CASE HasRow(rows', e) /\ rows'[e].mid = m
        BY <1>2, <2>1 DEF EmailName
    <2>2. CASE \E r \in plan'.down \cup Adopts' \cup plan'.lflag \cup plan'.pair : r.e = e /\ r.mid = m
        BY <1>4, <1>5, <1>6, <1>8, <1>11, <1>12, <2>2 DEF EmailName
    <2> QED
        BY <1>2, <1>13, <2>1, <2>2 DEF EmailName, NoObs
<1>14. ASSUME NEW a \in plan'.lmove \cup plan'.ldel PROVE a.f \in File /\ \E m \in Mid : RowName(a.f, m)
    <2>1. a.e \in Email /\ HasRow(rows, a.e) /\ a.f = rows[a.e].file
        BY <1>2, <1>8, MoveSource, DeleteSource
    <2> QED
        BY <1>2, <2>1, RowThere DEF RowName
<1> QED
    BY <1>10, <1>13, <1>14

\* A name was there before the step, or it is that of a file or an email there is.
LEMMA NamesFrom ==
    ASSUME TypeOK, Phased, EmailsUsed, FilesNamed, [Next]_vars
    PROVE  /\ \A f \in File, m \in Mid : Named(f, m)' => Named(f, m) \/ DiskName(f, m) \/ DiskName(f, m)'
           /\ \A a \in (plan.lmove \cup plan.ldel)' : a.f \in File /\ a.f < nextFile
           /\ \A e \in Email, m \in Mid :
                 EmailName(e, m)' => EmailName(e, m) \/ (server'[e].st # "none" /\ server'[e].mid = m)
<1> DEFINE Files == /\ \A f \in File, m \in Mid :
                           Named(f, m)' => Named(f, m) \/ DiskName(f, m) \/ DiskName(f, m)'
                    /\ \A a \in (plan.lmove \cup plan.ldel)' : a.f \in File /\ a.f < nextFile
           Emails == \A e \in Email, m \in Mid :
                        EmailName(e, m)' => \/ EmailName(e, m)
                                            \/ server'[e].st # "none" /\ server'[e].mid = m
<1>1. SUFFICES Files /\ Emails
    OBVIOUS
<1>2. plan \in Plan /\ rows \in Rows /\ obs \in Observation
    BY DEF TypeOK, ExecTypes, DbTypes, ScanTypes
<1>3. \A a \in plan.lmove \cup plan.ldel : a.f \in File /\ a.f < nextFile
    BY <1>2 DEF FilesNamed, Plan, MoveLocal, DeleteLocal
<1>4. ASSUME UNCHANGED <<rows, plan, imported>>,
             \A n \in obs'.news \cup obs'.index :
                 n \in obs.news \cup obs.index \/ (n.f \in File => DiskName(n.f, n.mid)),
             \A r \in obs'.remote : r \in obs.remote \/ (Live(r.e) /\ server'[r.e] = server[r.e] /\ server[r.e].mid = r.mid)
      PROVE  Files /\ Emails
    <2>1. \A f \in File, m \in Mid : SeenName(f, m)' => SeenName(f, m) \/ DiskName(f, m)
        BY <1>4 DEF SeenName
    <2>2. \A f, m : (RowName(f, m)' <=> RowName(f, m)) /\ (PlanName(f, m)' <=> PlanName(f, m))
        BY <1>4 DEF RowName, PlanName, Coming, Adopts
    <2>3. Files
        BY <1>3, <1>4, <2>1, <2>2 DEF Named
    <2>4. Emails
        BY <1>4 DEF EmailName, Adopts, HasRow, Live
    <2> QED
        BY <2>3, <2>4
<1>5. CASE \E d \in Directions : StartCycle(d)
    <2>1. \A n \in obs'.index : n.f \in File => DiskName(n.f, n.mid)
        BY <1>5 DEF StartCycle, NoObs, Kept, DiskName
    <2>2. obs'.news = {} /\ obs'.remote = {} /\ UNCHANGED <<rows, plan, imported>>
        BY <1>5 DEF StartCycle, NoObs, dbVars
    <2> QED
        BY <1>4, <2>1, <2>2
<1>6. CASE Observe
    <2>1. ASSUME NEW b \in Box, ScanFolder(b) PROVE Files /\ Emails
        <3>1. /\ obs'.index = obs.index /\ obs'.remote = obs.remote
              /\ obs'.news = obs.news \cup
                    {[f |-> f, box |-> b, mid |-> disk[f].mid, fl |-> disk[f].fl] :
                        f \in {g \in File : InCur(g, b) /\ ~Known(g, b)}}
            BY <1>2, <2>1 DEF ScanFolder, Observation
        <3>2. UNCHANGED <<rows, plan, imported>>
            BY <2>1 DEF ScanFolder, dbVars
        <3>3. \A n \in obs'.news : n \in obs.news \/ DiskName(n.f, n.mid)
            BY <3>1 DEF InCur, DiskName, OnDisk
        <3> QED
            BY <1>4, <3>1, <3>2, <3>3
    <2>2. CASE GetEmails
        <3>1. /\ obs'.index = obs.index /\ obs'.news = obs.news
              /\ obs'.remote = {[e |-> e, box |-> server[e].box, mid |-> server[e].mid,
                                 kw |-> server[e].kw] : e \in {x \in ids : Live(x)}}
            BY <1>2, <2>2 DEF GetEmails, Observation
        <3>2. UNCHANGED <<rows, plan, imported, server>>
            BY <2>2 DEF GetEmails, dbVars, serverVars
        <3>3. \A r \in obs'.remote : Live(r.e) /\ server[r.e].mid = r.mid
            BY <3>1
        <3> QED
            BY <1>4, <3>1, <3>2, <3>3
    <2>3. CASE FetchChanges \/ ChangesRefused \/ QueryMailboxes \/ GetState
        <3>1. /\ obs'.index = obs.index /\ obs'.news = obs.news /\ obs'.remote = obs.remote
              /\ UNCHANGED <<rows, plan, imported>>
            BY <1>2, <2>3 DEF FetchChanges, ChangesRefused, QueryMailboxes, GetState, Observation, dbVars
        <3> QED
            BY <1>4, <3>1
    <2>4. CASE MakePlan
        <3>1. \A a \in (plan.lmove \cup plan.ldel)' : a.f < nextFile
            BY <2>4, MadePlanNames DEF FilesNamed, Named
        <3> QED
            BY <2>4, <3>1, MadePlanNames
    <2> QED
        BY <1>6, <2>1, <2>2, <2>3, <2>4 DEF Observe
<1>7. CASE Execute \/ Fails
    <2>1. RowsStep /\ ImportStep
        BY <1>7, ExecRows
    <2>2. obs' \in {obs, NoObs} /\ Shrunk(plan', plan)
        <3>1. CASE CycleReset
            BY <3>1 DEF CycleReset, Shrunk, EmptyPlan
        <3>2. CASE Advances
            BY <3>2 DEF Advances
        <3> QED
            BY <1>7, <3>1, <3>2, ExecAdvances
               DEF Fails, UploadError, CycleDies, DiesAfterDisk, CycleFails
    <2>3. /\ Adopts' \subseteq Adopts /\ plan'.lflag \subseteq plan.lflag /\ plan'.pair \subseteq plan.pair
          /\ plan'.down \subseteq plan.down
        BY <2>2 DEF Shrunk, Adopts
    <2>4. \A i \in imported' : i \in imported \/ (i.u \in plan.up /\ i.e = nextEmail
                                 /\ server'[nextEmail].st = "live" /\ server'[nextEmail].mid = i.u.mid)
        BY <2>1 DEF ImportStep
    <2>5. Coming' \subseteq Coming
        BY <2>2, <2>4 DEF Coming, Shrunk
    <2>6. \A f \in File, m \in Mid : RowName(f, m)' => Named(f, m) \/ DiskName(f, m)'
        <3> SUFFICES ASSUME NEW f \in File, NEW m \in Mid, NEW e \in Email,
                            rows'[e].file = f, rows'[e].mid = m
                     PROVE  Named(f, m) \/ DiskName(f, m)'
            BY DEF RowName
        <3>1. f # NoFile
            BY DEF File, NoFile
        <3>2. \A i \in imported : i.u \in Coming
            BY DEF Coming
        <3>3. LandedPairs \subseteq plan.pair
            BY DEF LandedPairs
        <3> QED
            BY <2>1, <3>1, <3>2, <3>3 DEF RowsStep, Named, RowName, PlanName, DiskName, OnDisk
    <2>7. \A f \in File, m \in Mid : PlanName(f, m)' => PlanName(f, m)
        BY <2>3, <2>5 DEF PlanName
    <2>8. \A f \in File, m \in Mid : SeenName(f, m)' => SeenName(f, m)
        BY <2>2 DEF SeenName, NoObs
    <2>9. \A a \in (plan.lmove \cup plan.ldel)' : a.f \in File /\ a.f < nextFile
        BY <1>3, <2>2 DEF Shrunk
    <2>10. Files
        BY <2>6, <2>7, <2>8, <2>9 DEF Named
    <2>11. Emails
        <3> SUFFICES ASSUME NEW e \in Email, NEW m \in Mid, EmailName(e, m)'
                     PROVE  EmailName(e, m) \/ (server'[e].st # "none" /\ server'[e].mid = m)
            OBVIOUS
        <3>1. CASE HasRow(rows', e) /\ rows'[e].mid = m
            <4>1. LandedPairs \subseteq plan.pair
                BY DEF LandedPairs
            <4>2. rows'[e].file # NoFile
                BY <3>1 DEF HasRow
            <4> QED
                BY <2>1, <3>1, <4>1, <4>2 DEF RowsStep, EmailName, HasRow
        <3>2. CASE \E r \in obs'.remote \cup plan'.down \cup Adopts' \cup plan'.lflag \cup plan'.pair :
                       r.e = e /\ r.mid = m
            BY <2>2, <2>3, <3>2 DEF EmailName, NoObs
        <3>3. CASE \E i \in imported' : i.e = e /\ i.u.mid = m
            BY <2>4, <3>3 DEF EmailName
        <3> QED
            BY <3>1, <3>2, <3>3 DEF EmailName
    <2> QED
        BY <2>10, <2>11
<1>8. CASE UserActs
    <2>1. CASE DbLost
        <3>1. UNCHANGED <<obs, plan, imported>> /\ \A e \in Email : rows'[e].file = NoFile
            BY <2>1 DEF DbLost, cycleVars, NoRow
        <3>2. Files
            <4>1. \A f \in File, m \in Mid : ~RowName(f, m)'
                BY <3>1 DEF RowName, File, NoFile
            <4> QED
                BY <1>3, <3>1, <4>1 DEF Named, SeenName, PlanName, Coming, Adopts
        <3>3. Emails
            BY <3>1 DEF EmailName, HasRow, Adopts
        <3> QED
            BY <3>2, <3>3
    <2>2. CASE UserActs /\ ~DbLost
        <3>1. UNCHANGED <<rows, cycleVars>>
            BY <2>2 DEF UserActs, UserNew, UserCopy, UserMove, UserRename, UserFlag, UserUnflag,
               UserDelete, UserStep
        <3> QED
            BY <1>4, <3>1 DEF cycleVars
    <2> QED
        BY <1>8, <2>1, <2>2
<1>9. CASE ServerActs \/ UNCHANGED vars
    <2>1. UNCHANGED <<rows, cycleVars>>
        BY <1>9 DEF ServerActs, ServerCreate, ServerDuplicate, ServerFlag, ServerMove,
           ServerDestroy, ServerStep, dbVars, vars
    <2> QED
        BY <1>4, <2>1 DEF cycleVars
<1> HIDE DEF Files, Emails
<1> QED
    BY <1>5, <1>6, <1>7, <1>8, <1>9 DEF Next

LEMMA NamesKept ==
    ASSUME TypeOK, Phased, EmailsUsed, FilesNamed, EmailsNamed, [Next]_vars
    PROVE  FilesNamed' /\ EmailsNamed'
BY WorldSteps, NamesFrom, FileNamesKept, EmailNamesKept DEF TypeOK

-----------------------------------------------------------------------------
(* What a cycle knows about m until it has made its plan.                  *)

\* The scan's findings: a new file has no local_state in the folder it is in,
\* a missing one has; there is an index only if there are no rows.
Findings(m) ==
    /\ \A n \in obs.news : ls[n.f].box # n.box
    /\ \A n, x \in obs.news : n.f = x.f \/ (n.mid = m /\ x.mid = m) => n = x
    /\ \A d \in obs.dels : ls[d.f].box = d.box
    /\ \A x, y \in obs.index : x.f = y.f => x = y
    /\ obs.index # {} => \A e \in Email : ~HasRow(rows, e)

\* In the folders walked so far, every row of m whose file is not there is found
\* missing; a new file is still where it was found.
Walking(m) ==
    pc = "scan" =>
        /\ \A n \in obs.news : OnDisk(n.f) /\ disk[n.f].box = n.box /\ n.box \notin todo
        /\ \A e \in Email :
              HasRow(rows, e) /\ rows[e].mid = m /\ rows[e].box \notin todo
                /\ ~Observed(rows[e].file, rows[e].box)
              => \E d \in obs.dels : d.f = rows[e].file

\* After the walk: if m has a new file, the file of its row is missing.
Walked(m) ==
    pc # "scan" =>
        \A n \in obs.news, e \in Email :
            n.mid = m /\ HasRow(rows, e) /\ rows[e].mid = m => \E d \in obs.dels : d.f = rows[e].file

\* An email of m the server returned is the only one alive.
Alone(m) ==
    \A r \in obs.remote, e \in Email :
        r.mid = m /\ HasRow(rows, e) /\ rows[e].mid = m /\ e # r.e => server[e].st = "gone"

Scanned(m) == Findings(m) /\ Walking(m) /\ Walked(m) /\ Alone(m)

-----------------------------------------------------------------------------
(* What the executor knows about m from the plan on.                       *)

\* The actions of a plan are about different files and emails, or they agree.
Apart(m) ==
    /\ \A A \in {plan.adoptR, plan.adoptL, plan.pair} : \A x, y \in A : x.f = y.f => x.box = y.box
    /\ \A x, y \in plan.pair : x.e = y.e => x.f = y.f
    /\ \A x \in plan.adoptR, y \in plan.adoptL : x.f # y.f
    /\ \A x \in Adopts : x.oldF = NoFile
    /\ \A x \in plan.adoptL \cup plan.pair : x.oldE = NoEmail
    /\ \A x \in plan.pair : x.oldF # NoFile
    /\ \A a \in plan.lmove :
          /\ \A x \in Adopts : x.mid = m => x.e # a.e /\ x.f # a.f
          /\ \A x \in plan.down : x.e # a.e
          /\ \A x \in plan.lflag : x.mid = m => (x.e = a.e <=> x.f = a.f)
    /\ \A a \in plan.ldel :
          /\ \A x \in Adopts : x.mid = m => x.f # a.f
          /\ \A x \in plan.lflag : x.mid = m /\ x.f = a.f => x.e = a.e

\* An uploaded file is in no other action, and an import is of one file.
Arriving ==
    /\ \A u \in Coming, x \in Adopts \cup plan.lflag : x.f # u.f
    /\ \A u \in Coming, a \in plan.pair : a.oldF # u.f
    /\ \A u, v \in Coming : u.f = v.f => u = v
    /\ \A i \in imported : i.u \notin plan.up
    /\ \A i, j \in imported : i.u = j.u \/ i.e = j.e => i = j

\* The rows are still such that an action takes no file from another row of m.
RowsFit(m) ==
    /\ \A u \in Coming, e \in Email : rows[e].file # u.f
    /\ \A x \in plan.adoptR, e \in Email : rows[e].file = x.f => e = x.oldE
    /\ \A x \in plan.adoptL, e \in Email : x.mid = m => rows[e].file # x.f
    /\ \A a \in plan.lmove, e \in Email :
          HasRow(rows, e) /\ rows[e].mid = m => (e = a.e <=> rows[e].file = a.f)
    /\ \A a \in plan.ldel, e \in Email : rows[e].file = a.f /\ rows[e].mid = m => e = a.e

\* The old file of a move pair is nobody else's, unless another email took it
\* over: then the pair's email is gone, its Email/set fails and it is not adopted.
Owned(a) ==
    /\ \A e \in Email : rows[e].file = a.oldF => e = a.e
    /\ \A x \in Adopts \cup plan.lflag : x.f = a.oldF => x.e = a.e
PairsFit(m) ==
    \A a \in plan.pair : a.mid = m =>
        \/ Owned(a)
        \/ server[a.e].st = "gone" /\ \E b \in plan.rmove : b.e = a.e
        \/ a.e \in failed
FailedLate == failed # {} => pc \in {"mirror", "pair", "cursor", "checkpoint"}

Planned(m) == Apart(m) /\ Arriving /\ RowsFit(m) /\ PairsFit(m) /\ FailedLate

-----------------------------------------------------------------------------
(* Every step keeps what the scan has found.                               *)

\* Outside the scan phases there is nothing found.
LEMMA NothingScanned ==
    ASSUME NEW m, obs' = NoObs, pc' # "scan" PROVE Scanned(m)'
BY DEF Scanned, Findings, Walking, Walked, Alone, NoObs

LEMMA ScanUndisturbed ==
    ASSUME TypeOK, EmailStep, EmailsNamed, NEW m \in Mid, Scanned(m),
           UNCHANGED <<rows, ls, obs, pc, todo>>, pc = "scan" => UNCHANGED disk
    PROVE  Scanned(m)'
<1>1. Findings(m)' /\ Walked(m)'
    BY DEF Scanned, Findings, Walked, HasRow
<1>2. Walking(m)'
    BY DEF Scanned, Walking, HasRow, OnDisk, Observed
<1>3. Alone(m)'
    BY DEF Scanned, Alone, HasRow, EmailStep, EmailsNamed, EmailName
<1> QED
    BY <1>1, <1>2, <1>3 DEF Scanned

LEMMA ScanStarts ==
    ASSUME TypeOK, NEW m, NEW d, StartCycle(d) PROVE Scanned(m)'
<1>1. /\ \E p : obs' = [NoObs EXCEPT !.policy = p, !.index =
                   IF \E e \in Email : HasRow(rows, e) THEN {}
                   ELSE {[f |-> f, box |-> disk[f].box, mid |-> disk[f].mid] : f \in Kept}]
      /\ rows' = rows /\ pc' = "scan" /\ todo' = Box
    BY DEF StartCycle, dbVars
<1>2. /\ obs'.news = {} /\ obs'.dels = {} /\ obs'.remote = {}
      /\ obs'.index # {} => \A e \in Email : ~HasRow(rows, e)
      /\ \A x \in obs'.index : x = [f |-> x.f, box |-> disk[x.f].box, mid |-> disk[x.f].mid]
    BY <1>1 DEF NoObs
<1>3. Findings(m)'
    BY <1>1, <1>2 DEF Findings
<1>4. Walking(m)'
    <2>1. \A e \in Email : HasRow(rows', e) => rows'[e].box \in todo'
        BY <1>1, RowThere DEF TypeOK, DbTypes
    <2> QED
        BY <1>2, <2>1 DEF Walking
<1> QED
    BY <1>1, <1>2, <1>3, <1>4 DEF Scanned, Walked, Alone

LEMMA OneName ==
    ASSUME FilesNamed, NEW f \in File, NEW m \in Mid, NEW n \in Mid,
           DiskName(f, m) \/ Named(f, m), DiskName(f, n) \/ Named(f, n)
    PROVE  m = n
BY DEF FilesNamed

LEMMA DiskMid ==
    ASSUME DiskTypes, NEW f \in File, OnDisk(f) PROVE disk[f].mid \in Mid /\ DiskName(f, disk[f].mid)
BY DEF DiskTypes, MaildirFile, NoFileHere, OnDisk, DiskName

LEMMA ScanWalks ==
    ASSUME TypeOK, FilesNamed, NEW m \in Mid, Scanned(m), OneFile(m), Agree(m),
           NEW b \in Box, ScanFolder(b)
    PROVE  Scanned(m)'
<1> DEFINE new == {[f |-> f, box |-> b, mid |-> disk[f].mid, fl |-> disk[f].fl] :
                      f \in {g \in File : InCur(g, b) /\ ~Known(g, b)}}
           gone == {[f |-> f, box |-> b] : f \in {g \in File : Known(g, b) /\ ~Observed(g, b)}}
<1>1. /\ obs'.news = obs.news \cup new /\ obs'.dels = obs.dels \cup gone
      /\ obs'.index = obs.index /\ obs'.remote = obs.remote
      /\ todo' = todo \ {b} /\ pc = "scan" /\ b \in todo
      /\ UNCHANGED <<rows, ls, disk, server>>
      /\ pc' = "scan" \/ todo' = {}
    BY DEF ScanFolder, TypeOK, ScanTypes, Observation, dbVars, diskVars, serverVars
<1>2. /\ \A n \in new : /\ n.f \in File /\ n.box = b /\ ls[n.f].box # b /\ n.mid \in Mid
                        /\ OnDisk(n.f) /\ disk[n.f].box = b /\ disk[n.f].mid = n.mid
      /\ \A n, x \in new : n.f = x.f => n = x
    BY DEF InCur, Known, OnDisk, TypeOK, DiskTypes, MaildirFile, NoFileHere
<1>3. \A d \in gone : ls[d.f].box = d.box
    BY DEF Known
<1>4. \A n \in obs.news : /\ n.f \in File /\ n.mid \in Mid
                          /\ OnDisk(n.f) /\ disk[n.f].box = n.box /\ n.box \notin todo
    BY <1>1 DEF Scanned, Walking, TypeOK, ScanTypes, Observation, NewMessage
<1>5. \A n \in obs.news : disk[n.f].mid = n.mid
    <2>1. \A n \in obs.news : Named(n.f, n.mid)
        BY DEF Named, SeenName
    <2> QED
        BY <1>4, <2>1, OneName, DiskMid DEF TypeOK
<1>6. \A e \in Email : HasRow(rows, e) => rows[e].file \in File /\ rows[e].mid \in Mid
    BY RowThere DEF TypeOK, DbTypes
<1> HIDE DEF new, gone
<1>7. \A n, x \in obs'.news : n.f = x.f => n = x
    <2>1. \A n \in new, x \in obs.news : n.f # x.f
        BY <1>1, <1>2, <1>4
    <2> QED
        BY <1>1, <1>2, <2>1 DEF Scanned, Findings
<1>8. \A n, x \in obs'.news : n.mid = m /\ x.mid = m => n.f = x.f
    BY <1>1, <1>2, <1>4, <1>5 DEF OneFile
<1>9. Findings(m)'
    BY <1>1, <1>2, <1>3, <1>7, <1>8 DEF Scanned, Findings, HasRow
<1>10. /\ \A n \in obs'.news : OnDisk(n.f) /\ disk[n.f].box = n.box /\ n.box \notin todo'
       /\ \A e \in Email :
             HasRow(rows, e) /\ rows[e].mid = m /\ rows[e].box \notin todo'
               /\ ~Observed(rows[e].file, rows[e].box)
             => \E d \in obs'.dels : d.f = rows[e].file
    <2>1. ASSUME NEW e \in Email, HasRow(rows, e), rows[e].mid = m, rows[e].box = b,
                 ~Observed(rows[e].file, b)
          PROVE  \E d \in gone : d.f = rows[e].file
        <3>1. [f |-> rows[e].file, box |-> b] \in gone
            BY <1>6, <2>1 DEF Agree, gone, Known
        <3> QED
            BY <3>1
    <2> QED
        BY <1>1, <1>2, <1>4, <2>1 DEF Scanned, Walking
<1>11. Walking(m)'
    BY <1>1, <1>10 DEF Walking, HasRow, OnDisk, Observed
<1>12. ASSUME todo' = {}, NEW n \in obs'.news, NEW e \in Email, n.mid = m, HasRow(rows, e), rows[e].mid = m
       PROVE  \E d \in obs'.dels : d.f = rows[e].file
    <2>1. CASE ~Observed(rows[e].file, rows[e].box)
        BY <1>10, <1>12, <2>1
    <2>2. CASE Observed(rows[e].file, rows[e].box)
        <3>1. disk[rows[e].file].mid = m
            <4>1. Named(rows[e].file, m)
                BY <1>12 DEF Named, RowName
            <4>2. rows[e].file \in File /\ OnDisk(rows[e].file)
                BY <1>6, <1>12, <2>2 DEF Observed
            <4>3. disk[rows[e].file].mid \in Mid /\ DiskName(rows[e].file, disk[rows[e].file].mid)
                BY <4>2, DiskMid DEF TypeOK
            <4> QED
                BY <4>1, <4>2, <4>3, OneName
        <3>2. n.f = rows[e].file
            BY <1>1, <1>2, <1>4, <1>5, <1>6, <1>12, <2>2, <3>1 DEF OneFile, Observed
        <3>3. ls[n.f].box = n.box
            BY <1>10, <1>12, <2>2, <3>2 DEF Agree, Observed
        <3> QED
            BY <1>1, <1>9, <3>3 DEF Findings
    <2> QED
        BY <2>1, <2>2
<1>13. Walked(m)'
    BY <1>1, <1>12 DEF Walked, HasRow
<1>14. Alone(m)'
    BY <1>1 DEF Scanned, Alone, HasRow
<1> QED
    BY <1>9, <1>11, <1>13, <1>14 DEF Scanned

LEMMA PlanPhase == MakePlan => pc' \in ExecPhases
<1> SUFFICES ASSUME MakePlan PROVE pc' \in ExecPhases
    OBVIOUS
<1>1. pc' = NextPhase(ExecOrder[1], plan', {}, NoMirrors)
    BY ExecNames DEF MakePlan
<1> QED
    BY <1>1, NextPhaseSkips DEF ExecPhases

LEMMA ScannedKept ==
    ASSUME TypeOK, Phased, EmailsUsed, FilesNamed, EmailsNamed, "scan" \notin UserPhases,
           NEW m \in Mid, Scanned(m), Single(m), Agree(m), [Next]_vars
    PROVE  Scanned(m)'
<1> EmailStep
    BY WorldSteps
<1>1. CASE \E d \in Directions : StartCycle(d)
    BY <1>1, ScanStarts
<1>2. CASE Observe
    <2>1. CASE \E b \in Box : ScanFolder(b)
        BY <2>1, ScanWalks DEF Single
    <2>2. CASE GetEmails
        <3>1. /\ obs'.news = obs.news /\ obs'.dels = obs.dels /\ obs'.index = obs.index
              /\ pc # "scan" /\ pc' # "scan" /\ UNCHANGED <<rows, ls, server>>
            BY <2>2 DEF GetEmails, TypeOK, ScanTypes, Observation, dbVars, serverVars
        <3>2. \A r \in obs'.remote : r.e \in Email /\ Live(r.e) /\ server[r.e].mid = r.mid
            BY <2>2 DEF GetEmails, TypeOK, ScanTypes, Observation
        <3>3. Findings(m)' /\ Walking(m)' /\ Walked(m)'
            BY <3>1 DEF Scanned, Findings, Walking, Walked, HasRow
        <3>4. \A r \in obs'.remote, e \in Email :
                  r.mid = m /\ HasRow(rows, e) /\ rows[e].mid = m /\ e # r.e => server[e].st = "gone"
            BY <3>2 DEF Single, OneEmail, EmailsNamed, EmailName, Live, TypeOK, ServerTypes, EmailObject
        <3>5. Alone(m)'
            BY <3>1, <3>4 DEF Alone, HasRow
        <3> QED
            BY <3>3, <3>5 DEF Scanned
    <2>3. CASE FetchChanges \/ ChangesRefused \/ QueryMailboxes \/ GetState
        <3>1. /\ obs'.news = obs.news /\ obs'.dels = obs.dels /\ obs'.index = obs.index
              /\ obs'.remote = obs.remote
              /\ pc # "scan" /\ pc' # "scan" /\ UNCHANGED <<rows, ls, server>>
            BY <2>3 DEF FetchChanges, ChangesRefused, QueryMailboxes, GetState, TypeOK, ScanTypes,
               Observation, dbVars, serverVars
        <3> QED
            BY <3>1 DEF Scanned, Findings, Walking, Walked, Alone, HasRow
    <2>4. CASE MakePlan
        <3>1. pc' \in ExecPhases
            BY <2>4, PlanPhase
        <3> QED
            BY <2>4, <3>1, NothingScanned, PhaseNames DEF MakePlan
    <2> QED
        BY <1>2, <2>1, <2>2, <2>3, <2>4 DEF Observe
<1>3. CASE Execute \/ Fails
    <2>1. CASE CycleReset
        BY <2>1, NothingScanned DEF CycleReset
    <2>2. CASE Advances
        BY <2>2, NothingScanned, PhaseNames DEF Advances, Phased, ScanPhases
    <2> QED
        BY <1>3, <2>1, <2>2, ExecAdvances
           DEF Fails, UploadError, CycleDies, DiesAfterDisk, CycleFails
<1>4. CASE UserActs
    <2>1. CASE DbLost
        <3>1. obs' = NoObs /\ pc' # "scan"
            BY <2>1 DEF DbLost, cycleVars, Phased, ScanPhases
        <3> QED
            BY <3>1, NothingScanned
    <2>2. CASE UserActs /\ ~DbLost
        <3>1. UNCHANGED <<rows, ls, obs, pc, todo>> /\ pc \in UserPhases
            BY <2>2 DEF UserActs, UserNew, UserCopy, UserMove, UserRename, UserFlag, UserUnflag,
               UserDelete, UserStep, cycleVars
        <3> QED
            BY <3>1, ScanUndisturbed
    <2> QED
        BY <1>4, <2>1, <2>2
<1>5. CASE ServerActs \/ UNCHANGED vars
    <2>1. UNCHANGED <<rows, ls, obs, pc, todo, disk>>
        BY <1>5 DEF ServerActs, ServerCreate, ServerDuplicate, ServerFlag, ServerMove,
           ServerDestroy, ServerStep, dbVars, diskVars, cycleVars, vars
    <2> QED
        BY <2>1, ScanUndisturbed
<1> QED
    BY <1>1, <1>2, <1>3, <1>4, <1>5 DEF Next

-----------------------------------------------------------------------------
(* The plan.                                                               *)

\* If m has a new file that no move accounts for, a row of m is of a file missing
\* from the folder the new one is in: the file was renamed in place.
LEMMA NewAccounted ==
    ASSUME TypeOK, NEW m \in Mid, Scanned(m), Agree(m), pc # "scan", NEW byMid \in NewsByMid(obs),
           NEW n \in LiveNews(obs, rows, DetectedMoves(obs, rows, byMid)), n.mid = m,
           NEW e \in Email, HasRow(rows, e), rows[e].mid = m
    PROVE  /\ e \in LocalDeletes(obs, rows, DetectedMoves(obs, rows, byMid))
           /\ rows[e].file # n.f
<1> DEFINE moves == DetectedMoves(obs, rows, byMid)
<1>1. n \in obs.news /\ \A v \in moves : v.new.f # n.f
    BY DEF LiveNews
<1>2. PICK d \in obs.dels : d.f = rows[e].file
    BY <1>1 DEF Scanned, Walked
<1>3. ls[n.f].box # n.box /\ ls[d.f].box = d.box
    BY <1>1 DEF Scanned, Findings
<1>4. m \in DOMAIN byMid /\ byMid[m] = n
    <2>1. DOMAIN byMid = {x.mid : x \in obs.news} /\ m \in DOMAIN byMid
        BY <1>1 DEF NewsByMid
    <2>2. byMid[m] \in obs.news /\ byMid[m].mid = m
        BY <2>1 DEF NewsByMid
    <2> QED
        BY <1>1, <2>1, <2>2 DEF Scanned, Findings
<1>5. ASSUME NEW v \in moves PROVE v.e # e
    <2>1. PICK y \in obs.dels \X Email :
              v = [e |-> y[2], oldF |-> y[1].f, prior |-> rows[y[2]].flags,
                   blob |-> rows[y[2]].blob, new |-> byMid[rows[y[2]].mid]]
        BY DEF DetectedMoves
    <2>2. v.e = y[2] /\ v.new = byMid[rows[y[2]].mid]
        BY <2>1
    <2> QED
        BY <1>1, <1>4, <2>2
<1>6. n.box = d.box
    <2> SUFFICES ASSUME n.box # d.box PROVE FALSE
        OBVIOUS
    <2> DEFINE y == <<d, e>>
               v == [e |-> y[2], oldF |-> y[1].f, prior |-> rows[y[2]].flags,
                     blob |-> rows[y[2]].blob, new |-> byMid[rows[y[2]].mid]]
    <2>1. v \in moves
        BY <1>2, <1>4 DEF DetectedMoves
    <2>2. v.e = e
        OBVIOUS
    <2> QED
        BY <1>5, <2>1, <2>2
<1>7. e \in LocalDeletes(obs, rows, moves)
    BY <1>2, <1>5 DEF LocalDeletes, Deleted
<1>8. rows[e].file # n.f
    BY <1>2, <1>3, <1>6
<1> QED
    BY <1>7, <1>8

\* An email that takes over a file has no row, and the file was that of an email
\* known to be gone.
LEMMA TakenOver ==
    ASSUME TypeOK, UniqueFiles(rows), NEW m, Scanned(m), NEW x \in RemoteAdopts(obs, rows)
    PROVE  /\ x.f \in File /\ x.e \in Email /\ ~HasRow(rows, x.e) /\ x.oldF = NoFile
           /\ \E r \in obs.remote : r.e = x.e /\ r.mid = x.mid
           /\ \A e \in Email : rows[e].file = x.f =>
                 /\ e = x.oldE /\ rows[e].box = x.box /\ rows[e].mid = x.mid
                 /\ ProvablyGone(obs, e) /\ (e \in obs.destroyed => e \in ConsumedDestroys(obs, rows))
           /\ (\A e \in Email : rows[e].file # x.f) =>
                 \E y \in obs.index : x.f = y.f /\ x.box = y.box
<1>1. rows \in Rows /\ obs \in Observation
    BY DEF TypeOK, DbTypes, ScanTypes
<1>2. PICK r \in FreshRemote(obs, rows) :
         /\ x.e = r.e /\ x.mid = r.mid /\ x.box = r.box /\ x.oldF = NoFile
         /\ \/ \E a \in Email :
                  /\ HasRow(rows, a) /\ rows[a].mid = r.mid /\ rows[a].box = r.box
                  /\ x.f = rows[a].file /\ x.oldE = a
                  /\ ProvablyGone(obs, a) /\ (a \in obs.destroyed => a \in ConsumedDestroys(obs, rows))
            \/ \E y \in obs.index :
                  y.mid = r.mid /\ y.box = r.box /\ x.f = y.f /\ x.oldE = NoEmail
    BY <1>1, RemoteAdoptSource
<1>3. r \in obs.remote /\ r.e \in Email /\ ~HasRow(rows, r.e)
    BY <1>1, MatchedTypes DEF FreshRemote, Matched
<1>4. CASE \E a \in Email :
              /\ HasRow(rows, a) /\ rows[a].mid = r.mid /\ rows[a].box = r.box
              /\ x.f = rows[a].file /\ x.oldE = a
              /\ ProvablyGone(obs, a) /\ (a \in obs.destroyed => a \in ConsumedDestroys(obs, rows))
    <2>1. PICK a \in Email :
              /\ HasRow(rows, a) /\ rows[a].mid = r.mid /\ rows[a].box = r.box
              /\ x.f = rows[a].file /\ x.oldE = a
              /\ ProvablyGone(obs, a) /\ (a \in obs.destroyed => a \in ConsumedDestroys(obs, rows))
        BY <1>4
    <2>2. rows[a].file \in File
        BY <1>1, <2>1, RowThere
    <2>3. \A e \in Email : rows[e].file = x.f => e = a
        BY <2>1 DEF UniqueFiles
    <2> QED
        BY <1>2, <1>3, <2>1, <2>2, <2>3
<1>5. CASE \E y \in obs.index :
              y.mid = r.mid /\ y.box = r.box /\ x.f = y.f /\ x.oldE = NoEmail
    <2>1. PICK y \in obs.index :
              y.mid = r.mid /\ y.box = r.box /\ x.f = y.f /\ x.oldE = NoEmail
        BY <1>5
    <2>2. y.f \in File
        BY <1>1 DEF Observation
    <2>3. \A e \in Email : rows[e].file # x.f
        BY <2>1, <2>2 DEF Scanned, Findings, HasRow, File, NoFile
    <2> QED
        BY <1>2, <1>3, <2>1, <2>2, <2>3
<1> QED
    BY <1>2, <1>4, <1>5

\* A file adopted for a row was renamed in place: no row has it, and the email of
\* the row lost its file.
LEMMA Renamed ==
    ASSUME TypeOK, FilesNamed, NEW m \in Mid, Scanned(m), Agree(m), pc # "scan",
           NEW byMid \in NewsByMid(obs),
           NEW x \in LocalAdopts(obs, rows, DetectedMoves(obs, rows, byMid))
    PROVE  /\ x.oldF = NoFile /\ x.oldE = NoEmail /\ x.e \in Email
           /\ HasRow(rows, x.e) /\ rows[x.e].mid = x.mid
           /\ \E n \in obs.news : x.f = n.f /\ x.box = n.box /\ x.mid = n.mid
           /\ \A y \in RemoteAdopts(obs, rows) : y.f # x.f
           /\ x.mid = m =>
                 /\ x.e \in LocalDeletes(obs, rows, DetectedMoves(obs, rows, byMid))
                 /\ \A e \in Email : rows[e].file # x.f
<1> DEFINE moves == DetectedMoves(obs, rows, byMid)
<1>1. rows \in Rows /\ obs \in Observation
    BY DEF TypeOK, DbTypes, ScanTypes
<1>2. PICK n \in LiveNews(obs, rows, moves) :
         /\ x.f = n.f /\ x.mid = n.mid /\ x.box = n.box
         /\ x.oldF = NoFile /\ x.oldE = NoEmail
         /\ x.e \in Email /\ HasRow(rows, x.e) /\ rows[x.e].mid = n.mid /\ rows[x.e].box = n.box
    BY <1>1, LocalAdoptSource
<1>3. n \in obs.news /\ n.f \in File /\ n.mid \in Mid /\ \A y \in RemoteAdopts(obs, rows) : y.f # n.f
    BY <1>1 DEF LiveNews, Observation, NewMessage
<1>4. ASSUME x.mid = m, NEW e \in Email, rows[e].file = x.f PROVE FALSE
    <2>1. HasRow(rows, e) /\ rows[e].mid \in Mid
        BY <1>1, <1>2, <1>3, <1>4, RowThere DEF HasRow, File, NoFile
    <2>2. Named(n.f, rows[e].mid) /\ Named(n.f, n.mid)
        BY <1>2, <1>3, <1>4, <2>1 DEF Named, RowName, SeenName
    <2>3. rows[e].mid = m
        BY <1>2, <1>3, <1>4, <2>1, <2>2, OneName
    <2> QED
        BY <1>2, <1>4, <2>1, <2>3, NewAccounted
<1>5. x.mid = m => x.e \in LocalDeletes(obs, rows, moves)
    BY <1>2, NewAccounted
<1> QED
    BY <1>2, <1>3, <1>4, <1>5

LEMMA MadeAdopts ==
    ASSUME TypeOK, FilesNamed, UniqueFiles(rows), NEW m \in Mid, Scanned(m), Agree(m), pc # "scan",
           NEW byMid \in NewsByMid(obs)
    PROVE  LET p == PlanOf(obs, rows, byMid) IN
           /\ \A A \in {p.adoptR, p.adoptL, p.pair} : \A x, y \in A : x.f = y.f => x.box = y.box
           /\ \A x, y \in p.pair : x.e = y.e => x.f = y.f
           /\ \A x \in p.adoptR, y \in p.adoptL : x.f # y.f
           /\ \A x \in p.adoptR \cup p.adoptL : x.oldF = NoFile
           /\ \A x \in p.adoptL \cup p.pair : x.oldE = NoEmail
           /\ \A x \in p.pair : x.oldF # NoFile
           /\ \A x \in p.adoptR, e \in Email : rows[e].file = x.f => e = x.oldE
           /\ \A x \in p.adoptL, e \in Email : x.mid = m => rows[e].file # x.f
<1> DEFINE moves == DetectedMoves(obs, rows, byMid)
           p == PlanOf(obs, rows, byMid)
<1>1. p.adoptR = RemoteAdopts(obs, rows) /\ p.adoptL = LocalAdopts(obs, rows, moves)
    BY DEF PlanOf
<1>2. rows \in Rows /\ obs \in Observation
    BY DEF TypeOK, DbTypes, ScanTypes
<1>3. ASSUME NEW x \in p.adoptR, NEW y \in p.adoptR, x.f = y.f PROVE x.box = y.box
    <2>1. CASE \E e \in Email : rows[e].file = x.f
        BY <1>1, <1>3, <2>1, TakenOver
    <2>2. CASE \A e \in Email : rows[e].file # x.f
        <3>1. PICK i \in obs.index : x.f = i.f /\ x.box = i.box
            BY <1>1, <2>2, TakenOver
        <3>2. PICK j \in obs.index : y.f = j.f /\ y.box = j.box
            BY <1>1, <1>3, <2>2, TakenOver
        <3> QED
            BY <1>3, <3>1, <3>2 DEF Scanned, Findings
    <2> QED
        BY <2>1, <2>2
<1>4. ASSUME NEW x \in p.adoptL, NEW y \in p.adoptL, x.f = y.f PROVE x.box = y.box
    <2>1. PICK n \in obs.news : x.f = n.f /\ x.box = n.box
        BY <1>1, Renamed
    <2>2. PICK k \in obs.news : y.f = k.f /\ y.box = k.box
        BY <1>1, Renamed
    <2> QED
        BY <1>4, <2>1, <2>2 DEF Scanned, Findings
<1>5. ASSUME NEW x \in p.pair, NEW y \in p.pair PROVE (x.f = y.f => x.box = y.box) /\ (x.e = y.e => x.f = y.f)
    <2>1. PICK n \in obs.news : n.mid = x.mid /\ x.f = n.f /\ x.box = n.box
        BY <1>2, PairSource
    <2>2. PICK k \in obs.news : k.mid = y.mid /\ y.f = k.f /\ y.box = k.box
        BY <1>2, PairSource
    <2>3. x.f = y.f => x.box = y.box
        BY <2>1, <2>2 DEF Scanned, Findings
    <2>4. ASSUME NEW v \in p.pair PROVE v.mid = rows[v.e].mid /\ v.f = byMid[v.mid].f
        <3>1. PICK w \in moves :
                  v = Adopt(w.e, w.new.f, w.new.box, w.new.mid, w.new.fl, w.new.fl, w.blob, w.oldF, NoEmail)
            BY DEF PlanOf
        <3>2. PICK z \in obs.dels \X Email :
                  w = [e |-> z[2], oldF |-> z[1].f, prior |-> rows[z[2]].flags,
                       blob |-> rows[z[2]].blob, new |-> byMid[rows[z[2]].mid]]
            BY DEF DetectedMoves
        <3>3. w.e = z[2] /\ w.new = byMid[rows[z[2]].mid]
            BY <3>2
        <3>4. v.e = w.e /\ v.f = w.new.f
            BY <3>1 DEF Adopt
        <3>5. v.mid = rows[v.e].mid
            BY <1>2, PairSource
        <3> QED
            BY <3>3, <3>4, <3>5
    <2> QED
        BY <2>3, <2>4
<1>6. \A x \in p.adoptR, y \in p.adoptL : x.f # y.f
    BY <1>1, Renamed
<1>7. \A x \in p.adoptR \cup p.adoptL : x.oldF = NoFile
    BY <1>1, Renamed, TakenOver
<1>8. \A x \in p.adoptL \cup p.pair : x.oldE = NoEmail
    BY <1>1, <1>2, Renamed, PairSource
<1>12. \A x \in p.pair : x.oldF # NoFile
    BY <1>2, PairSource DEF Observation, File, NoFile
<1>9. \A x \in p.adoptR, e \in Email : rows[e].file = x.f => e = x.oldE
    BY <1>1, TakenOver
<1>10. \A x \in p.adoptL, e \in Email : x.mid = m => rows[e].file # x.f
    BY <1>1, Renamed
<1> HIDE DEF p
<1>11. \A A \in {p.adoptR, p.adoptL, p.pair} : \A x, y \in A : x.f = y.f => x.box = y.box
    BY <1>3, <1>4, <1>5
<1> QED
    BY <1>5, <1>6, <1>7, <1>8, <1>9, <1>10, <1>11, <1>12 DEF p

LEMMA MadeMoves ==
    ASSUME TypeOK, FilesNamed, UniqueFiles(rows), NEW m \in Mid, Scanned(m), Agree(m), pc # "scan",
           NEW byMid \in NewsByMid(obs), NEW a \in PlanOf(obs, rows, byMid).lmove
    PROVE  LET p == PlanOf(obs, rows, byMid) IN
           /\ \A x \in p.adoptR \cup p.adoptL : x.mid = m => x.e # a.e /\ x.f # a.f
           /\ \A x \in p.down : x.e # a.e
           /\ \A x \in p.lflag : x.mid = m => (x.e = a.e <=> x.f = a.f)
           /\ \A e \in Email : HasRow(rows, e) => (e = a.e <=> rows[e].file = a.f)
<1> DEFINE moves == DetectedMoves(obs, rows, byMid)
           p == PlanOf(obs, rows, byMid)
<1>1. p.adoptR = RemoteAdopts(obs, rows) /\ p.adoptL = LocalAdopts(obs, rows, moves)
    BY DEF PlanOf
<1>2. rows \in Rows /\ obs \in Observation
    BY DEF TypeOK, DbTypes, ScanTypes
<1>3. /\ a.e \in Email /\ HasRow(rows, a.e) /\ a.f = rows[a.e].file
      /\ a.e \notin LocalDeletes(obs, rows, moves) /\ ~ProvablyGone(obs, a.e)
    BY <1>2, MoveSource
<1>4. \A e \in Email : HasRow(rows, e) => (e = a.e <=> rows[e].file = a.f)
    BY <1>3 DEF UniqueFiles
<1>5. ASSUME NEW x \in p.adoptR \cup p.adoptL, x.mid = m PROVE x.e # a.e /\ x.f # a.f
    <2>1. CASE x \in p.adoptR
        BY <1>1, <1>3, <2>1, TakenOver
    <2>2. CASE x \in p.adoptL
        BY <1>1, <1>3, <1>5, <2>2, Renamed
    <2> QED
        BY <2>1, <2>2
<1>6. ASSUME NEW x \in p.down PROVE x.e # a.e
    BY <1>2, <1>3, DownSource
<1>7. ASSUME NEW x \in p.lflag, x.mid = m PROVE x.e = a.e <=> x.f = a.f
    <2>1. CASE \E y \in p.adoptR \cup p.adoptL : x.f = y.f /\ x.e = y.e /\ x.mid = y.mid
        BY <1>5, <1>7, <2>1
    <2>2. CASE x.e \in Email /\ HasRow(rows, x.e) /\ x.f = rows[x.e].file
        BY <1>4, <2>2
    <2> QED
        BY <1>2, <2>1, <2>2, FlagSource
<1> QED
    BY <1>4, <1>5, <1>6, <1>7

LEMMA MadeDeletes ==
    ASSUME TypeOK, FilesNamed, UniqueFiles(rows), NEW m \in Mid, Scanned(m), Agree(m), pc # "scan",
           NEW byMid \in NewsByMid(obs), NEW a \in PlanOf(obs, rows, byMid).ldel
    PROVE  LET p == PlanOf(obs, rows, byMid) IN
           /\ \A x \in p.adoptR \cup p.adoptL : x.mid = m => x.f # a.f
           /\ \A x \in p.lflag : x.mid = m /\ x.f = a.f => x.e = a.e
           /\ \A e \in Email : rows[e].file = a.f => e = a.e
<1> DEFINE moves == DetectedMoves(obs, rows, byMid)
           p == PlanOf(obs, rows, byMid)
<1>1. p.adoptR = RemoteAdopts(obs, rows) /\ p.adoptL = LocalAdopts(obs, rows, moves)
    BY DEF PlanOf
<1>2. rows \in Rows /\ obs \in Observation
    BY DEF TypeOK, DbTypes, ScanTypes
<1>3. /\ a.e \in obs.destroyed /\ a.e \in Email /\ a.e \notin ConsumedDestroys(obs, rows)
      /\ HasRow(rows, a.e) /\ a.f = rows[a.e].file
    BY <1>2, DeleteSource
<1>4. \A e \in Email : rows[e].file = a.f => e = a.e
    BY <1>3 DEF UniqueFiles
<1>5. ASSUME NEW x \in p.adoptR \cup p.adoptL, x.mid = m PROVE x.f # a.f
    <2>1. CASE x \in p.adoptR
        BY <1>1, <1>3, <2>1, TakenOver
    <2>2. CASE x \in p.adoptL
        BY <1>1, <1>3, <1>5, <2>2, Renamed
    <2> QED
        BY <2>1, <2>2
<1>6. ASSUME NEW x \in p.lflag, x.mid = m, x.f = a.f PROVE x.e = a.e
    <2>1. CASE \E y \in p.adoptR \cup p.adoptL : x.f = y.f /\ x.e = y.e /\ x.mid = y.mid
        BY <1>5, <1>6, <2>1
    <2>2. CASE x.e \in Email /\ HasRow(rows, x.e) /\ x.f = rows[x.e].file
        BY <1>4, <1>6, <2>2
    <2> QED
        BY <1>2, <2>1, <2>2, FlagSource
<1> QED
    BY <1>4, <1>5, <1>6

\* What is uploaded is a new message: no row, and so no action but the upload, is
\* about its file.
LEMMA MadeUploads ==
    ASSUME TypeOK, FilesNamed, NEW m \in Mid, Scanned(m), Agree(m), pc # "scan",
           NEW byMid \in NewsByMid(obs), NEW u \in PlanOf(obs, rows, byMid).up
    PROVE  LET p == PlanOf(obs, rows, byMid) IN
           /\ u \in obs.news
           /\ \A e \in Email : rows[e].file # u.f
           /\ \A x \in p.adoptR \cup p.adoptL \cup p.lflag : x.f # u.f
           /\ \A x \in p.pair : x.oldF # u.f
<1> DEFINE moves == DetectedMoves(obs, rows, byMid)
           p == PlanOf(obs, rows, byMid)
<1>1. p.adoptR = RemoteAdopts(obs, rows) /\ p.adoptL = LocalAdopts(obs, rows, moves)
    BY DEF PlanOf
<1>2. rows \in Rows /\ obs \in Observation
    BY DEF TypeOK, DbTypes, ScanTypes
<1>3. u \in LiveNews(obs, rows, moves) /\ \A e \in Email : HasRow(rows, e) => rows[e].mid # u.mid
    BY DEF PlanOf, Uploads
<1>4. u \in obs.news /\ u.f \in File /\ u.mid \in Mid /\ Named(u.f, u.mid)
      /\ \A y \in p.adoptR : y.f # u.f
    BY <1>1, <1>2, <1>3 DEF LiveNews, Observation, NewMessage, Named, SeenName
<1>5. ASSUME NEW e \in Email PROVE rows[e].file # u.f
    <2> SUFFICES ASSUME rows[e].file = u.f PROVE FALSE
        OBVIOUS
    <2>1. HasRow(rows, e) /\ rows[e].mid \in Mid
        BY <1>2, <1>4, RowThere DEF HasRow, File, NoFile
    <2>2. Named(u.f, rows[e].mid)
        BY DEF Named, RowName
    <2> QED
        BY <1>3, <1>4, <2>1, <2>2, OneName
<1>6. ASSUME NEW x \in p.adoptL PROVE x.f # u.f
    <2>1. HasRow(rows, x.e) /\ rows[x.e].mid = x.mid /\ x.e \in Email
        BY <1>1, Renamed
    <2>2. PICK n \in obs.news : x.f = n.f /\ x.mid = n.mid
        BY <1>1, Renamed
    <2>3. n.mid \in Mid /\ n.f \in File /\ Named(n.f, n.mid)
        BY <1>2 DEF Observation, NewMessage, Named, SeenName
    <2> QED
        BY <1>3, <1>4, <2>1, <2>2, <2>3, OneName
<1>7. ASSUME NEW x \in p.lflag PROVE x.f # u.f
    BY <1>2, <1>4, <1>5, <1>6, FlagSource
<1>8. ASSUME NEW x \in p.pair PROVE x.oldF # u.f
    BY <1>2, <1>5, PairSource
<1> QED
    BY <1>4, <1>5, <1>6, <1>7, <1>8

LEMMA MadePairs ==
    ASSUME TypeOK, FilesNamed, UniqueFiles(rows), NEW m \in Mid, Scanned(m), Agree(m), pc # "scan",
           NEW byMid \in NewsByMid(obs), NEW a \in PlanOf(obs, rows, byMid).pair, a.mid = m
    PROVE  LET p == PlanOf(obs, rows, byMid) IN
           /\ \E b \in p.rmove : b.e = a.e
           /\ \/ /\ \A e \in Email : rows[e].file = a.oldF => e = a.e
                 /\ \A x \in p.adoptR \cup p.adoptL \cup p.lflag : x.f = a.oldF => x.e = a.e
              \/ server[a.e].st = "gone"
<1> DEFINE moves == DetectedMoves(obs, rows, byMid)
           p == PlanOf(obs, rows, byMid)
<1>1. p.adoptR = RemoteAdopts(obs, rows) /\ p.adoptL = LocalAdopts(obs, rows, moves)
    BY DEF PlanOf
<1>2. rows \in Rows /\ obs \in Observation
    BY DEF TypeOK, DbTypes, ScanTypes
<1>3. /\ a.e \in Email /\ a.oldF = rows[a.e].file /\ rows[a.e].mid = m /\ HasRow(rows, a.e)
      /\ \E b \in p.rmove : b.e = a.e
    BY <1>2, PairSource DEF Observation, HasRow, File, NoFile
<1>4. \A e \in Email : rows[e].file = a.oldF => e = a.e
    BY <1>3 DEF UniqueFiles
<1>5. \A x \in p.adoptL : x.f = a.oldF => x.mid # m
    BY <1>1, <1>3, Renamed
<1>6. \A x \in p.adoptL : x.f = a.oldF => x.mid = m
    <2> SUFFICES ASSUME NEW x \in p.adoptL, x.f = a.oldF PROVE x.mid = m
        OBVIOUS
    <2>1. PICK n \in obs.news : x.f = n.f /\ x.mid = n.mid
        BY <1>1, Renamed
    <2>2. n.mid \in Mid /\ n.f \in File /\ Named(n.f, n.mid) /\ Named(n.f, m)
        BY <1>2, <1>3, <2>1 DEF Observation, NewMessage, Named, SeenName, RowName
    <2> QED
        BY <2>1, <2>2, OneName
<1>7. CASE \E x \in p.adoptR : x.f = a.oldF
    <2>1. PICK x \in p.adoptR : x.f = a.oldF
        BY <1>7
    <2>2. ~HasRow(rows, x.e) /\ rows[a.e].mid = x.mid
          /\ \E r \in obs.remote : r.e = x.e /\ r.mid = x.mid
        BY <1>1, <1>3, <2>1, TakenOver
    <2>3. server[a.e].st = "gone"
        BY <1>3, <2>2 DEF Scanned, Alone
    <2> QED
        BY <1>3, <2>3
<1>8. CASE \A x \in p.adoptR : x.f # a.oldF
    <2>1. ASSUME NEW x \in p.lflag, x.f = a.oldF PROVE x.e = a.e
        <3>1. CASE \E y \in p.adoptR \cup p.adoptL : x.f = y.f
            BY <1>5, <1>6, <1>8, <2>1, <3>1
        <3>2. CASE x.e \in Email /\ x.f = rows[x.e].file
            BY <1>4, <2>1, <3>2
        <3> QED
            BY <1>2, <3>1, <3>2, FlagSource
    <2> QED
        BY <1>3, <1>4, <1>5, <1>6, <1>8, <2>1
<1> QED
    BY <1>7, <1>8

LEMMA PlannedMade ==
    ASSUME TypeOK, Phased, FilesNamed, UniqueFiles(rows), "PullOnly" \notin Directions,
           NEW m \in Mid, Scanned(m), Agree(m), FailedLate, MakePlan
    PROVE  Planned(m)'
<1>1. PICK byMid \in NewsByMid(obs) :
         /\ Shrunk(plan', PlanOf(obs, rows, byMid))
         /\ dir # "PullOnly" => plan'.rmove = PlanOf(obs, rows, byMid).rmove
    BY MadePlan
<1> DEFINE p == PlanOf(obs, rows, byMid)
<1>2. UNCHANGED <<rows, server, failed>> /\ imported' = {} /\ pc = "reconcile"
    BY MadePlan DEF MakePlan
<1>3. pc # "scan" /\ plan'.rmove = p.rmove
    BY <1>1, <1>2 DEF Phased
<1>4. /\ plan'.adoptR \subseteq p.adoptR /\ plan'.adoptL \subseteq p.adoptL
      /\ plan'.down \subseteq p.down /\ plan'.lflag \subseteq p.lflag
      /\ plan'.lmove \subseteq p.lmove /\ plan'.ldel \subseteq p.ldel
      /\ Coming' \subseteq p.up /\ plan'.pair \subseteq p.pair
      /\ Adopts' \subseteq p.adoptR \cup p.adoptL
    BY <1>1, <1>2 DEF Shrunk, Adopts, Coming
<1> HIDE DEF p
<1>5. Apart(m)'
    <2>1. /\ \A A \in {plan'.adoptR, plan'.adoptL, plan'.pair} : \A x, y \in A : x.f = y.f => x.box = y.box
          /\ \A x, y \in plan'.pair : x.e = y.e => x.f = y.f
          /\ \A x \in plan'.adoptR, y \in plan'.adoptL : x.f # y.f
          /\ \A x \in Adopts' : x.oldF = NoFile
          /\ \A x \in plan'.adoptL \cup plan'.pair : x.oldE = NoEmail
          /\ \A x \in plan'.pair : x.oldF # NoFile
        BY <1>3, <1>4, MadeAdopts DEF p
    <2>2. \A a \in plan'.lmove :
             /\ \A x \in Adopts' : x.mid = m => x.e # a.e /\ x.f # a.f
             /\ \A x \in plan'.down : x.e # a.e
             /\ \A x \in plan'.lflag : x.mid = m => (x.e = a.e <=> x.f = a.f)
        BY <1>3, <1>4, MadeMoves DEF p
    <2>3. \A a \in plan'.ldel :
             /\ \A x \in Adopts' : x.mid = m => x.f # a.f
             /\ \A x \in plan'.lflag : x.mid = m /\ x.f = a.f => x.e = a.e
        BY <1>3, <1>4, MadeDeletes DEF p
    <2> QED
        BY <2>1, <2>2, <2>3 DEF Apart
<1>6. \A u \in Coming' :
         /\ u \in obs.news
         /\ \A e \in Email : rows[e].file # u.f
         /\ \A x \in p.adoptR \cup p.adoptL \cup p.lflag : x.f # u.f
         /\ \A x \in p.pair : x.oldF # u.f
    BY <1>3, <1>4, MadeUploads DEF p
<1>7. Arriving'
    <2>1. \A u, v \in Coming' : u.f = v.f => u = v
        BY <1>6 DEF Scanned, Findings
    <2> QED
        BY <1>2, <1>4, <1>6, <2>1 DEF Arriving
<1>8. RowsFit(m)'
    <2>1. \A x \in plan'.adoptR, e \in Email : rows[e].file = x.f => e = x.oldE
        BY <1>3, <1>4, MadeAdopts DEF p
    <2>2. \A x \in plan'.adoptL, e \in Email : x.mid = m => rows[e].file # x.f
        BY <1>3, <1>4, MadeAdopts DEF p
    <2>3. \A a \in plan'.lmove, e \in Email :
             HasRow(rows, e) /\ rows[e].mid = m => (e = a.e <=> rows[e].file = a.f)
        BY <1>3, <1>4, MadeMoves DEF p
    <2>4. \A a \in plan'.ldel, e \in Email : rows[e].file = a.f /\ rows[e].mid = m => e = a.e
        BY <1>3, <1>4, MadeDeletes DEF p
    <2> QED
        BY <1>2, <1>6, <2>1, <2>2, <2>3, <2>4 DEF RowsFit, HasRow
<1>9. PairsFit(m)'
    <2> SUFFICES ASSUME NEW a \in plan'.pair, a.mid = m
                 PROVE  Owned(a)' \/ (server'[a.e].st = "gone" /\ \E b \in plan'.rmove : b.e = a.e)
        BY DEF PairsFit
    <2>1. /\ \E b \in plan'.rmove : b.e = a.e
          /\ \/ /\ \A e \in Email : rows[e].file = a.oldF => e = a.e
                /\ \A x \in p.adoptR \cup p.adoptL \cup p.lflag : x.f = a.oldF => x.e = a.e
             \/ server[a.e].st = "gone"
        BY <1>3, <1>4, MadePairs DEF p
    <2> QED
        BY <1>2, <1>4, <2>1 DEF Owned
<1>10. FailedLate'
    BY <1>2 DEF FailedLate
<1> QED
    BY <1>5, <1>7, <1>8, <1>9, <1>10 DEF Planned

-----------------------------------------------------------------------------
(* The executor keeps what it knows about its plan.                        *)

LEMMA NothingPlanned ==
    ASSUME NEW m, plan' = EmptyPlan, imported' = {}, failed' = {} PROVE Planned(m)'
<1>1. Adopts' = {} /\ Coming' = {} /\ plan'.lflag = {} /\ plan'.lmove = {} /\ plan'.ldel = {}
      /\ plan'.pair = {} /\ plan'.adoptR = {} /\ plan'.adoptL = {}
    BY DEF EmptyPlan, Adopts, Coming
<1>2. Apart(m)' /\ Arriving' /\ RowsFit(m)' /\ PairsFit(m)' /\ FailedLate'
    BY <1>1 DEF Apart, Arriving, RowsFit, PairsFit, FailedLate
<1> QED
    BY <1>2 DEF Planned

LEMMA PlanUndisturbed ==
    ASSUME TypeOK, EmailStep, NEW m, Planned(m), UNCHANGED <<rows, plan, imported, failed, pc>>
    PROVE  Planned(m)'
<1>1. Adopts' = Adopts /\ Coming' = Coming
    BY DEF Adopts, Coming
<1>2. Apart(m)' /\ Arriving' /\ RowsFit(m)' /\ FailedLate'
    BY <1>1 DEF Planned, Apart, Arriving, RowsFit, FailedLate, HasRow
<1>3. \A a \in plan.pair : a.e \in Email
    BY DEF TypeOK, ExecTypes, Plan, AdoptAction
<1>4. PairsFit(m)'
    BY <1>1, <1>3 DEF Planned, PairsFit, Owned, EmailStep
<1> QED
    BY <1>2, <1>4 DEF Planned

LEMMA ApartKept ==
    ASSUME NEW m, Apart(m), Shrunk(plan', plan) PROVE Apart(m)'
<1>1. /\ plan'.adoptR \subseteq plan.adoptR /\ plan'.adoptL \subseteq plan.adoptL
      /\ plan'.down \subseteq plan.down /\ plan'.lflag \subseteq plan.lflag
      /\ plan'.lmove \subseteq plan.lmove /\ plan'.ldel \subseteq plan.ldel
      /\ plan'.pair \subseteq plan.pair /\ Adopts' \subseteq Adopts
    BY DEF Shrunk, Adopts
<1> QED
    BY <1>1 DEF Apart

LEMMA ComingShrinks ==
    ASSUME Shrunk(plan', plan), ImportStep
    PROVE  /\ Coming' \subseteq Coming
           /\ \A i \in imported' : i \in imported \/ (i.u \in plan.up /\ i.u \notin plan'.up /\ i.e = nextEmail)
BY DEF Shrunk, ImportStep, Coming

LEMMA ArrivingKept ==
    ASSUME TypeOK, EmailsUsed, EmailsNamed, Arriving, Shrunk(plan', plan), ImportStep PROVE Arriving'
<1>1. /\ Adopts' \subseteq Adopts /\ plan'.lflag \subseteq plan.lflag /\ plan'.pair \subseteq plan.pair
      /\ plan'.up \subseteq plan.up /\ Coming' \subseteq Coming
    BY ComingShrinks DEF Shrunk, Adopts
<1>2. \A i \in imported : i.e \in Email /\ i.u.mid \in Mid
    BY DEF TypeOK, ExecTypes, Imported, NewMessage
<1>3. \A i \in imported : i.e # nextEmail
    <2>1. \A i \in imported : EmailName(i.e, i.u.mid)
        BY DEF EmailName
    <2>2. \A i \in imported : i.e < nextEmail
        BY <1>2, <2>1 DEF EmailsNamed, EmailsUsed
    <2> QED
        BY <1>2, <2>2 DEF Email, TypeOK, ServerTypes
<1>4. \A i \in imported' : i.u \notin plan'.up
    BY <1>1, ComingShrinks DEF Arriving
<1>5. ASSUME NEW i \in imported', NEW j \in imported', i.u = j.u \/ i.e = j.e PROVE i = j
    <2>1. CASE i \in imported /\ j \in imported
        BY <1>5, <2>1 DEF Arriving
    <2>2. CASE i \notin imported /\ j \notin imported
        BY <1>5, <2>2 DEF ImportStep
    <2>3. \A k \in imported' : k \in imported \/ (k.u \in plan.up /\ k.e = nextEmail)
        BY ComingShrinks
    <2>4. \A k \in imported : k.u \notin plan.up
        BY DEF Arriving
    <2> QED
        BY <1>3, <1>5, <2>1, <2>2, <2>3, <2>4
<1> QED
    BY <1>1, <1>4, <1>5 DEF Arriving

\* After the first phase there is nothing left to adopt; in it nothing else is done.
LEMMA AdoptsOver ==
    ASSUME TypeOK, Phased, Execute \/ Fails PROVE Adopts' = {} \/ rows' = rows
<1>1. ASSUME CycleReset PROVE Adopts' = {}
    BY <1>1 DEF CycleReset, Adopts, EmptyPlan
<1>2. CASE Fails
    BY <1>1, <1>2 DEF Fails, UploadError, CycleDies, DiesAfterDisk, CycleFails
<1>3. CASE Execute
    <2>1. CASE AdoptAll
        BY <2>1 DEF AdoptAll, Adopts, TypeOK, ExecTypes, Plan
    <2>2. CASE AdvanceCursor
        BY <2>2 DEF AdvanceCursor
    <2>3. CASE Execute /\ ~AdoptAll /\ ~AdvanceCursor /\ ~CycleReset
        <3>1. Advances
            BY <2>3, ExecAdvances
        <3>2. pc \in {"download", "lflag", "lmove", "ldelete", "upload", "commit", "set", "mirror", "pair"}
            <4>1. ASSUME NEW refused, RemoteSet(refused) PROVE pc = "set"
                BY <4>1, Zenon DEF RemoteSet
            <4> QED
                BY <2>3, <4>1 DEF Execute, IndexRefuses, DownloadOne, DownloadGone, LocalFlag,
                   LocalFlagSkipped, LocalMove, LocalMoveSkipped, LocalDelete, UploadOne,
                   UploadSkipped, CommitUpload, MirrorSet, AdoptPairs, Checkpoint,
                   CycleFails
        <3>3. Adopts = {}
            BY <3>2, Passed DEF Phased
        <3> QED
            BY <3>1, <3>3 DEF Advances, Shrunk, Adopts
    <2> QED
        BY <1>1, <1>3, <2>1, <2>2, <2>3
<1> QED
    BY <1>2, <1>3

\* What the executor does to the moves it has to push: nothing, or Email/set
\* refuses those whose email is gone, or the cycle is over.
FailStep ==
    \/ plan' = EmptyPlan /\ failed' = {}
    \/ plan'.rmove = plan.rmove /\ failed' = failed
    \/ pc = "set" /\ \A b \in plan.rmove : ~Live(b.e) => b.e \in failed'

LEMMA FailSteps ==
    ASSUME TypeOK, Phased, FailedLate, Execute \/ Fails PROVE FailStep /\ FailedLate'
<1> plan \in Plan
    BY DEF TypeOK, ExecTypes
<1>1. ASSUME CycleReset PROVE FailStep /\ FailedLate'
    BY <1>1 DEF CycleReset, FailStep, FailedLate
<1>2. ASSUME plan'.rmove = plan.rmove, failed' = failed,
             pc \notin {"mirror", "pair", "cursor", "checkpoint"}
      PROVE  FailStep /\ FailedLate'
    BY <1>2 DEF FailStep, FailedLate
<1>3. ASSUME NEW k \in 9 .. 11, pc' = NextPhase(ExecOrder[k], plan', imported', mirrors')
      PROVE  pc' \in {"mirror", "pair", "cursor"}
    <2>1. k \in 1 .. 11
        OBVIOUS
    <2>2. PICK i \in 1 .. 11 : k <= i /\ pc' = ExecOrder[i]
        BY <1>3, <2>1, NextPhaseSkips
    <2>3. i \in {9, 10, 11}
        BY <2>2
    <2> QED
        BY <2>2, <2>3, ExecNames
<1>4. CASE Fails
    BY <1>1, <1>4 DEF Fails, UploadError, CycleDies, DiesAfterDisk, CycleFails
<1>5. ASSUME NEW refused \in SUBSET Email, RemoteSet(refused) PROVE FailStep /\ FailedLate'
    <2>1. /\ pc = "set" /\ pc' = NextPhase("mirror", plan', imported, mirrors')
          /\ imported' = imported
          /\ failed' = ({a.e : a \in plan.rkw} \cup {a.e : a \in plan.rmove})
                \ ({e \in {a.e : a \in plan.rkw} \cup {a.e : a \in plan.rmove} : Live(e)}
                        \ (plan.rdel \cup refused))
        BY <1>5, Zenon DEF RemoteSet
    <2>2. \A b \in plan.rmove : ~Live(b.e) => b.e \in failed'
        BY <2>1
    <2>3. pc' \in {"mirror", "pair", "cursor"}
        BY <1>3, <2>1, ExecNames
    <2> QED
        BY <2>1, <2>2, <2>3 DEF FailStep, FailedLate
<1>6. CASE MirrorSet
    <2>1. /\ plan' = plan /\ failed' = failed /\ imported' = imported /\ mirrors' = NoMirrors
          /\ pc' = NextPhase("pair", plan', imported', mirrors')
        BY <1>6 DEF MirrorSet
    <2>2. pc' \in {"mirror", "pair", "cursor"}
        BY <1>3, <2>1, ExecNames
    <2> QED
        BY <2>1, <2>2 DEF FailStep, FailedLate
<1>7. CASE AdoptPairs \/ AdvanceCursor
    BY <1>7 DEF AdoptPairs, AdvanceCursor, FailStep, FailedLate, Plan
<1>8. CASE \/ AdoptAll \/ \E d \in plan.down : DownloadOne(d)
           \/ \E a \in plan.lflag : LocalFlag(a) \/ LocalFlagSkipped(a)
           \/ \E a \in plan.lmove : LocalMove(a) \/ LocalMoveSkipped(a)
           \/ \E a \in plan.ldel : LocalDelete(a)
           \/ \E u \in plan.up : UploadOne(u) \/ UploadSkipped(u)
           \/ \E i \in imported : CommitUpload(i)
    BY <1>2, <1>8 DEF AdoptAll, DownloadOne, LocalFlag, LocalFlagSkipped, LocalMove, LocalMoveSkipped,
       LocalDelete, UploadOne, UploadSkipped, CommitUpload, Plan
<1>9. CASE IndexRefuses \/ (\E d \in plan.down : DownloadGone(d)) \/ Checkpoint
    BY <1>1, <1>9 DEF IndexRefuses, DownloadGone, Checkpoint, CycleFails
<1> QED
    BY <1>4, <1>5, <1>6, <1>7, <1>8, <1>9, Zenon DEF Execute

LEMMA RowsFitKept ==
    ASSUME TypeOK, Phased, FilesNamed, NEW m \in Mid, Planned(m), Shrunk(plan', plan),
           RowsStep, ImportStep, Adopts' = {} \/ rows' = rows
    PROVE  RowsFit(m)'
<1> Done
    BY DEF Phased
<1>1. /\ Adopts' \subseteq Adopts /\ plan'.lflag \subseteq plan.lflag /\ plan'.up \subseteq plan.up
      /\ plan'.lmove \subseteq plan.lmove /\ plan'.ldel \subseteq plan.ldel /\ Coming' \subseteq Coming
      /\ plan'.adoptR \subseteq plan.adoptR /\ plan'.adoptL \subseteq plan.adoptL
    BY ComingShrinks DEF Shrunk, Adopts
<1>2. plan \in Plan /\ imported \subseteq Imported /\ nextFile \in Nat /\ rows \in Rows
    BY DEF TypeOK, ExecTypes, DiskTypes, DbTypes
<1>3. \A u \in Coming : u.f \in File /\ u.mid \in Mid
    BY <1>2 DEF Coming, Plan, Imported, NewMessage
<1>4. \A u \in Coming : u.f < nextFile
    <2>1. \A u \in Coming : Named(u.f, u.mid)
        BY DEF Named, PlanName
    <2> QED
        BY <1>3, <2>1 DEF FilesNamed
<1>5. \A a \in plan.lmove \cup plan.ldel : a.f < nextFile /\ a.f \in File /\ a.e \in Email
    BY <1>2 DEF FilesNamed, Plan, MoveLocal, DeleteLocal
<1>6. ASSUME NEW u \in Coming', NEW e \in Email, rows'[e].file = u.f PROVE FALSE
    <2>1. u \in Coming /\ u.f # NoFile /\ u.f # nextFile
        BY <1>1, <1>2, <1>3, <1>4 DEF File, NoFile
    <2>2. rows[e].file # u.f /\ \A x \in Adopts \cup plan.lflag : x.f # u.f
        BY <2>1 DEF Planned, RowsFit, Arriving
    <2>3. ASSUME NEW i \in imported \ imported', i.u.f = u.f PROVE FALSE
        <3>1. i.u = u
            BY <2>1, <2>3 DEF Planned, Arriving, Coming
        <3>2. u \notin plan.up
            BY <3>1 DEF Planned, Arriving
        <3>3. PICK j \in imported' : j.u = u
            BY <1>1, <3>2 DEF Coming
        <3>4. j \in imported
            BY <3>2, <3>3, ComingShrinks
        <3> QED
            BY <3>1, <3>3, <3>4 DEF Planned, Arriving
    <2>4. pc # "pair"
        BY <2>1, Passed DEF Coming
    <2> QED
        BY <1>6, <2>1, <2>2, <2>3, <2>4 DEF RowsStep
<1>7. ASSUME NEW a \in plan'.lmove, NEW e \in Email, HasRow(rows', e), rows'[e].mid = m
      PROVE  e = a.e <=> rows'[e].file = a.f
    <2>1. a \in plan.lmove /\ plan' # EmptyPlan /\ pc # "commit" /\ pc # "pair" /\ a.f # nextFile
        BY <1>1, <1>2, <1>5, Passed DEF EmptyPlan
    <2>2. HasRow(rows, e) /\ rows[e].mid = m => (e = a.e <=> rows[e].file = a.f)
        BY <2>1 DEF Planned, RowsFit
    <2>3. /\ \A x \in Adopts : x.mid = m => x.e # a.e /\ x.f # a.f
          /\ \A x \in plan.down : x.e # a.e
          /\ \A x \in plan.lflag : x.mid = m => (x.e = a.e <=> x.f = a.f)
        BY <2>1 DEF Planned, Apart
    <2> QED
        BY <1>7, <2>1, <2>2, <2>3 DEF RowsStep, HasRow
<1>8. ASSUME NEW a \in plan'.ldel, NEW e \in Email, rows'[e].file = a.f, rows'[e].mid = m
      PROVE  e = a.e
    <2>1. a \in plan.ldel /\ plan' # EmptyPlan /\ pc # "commit" /\ pc # "pair" /\ a.f # nextFile
          /\ a.f # NoFile
        BY <1>1, <1>2, <1>5, Passed DEF EmptyPlan, File, NoFile
    <2>2. rows[e].file = a.f /\ rows[e].mid = m => e = a.e
        BY <2>1 DEF Planned, RowsFit
    <2>3. /\ \A x \in Adopts : x.mid = m => x.f # a.f
          /\ \A x \in plan.lflag : x.mid = m /\ x.f = a.f => x.e = a.e
        BY <2>1 DEF Planned, Apart
    <2> QED
        BY <1>8, <2>1, <2>2, <2>3 DEF RowsStep
<1>9. /\ \A x \in plan'.adoptR, e \in Email : rows'[e].file = x.f => e = x.oldE
      /\ \A x \in plan'.adoptL, e \in Email : x.mid = m => rows'[e].file # x.f
    <2>1. CASE Adopts' = {}
        BY <2>1 DEF Adopts
    <2>2. CASE rows' = rows
        BY <1>1, <2>2 DEF Planned, RowsFit
    <2> QED
        BY <2>1, <2>2
<1> QED
    BY <1>6, <1>7, <1>8, <1>9 DEF RowsFit

LEMMA PairsFitKept ==
    ASSUME TypeOK, Phased, FilesNamed, EmailStep, NEW m \in Mid, Planned(m), Shrunk(plan', plan),
           RowsStep, FailStep
    PROVE  PairsFit(m)'
<1> Done
    BY DEF Phased
<1>1. /\ Adopts' \subseteq Adopts /\ plan'.lflag \subseteq plan.lflag
      /\ plan'.pair \subseteq plan.pair
    BY DEF Shrunk, Adopts
<1>2. plan \in Plan /\ nextFile \in Nat
    BY DEF TypeOK, ExecTypes, DiskTypes
<1> SUFFICES ASSUME NEW a \in plan'.pair, a.mid = m
             PROVE  \/ Owned(a)'
                    \/ server'[a.e].st = "gone" /\ \E b \in plan'.rmove : b.e = a.e
                    \/ a.e \in failed'
    BY DEF PairsFit
<1>3. a \in plan.pair /\ a.e \in Email /\ a.oldF \in File /\ plan' # EmptyPlan
    BY <1>1, <1>2 DEF Plan, AdoptAction, EmptyPlan, Planned, Apart
<1>4. CASE Owned(a)
    <2>1. a.oldF # NoFile /\ a.oldF # nextFile
        <3>1. Named(a.oldF, m)
            BY <1>3 DEF Named, PlanName
        <3> QED
            BY <1>2, <1>3, <3>1 DEF FilesNamed, File, NoFile
    <2>2. /\ \A e \in Email : rows[e].file = a.oldF => e = a.e
          /\ \A x \in Adopts \cup plan.lflag : x.f = a.oldF => x.e = a.e
        BY <1>4 DEF Owned
    <2>3. \A i \in imported : i.u.f # a.oldF
        BY <1>3 DEF Planned, Arriving, Coming
    <2>4. ~(pc = "pair" /\ plan'.pair = {})
        OBVIOUS
    <2>5. \A e \in Email : rows'[e].file = a.oldF => e = a.e
        BY <2>1, <2>2, <2>3, <2>4 DEF RowsStep
    <2> QED
        BY <1>1, <2>2, <2>5 DEF Owned
<1>5. CASE server[a.e].st = "gone" /\ \E b \in plan.rmove : b.e = a.e
    <2>1. server'[a.e].st = "gone"
        BY <1>3, <1>5 DEF EmailStep
    <2>2. plan'.rmove = plan.rmove \/ a.e \in failed'
        BY <1>3, <1>5 DEF FailStep, Live
    <2> QED
        BY <1>5, <2>1, <2>2
<1>6. CASE a.e \in failed
    BY <1>3, <1>6 DEF FailStep, Planned, FailedLate
<1> QED
    BY <1>3, <1>4, <1>5, <1>6 DEF Planned, PairsFit

LEMMA PlannedKept ==
    ASSUME TypeOK, Phased, EmailsUsed, FilesNamed, EmailsNamed, UniqueFiles(rows),
           "PullOnly" \notin Directions, NEW m \in Mid, Scanned(m), Planned(m), Agree(m), [Next]_vars
    PROVE  Planned(m)'
<1> EmailStep
    BY WorldSteps
<1>1. ASSUME pc \notin ExecPhases \cup {"checkpoint"}, UNCHANGED <<plan, imported, failed>>
      PROVE  Planned(m)'
    BY <1>1, PhaseNames, NothingPlanned DEF Phased, Planned, FailedLate
<1>2. CASE \E d \in Directions : StartCycle(d)
    BY <1>1, <1>2, PhaseNames DEF StartCycle
<1>3. CASE Observe
    <2>1. CASE MakePlan
        BY <2>1, PlannedMade DEF Planned
    <2>2. CASE Observe /\ ~MakePlan
        BY <1>1, <2>2, PhaseNames DEF Observe, ScanFolder, FetchChanges, ChangesRefused,
           QueryMailboxes, GetEmails, GetState
    <2> QED
        BY <1>3, <2>1, <2>2
<1>4. CASE Execute \/ Fails
    <2>1. Shrunk(plan', plan)
        <3>1. CASE CycleReset
            BY <3>1 DEF CycleReset, Shrunk, EmptyPlan
        <3>2. CASE Advances
            BY <3>2 DEF Advances
        <3> QED
            BY <1>4, <3>1, <3>2, ExecAdvances
               DEF Fails, UploadError, CycleDies, DiesAfterDisk, CycleFails
    <2>2. RowsStep /\ ImportStep
        BY <1>4, ExecRows
    <2>3. FailStep /\ FailedLate'
        BY <1>4, FailSteps DEF Planned
    <2>4. Apart(m)'
        BY <2>1, ApartKept DEF Planned
    <2>5. Arriving'
        BY <2>1, <2>2, ArrivingKept DEF Planned
    <2>6. RowsFit(m)'
        BY <1>4, <2>1, <2>2, AdoptsOver, RowsFitKept
    <2>7. PairsFit(m)'
        BY <2>1, <2>2, <2>3, PairsFitKept
    <2> QED
        BY <2>3, <2>4, <2>5, <2>6, <2>7 DEF Planned
<1>5. CASE UserActs
    <2>1. CASE DbLost
        BY <1>1, <2>1, PhaseNames DEF DbLost, cycleVars
    <2>2. CASE UserActs /\ ~DbLost
        <3>1. UNCHANGED <<rows, cycleVars>>
            BY <2>2 DEF UserActs, UserNew, UserCopy, UserMove, UserRename, UserFlag, UserUnflag,
               UserDelete, UserStep
        <3> QED
            BY <3>1, PlanUndisturbed DEF cycleVars
    <2> QED
        BY <1>5, <2>1, <2>2
<1>6. CASE ServerActs \/ UNCHANGED vars
    <2>1. UNCHANGED <<rows, cycleVars>>
        BY <1>6 DEF ServerActs, ServerCreate, ServerDuplicate, ServerFlag, ServerMove,
           ServerDestroy, ServerStep, dbVars, vars
    <2> QED
        BY <2>1, PlanUndisturbed DEF cycleVars
<1> QED
    BY <1>2, <1>3, <1>4, <1>5, <1>6 DEF Next

-----------------------------------------------------------------------------
(* Every transaction keeps the two tables agreed.                          *)

\* No row has the next file to be created.
LEMMA RowsOld ==
    ASSUME TypeOK, FilesNamed, NEW e \in Email PROVE HasRow(rows, e) => rows[e].file # nextFile
<1> SUFFICES ASSUME HasRow(rows, e) PROVE rows[e].file # nextFile
    OBVIOUS
<1>1. rows[e].file \in File /\ rows[e].mid \in Mid
    BY RowThere DEF TypeOK, DbTypes
<1>2. Named(rows[e].file, rows[e].mid)
    BY DEF Named, RowName
<1> QED
    BY <1>1, <1>2 DEF FilesNamed, File, TypeOK, DiskTypes

\* A row of m is not of a file that is named for another message.
LEMMA RowsName ==
    ASSUME TypeOK, FilesNamed, NEW e \in Email, HasRow(rows, e), NEW n \in Mid, Named(rows[e].file, n)
    PROVE  rows[e].mid = n
<1>1. rows[e].file \in File /\ rows[e].mid \in Mid
    BY RowThere DEF TypeOK, DbTypes
<1>2. Named(rows[e].file, rows[e].mid)
    BY DEF Named, RowName
<1> QED
    BY <1>1, <1>2, OneName

\* The box of a local_state after a batch of adopts.
LEMMA AdoptedState ==
    ASSUME NEW L, NEW A, NEW f \in File
    PROVE  /\ \A a \in A : a.f = f => \E x \in A : x.f = f /\ AdoptStates(L, A)[f].box = x.box
           /\ (\A a \in A : a.f # f /\ a.oldF # f) => AdoptStates(L, A)[f] = L[f]
<1>1. ASSUME NEW a \in A, a.f = f PROVE \E x \in A : x.f = f /\ AdoptStates(L, A)[f].box = x.box
    <2> DEFINE x == CHOOSE x \in A : x.f = f
    <2>1. x \in A /\ x.f = f
        BY <1>1
    <2>2. AdoptStates(L, A)[f] = [box |-> x.box, fl |-> x.fl]
        BY <1>1 DEF AdoptStates
    <2> HIDE DEF x
    <2> QED
        BY <2>1, <2>2
<1>2. (\A a \in A : a.f # f /\ a.oldF # f) => AdoptStates(L, A)[f] = L[f]
    BY DEF AdoptStates
<1> QED
    BY <1>1, <1>2

LEMMA AdoptAllAgrees ==
    ASSUME TypeOK, FilesNamed, NEW m \in Mid, Planned(m), Agree(m), AdoptAll PROVE Agree(m)'
<1> DEFINE R1 == AdoptRows(rows, plan.adoptR)
           L1 == AdoptStates(ls, plan.adoptR)
<1>1. /\ rows \in Rows /\ R1 \in Rows /\ plan.adoptR \in SUBSET AdoptAction
      /\ plan.adoptL \in SUBSET AdoptAction
    BY AdoptRowsType DEF TypeOK, DbTypes, ExecTypes, Plan
<1>2. rows' = AdoptRows(R1, plan.adoptL) /\ ls' = AdoptStates(L1, plan.adoptL)
    BY DEF AdoptAll, UnconditionalRows
<1>3. /\ \A x, y \in plan.adoptR : x.f = y.f => x.box = y.box
      /\ \A x, y \in plan.adoptL : x.f = y.f => x.box = y.box
      /\ \A x \in plan.adoptR, y \in plan.adoptL : x.f # y.f
      /\ \A x \in Adopts : x.oldF = NoFile
    BY DEF Planned, Apart
<1>4. \A x \in Adopts : x.f \in File /\ x.e \in Email /\ x.f # NoFile /\ x.mid \in Mid
    BY <1>1 DEF Adopts, AdoptAction, File, NoFile
<1>5. /\ \A x \in plan.adoptR, e \in Email : rows[e].file = x.f => e = x.oldE
      /\ \A x \in plan.adoptL, e \in Email : x.mid = m => rows[e].file # x.f
    BY DEF Planned, RowsFit
<1> HIDE DEF R1, L1
<1> SUFFICES ASSUME NEW e \in Email, HasRow(rows', e), rows'[e].mid = m
             PROVE  ls'[rows'[e].file].box = rows'[e].box
    BY DEF Agree
<1>6. rows'[e].file # NoFile
    BY DEF HasRow
<1>7. ASSUME NEW x \in plan.adoptL, rows'[e] = AdoptRow(x) PROVE ls'[rows'[e].file].box = rows'[e].box
    <2>1. rows'[e].file = x.f /\ rows'[e].box = x.box
        BY <1>7, RowFacts
    <2>2. x.f \in File
        BY <1>4 DEF Adopts
    <2>3. \E y \in plan.adoptL : y.f = x.f /\ ls'[x.f].box = y.box
        BY <1>2, <2>2, AdoptedState
    <2> QED
        BY <1>3, <2>1, <2>3
<1>8. ASSUME NEW x \in plan.adoptR, rows'[e] = AdoptRow(x) PROVE ls'[rows'[e].file].box = rows'[e].box
    <2>1. rows'[e].file = x.f /\ rows'[e].box = x.box
        BY <1>8, RowFacts
    <2>2. x.f \in File /\ x.f # NoFile
        BY <1>4 DEF Adopts
    <2>3. \E y \in plan.adoptR : y.f = x.f /\ L1[x.f].box = y.box
        BY <2>2, AdoptedState DEF L1
    <2>4. \A a \in plan.adoptL : a.f # x.f /\ a.oldF # x.f
        BY <1>3, <2>2 DEF Adopts
    <2>5. ls'[x.f] = L1[x.f]
        BY <1>2, <2>2, <2>4, AdoptedState
    <2> QED
        BY <1>3, <2>1, <2>3, <2>5
<1>9. CASE /\ rows'[e] = rows[e]
           /\ ~\E a \in Adopts : a.e = e \/ a.oldE = e
    <2> DEFINE f == rows[e].file
    <2>1. HasRow(rows, e) /\ rows[e].mid = m /\ f \in File
        BY <1>1, <1>9, RowThere DEF HasRow
    <2>2. \A a \in Adopts : a.f # f
        <3>1. \A a \in Adopts : Named(a.f, a.mid)
            BY DEF Named, PlanName
        <3>2. \A a \in Adopts : a.f = f => a.mid = m
            BY <1>4, <2>1, <3>1, RowsName
        <3> QED
            BY <1>5, <1>9, <3>2 DEF Adopts
    <2>3. \A a \in Adopts : a.oldF # f
        BY <1>3, <2>1 DEF HasRow
    <2>4. L1[f] = ls[f]
        BY <2>1, <2>2, <2>3, AdoptedState DEF L1, Adopts
    <2>5. ls'[f] = L1[f]
        BY <1>2, <2>1, <2>2, <2>3, AdoptedState DEF Adopts
    <2> QED
        BY <1>9, <2>1, <2>4, <2>5 DEF Agree
<1>10. \/ rows'[e] = R1[e] /\ ~\E a \in plan.adoptL : a.e = e \/ a.oldE = e
       \/ rows'[e] = NoRow
       \/ \E a \in plan.adoptL : a.e = e /\ rows'[e] = AdoptRow(a)
    BY <1>1, <1>2, AdoptedRow
<1>11. \/ R1[e] = rows[e] /\ ~\E a \in plan.adoptR : a.e = e \/ a.oldE = e
       \/ R1[e] = NoRow
       \/ \E a \in plan.adoptR : a.e = e /\ R1[e] = AdoptRow(a)
    BY <1>1, AdoptedRow DEF R1
<1>12. rows'[e] # NoRow
    BY <1>6, RowFacts
<1> QED
    BY <1>7, <1>8, <1>9, <1>10, <1>11, <1>12 DEF Adopts

LEMMA AdoptPairsAgrees ==
    ASSUME TypeOK, Phased, FilesNamed, NEW m \in Mid, Planned(m), Agree(m), AdoptPairs PROVE Agree(m)'
<1>1. /\ rows \in Rows /\ LandedPairs \in SUBSET AdoptAction /\ LandedPairs \subseteq plan.pair
    BY DEF TypeOK, DbTypes, ExecTypes, Plan, LandedPairs
<1>2. /\ rows' = AdoptRows(rows, LandedPairs) /\ ls' = AdoptStates(ls, LandedPairs)
      /\ UniqueFiles(rows') /\ plan.rmove = {} /\ Adopts = {}
    BY Passed DEF AdoptPairs, Phased
<1>3. /\ \A x, y \in plan.pair : x.f = y.f => x.box = y.box
      /\ \A x, y \in plan.pair : x.e = y.e => x.f = y.f
      /\ \A x \in plan.pair : x.oldE = NoEmail
    BY DEF Planned, Apart
<1>4. \A x \in LandedPairs : x.f \in File /\ x.e \in Email /\ x.f # NoFile /\ x.mid \in Mid
    BY <1>1 DEF AdoptAction, File, NoFile
<1> SUFFICES ASSUME NEW e \in Email, HasRow(rows', e), rows'[e].mid = m
             PROVE  ls'[rows'[e].file].box = rows'[e].box
    BY DEF Agree
<1>5. rows'[e] # NoRow
    BY RowFacts DEF HasRow
<1>6. ASSUME NEW x \in LandedPairs, rows'[e] = AdoptRow(x) PROVE ls'[rows'[e].file].box = rows'[e].box
    <2>1. rows'[e].file = x.f /\ rows'[e].box = x.box
        BY <1>6, RowFacts
    <2>2. \E y \in LandedPairs : y.f = x.f /\ ls'[x.f].box = y.box
        BY <1>2, <1>4, AdoptedState
    <2> QED
        BY <1>1, <1>3, <2>1, <2>2
<1>7. CASE rows'[e] = rows[e] /\ ~\E a \in LandedPairs : a.e = e \/ a.oldE = e
    <2> DEFINE f == rows[e].file
    <2>1. HasRow(rows, e) /\ rows[e].mid = m /\ f \in File /\ rows'[e].file = f
        BY <1>1, <1>7, RowThere DEF HasRow
    <2>2. ASSUME NEW a \in LandedPairs PROVE a.f # f
        <3>1. rows'[a.e] = AdoptRow(LastFor(LandedPairs, a.e))
            BY <1>2, <1>4 DEF AdoptRows
        <3>2. LastFor(LandedPairs, a.e) \in LandedPairs /\ LastFor(LandedPairs, a.e).e = a.e
            BY <1>1, LastForIn
        <3>3. PICK x \in LandedPairs : x.e = a.e /\ rows'[a.e] = AdoptRow(x)
            BY <3>1, <3>2
        <3>4. rows'[a.e].file = x.f /\ x.f = a.f
            BY <1>1, <1>3, <3>3, RowFacts
        <3> QED
            BY <1>2, <1>4, <1>7, <2>1, <3>4 DEF UniqueFiles, HasRow
    <2>3. ASSUME NEW a \in LandedPairs PROVE a.oldF # f
        <3> SUFFICES ASSUME a.oldF = f PROVE FALSE
            OBVIOUS
        <3>1. a \in plan.pair /\ Named(f, a.mid)
            BY <1>1 DEF Named, PlanName
        <3>2. a.mid = m
            BY <1>4, <2>1, <3>1, RowsName
        <3>3. Owned(a)
            BY <1>2, <3>1, <3>2 DEF Planned, PairsFit, LandedPairs
        <3> QED
            BY <1>7, <3>3 DEF Owned
    <2>4. ls'[f] = ls[f]
        BY <1>2, <2>1, <2>2, <2>3, AdoptedState
    <2> QED
        BY <1>7, <2>1, <2>4 DEF Agree
<1>8. \/ rows'[e] = rows[e] /\ ~\E a \in LandedPairs : a.e = e \/ a.oldE = e
      \/ rows'[e] = NoRow
      \/ \E a \in LandedPairs : a.e = e /\ rows'[e] = AdoptRow(a)
    BY <1>1, <1>2, AdoptedRow
<1> QED
    BY <1>5, <1>6, <1>7, <1>8

\* One row and one local_state are written, and no other row has the file.
OneWritten(e, f, r, s) ==
    /\ e \in Email /\ f \in File /\ rows \in Rows /\ ls \in [File -> LocalState]
    /\ rows' = [rows EXCEPT ![e] = r] /\ ls' = [ls EXCEPT ![f] = s]
    /\ r.file = f /\ s.box = r.box
    /\ \A d \in Email : d # e /\ HasRow(rows, d) => rows[d].file # f

LEMMA OneWrittenAgrees ==
    ASSUME NEW m, Agree(m), NEW e, NEW f, NEW r, NEW s, OneWritten(e, f, r, s)
    PROVE  Agree(m)'
<1> USE DEF OneWritten
<1> SUFFICES ASSUME NEW d \in Email, HasRow(rows', d), rows'[d].mid = m
             PROVE  ls'[rows'[d].file].box = rows'[d].box
    BY DEF Agree
<1>1. CASE d = e
    <2>1. rows'[d] = r /\ ls'[f] = s
        BY <1>1 DEF Rows
    <2> QED
        BY <2>1
<1>2. CASE d # e
    <2>1. rows'[d] = rows[d] /\ HasRow(rows, d)
        BY <1>2 DEF Rows, HasRow
    <2>2. rows[d].file # f /\ ls'[rows[d].file] = ls[rows[d].file]
        BY <1>2, <2>1
    <2> QED
        BY <2>1, <2>2 DEF Agree
<1> QED
    BY <1>1, <1>2

\* The unique index, checked on the rows a transaction leaves.
LEMMA IndexChecked ==
    ASSUME NEW e \in Email, NEW r, rows \in Rows, r.file # NoFile,
           UniqueFiles([rows EXCEPT ![e] = r])
    PROVE  \A d \in Email : d # e /\ HasRow(rows, d) => rows[d].file # r.file
<1> DEFINE R == [rows EXCEPT ![e] = r]
<1>1. R[e] = r /\ \A d \in Email : d # e => R[d] = rows[d]
    BY DEF Rows
<1>2. UniqueFiles(R)
    OBVIOUS
<1> HIDE DEF R
<1> QED
    BY <1>1, <1>2 DEF UniqueFiles, HasRow

LEMMA DownloadAgrees ==
    ASSUME TypeOK, FilesNamed, NEW m, Agree(m), NEW d \in plan.down, DownloadOne(d) PROVE Agree(m)'
<1> DEFINE r == [box |-> d.box, mid |-> d.mid, file |-> nextFile, flags |-> d.kw, blob |-> TRUE]
           s == [box |-> d.box, fl |-> d.kw]
<1>1. /\ rows' = [rows EXCEPT ![d.e] = r] /\ ls' = [ls EXCEPT ![nextFile] = s] /\ nextFile \in File
      /\ d.e \in Email /\ rows \in Rows /\ ls \in [File -> LocalState]
    BY DEF DownloadOne, Delivered, TypeOK, DbTypes, ExecTypes, Plan, Download
<1>2. r.file = nextFile /\ s.box = r.box
    OBVIOUS
<1> HIDE DEF r, s
<1>3. \A x \in Email : x # d.e /\ HasRow(rows, x) => rows[x].file # nextFile
    BY RowsOld
<1>4. OneWritten(d.e, nextFile, r, s)
    BY <1>1, <1>2, <1>3 DEF OneWritten
<1> QED
    BY <1>4, OneWrittenAgrees

LEMMA LocalFlagAgrees ==
    ASSUME TypeOK, NEW m, Agree(m), NEW a \in plan.lflag, LocalFlag(a) PROVE Agree(m)'
<1> DEFINE r == [box |-> a.box, mid |-> a.mid, file |-> a.f, flags |-> a.fl, blob |-> TRUE]
           s == [box |-> a.box, fl |-> a.fl]
<1>1. /\ rows' = [rows EXCEPT ![a.e] = r] /\ ls' = [ls EXCEPT ![a.f] = s]
      /\ a.e \in Email /\ a.f \in File /\ rows \in Rows /\ ls \in [File -> LocalState]
    BY DEF LocalFlag, FlagRows, TypeOK, DbTypes, ExecTypes, Plan, UpdateLocalFlags
<1>2. r.file = a.f /\ s.box = r.box /\ a.f # NoFile
    BY <1>1 DEF File, NoFile
<1>3. UniqueFiles([rows EXCEPT ![a.e] = r])
    BY DEF LocalFlag, FlagRows
<1> HIDE DEF r, s
<1>4. \A x \in Email : x # a.e /\ HasRow(rows, x) => rows[x].file # a.f
    BY <1>1, <1>2, <1>3, IndexChecked
<1>5. OneWritten(a.e, a.f, r, s)
    BY <1>1, <1>2, <1>4 DEF OneWritten
<1> QED
    BY <1>5, OneWrittenAgrees

LEMMA CommitAgrees ==
    ASSUME TypeOK, NEW m, Agree(m), NEW i \in imported, CommitUpload(i) PROVE Agree(m)'
<1>1. /\ rows' = [rows EXCEPT ![i.e] = UploadRow(i)] /\ ls' = [ls EXCEPT ![i.u.f] = UploadState(i)]
      /\ i.e \in Email /\ i.u.f \in File /\ rows \in Rows /\ ls \in [File -> LocalState]
    BY DEF CommitUpload, TypeOK, DbTypes, ExecTypes, Imported, NewMessage
<1>2. UploadRow(i).file = i.u.f /\ UploadState(i).box = UploadRow(i).box /\ i.u.f # NoFile
    <2>1. i.u.f # NoFile
        BY <1>1 DEF File, NoFile
    <2> QED
        BY <2>1, RowFacts
<1>3. UniqueFiles([rows EXCEPT ![i.e] = UploadRow(i)])
    BY DEF CommitUpload
<1>4. \A x \in Email : x # i.e /\ HasRow(rows, x) => rows[x].file # i.u.f
    BY <1>1, <1>2, <1>3, IndexChecked
<1>5. OneWritten(i.e, i.u.f, UploadRow(i), UploadState(i))
    BY <1>1, <1>2, <1>4 DEF OneWritten
<1> QED
    BY <1>5, OneWrittenAgrees

LEMMA LocalMoveAgrees ==
    ASSUME TypeOK, NEW m, RowsFit(m), Agree(m), NEW a \in plan.lmove, LocalMove(a) PROVE Agree(m)'
<1>1. /\ rows' = IF HasRow(rows, a.e) THEN [rows EXCEPT ![a.e].box = a.to] ELSE rows
      /\ ls' = [ls EXCEPT ![a.f] = [box |-> a.to, fl |-> rows[a.e].flags]]
      /\ a.e \in Email /\ a.f \in File /\ rows \in Rows /\ ls \in [File -> LocalState]
    BY DEF LocalMove, TypeOK, DbTypes, ExecTypes, Plan, MoveLocal
<1>2. \A e \in Email : HasRow(rows, e) /\ rows[e].mid = m => (e = a.e <=> rows[e].file = a.f)
    BY DEF RowsFit
<1>3. [box |-> a.to, fl |-> rows[a.e].flags].box = a.to
    OBVIOUS
<1> SUFFICES ASSUME NEW e \in Email, HasRow(rows', e), rows'[e].mid = m
             PROVE  ls'[rows'[e].file].box = rows'[e].box
    BY DEF Agree
<1>4. CASE e = a.e
    <2>1. rows'[e].file = rows[e].file /\ rows'[e].mid = rows[e].mid
        BY <1>1, <1>4 DEF Rows, Row, NoRow
    <2>2. HasRow(rows, e) /\ rows[e].mid = m
        BY <2>1 DEF HasRow
    <2>3. rows'[e].file = a.f /\ ls'[a.f].box = a.to
        BY <1>1, <1>2, <1>3, <1>4, <2>1, <2>2
    <2>4. rows' = [rows EXCEPT ![e] = [rows[e] EXCEPT !.box = a.to]]
        BY <1>1, <1>4, <2>2
    <2>5. rows[e] \in Row \/ rows[e] = NoRow
        BY <1>1 DEF Rows
    <2>6. rows'[e].box = a.to
        BY <1>1, <2>4, <2>5 DEF Rows, Row, NoRow
    <2> QED
        BY <2>3, <2>6
<1>5. CASE e # a.e
    <2>1. rows'[e] = rows[e]
        BY <1>1, <1>5 DEF Rows
    <2>2. HasRow(rows, e) /\ rows[e].mid = m /\ rows[e].file # a.f
        BY <1>2, <1>5, <2>1 DEF HasRow
    <2>3. ls'[rows[e].file] = ls[rows[e].file]
        BY <1>1, <2>2
    <2> QED
        BY <2>1, <2>2, <2>3 DEF Agree
<1> QED
    BY <1>4, <1>5

LEMMA LocalDeleteAgrees ==
    ASSUME TypeOK, NEW m, RowsFit(m), Agree(m), NEW a \in plan.ldel, LocalDelete(a) PROVE Agree(m)'
<1>1. /\ rows' = [rows EXCEPT ![a.e] = NoRow] /\ ls' = [ls EXCEPT ![a.f] = NoState]
      /\ a.e \in Email /\ a.f \in File /\ rows \in Rows /\ ls \in [File -> LocalState]
    BY DEF LocalDelete, TypeOK, DbTypes, ExecTypes, Plan, DeleteLocal
<1>2. \A e \in Email : rows[e].file = a.f /\ rows[e].mid = m => e = a.e
    BY DEF RowsFit
<1> SUFFICES ASSUME NEW e \in Email, HasRow(rows', e), rows'[e].mid = m
             PROVE  ls'[rows'[e].file].box = rows'[e].box
    BY DEF Agree
<1>3. e # a.e
    BY <1>1, RowFacts DEF HasRow, Rows
<1>4. rows'[e] = rows[e] /\ HasRow(rows, e) /\ rows[e].mid = m
    BY <1>1, <1>3 DEF Rows, HasRow
<1>5. ls'[rows[e].file] = ls[rows[e].file]
    BY <1>1, <1>2, <1>3, <1>4
<1> QED
    BY <1>4, <1>5 DEF Agree

LEMMA UploadErrorAgrees ==
    ASSUME TypeOK, NEW m, Arriving, RowsFit(m), Agree(m), UploadError PROVE Agree(m)'
<1> PICK I \in SUBSET imported :
        /\ rows' = Uploaded(I)
        /\ ls' = [f \in File |-> IF \E i \in I : i.u.f = f
                    THEN UploadState(CHOOSE i \in I : i.u.f = f) ELSE ls[f]]
    BY DEF UploadError
<1>1. /\ rows' = [e \in Email |-> IF \E i \in I : i.e = e
                    THEN UploadRow(CHOOSE i \in I : i.e = e) ELSE rows[e]]
      /\ \A i \in I : i.u.f \in File
      /\ rows \in Rows
    BY DEF Uploaded, TypeOK, DbTypes, ExecTypes, Imported, NewMessage
<1>2. /\ \A i, j \in I : i.u.f = j.u.f => i.u = j.u
      /\ \A i \in I, e \in Email : rows[e].file # i.u.f
    BY DEF Arriving, RowsFit, Coming
<1> SUFFICES ASSUME NEW e \in Email, HasRow(rows', e), rows'[e].mid = m
             PROVE  ls'[rows'[e].file].box = rows'[e].box
    BY DEF Agree
<1>3. CASE \E i \in I : i.e = e
    <2> DEFINE i == CHOOSE x \in I : x.e = e
               j == CHOOSE x \in I : x.u.f = i.u.f
    <2>1. i \in I
        BY <1>3
    <2>2. j \in I /\ j.u.f = i.u.f
        BY <2>1
    <2>3. rows'[e] = UploadRow(i) /\ ls'[i.u.f] = UploadState(j)
        BY <1>1, <1>3, <2>1
    <2> HIDE DEF i, j
    <2>4. j.u = i.u
        BY <1>2, <2>1, <2>2
    <2>5. rows'[e].file = i.u.f /\ rows'[e].box = i.u.box /\ ls'[i.u.f].box = j.u.box
        BY <2>3, RowFacts
    <2> QED
        BY <2>4, <2>5
<1>4. CASE ~\E i \in I : i.e = e
    <2>1. rows'[e] = rows[e] /\ HasRow(rows, e) /\ rows[e].mid = m
        BY <1>1, <1>4 DEF HasRow
    <2>2. rows[e].file \in File
        BY <1>1, <2>1, RowThere
    <2>3. ls'[rows[e].file] = ls[rows[e].file]
        BY <1>1, <1>2, <2>2
    <2> QED
        BY <2>1, <2>3 DEF Agree
<1> QED
    BY <1>3, <1>4

LEMMA MirrorAgrees ==
    ASSUME TypeOK, NEW m, UniqueFiles(rows), Agree(m), MirrorSet PROVE Agree(m)'
<1>1. rows \in Rows /\ ls \in [File -> LocalState]
    BY DEF TypeOK, DbTypes
<1> SUFFICES ASSUME NEW e \in Email, HasRow(rows', e), rows'[e].mid = m
             PROVE  ls'[rows'[e].file].box = rows'[e].box
    BY DEF Agree
<1>2. /\ e \notin mirrors.rdel
      /\ rows'[e] = rows[e] \/ \E fl : rows'[e] = [rows[e] EXCEPT !.flags = fl]
    <2>1. rows'[e] # NoRow
        BY RowFacts DEF HasRow
    <2> QED
        BY <2>1, Zenon DEF MirrorSet
<1>3. rows'[e].file = rows[e].file /\ rows'[e].mid = rows[e].mid /\ rows'[e].box = rows[e].box
    <2> rows[e] \in Row
        BY <1>1 DEF Rows
    <2>1. ASSUME NEW fl, rows'[e] = [rows[e] EXCEPT !.flags = fl]
          PROVE  rows'[e].file = rows[e].file /\ rows'[e].mid = rows[e].mid /\ rows'[e].box = rows[e].box
        BY <2>1 DEF Row, NoRow
    <2> QED
        BY <1>2, <2>1
<1> DEFINE f == rows[e].file
<1>4. HasRow(rows, e) /\ rows[e].mid = m /\ f \in File
    BY <1>1, <1>3, RowThere DEF HasRow
<1>5. ~\E d \in mirrors.rdel : rows[d].file = f
    BY <1>2, <1>4 DEF UniqueFiles, TypeOK, ExecTypes, Mirrors
<1> HIDE DEF f
<1>6. ls'[f] = ls[f] \/ \E fl : ls'[f] = [ls[f] EXCEPT !.fl = fl]
    BY <1>4, <1>5, Zenon DEF MirrorSet
<1>7. ls'[f].box = ls[f].box
    <2> ls[f] \in LocalState
        BY <1>1, <1>4 DEF f
    <2>1. ASSUME NEW fl, ls'[f] = [ls[f] EXCEPT !.fl = fl] PROVE ls'[f].box = ls[f].box
        BY <2>1 DEF LocalState, NoState
    <2> QED
        BY <1>6, <2>1
<1> QED
    BY <1>3, <1>4, <1>7 DEF Agree, f

\* The steps of the executor that write neither table.
Tableless ==
    \/ IndexRefuses \/ \E d \in plan.down : DownloadGone(d)
    \/ \E a \in plan.lflag : LocalFlagSkipped(a)
    \/ \E a \in plan.lmove : LocalMoveSkipped(a)
    \/ \E u \in plan.up : UploadOne(u) \/ UploadSkipped(u)
    \/ AdvanceCursor \/ Checkpoint \/ CycleDies \/ DiesAfterDisk

LEMMA TablesStill ==
    ASSUME \/ Tableless \/ (\E refused \in SUBSET Email : RemoteSet(refused)) \/ ServerActs
           \/ (UserActs /\ ~DbLost) \/ Observe \/ (\E d \in Directions : StartCycle(d)) \/ UNCHANGED vars
    PROVE  UNCHANGED <<rows, ls>>
<1>1. CASE Tableless
    BY <1>1 DEF Tableless, IndexRefuses, DownloadGone, LocalFlagSkipped, LocalMoveSkipped, UploadOne,
       UploadSkipped, AdvanceCursor, Checkpoint, CycleDies, DiesAfterDisk, CycleFails,
       CycleReset, dbVars
<1>2. ASSUME NEW refused \in SUBSET Email, RemoteSet(refused) PROVE UNCHANGED <<rows, ls>>
    <2>1. UNCHANGED dbVars
        BY <1>2, Zenon DEF RemoteSet
    <2> QED
        BY <2>1 DEF dbVars
<1>3. CASE ServerActs
    BY <1>3 DEF ServerActs, ServerCreate, ServerDuplicate, ServerFlag, ServerMove, ServerDestroy,
       ServerStep, dbVars
<1>4. CASE UserActs /\ ~DbLost
    BY <1>4 DEF UserActs, UserNew, UserCopy, UserMove, UserRename, UserFlag, UserUnflag, UserDelete,
       UserStep
<1>5. CASE Observe
    BY <1>5 DEF Observe, ScanFolder, FetchChanges, ChangesRefused, QueryMailboxes, GetEmails, GetState,
       MakePlan, dbVars
<1>6. CASE (\E d \in Directions : StartCycle(d)) \/ UNCHANGED vars
    BY <1>6 DEF StartCycle, vars, dbVars
<1> QED
    BY <1>1, <1>2, <1>3, <1>4, <1>5, <1>6

LEMMA AgreeKept ==
    ASSUME TypeOK, Phased, FilesNamed, UniqueFiles(rows), NEW m \in Mid, Planned(m), Agree(m), [Next]_vars
    PROVE  Agree(m)'
<1>1. Arriving /\ RowsFit(m)
    BY DEF Planned
<1>2. CASE UNCHANGED <<rows, ls>>
    BY <1>2 DEF Agree, HasRow
<1>3. CASE DbLost
    BY <1>3, RowFacts DEF DbLost, Agree, HasRow
<1>4. CASE AdoptAll
    BY <1>4, AdoptAllAgrees
<1>5. CASE \E d \in plan.down : DownloadOne(d)
    BY <1>5, DownloadAgrees
<1>6. CASE \E a \in plan.lflag : LocalFlag(a)
    BY <1>6, LocalFlagAgrees
<1>7. CASE \E a \in plan.lmove : LocalMove(a)
    BY <1>1, <1>7, LocalMoveAgrees
<1>8. CASE \E a \in plan.ldel : LocalDelete(a)
    BY <1>1, <1>8, LocalDeleteAgrees
<1>9. CASE \E i \in imported : CommitUpload(i)
    BY <1>9, CommitAgrees
<1>10. CASE MirrorSet
    BY <1>10, MirrorAgrees
<1>11. CASE AdoptPairs
    BY <1>11, AdoptPairsAgrees
<1>12. CASE UploadError
    BY <1>1, <1>12, UploadErrorAgrees
<1>13. CASE \/ Tableless \/ (\E refused \in SUBSET Email : RemoteSet(refused)) \/ ServerActs
            \/ (UserActs /\ ~DbLost) \/ Observe \/ (\E d \in Directions : StartCycle(d))
            \/ UNCHANGED vars
    BY <1>2, <1>13, TablesStill
<1> QED
    BY <1>3, <1>4, <1>5, <1>6, <1>7, <1>8, <1>9, <1>10, <1>11, <1>12, <1>13, Zenon
       DEF Next, Execute, Fails, Tableless

-----------------------------------------------------------------------------
(* The unique index on message_map.maildir_id holds, guarded or not.       *)

\* One row is written, with a file no other row has.
LEMMA UniqueWritten ==
    ASSUME UniqueFiles(rows), rows \in Rows, NEW e \in Email, NEW r, rows' = [rows EXCEPT ![e] = r],
           \A d \in Email : d # e /\ HasRow(rows, d) => rows[d].file # r.file
    PROVE  UniqueFiles(rows')
<1>1. rows'[e] = r /\ \A d \in Email : d # e => rows'[d] = rows[d]
    BY DEF Rows
<1> SUFFICES ASSUME NEW c \in Email, NEW d \in Email, HasRow(rows', c), rows'[c].file = rows'[d].file
             PROVE  c = d
    BY DEF UniqueFiles
<1> QED
    BY <1>1 DEF UniqueFiles, HasRow

LEMMA UniqueLost ==
    ASSUME UniqueFiles(rows),
           \A e \in Email : rows'[e].file = rows[e].file \/ rows'[e].file = NoFile
    PROVE  UniqueFiles(rows')
BY DEF UniqueFiles, HasRow

LEMMA UniqueKept ==
    ASSUME TypeOK, FilesNamed, UniqueFiles(rows), [Next]_vars
    PROVE  UniqueFiles(rows)'
<1>1. rows \in Rows
    BY DEF TypeOK, DbTypes
<1>2. CASE UNCHANGED rows
    BY <1>2
<1>3. CASE DbLost
    BY <1>3, RowFacts DEF DbLost, UniqueFiles, HasRow
<1>4. CASE AdoptAll \/ AdoptPairs
    BY <1>4 DEF AdoptAll, AdoptPairs
<1>5. CASE \E d \in plan.down : DownloadOne(d)
    <2>1. PICK d \in plan.down : DownloadOne(d)
        BY <1>5
    <2> DEFINE r == [box |-> d.box, mid |-> d.mid, file |-> nextFile, flags |-> d.kw, blob |-> TRUE]
    <2>2. rows' = [rows EXCEPT ![d.e] = r] /\ d.e \in Email
        BY <2>1 DEF DownloadOne, TypeOK, ExecTypes, Plan, Download
    <2>3. r.file = nextFile
        OBVIOUS
    <2> HIDE DEF r
    <2>4. \A x \in Email : x # d.e /\ HasRow(rows, x) => rows[x].file # r.file
        BY <2>3, RowsOld
    <2> QED
        BY <1>1, <2>2, <2>4, UniqueWritten
<1>6. CASE \E a \in plan.lflag : LocalFlag(a)
    BY <1>6 DEF LocalFlag
<1>7. CASE \E a \in plan.lmove : LocalMove(a)
    <2>1. PICK a \in plan.lmove : LocalMove(a)
        BY <1>7
    <2>2. rows' = rows \/ rows' = [rows EXCEPT ![a.e] = [rows[a.e] EXCEPT !.box = a.to]]
        BY <1>1, <2>1 DEF LocalMove, Rows
    <2>3. a.e \in Email
        BY DEF TypeOK, ExecTypes, Plan, MoveLocal
    <2>4. [rows[a.e] EXCEPT !.box = a.to].file = rows[a.e].file
        BY <1>1, <2>3 DEF Rows, Row, NoRow
    <2>5. \A e \in Email : rows'[e].file = rows[e].file
        BY <1>1, <2>2, <2>3, <2>4 DEF Rows
    <2> QED
        BY <2>5, UniqueLost
<1>8. CASE \E a \in plan.ldel : LocalDelete(a)
    <2>1. PICK a \in plan.ldel : rows' = [rows EXCEPT ![a.e] = NoRow]
        BY <1>8 DEF LocalDelete
    <2>2. \A e \in Email : rows'[e] = rows[e] \/ rows'[e] = NoRow
        BY <1>1, <2>1 DEF Rows
    <2> QED
        BY <2>2, RowFacts, UniqueLost
<1>9. CASE \E i \in imported : CommitUpload(i)
    BY <1>9 DEF CommitUpload
<1>10. CASE MirrorSet
    <2>1. ASSUME NEW e \in Email PROVE rows'[e].file = rows[e].file \/ rows'[e].file = NoFile
        <3>1. \/ rows'[e] = NoRow \/ rows'[e] = rows[e]
              \/ \E fl : rows'[e] = [rows[e] EXCEPT !.flags = fl]
            BY <1>10, Zenon DEF MirrorSet
        <3> rows[e] \in Row
            BY <1>1 DEF Rows
        <3>2. ASSUME NEW fl, rows'[e] = [rows[e] EXCEPT !.flags = fl] PROVE rows'[e].file = rows[e].file
            BY <3>2 DEF Row, NoRow
        <3> QED
            BY <3>1, <3>2, RowFacts
    <2> QED
        BY <2>1, UniqueLost
<1>11. CASE UploadError
    BY <1>11 DEF UploadError
<1>12. CASE \/ Tableless \/ (\E refused \in SUBSET Email : RemoteSet(refused)) \/ ServerActs
            \/ (UserActs /\ ~DbLost) \/ Observe \/ (\E d \in Directions : StartCycle(d))
            \/ UNCHANGED vars
    BY <1>2, <1>12, TablesStill
<1> QED
    BY <1>3, <1>4, <1>5, <1>6, <1>7, <1>8, <1>9, <1>10, <1>11, <1>12, Zenon
       DEF Next, Execute, Fails, Tableless

-----------------------------------------------------------------------------
(* The inductive invariant, and the theorem.                               *)

TableInv(m) ==
    /\ TypeOK
    /\ Phased
    /\ EmailsUsed
    /\ FilesNamed
    /\ EmailsNamed
    /\ UniqueFiles(rows)
    /\ Scanned(m)
    /\ Planned(m)
    /\ Agree(m)

\* At the start there is one synced message, or none.
LEMMA InitSeed ==
    ASSUME Init
    PROVE  /\ \A f \in File : OnDisk(f) => f = 1 /\ Seeded /\ disk[f].mid = AnyMid
           /\ \A e \in Email : server[e].st # "none" => e = 1 /\ Seeded
           /\ \A e \in Email : HasRow(rows, e) =>
                 /\ e = 1 /\ Seeded /\ rows[e].file = 1 /\ rows[e].mid = AnyMid
                 /\ 1 \in File => ls[1].box = rows[e].box
                 /\ server[e].st = "live" /\ server[e].mid = AnyMid
           /\ Seeded => nextFile = 2 /\ nextEmail = 2
<1>1. PICK fl \in SUBSET Flag, blob \in BOOLEAN, b \in Box :
        /\ disk = [f \in File |-> IF Seeded /\ f = 1
                     THEN [sub |-> IF blob THEN Sub(fl) ELSE "cur", box |-> b,
                           mid |-> AnyMid, fl |-> fl]
                     ELSE NoFileHere]
        /\ server = [e \in Email |-> IF Seeded /\ e = 1
                       THEN [st |-> "live", box |-> b, mid |-> AnyMid, kw |-> fl, at |-> 1]
                       ELSE NoEmailHere]
        /\ rows = [e \in Email |-> IF Seeded /\ e = 1
                     THEN [box |-> b, mid |-> AnyMid, file |-> 1, flags |-> fl, blob |-> blob]
                     ELSE NoRow]
        /\ ls = [f \in File |-> IF Seeded /\ f = 1 THEN [box |-> b, fl |-> fl] ELSE NoState]
    <2>1. budget.flags \subseteq Flag
        BY BudgetAssumption DEF Init, Environment
    <2> QED
        BY <2>1 DEF Init
<1>2. ASSUME NEW f \in File, OnDisk(f) PROVE f = 1 /\ Seeded /\ disk[f].mid = AnyMid
    BY <1>1, <1>2 DEF OnDisk, NoFileHere
<1>3. ASSUME NEW e \in Email, server[e].st # "none" PROVE e = 1 /\ Seeded
    BY <1>1, <1>3 DEF NoEmailHere
<1>4. ASSUME NEW e \in Email, HasRow(rows, e)
      PROVE  /\ e = 1 /\ Seeded /\ rows[e].file = 1 /\ rows[e].mid = AnyMid
             /\ 1 \in File => ls[1].box = rows[e].box
             /\ server[e].st = "live" /\ server[e].mid = AnyMid
    <2>1. e = 1 /\ Seeded
        BY <1>1, <1>4, RowFacts DEF HasRow
    <2>2. rows[e] = [box |-> b, mid |-> AnyMid, file |-> 1, flags |-> fl, blob |-> blob]
        BY <1>1, <2>1
    <2>3. server[e] = [st |-> "live", box |-> b, mid |-> AnyMid, kw |-> fl, at |-> 1]
        BY <1>1, <2>1
    <2>4. 1 \in File => ls[1] = [box |-> b, fl |-> fl]
        BY <1>1, <2>1
    <2> QED
        BY <2>1, <2>2, <2>3, <2>4
<1>5. Seeded => nextFile = 2 /\ nextEmail = 2
    BY DEF Init
<1> QED
    BY <1>2, <1>3, <1>4, <1>5

LEMMA InitNothing ==
    ASSUME Init
    PROVE  /\ pc = "idle" /\ obs = NoObs /\ plan = EmptyPlan /\ imported = {} /\ failed = {}
           /\ mirrors = NoMirrors /\ Adopts = {} /\ Coming = {} /\ plan.lflag = {} /\ plan.lmove = {}
           /\ plan.ldel = {} /\ plan.pair = {} /\ plan.adoptR = {} /\ plan.adoptL = {} /\ plan.down = {}
           /\ obs.news = {} /\ obs.index = {} /\ obs.remote = {} /\ obs.dels = {}
BY DEF Init, EmptyPlan, NoObs, Adopts, Coming

LEMMA TableInit ==
    ASSUME Init, NEW m \in Mid PROVE TableInv(m)
<1>1. TypeOK
    BY InitTypes
<1>2. Phased
    <2>1. \A i \in 1 .. 11 : pc # ExecOrder[i]
        BY InitNothing, PhaseNames DEF ExecPhases
    <2> QED
        BY <2>1, InitNothing, PhaseNames DEF Phased, Done
<1>3. EmailsUsed
    BY InitSeed DEF EmailsUsed
<1>4. FilesNamed
    <2>1. ASSUME NEW f \in File, NEW n, DiskName(f, n) \/ Named(f, n)
          PROVE  f = 1 /\ Seeded /\ n = AnyMid
        <3>1. CASE DiskName(f, n)
            BY <3>1, InitSeed DEF DiskName
        <3>2. CASE RowName(f, n)
            BY <3>2, InitSeed DEF RowName, HasRow, File, NoFile
        <3>3. ~SeenName(f, n) /\ ~PlanName(f, n)
            BY InitNothing DEF SeenName, PlanName
        <3> QED
            BY <2>1, <3>1, <3>2, <3>3 DEF Named
    <2>2. \A a \in plan.lmove \cup plan.ldel : a.f < nextFile
        BY InitNothing
    <2> QED
        BY <2>1, <2>2, InitSeed DEF FilesNamed
<1>5. EmailsNamed
    <2>1. ASSUME NEW e \in Email, NEW n, EmailName(e, n) PROVE HasRow(rows, e) /\ rows[e].mid = n
        BY <2>1, InitNothing DEF EmailName
    <2> QED
        BY <2>1, InitSeed DEF EmailsNamed
<1>6. UniqueFiles(rows)
    BY InitSeed DEF UniqueFiles, HasRow
<1>7. Scanned(m)
    BY InitNothing DEF Scanned, Findings, Walking, Walked, Alone
<1>8. Planned(m)
    BY InitNothing DEF Planned, Apart, Arriving, RowsFit, PairsFit, FailedLate
<1>9. Agree(m)
    <2> SUFFICES ASSUME NEW e \in Email, HasRow(rows, e) PROVE ls[rows[e].file].box = rows[e].box
        BY DEF Agree
    <2>1. rows[e].file \in File
        BY <1>1, RowThere DEF TypeOK, DbTypes
    <2> QED
        BY <2>1, InitSeed
<1> QED
    BY <1>1, <1>2, <1>3, <1>4, <1>5, <1>6, <1>7, <1>8, <1>9 DEF TableInv

LEMMA TableStep ==
    ASSUME NEW m \in Mid, "scan" \notin UserPhases, "PullOnly" \notin Directions,
           TableInv(m), Single(m), [Next]_vars
    PROVE  TableInv(m)'
<1> USE DEF TableInv
<1>1. TypeOK'
    BY StepTypes
<1>2. Phased'
    BY PhasedSteps
<1>3. EmailsUsed'
    BY WorldSteps
<1>4. FilesNamed' /\ EmailsNamed'
    BY NamesKept
<1>5. UniqueFiles(rows)'
    BY UniqueKept
<1>6. Scanned(m)'
    BY ScannedKept
<1>7. Planned(m)'
    BY PlannedKept
<1>8. Agree(m)'
    BY AgreeKept
<1> QED
    BY <1>1, <1>2, <1>3, <1>4, <1>5, <1>6, <1>7, <1>8

\* As long as a message is at most one file and one live email, its row and the
\* local_state of its file agree on the folder: no interleaving of cycles with
\* crashes, refusals, users and other clients, and no transaction of the
\* executor, parts the two.  The user does not act during the walk itself, and
\* no cycle is pull-only, where a pair whose MoveRemote is dropped is adopted.
THEOREM MessageTablesAgree ==
    ASSUME NEW m \in Mid, "scan" \notin UserPhases, "PullOnly" \notin Directions
    PROVE  Spec /\ []Single(m) => []Agree(m)
<1>1. Init => TableInv(m)
    BY TableInit
<1>2. TableInv(m) /\ Single(m) /\ [Next]_vars => TableInv(m)'
    BY TableStep
<1>3. TableInv(m) => Agree(m)
    BY DEF TableInv
<1> QED
    BY <1>1, <1>2, <1>3, PTL DEF Spec

\* The two tables agree (TablesAgree) while no message is twice in the maildir
\* or twice on the server.  (Every transaction of the executor.)
THEOREM TablesAgreeCorrect ==
    ASSUME "scan" \notin UserPhases, "PullOnly" \notin Directions
    PROVE  Spec /\ [](\A m \in Mid : Single(m)) => []TablesAgree
<1> DEFINE AllSingle == \A m \in Mid : Single(m)
           Inv == \A m \in Mid : TableInv(m)
<1>1. Init => Inv
    BY TableInit
<1>2. Inv /\ AllSingle /\ [Next]_vars => Inv'
    BY TableStep
<1>3. Inv => TablesAgree
    <2> SUFFICES ASSUME Inv, NEW e \in Email, HasRow(rows, e)
                 PROVE  ls[rows[e].file].box = rows[e].box
        BY DEF TablesAgree
    <2>1. TypeOK
        BY AnyMidType DEF TableInv
    <2>2. rows[e].mid \in Mid
        BY <2>1, RowThere DEF TypeOK, DbTypes
    <2> QED
        BY <2>2 DEF TableInv, Agree
<1> HIDE DEF Inv
<1> QED
    BY <1>1, <1>2, <1>3, PTL DEF Spec

\* No maildir id and no email id ever stands beside two Message-IDs, in the
\* maildir, the tables, an observation or a plan, and no two rows share a file:
\* whatever users, clients, crashes and refusals do, an action taken from a plan
\* made earlier cannot put one message's flags, folder or removal on another.
\* (Maildir ids come from a counter, execute.rs takes both ids from the plan.)
THEOREM NamesStay == Spec => [](FilesNamed /\ EmailsNamed /\ UniqueFiles(rows))
<1> DEFINE Names == /\ TypeOK /\ Phased /\ EmailsUsed
                    /\ FilesNamed /\ EmailsNamed /\ UniqueFiles(rows)
<1>1. Init => Names
    BY TableInit, AnyMidType DEF TableInv
<1>2. Names /\ [Next]_vars => Names'
    BY StepTypes, PhasedSteps, WorldSteps, NamesKept, UniqueKept
<1>3. Names => FilesNamed /\ EmailsNamed /\ UniqueFiles(rows)
    OBVIOUS
<1> HIDE DEF Names
<1> QED
    BY <1>1, <1>2, <1>3, PTL DEF Spec
-----------------------------------------------------------------------------
(***************************************************************************)
(* No mail is lost: a message that is one file and one email, and that     *)
(* nobody removed, keeps its email and its file through any cycles, with   *)
(* crashes and refusals, users and other clients.                          *)
(*                                                                         *)
(* The engine destroys an email when the scan finds the file of its row    *)
(* missing and in no other folder, and deletes a file when the email of    *)
(* its row is destroyed.  Each is safe because of the other: as long as    *)
(* nobody removed the message its email is not destroyed (Unharmed), so    *)
(* every file a table, an observation or a plan names for it is on disk    *)
(* (Present), so a file missing from one folder is found new in another    *)
(* (Combed), if mail programs can have moved it there (Placed, Taken), and *)
(* the plan has a move where it would have a destruction (Spared).         *)
(***************************************************************************)

Renaming == {"rename", "moverename"}

\* The one crash that breaks the argument: between the rename of a MoveLocal and
\* its transaction a file of new/ is in a folder no table has it in, and the
\* scan, which leaves new/ alone, reports a deletion.
TornMove == pc = "lmove" /\ DiesAfterDisk

-----------------------------------------------------------------------------
\* A file has its local_state from a step after it was made.
StatesBorn == \A f \in File : HasState(f) => f < nextFile

\* What is to be deleted locally was destroyed on the server.
Doomed ==
    /\ \A e \in obs.destroyed : server[e].st = "gone"
    /\ \A a \in plan.ldel :
          /\ server[a.e].st = "gone"
          /\ \A n \in Mid : DiskName(a.f, n) => server[a.e].mid = n

Unharmed(m) == \A e \in Email : server[e].mid = m => server[e].st # "gone"
Present(m) == \A f \in File : Named(f, m) => DiskName(f, m)

\* A file still in new/ is where its local_state says.
Placed(m) ==
    \A f \in File : DiskName(f, m) /\ disk[f].sub = "new" /\ HasState(f) => ls[f].box = disk[f].box

\* What was found new is in cur/; what will be bound out of new/ is still where
\* the dedupe walk or its row had it.
Taken(m) ==
    /\ \A n \in obs.news \cup Coming \cup plan.adoptL \cup plan.pair :
          n.mid = m => disk[n.f].sub # "new"
    /\ \A x \in obs.index \cup plan.adoptR :
          x.mid = m /\ disk[x.f].sub = "new" => disk[x.f].box = x.box

Spared(m) == \A e \in plan.rdel : server[e].st # "none" /\ server[e].mid # m

\* The walk misses no file of m in the folders behind it; after it, a file of m
\* that was missing from its folder is among the new ones.
Combed(m) ==
    /\ pc = "scan" =>
          /\ \A f \in File :
                DiskName(f, m) /\ disk[f].sub = "cur" /\ disk[f].box \notin todo /\ ~Known(f, disk[f].box)
                    => \E n \in obs.news : n.f = f /\ n.mid = m
          /\ \A d \in obs.dels : RowName(d.f, m) => disk[d.f].box # d.box
    /\ pc # "scan" =>
          \A d \in obs.dels : RowName(d.f, m) => \E n \in obs.news : n.f = d.f /\ n.mid = m

Safe(m) == Unharmed(m) /\ Present(m) /\ Placed(m) /\ Taken(m) /\ Spared(m) /\ Combed(m)
MailInv(m) == TableInv(m) /\ StatesBorn /\ Doomed /\ (m \notin removed => Safe(m))

-----------------------------------------------------------------------------
(* What a step does to a file, and to an email.                            *)

LEMMA FileSteps ==
    ASSUME TypeOK, [Next]_vars, Renaming \cap UserOps = {},
           NEW f \in File, OnDisk(f), f # nextFile
    PROVE  \/ disk'[f].sub # "none" /\ (disk[f].sub = "cur" => disk'[f].sub = "cur")
           \/ disk[f].mid \in removed'
           \/ \E a \in plan.ldel : a.f = f
           \/ \E g \in File : g # f /\ DiskName(g, disk[f].mid)
<1> DEFINE Stays == disk'[f].sub # "none" /\ (disk[f].sub = "cur" => disk'[f].sub = "cur")
           Leaves == \/ disk[f].mid \in removed'
                     \/ \E a \in plan.ldel : a.f = f
                     \/ \E g \in File : g # f /\ DiskName(g, disk[f].mid)
<1>1. /\ disk \in [File -> MaildirFile] /\ nextFile \in Nat
      /\ disk[f].sub \in {"cur", "new"}
    BY DEF TypeOK, DiskTypes, MaildirFile, NoFileHere, OnDisk
<1>2. UNCHANGED disk => Stays
    BY DEF OnDisk
<1>3. ASSUME NEW x, disk' = [disk EXCEPT ![nextFile] = x] PROVE Stays
    BY <1>1, <1>3
<1>4. CASE \E d \in Directions : StartCycle(d)
    <2>1. disk' = [g \in File |-> IF g \in Duplicates THEN NoFileHere ELSE disk[g]]
        BY <1>4 DEF StartCycle
    <2>2. f \in Duplicates => Leaves
        BY DEF Duplicates, InGroup, DiskName, File
    <2> QED
        BY <1>1, <2>1, <2>2
<1>5. CASE Observe
    BY <1>2, <1>5 DEF Observe, ScanFolder, FetchChanges, ChangesRefused, QueryMailboxes, GetEmails,
       GetState, MakePlan, diskVars
<1>6. ASSUME NEW d, Delivered(d) PROVE Stays
    BY <1>3, <1>6 DEF Delivered
<1>7. ASSUME NEW a, FlagDisk(a) PROVE Stays
    BY <1>1, <1>7 DEF FlagDisk
<1>8. ASSUME NEW a, MoveDisk(a) PROVE Stays
    BY <1>1, <1>8 DEF MoveDisk
<1>9. ASSUME NEW a \in plan.ldel, DeleteDisk(a) PROVE Stays \/ Leaves
    <2>1. CASE a.f = f
        BY <2>1
    <2>2. CASE a.f # f
        BY <1>1, <1>9, <2>2 DEF DeleteDisk
    <2> QED
        BY <2>1, <2>2
<1>10. CASE Execute
    <2>1. ASSUME NEW d \in plan.down, DownloadOne(d) PROVE Stays
        BY <1>6, <2>1 DEF DownloadOne
    <2>2. ASSUME NEW a \in plan.lflag, LocalFlag(a) PROVE Stays
        BY <1>7, <2>2 DEF LocalFlag
    <2>3. ASSUME NEW a \in plan.lmove, LocalMove(a) PROVE Stays
        BY <1>8, <2>3 DEF LocalMove
    <2>4. ASSUME NEW a \in plan.ldel, LocalDelete(a) PROVE Stays \/ Leaves
        BY <1>9, <2>4 DEF LocalDelete
    <2>5. ASSUME \/ AdoptAll \/ (\E d \in plan.down : DownloadGone(d))
                 \/ (\E a \in plan.lflag : LocalFlagSkipped(a))
                 \/ (\E a \in plan.lmove : LocalMoveSkipped(a))
                 \/ (\E u \in plan.up : UploadOne(u) \/ UploadSkipped(u))
                 \/ (\E i \in imported : CommitUpload(i))
                 \/ (\E refused \in SUBSET Email : RemoteSet(refused))
                 \/ MirrorSet \/ AdoptPairs \/ IndexRefuses \/ AdvanceCursor \/ Checkpoint
          PROVE  Stays
        BY <1>2, <2>5 DEF AdoptAll, DownloadGone, LocalFlagSkipped, LocalMoveSkipped, UploadOne,
           UploadSkipped, CommitUpload, RemoteSet, MirrorSet, AdoptPairs, IndexRefuses, AdvanceCursor,
           Checkpoint, CycleFails, diskVars
    <2> QED
        BY <1>10, <2>1, <2>2, <2>3, <2>4, <2>5, Zenon DEF Execute
<1>11. CASE Fails
    <2>1. CASE UploadError \/ CycleDies
        BY <1>2, <2>1 DEF UploadError, CycleDies, diskVars
    <2>2. CASE DiesAfterDisk
        BY <1>6, <1>7, <1>8, <1>9, <2>2, Zenon DEF DiesAfterDisk
    <2> QED
        BY <1>11, <2>1, <2>2 DEF Fails
<1>12. CASE UserActs
    <2>1. ASSUME NEW b, NEW mid, NEW fl, UserNew(b, mid, fl) PROVE Stays
        BY <1>3, <2>1 DEF UserNew, PutFile
    <2>2. ASSUME NEW g \in File, NEW b, UserCopy(g, b) PROVE Stays
        BY <1>3, <2>2 DEF UserCopy, PutFile
    <2>3. ASSUME NEW g \in File, NEW b, UserMove(g, b) PROVE Stays
        BY <1>1, <2>3 DEF UserMove
    <2>4. ASSUME NEW g \in File, NEW b, UserRename(g, b) PROVE FALSE
        BY <2>4 DEF UserRename, UserStep, Renaming
    <2>5. ASSUME NEW g \in File, NEW fl, UserFlag(g, fl) \/ UserUnflag(g, fl) PROVE Stays
        <3>1. CASE UserFlag(g, fl)
            <4>1. disk' = [disk EXCEPT ![g] = [disk[g] EXCEPT !.sub = "cur", !.fl = fl]]
                BY <1>1, <3>1 DEF UserFlag
            <4>2. [disk[g] EXCEPT !.sub = "cur", !.fl = fl].sub = "cur"
                BY <1>1 DEF MaildirFile, NoFileHere
            <4> QED
                BY <1>1, <4>1, <4>2
        <3>2. CASE UserUnflag(g, fl)
            BY <1>1, <3>2 DEF UserUnflag
        <3> QED
            BY <2>5, <3>1, <3>2
    <2>6. ASSUME NEW g \in File, UserDelete(g) PROVE Stays \/ Leaves
        <3>1. disk' = [disk EXCEPT ![g] = NoFileHere] /\ removed' = removed \cup {disk[g].mid}
            BY <2>6 DEF UserDelete
        <3> QED
            BY <1>1, <3>1
    <2>7. CASE DbLost
        BY <1>2, <2>7 DEF DbLost, diskVars
    <2> QED
        BY <1>12, <2>1, <2>2, <2>3, <2>4, <2>5, <2>6, <2>7, Zenon DEF UserActs
<1>13. CASE ServerActs \/ UNCHANGED vars
    BY <1>2, <1>13 DEF ServerActs, ServerCreate, ServerMove, ServerDuplicate, ServerFlag, ServerDestroy,
       ServerStep, diskVars, vars
<1> QED
    BY <1>4, <1>5, <1>10, <1>11, <1>12, <1>13 DEF Next

\* A file in new/ was there before, in the folder it is in, or the step made it:
\* only the engine moves a file within new/.
LEMMA NewSteps ==
    ASSUME TypeOK, [Next]_vars, NEW f \in File, f # nextFile, disk'[f].sub = "new"
    PROVE  \/ disk'[f] = disk[f]
           \/ \E a \in plan.lmove : LocalMove(a)
           \/ TornMove
<1> DEFINE Goal == disk'[f] = disk[f] \/ (\E a \in plan.lmove : LocalMove(a)) \/ TornMove
<1> SUFFICES Goal
    OBVIOUS
<1>1. disk \in [File -> MaildirFile] /\ NoFileHere.sub = "none"
    BY DEF TypeOK, DiskTypes, NoFileHere
<1>2. UNCHANGED disk => Goal
    OBVIOUS
<1>3. ASSUME NEW x, disk' = [disk EXCEPT ![nextFile] = x] PROVE Goal
    BY <1>1, <1>3
<1>4. ASSUME NEW g \in File, NEW x, disk' = [disk EXCEPT ![g] = x], x.sub # "new" PROVE Goal
    BY <1>1, <1>4
<1>5. ASSUME NEW a, FlagDisk(a) PROVE Goal
    <2>1. disk' = [disk EXCEPT ![a.f] = [disk[a.f] EXCEPT !.sub = "cur", !.fl = a.fl]]
        BY <1>5 DEF FlagDisk
    <2>2. f = a.f => [disk[a.f] EXCEPT !.sub = "cur", !.fl = a.fl].sub = "cur"
        BY <1>1 DEF MaildirFile, NoFileHere
    <2> QED
        BY <1>1, <2>1, <2>2
<1>6. ASSUME NEW a, DeleteDisk(a) PROVE Goal
    BY <1>1, <1>6 DEF DeleteDisk
<1>7. CASE (\E d \in Directions : StartCycle(d)) \/ UNCHANGED vars
    <2>1. CASE \E d \in Directions : StartCycle(d)
        <3>1. disk' = [g \in File |-> IF g \in Duplicates THEN NoFileHere ELSE disk[g]]
            BY <2>1 DEF StartCycle
        <3> QED
            BY <1>1, <3>1
    <2> QED
        BY <1>2, <1>7, <2>1 DEF vars, diskVars
<1>8. CASE Observe \/ ServerActs
    BY <1>2, <1>8 DEF Observe, ScanFolder, FetchChanges, ChangesRefused, QueryMailboxes, GetEmails, GetState,
       MakePlan, ServerActs, ServerCreate, ServerMove, ServerDuplicate, ServerFlag, ServerDestroy,
       ServerStep, diskVars
<1>9. CASE Execute
    <2>1. CASE \E d \in plan.down : DownloadOne(d)
        BY <1>3, <2>1 DEF DownloadOne, Delivered
    <2>2. CASE \E a \in plan.lflag : LocalFlag(a)
        BY <1>5, <2>2 DEF LocalFlag
    <2>3. CASE \E a \in plan.ldel : LocalDelete(a)
        BY <1>6, <2>3 DEF LocalDelete
    <2>4. CASE \/ AdoptAll \/ (\E d \in plan.down : DownloadGone(d))
               \/ (\E a \in plan.lflag : LocalFlagSkipped(a))
               \/ (\E a \in plan.lmove : LocalMoveSkipped(a))
               \/ (\E u \in plan.up : UploadOne(u) \/ UploadSkipped(u))
               \/ (\E i \in imported : CommitUpload(i))
               \/ (\E refused \in SUBSET Email : RemoteSet(refused))
               \/ MirrorSet \/ AdoptPairs \/ IndexRefuses \/ AdvanceCursor \/ Checkpoint
        BY <1>2, <2>4 DEF AdoptAll, DownloadGone, LocalFlagSkipped, LocalMoveSkipped, UploadOne,
           UploadSkipped, CommitUpload, RemoteSet, MirrorSet, AdoptPairs, IndexRefuses, AdvanceCursor,
           Checkpoint, CycleFails, diskVars
    <2> QED
        BY <1>9, <2>1, <2>2, <2>3, <2>4, Zenon DEF Execute
<1>10. CASE Fails
    <2>1. CASE UploadError \/ CycleDies
        BY <1>2, <2>1 DEF UploadError, CycleDies, diskVars
    <2>2. CASE DiesAfterDisk
        BY <1>3, <1>5, <1>6, <2>2 DEF DiesAfterDisk, TornMove, Delivered
    <2> QED
        BY <1>10, <2>1, <2>2 DEF Fails
<1>11. CASE UserActs
    <2>1. ASSUME NEW b, NEW mid, NEW fl, PutFile(b, mid, fl) PROVE Goal
        BY <1>3, <2>1 DEF PutFile
    <2>2. ASSUME NEW g \in File, NEW b, UserMove(g, b) PROVE Goal
        <3>1. disk' = [disk EXCEPT ![g] = [disk[g] EXCEPT !.box = b, !.sub = "cur"]]
            BY <1>1, <2>2 DEF UserMove
        <3>2. [disk[g] EXCEPT !.box = b, !.sub = "cur"].sub = "cur"
            BY <1>1 DEF MaildirFile, NoFileHere
        <3> QED
            BY <1>1, <3>1, <3>2
    <2>3. ASSUME NEW g \in File, NEW b, UserRename(g, b) PROVE Goal
        BY <1>1, <2>3 DEF UserRename
    <2>4. ASSUME NEW g \in File, NEW fl, UserFlag(g, fl) PROVE Goal
        <3>1. disk' = [disk EXCEPT ![g] = [disk[g] EXCEPT !.sub = "cur", !.fl = fl]]
            BY <1>1, <2>4 DEF UserFlag
        <3>2. [disk[g] EXCEPT !.sub = "cur", !.fl = fl].sub = "cur"
            BY <1>1 DEF MaildirFile, NoFileHere
        <3> QED
            BY <1>1, <3>1, <3>2
    <2>5. ASSUME NEW g \in File, NEW fl, UserUnflag(g, fl) PROVE Goal
        <3>1. disk' = [disk EXCEPT ![g] = [disk[g] EXCEPT !.fl = fl]] /\ disk[g].sub = "cur"
            BY <1>1, <2>5 DEF UserUnflag
        <3>2. [disk[g] EXCEPT !.fl = fl].sub = disk[g].sub
            BY <1>1 DEF MaildirFile, NoFileHere
        <3> QED
            BY <1>1, <3>1, <3>2
    <2>6. ASSUME NEW g \in File, UserDelete(g) PROVE Goal
        BY <1>1, <2>6 DEF UserDelete
    <2>7. CASE DbLost
        BY <1>2, <2>7 DEF DbLost, diskVars
    <2> HIDE DEF Goal
    <2> QED
        BY <1>11, <2>1, <2>2, <2>3, <2>4, <2>5, <2>6, <2>7, Zenon DEF UserActs, UserNew, UserCopy
<1> HIDE DEF Goal
<1> QED
    BY <1>7, <1>8, <1>9, <1>10, <1>11 DEF Next

\* Only other clients and the Email/set destroy an email.
LEMMA GoneSteps ==
    ASSUME TypeOK, [Next]_vars, NEW e \in Email, server'[e].st = "gone"
    PROVE  \/ server[e].st = "gone"
           \/ Live(e) /\ server[e].mid \in removed' /\ foreign' # foreign
           \/ Live(e) /\ e \in plan.rdel
<1> DEFINE Was == server[e].st = "gone"
           Removed == Live(e) /\ server[e].mid \in removed' /\ foreign' # foreign
           Set == Live(e) /\ e \in plan.rdel
<1>1. server \in [Email -> EmailObject] /\ ver \in Nat /\ foreign \subseteq 1 .. ver
    BY DEF TypeOK, ServerTypes
<1>2. UNCHANGED server => Was
    OBVIOUS
<1>3. ASSUME NEW x, x.st = "live", server' = [server EXCEPT ![nextEmail] = x] PROVE Was
    BY <1>1, <1>3
<1>4. CASE \E refused \in SUBSET Email : RemoteSet(refused)
    <2>1. PICK refused \in SUBSET Email : RemoteSet(refused)
        BY <1>4
    <2>2. \E k, b, v :
             \/ server'[e] = [server[e] EXCEPT !.st = "gone", !.at = v] /\ Live(e) /\ e \in plan.rdel
             \/ server'[e] = [server[e] EXCEPT !.kw = k, !.box = b, !.at = v]
             \/ server'[e] = server[e]
        BY <2>1, Zenon DEF RemoteSet
    <2> QED
        BY <1>1, <2>2 DEF EmailObject
<1>5. CASE Execute /\ ~\E refused \in SUBSET Email : RemoteSet(refused)
    <2>1. ASSUME NEW u \in plan.up, UploadOne(u) PROVE Was
        BY <1>3, <2>1 DEF UploadOne
    <2>2. (\A u \in plan.up : ~UploadOne(u)) => UNCHANGED server
        BY <1>5 DEF Execute, AdoptAll, DownloadOne, DownloadGone, LocalFlag, LocalFlagSkipped, LocalMove,
           LocalMoveSkipped, LocalDelete, UploadSkipped, CommitUpload, MirrorSet, AdoptPairs, IndexRefuses,
           AdvanceCursor, Checkpoint, CycleFails, serverVars
    <2> QED
        BY <1>2, <2>1, <2>2
<1>6. CASE ServerActs
    <2>1. foreign' # foreign
        <3>1. foreign' = foreign \cup {ver + 1}
            BY <1>6 DEF ServerActs, ServerCreate, ServerMove, ServerDuplicate, ServerFlag, ServerDestroy,
               ServerStep
        <3>2. ver + 1 \notin foreign
            BY <1>1
        <3> QED
            BY <3>1, <3>2
    <2>2. ASSUME NEW b, NEW mid, NEW kw, NewEmail(b, mid, kw) PROVE Was
        BY <1>3, <2>2 DEF NewEmail
    <2>3. ASSUME NEW d \in Email, NEW b, ServerMove(d, b) PROVE Was
        BY <1>1, <2>3 DEF ServerMove, EmailObject
    <2>4. ASSUME NEW d \in Email, NEW kw, ServerFlag(d, kw) PROVE Was
        BY <1>1, <2>4 DEF ServerFlag, EmailObject
    <2>5. ASSUME NEW d \in Email, ServerDestroy(d) PROVE Was \/ Removed
        <3>1. removed' = removed \cup {server[d].mid} /\ Live(d)
            BY <2>5 DEF ServerDestroy
        <3>2. e # d => server'[e] = server[e]
            BY <1>1, <2>5 DEF ServerDestroy
        <3> QED
            BY <2>1, <3>1, <3>2
    <2> QED
        BY <1>6, <2>2, <2>3, <2>4, <2>5, Zenon DEF ServerActs, ServerCreate, ServerDuplicate
<1>7. CASE (\E d \in Directions : StartCycle(d)) \/ Observe \/ Fails \/ UserActs \/ UNCHANGED vars
    <2>1. UNCHANGED server
        BY <1>7 DEF StartCycle, Observe, ScanFolder, FetchChanges, ChangesRefused, QueryMailboxes, GetEmails,
           GetState, MakePlan, Fails, UploadError, CycleDies, DiesAfterDisk, UserActs, UserNew, UserCopy,
           UserMove, UserRename, UserFlag, UserUnflag, UserDelete, DbLost, UserStep, serverVars, vars
    <2> QED
        BY <1>2, <2>1
<1> QED
    BY <1>4, <1>5, <1>6, <1>7 DEF Next

\* removed only grows, and a version of the server is counted once.
LEMMA RemovedGrows == [Next]_vars => removed \subseteq removed'
<1> SUFFICES ASSUME [Next]_vars PROVE removed \subseteq removed'
    OBVIOUS
<1>1. CASE UserActs
    BY <1>1 DEF UserActs, UserNew, UserCopy, UserMove, UserRename, UserFlag, UserUnflag, UserDelete, DbLost
<1>2. CASE ServerActs
    BY <1>2 DEF ServerActs, ServerCreate, ServerMove, ServerDuplicate, ServerFlag, ServerDestroy, NewEmail
<1>3. CASE (\E d \in Directions : StartCycle(d)) \/ Observe
    BY <1>3 DEF StartCycle, Observe, ScanFolder, FetchChanges, ChangesRefused, QueryMailboxes, GetEmails,
       GetState, MakePlan, ghostVars
<1>4. CASE Execute
    BY <1>4 DEF Execute, AdoptAll, DownloadOne, DownloadGone, LocalFlag, LocalFlagSkipped, LocalMove,
       LocalMoveSkipped, LocalDelete, UploadOne, UploadSkipped, CommitUpload, RemoteSet, MirrorSet, AdoptPairs,
       IndexRefuses, AdvanceCursor, Checkpoint, CycleFails, ghostVars
<1>5. CASE Fails \/ UNCHANGED vars
    BY <1>5 DEF Fails, UploadError, CycleDies, DiesAfterDisk, CycleFails, vars, ghostVars
<1> QED
    BY <1>1, <1>2, <1>3, <1>4, <1>5 DEF Next

-----------------------------------------------------------------------------
(* What a step does to a local_state.                                      *)

\* A new local_state is for a file just made, or one an action or import names.
StateNames(f) ==
    \/ \E x \in Adopts \cup plan.pair \cup plan.lflag \cup plan.lmove : x.f = f
    \/ \E i \in imported : i.u.f = f
    \/ f = nextFile /\ nextFile' = nextFile + 1

\* Where the local_state of a file that is in new/ after the step comes from.
StateFits(f) ==
    \/ ls'[f].box = disk'[f].box
    \/ f = nextFile /\ ls'[f] = ls[f]
    \/ /\ disk'[f] = disk[f]
       /\ \/ ls'[f].box = ls[f].box
          \/ \E x \in Adopts \cup plan.pair : x.f = f /\ x.box = ls'[f].box
          \/ \E i \in imported : i.u.f = f

LEMMA AdoptedStateFrom ==
    ASSUME NEW L, NEW A, NEW f \in File, AdoptStates(L, A)[f].box # Unsynced
    PROVE  \/ \E a \in A : a.f = f /\ AdoptStates(L, A)[f].box = a.box
           \/ AdoptStates(L, A)[f] = L[f]
<1>1. CASE \E a \in A : a.f = f
    BY <1>1, AdoptedState
<1>2. CASE ~\E a \in A : a.f = f
    <2>1. AdoptStates(L, A)[f] = IF \E a \in A : a.oldF = f THEN NoState ELSE L[f]
        BY <1>2, Zenon DEF AdoptStates
    <2> QED
        BY <2>1 DEF NoState
<1> QED
    BY <1>1, <1>2

LEMMA ExecStates ==
    ASSUME TypeOK, Execute, NEW f \in File, HasState(f)'
    PROVE  /\ HasState(f) \/ StateNames(f)
           /\ disk'[f].sub = "new" => StateFits(f)
<1> DEFINE Goal == /\ HasState(f) \/ StateNames(f)
                   /\ disk'[f].sub = "new" => StateFits(f)
<1> SUFFICES Goal
    OBVIOUS
<1>1. /\ disk \in [File -> MaildirFile] /\ ls \in [File -> LocalState] /\ nextFile \in Nat
      /\ rows \in Rows /\ plan \in Plan /\ imported \subseteq Imported
    BY DEF TypeOK, DiskTypes, DbTypes, ExecTypes
<1>2. ASSUME disk'[f] = disk[f], ls'[f].box = ls[f].box PROVE Goal
    BY <1>2 DEF HasState, StateFits
<1>3. ASSUME UNCHANGED disk, NEW x \in Adopts \cup plan.pair, x.f = f, x.box = ls'[f].box PROVE Goal
    BY <1>3 DEF StateNames, StateFits
<1>4. ASSUME UNCHANGED disk, NEW i \in imported, i.u.f = f PROVE Goal
    BY <1>4 DEF StateNames, StateFits
<1>5. CASE AdoptAll
    <2>1. UNCHANGED disk /\ ls' = AdoptStates(AdoptStates(ls, plan.adoptR), plan.adoptL)
        BY <1>5 DEF AdoptAll, diskVars
    <2> DEFINE L == AdoptStates(ls, plan.adoptR)
    <2>2. \/ \E x \in plan.adoptL : x.f = f /\ ls'[f].box = x.box
          \/ ls'[f] = L[f]
        BY <2>1, AdoptedStateFrom DEF HasState
    <2>3. ls'[f] = L[f] => \/ \E x \in plan.adoptR : x.f = f /\ ls'[f].box = x.box
                           \/ ls'[f] = ls[f]
        BY AdoptedStateFrom DEF HasState
    <2> HIDE DEF L
    <2> QED
        BY <1>2, <1>3, <2>1, <2>2, <2>3 DEF Adopts
<1>6. ASSUME NEW d \in plan.down, DownloadOne(d) PROVE Goal
    <2>1. /\ disk' = [disk EXCEPT ![nextFile] =
                  [sub |-> Sub(d.kw), box |-> d.box, mid |-> d.mid, fl |-> d.kw]]
          /\ ls' = [ls EXCEPT ![nextFile] = [box |-> d.box, fl |-> d.kw]]
          /\ nextFile' = nextFile + 1
        BY <1>6 DEF DownloadOne, Delivered
    <2>2. CASE f = nextFile
        BY <1>1, <2>1, <2>2 DEF StateNames, StateFits
    <2>3. CASE f # nextFile
        BY <1>1, <1>2, <2>1, <2>3
    <2> QED
        BY <2>2, <2>3
<1>7. ASSUME NEW a \in plan.lflag, LocalFlag(a) PROVE Goal
    <2>1. /\ disk' = [disk EXCEPT ![a.f] = [disk[a.f] EXCEPT !.sub = "cur", !.fl = a.fl]]
          /\ ls' = [ls EXCEPT ![a.f] = [box |-> a.box, fl |-> a.fl]]
        BY <1>7 DEF LocalFlag, FlagDisk
    <2>2. CASE f = a.f
        <3>1. [disk[a.f] EXCEPT !.sub = "cur", !.fl = a.fl].sub = "cur"
            BY <1>1, <2>2 DEF MaildirFile, NoFileHere
        <3> QED
            BY <1>1, <2>1, <2>2, <3>1 DEF StateNames
    <2>3. CASE f # a.f
        BY <1>1, <1>2, <2>1, <2>3
    <2> QED
        BY <2>2, <2>3
<1>8. ASSUME NEW a \in plan.lmove, LocalMove(a) PROVE Goal
    <2>1. /\ disk' = [disk EXCEPT ![a.f].box = a.to]
          /\ \E fl : ls' = [ls EXCEPT ![a.f] = [box |-> a.to, fl |-> fl]]
        BY <1>8 DEF LocalMove, MoveDisk
    <2>2. CASE f = a.f
        <3>1. ls'[f].box = a.to /\ disk'[f].box = a.to
            BY <1>1, <2>1, <2>2 DEF MaildirFile, NoFileHere
        <3> QED
            BY <2>2, <3>1 DEF StateNames, StateFits
    <2>3. CASE f # a.f
        BY <1>1, <1>2, <2>1, <2>3
    <2> QED
        BY <2>2, <2>3
<1>9. ASSUME NEW a \in plan.ldel, LocalDelete(a) PROVE Goal
    <2>1. /\ disk' = [disk EXCEPT ![a.f] = NoFileHere] \/ disk' = disk
          /\ ls' = [ls EXCEPT ![a.f] = NoState]
        BY <1>9 DEF LocalDelete, DeleteDisk
    <2>2. f # a.f
        BY <1>1, <2>1 DEF HasState, NoState
    <2> QED
        BY <1>1, <1>2, <2>1, <2>2
<1>10. ASSUME NEW i \in imported, CommitUpload(i) PROVE Goal
    <2>1. UNCHANGED disk /\ ls' = [ls EXCEPT ![i.u.f] = UploadState(i)]
        BY <1>10 DEF CommitUpload, diskVars
    <2> QED
        BY <1>1, <1>2, <1>4, <2>1
<1>11. CASE MirrorSet
    <2>1. UNCHANGED disk /\ \/ ls'[f] = NoState
                            \/ \E fl : ls'[f] = [ls[f] EXCEPT !.fl = fl]
                            \/ ls'[f] = ls[f]
        BY <1>11, Zenon DEF MirrorSet, diskVars
    <2>2. ls'[f] # NoState
        BY DEF HasState, NoState
    <2>3. ASSUME NEW fl PROVE [ls[f] EXCEPT !.fl = fl].box = ls[f].box
        BY <1>1 DEF LocalState, NoState
    <2> QED
        BY <1>2, <2>1, <2>2, <2>3
<1>12. CASE AdoptPairs
    <2>1. UNCHANGED disk /\ ls' = AdoptStates(ls, LandedPairs) /\ LandedPairs \subseteq plan.pair
        BY <1>12 DEF AdoptPairs, diskVars, LandedPairs
    <2>2. \/ \E x \in LandedPairs : x.f = f /\ ls'[f].box = x.box
          \/ ls'[f] = ls[f]
        BY <2>1, AdoptedStateFrom DEF HasState
    <2> QED
        BY <1>2, <1>3, <2>1, <2>2
<1>13. ASSUME UNCHANGED <<disk, ls>> PROVE Goal
    BY <1>2, <1>13
<1>14. ASSUME NEW d \in plan.down, DownloadGone(d) PROVE Goal
    BY <1>13, <1>14 DEF DownloadGone, diskVars, dbVars
<1>15. ASSUME NEW a \in plan.lflag, LocalFlagSkipped(a) PROVE Goal
    BY <1>13, <1>15 DEF LocalFlagSkipped, diskVars, dbVars
<1>16. ASSUME NEW a \in plan.lmove, LocalMoveSkipped(a) PROVE Goal
    BY <1>13, <1>16 DEF LocalMoveSkipped, diskVars, dbVars
<1>17. ASSUME NEW u \in plan.up, UploadOne(u) \/ UploadSkipped(u) PROVE Goal
    BY <1>13, <1>17 DEF UploadOne, UploadSkipped, diskVars, dbVars
<1>18. ASSUME NEW refused \in SUBSET Email, RemoteSet(refused) PROVE Goal
    <2>1. UNCHANGED <<diskVars, dbVars>>
        BY <1>18, Zenon DEF RemoteSet
    <2> QED
        BY <1>13, <2>1 DEF diskVars, dbVars
<1>19. CASE IndexRefuses \/ AdvanceCursor \/ Checkpoint
    BY <1>13, <1>19 DEF IndexRefuses, AdvanceCursor, Checkpoint, diskVars, dbVars
<1> HIDE DEF Goal
<1> QED
    BY <1>5, <1>6, <1>7, <1>8, <1>9, <1>10, <1>11, <1>12, <1>14, <1>15, <1>16, <1>17, <1>18, <1>19,
       Zenon DEF Execute

LEMMA OtherStates ==
    ASSUME TypeOK, [Next]_vars, ~Execute, ~TornMove, NEW f \in File, HasState(f)'
    PROVE  /\ HasState(f) \/ StateNames(f)
           /\ disk'[f].sub = "new" => StateFits(f)
<1>1. CASE DbLost
    BY <1>1 DEF DbLost, HasState, NoState
<1>2. CASE UploadError
    <2>1. PICK I \in SUBSET imported :
              ls' = [g \in File |-> IF \E i \in I : i.u.f = g
                        THEN UploadState(CHOOSE i \in I : i.u.f = g) ELSE ls[g]]
        BY <1>2 DEF UploadError
    <2>2. UNCHANGED disk
        BY <1>2 DEF UploadError, diskVars
    <2>3. CASE \E i \in I : i.u.f = f
        BY <2>2, <2>3 DEF StateNames, StateFits
    <2>4. CASE ~\E i \in I : i.u.f = f
        BY <2>1, <2>2, <2>4 DEF HasState, StateFits
    <2> QED
        BY <2>3, <2>4
<1>3. CASE ~DbLost /\ ~UploadError
    <2>1. ls' = ls
        BY <1>3, TablesStill DEF Next, Fails, Tableless
    <2>2. ~\E a \in plan.lmove : LocalMove(a)
        BY Zenon DEF Execute
    <2>3. disk'[f].sub = "new" => f = nextFile \/ disk'[f] = disk[f]
        BY <2>2, NewSteps
    <2> QED
        BY <2>1, <2>3 DEF HasState, StateFits
<1> QED
    BY <1>1, <1>2, <1>3

LEMMA StateSteps ==
    ASSUME TypeOK, [Next]_vars, ~TornMove, NEW f \in File, HasState(f)'
    PROVE  /\ HasState(f) \/ StateNames(f)
           /\ disk'[f].sub = "new" => StateFits(f)
<1>1. CASE Execute
    BY <1>1, ExecStates
<1>2. CASE ~Execute
    BY <1>2, OtherStates
<1> QED
    BY <1>1, <1>2

LEMMA StatesBornKept ==
    ASSUME TypeOK, FilesNamed, [Next]_vars, ~TornMove, StatesBorn, DiskStep
    PROVE  StatesBorn'
<1> SUFFICES ASSUME NEW f \in File, HasState(f)' PROVE f < nextFile'
    BY DEF StatesBorn
<1>1. nextFile \in Nat /\ f \in Nat /\ plan \in Plan /\ imported \subseteq Imported
    BY DEF TypeOK, DiskTypes, ExecTypes, File
<1>2. nextFile' \in {nextFile, nextFile + 1}
    BY DEF DiskStep
<1>3. CASE HasState(f)
    BY <1>1, <1>2, <1>3 DEF StatesBorn
<1>4. CASE f = nextFile /\ nextFile' = nextFile + 1
    BY <1>1, <1>4
<1>5. CASE \E x \in Adopts \cup plan.pair \cup plan.lflag : x.f = f
    <2>1. PICK x \in Adopts \cup plan.pair \cup plan.lflag : x.f = f
        BY <1>5
    <2>2. x.mid \in Mid /\ Named(f, x.mid)
        BY <1>1, <2>1 DEF Named, PlanName, Adopts, Plan, AdoptAction, UpdateLocalFlags
    <2> QED
        BY <1>1, <1>2, <2>2 DEF FilesNamed
<1>6. CASE \E i \in imported : i.u.f = f
    <2>1. PICK i \in imported : i.u.f = f
        BY <1>6
    <2>2. i.u.mid \in Mid /\ Named(f, i.u.mid)
        BY <1>1, <2>1 DEF Named, PlanName, Coming, Imported, NewMessage
    <2> QED
        BY <1>1, <1>2, <2>2 DEF FilesNamed
<1>7. CASE \E a \in plan.lmove : a.f = f
    BY <1>1, <1>2, <1>7 DEF FilesNamed
<1> QED
    BY <1>3, <1>4, <1>5, <1>6, <1>7, StateSteps DEF StateNames

-----------------------------------------------------------------------------
(* What a step does to what a cycle knows: it finds it, it plans with it,  *)
(* it does part of the plan, or it leaves it alone.                        *)

LEMMA ExecKeeps ==
    ASSUME TypeOK, Phased, Execute \/ Fails
    PROVE  /\ obs' = NoObs
           /\ Shrunk(plan', plan)
           /\ Coming' \subseteq Coming /\ Adopts' \subseteq Adopts
           /\ pc' # "scan"
<1>1. obs' = NoObs /\ Shrunk(plan', plan) /\ pc' # "scan"
    <2>1. CASE CycleReset
        BY <2>1 DEF CycleReset, Shrunk, EmptyPlan
    <2>2. CASE Advances
        BY <2>2, PhaseNames DEF Advances, Phased, ScanPhases
    <2> QED
        BY <2>1, <2>2, ExecAdvances DEF Fails, UploadError, CycleDies, DiesAfterDisk, CycleFails
<1>2. Coming' \subseteq Coming
    BY <1>1, ExecRows, ComingShrinks
<1> QED
    BY <1>1, <1>2 DEF Shrunk, Adopts

LEMMA LookKeeps ==
    ASSUME Observe, ~MakePlan
    PROVE  UNCHANGED <<plan, imported, disk, rows, ls>>
BY DEF Observe, ScanFolder, FetchChanges, ChangesRefused, QueryMailboxes, GetEmails, GetState, diskVars, dbVars

LEMMA OthersKeep ==
    ASSUME UserActs \/ ServerActs \/ UNCHANGED vars
    PROVE  /\ UNCHANGED <<pc, todo, obs, plan, imported>>
           /\ pc = "scan" => UNCHANGED disk \/ "scan" \in UserPhases
<1>1. CASE UserActs
    BY <1>1 DEF UserActs, UserNew, UserCopy, UserMove, UserRename, UserFlag, UserUnflag, UserDelete, DbLost,
       UserStep, cycleVars
<1>2. CASE ServerActs
    BY <1>2 DEF ServerActs, ServerCreate, ServerMove, ServerDuplicate, ServerFlag, ServerDestroy, ServerStep,
       cycleVars, diskVars
<1>3. CASE UNCHANGED vars
    BY <1>3 DEF vars, cycleVars, diskVars
<1> QED
    BY <1>1, <1>2, <1>3

LEMMA StartKeeps ==
    ASSUME NEW d, StartCycle(d)
    PROVE  /\ UNCHANGED <<plan, imported>> /\ pc' = "scan" /\ todo' = Box
           /\ obs'.news = {} /\ obs'.dels = {} /\ obs'.destroyed = {}
           /\ \A x \in obs'.index : x.f \in File => disk'[x.f] = disk[x.f] /\ disk[x.f].box = x.box
<1>1. /\ \E p : obs' = [NoObs EXCEPT !.policy = p, !.index =
                   IF \E e \in Email : HasRow(rows, e) THEN {}
                   ELSE {[f |-> f, box |-> disk[f].box, mid |-> disk[f].mid] : f \in Kept}]
      /\ disk' = [f \in File |-> IF f \in Duplicates THEN NoFileHere ELSE disk[f]]
    BY DEF StartCycle
<1>2. /\ obs'.news = {} /\ obs'.dels = {} /\ obs'.destroyed = {}
      /\ \A x \in obs'.index : x.f \in Kept /\ x.box = disk[x.f].box
    BY <1>1 DEF NoObs
<1>3. \A f \in Kept : f \notin Duplicates
    BY DEF Kept
<1> QED
    BY <1>1, <1>2, <1>3 DEF StartCycle

-----------------------------------------------------------------------------
(* Every step keeps the parts of the invariant.                            *)

LEMMA DoomedKept ==
    ASSUME TypeOK, Phased, EmailsUsed, FilesNamed, EmailsNamed, Doomed, [Next]_vars PROVE Doomed'
<1> DiskStep /\ EmailStep
    BY WorldSteps
<1>1. obs \in Observation /\ plan \in Plan /\ rows \in Rows /\ nextFile \in Nat
    BY DEF TypeOK, ScanTypes, ExecTypes, DbTypes, DiskTypes
<1>2. \A e \in Email : server[e].st = "gone" => server'[e].st = "gone" /\ server'[e].mid = server[e].mid
    BY DEF EmailStep
<1>3. ASSUME NEW a \in plan.ldel
      PROVE  /\ server'[a.e].st = "gone"
             /\ \A n \in Mid : DiskName(a.f, n)' => server'[a.e].mid = n
    <2>1. a.e \in Email /\ a.f \in File /\ server[a.e].st = "gone"
          /\ \A n \in Mid : DiskName(a.f, n) => server[a.e].mid = n
        BY <1>1 DEF Doomed, Plan, DeleteLocal
    <2>2. a.f # nextFile
        BY <1>1 DEF FilesNamed
    <2>3. \A n : DiskName(a.f, n)' => DiskName(a.f, n)
        BY <2>1, <2>2 DEF DiskStep, DiskName
    <2> QED
        BY <1>2, <2>1, <2>3
<1>4. ASSUME obs'.destroyed \subseteq obs.destroyed, plan'.ldel \subseteq plan.ldel PROVE Doomed'
    <2>1. \A e \in obs'.destroyed : server'[e].st = "gone"
        BY <1>1, <1>2, <1>4 DEF Doomed, Observation
    <2> QED
        BY <1>3, <1>4, <2>1 DEF Doomed
<1>5. CASE Execute \/ Fails
    BY <1>4, <1>5, ExecKeeps DEF NoObs, Shrunk
<1>6. CASE UserActs \/ ServerActs \/ UNCHANGED vars
    BY <1>4, <1>6, OthersKeep
<1>7. CASE \E d \in Directions : StartCycle(d)
    BY <1>4, <1>7, StartKeeps
<1>8. CASE MakePlan
    <2>1. PICK byMid \in NewsByMid(obs) : Shrunk(plan', PlanOf(obs, rows, byMid))
        BY <1>8, MadePlan
    <2>2. UNCHANGED <<disk, server>> /\ obs' = NoObs
        BY <1>8, MadePlan
    <2>3. ASSUME NEW a \in plan'.ldel
          PROVE  server[a.e].st = "gone" /\ \A n \in Mid : DiskName(a.f, n) => server[a.e].mid = n
        <3>1. /\ a.e \in obs.destroyed /\ a.e \in Email
              /\ HasRow(rows, a.e) /\ a.f = rows[a.e].file
            BY <1>1, <2>1, DeleteSource DEF Shrunk
        <3>2. rows[a.e].mid \in Mid /\ a.f \in File /\ Named(a.f, rows[a.e].mid)
            BY <1>1, <3>1, RowThere DEF Named, RowName
        <3>3. server[a.e].mid = rows[a.e].mid
            BY <3>1, <3>2 DEF EmailsNamed, EmailName
        <3> QED
            BY <3>1, <3>2, <3>3, OneName DEF Doomed
    <2> QED
        BY <2>2, <2>3 DEF Doomed, NoObs, DiskName, OnDisk
<1>9. CASE Observe /\ ~MakePlan
    <2>1. UNCHANGED plan
        BY <1>9, LookKeeps
    <2>2. CASE FetchChanges
        <3>1. \A e \in obs'.destroyed : e \in Email /\ server[e].st = "gone"
            BY <1>1, <2>2 DEF FetchChanges, Observation
        <3> QED
            BY <1>2, <1>3, <2>1, <3>1 DEF Doomed
    <2>3. CASE ~FetchChanges
        BY <1>1, <1>4, <1>9, <2>1, <2>3 DEF Observe, ScanFolder, ChangesRefused, QueryMailboxes, GetEmails,
           GetState, Observation
    <2> QED
        BY <2>2, <2>3
<1> QED
    BY <1>5, <1>6, <1>7, <1>8, <1>9 DEF Next

LEMMA UnharmedKept ==
    ASSUME TypeOK, EmailsUsed, [Next]_vars, NEW m \in Mid, m \notin removed', Unharmed(m), Spared(m)
    PROVE  Unharmed(m)'
<1> SUFFICES ASSUME NEW e \in Email, server'[e].mid = m, server'[e].st = "gone" PROVE FALSE
    BY DEF Unharmed
<1>1. server[e].st # "none" => server[e].mid = m
    BY WorldSteps DEF EmailStep
<1>2. \/ server[e].st = "gone"
      \/ Live(e) /\ server[e].mid \in removed'
      \/ Live(e) /\ e \in plan.rdel
    BY GoneSteps
<1> QED
    BY <1>1, <1>2 DEF Unharmed, Spared, Live

\* The file of a message nobody removed stays, in cur/ if it is there.
LEMMA FileStays ==
    ASSUME TypeOK, EmailsUsed, FilesNamed, Doomed, [Next]_vars, Renaming \cap UserOps = {},
           NEW m \in Mid, m \notin removed', Unharmed(m), OneFile(m),
           NEW f \in File, DiskName(f, m)
    PROVE  /\ DiskName(f, m)'
           /\ disk[f].sub = "cur" => disk'[f].sub = "cur"
           /\ f # nextFile
<1>1. OnDisk(f) /\ disk[f].mid = m /\ f # nextFile
    BY DEF FilesNamed, DiskName, TypeOK, DiskTypes
<1>2. ~\E a \in plan.ldel : a.f = f
    <2> SUFFICES ASSUME NEW a \in plan.ldel, a.f = f PROVE FALSE
        OBVIOUS
    <2>1. a.e \in Email
        BY DEF TypeOK, ExecTypes, Plan, DeleteLocal
    <2> QED
        BY <2>1 DEF Doomed, Unharmed
<1>3. ~\E g \in File : g # f /\ DiskName(g, disk[f].mid)
    BY <1>1 DEF OneFile, DiskName
<1>4. disk'[f].sub # "none" /\ (disk[f].sub = "cur" => disk'[f].sub = "cur")
    BY <1>1, <1>2, <1>3, FileSteps
<1>5. disk'[f].mid = m
    BY <1>1, <1>4, WorldSteps DEF DiskStep, OnDisk
<1> QED
    BY <1>1, <1>4, <1>5 DEF DiskName, OnDisk

LEMMA PresentKept ==
    ASSUME TypeOK, Phased, EmailsUsed, FilesNamed, Doomed, [Next]_vars, Renaming \cap UserOps = {},
           NEW m \in Mid, m \notin removed', Unharmed(m), Present(m), OneFile(m)
    PROVE  Present(m)'
<1> SUFFICES ASSUME NEW f \in File, Named(f, m)' PROVE DiskName(f, m)'
    BY DEF Present
<1>1. DiskName(f, m) \/ DiskName(f, m)'
    BY NamesFrom DEF Present
<1> QED
    BY <1>1, FileStays

LEMMA PlacedKept ==
    ASSUME TypeOK, EmailsUsed, FilesNamed, StatesBorn, [Next]_vars, ~TornMove,
           NEW m \in Mid, Placed(m), Taken(m)
    PROVE  Placed(m)'
<1> SUFFICES ASSUME NEW f \in File, DiskName(f, m)', disk'[f].sub = "new", HasState(f)'
             PROVE  ls'[f].box = disk'[f].box
    BY DEF Placed
<1>1. plan \in Plan /\ imported \subseteq Imported /\ nextFile \in Nat
    BY DEF TypeOK, ExecTypes, DiskTypes
<1>2. CASE f = nextFile /\ ls'[f] = ls[f]
    BY <1>1, <1>2 DEF StatesBorn, HasState
<1>3. CASE disk'[f] = disk[f]
    <2>1. DiskName(f, m) /\ disk[f].sub = "new"
        BY <1>3 DEF DiskName, OnDisk
    <2>2. CASE ls'[f].box = ls[f].box
        BY <1>3, <2>1, <2>2 DEF Placed, HasState
    <2>3. ASSUME NEW x \in Adopts \cup plan.pair, x.f = f, x.box = ls'[f].box PROVE ls'[f].box = disk'[f].box
        <3>1. x.mid = m
            <4>1. x.mid \in Mid /\ Named(f, x.mid)
                BY <1>1, <2>3 DEF Adopts, Plan, AdoptAction, Named, PlanName
            <4> QED
                BY <2>1, <4>1, OneName
        <3> QED
            BY <1>3, <2>1, <2>3, <3>1 DEF Taken, Adopts
    <2>4. ASSUME NEW i \in imported, i.u.f = f PROVE FALSE
        <3>1. i.u \in Coming /\ i.u.mid \in Mid
            BY <1>1 DEF Coming, Imported, NewMessage
        <3>2. i.u.mid = m
            <4>1. Named(f, i.u.mid)
                BY <2>4, <3>1 DEF Named, PlanName
            <4> QED
                BY <2>1, <3>1, <4>1, OneName
        <3> QED
            BY <2>1, <2>4, <3>1, <3>2 DEF Taken
    <2> QED
        BY <1>3, <2>2, <2>3, <2>4, StateSteps, <1>2 DEF StateFits
<1> QED
    BY <1>2, <1>3, StateSteps DEF StateFits

LEMMA TakenKept ==
    ASSUME TypeOK, Phased, EmailsUsed, FilesNamed, Doomed, [Next]_vars, ~TornMove,
           Renaming \cap UserOps = {}, NEW m \in Mid, m \notin removed', OneFile(m),
           Unharmed(m), Present(m), Placed(m), Agree(m), Taken(m)
    PROVE  Taken(m)'
<1> DEFINE Out == obs.news \cup Coming \cup plan.adoptL \cup plan.pair
           Rest == obs.index \cup plan.adoptR
<1>1. /\ obs \in Observation /\ plan \in Plan /\ imported \subseteq Imported /\ rows \in Rows
      /\ disk \in [File -> MaildirFile]
    BY DEF TypeOK, ScanTypes, ExecTypes, DbTypes, DiskTypes
<1>2. ASSUME NEW n \in Out, n.mid = m PROVE n.f \in File /\ disk[n.f].sub # "new" /\ disk'[n.f].sub # "new"
    <2>1. n.f \in File
        BY <1>1 DEF Observation, Coming, Plan, Imported, NewMessage, AdoptAction
    <2>2. Named(n.f, m)
        BY <1>2 DEF Named, SeenName, PlanName, Adopts
    <2>3. DiskName(n.f, m) /\ disk[n.f].sub # "new"
        BY <1>2, <2>1, <2>2 DEF Present, Taken
    <2>4. disk[n.f].sub = "cur"
        BY <1>1, <2>1, <2>3 DEF MaildirFile, NoFileHere, DiskName, OnDisk
    <2> QED
        BY <2>1, <2>3, <2>4, FileStays
<1>3. ASSUME NEW x \in Rest, x.mid = m, disk'[x.f].sub = "new" PROVE disk'[x.f].box = x.box
    <2>1. x.f \in File
        BY <1>1 DEF Observation, Plan, AdoptAction
    <2>2. Named(x.f, m)
        BY <1>3 DEF Named, SeenName, PlanName, Adopts
    <2>3. DiskName(x.f, m)
        BY <2>1, <2>2 DEF Present
    <2>4. disk[x.f].sub = "new" /\ x.f # nextFile
        BY <1>1, <1>3, <2>1, <2>3, FileStays DEF MaildirFile, NoFileHere, DiskName, OnDisk
    <2>5. disk[x.f].box = x.box
        BY <1>3, <2>4 DEF Taken
    <2>6. ASSUME NEW a \in plan.lmove, LocalMove(a) PROVE FALSE
        <3>1. pc = "lmove"
            BY <2>6 DEF LocalMove
        <3>2. Adopts = {} /\ obs = NoObs
            BY <3>1, Passed DEF Phased, ScanPhases
        <3> QED
            BY <3>2 DEF Adopts, NoObs
    <2> QED
        BY <1>3, <2>1, <2>4, <2>5, <2>6, NewSteps
<1>4. ASSUME \A n \in Out' : n.mid = m => n \in Out \/ disk'[n.f].sub # "new",
             \A x \in Rest' : x.mid = m => x \in Rest \/ disk'[x.f].box = x.box
      PROVE  Taken(m)'
    BY <1>2, <1>3, <1>4 DEF Taken
<1> HIDE DEF Out, Rest
<1>5. CASE Execute \/ Fails
    BY <1>4, <1>5, ExecKeeps DEF Out, Rest, NoObs, Shrunk
<1>6. CASE UserActs \/ ServerActs \/ UNCHANGED vars
    BY <1>4, <1>6, OthersKeep DEF Out, Rest, Coming
<1>7. CASE \E d \in Directions : StartCycle(d)
    <2>1. PICK d \in Directions : StartCycle(d)
        BY <1>7
    <2>2. \A x \in obs'.index : disk'[x.f].box = x.box
        BY <2>1, StartKeeps, StepTypes DEF TypeOK, ScanTypes, Observation
    <2> QED
        BY <1>4, <2>1, <2>2, StartKeeps DEF Out, Rest, Coming
<1>8. CASE MakePlan
    <2>1. PICK byMid \in NewsByMid(obs) : Shrunk(plan', PlanOf(obs, rows, byMid))
        BY <1>8, MadePlan
    <2>2. UNCHANGED <<disk, imported>> /\ obs' = NoObs /\ imported = {}
        BY <1>8, MadePlan
    <2> DEFINE p == PlanOf(obs, rows, byMid)
    <2>3. /\ \A u \in p.up : u \in obs.news
          /\ p.adoptL = LocalAdopts(obs, rows, DetectedMoves(obs, rows, byMid))
          /\ p.adoptR = RemoteAdopts(obs, rows)
        BY DEF PlanOf, Uploads, LiveNews
    <2>4. ASSUME NEW n \in p.up \cup p.adoptL \cup p.pair, n.mid = m PROVE disk[n.f].sub # "new"
        <3>1. \E y \in obs.news : y.mid = n.mid /\ y.f = n.f
            BY <1>1, <2>3, LocalAdoptSource, PairSource DEF LiveNews
        <3> QED
            BY <1>2, <2>4, <3>1 DEF Out
    <2>5. ASSUME NEW x \in p.adoptR, x.mid = m, disk[x.f].sub = "new" PROVE disk[x.f].box = x.box
        <3>1. CASE \E y \in obs.index : y.mid = m /\ y.box = x.box /\ x.f = y.f
            BY <1>3, <2>2, <2>5, <3>1 DEF Rest
        <3>2. CASE \E a \in Email : HasRow(rows, a) /\ rows[a].mid = m /\ rows[a].box = x.box /\ x.f = rows[a].file
            <4>1. PICK a \in Email : HasRow(rows, a) /\ rows[a].mid = m /\ rows[a].box = x.box /\ x.f = rows[a].file
                BY <3>2
            <4>2. x.f \in File /\ x.box \in Box /\ Named(x.f, m)
                BY <1>1, <4>1, RowThere DEF Named, RowName
            <4>3. DiskName(x.f, m) /\ ls[x.f].box = x.box
                BY <4>1, <4>2 DEF Present, Agree
            <4>4. HasState(x.f)
                BY <4>2, <4>3, BoxAssumption DEF HasState, Unsynced
            <4> QED
                BY <2>5, <4>2, <4>3, <4>4 DEF Placed
        <3> QED
            BY <1>1, <2>3, <2>5, <3>1, <3>2, RemoteAdoptSource
    <2> HIDE DEF p
    <2>6. /\ plan'.up \subseteq p.up /\ plan'.adoptL \subseteq p.adoptL /\ plan'.pair \subseteq p.pair
          /\ plan'.adoptR \subseteq p.adoptR
        BY <2>1 DEF Shrunk, p
    <2> QED
        BY <1>4, <2>2, <2>4, <2>5, <2>6 DEF Out, Rest, Coming, NoObs, Taken
<1>9. CASE Observe /\ ~MakePlan
    <2>1. UNCHANGED <<plan, imported, disk>>
        BY <1>9, LookKeeps
    <2>2. obs'.index = obs.index /\ \A n \in obs'.news : n \in obs.news \/ disk[n.f].sub = "cur"
        <3>1. ASSUME NEW b \in Box, ScanFolder(b)
              PROVE  obs'.index = obs.index /\ \A n \in obs'.news : n \in obs.news \/ disk[n.f].sub = "cur"
            <4>1. /\ obs'.news = obs.news \cup
                        {[f |-> f, box |-> b, mid |-> disk[f].mid, fl |-> disk[f].fl] :
                            f \in {g \in File : InCur(g, b) /\ ~Known(g, b)}}
                  /\ obs'.index = obs.index
                BY <1>1, <3>1 DEF ScanFolder, Observation
            <4> QED
                BY <4>1 DEF InCur
        <3>2. CASE ~\E b \in Box : ScanFolder(b)
            BY <1>1, <1>9, <3>2 DEF Observe, FetchChanges, ChangesRefused, QueryMailboxes, GetEmails, GetState,
               Observation
        <3> QED
            BY <3>1, <3>2
    <2> QED
        BY <1>4, <2>1, <2>2 DEF Out, Rest, Coming
<1> QED
    BY <1>5, <1>6, <1>7, <1>8, <1>9 DEF Next

\* The pre-pass takes a row of m whose file is missing for a move, not a deletion.
LEMMA MadeSpared ==
    ASSUME TypeOK, EmailsNamed, NEW m \in Mid, Scanned(m), Combed(m), pc # "scan",
           NEW byMid \in NewsByMid(obs), NEW e \in PlanOf(obs, rows, byMid).rdel
    PROVE  e \in Email /\ server[e].st # "none" /\ server[e].mid # m
<1> DEFINE moves == DetectedMoves(obs, rows, byMid)
<1>1. rows \in Rows /\ obs \in Observation
    BY DEF TypeOK, DbTypes, ScanTypes
<1>2. e \in Email /\ e \in LocalDeletes(obs, rows, moves)
    BY DEF PlanOf, Destroys, LocalDeletes, Deleted
<1>3. PICK d \in obs.dels : rows[e].file = d.f
    BY <1>2 DEF LocalDeletes, Deleted
<1>4. HasRow(rows, e) /\ rows[e].mid \in Mid
    BY <1>1, <1>2, <1>3, FileHasRow, RowThere DEF Observation
<1>5. server[e].st # "none" /\ server[e].mid = rows[e].mid
    BY <1>2, <1>4 DEF EmailsNamed, EmailName
<1>6. ASSUME rows[e].mid = m PROVE FALSE
    <2>1. PICK n \in obs.news : n.f = d.f /\ n.mid = m
        BY <1>2, <1>3, <1>6 DEF Combed, RowName
    <2>2. n.box # d.box
        BY <2>1 DEF Scanned, Findings
    <2>3. m \in DOMAIN byMid /\ byMid[m] = n
        <3>1. DOMAIN byMid = {x.mid : x \in obs.news} /\ m \in DOMAIN byMid
            BY <2>1 DEF NewsByMid
        <3>2. byMid[m] \in obs.news /\ byMid[m].mid = m
            BY <3>1 DEF NewsByMid
        <3> QED
            BY <2>1, <3>1, <3>2 DEF Scanned, Findings
    <2> DEFINE y == <<d, e>>
               v == [e |-> y[2], oldF |-> y[1].f, prior |-> rows[y[2]].flags,
                     blob |-> rows[y[2]].blob, new |-> byMid[rows[y[2]].mid]]
    <2>4. v \in moves
        BY <1>2, <1>3, <1>6, <2>2, <2>3 DEF DetectedMoves
    <2>5. v.e = e
        OBVIOUS
    <2> QED
        BY <1>2, <2>4, <2>5 DEF LocalDeletes
<1> QED
    BY <1>2, <1>5, <1>6

LEMMA SparedKept ==
    ASSUME TypeOK, Phased, EmailsUsed, EmailsNamed, [Next]_vars,
           NEW m \in Mid, Scanned(m), Spared(m), Combed(m)
    PROVE  Spared(m)'
<1>1. plan.rdel \subseteq Email
    BY DEF TypeOK, ExecTypes, Plan
<1>2. ASSUME NEW e \in Email, server[e].st # "none", server[e].mid # m
      PROVE  server'[e].st # "none" /\ server'[e].mid # m
    BY <1>2, WorldSteps DEF EmailStep
<1>3. plan'.rdel \subseteq plan.rdel => Spared(m)'
    BY <1>1, <1>2 DEF Spared
<1>4. CASE Execute \/ Fails
    BY <1>3, <1>4, ExecKeeps DEF Shrunk
<1>5. CASE UserActs \/ ServerActs \/ UNCHANGED vars
    BY <1>3, <1>5, OthersKeep
<1>6. CASE \E d \in Directions : StartCycle(d)
    BY <1>3, <1>6, StartKeeps
<1>7. CASE Observe /\ ~MakePlan
    BY <1>3, <1>7, LookKeeps
<1>8. CASE MakePlan
    <2>1. PICK byMid \in NewsByMid(obs) : Shrunk(plan', PlanOf(obs, rows, byMid))
        BY <1>8, MadePlan
    <2>2. pc # "scan"
        BY <1>8 DEF MakePlan
    <2> QED
        BY <1>2, <2>1, <2>2, MadeSpared DEF Shrunk, Spared
<1> QED
    BY <1>3, <1>4, <1>5, <1>6, <1>7, <1>8 DEF Next

LEMMA CombWalks ==
    ASSUME TypeOK, NEW m \in Mid, Scanned(m), Present(m), Placed(m), Combed(m),
           NEW b \in Box, ScanFolder(b)
    PROVE  Combed(m)'
<1> DEFINE new == {[f |-> f, box |-> b, mid |-> disk[f].mid, fl |-> disk[f].fl] :
                      f \in {g \in File : InCur(g, b) /\ ~Known(g, b)}}
           gone == {[f |-> f, box |-> b] : f \in {g \in File : Known(g, b) /\ ~Observed(g, b)}}
<1>1. /\ obs'.news = obs.news \cup new /\ obs'.dels = obs.dels \cup gone
      /\ todo' = todo \ {b} /\ pc = "scan"
      /\ UNCHANGED <<rows, ls, disk>>
      /\ pc' = "scan" \/ todo' = {}
    BY DEF ScanFolder, TypeOK, ScanTypes, Observation, diskVars, dbVars
<1>2. /\ disk \in [File -> MaildirFile] /\ obs \in Observation
      /\ \A f \in File : OnDisk(f) /\ disk[f].sub # "new" => disk[f].sub = "cur"
    BY DEF TypeOK, DiskTypes, ScanTypes, MaildirFile, NoFileHere, OnDisk
<1>3. \A d \in obs'.dels : d.f \in File /\ d.box \in Box /\ ls[d.f].box = d.box
    <2>1. \A d \in gone : d.f \in File /\ d.box = b /\ Known(d.f, b)
        OBVIOUS
    <2>2. \A d \in obs.dels : d.f \in File /\ d.box \in Box /\ ls[d.f].box = d.box
        BY <1>2 DEF Observation, Scanned, Findings
    <2> HIDE DEF gone
    <2> QED
        BY <1>1, <2>1, <2>2 DEF Known
<1>4. ASSUME NEW f \in File, DiskName(f, m), disk[f].sub = "cur", disk[f].box \notin todo', ~Known(f, disk[f].box)
      PROVE  \E n \in obs'.news : n.f = f /\ n.mid = m
    <2>1. CASE disk[f].box = b
        <3> DEFINE n == [f |-> f, box |-> b, mid |-> disk[f].mid, fl |-> disk[f].fl]
        <3>1. n \in new /\ n.f = f /\ n.mid = m
            BY <1>4, <2>1 DEF InCur, DiskName
        <3> QED
            BY <1>1, <3>1
    <2>2. CASE disk[f].box # b
        BY <1>1, <1>4, <2>2 DEF Combed
    <2> QED
        BY <2>1, <2>2
<1>5. ASSUME NEW d \in obs'.dels, RowName(d.f, m) PROVE DiskName(d.f, m) /\ disk[d.f].box # d.box
    <2>1. DiskName(d.f, m)
        BY <1>3, <1>5 DEF Present, Named
    <2>2. CASE d \in obs.dels
        BY <1>1, <1>5, <2>1, <2>2 DEF Combed
    <2>3. CASE d \in gone
        BY <2>1, <2>3 DEF Observed, DiskName
    <2> QED
        BY <1>1, <2>1, <2>2, <2>3
<1>6. ASSUME todo' = {}, NEW d \in obs'.dels, RowName(d.f, m)
      PROVE  \E n \in obs'.news : n.f = d.f /\ n.mid = m
    <2>1. d.f \in File /\ DiskName(d.f, m) /\ disk[d.f].box # ls[d.f].box /\ HasState(d.f)
        BY <1>3, <1>5, <1>6, BoxAssumption DEF HasState, Unsynced
    <2>2. disk[d.f].sub = "cur" /\ ~Known(d.f, disk[d.f].box)
        BY <1>2, <2>1 DEF Placed, Known, DiskName
    <2> QED
        BY <1>4, <1>6, <2>1, <2>2
<1> HIDE DEF new, gone
<1>7. /\ \A f \in File, n \in Mid : DiskName(f, n)' <=> DiskName(f, n)
      /\ \A f, n : RowName(f, n)' <=> RowName(f, n)
      /\ \A f, c : Known(f, c)' <=> Known(f, c)
    BY <1>1 DEF DiskName, OnDisk, RowName, Known
<1>8. CASE pc' = "scan"
    BY <1>1, <1>4, <1>5, <1>7, <1>8 DEF Combed
<1>9. CASE pc' # "scan"
    BY <1>1, <1>6, <1>7, <1>9 DEF Combed
<1> QED
    BY <1>8, <1>9

LEMMA CombedKept ==
    ASSUME TypeOK, Phased, [Next]_vars, "scan" \notin UserPhases,
           NEW m \in Mid, Scanned(m), Present(m), Placed(m), Combed(m)
    PROVE  Combed(m)'
<1>1. pc' # "scan" /\ obs' = NoObs => Combed(m)'
    BY DEF Combed, NoObs
<1>2. CASE Execute \/ Fails
    BY <1>1, <1>2, ExecKeeps
<1>3. CASE MakePlan
    BY <1>1, <1>3, PlanPhase, PhaseNames DEF MakePlan
<1>4. CASE Observe /\ ~MakePlan
    <2>1. CASE \E b \in Box : ScanFolder(b)
        BY <2>1, CombWalks
    <2>2. CASE ~\E b \in Box : ScanFolder(b)
        <3>1. obs'.news = obs.news /\ obs'.dels = obs.dels /\ pc # "scan" /\ pc' # "scan"
            BY <1>4, <2>2 DEF Observe, FetchChanges, ChangesRefused, QueryMailboxes, GetEmails, GetState,
               TypeOK, ScanTypes, Observation
        <3>2. UNCHANGED rows
            BY <1>4, LookKeeps
        <3> QED
            BY <3>1, <3>2 DEF Combed, RowName
    <2> QED
        BY <2>1, <2>2
<1>5. CASE \E d \in Directions : StartCycle(d)
    <2>1. obs'.dels = {} /\ pc' = "scan" /\ todo' = Box
        BY <1>5, StartKeeps
    <2>2. \A f \in File : OnDisk(f)' => disk'[f].box \in Box
        BY StepTypes DEF TypeOK, DiskTypes, MaildirFile, NoFileHere, OnDisk
    <2> QED
        BY <2>1, <2>2 DEF Combed, DiskName
<1>6. CASE DbLost
    <2>1. pc' # "scan" /\ obs' = NoObs
        BY <1>6 DEF DbLost, cycleVars, Phased, ScanPhases
    <2> QED
        BY <1>1, <2>1
<1>7. CASE (UserActs /\ ~DbLost) \/ ServerActs \/ UNCHANGED vars
    <2>1. UNCHANGED <<pc, todo, obs, rows, ls>> /\ (pc = "scan" => UNCHANGED disk)
        BY <1>7, OthersKeep, TablesStill
    <2>2. CASE pc = "scan"
        BY <2>1, <2>2 DEF Combed, DiskName, OnDisk, Known, RowName
    <2>3. CASE pc # "scan"
        BY <2>1, <2>3 DEF Combed, RowName
    <2> QED
        BY <2>2, <2>3
<1> QED
    BY <1>2, <1>3, <1>4, <1>5, <1>6, <1>7 DEF Next

-----------------------------------------------------------------------------
(* The invariant holds.                                                    *)

\* The seeded message is one file, in the folder its local_state says, and its
\* email is alive.
LEMMA InitMail ==
    ASSUME Init
    PROVE  /\ \A f \in File : HasState(f) => f = 1 /\ Seeded /\ ls[f].box = disk[f].box
           /\ Seeded /\ 1 \in File => DiskName(1, AnyMid)
           /\ \A e \in Email : server[e].st # "gone"
           /\ Seeded => nextFile = 2
<1>1. PICK fl \in SUBSET Flag, blob \in BOOLEAN, b \in Box :
        /\ disk = [f \in File |-> IF Seeded /\ f = 1
                     THEN [sub |-> IF blob THEN Sub(fl) ELSE "cur", box |-> b,
                           mid |-> AnyMid, fl |-> fl]
                     ELSE NoFileHere]
        /\ server = [e \in Email |-> IF Seeded /\ e = 1
                       THEN [st |-> "live", box |-> b, mid |-> AnyMid, kw |-> fl, at |-> 1]
                       ELSE NoEmailHere]
        /\ rows = [e \in Email |-> IF Seeded /\ e = 1
                     THEN [box |-> b, mid |-> AnyMid, file |-> 1, flags |-> fl, blob |-> blob]
                     ELSE NoRow]
        /\ ls = [f \in File |-> IF Seeded /\ f = 1 THEN [box |-> b, fl |-> fl] ELSE NoState]
    <2>1. budget.flags \subseteq Flag
        BY BudgetAssumption DEF Init, Environment
    <2> QED
        BY <2>1 DEF Init
<1>2. \A f \in File : HasState(f) => f = 1 /\ Seeded
    BY <1>1 DEF HasState, NoState
<1>3. ASSUME Seeded, 1 \in File PROVE DiskName(1, AnyMid) /\ ls[1].box = disk[1].box
    <2>1. disk[1] = [sub |-> IF blob THEN Sub(fl) ELSE "cur", box |-> b, mid |-> AnyMid, fl |-> fl]
        BY <1>1, <1>3
    <2>2. ls[1] = [box |-> b, fl |-> fl]
        BY <1>1, <1>3
    <2> QED
        BY <2>1, <2>2 DEF Sub, DiskName, OnDisk
<1>4. \A e \in Email : server[e].st # "gone"
    BY <1>1 DEF NoEmailHere
<1> QED
    BY <1>2, <1>3, <1>4, InitSeed

LEMMA MailInit ==
    ASSUME Init, NEW m \in Mid PROVE MailInv(m)
<1>1. TableInv(m)
    BY TableInit
<1>2. StatesBorn
    BY InitMail DEF StatesBorn
<1>3. Doomed
    BY InitNothing DEF Doomed, NoObs
<1>4. Unharmed(m)
    BY InitMail DEF Unharmed
<1>5. Present(m)
    <2> SUFFICES ASSUME NEW f \in File, Named(f, m) PROVE DiskName(f, m)
        BY DEF Present
    <2>1. RowName(f, m)
        BY InitNothing DEF Named, SeenName, PlanName
    <2>2. Seeded /\ f = 1 /\ m = AnyMid
        BY <2>1, InitSeed DEF RowName, HasRow, File, NoFile
    <2> QED
        BY <2>2, InitMail
<1>6. Placed(m)
    BY InitMail DEF Placed
<1>7. Taken(m) /\ Spared(m) /\ Combed(m)
    BY InitNothing DEF Taken, Spared, Combed, EmptyPlan
<1> QED
    BY <1>1, <1>2, <1>3, <1>4, <1>5, <1>6, <1>7 DEF MailInv, Safe

LEMMA MailStep ==
    ASSUME NEW m \in Mid, "scan" \notin UserPhases, "PullOnly" \notin Directions,
           Renaming \cap UserOps = {}, MailInv(m), Single(m), [Next]_vars, [~TornMove]_vars
    PROVE  MailInv(m)'
<1> USE DEF MailInv, TableInv, Single
<1>1. ~TornMove
    BY DEF TornMove, DiesAfterDisk, CycleFails, CycleReset, vars, cycleVars
<1>2. TableInv(m)'
    BY TableStep
<1>3. StatesBorn'
    BY <1>1, WorldSteps, StatesBornKept
<1>4. Doomed'
    BY DoomedKept
<1>5. ASSUME m \notin removed' PROVE Safe(m)'
    <2> USE DEF Safe
    <2>1. m \notin removed
        BY <1>5, RemovedGrows
    <2>2. Unharmed(m)'
        BY <1>5, <2>1, UnharmedKept
    <2>3. Present(m)'
        BY <1>5, <2>1, PresentKept
    <2>4. Placed(m)'
        BY <1>1, <2>1, PlacedKept
    <2>5. Taken(m)'
        BY <1>1, <1>5, <2>1, TakenKept
    <2>6. Spared(m)'
        BY <2>1, SparedKept
    <2>7. Combed(m)'
        BY <2>1, CombedKept
    <2> QED
        BY <2>2, <2>3, <2>4, <2>5, <2>6, <2>7
<1> QED
    BY <1>2, <1>3, <1>4, <1>5

\* A message that nobody removed keeps its email, and no step takes its file:
\* as long as it is one file and one live email, no cycle, refusal, lost state
\* DB or crash but the one of TornMove ends either.  The hypotheses exclude what
\* is known to lose one: files renamed (sync_lost) and programs that move files
\* during the walk; a pull-only cycle adopts pairs whose MoveRemote it drops.
THEOREM MessageKept ==
    ASSUME NEW m \in Mid, "scan" \notin UserPhases, "PullOnly" \notin Directions,
           Renaming \cap UserOps = {}
    PROVE  Spec /\ []Single(m) /\ [][~TornMove]_vars =>
              /\ [](m \notin removed => Unharmed(m))
              /\ [][\A f \in File : DiskName(f, m) /\ ~DiskName(f, m)' => m \in removed']_vars
<1>1. Init => MailInv(m)
    BY MailInit
<1>2. MailInv(m) /\ Single(m) /\ [Next]_vars /\ [~TornMove]_vars => MailInv(m)'
    BY MailStep
<1>3. MailInv(m) => (m \notin removed => Unharmed(m))
    BY DEF MailInv, Safe
<1>4. MailInv(m) /\ Single(m) /\ [Next]_vars /\ [~TornMove]_vars
          => [\A f \in File : DiskName(f, m) /\ ~DiskName(f, m)' => m \in removed']_vars
    <2> SUFFICES ASSUME MailInv(m), Single(m), [Next]_vars, NEW f \in File, DiskName(f, m),
                        ~DiskName(f, m)', m \notin removed'
                 PROVE  FALSE
        OBVIOUS
    <2>1. m \notin removed
        BY RemovedGrows
    <2> QED
        BY <2>1, FileStays DEF MailInv, Safe, TableInv, Single
<1> QED
    BY <1>1, <1>2, <1>3, <1>4, PTL DEF Spec

\* What the runs check as NothingLost and DestroysOnlyDeleted, for every instance.
LEMMA MailNotLost ==
    ASSUME \A m \in Mid : MailInv(m) PROVE NothingLost
<1> SUFFICES ASSUME NEW m \in UsedMids \ removed
             PROVE  \/ \E e \in Email : Live(e) /\ server[e].mid = m
                    \/ \E f \in File : OnDisk(f) /\ disk[f].mid = m
    BY DEF NothingLost
<1>1. TypeOK
    BY AnyMidType DEF MailInv, TableInv
<1>2. CASE \E f \in File : OnDisk(f) /\ disk[f].mid = m
    BY <1>2
<1>3. CASE \E e \in Email : server[e].st # "none" /\ server[e].mid = m
    <2>1. PICK e \in Email : server[e].st # "none" /\ server[e].mid = m
        BY <1>3
    <2>2. server[e] \in EmailObject
        BY <1>1 DEF TypeOK, ServerTypes
    <2>3. server[e].st \in {"live", "gone"} /\ m \in Mid
        BY <2>1, <2>2 DEF EmailObject
    <2>4. server[e].st # "gone"
        BY <2>1, <2>3 DEF MailInv, Safe, Unharmed
    <2> QED
        BY <2>1, <2>3, <2>4 DEF Live
<1> QED
    BY <1>2, <1>3 DEF UsedMids

\* No message is lost (NothingLost) while each is one file and one live email,
\* under the hypotheses of MessageKept.  (Dedupe, reconcile, every executor phase.)
THEOREM NothingLostCorrect ==
    ASSUME "scan" \notin UserPhases, "PullOnly" \notin Directions, Renaming \cap UserOps = {}
    PROVE  Spec /\ [](\A m \in Mid : Single(m)) /\ [][~TornMove]_vars => []NothingLost
<1> DEFINE AllSingle == \A m \in Mid : Single(m)
           Inv == \A m \in Mid : MailInv(m)
<1>1. Init => Inv
    BY MailInit
<1>2. Inv /\ AllSingle /\ [Next]_vars /\ [~TornMove]_vars => Inv'
    BY MailStep
<1>3. Inv => NothingLost
    BY MailNotLost
<1> HIDE DEF Inv
<1> QED
    BY <1>1, <1>2, <1>3, PTL DEF Spec

\* The engine destroys an email only if the user removed the message
\* (DestroysOnlyDeleted), under the same hypotheses: a file it does not find
\* where its row has it was moved, and the plan moves the email.
\* (local_deletes, handle_local_delete and the move pre-pass.)
THEOREM DestroysOnlyDeletedCorrect ==
    ASSUME "scan" \notin UserPhases, "PullOnly" \notin Directions, Renaming \cap UserOps = {}
    PROVE  Spec /\ [](\A m \in Mid : Single(m)) /\ [][~TornMove]_vars => DestroysOnlyDeleted
<1> DEFINE AllSingle == \A m \in Mid : Single(m)
           Inv == \A m \in Mid : MailInv(m)
<1>1. Init => Inv
    BY MailInit
<1>2. Inv /\ AllSingle /\ [Next]_vars /\ [~TornMove]_vars => Inv'
    BY MailStep
<1>3. Inv /\ [Next]_vars
          => [\A e \in Email : foreign' = foreign /\ Live(e) /\ server'[e].st = "gone"
                                  => server[e].mid \in removed]_vars
    <2> SUFFICES ASSUME Inv, [Next]_vars, NEW e \in Email, foreign' = foreign, Live(e),
                        server'[e].st = "gone", server[e].mid \notin removed
                 PROVE  FALSE
        OBVIOUS
    <2>1. TypeOK
        BY AnyMidType DEF MailInv, TableInv
    <2>2. server[e].mid \in Mid
        BY <2>1 DEF TypeOK, ServerTypes, EmailObject
    <2>3. e \in plan.rdel
        BY <2>1, GoneSteps DEF Live
    <2> QED
        BY <2>2, <2>3 DEF MailInv, Safe, Spared
<1> HIDE DEF Inv
<1> QED
    BY <1>1, <1>2, <1>3, PTL DEF Spec, DestroysOnlyDeleted
=============================================================================
