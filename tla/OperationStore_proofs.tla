------------------------- MODULE OperationStore_proofs -------------------------
(***************************************************************************)
(* For any number of processes, operations, clusters and times: the        *)
(* operation files are registers that are replaced whole and never fall    *)
(* behind what was reported saved, and both scans are right about files    *)
(* that change under them.                                                 *)
(***************************************************************************)
EXTENDS OperationStore, WellFoundedInduction, TLAPS

Saving == SavingLabels \ {"load"}
Writing == {"write", "sync", "rename", "dirsync"}

(* Whoever saves or guards holds the lock of the cluster concerned.        *)
Locked(p) ==
  /\ pc[p] \in SavingLabels \cup {"guard", "clear"} => lock[job[p].cluster] = p
  /\ pc[p] \in SavingLabels => job[p].id \in Id /\ job[p].cluster = ClusterOf[job[p].id]

(* The copy in memory is at least as new as the file and as the last       *)
(* record that was reported saved.                                         *)
Ahead(p) ==
  pc[p] \in Saving =>
    /\ file[job[p].id] \in Record
    /\ job[p].record.at >= file[job[p].id].at
    /\ file[job[p].id].completed => job[p].record.completed
    /\ reported[job[p].id] \in Record =>
         /\ job[p].record.at >= reported[job[p].id].at
         /\ pc[p] \in Writing => job[p].record.at > reported[job[p].id].at
    /\ pc[p] = "rename" => temporary[p] = "synced"
    /\ pc[p] = "dirsync" => file[job[p].id] = job[p].record

(* What the guard has scanned stays as it was found.                       *)
Guarded(p) ==
  pc[p] \in {"guard", "clear"} =>
    /\ \A id \in Id \ job[p].entries :
         /\ file[id] # Unreadable
         /\ ClusterOf[id] = job[p].cluster => file[id].completed
    /\ pc[p] = "clear" => job[p].entries = {}

(* A file that is replaced becomes later, and stays completed.             *)
Grown(old, new) ==
  \/ old = Unreadable /\ new = Unreadable
  \/ /\ old \in Record /\ new \in Record
     /\ new.at >= old.at
     /\ old.completed => new.completed

NoLater(at, id, p) ==
  /\ job[p].id # Nothing
  /\ \/ at < job[p].record.at
     \/ at = job[p].record.at /\ id <= job[p].id

Shown(p) ==
  pc[p] \in {"show", "answer"} =>
    /\ \A id \in Id : Grown(began[p][id], file[id])
    /\ job[p].id # Nothing => job[p].record \in Record
    /\ \A id \in Id \ job[p].entries :
         /\ file[id] \in Record
         /\ ~file[id].completed => NoLater(began[p][id].at, id, p)
    /\ pc[p] = "answer" => job[p].entries = {}

FilesSurvive == \A id \in Id : file[id] \in survivors[id]

Idle(p) == pc[p] = "idle" => job[p].id = Nothing

ProcessInv(p) == Idle(p) /\ Locked(p) /\ Ahead(p) /\ Guarded(p) /\ Shown(p)

StoreInv ==
  /\ StoreTypeOK
  /\ FilesSurvive
  /\ AcknowledgedSurvives
  /\ \A p \in Process : ProcessInv(p)

-----------------------------------------------------------------------------
(* Types. *)

LEMMA NoJobTyped == NoJob \in Job
<1>1. (CHOOSE c \in Cluster : TRUE) \in Cluster
  BY StoreAssumption
<1> QED BY <1>1 DEF NoJob, Job, Names, File

LEMMA NoScanTyped == NoScan \in [Id -> File]
  BY DEF NoScan, File

LEMMA SettledTyped ==
  ASSUME NEW files \in [Id -> File]
  PROVE  Settled(files) \in [Id -> SUBSET File]
  BY DEF Settled

LEMMA TypeInit == Init => StoreTypeOK
<1> SUFFICES ASSUME Init PROVE StoreTypeOK
  OBVIOUS
<1>1. file \in [Id -> File]
  BY StoreAssumption DEF Init, File, Record
<1>2. survivors \in [Id -> SUBSET File]
  BY <1>1, SettledTyped DEF Init
<1>3. \A q \in Process : job[q] = NoJob /\ began[q] = NoScan /\ pc[q] = "idle"
  BY DEF Init
<1> QED BY <1>1, <1>2, <1>3, NoJobTyped, NoScanTyped, StoreAssumption
        DEF Init, StoreTypeOK, Labels, SavingLabels

(* The locals stay typed, field by field. *)
LEMMA JobUpdates ==
  ASSUME NEW j \in Job, NEW id \in Names, NEW c \in Cluster, NEW r \in File,
         NEW es \in SUBSET Id
  PROVE  /\ [j EXCEPT !.id = id] \in Job
         /\ [j EXCEPT !.cluster = c] \in Job
         /\ [j EXCEPT !.record = r] \in Job
         /\ [j EXCEPT !.entries = es] \in Job
  BY DEF Job

LEMMA TypeSaving ==
  ASSUME StoreInv, NEW p \in Process, SavingStep(p)
  PROVE  StoreTypeOK'
<1> USE DEF StoreInv, StoreTypeOK, Goto, Labels, SavingLabels
<1>0. job[p] \in Job
  OBVIOUS
<1>1. ASSUME NEW id \in Id, BeginSaving(p, id) PROVE StoreTypeOK'
  <2>1. ClusterOf[id] \in Cluster
    BY StoreAssumption
  <2>2. lock' \in [Cluster -> Process \cup {NoProcess}]
    BY <1>1 DEF BeginSaving, AcquireClusterLock
  <2>3. job' = [job EXCEPT ![p] = [[job[p] EXCEPT !.id = id] EXCEPT !.cluster = ClusterOf[id]]]
    BY <1>1 DEF BeginSaving
  <2>4. job' \in [Process -> Job]
    BY <1>0, <2>1, <2>3, JobUpdates, UnreadableAssumption DEF Names, File
  <2>5. \A q \in Process : pc'[q] \in SavingLabels \ {"load"} => job'[q] = job[q] /\ pc'[q] = pc[q]
    BY <1>1 DEF BeginSaving
  <2> QED BY <1>1, <2>2, <2>4, <2>5 DEF BeginSaving
<1>2. CASE LoadLocked(p)
  <2>1. job[p].id \in Id
    BY <1>2 DEF LoadLocked, ProcessInv, Locked
  <2>2. file[job[p].id] \in Record
    BY <1>2, <2>1 DEF LoadLocked, File
  <2>3. job' = [job EXCEPT ![p] = [job[p] EXCEPT !.record = file[job[p].id]]]
    BY <1>2 DEF LoadLocked
  <2>4. [job[p] EXCEPT !.record = file[job[p].id]].record = file[job[p].id]
    BY <1>0 DEF Job
  <2>5. [job[p] EXCEPT !.record = file[job[p].id]] \in Job
    BY <1>0, <2>2 DEF Job, File
  <2> QED BY <1>2, <2>2, <2>3, <2>4, <2>5 DEF LoadLocked
<1>3. ASSUME NEW at \in 0..MaxTime, Stamp(p, at) PROVE StoreTypeOK'
  <2>1. PICK completed \in BOOLEAN :
          job' = [job EXCEPT ![p] = [job[p] EXCEPT !.record = [at |-> at, completed |-> completed]]]
    BY <1>3 DEF Stamp
  <2>2. [at |-> at, completed |-> completed] \in Record
    BY DEF Record
  <2>3. [job[p] EXCEPT !.record = [at |-> at, completed |-> completed]].record
          = [at |-> at, completed |-> completed]
    BY <1>0 DEF Job
  <2>4. [job[p] EXCEPT !.record = [at |-> at, completed |-> completed]] \in Job
    BY <1>0, <2>2 DEF Job, File
  <2> QED BY <1>3, <2>1, <2>2, <2>3, <2>4 DEF Stamp
<1>4. CASE WriteTemporary(p)
  BY <1>4 DEF WriteTemporary, SaveStep
<1>5. CASE SyncTemporary(p)
  BY <1>5 DEF SyncTemporary, SaveStep
<1>6. CASE RenameTemporary(p)
  <2>1. job[p].record \in Record /\ job[p].record \in File
    BY <1>6 DEF RenameTemporary, File
  <2>2. file' \in [Id -> File]
    BY <1>6, <2>1 DEF RenameTemporary
  <2>3. survivors' \in [Id -> SUBSET File]
    BY <1>6, <2>1 DEF RenameTemporary, File
  <2> QED BY <1>6, <2>2, <2>3 DEF RenameTemporary
<1>7. CASE SyncDirectory(p)
  <2>1. job[p].record \in File
    BY <1>7 DEF SyncDirectory, File
  <2>2. survivors' \in [Id -> SUBSET File]
    BY <1>7, SettledTyped DEF SyncDirectory
  <2> QED BY <1>7, <2>1, <2>2 DEF SyncDirectory, Saved
<1>8. CASE SaveFails(p)
  BY <1>8 DEF SaveFails
<1>9. CASE EndSaving(p)
  BY <1>9, NoJobTyped, NoScanTyped DEF EndSaving, Leave, Exit
<1> QED BY <1>1, <1>2, <1>3, <1>4, <1>5, <1>6, <1>7, <1>8, <1>9 DEF SavingStep

(* The entry that a scan loads next is one of those not loaded yet.        *)
LEMMA SmallestExists ==
  ASSUME NEW S \in SUBSET Nat, S # {}
  PROVE  \E x \in S : \A y \in S : x <= y
<1>1. PICK x \in S : \A y \in S : <<y, x>> \notin OpToRel(<, Nat)
  BY NatLessThanWellFounded, WFMin
<1>2. \A y \in S : ~(y < x)
  BY <1>1 DEF OpToRel
<1> QED BY <1>2

LEMMA EntryListed ==
  ASSUME NEW p, job[p] \in Job, job[p].entries # {}
  PROVE  Entry(p) \in job[p].entries /\ Entry(p) \in Id
<1>1. job[p].entries \in SUBSET Nat /\ job[p].entries \subseteq Id
  BY StoreAssumption DEF Job
<1>2. \E x \in job[p].entries : \A y \in job[p].entries : x <= y
  BY <1>1, SmallestExists
<1> QED BY <1>1, <1>2 DEF Entry

LEMMA TypeScanning ==
  ASSUME StoreInv, NEW p \in Process, ScanningStep(p)
  PROVE  StoreTypeOK'
<1> USE DEF StoreInv, StoreTypeOK, Goto, Labels, SavingLabels
<1>0. job[p] \in Job /\ Remaining(p) \in SUBSET Id
  BY DEF Job, Remaining
<1>1. ASSUME NEW c \in Cluster, BeginGuard(p, c) PROVE StoreTypeOK'
  <2>1. lock' \in [Cluster -> Process \cup {NoProcess}]
    BY <1>1 DEF BeginGuard, AcquireClusterLock
  <2>2. job' = [job EXCEPT ![p] = [[job[p] EXCEPT !.cluster = c] EXCEPT !.entries = Id]]
    BY <1>1 DEF BeginGuard
  <2>3. job' \in [Process -> Job]
    BY <1>0, <2>2 DEF Job
  <2> QED BY <1>1, <2>1, <2>2, <2>3 DEF BeginGuard
<1>2. CASE pc[p] \in {"guard", "show"} /\ Passed(p) /\ UNCHANGED <<file, survivors, lock, temporary, pc, clock, reported, began>>
  <2>1. job' \in [Process -> Job]
    BY <1>0, <1>2 DEF Passed, Job
  <2>2. \A q \in Process \ {p} : job'[q] = job[q]
    BY <1>2 DEF Passed
  <2> QED BY <1>2, <2>1, <2>2
<1>3. CASE NoneActive(p)
  BY <1>3 DEF NoneActive
<1>4. CASE EndGuard(p)
  BY <1>4, NoJobTyped, NoScanTyped DEF EndGuard, Leave, Exit
<1>5. CASE BeginShow(p)
  <2>1. job' \in [Process -> Job]
    BY <1>0, <1>5 DEF BeginShow, Job
  <2> QED BY <1>5, <2>1 DEF BeginShow
<1>6. CASE ScanForLatest(p) /\ Found(p, Entry(p))
  <2>1. Entry(p) \in Id
    BY <1>0, <1>6, EntryListed DEF ScanForLatest, Loadable
  <2>2. job' \in [Process -> Job]
    BY <1>0, <1>6, <2>1 DEF Found, Job, Names
  <2> QED BY <1>6, <2>2 DEF ScanForLatest, Found
<1>7. CASE LatestFound(p)
  BY <1>7 DEF LatestFound
<1>8. CASE EndShow(p)
  BY <1>8, NoJobTyped, NoScanTyped DEF EndShow, Leave, Exit
<1> QED BY <1>1, <1>2, <1>3, <1>4, <1>5, <1>6, <1>7, <1>8
        DEF ScanningStep, ScanForCluster, ScanForLatest, Passed

-----------------------------------------------------------------------------
(* Steps that change no file: what holds of the files and of the other     *)
(* processes is left alone.                                                *)

Quiet(p) ==
  /\ UNCHANGED <<file, survivors, reported>>
  /\ \A q \in Process \ {p} :
       /\ pc'[q] = pc[q] /\ job'[q] = job[q]
       /\ temporary'[q] = temporary[q] /\ began'[q] = began[q]
       /\ \A c \in Cluster : lock[c] = q => lock'[c] = q

LEMMA QuietStep ==
  ASSUME StoreInv, NEW p \in Process, Quiet(p)
  PROVE  /\ FilesSurvive' /\ AcknowledgedSurvives'
         /\ \A q \in Process \ {p} : ProcessInv(q)'
<1>1. FilesSurvive' /\ AcknowledgedSurvives'
  BY DEF StoreInv, Quiet, FilesSurvive, AcknowledgedSurvives
<1>2. ASSUME NEW q \in Process \ {p} PROVE ProcessInv(q)'
  <2>1. /\ ProcessInv(q) /\ job[q].cluster \in Cluster
    BY DEF StoreInv, StoreTypeOK, Job
  <2>2. Locked(q)'
    BY <2>1 DEF Quiet, ProcessInv, Locked
  <2>3. Ahead(q)'
    BY <2>1 DEF Quiet, ProcessInv, Ahead
  <2>4. Guarded(q)'
    BY <2>1 DEF Quiet, ProcessInv, Guarded
  <2>5. Shown(q)'
    BY <2>1 DEF Quiet, ProcessInv, Shown, NoLater
  <2>6. Idle(q)'
    BY <2>1 DEF Quiet, ProcessInv, Idle
  <2> QED BY <2>2, <2>3, <2>4, <2>5, <2>6 DEF ProcessInv
<1> QED BY <1>1, <1>2

(* A process that has left has nothing to keep.                            *)

LEMMA LeaveIsQuiet ==
  ASSUME StoreInv, NEW p \in Process, Leave(p)
  PROVE  Quiet(p) /\ ProcessInv(p)'
<1>1. Quiet(p)
  BY DEF StoreInv, StoreTypeOK, Leave, Exit, Goto, Quiet
<1>2. pc'[p] = "idle" /\ job'[p].id = Nothing
  BY DEF StoreInv, StoreTypeOK, Leave, Exit, Goto, NoJob
<1> QED BY <1>1, <1>2
        DEF ProcessInv, Idle, Locked, Ahead, Guarded, Shown, Saving, SavingLabels

LEMMA SavingQuietly ==
  ASSUME StoreInv, NEW p \in Process,
         SavingStep(p), ~RenameTemporary(p), ~SyncDirectory(p)
  PROVE  Quiet(p) /\ ProcessInv(p)'
<1> USE DEF Saving, SavingLabels, Writing
<1>0. /\ job[p] \in Job /\ ProcessInv(p)
      /\ file \in [Id -> File] /\ pc \in [Process -> Labels]
      /\ job \in [Process -> Job] /\ temporary \in [Process -> {"none", "written", "synced"}]
      /\ reported \in [Id -> File]
  BY DEF StoreInv, StoreTypeOK
<1>1. ASSUME NEW id \in Id, BeginSaving(p, id) PROVE Quiet(p) /\ ProcessInv(p)'
  <2>1. Quiet(p)
    BY <1>0, <1>1, StoreAssumption
       DEF BeginSaving, AcquireClusterLock, Goto, Quiet, StoreInv, StoreTypeOK
  <2>2. job'[p].id = id /\ job'[p].cluster = ClusterOf[id]
    BY <1>0, <1>1 DEF BeginSaving, Job
  <2>3. pc'[p] = "load" /\ lock'[ClusterOf[id]] = p
    BY <1>0, <1>1, StoreAssumption
       DEF BeginSaving, AcquireClusterLock, Goto, StoreInv, StoreTypeOK
  <2> QED BY <2>1, <2>2, <2>3 DEF ProcessInv, Idle, Locked, Ahead, Guarded, Shown
<1>2. CASE LoadLocked(p)
  <2>1. Quiet(p)
    BY <1>0, <1>2 DEF LoadLocked, Goto, Quiet
  <2>2. /\ pc[p] = "load" /\ pc'[p] = "holding"
        /\ file[job[p].id] # Unreadable /\ ~file[job[p].id].completed
        /\ UNCHANGED <<file, lock, reported>>
    BY <1>0, <1>2 DEF LoadLocked, Goto
  <2>3. job'[p].id = job[p].id /\ job'[p].cluster = job[p].cluster
        /\ job'[p].record = file[job[p].id]
    BY <1>0, <1>2 DEF LoadLocked, Job
  <2>4. job[p].id \in Id /\ file[job[p].id] \in Record
    BY <1>0, <2>2 DEF ProcessInv, Locked, File
  <2>5. reported[job[p].id] \in Record => file[job[p].id].at >= reported[job[p].id].at
    <3> SUFFICES ASSUME reported[job[p].id] \in Record
                 PROVE  file[job[p].id].at >= reported[job[p].id].at
      OBVIOUS
    <3>1. file[job[p].id] = reported[job[p].id] \/ file[job[p].id].at > reported[job[p].id].at
      BY <2>4 DEF StoreInv, FilesSurvive, AcknowledgedSurvives
    <3> QED BY <2>4, <3>1, StoreAssumption DEF Record
  <2>6. file[job[p].id].at >= file[job[p].id].at
    BY <2>4, StoreAssumption DEF Record
  <2> QED BY <1>0, <2>1, <2>2, <2>3, <2>4, <2>5, <2>6
          DEF ProcessInv, Idle, Locked, Ahead, Guarded, Shown
<1>3. ASSUME NEW at \in 0..MaxTime, Stamp(p, at) PROVE Quiet(p) /\ ProcessInv(p)'
  <2>1. Quiet(p)
    BY <1>0, <1>3 DEF Stamp, Goto, Quiet
  <2>2. /\ pc[p] = "holding" /\ pc'[p] = "write" /\ at > job[p].record.at
        /\ UNCHANGED <<file, lock, reported>>
    BY <1>0, <1>3 DEF Stamp, Goto
  <2>3. PICK completed \in BOOLEAN :
          /\ job[p].record.completed => completed
          /\ job' = [job EXCEPT ![p].record = [at |-> at, completed |-> completed]]
    BY <1>3 DEF Stamp
  <2>4. /\ job'[p].id = job[p].id /\ job'[p].cluster = job[p].cluster
        /\ job'[p].record.at = at /\ job'[p].record.completed = completed
    BY <1>0, <2>3 DEF Job
  <2>5. job[p].id \in Id /\ job[p].record \in Record
    BY <1>0, <2>2 DEF ProcessInv, Locked, StoreInv, StoreTypeOK
  <2>6. /\ file[job[p].id] \in Record
        /\ job[p].record.at >= file[job[p].id].at
        /\ file[job[p].id].completed => job[p].record.completed
        /\ reported[job[p].id] \in Record => job[p].record.at >= reported[job[p].id].at
    BY <1>0, <2>2 DEF ProcessInv, Ahead
  <2>7. /\ at >= file[job[p].id].at
        /\ reported[job[p].id] \in Record => at > reported[job[p].id].at
    BY <2>2, <2>5, <2>6, StoreAssumption DEF Record
  <2>8. reported[job[p].id] \in Record => at >= reported[job[p].id].at
    BY <2>7, StoreAssumption DEF Record
  <2>9. Ahead(p)'
    BY <2>2, <2>3, <2>4, <2>6, <2>7, <2>8 DEF Ahead
  <2> QED BY <1>0, <2>1, <2>2, <2>4, <2>9 DEF ProcessInv, Idle, Locked, Guarded, Shown
<1>4. CASE WriteTemporary(p)
  <2>1. Quiet(p)
    BY <1>0, <1>4 DEF WriteTemporary, SaveStep, Goto, Quiet
  <2>2. pc[p] = "write" /\ pc'[p] = "sync" /\ UNCHANGED <<file, lock, job, reported>>
    BY <1>0, <1>4 DEF WriteTemporary, SaveStep, Goto
  <2> QED BY <1>0, <2>1, <2>2 DEF ProcessInv, Idle, Locked, Ahead, Guarded, Shown
<1>5. CASE SyncTemporary(p)
  <2>1. Quiet(p)
    BY <1>0, <1>5 DEF SyncTemporary, SaveStep, Goto, Quiet
  <2>2. /\ pc[p] = "sync" /\ pc'[p] = "rename" /\ temporary'[p] = "synced"
        /\ UNCHANGED <<file, lock, job, reported>>
    BY <1>0, <1>5 DEF SyncTemporary, SaveStep, Goto
  <2> QED BY <1>0, <2>1, <2>2 DEF ProcessInv, Idle, Locked, Ahead, Guarded, Shown
<1>6. CASE SaveFails(p)
  <2>1. Quiet(p)
    BY <1>0, <1>6 DEF SaveFails, Goto, Quiet
  <2>2. /\ pc[p] \in Writing /\ pc'[p] = "holding"
        /\ UNCHANGED <<file, lock, job, reported>>
    BY <1>0, <1>6 DEF SaveFails, Goto
  <2> QED BY <1>0, <2>1, <2>2 DEF ProcessInv, Idle, Locked, Ahead, Guarded, Shown
<1>7. CASE EndSaving(p)
  BY <1>7, LeaveIsQuiet DEF EndSaving
<1> QED BY <1>1, <1>2, <1>3, <1>4, <1>5, <1>6, <1>7 DEF SavingStep

LEMMA GuardQuietly ==
  ASSUME StoreInv, NEW p \in Process,
         \/ \E c \in Cluster : BeginGuard(p, c)
         \/ ScanForCluster(p) \/ NoneActive(p) \/ EndGuard(p)
  PROVE  Quiet(p) /\ ProcessInv(p)'
<1> USE DEF Saving, SavingLabels
<1>0. /\ job[p] \in Job /\ ProcessInv(p)
      /\ pc \in [Process -> Labels] /\ job \in [Process -> Job]
  BY DEF StoreInv, StoreTypeOK
<1>1. ASSUME NEW c \in Cluster, BeginGuard(p, c) PROVE Quiet(p) /\ ProcessInv(p)'
  <2>1. Quiet(p)
    BY <1>0, <1>1, StoreAssumption
       DEF BeginGuard, AcquireClusterLock, Goto, Quiet, StoreInv, StoreTypeOK
  <2>2. job'[p].cluster = c /\ job'[p].entries = Id
    BY <1>0, <1>1 DEF BeginGuard, Job
  <2>3. pc'[p] = "guard" /\ lock'[c] = p
    BY <1>0, <1>1 DEF BeginGuard, AcquireClusterLock, Goto, StoreInv, StoreTypeOK
  <2> QED BY <2>1, <2>2, <2>3 DEF ProcessInv, Idle, Locked, Ahead, Guarded, Shown
<1>2. CASE ScanForCluster(p)
  <2>1. Quiet(p)
    BY <1>0, <1>2 DEF ScanForCluster, Quiet
  <2>2. job'[p].cluster = job[p].cluster /\ job'[p].entries = job[p].entries \ {Entry(p)}
    BY <1>0, <1>2 DEF ScanForCluster, Remaining, Job
  <2>3. /\ pc[p] = "guard" /\ pc'[p] = "guard" /\ UNCHANGED <<file, lock>>
        /\ file[Entry(p)] # Unreadable /\ ~ActiveFor(job[p].cluster, Entry(p))
    BY <1>2 DEF ScanForCluster, Loadable
  <2>4. Guarded(p)'
    BY <1>0, <2>2, <2>3 DEF ProcessInv, Guarded, ActiveFor
  <2> QED BY <1>0, <2>1, <2>2, <2>3, <2>4 DEF ProcessInv, Idle, Locked, Ahead, Shown
<1>3. CASE NoneActive(p)
  <2>1. Quiet(p)
    BY <1>0, <1>3 DEF NoneActive, Goto, Quiet
  <2>2. /\ pc[p] = "guard" /\ job[p].entries = {} /\ pc'[p] = "clear"
        /\ UNCHANGED <<file, lock, job>>
    BY <1>0, <1>3 DEF NoneActive, Goto
  <2> QED BY <1>0, <2>1, <2>2 DEF ProcessInv, Idle, Locked, Ahead, Guarded, Shown
<1>4. CASE EndGuard(p)
  BY <1>4, LeaveIsQuiet DEF EndGuard
<1> QED BY <1>1, <1>2, <1>3, <1>4

LEMMA RecordTime == \A r \in Record : r.at \in Nat
  BY StoreAssumption DEF Record

(* One file scanned by LatestActive. *)
LEMMA LatestStays ==
  ASSUME StoreInv, NEW p \in Process, ScanForLatest(p)
  PROVE  Shown(p)'
<1>0. /\ job[p] \in Job /\ Shown(p) /\ job \in [Process -> Job]
      /\ file \in [Id -> File] /\ began[p] \in [Id -> File]
  BY DEF StoreInv, StoreTypeOK, ProcessInv
<1>1. PICK e \in Id : e = Entry(p)
  BY <1>0, EntryListed DEF ScanForLatest, Loadable
<1>2. /\ pc[p] = "show" /\ file[e] \in Record
      /\ UNCHANGED <<file, pc, began>>
  BY <1>0, <1>1 DEF ScanForLatest, Loadable, File
<1>3. /\ \A id \in Id : Grown(began[p][id], file[id])
      /\ job[p].id # Nothing => job[p].record \in Record
      /\ \A id \in Id \ job[p].entries :
           file[id] \in Record /\ (~file[id].completed => NoLater(began[p][id].at, id, p))
  BY <1>0, <1>2 DEF Shown
<1>4. ASSUME NEW id \in Id, file[id] \in Record
      PROVE  /\ file[id].at >= began[p][id].at
             /\ file[id].at \in Nat /\ began[p][id].at \in Nat /\ id \in Nat
  <2>1. began[p][id] \in Record /\ file[id].at >= began[p][id].at
    BY <1>3, <1>4, UnreadableAssumption DEF Grown
  <2> QED BY <1>4, <2>1, RecordTime, StoreAssumption
<1>5. ASSUME job[p].id # Nothing
      PROVE  job[p].id \in Nat /\ job[p].record.at \in Nat
  <2>1. job[p].id \in Id
    BY <1>0, <1>5 DEF Job, Names
  <2>2. job[p].record \in Record
    BY <1>3, <1>5
  <2>3. job[p].record.at \in Nat
    BY <2>2, RecordTime
  <2> QED BY <2>1, <2>3, StoreAssumption
<1>6. job'[p].entries = job[p].entries \ {e}
  BY <1>0, <1>1 DEF ScanForLatest, Found, Passed, Remaining, Job
<1>7. CASE ~file[e].completed /\ Later(e, file[e], p)
  <2>1. job'[p].id = e /\ job'[p].record = file[e]
    BY <1>0, <1>1, <1>7 DEF ScanForLatest, Found, Job
  <2>2. e # Nothing
    BY UnreadableAssumption
  <2>3. \/ began[p][e].at < file[e].at
        \/ began[p][e].at = file[e].at /\ e <= e
    BY <1>2, <1>4
  <2>4. ASSUME NEW id \in Id \ job[p].entries, ~file[id].completed
        PROVE  \/ began[p][id].at < file[e].at
               \/ began[p][id].at = file[e].at /\ id <= e
    <3>1. /\ job[p].id # Nothing
          /\ \/ began[p][id].at < job[p].record.at
             \/ began[p][id].at = job[p].record.at /\ id <= job[p].id
      BY <1>3, <2>4 DEF NoLater
    <3>2. \/ file[e].at > job[p].record.at
          \/ file[e].at = job[p].record.at /\ e > job[p].id
      BY <1>7, <3>1 DEF Later
    <3>3. began[p][id].at \in Nat /\ id \in Nat /\ file[e].at \in Nat /\ e \in Nat
      BY <1>2, <1>3, <1>4
    <3> QED BY <1>5, <3>1, <3>2, <3>3
  <2>5. ASSUME NEW id \in Id \ job'[p].entries
        PROVE  file[id] \in Record /\ (~file[id].completed => NoLater(began[p][id].at, id, p)')
    <3>1. CASE id = e
      BY <1>2, <2>1, <2>2, <2>3, <3>1 DEF NoLater
    <3>2. CASE id # e
      BY <1>2, <1>3, <1>6, <2>1, <2>2, <2>4, <3>2 DEF NoLater
    <3> QED BY <3>1, <3>2
  <2> QED BY <1>2, <1>3, <2>1, <2>5 DEF Shown
<1>8. CASE file[e].completed \/ ~Later(e, file[e], p)
  <2>1. job'[p].id = job[p].id /\ job'[p].record = job[p].record
    BY <1>0, <1>1, <1>8 DEF ScanForLatest, Passed, Job
  <2>2. ASSUME ~file[e].completed
        PROVE  /\ job[p].id # Nothing
               /\ \/ began[p][e].at < job[p].record.at
                  \/ began[p][e].at = job[p].record.at /\ e <= job[p].id
    <3>1. /\ job[p].id # Nothing
          /\ ~(file[e].at > job[p].record.at)
          /\ ~(file[e].at = job[p].record.at /\ e > job[p].id)
      BY <1>8, <2>2 DEF Later
    <3>2. /\ file[e].at >= began[p][e].at
          /\ file[e].at \in Nat /\ began[p][e].at \in Nat /\ e \in Nat
      BY <1>2, <1>4
    <3> QED BY <1>5, <3>1, <3>2
  <2>3. ASSUME NEW id \in Id \ job'[p].entries
        PROVE  file[id] \in Record /\ (~file[id].completed => NoLater(began[p][id].at, id, p)')
    <3>1. CASE id = e
      BY <1>2, <2>1, <2>2, <3>1 DEF NoLater
    <3>2. CASE id # e
      BY <1>2, <1>3, <1>6, <2>1, <3>2 DEF NoLater
    <3> QED BY <3>1, <3>2
  <2> QED BY <1>2, <1>3, <1>6, <2>1, <2>3 DEF Shown
<1> QED BY <1>7, <1>8

LEMMA ShowQuietly ==
  ASSUME StoreInv, NEW p \in Process,
         BeginShow(p) \/ ScanForLatest(p) \/ LatestFound(p) \/ EndShow(p)
  PROVE  Quiet(p) /\ ProcessInv(p)'
<1> USE DEF Saving, SavingLabels
<1>0. /\ job[p] \in Job /\ ProcessInv(p) /\ file \in [Id -> File]
      /\ pc \in [Process -> Labels] /\ job \in [Process -> Job]
      /\ began \in [Process -> [Id -> File]]
  BY DEF StoreInv, StoreTypeOK
<1>1. CASE BeginShow(p)
  <2>1. Quiet(p)
    BY <1>0, <1>1 DEF BeginShow, Goto, Quiet
  <2>2. job'[p].id = job[p].id /\ job'[p].entries = Id
    BY <1>0, <1>1 DEF BeginShow, Job
  <2>3. /\ pc[p] = "idle" /\ pc'[p] = "show" /\ began'[p] = file /\ file' = file
    BY <1>0, <1>1 DEF BeginShow, Goto
  <2>4. \A id \in Id : Grown(file[id], file[id])
    BY <1>0, StoreAssumption DEF Grown, File, Record
  <2>5. job[p].id = Nothing
    BY <1>0, <2>3 DEF ProcessInv, Idle
  <2> QED BY <2>1, <2>2, <2>3, <2>4, <2>5 DEF ProcessInv, Idle, Locked, Ahead, Guarded, Shown
<1>2. CASE ScanForLatest(p)
  <2>1. Quiet(p)
    BY <1>0, <1>2 DEF ScanForLatest, Found, Passed, Quiet
  <2>2. pc'[p] = "show"
    BY <1>2 DEF ScanForLatest
  <2> QED BY <1>2, <2>1, <2>2, LatestStays DEF ProcessInv, Idle, Locked, Ahead, Guarded
<1>3. CASE LatestFound(p)
  <2>1. Quiet(p)
    BY <1>0, <1>3 DEF LatestFound, Goto, Quiet
  <2>2. /\ pc[p] = "show" /\ pc'[p] = "answer" /\ job[p].entries = {}
        /\ UNCHANGED <<file, job, began>>
    BY <1>0, <1>3 DEF LatestFound, Goto
  <2> QED BY <1>0, <2>1, <2>2
          DEF ProcessInv, Idle, Locked, Ahead, Guarded, Shown, NoLater
<1>4. CASE EndShow(p)
  BY <1>4, LeaveIsQuiet DEF EndShow
<1> QED BY <1>1, <1>2, <1>3, <1>4

-----------------------------------------------------------------------------
(* Steps that change what is on disk. *)

(* Two processes that save or guard are at different clusters. *)
LEMMA OneHolder ==
  ASSUME NEW p, NEW q, p # q, Locked(p), Locked(q),
         pc[p] \in SavingLabels, pc[q] \in SavingLabels \cup {"guard", "clear"}
  PROVE  /\ job[q].cluster # ClusterOf[job[p].id]
         /\ pc[q] \in SavingLabels => job[q].id # job[p].id
  BY DEF Locked

LEMMA RenameKeeps ==
  ASSUME StoreInv, NEW p \in Process, RenameTemporary(p)
  PROVE  /\ FilesSurvive' /\ AcknowledgedSurvives'
         /\ \A q \in Process : ProcessInv(q)'
<1> USE DEF Saving, SavingLabels, Writing
<1> DEFINE i == job[p].id
           r == job[p].record
<1>0. /\ file \in [Id -> File] /\ survivors \in [Id -> SUBSET File]
      /\ pc \in [Process -> Labels]
      /\ \A q \in Process : ProcessInv(q)
  BY DEF StoreInv, StoreTypeOK
<1>1. /\ pc[p] = "rename" /\ pc'[p] = "dirsync"
      /\ \A q \in Process \ {p} : pc'[q] = pc[q]
      /\ UNCHANGED <<lock, job, reported, began>>
  BY <1>0 DEF RenameTemporary, Goto
<1>2. i \in Id /\ r \in Record /\ r # Unreadable
  BY <1>0, <1>1, UnreadableAssumption DEF ProcessInv, Locked, StoreInv, StoreTypeOK
<1>3. /\ temporary[p] = "synced" /\ file[i] \in Record /\ r.at >= file[i].at
      /\ file[i].completed => r.completed
      /\ reported[i] \in Record => r.at > reported[i].at
      /\ reported[i] \in Record => r.at >= reported[i].at
  BY <1>0, <1>1 DEF ProcessInv, Ahead
<1>4. /\ file'[i] = r /\ survivors'[i] = survivors[i] \cup {r}
      /\ \A id \in Id \ {i} : file'[id] = file[id] /\ survivors'[id] = survivors[id]
  BY <1>0, <1>2, <1>3 DEF RenameTemporary
<1>5. FilesSurvive'
  BY <1>2, <1>4 DEF StoreInv, FilesSurvive
<1>6. AcknowledgedSurvives'
  BY <1>1, <1>2, <1>3, <1>4 DEF StoreInv, AcknowledgedSurvives
<1>7. ProcessInv(p)'
  <2>1. Locked(p)'
    BY <1>0, <1>1 DEF ProcessInv, Locked
  <2>2. r.at >= r.at
    BY <1>2, RecordTime
  <2>3. Ahead(p)'
    BY <1>1, <1>2, <1>3, <1>4, <2>2 DEF Ahead
  <2> QED BY <1>1, <2>1, <2>3 DEF ProcessInv, Idle, Guarded, Shown
<1>8. ASSUME NEW q \in Process \ {p} PROVE ProcessInv(q)'
  <2>1. ProcessInv(q) /\ pc'[q] = pc[q] /\ temporary'[q] = temporary[q]
    BY <1>0, <1>1 DEF RenameTemporary, StoreInv, StoreTypeOK
  <2>2. Idle(q)' /\ Locked(q)'
    BY <1>1, <2>1 DEF ProcessInv, Idle, Locked
  <2>3. Ahead(q)'
    <3>1. CASE pc[q] \in Saving
      <4>1. job[q].id \in Id \ {i}
        BY <1>0, <1>1, <2>1, <3>1, OneHolder DEF ProcessInv, Locked
      <4>2. file'[job[q].id] = file[job[q].id]
        BY <1>4, <4>1
      <4> QED BY <1>1, <2>1, <4>2 DEF ProcessInv, Ahead
    <3>2. CASE pc[q] \notin Saving
      BY <2>1, <3>2 DEF Ahead
    <3> QED BY <3>1, <3>2
  <2>4. Guarded(q)'
    <3>1. CASE pc[q] \in {"guard", "clear"}
      <4>1. job[q].cluster # ClusterOf[i]
        BY <1>0, <1>1, <2>1, <3>1, OneHolder DEF ProcessInv
      <4> QED BY <1>1, <1>2, <1>4, <2>1, <4>1 DEF ProcessInv, Guarded
    <3>2. CASE pc[q] \notin {"guard", "clear"}
      BY <2>1, <3>2 DEF Guarded
    <3> QED BY <3>1, <3>2
  <2>5. Shown(q)'
    <3>1. CASE pc[q] \in {"show", "answer"}
      <4>1. \A id \in Id : Grown(began[q][id], file[id])
        BY <2>1, <3>1 DEF ProcessInv, Shown
      <4>2. Grown(began[q][i], r)
        <5>1. /\ began[q][i] \in Record /\ file[i].at >= began[q][i].at
              /\ began[q][i].completed => file[i].completed
          BY <1>2, <1>3, <4>1, UnreadableAssumption DEF Grown
        <5>2. r.at >= began[q][i].at
          BY <1>2, <1>3, <5>1, RecordTime
        <5> QED BY <1>2, <1>3, <5>1, <5>2 DEF Grown
      <4>3. \A id \in Id : Grown(began[q][id], file'[id])
        BY <1>4, <4>1, <4>2
      <4>4. \A id \in Id \ job[q].entries :
              file'[id] \in Record /\ (~file'[id].completed => ~file[id].completed)
        BY <1>2, <1>3, <1>4, <2>1, <3>1 DEF ProcessInv, Shown
      <4>5. Grown(began[q][i], r) => \A id \in Id : Grown(began[q][id], file[id])'
        BY <1>1, <4>3 DEF Grown
      <4> QED BY <1>1, <2>1, <3>1, <4>2, <4>4, <4>5 DEF ProcessInv, Shown, NoLater
    <3>2. CASE pc[q] \notin {"show", "answer"}
      BY <2>1, <3>2 DEF Shown
    <3> QED BY <3>1, <3>2
  <2> QED BY <2>2, <2>3, <2>4, <2>5 DEF ProcessInv
<1> QED BY <1>5, <1>6, <1>7, <1>8

LEMMA SyncKeeps ==
  ASSUME StoreInv, NEW p \in Process, SyncDirectory(p)
  PROVE  /\ FilesSurvive' /\ AcknowledgedSurvives'
         /\ \A q \in Process : ProcessInv(q)'
<1> USE DEF Saving, SavingLabels, Writing
<1> DEFINE i == job[p].id
           r == job[p].record
<1>0. /\ file \in [Id -> File] /\ reported \in [Id -> File] /\ pc \in [Process -> Labels]
      /\ \A q \in Process : ProcessInv(q)
  BY DEF StoreInv, StoreTypeOK
<1>1. /\ pc[p] = "dirsync" /\ pc'[p] = "holding"
      /\ \A q \in Process \ {p} : pc'[q] = pc[q]
      /\ UNCHANGED <<file, lock, temporary, job, began>>
  BY <1>0 DEF SyncDirectory, Saved, Goto
<1>2. i \in Id /\ r \in Record /\ file[i] = r
  BY <1>0, <1>1 DEF ProcessInv, Locked, Ahead, StoreInv, StoreTypeOK
<1>3. /\ reported'[i] = r /\ \A id \in Id \ {i} : reported'[id] = reported[id]
      /\ \A id \in Id : survivors'[id] = {file[id]}
  BY <1>0, <1>2 DEF SyncDirectory, Saved, Settled
<1>4. FilesSurvive'
  BY <1>1, <1>3 DEF FilesSurvive
<1>5. AcknowledgedSurvives'
  <2>1. ASSUME NEW id \in Id, reported'[id] \in Record
        PROVE  /\ file[id] \in Record
               /\ file[id] = reported'[id] \/ file[id].at > reported'[id].at
    BY <1>2, <1>3, <2>1 DEF StoreInv, FilesSurvive, AcknowledgedSurvives
  <2> QED BY <1>3, <2>1 DEF AcknowledgedSurvives
<1>6. ProcessInv(p)'
  <2>1. r.at >= r.at
    BY <1>2, RecordTime
  <2>2. Locked(p)'
    BY <1>0, <1>1 DEF ProcessInv, Locked
  <2>3. Ahead(p)'
    BY <1>1, <1>2, <1>3, <2>1 DEF Ahead
  <2> QED BY <1>1, <2>2, <2>3 DEF ProcessInv, Idle, Guarded, Shown
<1>7. ASSUME NEW q \in Process \ {p} PROVE ProcessInv(q)'
  <2>1. ProcessInv(q) /\ pc'[q] = pc[q]
    BY <1>0, <1>1
  <2>2. Ahead(q)'
    <3>1. CASE pc[q] \in Saving
      <4>1. job[q].id \in Id \ {i}
        BY <1>0, <1>1, <2>1, <3>1, OneHolder DEF ProcessInv, Locked
      <4>2. reported'[job[q].id] = reported[job[q].id]
        BY <1>3, <4>1
      <4> QED BY <1>1, <2>1, <4>2 DEF ProcessInv, Ahead
    <3>2. CASE pc[q] \notin Saving
      BY <2>1, <3>2 DEF Ahead
    <3> QED BY <3>1, <3>2
  <2> QED BY <1>1, <2>1, <2>2 DEF ProcessInv, Idle, Locked, Guarded, Shown, NoLater
<1> QED BY <1>4, <1>5, <1>6, <1>7

LEMMA PowerLossKeeps ==
  ASSUME StoreInv, PowerLoss
  PROVE  StoreInv'
<1>1. /\ file' \in [Id -> File] /\ reported' = file'
      /\ \A id \in Id : survivors'[id] = {file'[id]}
  BY DEF PowerLoss, Settled
<1>2. StoreTypeOK'
  <2>1. survivors' \in [Id -> SUBSET File]
    BY <1>1, SettledTyped DEF PowerLoss
  <2>2. \A q \in Process : pc'[q] = "idle"
    BY DEF PowerLoss
  <2> QED BY <1>1, <2>1, <2>2, NoJobTyped, NoScanTyped
          DEF PowerLoss, StoreInv, StoreTypeOK, Labels, SavingLabels
<1>3. FilesSurvive' /\ AcknowledgedSurvives'
  BY <1>1 DEF FilesSurvive, AcknowledgedSurvives
<1>4. \A q \in Process : pc'[q] = "idle" /\ job'[q].id = Nothing
  BY DEF PowerLoss, NoJob
<1>5. \A q \in Process : ProcessInv(q)'
  BY <1>4 DEF ProcessInv, Idle, Locked, Ahead, Guarded, Shown, Saving, SavingLabels
<1> QED BY <1>2, <1>3, <1>5 DEF StoreInv

-----------------------------------------------------------------------------
LEMMA StoreInit == Init => StoreInv
<1> SUFFICES ASSUME Init PROVE StoreInv
  OBVIOUS
<1>1. \A q \in Process : pc[q] = "idle" /\ job[q].id = Nothing
  BY DEF Init, NoJob
<1>2. \A q \in Process : ProcessInv(q)
  BY <1>1 DEF ProcessInv, Idle, Locked, Ahead, Guarded, Shown, Saving, SavingLabels
<1>3. FilesSurvive /\ AcknowledgedSurvives
  BY DEF Init, Settled, FilesSurvive, AcknowledgedSurvives
<1> QED BY <1>2, <1>3, TypeInit DEF StoreInv

LEMMA QuietKeeps ==
  ASSUME StoreInv, NEW p \in Process, Quiet(p), ProcessInv(p)', StoreTypeOK'
  PROVE  StoreInv'
  BY QuietStep DEF StoreInv

LEMMA StoreStep == StoreInv /\ [Next]_storeVars => StoreInv'
<1> SUFFICES ASSUME StoreInv, [Next]_storeVars
             PROVE  StoreInv'
  OBVIOUS
<1>1. CASE PowerLoss
  BY <1>1, PowerLossKeeps
<1>2. ASSUME NEW p \in Process, SavingStep(p) PROVE StoreInv'
  <2>1. StoreTypeOK'
    BY <1>2, TypeSaving
  <2>2. CASE RenameTemporary(p)
    BY <2>1, <2>2, RenameKeeps DEF StoreInv
  <2>3. CASE SyncDirectory(p)
    BY <2>1, <2>3, SyncKeeps DEF StoreInv
  <2>4. CASE ~RenameTemporary(p) /\ ~SyncDirectory(p)
    BY <1>2, <2>1, <2>4, SavingQuietly, QuietKeeps
  <2> QED BY <2>2, <2>3, <2>4
<1>3. ASSUME NEW p \in Process, ScanningStep(p) PROVE StoreInv'
  <2>1. StoreTypeOK'
    BY <1>3, TypeScanning
  <2>2. Quiet(p) /\ ProcessInv(p)'
    BY <1>3, GuardQuietly, ShowQuietly DEF ScanningStep
  <2> QED BY <2>1, <2>2, QuietKeeps
<1>4. CASE UNCHANGED storeVars
  BY <1>4 DEF storeVars, StoreInv, StoreTypeOK, FilesSurvive, AcknowledgedSurvives,
              ProcessInv, Idle, Locked, Ahead, Guarded, Shown, NoLater
<1> QED BY <1>1, <1>2, <1>3, <1>4 DEF Next

(* The inductive invariant of the store.                                   *)
THEOREM StoreSafety == Spec => []StoreInv
  BY StoreInit, StoreStep, PTL DEF Spec

(* Every variable of the store keeps its type; what a process is about to  *)
(* save is always a record, never a file that Load refused.                *)
THEOREM StoreTypeCorrect == Spec => []StoreTypeOK
<1>1. StoreInv => StoreTypeOK
  BY DEF StoreInv
<1> QED BY <1>1, StoreSafety, PTL

(* No power loss takes back a record whose Save succeeded.                 *)
THEOREM AcknowledgedIsKept == Spec => []AcknowledgedSurvives
<1>1. StoreInv => AcknowledgedSurvives
  BY DEF StoreInv
<1> QED BY <1>1, StoreSafety, PTL

(* A guard that let its command pass is right for as long as the command   *)
(* holds the lock.                                                         *)
THEOREM GuardIsRight == Spec => []GuardAnswerHolds
<1>1. StoreInv => GuardAnswerHolds
  BY DEF StoreInv, GuardAnswerHolds, ProcessInv, Guarded
<1> QED BY <1>1, StoreSafety, PTL

(* The operation shown is no older than any was when the scan began.       *)
THEOREM ShowIsRecent == Spec => []ShowAnswerIsRecent
<1>1. StoreInv => ShowAnswerIsRecent
  BY DEF StoreInv, ShowAnswerIsRecent, ProcessInv, Shown, NoLater
<1> QED BY <1>1, StoreSafety, PTL

(* The operation files implement registers that are replaced whole.        *)
THEOREM FilesAreRegisters == Spec => RegisterImplemented
<1>1. Init => Register!RegisterInit
  <2>1. Init => file \in [Id -> File]
    BY TypeInit DEF StoreTypeOK
  <2> QED BY <2>1 DEF Init, Register!RegisterInit, Settled, Register!Settled
<1>2. StoreInv /\ [Next]_storeVars => [Register!RegisterNext]_Register!registerVars
  <2> SUFFICES ASSUME StoreInv, [Next]_storeVars
               PROVE  [Register!RegisterNext]_Register!registerVars
    OBVIOUS
  <2>1. CASE PowerLoss
    BY <2>1 DEF PowerLoss, Register!RegisterNext, Register!PowerFails, Settled, Register!Settled
  <2>2. ASSUME NEW p \in Process, RenameTemporary(p)
        PROVE  Register!RegisterNext
    <3>1. /\ pc[p] = "rename" /\ ProcessInv(p)
          /\ survivors \in [Id -> SUBSET File]
      BY <2>2 DEF RenameTemporary, StoreInv, StoreTypeOK
    <3>2. job[p].id \in Id /\ job[p].record \in File /\ temporary[p] = "synced"
      BY <3>1 DEF ProcessInv, Locked, Ahead, Saving, SavingLabels, File, StoreInv, StoreTypeOK
    <3>3. Register!Replace(job[p].id, job[p].record)
      BY <2>2, <3>2 DEF RenameTemporary, Register!Replace
    <3> QED BY <3>2, <3>3 DEF Register!RegisterNext
  <2>3. ASSUME NEW p \in Process, SyncDirectory(p)
        PROVE  Register!RegisterNext
    <3>1. pc[p] = "dirsync" /\ ProcessInv(p)
      BY <2>3 DEF SyncDirectory, StoreInv
    <3>2. job[p].id \in Id /\ file[job[p].id] = job[p].record
      BY <3>1 DEF ProcessInv, Locked, Ahead, Saving, SavingLabels
    <3>3. Register!Report(job[p].id)
      BY <2>3, <3>2 DEF SyncDirectory, Saved, Settled, Register!Report, Register!Settled
    <3> QED BY <3>2, <3>3 DEF Register!RegisterNext
  <2>4. ASSUME NEW p \in Process, SavingStep(p), ~RenameTemporary(p), ~SyncDirectory(p)
        PROVE  UNCHANGED Register!registerVars
    BY <2>4, SavingQuietly DEF Quiet, Register!registerVars
  <2>5. ASSUME NEW p \in Process, ScanningStep(p)
        PROVE  UNCHANGED Register!registerVars
    BY <2>5, GuardQuietly, ShowQuietly DEF ScanningStep, Quiet, Register!registerVars
  <2>6. CASE UNCHANGED storeVars
    BY <2>6 DEF storeVars, Register!registerVars
  <2> QED BY <2>1, <2>2, <2>3, <2>4, <2>5, <2>6 DEF Next
<1> QED BY <1>1, <1>2, StoreSafety, PTL
        DEF Spec, RegisterImplemented, Register!RegisterSpec
=============================================================================
