---------------------------- MODULE OperationStore ----------------------------
(***************************************************************************)
(* The operation store, system call by system call: how Save replaces an   *)
(* operation file, how ActiveForCluster and LatestActive scan the          *)
(* directory meanwhile, and what kills and power losses leave behind.      *)
(* Source: internal/operations/store.go, active.go and lock.go.            *)
(*                                                                         *)
(* Only the commands that resume an operation write here, one process per  *)
(* cluster (its lock), all in one directory.  They create no operation:    *)
(* the files are those an earlier release left.  Any of them may be one    *)
(* that Load refuses (another schema, another ID, not JSON).               *)
(*                                                                         *)
(* Of the file system: rename is atomic for readers; a file that was not   *)
(* synced may be torn by a power loss; a rename that no directory sync     *)
(* followed may be lost, each file on its own.  A name that is only        *)
(* replaced during a scan is listed by it.                                 *)
(***************************************************************************)
EXTENDS Naturals

CONSTANTS
  Process,
  Id,             \* the operations, numbered in the order of their IDs
  Cluster,
  ClusterOf,      \* the cluster each operation names
  NoProcess,
  Unreadable,     \* a file that Load refuses
  Nothing,        \* no record found
  MaxTime         \* bound on the timestamps of records

ASSUME StoreAssumption ==
  /\ Id \subseteq Nat
  /\ ClusterOf \in [Id -> Cluster]
  /\ Cluster # {} /\ NoProcess \notin Process
  /\ MaxTime \in Nat

VARIABLES
  file,         \* the file under each operation's name, as readers see it
  survivors,    \* the files a power loss may leave under that name
  lock,         \* who holds each cluster's lock file
  temporary,    \* each process's temporary file
  pc,
  job,          \* the locals of each process
  clock,        \* the latest time a record was stamped with
  reported,     \* observation: last file reported saved, or found at a start
  began         \* observation: the files when the process's scan began

storeVars == <<file, survivors, lock, temporary, pc, job, clock, reported, began>>

Record == [at : 0..MaxTime, completed : BOOLEAN]
File == Record \cup {Unreadable}
Names == Id \cup {Nothing}

ASSUME UnreadableAssumption == Unreadable \notin Record /\ Nothing \notin Id

SavingLabels == {"load", "holding", "write", "sync", "rename", "dirsync"}
Labels == SavingLabels \cup {"idle", "guard", "clear", "show", "answer"}

Job == [id      : Names,          \* the operation saved, or the latest found
        cluster : Cluster,        \* whose lock is held
        record  : File,           \* the record saved, or of the latest found
        entries : SUBSET Id]      \* entries of the scan not loaded yet

StoreTypeOK ==
  /\ file \in [Id -> File]
  /\ survivors \in [Id -> SUBSET File]
  /\ lock \in [Cluster -> Process \cup {NoProcess}]
  /\ temporary \in [Process -> {"none", "written", "synced"}]
  /\ pc \in [Process -> Labels]
  /\ job \in [Process -> Job]
  /\ clock \in 0..MaxTime
  /\ reported \in [Id -> File]
  /\ began \in [Process -> [Id -> File]]
  /\ \A p \in Process : pc[p] \in SavingLabels \ {"load"} => job[p].record \in Record

Settled(files) == [id \in Id |-> {files[id]}]

NoJob == [id |-> Nothing, cluster |-> CHOOSE c \in Cluster : TRUE,
          record |-> Unreadable, entries |-> {}]

NoScan == [id \in Id |-> Unreadable]

Init ==
  /\ file \in [Id -> [at : {0}, completed : BOOLEAN] \cup {Unreadable}]
  /\ survivors = Settled(file)
  /\ lock = [c \in Cluster |-> NoProcess]
  /\ temporary = [p \in Process |-> "none"]
  /\ pc = [p \in Process |-> "idle"]
  /\ job = [p \in Process |-> NoJob]
  /\ clock = 0
  /\ reported = file
  /\ began = [p \in Process |-> NoScan]

-----------------------------------------------------------------------------
Goto(p, label) == pc' = [pc EXCEPT ![p] = label]

AcquireClusterLock(p, c) == lock[c] = NoProcess /\ lock' = [lock EXCEPT ![c] = p]

(* Release, or the kernel's close; the deferred Remove of the temporary    *)
(* file.  A killed process leaves that file behind, under a name that no   *)
(* scan considers.  Nobody looks at the locals afterwards.                 *)
Exit(p) ==
  /\ lock' = [c \in Cluster |-> IF lock[c] = p THEN NoProcess ELSE lock[c]]
  /\ temporary' = [temporary EXCEPT ![p] = "none"]
  /\ Goto(p, "idle")
  /\ job' = [job EXCEPT ![p] = NoJob]
  /\ began' = [began EXCEPT ![p] = NoScan]

Leave(p) == Exit(p) /\ UNCHANGED <<file, survivors, clock, reported>>

-----------------------------------------------------------------------------
(* A command that resumes an operation: lock, load, then one Save after    *)
(* another.  A completed operation is refused.                             *)

BeginSaving(p, id) ==
  /\ pc[p] = "idle"
  /\ AcquireClusterLock(p, ClusterOf[id])
  /\ job' = [job EXCEPT ![p].id = id, ![p].cluster = ClusterOf[id]]
  /\ Goto(p, "load")
  /\ UNCHANGED <<file, survivors, temporary, clock, reported, began>>

(* A fault: what does not decode is taken for an empty record. *)
LoadUnchecked(p) ==
  /\ pc[p] = "load"
  /\ file[job[p].id] # Unreadable => ~file[job[p].id].completed
  /\ job' = [job EXCEPT ![p].record = file[job[p].id]]
  /\ Goto(p, "holding")
  /\ UNCHANGED <<file, survivors, lock, temporary, clock, reported, began>>

LoadLocked(p) ==
  /\ pc[p] = "load"
  /\ file[job[p].id] # Unreadable /\ ~file[job[p].id].completed
  /\ job' = [job EXCEPT ![p].record = file[job[p].id]]
  /\ Goto(p, "holding")
  /\ UNCHANGED <<file, survivors, lock, temporary, clock, reported, began>>

(* transition and the recording of an error stamp the record; the clock    *)
(* does not step back.                                                     *)
Stamp(p, at) ==
  /\ pc[p] = "holding"
  /\ at \in {clock, clock + 1} /\ at > job[p].record.at
  /\ at <= MaxTime
  /\ clock' = at
  /\ \E completed \in BOOLEAN :
       /\ job[p].record.completed => completed
       /\ job' = [job EXCEPT ![p].record = [at |-> at, completed |-> completed]]
  /\ Goto(p, "write")
  /\ UNCHANGED <<file, survivors, lock, temporary, reported, began>>

(* CreateTemp, Chmod and Write; Sync; Close and Rename; Sync of the         *)
(* directory.                                                              *)
SaveStep(p, label, next, content) ==
  /\ pc[p] = label
  /\ temporary' = [temporary EXCEPT ![p] = content]
  /\ Goto(p, next)
  /\ UNCHANGED <<file, survivors, lock, job, clock, reported, began>>

WriteTemporary(p) == SaveStep(p, "write", "sync", "written")

(* A fault: the file is closed without a sync. *)
CloseUnsynced(p) == SaveStep(p, "sync", "rename", "written")

SyncTemporary(p) == SaveStep(p, "sync", "rename", "synced")

RenameTemporary(p) ==
  /\ pc[p] = "rename"
  /\ file' = [file EXCEPT ![job[p].id] = job[p].record]
  /\ survivors' = [survivors EXCEPT ![job[p].id] =
       @ \cup {job[p].record} \cup (IF temporary[p] = "synced" THEN {} ELSE {Unreadable})]
  /\ temporary' = [temporary EXCEPT ![p] = "none"]
  /\ Goto(p, "dirsync")
  /\ UNCHANGED <<lock, job, clock, reported, began>>

Saved(p) ==
  /\ reported' = [reported EXCEPT ![job[p].id] = job[p].record]
  /\ Goto(p, "holding")
  /\ UNCHANGED <<file, lock, temporary, job, clock, began>>

(* A fault: success as soon as the rename is done. *)
SkipDirectorySync(p) == pc[p] = "dirsync" /\ Saved(p) /\ UNCHANGED survivors

SyncDirectory(p) == pc[p] = "dirsync" /\ Saved(p) /\ survivors' = Settled(file)

(* An error of any step, before the rename or after it: the caller saves   *)
(* the record once more, with the error, or gives up.                      *)
SaveFails(p) ==
  /\ pc[p] \in {"write", "sync", "rename", "dirsync"}
  /\ temporary' = [temporary EXCEPT ![p] = "none"]
  /\ Goto(p, "holding")
  /\ UNCHANGED <<file, survivors, lock, job, clock, reported, began>>

(* A refused load, a failed Save, or the end of the run. *)
EndSaving(p) == pc[p] \in SavingLabels /\ Leave(p)

-----------------------------------------------------------------------------
(* The scans: entries in name order, one Load each.  A file that cannot be *)
(* loaded, for whatever reason, ends the scan with an error.               *)

Entry(p) == CHOOSE id \in job[p].entries : \A other \in job[p].entries : id <= other
Loadable(p) == job[p].entries # {} /\ file[Entry(p)] # Unreadable
Remaining(p) == job[p].entries \ {Entry(p)}

BeginGuard(p, c) ==
  /\ pc[p] = "idle"
  /\ AcquireClusterLock(p, c)
  /\ job' = [job EXCEPT ![p].cluster = c, ![p].entries = Id]
  /\ Goto(p, "guard")
  /\ UNCHANGED <<file, survivors, temporary, clock, reported, began>>

ActiveFor(c, id) == ClusterOf[id] = c /\ ~file[id].completed

(* A fault: an entry that cannot be loaded is passed over. *)
SkipUnloadable(p) ==
  /\ pc[p] = "guard"
  /\ job[p].entries # {}
  /\ file[Entry(p)] # Unreadable => ~ActiveFor(job[p].cluster, Entry(p))
  /\ job' = [job EXCEPT ![p].entries = Remaining(p)]
  /\ UNCHANGED <<file, survivors, lock, temporary, pc, clock, reported, began>>

ScanForCluster(p) ==
  /\ pc[p] = "guard"
  /\ Loadable(p) /\ ~ActiveFor(job[p].cluster, Entry(p))
  /\ job' = [job EXCEPT ![p].entries = Remaining(p)]
  /\ UNCHANGED <<file, survivors, lock, temporary, pc, clock, reported, began>>

(* ActiveForCluster returns nil: the command goes on under the lock. *)
NoneActive(p) ==
  /\ pc[p] = "guard" /\ job[p].entries = {}
  /\ Goto(p, "clear")
  /\ UNCHANGED <<file, survivors, lock, temporary, job, clock, reported, began>>

(* Refused, failed, or done with what the guard was for. *)
EndGuard(p) == pc[p] \in {"guard", "clear"} /\ Leave(p)

BeginShow(p) ==
  /\ pc[p] = "idle"
  /\ job' = [job EXCEPT ![p].entries = Id]
  /\ began' = [began EXCEPT ![p] = file]
  /\ Goto(p, "show")
  /\ UNCHANGED <<file, survivors, lock, temporary, clock, reported>>

Found(p, id) ==
  job' = [job EXCEPT ![p].id = id, ![p].record = file[id], ![p].entries = Remaining(p)]
Passed(p) == job' = [job EXCEPT ![p].entries = Remaining(p)]

(* A fault: the first active operation is taken. *)
TakeFirst(p) ==
  /\ pc[p] = "show" /\ Loadable(p)
  /\ IF ~file[Entry(p)].completed /\ job[p].id = Nothing THEN Found(p, Entry(p)) ELSE Passed(p)
  /\ UNCHANGED <<file, survivors, lock, temporary, pc, clock, reported, began>>

Later(id, record, p) ==
  \/ job[p].id = Nothing
  \/ record.at > job[p].record.at
  \/ record.at = job[p].record.at /\ id > job[p].id

ScanForLatest(p) ==
  /\ pc[p] = "show" /\ Loadable(p)
  /\ IF ~file[Entry(p)].completed /\ Later(Entry(p), file[Entry(p)], p)
       THEN Found(p, Entry(p)) ELSE Passed(p)
  /\ UNCHANGED <<file, survivors, lock, temporary, pc, clock, reported, began>>

LatestFound(p) ==
  /\ pc[p] = "show" /\ job[p].entries = {}
  /\ Goto(p, "answer")
  /\ UNCHANGED <<file, survivors, lock, temporary, job, clock, reported, began>>

EndShow(p) == pc[p] \in {"show", "answer"} /\ Leave(p)

-----------------------------------------------------------------------------
(* A killed process ends like one that fails; a power loss ends them all.  *)

PowerLoss ==
  /\ file' \in [Id -> File]
  /\ \A id \in Id : file'[id] \in survivors[id]
  /\ survivors' = Settled(file')
  /\ reported' = file'
  /\ lock' = [c \in Cluster |-> NoProcess]
  /\ temporary' = [p \in Process |-> "none"]
  /\ pc' = [p \in Process |-> "idle"]
  /\ job' = [p \in Process |-> NoJob]
  /\ began' = [p \in Process |-> NoScan]
  /\ UNCHANGED clock

SavingStep(p) ==
  \/ \E id \in Id : BeginSaving(p, id)
  \/ LoadLocked(p)
  \/ \E at \in 0..MaxTime : Stamp(p, at)
  \/ WriteTemporary(p) \/ SyncTemporary(p)
  \/ RenameTemporary(p) \/ SyncDirectory(p)
  \/ SaveFails(p) \/ EndSaving(p)

ScanningStep(p) ==
  \/ \E c \in Cluster : BeginGuard(p, c)
  \/ ScanForCluster(p) \/ NoneActive(p) \/ EndGuard(p)
  \/ BeginShow(p) \/ ScanForLatest(p) \/ LatestFound(p) \/ EndShow(p)

Next == PowerLoss \/ \E p \in Process : SavingStep(p) \/ ScanningStep(p)

Spec == Init /\ [][Next]_storeVars

-----------------------------------------------------------------------------
(* A record whose Save succeeded is never lost: whatever a power loss      *)
(* leaves is that record or one saved after it, although the later Save    *)
(* may have failed, or its process died, anywhere.                         *)
AcknowledgedSurvives ==
  \A id \in Id : reported[id] \in Record =>
    \A f \in survivors[id] :
      f \in Record /\ (f = reported[id] \/ f.at > reported[id].at)

(* `node drain` and `node activate` go on only while every file is one     *)
(* that could be read and no operation of their cluster is active, however *)
(* the processes of other clusters save into the directory being scanned.  *)
GuardAnswerHolds ==
  \A p \in Process : pc[p] = "clear" =>
    \A id \in Id :
      /\ file[id] # Unreadable
      /\ ClusterOf[id] = job[p].cluster => file[id].completed

(* `maintenance show` takes no lock.  Whatever was saved during its scan,  *)
(* an operation that is still active when it answers was, when the scan    *)
(* began, no later than the one shown; "none" means that none is active.   *)
ShowAnswerIsRecent ==
  \A p \in Process : pc[p] = "answer" =>
    \A id \in Id : ~file[id].completed =>
      /\ job[p].id # Nothing
      /\ \/ began[p][id].at < job[p].record.at
         \/ began[p][id].at = job[p].record.at /\ id <= job[p].id

(* The operation files are registers that are replaced whole.              *)
Register == INSTANCE RecordRegister WITH current <- file, fallback <- survivors

RegisterImplemented == Register!RegisterSpec
=============================================================================
