------------------------- MODULE MaintenanceCommand -------------------------
(***************************************************************************)
(* What `maintenance reconcile` and `maintenance finish` share: a process  *)
(* loads the operation, takes the cluster lock, loads the operation again  *)
(* and dispatches on its phase; it ends by releasing the lock and          *)
(* reporting an outcome, or is killed.                                     *)
(* Source: internal/maintenance/reconcile.go and finish.go (the opening of *)
(* Reconcile and of Finish), internal/cli/cli.go (the reports).            *)
(***************************************************************************)
EXTENDS StateDirectory, SwarmCluster

CONSTANT InitialPhases   \* phases in which the stored operation may be found

ASSUME InitialPhasesAssumption == InitialPhases \subseteq Phases

(* Where a process can be: between runs, and in each command. *)
Polling == {"poll", "polled"}
ReconcileLabels == Polling \cup
  {"locking", "reloading", "inspect", "services", "resume", "select", "next",
   "issue", "send", "complete", "preserve", "record"}
FinishLabels ==
  {"f-locking", "f-reloading", "f-nodes", "f-services", "f-return",
   "f-activating", "f-activate", "f-send", "f-verifying", "f-poll", "f-polled",
   "f-completed", "f-fail"}
NodeLabels ==
  {"n-nodes", "n-services", "n-locking", "n-guard", "n-again", "n-services-again",
   "n-update", "n-send", "n-failed", "d-nodes", "d-tasks", "d-nodes-again",
   "d-services", "a-nodes", "a-services"}
Labels == {"idle"} \cup ReconcileLabels \cup FinishLabels \cup NodeLabels

VARIABLES
  pc,        \* where each process is
  op,        \* its in-memory copy of the operation
  outcome,   \* how its last run ended: the report of the command line
  mutated    \* observation: may this run have changed the Swarm?

commandVars == <<pc, op, outcome, mutated>>

(* success: exit 0; blocked: a safety error, exit 1; error: any other      *)
(* error, exit 3; partial: ReconcileError or FinishError, exit 5.          *)
Outcomes == {"none", "success", "blocked", "error", "partial"}

(* No command of this version creates an operation: the record was written *)
(* by an earlier one, in whatever phase that had reached.  An attempt left *)
(* open by such a version may lack the counter.                            *)
StoredOperations ==
  { [phase |-> ph, attempts |-> << >>] : ph \in InitialPhases }
  \cup
  { [phase |-> "reconciling", attempts |-> <<Started(s, NoCounter)>>] :
      s \in IF "reconciling" \in InitialPhases THEN Service ELSE {} }

NoOperation == [phase |-> "created", attempts |-> << >>]

CommandInit ==
  /\ disk \in StoredOperations
  /\ lock = NoProcess
  /\ pc = [p \in Process |-> "idle"]
  /\ op = [p \in Process |-> NoOperation]
  /\ outcome = [p \in Process |-> "none"]
  /\ mutated = [p \in Process |-> FALSE]

CommandTypeOK ==
  /\ disk \in Operations
  /\ lock \in Process \cup {NoProcess}
  /\ pc \in [Process -> Labels]
  /\ op \in [Process -> Operations]
  /\ outcome \in [Process -> Outcomes]
  /\ mutated \in [Process -> BOOLEAN]

Goto(p, label) == pc' = [pc EXCEPT ![p] = label]
SetOp(p, operation) == op' = [op EXCEPT ![p] = operation]

(* Store.Load: whole records only, since files are replaced by renames. *)
Load(p) == SetOp(p, disk)

-----------------------------------------------------------------------------
(* The first Load: only the cluster it names is used, to find the lock.    *)
Begin(p, next) ==
  /\ pc[p] = "idle"
  /\ Load(p)
  /\ Goto(p, next)
  /\ outcome' = [outcome EXCEPT ![p] = "none"]
  /\ mutated' = [mutated EXCEPT ![p] = FALSE]
  /\ UNCHANGED <<stateVars, swarmVars>>

Lock(p, from, next) ==
  /\ pc[p] = from
  /\ AcquireClusterLock(p)
  /\ Goto(p, next)
  /\ UNCHANGED <<disk, swarmVars, op, outcome, mutated>>

(* Every return of Reconcile and Finish: the deferred Release, the report. *)
Leave(p, result) ==
  /\ ReleaseClusterLock(p)
  /\ Goto(p, "idle")
  /\ SetOp(p, NoOperation)
  /\ outcome' = [outcome EXCEPT ![p] = result]
  /\ UNCHANGED mutated

(* A kill (a second signal, a power cut to the terminal, an OOM): nothing  *)
(* is saved and nothing is reported; a request on its way may still arrive *)
(* if the process was waiting for its answer.                              *)
Killed(p) ==
  /\ pc[p] # "idle"
  /\ ReleaseClusterLock(p)
  /\ Goto(p, "idle")
  /\ SetOp(p, NoOperation)
  /\ LeaveOnItsWay(p) \/ Discard(p)
  /\ UNCHANGED <<disk, outcome, mutated>>
-----------------------------------------------------------------------------
(* Where a process is before it has the lock, and where its copy of the    *)
(* operation need not be the file's: before the reload, once a save of its *)
(* own has failed, and in the node commands, which take no copy.           *)
Unlocked == {"idle", "locking", "f-locking", "n-nodes", "n-services", "n-locking"}
OutOfStep ==
  Unlocked \cup NodeLabels \cup {"reloading", "f-reloading", "preserve", "record", "f-fail"}

(* No lost update: past AcquireClusterLock a process holds the one lock,   *)
(* and from the reload until a save of its own fails the file is exactly   *)
(* its in-memory copy, whatever runs were killed or refused beside it.     *)
NoLostUpdate ==
  \A p \in Process :
    /\ pc[p] \notin Unlocked => lock = p
    /\ pc[p] \notin OutOfStep => disk = op[p]
=============================================================================
