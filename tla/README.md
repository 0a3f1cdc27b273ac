# skepr in TLA+

skepr is a command-line tool for maintaining one node of a Docker Swarm at a
time: it checks whether a node can be drained, drains it, restarts the services
the drain left at 0/1, and activates the node again once the cluster is whole.
There is no daemon. Each command is a short-lived process; what several of them
share is the Swarm, one state directory with a JSON file per maintenance
operation, and one lock file per cluster. This project models the commands that
change anything, the store they save through and the conclusions they act on,
and checks them with TLC on small instances. With TLAPS it proves, for every
value of the parameters, the safety properties of each command and of all of them
together, those of the operation store, that the commands and the store implement an
abstract journal and abstract registers, and that the preview's word on the quorum
and on the room for what a drain moves holds.

## Inventory

| Component (source) | State | Operations | Hard behaviour | What makes it correct |
|---|---|---|---|---|
| maintenance reconcile (`internal/maintenance/reconcile.go`) | in-memory operation, newest inventory, list of candidates | load, lock, load again, inspect, resume an open attempt, per candidate: save intent, force update, wait, save result; at last save `maintenance-ready` | a kill or a failing save between any two of these; an answer that is lost; services that change while another is waited for; an update that arrives late | intents are on disk before effects; an attempt takes effect at most once; each update rests on the newest inventory; ready means that every affected service was seen converged with the target drained |
| maintenance finish (`internal/maintenance/finish.go`) | in-memory operation | load, lock, load again, verify the drained cluster, save two phases, activate, save, wait until whole, save `completed` | the same, and a resume in each of four phases | `activating` is on disk before the request; completed rests on one full inspection; a refusal has changed nothing |
| operation and phases (`internal/maintenance/state.go`, `operation.go`) | the record | transition table, attempts | records written by earlier versions | phases on disk only follow the table |
| operation store and lock (`internal/operations/`) | state directory | Load, Save by temporary file and rename, ActiveForCluster and LatestActive by a scan of the directory, flock | Save fails after the rename; a process dies holding the lock; the power goes; files are replaced during a scan | no acknowledged record is lost; a reader sees whole records; what a scan answers is true |
| docker client (`internal/docker/status.go`) | none | Inspect (several requests), ForceUpdateService and UpdateNodeAvailability (inspect, then update with the version read) | the inventory is not a snapshot; the Swarm changes between read and update | stale versions are rejected |
| node drain (`internal/drain/`) | none | gate, lock, refuse beside an active operation, gate again, update, two waits | drains racing with drains, activations and operations | one manager away at a time; success is real; "before mutation" is true |
| node activate (`internal/activate/`) | none | the same without placement, one wait | the same | the same |
| command line (`internal/cli/`, `cmd/skepr/`) | none | dispatch, reports, exit codes, signals | a second signal kills at any moment | the report fits what happened |
| placement and reports (`internal/status/`, `preflight/`, `rebalance/`, `drain/preview.go`) | none | which nodes can take a service, what a drain moves, whether the target may go offline or come back, what is unevenly spread | the verdict is given before the drain and relied on after it; the scheduler chooses; constraints that are not understood | a safe drain strands no task; a quorum outlives the target; a drained node can come back; following the report ends |
| maintenance show (`internal/cli/`) | none | LatestActive and a report | it takes no lock | the operation shown was the latest when it looked |
| docker context | none | opens a connection | I/O | not modelled |

How they interact. A command calls the docker client synchronously and saves
through the store. Two processes interact only through the operation file, the
lock (non-blocking `flock`: the loser reports a conflict and exits) and the
Swarm. `node drain` and `node activate` refuse while an operation of the cluster
is not completed. No command of this version *creates* an operation: the records
come from an earlier version, so the models start from a stored one.
PROJECT.json lists the hazards one by one at their lines.

## Modules

```
Operation            phases, transition table, attempts            state.go, operation.go
  StateDirectory     operation file and cluster lock               store.go, lock.go
  SwarmCluster       nodes, services, updates in flight            status.go + the external Swarm
    MaintenanceCommand   load-lock-load, exits, kills              shared by the commands
      Reconcile          maintenance reconcile                     reconcile.go
      Finish             maintenance finish                        finish.go
        Maintenance      both together, on one operation           cli.go
          MaintenanceProgress   ... when the trouble stops         (liveness)
      NodeCommands       node drain, node activate                 drain.go, activate.go, node.go
          Skepr          all four commands together
IntentJournal        abstract: a journal of intents and effects
ReconcileInvariants      the inductive invariants of Reconcile
  Reconcile_proofs       type, lock and file, write-ahead
    ReconcileReady_proofs    justified updates, proven readiness
    ReconcileAttempts_proofs   what the file says of open attempts, at most
                               one effect, and a telling counter
      ReconcileJournal_proofs   the refinement of IntentJournal
    Maintenance_proofs       finish and reconcile together
      Skepr_proofs           all four commands: one manager away, the guard, honest
                             reports, and all of the above beside each other
OperationStore           Save and the scans, call by call      store.go, active.go, lock.go
  OperationStore_proofs    all its properties
RecordRegister           abstract: registers that are replaced whole
Placement                what skepr concludes from an inventory
                           status.go, preview.go, check.go, report.go, activate.go
  NodeCycle              the conclusions put to the test: drain, offline, back, active
    NodeCycle_proofs       the quorum, and room for every task of a drained node
MCReconcile, MCMaintenance, MCProgress, MCSkepr,
MCOperationStore, MCNodeCycle     instances and symmetry for TLC
```

Indentation is `EXTENDS`; `Maintenance` extends `Reconcile` and `Finish`,
`Maintenance_proofs` extends `Maintenance` too, `Skepr_proofs` extends `Skepr` and
the proofs about reconcile and about both recovery commands,
`Skepr` extends `Maintenance` and `NodeCommands`. `Reconcile` instantiates
`IntentJournal` and `OperationStore` instantiates `RecordRegister`, each with a
refinement mapping. The three groups meet in what one assumes of the other: the
commands take from the store that a save leaves the old record or the new one
(`StateDirectory`) and from the placement that a gate may pass or refuse
(`NodeCommands`); `OperationStore` and `NodeCycle` show what is behind that.

**State.** `disk` is the operation file and `lock` the holder of the cluster's
lock file. `op[p]` is the `Operation` a process has in memory, `run[p]`,
`seen[p]` and `plan[p]` are the locals of its `Reconcile`, `Finish` and
`Drain`/`Activate` call, `pc[p]` says which call is next, and `outcome[p]` is the
report. `availability`, `membersWell`, `live`, `endpoint` are what the Swarm would
answer; `updates` and `nodeUpdates` are the updates that were read or sent and
would still be accepted. `applied`, `mutated` and `run[p].proven` are
observations: no action's guard reads them (`proven` are the services seen converged by an
inspection that passed `validateReconciliationState`). `assigned` says whether a node has a task that
is desired to run and has not ended, which is what `waitForEvacuation` looks at. A task that was told
to stop is gone for it, whether or not its container is, and so it is in the model:
what a successful drain promises is stated of assigned tasks, not of an empty host.

**Steps.** One action is one call that leaves the process (a request, a save,
the lock) or the decision between two of them, so all interleavings of two
processes, the Swarm and its operators happen at the granularity of the calls.
Each call has its failures as actions of their own, with the handling the code
gives them at that point: `ReadyAtOnce` returns a failing save as it is,
`Ready` records it with a second save, and `SaveVerifying` in finish differs
from `SaveActivating` in the same way. `Killed` can happen at every label and saves nothing;
a process that is killed is the same process that later runs again.

**Saves.** `SaveFails(o) == disk' \in {disk, o}`: the store renames first and
syncs the directory last, and a caller that sees an error cannot tell which of
the two failed.

**The store** is modelled by its system calls. `file` is what a reader finds
under each name, `survivors` what a power loss may leave there, `temporary` the
state of each process's temporary file, and `job[p]` the locals of one Save or
one scan. A process saves under its cluster's lock, as the resuming commands do;
the guard scans under the lock of *its* cluster, while operations of the other
clusters in the same directory are replaced; `maintenance show` scans under none.
Of the file system the module assumes that a rename is atomic for readers, that
a file renamed without a sync may be torn by a power loss, that each rename may
be lost on its own until the directory has been synced, and that such a sync
settles all of them. A kill ends a process at any label (`EndSaving`), and a failed
save may be followed by another, as the commands record its error (`SaveFails`).
Records are abstracted to the time they were stamped with and whether they are completed.

**Drain's gates** on the managers are that every one is healthy (`NodesSafe`), the target included. The
findings `target_not_leader` and `manager_quorum` do not stop a drain: `BuildPreview` keeps them for the
verdict on taking the host offline (`SafeToTakeOffline` in `Placement`), so a manager of two may be drained.
That is why `OneManagerAway` says nothing of a majority; `QuorumOutlivesTarget` does, of that other verdict.

**Placement** translates the functions that decide something, over one
inventory: reservations, limits, host ports, constraints (skepr evaluates some
keys and reports the others), platforms, managers, the quorum, task capacity,
and the comparison of the rebalance report. `NodeCycle` then lets the Swarm do what
it may: tasks leave a drained node in any order, its scheduler picks any
fitting node, leaders change, the host goes and comes back. `Fits` is what the
scheduler checks; it differs from skepr's `Passes` in constraints skepr
cannot read and in the host ports of tasks that are still starting.

**Inspect** is two steps, nodes first and then services, as the client's
requests are. **An update** is two steps, because both update functions read a
version first; the Swarm rejects a stale version, which the model expresses by
dropping from `updates` every update of a spec that changes. **Task counts** are
abstracted to `converged`, `stalled` (0/1), `starting` (0/1 with a task coming
up; skepr cannot tell the two apart), `unconverged` and `missing`.

**Fault operators.** Some definitions carry a comment "A fault: ...": no action
of the specifications uses them. They are what a definition would be with one
plausible mistake in the code (no reload under the lock, an intent saved after
its update, a wait that ends too soon), and each property was confirmed to fail
when one of them takes its definition's place.

## Runs

| Run | Instance | What it shows |
|---|---|---|
| `reconcile_contended` | 2 processes (symmetric), 1 service, 2 attempts, 1 outside force update | With kills, lost answers, failing saves, lock races and an operator who scales, removes, drains and activates: no lost update, write-ahead, recorded doubt, at most one effect per attempt, a telling counter, justified updates, proven readiness, and that all of it implements `IntentJournal` |
| `reconcile_two_services` | 1 process, 2 services, 2 attempts, 1 outside force update | The loop over candidates: the second is evaluated again on the inventory the first one's wait ended with, and ready means that both were seen converged with the target drained |
| `reconcile_hostile` | 1 process, 1 service, late updates, rollbacks, a removed or paused target, loss of control, records of earlier versions | What survives outside the assumptions of the first run: justification and readiness do (write-ahead is proved without them) |
| `maintenance_lifecycle` | 2 processes, both commands, 1 service | Phases on disk follow the table, an activation finds `activating` on disk, force updates stay inside `reconciling`, completion is proven, a refusal changed nothing |
| `finish_hostile` | 2 processes, from `maintenance-ready`, late updates, failing members, another Swarm at the endpoint, a removed target | Write-ahead of the activation and proof of completion survive |
| `recovery_completes` | 1 process, both commands | Liveness: see below |
| `node_commands` | 2 processes, 3 manager nodes (those that are not the target symmetric), all commands, no other operator | Drains, activations and finish never take two managers away; an operation that is not completed owns its node; success (of a drain: drained, and no task desired to run there) and "before mutation" are true |
| `operation_store` | 2 processes (symmetric), 2 operations in 2 clusters, times up to 2 | With kills, failing system calls and power losses anywhere: an acknowledged record survives, the guard's answer holds as long as it is relied on, `maintenance show` answers with an operation that was the latest, and the files implement `RecordRegister` |
| `node_cycle` | 3 nodes, 2 services, 4 tasks, 764 inventories | A safe drain strands no task in whatever order and place tasks move, a quorum outlives the target, a drained node comes back to a whole cluster, and the rebalance report does not send tasks in circles |
| `late_update_applied_twice` | late updates | *finding*: `AtMostOnce` is violated |
| `resume_not_revalidated` | | *finding*: `RevalidatedBeforeMutation` is violated |
| `remains_drained_hint` | | *finding*: `HintNotContradicted` is violated |

**Bounds.** `MaxAttempts` bounds the recorded attempts (guard of `Declare`) and
`MaxForce` the force updates made outside skepr (guard of `OutsideForceUpdate`;
skepr's own are bounded by the attempts). Two attempts are enough for a settled
attempt followed by an open one, and for the same service to be restarted twice.
Two managers are enough for two drains to race; with the third both can be of nodes other
than the operation's target. A drain has no gate on the quorum, so their number decides nothing else, and
`AtMostOneAway` is proved for any. Two processes are enough for every race: the lock admits one, and a third
would only be another loser or another successor, which the second can be, as
a process runs again after it exits or dies. One service is enough for the
journal of a service; two make the loop and the staleness of the candidate list
visible. The two-services run takes one process because a killed run and its
successor already interleave there. Late delivery and rollbacks are switched on
only where a property survives them; the properties that do not are said so in
their comments and in the hazards, and one of the counterexamples is a finding.

In `operation_store`, two times above the initial one allow two saves of a
record and a tie between records; two clusters are what a guard needs to see
files change under its scan, and two operations the fewest for which
"latest" is a choice. A third process could only wait for a lock or
scan beside the other scanner, which it does not affect. `MaxTime` is a guard
of `Stamp`. In `node_cycle`, the inventories combine five specifications of one service
(small and large reservations, a limit, a host port, a constraint that excludes a node) with five
of the other (global with a constraint, a host port, a platform, a constraint
that skepr does not evaluate, a job), tight and roomy nodes, and every initial
placement a scheduler may have chosen; another set varies the standing of managers
(worker or leader as the target, two managers, three) and a paused node. Three
nodes are the fewest on which a task has a choice of two destinations, or three managers
a quorum after one has gone.

**Deadlock** is not checked: the Swarm's own steps can always happen in most
instances, so the check would say nothing, and where operators do nothing the
system may really stop at its bounds, for example when the operation is completed.

**Symmetry** permutes processes, and in `node_commands` the nodes other than the
target, in runs without fairness only. No definition singles any of them out.

**Liveness.** `OperationCompletes`: whatever was killed, refused or left half
saved, once the trouble stops and what an operator can see to is in order
(`Recoverable`), the operation is eventually completed. Fairness:

* weak, for a running command: the program goes on unless it waits for an answer,
  and every answer comes when nothing fails;
* weak, for the start of tasks of a service that is `starting`;
* strong, for running each of the two commands again: a retry is the operator's act and is
  enabled only between runs, so weak fairness would not make it happen;
* from `calm` on no kill, failing request, failing save, expired deadline or foreign change.

The instance has one process because the lock does not queue: two
contenders could refuse each other's retries for ever, and nothing in the code
prevents that. `Sustained` is an assumption with teeth: a service that a force
update gave new tasks does not fall back to 0/1. Without it the property fails,
because an open attempt whose counter has moved is only waited for and never
issued again; the hazards list it.

`DrainedNodeReturns` and `RebalanceSettles` (`node_cycle`) assume that the Swarm
keeps working (weak fairness of its steps: tasks leave a drained node, are placed
where they fit and start, a host that was shut down returns), and that an
operator goes on: activates the target once it may, follows the report while it
suggests something. Those are the hypotheses of the two statements, not claims
about the code, which only answers when it is asked; `Drain`, `TakeOffline`
and elections have no fairness. `PreviewComplete` restricts two of the properties to previews
that say all there is to say: the estimate is made per service, without the
other services that will move, and a constraint that was not evaluated does not
block. The preview lists the second kind as unevaluated (`drain/preview.go:130`) and promises nothing
about the first; the hazards name both.

## Findings

1. **An attempt can be applied twice** (`late_update_applied_twice`). A
   resuming run reads the counter, finds it unmoved and issues the saved
   attempt again; `ForceUpdateService` then reads the service once more without
   comparing counters. An update that its timed-out sender left on its way and
   that arrives between the two reads is followed by a second one. The error text
   at `reconcile.go:192` speaks of "confirming the saved mutation was not applied".
2. **A resumed attempt is not revalidated** (`resume_not_revalidated`). It is issued on the
   counter alone, although the service may have been scaled to 1/2 since, while
   the test at `reconcile_test.go:51` says by its name that each service is
   revalidated before mutation; it exercises first-time candidates only.
3. **"node remains drained" may be false** (`remains_drained_hint`). A wait
   that ended *because* the target was seen not drained is reported with the
   hint "RECOVERY: node remains drained" (`cli.go:546`).

## Proofs

They hold for all sets of processes, services, nodes and operations, every saved
workload, every inventory and all bounds.

| Module | Theorem | States | Beyond the modules' assumptions |
|---|---|---|---|
| `Reconcile_proofs` | `TypeCorrect` | `Spec => []TypeOK` | |
| | `NoUpdateIsLost` | `Spec => []NoLostUpdate` | |
| | `IntentBeforeEffect` | `Spec => []IntentFirst` | |
| `ReconcileReady_proofs` | `UpdatesAreJustified` | `Spec => []FreshlyJustified` | |
| | `ReadinessIsProven` | `Spec => ReadyIsProven` | |
| `ReconcileAttempts_proofs` | `DoubtIsRecorded` | `Spec => []DoubtRecorded` | no record left `reconciling` by an earlier version |
| | `AppliedAtMostOnce` | `Spec => []AtMostOnce` | `Orderly` |
| | `CounterIsTelling` | `Spec => []CounterTells` | `Orderly` |
| `ReconcileJournal_proofs` | `JournalIsImplemented` | `Spec => ImplementsJournal` | `Orderly` |
| `Maintenance_proofs` | `MaintenanceTypeCorrect` | `MaintenanceSpec => []MaintenanceTypeOK` | |
| | `ActivationIsDeclared` | `MaintenanceSpec => []ActivationDeclared` | |
| | `ForceUpdatesStayConfined` | `MaintenanceSpec => []ForceUpdatesConfined` | no late updates |
| | `PhasesFollowTable` | `MaintenanceSpec => LifecycleFollowsTable` | |
| | `CompletionIsProven` | `MaintenanceSpec => CompletedIsProven` | |
| | `RefusalsChangeNothing` | `MaintenanceSpec => FinishRefusalUntouched` | |
| `Skepr_proofs` | `SkeprTypeCorrect` | `SkeprSpec => []SkeprTypeOK` | |
| | `AtMostOneAway` | `SkeprSpec => []OneManagerAway` | no late updates; operators at most activate the target |
| | `ActiveOperationKeepsOut` | `SkeprSpec => []ActiveOperationOwnsNodes` | no late updates |
| | `SuccessIsReal` | `SkeprSpec => NodeSuccessIsReal` | no late updates; nobody else changes the target |
| | `BeforeMutationIsProven` | `SkeprSpec => BeforeMutationIsTrue` | |
| | `RecordKeptTogether` | `SkeprSpec` implies `[]NoLostUpdate`, `[]IntentFirst`, `[]ForceUpdatesConfined` | the last: no late updates |
| | `DoubtRecordedTogether` | `SkeprSpec => []DoubtRecorded` | no record left `reconciling` by an earlier version |
| | `ReadyProvenTogether` | `SkeprSpec` implies `[]FreshlyJustified`, `ReadyIsProven` | |
| | `AtMostOnceTogether` | `SkeprSpec` implies `[]AtMostOnce`, `[]CounterTells` | `Orderly` |
| | `JournalImplementedTogether` | `SkeprSpec => ImplementsJournal` | `Orderly` |
| | `LifecycleTogether` | `SkeprSpec` implies `LifecycleFollowsTable`, `CompletedIsProven`, `FinishRefusalUntouched` | |
| `OperationStore_proofs` | `StoreTypeCorrect` | `Spec => []StoreTypeOK` | |
| | `AcknowledgedIsKept` | `Spec => []AcknowledgedSurvives` | |
| | `GuardIsRight` | `Spec => []GuardAnswerHolds` | |
| | `ShowIsRecent` | `Spec => []ShowAnswerIsRecent` | |
| | `FilesAreRegisters` | `Spec => RegisterImplemented` | |
| `NodeCycle_proofs` | `QuorumOutlives` | `Spec => []QuorumOutlivesTarget` | |
| | `SafeDrainStrandsNone` | `Spec => []EvacuationFits` | |

The modules' assumptions, for `Reconcile`: the affected services are a sequence of services,
those saved as singletons are services, `NoCounter` is no number, `NoProcess` is no process, the
target is a node, managers are nodes, the bounds are natural numbers. `Orderly`
excludes late updates, rollbacks and records an earlier version left
`reconciling`. It is needed: with late updates `AtMostOnce` is false (finding
1), a rollback takes the counter back to where an applied attempt began, and a
record without its counter cannot be resumed. What `Skepr_proofs` assumes of updates and
operators is what its statements are about. An update that is applied after its
process let go of the lock finds an operation that has begun since, or another node drained.
An operator who drains the target by hand asks no gate, and one who
activates it while a drain waits makes the drain's success false. The
instance of `node_commands` has no other operator at all; `AtMostOneAway` is proved with one who
may activate the target at any time. For the store: operations are
numbered in the order of their IDs, each belongs to a cluster, there is a
cluster, and the values that stand for "unreadable" and "nothing" are no
records and no operations. For `NodeCycle`: nodes, services and tasks are finite sets, and each
inventory gives every node its fields, a non-negative capacity of each resource, every service
a non-negative reservation and limit (0 for none), and every task a node to start on. Nothing is
assumed of where: `WellPlaced` narrows the instance and is not used by the proofs.

### The invariants, and why they are needed

`ReconcileInvariants` states the first four. What one process knows is an operator on its
label and its locals (`PhaseFits`, `DoubtFits`, `RunFits`, `IssueFits`), so
that the step of another process leaves it true (`OthersKeep`).

* `SafetyInv`. `IntentFirst` alone is not inductive. A process that prepares
  an update adds an entry for the last attempt of its *own* copy of the
  operation, so one must know that the copy is the file (`NoLostUpdate`), which
  rests on there being one process past the lock; that the copy has an attempt
  at all (`PhaseKnown`: at `issue` the phase is `reconciling` and the record is
  resumable); and that the second save after a failed one keeps the attempts
  that updates in flight refer to, though the failed one may or may not have
  reached the file (`LogKept`: the two differ only in phase and open flags).
* `ProvenInv` says that every affected service is still to be visited, is the
  current one, or has been seen converged by this run with the target drained, and that
  the newest inspection found it drained (`held`) wherever the run decides something;
  `todo = {}` at `Ready` then gives readiness, and `Eligible` of the current one the justification.
* `DoubtInv` says of the file what `DoubtRecorded` says, and of the copy of a process whose
  save has failed that saving it again will make it so.
* `CountInv` ties the counters to the effects: recorded counters are at most
  the live ones, strictly below them once the attempt was applied
  (`CountIn`); a process's view of a counter is never ahead (`ViewsBehind`); a
  process that is about to issue an attempt knows it was not applied, and one
  that is about to resume can tell (`IssueFits`); and an update that would be
  accepted belongs to the current attempt of a process now sending it
  (`UpdatesOwned`). `AtMostOnce` follows because an accepted update finds
  `applied = 0` and invalidates all others.

* `MaintenanceInv` (in `Maintenance_proofs`) adds to `SafetyInv` what both commands know
  together. `CopyFits` ties the phase of a copy to the label. After a failed save it
  also says how far the file can be behind: the save that `Fail` repeats is then a
  transition of the table, or none. `AccountFits` says what a run of finish has seen when it
  saves `completed`, and that up to `f-activating` it has changed nothing, which the
  refusals rest on. `RequestsOwned` says that an update which was not sent
  belongs to the process that is about to send it (so the lock is held and the
  file is its copy), and that an activation on its way finds `activating` or a later
  phase; this is kept because from `activating` on the phase only moves to `completed`.

* `SkeprInv` (in `Skepr_proofs`) adds what the runs of the node commands know. `GuardHolds`:
  past `EnsureNoActiveOperation` the operation is completed, and stays so, since
  nothing leads out of `completed` and no other command gets the lock.
  `PlansOwned`: an update that was prepared is the one the arguments asked
  for. `NodesFit` ties the label of a run to whether it has changed anything, which
  the reports "blocked" and "failed before mutation" rest on. `RequestsOwned` of
  `MaintenanceInv` covers the node commands' requests: an update that was not sent
  is that of the process with the lock, so nobody but this process changes a node.
* `AwayInv` makes `OneManagerAway` inductive: a drain about to be sent leaves
  every other manager active (`OthersActive`). The gate saw that under the lock, in
  its second look (`GateNodes`), and until the update is accepted only the same process
  could change it. The first look, before the lock, proves nothing, and the proof does not use it.
* `WaitInv` carries the accepted update to the report: while a command waits,
  its node has the availability it asked for, and a drain past `EvacuationTasks` has seen it
  without a task that is desired to run, and none is assigned to it any more. The last inspection
  does not ask for the tasks again, so the report rests on that.

`ProvenInv`, `DoubtInv` and `CountInv` are inductive relative to `SafetyInv`. `MCReconcile` extends
`ReconcileInvariants`, so that TLC can check its four as invariants of the
reconcile instances, which it does without a violation where their assumptions hold.

`StoreInv` (`OperationStore_proofs`) has a part per kind of process. `Locked`:
who saves or guards holds the lock of the cluster concerned, so that only one
process replaces a file. `Ahead`: its copy is at least as late as the file, strictly
later than the last acknowledged record once it was stamped, and synced before
the rename; without it a failed save followed by another could bring an older
record back. `Guarded` and `Shown`: what was scanned is still as it was found,
or has only grown later since the scan began (`Grown`). `FilesSurvive`: what a reader sees
is among what a power loss may leave. `QuorumInv` (`NodeCycle_proofs`) says that from the drain on
the other managers that were healthy still are and still form a majority, which
elections and every step of the target leave alone.

`EvacuationInv` (`NodeCycle_proofs`) is what makes `EvacuationFits` inductive. The
property only says that each pending task has a place now; a task that is placed
could take the last one from another. So the invariant counts. `Leaving(s)` are
the tasks of the moving service that are pending or still on the target.
A *slot* is a pair of a node and a number i such that the node takes i more
tasks of s (`Takes`: resources, limit, host ports). The leaving tasks are no more
than the slots. A placement costs one of each (`SlotsPlaced`: the slots of its node move
down by one, so there is an injection from the others); a task that leaves the
target is counted before and after; and the report can be followed only when
nothing is left to place. When the drain begins, each destination has as many slots as
`TaskCapacity` says (`CapacityTakes`), here skepr's view of host ports is exact since every
task is running. `EstimatedTaskCapacity` sums them up, and a sum
counts pairs (`SumCounts`).

### How the proofs go

Steps fall into a few shapes, each with a lemma: `LeavingKeeps` and
`ExitKeeps` (the process lets go of lock and copy), `SaveExitKeeps` (a last save and
an exit), `AdvanceKeeps` and `MoveOnKeeps` (only `pc` and locals move),
`SavingKeeps` (file and copy change together), `SwarmKeeps` and `RequestKeeps`
(only updates and counters change, and updates stay covered by the file: `LogGrows`,
`QuietIntent`). `OthersWait` says that when one process holds the lock the
others are at labels of which the invariant says nothing. `OpeningKeeps`,
`DecidingKeeps`, `UpdatingKeeps` and `KillKeeps` then go through the actions one by
one, and `NextSafe` puts them together. The other modules have the same three
groups of actions (`...Doubt`, `...Count`) over lemmas on records
(`MovedIs`, `WithLastOpenIs`, `DeclaredIs`, `SameLog`).

For both commands together the lemmas on reconcile's actions are used again. A
step of finish is brought into one form, `FinishMove` (one process moves to a
label with a copy that fits, and touches the file only under the lock), group by group in
`FinishMoves`; `FinishMoveKeeps` then needs no actions. `ReconcileMove` does the
same for what a step of reconcile means to a run of finish.

A step of a node command has the form `NodeMove` (`NodeMoves`), from which
`SkeprInv` follows without its actions. `HolderChanges` and
`OutsideChanges` list the ways an availability can change, and `AwayInv` and `WaitInv` only look
at these. What was proved of reconcile alone is carried over by one lemma:
every step of the four commands is one of `Reconcile`'s own specification or leaves
its runs, services, log and updates as they are (`ReconcileOrBeside`,
`BesideStep`). So each invariant takes one more lemma (`BesideProven`, `BesideCount`,
`BesideDoubt`), and the refinement a stuttering step.

`Reserved` and `EstimatedTaskCapacity` are folds, whose recursive function has to be shown to
exist before anything can be said of it (`SumExists`). That and the facts about
sums are inductions over subsets, which are carried out as a search for a
smallest counterexample (`SubsetInduction`), as the prover cannot instantiate the induction theorems
of the library.

The refinement maps `Declare` to `WriteIntent`, `UpdateAccepted` to
`TakeEffect`, and every other save to `Settle`, `Reopen` or a stutter
(`JournalRelogged`): it writes the same log, and before and after it only the
last attempt is open.

### Only model-checked

Liveness under fairness (`OperationCompletes`, `DrainedNodeReturns`,
`RebalanceSettles`) is out of the prover's reach, and the findings are
counterexamples. Every other property of a run is proved.

## Not modelled

* The composition of the two levels: `NodeCommands` lets a gate that depends
  on placement refuse at any time rather than on an inventory of `Placement`,
  and the commands' models have kills but no power loss, which would also
  stop the Swarm's node they run on.
* The creation of operations: no command of this version does it.
* `docker context` (opens a connection) and the client's conversion of what
  Docker answers into an inventory (ports, mounts, resources, placement):
  I/O and copying of fields.
* Storage warnings, generic resources, placement preferences, duplicate
  host names, the text of reports, and the live task counts that `maintenance
  show` prints beside the record.
* Timestamps, error texts, the progress callback, flags and output. The first
  signal cancels the context, which the models have as a failing request or
  an ended wait; exit codes for signals are left out.

## Plan

Done, in this order: the record and its phases; lock and file; the Swarm;
`Reconcile` with its journal; `Finish`; both together; progress; the node
commands; everything together; the proofs about `Reconcile`; the store, its
register and its proofs; placement and the node's cycle, with the proof about the quorum;
the proofs about both recovery commands together and about all four commands; the proof
that a safe drain strands no task.

Next: the commands over the store's power losses, with a Swarm that goes on meanwhile.
