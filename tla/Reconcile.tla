------------------------------ MODULE Reconcile ------------------------------
(***************************************************************************)
(* `skepr maintenance reconcile`: bring the services that the drained node *)
(* left at 0/1 back to 1/1 by force-updating them one at a time, writing   *)
(* each intent to the operation file before acting on it so that a later   *)
(* run can resume.  Source: internal/maintenance/reconcile.go.             *)
(*                                                                         *)
(* One action is one call that leaves the process (a request, a save), or  *)
(* the decision between two of them.  A process that is killed is the same *)
(* process running the command again.                                      *)
(***************************************************************************)
EXTENDS MaintenanceCommand

VARIABLE run   \* the locals of each process's Reconcile call

vars == <<stateVars, swarmVars, commandVars, run>>

Run == [held     : BOOLEAN,                    \* validateReconciliationState
        services : [Service -> ServiceView],   \* currentInventory.Services
        todo     : SUBSET (DOMAIN Affected),   \* candidates still to visit
        proven   : SUBSET Service,             \* observation: seen converged while held
        resuming : BOOLEAN]                    \* inside resumeAttempt

NoRun == [held     |-> FALSE,
          services |-> [s \in Service |-> [condition |-> "missing", force |-> 0]],
          todo     |-> {},
          proven   |-> {},
          resuming |-> FALSE]

(* The attempt the process works on, its number, and its service as last seen. *)
Current(p) == LastAttempt(op[p])
CurrentNumber(p) == Len(op[p].attempts)
SeenCurrent(p) == run[p].services[Current(p).service]

Exit(p, result) == Leave(p, result) /\ run' = [run EXCEPT ![p] = NoRun]
SetServices(p) ==
  run' = [run EXCEPT ![p].services = ServiceViews,
                     ![p].proven = @ \cup
                       { s \in Service : run[p].held /\ live[s].health = "converged" }]

-----------------------------------------------------------------------------
(* eligibleReconciliationServices, for one affected service as it was last *)
(* seen.  One obstructed service fails the whole evaluation.               *)

Obstructed(s, seen) ==
  \/ seen.condition = "missing"
  \/ seen.condition = "unconverged"
  \/ seen.condition = "stalled" /\ s \notin SavedSingleton

Eligible(s, seen) == seen.condition = "stalled" /\ s \in SavedSingleton

-----------------------------------------------------------------------------
(* Opening: load, lock, load again, check the phase, inspect. *)

BeginReconcile(p) == Begin(p, "locking") /\ UNCHANGED run

(* A fault: the operation loaded before the lock is used. *)
LockWithoutReload(p) == Lock(p, "locking", "inspect") /\ UNCHANGED run

LockReconcile(p) == Lock(p, "locking", "reloading") /\ UNCHANGED run

LockRefused(p) ==
  /\ pc[p] = "locking"
  /\ LockConflict
  /\ Exit(p, "error")
  /\ UNCHANGED <<disk, swarmVars>>

ReloadReconcile(p) ==
  /\ pc[p] = "reloading"
  /\ disk.phase \in ReconcilePhases
  /\ Load(p)
  /\ Goto(p, "inspect")
  /\ UNCHANGED <<stateVars, swarmVars, outcome, mutated, run>>

PhaseRefused(p) ==
  /\ pc[p] = "reloading"
  /\ disk.phase \notin ReconcilePhases
  /\ Exit(p, "blocked")
  /\ UNCHANGED <<disk, swarmVars>>

(* The lock or operation file cannot be opened or read, or a request of    *)
(* the first Inspect fails.                                                *)
OpeningFails(p) ==
  /\ pc[p] \in {"locking", "reloading", "inspect", "services"}
  /\ Exit(p, "error")
  /\ UNCHANGED <<disk, swarmVars>>

InspectNodes(p) ==
  /\ pc[p] = "inspect"
  /\ run' = [run EXCEPT ![p].held = TargetHeld]
  /\ Goto(p, "services")
  /\ UNCHANGED <<stateVars, swarmVars, op, outcome, mutated>>

(* A fault: validateReconciliationState is not called. *)
InspectUnvalidated(p) ==
  /\ pc[p] = "services"
  /\ SetServices(p)
  /\ Goto(p, IF op[p].phase = "reconciling" THEN "resume" ELSE "select")
  /\ UNCHANGED <<stateVars, swarmVars, op, outcome, mutated>>

InspectServices(p) ==
  /\ pc[p] = "services"
  /\ run[p].held
  /\ SetServices(p)
  /\ Goto(p, IF op[p].phase = "reconciling" THEN "resume" ELSE "select")
  /\ UNCHANGED <<stateVars, swarmVars, op, outcome, mutated>>

StateRefused(p) ==
  /\ pc[p] = "services"
  /\ ~run[p].held
  /\ Exit(p, "blocked")
  /\ UNCHANGED <<disk, swarmVars>>

-----------------------------------------------------------------------------
(* resumeAttempt: what became of the attempt an earlier run left open? *)

(* A fault: a resumed attempt is always issued again. *)
CounterIgnored(p) == TRUE

CounterBehind(p) == SeenCurrent(p).force < Current(p).before
CounterUnmoved(p) == SeenCurrent(p).force = Current(p).before

ResumeRefused(p) ==
  /\ pc[p] = "resume"
  /\ \/ ~Resumable(op[p])
     \/ /\ Resumable(op[p])
        /\ SeenCurrent(p).condition = "missing" \/ CounterBehind(p)
  /\ Exit(p, "blocked")
  /\ UNCHANGED <<disk, swarmVars>>

(* Already converged: complete it; counter unmoved: the saved mutation is  *)
(* taken as not applied and is issued; counter moved: wait for it.         *)
Resume(p) ==
  /\ pc[p] = "resume"
  /\ Resumable(op[p])
  /\ SeenCurrent(p).condition # "missing"
  /\ ~CounterBehind(p)
  /\ run' = [run EXCEPT ![p].resuming = TRUE]
  /\ \/ SeenCurrent(p).condition = "converged" /\ Goto(p, "complete")
     \/ SeenCurrent(p).condition # "converged" /\ CounterUnmoved(p) /\ Goto(p, "issue")
     \/ SeenCurrent(p).condition # "converged" /\ ~CounterUnmoved(p) /\ Goto(p, "poll")
  /\ UNCHANGED <<stateVars, swarmVars, op, outcome, mutated>>

-----------------------------------------------------------------------------
(* The candidates, evaluated together on the inventory at hand. *)

SelectRefused(p) ==
  /\ pc[p] = "select"
  /\ \E i \in DOMAIN Affected : Obstructed(Affected[i], run[p].services[Affected[i]])
  /\ Exit(p, "blocked")
  /\ UNCHANGED <<disk, swarmVars>>

Candidates(p) ==
  { i \in DOMAIN Affected : Eligible(Affected[i], run[p].services[Affected[i]]) }

Select(p) ==
  /\ pc[p] = "select"
  /\ \A i \in DOMAIN Affected : ~Obstructed(Affected[i], run[p].services[Affected[i]])
  /\ Candidates(p) # {}
  /\ run' = [run EXCEPT ![p].todo = Candidates(p), ![p].resuming = FALSE]
  /\ Goto(p, "next")
  /\ UNCHANGED <<stateVars, swarmVars, op, outcome, mutated>>

(* No candidate: the operation is ready at once, and a failing save is     *)
(* returned as it is.                                                      *)
ReadyAtOnce(p) ==
  /\ pc[p] = "select"
  /\ \A i \in DOMAIN Affected : ~Obstructed(Affected[i], run[p].services[Affected[i]])
  /\ Candidates(p) = {}
  /\ MayMove(op[p], "maintenance-ready")
  /\ LET ready == Moved(op[p], "maintenance-ready") IN
       \/ SaveSucceeds(ready) /\ Exit(p, "success")
       \/ SaveFails(ready) /\ Exit(p, "error")
  /\ UNCHANGED swarmVars

-----------------------------------------------------------------------------
(* The loop: the next candidate is evaluated again on the newest inventory.*)

NextCandidate(p, i) == i \in run[p].todo /\ \A j \in run[p].todo : i <= j

CandidateRefused(p) ==
  /\ pc[p] = "next"
  /\ \E i \in run[p].todo :
       /\ NextCandidate(p, i)
       /\ Obstructed(Affected[i], run[p].services[Affected[i]])
  /\ Exit(p, "blocked")
  /\ UNCHANGED <<disk, swarmVars>>

CandidateConverged(p) ==
  /\ pc[p] = "next"
  /\ \E i \in run[p].todo :
       /\ NextCandidate(p, i)
       /\ run[p].services[Affected[i]].condition = "converged"
       /\ run' = [run EXCEPT ![p].todo = @ \ {i}]
  /\ UNCHANGED <<stateVars, swarmVars, commandVars>>

(* A fault: the counter the update is going to set is saved. *)
DeclaredAhead(operation, s, counter) ==
  [phase    |-> "reconciling",
   attempts |-> Append(operation.attempts, Started(s, counter + 1))]

(* The intent, with the counter before the update, is saved first. *)
Declared(operation, s, counter) ==
  [phase    |-> "reconciling",
   attempts |-> Append(operation.attempts, Started(s, counter))]

(* A fault: the intent is kept in memory, to be saved with its result. *)
DeclareUnsaved(p) ==
  /\ pc[p] = "next"
  /\ CurrentNumber(p) < MaxAttempts
  /\ \E i \in run[p].todo :
       /\ NextCandidate(p, i)
       /\ Eligible(Affected[i], run[p].services[Affected[i]])
       /\ SetOp(p, Declared(op[p], Affected[i], run[p].services[Affected[i]].force))
       /\ run' = [run EXCEPT ![p].todo = @ \ {i}]
  /\ Goto(p, "issue")
  /\ UNCHANGED <<stateVars, swarmVars, outcome, mutated>>

(* A fault: the candidate is not evaluated again on the newest inventory. *)
DeclareUnchecked(p) ==
  /\ pc[p] = "next"
  /\ CurrentNumber(p) < MaxAttempts
  /\ \E i \in run[p].todo :
       LET next == Declared(op[p], Affected[i], run[p].services[Affected[i]].force) IN
       /\ NextCandidate(p, i)
       /\ SaveSucceeds(next)
       /\ SetOp(p, next)
       /\ run' = [run EXCEPT ![p].todo = @ \ {i}]
  /\ Goto(p, "issue")
  /\ UNCHANGED <<lock, swarmVars, outcome, mutated>>

Declare(p) ==
  /\ pc[p] = "next"
  /\ CurrentNumber(p) < MaxAttempts
  /\ MayMove(op[p], "reconciling")
  /\ \E i \in run[p].todo :
       LET s    == Affected[i]
           seen == run[p].services[s]
           next == Declared(op[p], s, seen.force) IN
       /\ NextCandidate(p, i)
       /\ Eligible(s, seen)
       /\ \/ /\ SaveSucceeds(next)
             /\ SetOp(p, next)
             /\ run' = [run EXCEPT ![p].todo = @ \ {i}]
             /\ Goto(p, "issue")
             /\ UNCHANGED <<lock, outcome, mutated>>
          \/ SaveFails(next) /\ Exit(p, "error")
  /\ UNCHANGED swarmVars

(* A fault: ready after the first candidate. *)
ReadyTooSoon(p) ==
  /\ pc[p] = "next"
  /\ MayMove(op[p], "maintenance-ready")
  /\ SaveSucceeds(Moved(op[p], "maintenance-ready"))
  /\ Exit(p, "success")
  /\ UNCHANGED swarmVars

(* All candidates visited: ready.  A failing save is recorded by another. *)
Ready(p) ==
  /\ pc[p] = "next"
  /\ run[p].todo = {}
  /\ MayMove(op[p], "maintenance-ready")
  /\ LET ready == Moved(op[p], "maintenance-ready") IN
       \/ SaveSucceeds(ready) /\ Exit(p, "success")
       \/ /\ SaveFails(ready)
          /\ SetOp(p, ready)
          /\ Goto(p, "record")
          /\ UNCHANGED <<lock, outcome, mutated, run>>
  /\ UNCHANGED swarmVars

RecordError(p) ==
  /\ pc[p] = "record"
  /\ Save(op[p])
  /\ Exit(p, "partial")
  /\ UNCHANGED swarmVars

-----------------------------------------------------------------------------
(* ForceUpdateService, with every way its two requests can end. *)

ReadServiceSpec(p) ==
  /\ pc[p] = "issue"
  /\ ReadServiceVersion(p, Current(p).service, CurrentNumber(p))
  /\ Goto(p, "send")
  /\ UNCHANGED <<stateVars, op, outcome, mutated, run>>

ReadServiceSpecFails(p) ==
  /\ pc[p] = "issue"
  /\ Goto(p, "preserve")
  /\ UNCHANGED <<stateVars, swarmVars, op, outcome, mutated, run>>

(* Accepted, and the answer reaches the sender or is lost. *)
UpdateAccepted(p) ==
  /\ pc[p] = "send"
  /\ endpoint = "cluster"
  /\ \E u \in UnsentOf(p, updates) : AcceptUpdate(u)
  /\ mutated' = [mutated EXCEPT ![p] = TRUE]
  /\ Goto(p, "poll") \/ Goto(p, "preserve")
  /\ UNCHANGED <<stateVars, op, outcome, run>>

(* Timed out with the request on its way. *)
UpdateDelayed(p) ==
  /\ pc[p] = "send"
  /\ LeaveOnItsWay(p)
  /\ mutated' = [mutated EXCEPT ![p] = TRUE]
  /\ Goto(p, "preserve")
  /\ UNCHANGED <<stateVars, op, outcome, run>>

UpdateFails(p) ==
  /\ pc[p] = "send"
  /\ Discard(p)
  /\ Goto(p, "preserve")
  /\ UNCHANGED <<stateVars, op, outcome, mutated, run>>

-----------------------------------------------------------------------------
(* waitForService: inspect until the service is converged.  Here any error *)
(* ends the wait, and so does the deadline.                                *)

PollNodes(p) ==
  /\ pc[p] = "poll"
  /\ run' = [run EXCEPT ![p].held = TargetHeld]
  /\ Goto(p, "polled")
  /\ UNCHANGED <<stateVars, swarmVars, op, outcome, mutated>>

(* A fault: the wait ends with its first inspection. *)
PollOnce(p) ==
  /\ pc[p] = "polled"
  /\ run[p].held
  /\ SetServices(p)
  /\ Goto(p, "complete")
  /\ UNCHANGED <<stateVars, swarmVars, op, outcome, mutated>>

PollServices(p) ==
  /\ pc[p] = "polled"
  /\ run[p].held
  /\ \/ /\ ConditionOf(Current(p).service) = "converged"
        /\ SetServices(p)
        /\ Goto(p, "complete")
     \/ /\ ConditionOf(Current(p).service) # "converged"
        /\ Goto(p, "poll")
        /\ UNCHANGED run
  /\ UNCHANGED <<stateVars, swarmVars, op, outcome, mutated>>

PollRefused(p) ==
  /\ pc[p] = "polled"
  /\ ~run[p].held
  /\ Goto(p, "preserve")
  /\ UNCHANGED <<stateVars, swarmVars, op, outcome, mutated, run>>

PollFails(p) ==
  /\ pc[p] \in Polling
  /\ Goto(p, "preserve")
  /\ UNCHANGED <<stateVars, swarmVars, op, outcome, mutated, run>>

-----------------------------------------------------------------------------
(* completeAttempt and preserveStartedAttempt. *)

(* A fault: the phase moves on with the attempt still marked as started. *)
CompleteLeftOpen(p) ==
  /\ pc[p] = "complete"
  /\ SaveSucceeds(Moved(op[p], "waiting-services"))
  /\ SetOp(p, Moved(op[p], "waiting-services"))
  /\ Goto(p, IF run[p].resuming THEN "select" ELSE "next")
  /\ UNCHANGED <<lock, swarmVars, outcome, mutated, run>>

Complete(p) ==
  /\ pc[p] = "complete"
  /\ MayMove(op[p], "waiting-services")
  /\ LET next == Moved(WithLastOpen(op[p], FALSE), "waiting-services") IN
       /\ SetOp(p, next)
       /\ \/ SaveSucceeds(next) /\ Goto(p, IF run[p].resuming THEN "select" ELSE "next")
          \/ SaveFails(next) /\ Goto(p, "preserve")
  /\ UNCHANGED <<lock, swarmVars, outcome, mutated, run>>

(* Faults: the attempt keeps its completion; the attempt's result is taken *)
(* for the phase.                                                          *)
PreservedHalf(operation) == Moved(operation, "reconciling")
PreservedAsStarted(operation) == Moved(WithLastOpen(operation, TRUE), "started")

Preserved(operation) == Moved(WithLastOpen(operation, TRUE), "reconciling")

Preserve(p) ==
  /\ pc[p] = "preserve"
  /\ Save(Preserved(op[p]))
  /\ Exit(p, "partial")
  /\ UNCHANGED swarmVars

KillReconcile(p) ==
  /\ pc[p] \in ReconcileLabels
  /\ Killed(p)
  /\ run' = [run EXCEPT ![p] = NoRun]

-----------------------------------------------------------------------------
Opening(p) ==
  \/ BeginReconcile(p) \/ LockReconcile(p) \/ LockRefused(p)
  \/ ReloadReconcile(p) \/ PhaseRefused(p)
  \/ InspectNodes(p) \/ InspectServices(p) \/ OpeningFails(p) \/ StateRefused(p)

Deciding(p) ==
  \/ ResumeRefused(p) \/ Resume(p)
  \/ SelectRefused(p) \/ Select(p) \/ ReadyAtOnce(p)
  \/ CandidateRefused(p) \/ CandidateConverged(p) \/ Declare(p)
  \/ Ready(p) \/ RecordError(p)

Updating(p) ==
  \/ ReadServiceSpec(p) \/ ReadServiceSpecFails(p)
  \/ UpdateAccepted(p) \/ UpdateDelayed(p) \/ UpdateFails(p)
  \/ PollNodes(p) \/ PollServices(p) \/ PollRefused(p) \/ PollFails(p)
  \/ Complete(p) \/ Preserve(p)

ReconcileStep(p) == Opening(p) \/ Deciding(p) \/ Updating(p) \/ KillReconcile(p)

Outside == SwarmStep /\ UNCHANGED <<stateVars, commandVars, run>>

Init == SwarmInit /\ CommandInit /\ run = [p \in Process |-> NoRun]

Next == (\E p \in Process : ReconcileStep(p)) \/ Outside

Spec == Init /\ [][Next]_vars
-----------------------------------------------------------------------------
TypeOK ==
  /\ SwarmTypeOK
  /\ CommandTypeOK
  /\ run \in [Process -> Run]

(* Write-ahead: whatever moment a process is killed at, each update it has *)
(* prepared or sent, and each update the Swarm has accepted, belongs to an *)
(* attempt for that service in the operation file.                         *)
IntentFirst ==
  /\ \A u \in updates :
       u.attempt \in DOMAIN disk.attempts /\ disk.attempts[u.attempt].service = u.service
  /\ \A k \in 1..MaxAttempts : applied[k] > 0 => k \in DOMAIN disk.attempts

(* Doubt is on record: the file says "reconciling" exactly when its last   *)
(* attempt is open, earlier attempts are closed, and an open attempt has   *)
(* the counter a resume needs.                                             *)
DoubtRecorded ==
  /\ disk.phase = "reconciling" => Resumable(disk)
  /\ \A k \in DOMAIN disk.attempts :
       disk.attempts[k].open => k = Len(disk.attempts) /\ disk.phase = "reconciling"

(* An attempt is applied at most once however often runs die, lose answers *)
(* and resume (updates that are late, and rollbacks, excepted).            *)
AtMostOnce == \A k \in 1..MaxAttempts : applied[k] <= 1

(* The counter tells: once an attempt has been applied, the live counter   *)
(* is above the one saved with it, so a resume cannot mistake it for one   *)
(* that was not.                                                           *)
CounterTells ==
  \A k \in DOMAIN disk.attempts :
    LET a == disk.attempts[k] IN
      k \in 1..MaxAttempts /\ applied[k] > 0 /\ a.before # NoCounter
        => live[a.service].force > a.before

(* A first-time update goes only to a service saved as a singleton that    *)
(* this run's newest inspection, with the target drained, showed at 0/1.   *)
FreshlyJustified ==
  \A p \in Process :
    pc[p] \in {"issue", "send"} /\ ~run[p].resuming
      => run[p].held /\ Eligible(Current(p).service, SeenCurrent(p))

(* The same of every update, resumed ones too: what                        *)
(* TestReconcileRevalidatesEachServiceBeforeMutation says of mutations.    *)
RevalidatedBeforeMutation ==
  \A p \in Process :
    pc[p] \in {"issue", "send"} => Eligible(Current(p).service, SeenCurrent(p))

AffectedServices == { Affected[i] : i \in DOMAIN Affected }

(* The operation becomes maintenance-ready only in a run with the lock     *)
(* whose newest inspection was of the right cluster with the target        *)
(* drained, and that has seen every affected service converged in an       *)
(* inspection which found that.                                            *)
ReadyIsProven ==
  [][ disk.phase # "maintenance-ready" /\ disk'.phase = "maintenance-ready"
        => \E p \in Process :
             lock = p /\ run[p].held /\ AffectedServices \subseteq run[p].proven ]_vars

(* "RECOVERY: node remains drained": the hint printed with a partial       *)
(* outcome is not contradicted by what the run itself last saw.            *)
HintNotContradicted ==
  [][ \A p \in Process :
        pc[p] = "preserve" /\ outcome'[p] = "partial" => run[p].held ]_vars

(* The operation file and the Swarm together implement the journal of      *)
(* intents: an attempt is written before its force update, the next is     *)
(* written only when the last converged, and each takes effect at most     *)
(* once, whatever is killed, refused, unanswered or unsaved in between     *)
(* (without late updates, rollbacks and records of other versions).        *)
Journal == INSTANCE IntentJournal WITH
  Thing      <- Service,
  MaxIntents <- MaxAttempts,
  journal    <- [k \in DOMAIN disk.attempts |->
                   [about |-> disk.attempts[k].service, open |-> disk.attempts[k].open]],
  effect     <- applied

ImplementsJournal == Journal!JournalSpec
=============================================================================
