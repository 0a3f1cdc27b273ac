-------------------------- MODULE Maintenance_proofs --------------------------
(***************************************************************************)
(* Both recovery commands on one operation, for any number of processes,   *)
(* services and nodes: the phases on disk follow the table, the activation *)
(* is declared before it is requested, force updates stay inside           *)
(* reconciliation, completion rests on what was seen, and a refusal has    *)
(* changed nothing.                                                        *)
(***************************************************************************)
EXTENDS Maintenance, Reconcile_proofs

-----------------------------------------------------------------------------
(* The inductive invariant: SafetyInv of Reconcile, and what the runs of   *)
(* finish know.                                                            *)

ActivatedPhases == {"activating", "verifying-cluster", "completed"}

(* Where a process is tells the phase of its copy and, once a save of its  *)
(* own has failed, how far the file can be behind it.                      *)
CopyFits(label, operation, file) ==
  /\ label \in {"f-nodes", "f-services"} =>
       operation.phase \in {"maintenance-ready", "verifying-return", "activating"}
  /\ label = "f-return" => operation.phase = "maintenance-ready"
  /\ label = "f-activating" => operation.phase = "verifying-return"
  /\ label \in {"f-activate", "f-send", "f-verifying"} => operation.phase = "activating"
  /\ label \in {"f-poll", "f-polled", "f-completed"} => operation.phase = "verifying-cluster"
  /\ label = "f-fail" =>
       /\ operation.phase \in ActivatedPhases
       /\ file.attempts = operation.attempts
       /\ file.phase = operation.phase \/ MayMove(file, operation.phase)
  /\ label = "preserve" => file.phase \in ReconcilePhases
  /\ label = "record" => file.phase \in {"waiting-services", "maintenance-ready"}

(* What a run of finish has seen, whether it can have changed the Swarm,   *)
(* and that it has reported nothing yet.                                   *)
AccountFits(label, operation, state, changed, report) ==
  /\ label = "f-completed" => state = "active"
  /\ label = "f-fail" /\ operation.phase = "completed" => state = "active"
  /\ label \in {"f-locking", "f-reloading", "f-nodes", "f-services", "f-return",
                "f-activating"} => ~changed
  /\ label \in FinishLabels => report = "none"

(* An update that was not sent is the one its process is about to send;    *)
(* one that is on its way was sent late, or after "activating" was saved.  *)
ServiceRequest(u) ==
  /\ u.sent => LateDelivery
  /\ ~u.sent => pc[u.process] = "send" /\ u.attempt = Len(op[u.process].attempts)
NodeRequest(u) ==
  /\ u.sent => LateDelivery /\ disk.phase \in ActivatedPhases
  /\ ~u.sent => \/ pc[u.process] = "f-send" /\ u.node = Target /\ u.to = "active"
                \/ pc[u.process] = "n-send"

RequestsOwned ==
  (\A u \in updates : ServiceRequest(u)) /\ (\A u \in nodeUpdates : NodeRequest(u))

RunsFit ==
  \A p \in Process :
    /\ CopyFits(pc[p], op[p], disk)
    /\ AccountFits(pc[p], op[p], seen[p], mutated[p], outcome[p])

SeenTypeOK == seen \in [Process -> {"drain", "active", "neither"}]

MaintenanceInv == SafetyInv /\ SeenTypeOK /\ RunsFit /\ RequestsOwned

-----------------------------------------------------------------------------
(* How a step of one process moves the phase on disk.                      *)
PhaseStep(p) ==
  disk'.phase # disk.phase =>
    /\ MayMove(disk, disk'.phase)
    /\ disk'.phase = "completed" => lock = p /\ seen[p] = "active"

(* ... and one of finish never moves it back to the phases of reconcile.   *)
ReturnStep(p) ==
  /\ PhaseStep(p)
  /\ disk'.phase # disk.phase => disk'.phase \in {"verifying-return"} \cup ActivatedPhases

(* From "activating" on the phase only moves towards "completed".          *)
LEMMA ActivatedStays ==
  ASSUME NEW p \in Process, PhaseStep(p), disk.phase \in ActivatedPhases
  PROVE  disk'.phase \in ActivatedPhases
BY DEF PhaseStep, MayMove, AllowedTransitions, ActivatedPhases

-----------------------------------------------------------------------------
(* A step of finish or of a node command, seen from the others: it moves   *)
(* to a label with a copy that fits, and touches the file only under the   *)
(* lock.                                                                   *)

CommandMove(p, label, o) ==
  /\ Goto(p, label) /\ SetOp(p, o) /\ o \in Operations
  /\ label \in FinishLabels \cup NodeLabels \cup {"idle"}
  /\ disk' \in Operations /\ disk'.attempts = disk.attempts
  /\ disk' # disk => pc[p] \notin Unlocked
  /\ lock' # lock => lock \in {p, NoProcess}
  /\ lock' \in {lock, p, NoProcess}
  /\ label \notin Unlocked => lock' = p
  /\ label \notin OutOfStep => disk' = o
  /\ ReturnStep(p)
  /\ CopyFits(label, o, disk')
  /\ AccountFits(label, o, seen'[p], mutated'[p], outcome'[p])
  /\ outcome'[p] \in Outcomes /\ outcome' = [outcome EXCEPT ![p] = outcome'[p]]
  /\ mutated'[p] \in BOOLEAN /\ mutated' = [mutated EXCEPT ![p] = mutated'[p]]
  /\ seen'[p] \in {"drain", "active", "neither"} /\ seen' = [seen EXCEPT ![p] = seen'[p]]

FinishMove(p, label, o) ==
  /\ CommandMove(p, label, o)
  /\ label \in FinishLabels \cup {"idle"}
  /\ label = "idle" /\ outcome'[p] \in {"blocked", "error"} => ~mutated[p] \/ pc[p] \notin FinishLabels

LEMMA CommandMoveKeeps ==
  ASSUME MaintenanceInv, NEW p \in Process, NEW label, NEW o, CommandMove(p, label, o),
         UNCHANGED run, SwarmTypeOK', IntentFirst'
  PROVE  SafetyInv' /\ SeenTypeOK' /\ RunsFit'
<1> USE DEF MaintenanceInv, SafetyInv, CommandMove
<1>1. TypeOK'
  BY DEF TypeOK, CommandTypeOK, Goto, SetOp, Labels
<1>2. SeenTypeOK'
  BY DEF SeenTypeOK
<1>3. ASSUME NEW q \in Process
      PROVE  /\ pc'[q] = IF q = p THEN label ELSE pc[q]
             /\ op'[q] = IF q = p THEN o ELSE op[q]
             /\ q # p => seen'[q] = seen[q] /\ mutated'[q] = mutated[q] /\ outcome'[q] = outcome[q]
  BY DEF TypeOK, CommandTypeOK, SeenTypeOK, Goto, SetOp
<1>4. ASSUME NEW q \in Process, q # p, pc[q] \notin Unlocked
      PROVE  disk' = disk /\ lock' = lock
  BY <1>4, NoProcessAssumption, OthersWait DEF NoLostUpdate
<1>5. NoLostUpdate'
  BY <1>3, <1>4 DEF NoLostUpdate, OutOfStep
<1>6. PhaseKnown'
  BY <1>3 DEF PhaseKnown, PhaseFits, WorkingLabels, Polling, FinishLabels, NodeLabels
<1>7. LogKept'
  BY <1>3, <1>4 DEF LogKept, FinishLabels, NodeLabels, Unlocked
<1>8. RunsFit'
  <2>1. ASSUME NEW q \in Process, q # p, pc[q] \in Unlocked
        PROVE  CopyFits(pc[q], op[q], disk')
    BY <2>1 DEF CopyFits, Unlocked
  <2> QED
    BY <1>3, <1>4, <2>1 DEF RunsFit
<1> QED
  BY <1>1, <1>2, <1>5, <1>6, <1>7, <1>8

-----------------------------------------------------------------------------
(* The shapes of the steps of finish. *)

(* What is known at a label of finish past the reload. *)
LEMMA FinishHeld ==
  ASSUME MaintenanceInv, NEW p \in Process
  PROVE  /\ op[p] \in Operations /\ disk \in Operations
         /\ mutated[p] \in BOOLEAN /\ outcome[p] \in Outcomes
         /\ seen[p] \in {"drain", "active", "neither"}
         /\ mutated = [mutated EXCEPT ![p] = mutated[p]]
         /\ outcome = [outcome EXCEPT ![p] = outcome[p]]
         /\ seen = [seen EXCEPT ![p] = seen[p]]
         /\ CopyFits(pc[p], op[p], disk)
         /\ AccountFits(pc[p], op[p], seen[p], mutated[p], outcome[p])
         /\ pc[p] \notin Unlocked => lock = p
         /\ pc[p] \notin OutOfStep => disk = op[p]
BY DEF MaintenanceInv, SafetyInv, TypeOK, CommandTypeOK, SeenTypeOK, RunsFit, NoLostUpdate

(* The run goes on with the file and its copy as they are. *)
LEMMA AdvanceMoves ==
  ASSUME MaintenanceInv, NEW p \in Process,
         NEW label \in FinishLabels \ {"f-locking", "f-reloading"},
         pc[p] \in FinishLabels, pc[p] \notin OutOfStep,
         Goto(p, label), UNCHANGED <<disk, lock, op, outcome>>,
         NEW changed \in BOOLEAN, mutated' = [mutated EXCEPT ![p] = changed],
         NEW state \in {"drain", "active", "neither"}, seen' = [seen EXCEPT ![p] = state],
         CopyFits(label, op[p], disk),
         AccountFits(label, op[p], state, changed, "none")
  PROVE  FinishMove(p, label, op[p])
<1>1. /\ mutated'[p] = changed /\ seen'[p] = state /\ outcome'[p] = outcome[p]
      /\ op = [op EXCEPT ![p] = op[p]]
  BY DEF MaintenanceInv, SafetyInv, TypeOK, CommandTypeOK, SeenTypeOK
<1>2. outcome[p] = "none" /\ lock = p /\ disk = op[p]
  BY FinishHeld DEF AccountFits, OutOfStep
<1> QED
  BY <1>1, <1>2, FinishHeld DEF FinishMove, CommandMove, SetOp, ReturnStep, PhaseStep

(* It ends, after a save or without one. *)
LEMMA ExitMoves ==
  ASSUME MaintenanceInv, NEW p \in Process, NEW result \in Outcomes, FinishExit(p, result),
         disk' \in Operations, disk'.attempts = disk.attempts,
         disk' # disk => pc[p] \notin Unlocked, ReturnStep(p),
         result \in {"blocked", "error"} => ~mutated[p]
  PROVE  FinishMove(p, "idle", NoOperation)
<1>1. /\ Goto(p, "idle") /\ SetOp(p, NoOperation) /\ ReleaseClusterLock(p)
      /\ outcome' = [outcome EXCEPT ![p] = result] /\ mutated' = mutated
      /\ seen' = [seen EXCEPT ![p] = "neither"]
  BY DEF FinishExit, Leave, See
<1>2. outcome'[p] = result /\ seen'[p] = "neither"
  BY <1>1 DEF MaintenanceInv, SafetyInv, TypeOK, CommandTypeOK, SeenTypeOK
<1>3. CopyFits("idle", NoOperation, disk') /\ AccountFits("idle", NoOperation, seen'[p], mutated'[p], outcome'[p])
  BY DEF CopyFits, AccountFits, FinishLabels
<1> QED
  BY <1>1, <1>2, <1>3, FinishHeld, NoOperationType
     DEF FinishMove, CommandMove, ReleaseClusterLock, Unlocked, OutOfStep

LEMMA RefusedMoves ==
  ASSUME MaintenanceInv, NEW p \in Process, NEW result \in {"blocked", "error"},
         FinishExit(p, result), UNCHANGED disk,
         pc[p] \in {"f-locking", "f-reloading", "f-nodes", "f-services", "f-return", "f-activating"}
  PROVE  FinishMove(p, "idle", NoOperation)
<1>1. ~mutated[p]
  BY FinishHeld DEF AccountFits
<1> QED
  BY <1>1, FinishHeld, ExitMoves DEF ReturnStep, PhaseStep, Outcomes
-----------------------------------------------------------------------------
(* The steps of a run, in the groups of FinishStep. *)

LEMMA FinishOpeningMoves ==
  ASSUME MaintenanceInv, NEW p \in Process, FinishOpening(p)
  PROVE  \E label, o : FinishMove(p, label, o)
<1> USE FinishHeld
<1>1. CASE BeginFinish(p)
  <2>1. /\ pc[p] = "idle" /\ Goto(p, "f-locking") /\ SetOp(p, disk)
        /\ outcome' = [outcome EXCEPT ![p] = "none"]
        /\ mutated' = [mutated EXCEPT ![p] = FALSE]
        /\ UNCHANGED <<disk, lock, seen>>
    BY <1>1 DEF BeginFinish, Begin, Load, stateVars
  <2>2. outcome'[p] = "none" /\ mutated'[p] = FALSE
    BY <2>1 DEF MaintenanceInv, SafetyInv, TypeOK, CommandTypeOK
  <2>3. CopyFits("f-locking", disk, disk) /\ AccountFits("f-locking", disk, seen[p], FALSE, "none")
    BY DEF CopyFits, AccountFits
  <2> QED
    BY <2>1, <2>2, <2>3
       DEF FinishMove, CommandMove, FinishLabels, Outcomes, Unlocked, OutOfStep, ReturnStep, PhaseStep
<1>2. CASE LockFinish(p)
  <2>1. /\ pc[p] = "f-locking" /\ Goto(p, "f-reloading")
        /\ lock = NoProcess /\ lock' = p
        /\ UNCHANGED <<disk, op, outcome, mutated, seen>>
    BY <1>2 DEF LockFinish, Lock, AcquireClusterLock
  <2>2. op = [op EXCEPT ![p] = op[p]]
    BY DEF MaintenanceInv, SafetyInv, TypeOK, CommandTypeOK
  <2>3. /\ CopyFits("f-reloading", op[p], disk)
        /\ AccountFits("f-reloading", op[p], seen[p], mutated[p], outcome[p])
    BY <2>1 DEF CopyFits, AccountFits, FinishLabels
  <2> QED
    BY <2>1, <2>2, <2>3
       DEF FinishMove, CommandMove, SetOp, FinishLabels, Unlocked, OutOfStep, ReturnStep, PhaseStep
<1>3. CASE ReloadFinish(p)
  <2> DEFINE label == IF disk.phase = "verifying-cluster" THEN "f-poll" ELSE "f-nodes"
  <2>1. /\ pc[p] = "f-reloading" /\ Goto(p, label) /\ SetOp(p, disk)
        /\ disk.phase \in FinishPhases
        /\ UNCHANGED <<disk, lock, outcome, mutated, seen>>
    BY <1>3 DEF ReloadFinish, Load, stateVars
  <2>2. /\ CopyFits(label, disk, disk)
        /\ AccountFits(label, disk, seen[p], mutated[p], outcome[p])
    BY <2>1 DEF CopyFits, AccountFits, FinishLabels, FinishPhases
  <2>3. label \in FinishLabels /\ lock = p
    BY <2>1 DEF FinishLabels, Unlocked
  <2> QED
    BY <2>1, <2>2, <2>3 DEF FinishMove, CommandMove, FinishLabels, Unlocked, OutOfStep, ReturnStep, PhaseStep
<1>4. CASE FinishLockRefused(p) \/ FinishPhaseRefused(p) \/ FinishOpeningFails(p)
  BY <1>4, RefusedMoves DEF FinishLockRefused, FinishPhaseRefused, FinishOpeningFails
<1> QED
  BY <1>1, <1>2, <1>3, <1>4 DEF FinishOpening

(* The two saves before the activation. *)
LEMMA SaveOrReturnMoves ==
  ASSUME MaintenanceInv, NEW p \in Process, NEW from, NEW next, NEW then,
         <<from, next, then>> \in { <<"f-return", "verifying-return", "f-activating">>,
                                   <<"f-activating", "activating", "f-activate">> },
         SaveOrReturn(p, from, next, then)
  PROVE  \E label, o : FinishMove(p, label, o)
<1> USE FinishHeld
<1> DEFINE o == Moved(op[p], next)
<1>1. /\ pc[p] = from /\ from \in {"f-return", "f-activating"}
      /\ next \in {"verifying-return", "activating"} /\ next \in Phases
      /\ MayMove(op[p], next)
  BY PhasesAre DEF SaveOrReturn
<1>2. disk = op[p] /\ lock = p /\ pc[p] \notin Unlocked
  BY <1>1 DEF OutOfStep, Unlocked, NodeLabels
<1>3. o \in Operations /\ o.phase = next /\ o.attempts = disk.attempts
  BY <1>1, <1>2, MovedIs
<1>4. CASE /\ SaveSucceeds(o) /\ SetOp(p, o) /\ Goto(p, then)
           /\ UNCHANGED <<lock, outcome, mutated, seen>>
  <2>1. disk' = o /\ then \in {"f-activating", "f-activate"} /\ ReturnStep(p)
    BY <1>1, <1>2, <1>3, <1>4 DEF SaveSucceeds, ReturnStep, PhaseStep, ActivatedPhases
  <2>2. CopyFits(then, o, disk')
    BY <1>1, <1>3, <2>1 DEF CopyFits
  <2>3. AccountFits(then, o, seen[p], mutated[p], outcome[p])
    BY <1>1, <2>1 DEF AccountFits, FinishLabels
  <2> HIDE DEF o
  <2>4. FinishMove(p, then, o)
    BY <1>2, <1>3, <1>4, <2>1, <2>2, <2>3 DEF FinishMove, CommandMove, FinishLabels
  <2> QED
    BY <2>4
<1>5. CASE SaveFails(o) /\ FinishExit(p, "error")
  <2>1. disk' \in {disk, o} /\ ~mutated[p]
    BY <1>1, <1>5 DEF SaveFails, AccountFits
  <2>2. ReturnStep(p)
    BY <1>1, <1>2, <1>3, <2>1 DEF ReturnStep, PhaseStep, ActivatedPhases
  <2> HIDE DEF o
  <2>3. FinishMove(p, "idle", NoOperation)
    BY <1>2, <1>3, <1>5, <2>1, <2>2, ExitMoves DEF Outcomes
  <2> QED
    BY <2>3
<1> QED
  BY <1>4, <1>5 DEF SaveOrReturn

LEMMA ReturningMoves ==
  ASSUME MaintenanceInv, NEW p \in Process, Returning(p)
  PROVE  \E label, o : FinishMove(p, label, o)
<1> USE FinishHeld DEF OutOfStep, Unlocked, NodeLabels, FinishLabels
<1>1. CASE ReturnNodes(p)
  <2>1. /\ pc[p] = "f-nodes" /\ Goto(p, "f-services")
        /\ NodesSeen \in {"drain", "active", "neither"}
        /\ seen' = [seen EXCEPT ![p] = NodesSeen]
        /\ UNCHANGED <<disk, lock, op, outcome>> /\ mutated' = [mutated EXCEPT ![p] = mutated[p]]
    BY <1>1 DEF ReturnNodes, See, NodesSeen, stateVars
  <2>2. /\ CopyFits("f-services", op[p], disk)
        /\ AccountFits("f-services", op[p], NodesSeen, mutated[p], "none")
    BY <2>1 DEF CopyFits, AccountFits
  <2>3. FinishMove(p, "f-services", op[p])
    BY <2>1, <2>2, AdvanceMoves
  <2> QED
    BY <2>3
<1>2. CASE ReturnInspectFails(p)
  <2>1. pc[p] \in {"f-nodes", "f-services"} /\ UNCHANGED disk
    BY <1>2 DEF ReturnInspectFails
  <2>2. CASE FinishExit(p, "error")
    BY <2>1, <2>2, RefusedMoves
  <2>3. CASE /\ op[p].phase = "activating" /\ Goto(p, "f-fail")
             /\ UNCHANGED <<lock, op, outcome, mutated, seen>>
    <3>1. disk = op[p]
      BY <2>1
    <3>2. /\ CopyFits("f-fail", op[p], disk)
          /\ AccountFits("f-fail", op[p], seen[p], mutated[p], "none")
      BY <2>1, <2>3, <3>1 DEF CopyFits, AccountFits, ActivatedPhases
    <3>3. /\ mutated' = [mutated EXCEPT ![p] = mutated[p]]
          /\ seen' = [seen EXCEPT ![p] = seen[p]]
      BY <2>3
    <3>4. FinishMove(p, "f-fail", op[p])
      BY <2>1, <2>3, <3>2, <3>3, AdvanceMoves
    <3> QED
      BY <3>4
  <2> QED
    BY <1>2, <2>2, <2>3 DEF ReturnInspectFails
<1>3. CASE ReturnServices(p)
  <2> DEFINE state == SeenWithServices(p)
             next == AfterReturn(op[p].phase, state)
  <2>1. /\ pc[p] = "f-services" /\ UNCHANGED disk
        /\ state \in {"drain", "active", "neither"}
    BY <1>3 DEF ReturnServices, SeenWithServices
  <2>2. CASE next # "" /\ See(p, state) /\ Goto(p, next) /\ UNCHANGED <<lock, op, outcome, mutated>>
    <3>1. /\ next \in {"f-return", "f-activating", "f-activate", "f-verifying"}
          /\ next = "f-return" => op[p].phase = "maintenance-ready"
          /\ next = "f-activating" => op[p].phase = "verifying-return"
          /\ next \in {"f-activate", "f-verifying"} => op[p].phase = "activating"
      BY <2>2 DEF AfterReturn
    <3> HIDE DEF next, state
    <3>2. /\ CopyFits(next, op[p], disk)
          /\ AccountFits(next, op[p], state, mutated[p], "none")
      BY <2>1, <3>1 DEF CopyFits, AccountFits
    <3>3. /\ mutated' = [mutated EXCEPT ![p] = mutated[p]]
          /\ seen' = [seen EXCEPT ![p] = state]
      BY <2>2 DEF See
    <3>4. FinishMove(p, next, op[p])
      BY <2>1, <2>2, <3>1, <3>2, <3>3, AdvanceMoves
    <3> QED
      BY <3>4
  <2>3. CASE FinishExit(p, "blocked")
    BY <2>1, <2>3, RefusedMoves
  <2> QED
    BY <1>3, <2>2, <2>3 DEF ReturnServices
<1>4. CASE SaveReturn(p)
  BY <1>4, SaveOrReturnMoves DEF SaveReturn
<1>5. CASE SaveActivating(p)
  BY <1>5, SaveOrReturnMoves DEF SaveActivating
<1> QED
  BY <1>1, <1>2, <1>3, <1>4, <1>5 DEF Returning

(* A step past the reload that changes neither the file nor what was seen. *)
LEMMA WaitMoves ==
  ASSUME MaintenanceInv, NEW p \in Process,
         NEW label \in {"f-send", "f-verifying", "f-fail", "f-poll"},
         label \in {"f-send", "f-verifying"} => pc[p] \in {"f-activate", "f-send"},
         label = "f-fail" => pc[p] \in {"f-activate", "f-send", "f-poll"},
         label = "f-poll" => pc[p] = "f-polled",
         Goto(p, label), UNCHANGED <<stateVars, op, outcome, seen>>,
         NEW changed \in BOOLEAN, mutated' = [mutated EXCEPT ![p] = changed]
  PROVE  FinishMove(p, label, op[p])
<1> USE FinishHeld DEF OutOfStep, Unlocked, NodeLabels, FinishLabels, stateVars
<1>1. pc[p] \in FinishLabels /\ pc[p] \notin OutOfStep /\ disk = op[p]
  OBVIOUS
<1>2. /\ CopyFits(label, op[p], disk)
      /\ AccountFits(label, op[p], seen[p], changed, "none")
  BY <1>1 DEF CopyFits, AccountFits, ActivatedPhases
<1>3. seen' = [seen EXCEPT ![p] = seen[p]]
  OBVIOUS
<1> QED
  BY <1>1, <1>2, <1>3, AdvanceMoves

LEMMA ActivatingMoves ==
  ASSUME MaintenanceInv, NEW p \in Process, Activating(p)
  PROVE  \E label, o : FinishMove(p, label, o)
<1> USE FinishHeld
<1>1. CASE ReadTarget(p) \/ ReadTargetFails(p) \/ ActivationFails(p)
  <2>1. PICK label \in {"f-send", "f-fail"} :
          /\ Goto(p, label) /\ pc[p] \in {"f-activate", "f-send"}
          /\ UNCHANGED <<stateVars, op, outcome, seen>>
          /\ mutated' = [mutated EXCEPT ![p] = mutated[p]]
    BY <1>1 DEF ReadTarget, ReadTargetFails, ActivationFails
  <2>2. FinishMove(p, label, op[p])
    BY <2>1, WaitMoves
  <2> QED
    BY <2>2
<1>2. CASE ActivationAccepted(p) \/ ActivationDelayed(p)
  <2>1. PICK label \in {"f-verifying", "f-fail"} :
          /\ Goto(p, label) /\ pc[p] = "f-send"
          /\ UNCHANGED <<stateVars, op, outcome, seen>>
          /\ mutated' = [mutated EXCEPT ![p] = TRUE]
    BY <1>2 DEF ActivationAccepted, ActivationDelayed
  <2>2. FinishMove(p, label, op[p])
    BY <2>1, WaitMoves
  <2> QED
    BY <2>2
<1>3. CASE SaveVerifying(p)
  <2> DEFINE o == Moved(op[p], "verifying-cluster")
  <2>1. /\ pc[p] = "f-verifying" /\ SetOp(p, o) /\ MayMove(op[p], "verifying-cluster")
        /\ UNCHANGED <<lock, outcome, mutated, seen>>
    BY <1>3 DEF SaveVerifying
  <2>2. disk = op[p] /\ lock = p /\ pc[p] \notin Unlocked
    BY <2>1 DEF OutOfStep, Unlocked, NodeLabels
  <2>3. o \in Operations /\ o.phase = "verifying-cluster" /\ o.attempts = disk.attempts
    BY <2>2, MovedIs, PhasesAre
  <2>4. PICK label \in {"f-poll", "f-fail"} :
          Goto(p, label) /\ disk' \in {disk, o} /\ (label = "f-poll" => disk' = o)
    BY <1>3 DEF SaveVerifying, SaveSucceeds, SaveFails
  <2> HIDE DEF o
  <2>5. ReturnStep(p)
    BY <2>1, <2>2, <2>3, <2>4 DEF ReturnStep, PhaseStep, ActivatedPhases
  <2>6. /\ CopyFits(label, o, disk')
        /\ AccountFits(label, o, seen[p], mutated[p], outcome[p])
    BY <2>1, <2>2, <2>3, <2>4 DEF CopyFits, AccountFits, ActivatedPhases, FinishLabels, MayMove
  <2>7. FinishMove(p, label, o)
    BY <2>1, <2>2, <2>3, <2>4, <2>5, <2>6 DEF FinishMove, CommandMove, FinishLabels, OutOfStep
  <2> QED
    BY <2>7
<1> QED
  BY <1>1, <1>2, <1>3 DEF Activating

LEMMA VerifyingMoves ==
  ASSUME MaintenanceInv, NEW p \in Process, Verifying(p)
  PROVE  \E label, o : FinishMove(p, label, o)
<1> USE FinishHeld
<1>1. CASE VerifyNodes(p) \/ VerifyServices(p) \/ VerifyInspectFails(p)
  <2>1. PICK label \in {"f-poll", "f-polled", "f-completed"},
             state \in {"drain", "active", "neither"} :
          /\ pc[p] \in {"f-poll", "f-polled"} /\ Goto(p, label)
          /\ seen' = [seen EXCEPT ![p] = state]
          /\ label = "f-completed" => state = "active"
          /\ UNCHANGED <<disk, lock, op, outcome>>
          /\ mutated' = [mutated EXCEPT ![p] = mutated[p]]
    <3>1. NodesSeen \in {"drain", "active", "neither"} /\ SeenWithServices(p) \in {"drain", "active", "neither"}
      BY DEF NodesSeen, SeenWithServices
    <3>2. CASE VerifyNodes(p)
      BY <3>1, <3>2 DEF VerifyNodes, See, stateVars
    <3>3. CASE VerifyServices(p)
      BY <3>1, <3>3 DEF VerifyServices, See, stateVars
    <3>4. CASE VerifyInspectFails(p)
      BY <3>4 DEF VerifyInspectFails, See, stateVars
    <3> QED
      BY <1>1, <3>2, <3>3, <3>4
  <2>2. pc[p] \in FinishLabels /\ pc[p] \notin OutOfStep
    BY <2>1 DEF FinishLabels, OutOfStep, Unlocked, NodeLabels
  <2>3. /\ CopyFits(label, op[p], disk)
        /\ AccountFits(label, op[p], state, mutated[p], "none")
    BY <2>1 DEF CopyFits, AccountFits
  <2>4. label \in FinishLabels \ {"f-locking", "f-reloading"}
    BY DEF FinishLabels
  <2>5. FinishMove(p, label, op[p])
    BY <2>1, <2>2, <2>3, <2>4, AdvanceMoves
  <2> QED
    BY <2>5
<1>2. CASE VerifyTimesOut(p)
  <2>1. FinishMove(p, "f-fail", op[p])
    BY <1>2, WaitMoves DEF VerifyTimesOut
  <2> QED
    BY <2>1
<1>3. CASE SaveCompleted(p)
  <2> DEFINE o == Moved(op[p], "completed")
  <2>1. pc[p] = "f-completed" /\ MayMove(op[p], "completed") /\ seen[p] = "active"
    BY <1>3 DEF SaveCompleted, AccountFits
  <2>2. disk = op[p] /\ lock = p /\ pc[p] \notin Unlocked
    BY <2>1 DEF OutOfStep, Unlocked, NodeLabels
  <2>3. o \in Operations /\ o.phase = "completed" /\ o.attempts = disk.attempts
    BY <2>2, MovedIs, PhasesAre
  <2>4. disk' \in {disk, o}
    BY <1>3 DEF SaveCompleted, SaveSucceeds, SaveFails
  <2>5. ReturnStep(p)
    BY <2>1, <2>2, <2>3, <2>4 DEF ReturnStep, PhaseStep, ActivatedPhases
  <2>6. CASE FinishExit(p, "success")
    <3> HIDE DEF o
    <3>1. FinishMove(p, "idle", NoOperation)
      BY <2>2, <2>3, <2>4, <2>5, <2>6, ExitMoves DEF Outcomes
    <3> QED
      BY <3>1
  <2>7. CASE SetOp(p, o) /\ Goto(p, "f-fail") /\ UNCHANGED <<lock, outcome, mutated, seen>>
    <3> HIDE DEF o
    <3>1. /\ CopyFits("f-fail", o, disk')
          /\ AccountFits("f-fail", o, seen[p], mutated[p], outcome[p])
      BY <2>1, <2>2, <2>3, <2>4 DEF CopyFits, AccountFits, ActivatedPhases, FinishLabels, MayMove
    <3>2. FinishMove(p, "f-fail", o)
      BY <2>1, <2>2, <2>3, <2>4, <2>5, <2>7, <3>1 DEF FinishMove, CommandMove, FinishLabels, OutOfStep
    <3> QED
      BY <3>2
  <2> QED
    BY <1>3, <2>6, <2>7 DEF SaveCompleted
<1>4. CASE Fail(p)
  <2>1. pc[p] = "f-fail" /\ disk' \in {disk, op[p]} /\ FinishExit(p, "partial")
    BY <1>4 DEF Fail, Save, SaveSucceeds, SaveFails
  <2>2. lock = p /\ pc[p] \notin Unlocked
    BY <2>1 DEF Unlocked
  <2>3. disk'.attempts = disk.attempts /\ ReturnStep(p)
    BY <2>1, <2>2 DEF CopyFits, AccountFits, ReturnStep, PhaseStep
  <2>4. FinishMove(p, "idle", NoOperation)
    BY <2>1, <2>2, <2>3, ExitMoves DEF Outcomes
  <2> QED
    BY <2>4
<1> QED
  BY <1>1, <1>2, <1>3, <1>4 DEF Verifying

LEMMA KillFinishMoves ==
  ASSUME MaintenanceInv, NEW p \in Process, KillFinish(p)
  PROVE  \E label, o : FinishMove(p, label, o)
<1> USE FinishHeld
<1>1. /\ pc[p] \in FinishLabels /\ Goto(p, "idle") /\ SetOp(p, NoOperation)
      /\ ReleaseClusterLock(p) /\ UNCHANGED <<disk, outcome, mutated>>
      /\ seen' = [seen EXCEPT ![p] = "neither"]
  BY DEF KillFinish, Killed, See
<1>2. seen'[p] = "neither" /\ outcome[p] = "none"
  BY <1>1 DEF MaintenanceInv, SeenTypeOK, AccountFits
<1>3. /\ CopyFits("idle", NoOperation, disk)
      /\ AccountFits("idle", NoOperation, "neither", mutated[p], outcome[p])
  BY DEF CopyFits, AccountFits, FinishLabels
<1>4. FinishMove(p, "idle", NoOperation)
  BY <1>1, <1>2, <1>3, NoOperationType
     DEF FinishMove, CommandMove, ReleaseClusterLock, Unlocked, OutOfStep, ReturnStep, PhaseStep
<1> QED
  BY <1>4

LEMMA FinishMoves ==
  ASSUME MaintenanceInv, NEW p \in Process, FinishStep(p)
  PROVE  \E label, o : FinishMove(p, label, o)
BY FinishOpeningMoves, ReturningMoves, ActivatingMoves, VerifyingMoves, KillFinishMoves
   DEF FinishStep

-----------------------------------------------------------------------------
(* What the steps do to the Swarm and to the updates in flight. *)

(* Where a step of finish starts. *)
LEMMA FinishStarts ==
  ASSUME NEW p \in Process, FinishStep(p)
  PROVE  pc[p] \in FinishLabels \cup {"idle"}
<1> USE DEF FinishLabels
<1>1. CASE FinishOpening(p)
  BY <1>1
     DEF FinishOpening, BeginFinish, Begin, LockFinish, Lock, FinishLockRefused, ReloadFinish,
         FinishPhaseRefused, FinishOpeningFails
<1>2. CASE Returning(p)
  BY <1>2
     DEF Returning, ReturnNodes, ReturnInspectFails, ReturnServices, SaveReturn, SaveActivating,
         SaveOrReturn
<1>3. CASE Activating(p)
  BY <1>3
     DEF Activating, ReadTarget, ReadTargetFails, ActivationAccepted, ActivationDelayed,
         ActivationFails, SaveVerifying
<1>4. CASE Verifying(p)
  BY <1>4
     DEF Verifying, VerifyNodes, VerifyServices, VerifyInspectFails, VerifyTimesOut,
         SaveCompleted, Fail
<1> QED
  BY <1>1, <1>2, <1>3, <1>4 DEF FinishStep, KillFinish

(* An update of a node adds or uses up one request. *)
LEMMA NodeRequestKeeps ==
  ASSUME SwarmTypeOK, IntentFirst, disk'.attempts = disk.attempts, NEW p \in Process
  PROVE  /\ UNCHANGED swarmVars => SwarmTypeOK' /\ IntentFirst'
         /\ (\E n \in Node, to \in {"active", "drain"} : ReadNodeVersion(p, n, to))
              => SwarmTypeOK' /\ IntentFirst'
         /\ \A u \in nodeUpdates : AcceptNodeUpdate(u) => SwarmTypeOK' /\ IntentFirst'
<1> USE SwarmAssumption
<1>1. UNCHANGED swarmVars => SwarmTypeOK' /\ IntentFirst'
  BY SwarmTypeKept DEF IntentFirst, swarmVars
<1>2. ASSUME NEW n \in Node, NEW to \in {"active", "drain"}, ReadNodeVersion(p, n, to)
      PROVE  SwarmTypeOK' /\ IntentFirst'
  <2> DEFINE new == [process |-> p, node |-> n, to |-> to, sent |-> FALSE]
  <2>1. new \in NodeUpdate
    BY DEF NodeUpdate
  <2>2. /\ nodeUpdates' = nodeUpdates \cup {new}
        /\ UNCHANGED <<endpoint, availability, membersWell, live, updates, applied>>
    BY <1>2 DEF ReadNodeVersion
  <2> HIDE DEF new
  <2> QED
    BY <2>1, <2>2 DEF SwarmTypeOK, IntentFirst
<1>3. ASSUME NEW u \in nodeUpdates, AcceptNodeUpdate(u)
      PROVE  SwarmTypeOK' /\ IntentFirst'
  <2>1. u.to \in Availabilities /\ u.node \in Node
    BY DEF SwarmTypeOK, NodeUpdate, Availabilities
  <2> QED
    BY <1>3, <2>1 DEF AcceptNodeUpdate, NodeSpecChanged, SwarmTypeOK, IntentFirst
<1> QED
  BY <1>1, <1>2, <1>3

LEMMA FinishSwarm ==
  ASSUME MaintenanceInv, NEW p \in Process, FinishStep(p), disk'.attempts = disk.attempts
  PROVE  SwarmTypeOK' /\ IntentFirst'
<1>1. SwarmTypeOK /\ IntentFirst
  BY DEF MaintenanceInv, SafetyInv, TypeOK
<1>2. CASE UNCHANGED swarmVars
  BY <1>1, <1>2, NodeRequestKeeps
<1>3. CASE ReadTarget(p)
  BY <1>1, <1>3, NodeRequestKeeps, SwarmAssumption DEF ReadTarget
<1>4. CASE ActivationAccepted(p)
  BY <1>1, <1>4, NodeRequestKeeps DEF ActivationAccepted, UnsentOf
<1>5. CASE UNCHANGED disk /\ (LeaveOnItsWay(p) \/ Discard(p))
  BY <1>1, <1>5, RequestKeeps
<1>6. CASE ActivationDelayed(p) \/ ActivationFails(p) \/ KillFinish(p)
  BY <1>5, <1>6 DEF ActivationDelayed, ActivationFails, KillFinish, Killed, stateVars
<1>7. FinishOpening(p) \/ Returning(p) \/ Verifying(p) \/ ReadTargetFails(p) \/ SaveVerifying(p)
        => UNCHANGED swarmVars
  BY DEF FinishOpening, BeginFinish, Begin, LockFinish, Lock, FinishLockRefused, ReloadFinish,
         FinishPhaseRefused, FinishOpeningFails, Returning, ReturnNodes, ReturnInspectFails,
         ReturnServices, SaveReturn, SaveActivating, SaveOrReturn, Verifying, VerifyNodes,
         VerifyServices, VerifyInspectFails, VerifyTimesOut, SaveCompleted, Fail,
         ReadTargetFails, SaveVerifying
<1> QED
  BY <1>2, <1>3, <1>4, <1>6, <1>7 DEF FinishStep, Activating

(* Requests stay owned when p leaves them alone, ... *)
LEMMA OwnedQuietly ==
  ASSUME MaintenanceInv, NEW p \in Process, pc[p] \notin {"send", "f-send", "n-send"},
         \A q \in Process : q # p => pc'[q] = pc[q] /\ op'[q] = op[q],
         updates' \subseteq updates, nodeUpdates' \subseteq nodeUpdates, PhaseStep(p)
  PROVE  RequestsOwned'
<1>1. /\ \A u \in updates : u.process \in Process
      /\ \A u \in nodeUpdates : u.process \in Process
  BY DEF MaintenanceInv, SafetyInv, TypeOK, SwarmTypeOK, Update, NodeUpdate
<1> QED
  BY <1>1, ActivatedStays DEF MaintenanceInv, RequestsOwned, ServiceRequest, NodeRequest

(* ... gives them up, ... *)
LEMMA OwnedGivenUp ==
  ASSUME MaintenanceInv, NEW p \in Process,
         \A q \in Process : q # p => pc'[q] = pc[q] /\ op'[q] = op[q],
         UNCHANGED disk, LeaveOnItsWay(p) \/ Discard(p),
         pc[p] = "n-send" => disk.phase \in ActivatedPhases
  PROVE  RequestsOwned'
<1>1. /\ \A u \in updates : u.process \in Process /\ ServiceRequest(u) /\ u \in Update
      /\ \A u \in nodeUpdates : u.process \in Process /\ NodeRequest(u) /\ u \in NodeUpdate
  BY DEF MaintenanceInv, SafetyInv, TypeOK, SwarmTypeOK, Update, NodeUpdate, RequestsOwned
<1>2. ASSUME NEW u \in nodeUpdates, u.process = p, ~u.sent
      PROVE  disk.phase \in ActivatedPhases
  BY <1>1, <1>2, FinishHeld
     DEF NodeRequest, OutOfStep, Unlocked, NodeLabels, CopyFits, ActivatedPhases
<1>3. ASSUME NEW u \in updates', u \notin updates \/ (u.process = p /\ ~u.sent)
      PROVE  LateDelivery /\ u.sent
  BY <1>1, <1>3 DEF LeaveOnItsWay, Discard, OnItsWay, UnsentOf, Update
<1>4. ASSUME NEW u \in nodeUpdates', u \notin nodeUpdates \/ (u.process = p /\ ~u.sent)
      PROVE  LateDelivery /\ disk.phase \in ActivatedPhases /\ u.sent
  BY <1>1, <1>2, <1>4 DEF LeaveOnItsWay, Discard, OnItsWay, UnsentOf, NodeUpdate
<1>5. \A u \in updates' : ServiceRequest(u)'
  BY <1>1, <1>3 DEF ServiceRequest
<1>6. \A u \in nodeUpdates' : NodeRequest(u)'
  BY <1>1, <1>4 DEF NodeRequest
<1> QED
  BY <1>5, <1>6 DEF RequestsOwned

(* ... has one accepted, ... *)
LEMMA OwnedAccepted ==
  ASSUME MaintenanceInv, NEW p \in Process,
         \A q \in Process : q # p => pc'[q] = pc[q] /\ op'[q] = op[q],
         UNCHANGED disk,
         \/ \E u \in UnsentOf(p, updates) : AcceptUpdate(u)
         \/ \E u \in UnsentOf(p, nodeUpdates) : AcceptNodeUpdate(u),
         pc[p] = "n-send" => \A u, v \in UnsentOf(p, nodeUpdates) : u.node = v.node
  PROVE  RequestsOwned'
<1>1. /\ \A u \in updates : u.process \in Process /\ ServiceRequest(u)
      /\ \A u \in nodeUpdates : u.process \in Process /\ NodeRequest(u)
  BY DEF MaintenanceInv, SafetyInv, TypeOK, SwarmTypeOK, Update, NodeUpdate, RequestsOwned
<1>2. CASE \E u \in UnsentOf(p, updates) : AcceptUpdate(u)
  <2>1. PICK u \in updates : u.process = p /\ ~u.sent /\ AcceptUpdate(u)
    BY <1>2 DEF UnsentOf
  <2>2. pc[p] = "send" /\ nodeUpdates' = nodeUpdates /\ updates' = { v \in updates : v.service # u.service }
    BY <1>1, <2>1 DEF ServiceRequest, AcceptUpdate, SpecChanged
  <2>3. ASSUME NEW v \in updates', v.process = p
        PROVE  v.sent
    BY <1>1, <2>1, <2>2, <2>3 DEF ServiceRequest, MaintenanceInv, SafetyInv, IntentFirst
  <2>4. \A v \in nodeUpdates : v.process = p => v.sent
    BY <1>1, <2>2 DEF NodeRequest
  <2> QED
    BY <1>1, <2>2, <2>3, <2>4 DEF RequestsOwned, ServiceRequest, NodeRequest
<1>3. CASE \E u \in UnsentOf(p, nodeUpdates) : AcceptNodeUpdate(u)
  <2>1. PICK u \in nodeUpdates : u.process = p /\ ~u.sent /\ AcceptNodeUpdate(u)
    BY <1>3 DEF UnsentOf
  <2>2. /\ pc[p] \in {"f-send", "n-send"} /\ updates' = updates
        /\ nodeUpdates' = { v \in nodeUpdates : v.node # u.node }
        /\ \A v \in nodeUpdates : v.process = p /\ ~v.sent => v.node = u.node
    BY <1>1, <2>1 DEF NodeRequest, AcceptNodeUpdate, NodeSpecChanged, UnsentOf
  <2>3. /\ \A v \in nodeUpdates' : v.process = p => v.sent
        /\ \A v \in updates : v.process = p => v.sent
    BY <1>1, <2>2 DEF NodeRequest, ServiceRequest
  <2> QED
    BY <1>1, <2>2, <2>3 DEF RequestsOwned, ServiceRequest, NodeRequest
<1> QED
  BY <1>2, <1>3

(* ... or prepares one. *)
LEMMA OwnedPrepared ==
  ASSUME MaintenanceInv, NEW p \in Process,
         \A q \in Process : q # p => pc'[q] = pc[q] /\ op'[q] = op[q],
         UNCHANGED disk, pc[p] \notin {"send", "f-send", "n-send"},
         \/ /\ pc'[p] = "send" /\ op'[p] = op[p]
            /\ ReadServiceVersion(p, Current(p).service, CurrentNumber(p))
         \/ pc'[p] = "f-send" /\ ReadNodeVersion(p, Target, "active")
         \/ pc'[p] = "n-send" /\ \E n \in Node, to \in {"active", "drain"} : ReadNodeVersion(p, n, to)
  PROVE  RequestsOwned'
<1>1. /\ \A u \in updates : u.process \in Process /\ ServiceRequest(u)
      /\ \A u \in nodeUpdates : u.process \in Process /\ NodeRequest(u)
  BY DEF MaintenanceInv, SafetyInv, TypeOK, SwarmTypeOK, Update, NodeUpdate, RequestsOwned
<1>2. /\ \A u \in updates : u.process = p => u.sent
      /\ \A u \in nodeUpdates : u.process = p => u.sent
  BY <1>1 DEF ServiceRequest, NodeRequest
<1>3. CASE /\ pc'[p] = "send" /\ op'[p] = op[p]
           /\ ReadServiceVersion(p, Current(p).service, CurrentNumber(p))
  <2>1. /\ updates' = updates \cup {[process |-> p, service |-> Current(p).service,
                                    attempt |-> CurrentNumber(p), sent |-> FALSE]}
        /\ nodeUpdates' = nodeUpdates
    BY <1>3 DEF ReadServiceVersion
  <2> QED
    BY <1>1, <1>2, <1>3, <2>1 DEF RequestsOwned, ServiceRequest, NodeRequest, CurrentNumber
<1>4. ASSUME NEW n \in Node, NEW to \in {"active", "drain"}, ReadNodeVersion(p, n, to),
             \/ pc'[p] = "f-send" /\ n = Target /\ to = "active"
             \/ pc'[p] = "n-send"
      PROVE  RequestsOwned'
  <2>1. /\ nodeUpdates' = nodeUpdates \cup {[process |-> p, node |-> n, to |-> to, sent |-> FALSE]}
        /\ updates' = updates
    BY <1>4 DEF ReadNodeVersion
  <2> QED
    BY <1>1, <1>2, <1>4, <2>1 DEF RequestsOwned, ServiceRequest, NodeRequest
<1> QED
  BY <1>3, <1>4, SwarmAssumption

LEMMA FinishRequests ==
  ASSUME MaintenanceInv, NEW p \in Process, FinishStep(p), PhaseStep(p),
         \A q \in Process : q # p => pc'[q] = pc[q] /\ op'[q] = op[q]
  PROVE  RequestsOwned'
<1>1. CASE ReadTarget(p)
  <2>1. pc'[p] = "f-send"
    BY <1>1 DEF ReadTarget, Goto, MaintenanceInv, SafetyInv, TypeOK, CommandTypeOK
  <2> QED
    BY <1>1, <2>1, OwnedPrepared, SwarmAssumption DEF ReadTarget, stateVars
<1>2. CASE ActivationAccepted(p)
  BY <1>2, OwnedAccepted DEF ActivationAccepted, stateVars
<1>3. CASE ActivationDelayed(p) \/ ActivationFails(p) \/ KillFinish(p)
  BY <1>3, OwnedGivenUp
     DEF ActivationDelayed, ActivationFails, KillFinish, Killed, FinishLabels, stateVars
<1>4. FinishOpening(p) \/ Returning(p) \/ Verifying(p) \/ ReadTargetFails(p) \/ SaveVerifying(p)
        => UNCHANGED swarmVars /\ pc[p] \notin {"send", "f-send", "n-send"}
  BY DEF FinishOpening, BeginFinish, Begin, LockFinish, Lock, FinishLockRefused, ReloadFinish,
         FinishPhaseRefused, FinishOpeningFails, Returning, ReturnNodes, ReturnInspectFails,
         ReturnServices, SaveReturn, SaveActivating, SaveOrReturn, Verifying, VerifyNodes,
         VerifyServices, VerifyInspectFails, VerifyTimesOut, SaveCompleted, Fail,
         ReadTargetFails, SaveVerifying
<1> QED
  BY <1>1, <1>2, <1>3, <1>4, OwnedQuietly DEF FinishStep, Activating, swarmVars

-----------------------------------------------------------------------------
(* A step of reconcile, seen from finish. *)

ReconcileMove(p) ==
  /\ disk' # disk => pc[p] \notin Unlocked
  /\ PhaseStep(p)
  /\ pc'[p] \in ReconcileLabels \cup {"idle"}
  /\ pc'[p] = "preserve" => disk'.phase \in ReconcilePhases
  /\ pc'[p] = "record" => disk'.phase \in {"waiting-services", "maintenance-ready"}

LEMMA OpeningMoves ==
  ASSUME MaintenanceInv, NEW p \in Process, Opening(p)
  PROVE  ReconcileMove(p)
<1> USE DEF MaintenanceInv, SafetyInv, TypeOK, CommandTypeOK, Goto, ReconcileLabels
<1>1. UNCHANGED disk
  BY DEF Opening, BeginReconcile, Begin, LockReconcile, Lock, LockRefused, ReloadReconcile,
         PhaseRefused, InspectNodes, InspectServices, OpeningFails, StateRefused, stateVars
<1>2. pc'[p] \in {"idle", "locking", "reloading", "inspect", "services", "resume", "select"}
  BY DEF Opening, BeginReconcile, Begin, LockReconcile, Lock, LockRefused, ReloadReconcile,
         PhaseRefused, InspectNodes, InspectServices, OpeningFails, StateRefused, Exit, Leave
<1> QED
  BY <1>1, <1>2 DEF ReconcileMove, PhaseStep

LEMMA DecidingMoves ==
  ASSUME MaintenanceInv, NEW p \in Process, Deciding(p)
  PROVE  ReconcileMove(p)
<1> USE FinishHeld DEF MaintenanceInv, SafetyInv, TypeOK, CommandTypeOK, Goto, ReconcileLabels
<1>1. CASE \/ ResumeRefused(p) \/ Resume(p) \/ SelectRefused(p) \/ Select(p)
           \/ CandidateRefused(p) \/ CandidateConverged(p)
  <2>1. UNCHANGED disk /\ pc'[p] \in {"idle", "complete", "issue", "poll", "next"}
    BY <1>1
       DEF ResumeRefused, Resume, SelectRefused, Select, CandidateRefused, CandidateConverged,
           stateVars, commandVars, Exit, Leave
  <2> QED
    BY <2>1 DEF ReconcileMove, PhaseStep, Polling
<1>2. CASE ReadyAtOnce(p) \/ Ready(p)
  <2> DEFINE ready == Moved(op[p], "maintenance-ready")
  <2>1. pc[p] \in {"select", "next"} /\ MayMove(op[p], "maintenance-ready")
    BY <1>2 DEF ReadyAtOnce, Ready
  <2>2. disk = op[p] /\ pc[p] \notin Unlocked /\ op[p].phase = "waiting-services"
    BY <2>1 DEF OutOfStep, Unlocked, NodeLabels, PhaseKnown, PhaseFits
  <2>3. ready.phase = "maintenance-ready"
    BY <2>2, MovedIs, PhasesAre
  <2>4. disk' \in {disk, ready} /\ pc'[p] \in {"idle", "record"}
    BY <1>2 DEF ReadyAtOnce, Ready, SaveSucceeds, SaveFails, Exit, Leave
  <2> HIDE DEF ready
  <2> QED
    BY <2>1, <2>2, <2>3, <2>4 DEF ReconcileMove, PhaseStep
<1>3. CASE Declare(p)
  <2>1. pc[p] = "next" /\ MayMove(op[p], "reconciling")
    BY <1>3 DEF Declare
  <2>2. disk = op[p] /\ pc[p] \notin Unlocked
    BY <2>1 DEF OutOfStep, Unlocked, NodeLabels
  <2>3. /\ disk'.phase \in {disk.phase, "reconciling"}
        /\ pc'[p] \in {"idle", "issue"}
    BY <1>3 DEF Declare, Declared, SaveSucceeds, SaveFails, Exit, Leave
  <2> QED
    BY <2>1, <2>2, <2>3 DEF ReconcileMove, PhaseStep
<1>4. CASE RecordError(p)
  <2>1. pc[p] = "record" /\ pc'[p] = "idle" /\ disk' \in {disk, op[p]}
    BY <1>4 DEF RecordError, Save, SaveSucceeds, SaveFails, Exit, Leave
  <2>2. /\ op[p].phase = "maintenance-ready"
        /\ disk.phase \in {"waiting-services", "maintenance-ready"}
    BY <2>1 DEF PhaseKnown, PhaseFits, CopyFits
  <2> QED
    BY <2>1, <2>2 DEF ReconcileMove, PhaseStep, MayMove, AllowedTransitions, Unlocked
<1> QED
  BY <1>1, <1>2, <1>3, <1>4 DEF Deciding

LEMMA UpdatingMoves ==
  ASSUME MaintenanceInv, NEW p \in Process, Updating(p)
  PROVE  ReconcileMove(p)
<1> USE FinishHeld DEF MaintenanceInv, SafetyInv, TypeOK, CommandTypeOK, Goto, ReconcileLabels
<1>1. CASE pc[p] \in Polling \cup {"issue", "send"}
  <2>1. disk.phase = "reconciling"
    BY <1>1, AtWork DEF WorkingLabels, PhaseKnown, PhaseFits
  <2>2. UNCHANGED disk /\ pc'[p] \in ReconcileLabels \ {"record"}
    BY <1>1
       DEF Updating, ReadServiceSpec, ReadServiceSpecFails, UpdateAccepted, UpdateDelayed,
           UpdateFails, PollNodes, PollServices, PollRefused, PollFails, Complete, Preserve,
           stateVars, Polling
  <2> QED
    BY <2>1, <2>2 DEF ReconcileMove, PhaseStep, ReconcilePhases
<1>2. CASE Complete(p)
  <2> DEFINE next == Moved(WithLastOpen(op[p], FALSE), "waiting-services")
  <2>1. pc[p] = "complete" /\ MayMove(op[p], "waiting-services")
    BY <1>2 DEF Complete
  <2>2. disk = op[p] /\ pc[p] \notin Unlocked /\ op[p].phase = "reconciling"
    BY <2>1 DEF OutOfStep, Unlocked, NodeLabels, PhaseKnown, PhaseFits, WorkingLabels
  <2>3. next.phase = "waiting-services"
    BY <2>2, WithLastOpenIs, MovedIs, PhasesAre
  <2>4. disk' \in {disk, next} /\ pc'[p] \in {"select", "next", "preserve"}
    BY <1>2 DEF Complete, SaveSucceeds, SaveFails
  <2> HIDE DEF next
  <2> QED
    BY <2>1, <2>2, <2>3, <2>4 DEF ReconcileMove, PhaseStep, ReconcilePhases
<1>3. CASE Preserve(p)
  <2> DEFINE open == WithLastOpen(op[p], TRUE)
             next == Preserved(op[p])
  <2>1. pc[p] = "preserve" /\ pc'[p] = "idle" /\ disk' \in {disk, next}
    BY <1>3 DEF Preserve, Save, SaveSucceeds, SaveFails, Exit, Leave
  <2>2. open \in Operations
    BY WithLastOpenIs
  <2>3. next.phase = "reconciling"
    BY <2>2, MovedIs, PhasesAre DEF Preserved
  <2>4. disk.phase \in ReconcilePhases
    BY <2>1 DEF CopyFits
  <2> HIDE DEF open, next
  <2> QED
    BY <2>1, <2>3, <2>4
       DEF ReconcileMove, PhaseStep, ReconcilePhases, MayMove, AllowedTransitions, Unlocked
<1> QED
  BY <1>1, <1>2, <1>3
     DEF Updating, ReadServiceSpec, ReadServiceSpecFails, UpdateAccepted, UpdateDelayed,
         UpdateFails, PollNodes, PollServices, PollRefused, PollFails, Polling

LEMMA ReconcileMoves ==
  ASSUME MaintenanceInv, NEW p \in Process, ReconcileStep(p)
  PROVE  ReconcileMove(p)
<1>1. CASE KillReconcile(p)
  BY <1>1
     DEF KillReconcile, Killed, ReconcileMove, PhaseStep, Goto, MaintenanceInv, SafetyInv,
         TypeOK, CommandTypeOK
<1> QED
  BY <1>1, OpeningMoves, DecidingMoves, UpdatingMoves DEF ReconcileStep

LEMMA ReconcileRequests ==
  ASSUME MaintenanceInv, NEW p \in Process, ReconcileStep(p), PhaseStep(p),
         \A q \in Process : q # p => pc'[q] = pc[q] /\ op'[q] = op[q]
  PROVE  RequestsOwned'
<1>1. CASE ReadServiceSpec(p)
  <2>1. pc'[p] = "send" /\ op'[p] = op[p]
    BY <1>1 DEF ReadServiceSpec, Goto, MaintenanceInv, SafetyInv, TypeOK, CommandTypeOK
  <2> QED
    BY <1>1, <2>1, OwnedPrepared DEF ReadServiceSpec, stateVars
<1>2. CASE UpdateAccepted(p)
  BY <1>2, OwnedAccepted DEF UpdateAccepted, stateVars
<1>3. CASE UpdateDelayed(p) \/ UpdateFails(p) \/ KillReconcile(p)
  BY <1>3, OwnedGivenUp
     DEF UpdateDelayed, UpdateFails, KillReconcile, Killed, ReconcileLabels, Polling, stateVars
<1>4. CASE Opening(p)
  <2>1. UNCHANGED swarmVars /\ pc[p] \notin {"send", "f-send", "n-send"}
    BY <1>4
       DEF Opening, BeginReconcile, Begin, LockReconcile, Lock, LockRefused, ReloadReconcile,
           PhaseRefused, InspectNodes, InspectServices, OpeningFails, StateRefused
  <2> QED
    BY <2>1, OwnedQuietly DEF swarmVars
<1>5. CASE Deciding(p)
  <2>1. UNCHANGED swarmVars /\ pc[p] \notin {"send", "f-send", "n-send"}
    BY <1>5
       DEF Deciding, ResumeRefused, Resume, SelectRefused, Select, ReadyAtOnce,
           CandidateRefused, CandidateConverged, Declare, Ready, RecordError
  <2> QED
    BY <2>1, OwnedQuietly DEF swarmVars
<1>6. CASE \/ ReadServiceSpecFails(p) \/ PollNodes(p) \/ PollServices(p) \/ PollRefused(p)
           \/ PollFails(p) \/ Complete(p) \/ Preserve(p)
  <2>1. UNCHANGED swarmVars /\ pc[p] \notin {"send", "f-send", "n-send"}
    BY <1>6
       DEF ReadServiceSpecFails, PollNodes, PollServices, PollRefused, PollFails, Complete,
           Preserve, Polling
  <2> QED
    BY <2>1, OwnedQuietly DEF swarmVars
<1> QED
  BY <1>1, <1>2, <1>3, <1>4, <1>5, <1>6 DEF ReconcileStep, Updating

-----------------------------------------------------------------------------
(* MaintenanceInv is inductive. *)

(* Where a step of reconcile starts, and what it leaves of the others.     *)
LEMMA ReconcileStarts ==
  ASSUME NEW p \in Process, ReconcileStep(p)
  PROVE  pc[p] \in ReconcileLabels \cup {"idle"}
<1> USE DEF ReconcileLabels, Polling
<1>1. CASE Opening(p)
  BY <1>1
     DEF Opening, BeginReconcile, Begin, LockReconcile, Lock, LockRefused, ReloadReconcile,
         PhaseRefused, InspectNodes, InspectServices, OpeningFails, StateRefused
<1>2. CASE Deciding(p)
  BY <1>2
     DEF Deciding, ResumeRefused, Resume, SelectRefused, Select, ReadyAtOnce,
         CandidateRefused, CandidateConverged, Declare, Ready, RecordError
<1>3. CASE Updating(p)
  BY <1>3
     DEF Updating, ReadServiceSpec, ReadServiceSpecFails, UpdateAccepted, UpdateDelayed,
         UpdateFails, PollNodes, PollServices, PollRefused, PollFails, Complete, Preserve
<1> QED
  BY <1>1, <1>2, <1>3 DEF ReconcileStep, KillReconcile

LEMMA OthersReport ==
  ASSUME SafetyInv, NEW p \in Process, ReconcileStep(p), NEW q \in Process, q # p
  PROVE  mutated'[q] = mutated[q] /\ outcome'[q] = outcome[q]
<1> USE DEF SafetyInv, TypeOK, CommandTypeOK
<1>1. ASSUME NEW result, Exit(p, result)
      PROVE  mutated'[q] = mutated[q] /\ outcome'[q] = outcome[q]
  BY <1>1 DEF Exit, Leave
<1>2. CASE Opening(p)
  BY <1>1, <1>2
     DEF Opening, BeginReconcile, Begin, LockReconcile, Lock, LockRefused, ReloadReconcile,
         PhaseRefused, InspectNodes, InspectServices, OpeningFails, StateRefused
<1>3. CASE ResumeRefused(p) \/ Resume(p) \/ SelectRefused(p) \/ Select(p) \/ ReadyAtOnce(p)
  BY <1>1, <1>3 DEF ResumeRefused, Resume, SelectRefused, Select, ReadyAtOnce
<1>4. CASE CandidateRefused(p) \/ CandidateConverged(p) \/ Declare(p) \/ Ready(p) \/ RecordError(p)
  BY <1>1, <1>4
     DEF CandidateRefused, CandidateConverged, commandVars, Declare, Ready, RecordError
<1>5. CASE Updating(p)
  BY <1>1, <1>5
     DEF Updating, ReadServiceSpec, ReadServiceSpecFails, UpdateAccepted, UpdateDelayed,
         UpdateFails, PollNodes, PollServices, PollRefused, PollFails, Complete, Preserve
<1>6. CASE KillReconcile(p)
  BY <1>6 DEF KillReconcile, Killed
<1> QED
  BY <1>2, <1>3, <1>4, <1>5, <1>6 DEF ReconcileStep, Deciding

LEMMA ReconcileKeeps ==
  ASSUME MaintenanceInv, NEW p \in Process, ReconcileStep(p), UNCHANGED seen
  PROVE  MaintenanceInv'
<1>1. SafetyInv /\ SafetyInv'
  BY OpeningKeeps, DecidingKeeps, UpdatingKeeps, KillKeeps DEF MaintenanceInv, ReconcileStep
<1>2. ReconcileMove(p)
  BY ReconcileMoves
<1>3. \A q \in Process : q # p => /\ pc'[q] = pc[q] /\ op'[q] = op[q]
                                  /\ mutated'[q] = mutated[q] /\ outcome'[q] = outcome[q]
  BY <1>1, OthersKeep, OthersReport
<1>4. RunsFit'
  <2>1. ASSUME NEW q \in Process, q # p
        PROVE  CopyFits(pc[q], op[q], disk')
    <3>1. CASE disk' = disk
      BY <3>1 DEF MaintenanceInv, RunsFit
    <3>2. CASE disk' # disk
      <4>1. pc[q] \in Unlocked
        BY <1>1, <1>2, <2>1, <3>2, OthersWait DEF ReconcileMove, SafetyInv
      <4> QED
        BY <4>1 DEF CopyFits, Unlocked
    <3> QED
      BY <3>1, <3>2
  <2>2. /\ CopyFits(pc'[p], op'[p], disk')
        /\ AccountFits(pc'[p], op'[p], seen'[p], mutated'[p], outcome'[p])
    BY <1>2 DEF ReconcileMove, CopyFits, AccountFits, ReconcileLabels, Polling, FinishLabels
  <2> QED
    BY <1>3, <2>1, <2>2 DEF MaintenanceInv, RunsFit
<1>5. RequestsOwned'
  BY <1>2, <1>3, ReconcileRequests DEF ReconcileMove
<1> QED
  BY <1>1, <1>4, <1>5 DEF MaintenanceInv, SeenTypeOK

LEMMA FinishKeeps ==
  ASSUME MaintenanceInv, NEW p \in Process, FinishStep(p), UNCHANGED run
  PROVE  MaintenanceInv'
<1>1. PICK label, o : FinishMove(p, label, o)
  BY FinishMoves
<1>2. SwarmTypeOK' /\ IntentFirst'
  BY <1>1, FinishSwarm DEF FinishMove, CommandMove
<1>3. SafetyInv' /\ SeenTypeOK' /\ RunsFit'
  BY <1>1, <1>2, CommandMoveKeeps DEF FinishMove
<1>4. \A q \in Process : q # p => pc'[q] = pc[q] /\ op'[q] = op[q]
  BY <1>1 DEF FinishMove, CommandMove, Goto, SetOp, MaintenanceInv, SafetyInv, TypeOK, CommandTypeOK
<1>5. RequestsOwned'
  BY <1>1, <1>4, FinishRequests DEF FinishMove, CommandMove, ReturnStep
<1> QED
  BY <1>3, <1>5 DEF MaintenanceInv

(* The Swarm by itself only uses requests up.                              *)
LEMMA SwarmUsesUp ==
  SwarmStep => updates' \subseteq updates /\ nodeUpdates' \subseteq nodeUpdates
BY DEF SwarmStep, LateUpdate, AcceptUpdate, LateNodeUpdate, AcceptNodeUpdate, NodeSpecChanged,
       ServiceStep, Converge, TasksChange, RemoveService, OutsideForceUpdate, Rollback,
       SpecChanged, TargetChanges, EndpointChanges, MembersChange

LEMMA SwarmKeepsRuns ==
  ASSUME MaintenanceInv, UNCHANGED <<stateVars, commandVars, run, seen>>,
         SwarmStep \/ UNCHANGED swarmVars
  PROVE  MaintenanceInv'
<1>1. SwarmTypeOK' /\ IntentFirst'
  BY SwarmKeeps, SwarmTypeKept, QuietIntent DEF MaintenanceInv, SafetyInv, TypeOK, stateVars
<1>2. updates' \subseteq updates /\ nodeUpdates' \subseteq nodeUpdates
  BY SwarmUsesUp DEF swarmVars
<1>3. SafetyInv' /\ SeenTypeOK' /\ RunsFit'
  BY <1>1
     DEF MaintenanceInv, SafetyInv, TypeOK, CommandTypeOK, NoLostUpdate, PhaseKnown, LogKept,
         SeenTypeOK, RunsFit, stateVars, commandVars
<1>4. RequestsOwned'
  BY <1>2
     DEF MaintenanceInv, RequestsOwned, ServiceRequest, NodeRequest, stateVars, commandVars
<1> QED
  BY <1>3, <1>4 DEF MaintenanceInv

LEMMA MaintenanceInitFits == MaintenanceInit => MaintenanceInv
<1> SUFFICES ASSUME MaintenanceInit
             PROVE  MaintenanceInv
  OBVIOUS
<1>1. SafetyInv
  BY InitSafe DEF MaintenanceInit
<1>2. RunsFit
  BY DEF MaintenanceInit, Init, CommandInit, RunsFit, CopyFits, AccountFits, FinishLabels
<1>3. SeenTypeOK /\ RequestsOwned
  BY DEF MaintenanceInit, Init, SwarmInit, SeenTypeOK, RequestsOwned
<1> QED
  BY <1>1, <1>2, <1>3 DEF MaintenanceInv

LEMMA MaintenanceNextFits ==
  ASSUME MaintenanceInv, [MaintenanceNext]_maintenanceVars
  PROVE  MaintenanceInv'
<1>1. CASE UNCHANGED maintenanceVars
  BY <1>1, SwarmKeepsRuns DEF maintenanceVars
<1>2. CASE MaintenanceNext
  BY <1>2, ReconcileKeeps, FinishKeeps, SwarmKeepsRuns DEF MaintenanceNext, CommandStep
<1> QED
  BY <1>1, <1>2

(* Every reachable state of the two commands satisfies MaintenanceInv.     *)
THEOREM MaintenanceSafety == MaintenanceSpec => []MaintenanceInv
BY MaintenanceInitFits, MaintenanceNextFits, PTL DEF MaintenanceSpec

-----------------------------------------------------------------------------
(* The state of the two commands always has its type.                      *)
THEOREM MaintenanceTypeCorrect == MaintenanceSpec => []MaintenanceTypeOK
<1>1. MaintenanceInv => MaintenanceTypeOK
  BY DEF MaintenanceInv, SafetyInv, TypeOK, SeenTypeOK, MaintenanceTypeOK
<1> QED
  BY <1>1, MaintenanceSafety, PTL

(* In a specification of the two commands alone no process is in another.  *)
NoNodeCommands == \A p \in Process : pc[p] \notin NodeLabels

LEMMA NodesLeftAlone == MaintenanceSpec => []NoNodeCommands
<1> USE DEF NoNodeCommands, NodeLabels
<1>1. MaintenanceInit => NoNodeCommands
  BY DEF MaintenanceInit, Init, CommandInit
<1>2. ASSUME MaintenanceInv, NoNodeCommands, [MaintenanceNext]_maintenanceVars
      PROVE  NoNodeCommands'
  <2>1. ASSUME NEW p \in Process, ReconcileStep(p)
        PROVE  NoNodeCommands'
    BY <1>2, <2>1, ReconcileMoves, OthersKeep
       DEF ReconcileMove, MaintenanceInv, ReconcileLabels, Polling
  <2>2. ASSUME NEW p \in Process, FinishStep(p)
        PROVE  NoNodeCommands'
    <3>1. PICK label \in FinishLabels \cup {"idle"} : Goto(p, label)
      BY <1>2, <2>2, FinishMoves DEF FinishMove, CommandMove
    <3> QED
      BY <1>2, <3>1 DEF Goto, FinishLabels, MaintenanceInv, SafetyInv, TypeOK, CommandTypeOK
  <2>3. CASE UNCHANGED pc
    BY <1>2, <2>3
  <2> QED
    BY <1>2, <2>1, <2>2, <2>3
       DEF MaintenanceNext, CommandStep, maintenanceVars, commandVars
<1> QED
  BY <1>1, <1>2, MaintenanceSafety, PTL DEF MaintenanceSpec

(* activateNode is reached only through a save of "activating", and from   *)
(* there the phase on disk only moves on: however runs die, race or are    *)
(* left with a request on its way, the file has announced the activation   *)
(* before the Swarm can receive it.                                        *)
THEOREM ActivationIsDeclared == MaintenanceSpec => []ActivationDeclared
<1>1. ASSUME MaintenanceInv, NoNodeCommands PROVE ActivationDeclared
  <2>1. ASSUME NEW u \in nodeUpdates, ~u.sent
        PROVE  disk.phase = "activating"
    <3>1. u.process \in Process /\ pc[u.process] = "f-send"
      BY <1>1, <2>1
         DEF MaintenanceInv, SafetyInv, TypeOK, SwarmTypeOK, NodeUpdate, RequestsOwned,
             NodeRequest, NoNodeCommands, NodeLabels
    <3>2. op[u.process].phase = "activating" /\ disk = op[u.process]
      BY <1>1, <3>1, FinishHeld DEF CopyFits, OutOfStep, Unlocked, NodeLabels
    <3> QED
      BY <3>2
  <2>2. \A u \in nodeUpdates : u.sent => disk.phase \in ActivatedPhases
    BY <1>1 DEF MaintenanceInv, RequestsOwned, NodeRequest
  <2> QED
    BY <2>1, <2>2 DEF ActivationDeclared, ActivatedPhases
<1> QED
  BY <1>1, MaintenanceSafety, NodesLeftAlone, PTL

LEMMA ConfinedFits ==
  ASSUME LateDelivery = FALSE, MaintenanceInv
  PROVE  ForceUpdatesConfined
<1>1. ASSUME NEW u \in updates
      PROVE  disk.phase = "reconciling"
  <2>1. u.process \in Process /\ pc[u.process] = "send"
    BY <1>1
       DEF MaintenanceInv, SafetyInv, TypeOK, SwarmTypeOK, Update, RequestsOwned, ServiceRequest
  <2> QED
    BY <2>1, AtWork DEF MaintenanceInv, SafetyInv, WorkingLabels, PhaseKnown, PhaseFits
<1> QED
  BY <1>1 DEF ForceUpdatesConfined

(* Where updates are answered before they time out, no force update is     *)
(* ready to be sent in any phase of finish: a run that prepared one still  *)
(* has the lock, with "reconciling" on disk.                               *)
THEOREM ForceUpdatesStayConfined ==
  ASSUME LateDelivery = FALSE
  PROVE  MaintenanceSpec => []ForceUpdatesConfined
BY ConfinedFits, MaintenanceSafety, PTL

(* Every step of the two commands moves the phase on disk as PhaseStep.    *)
LEMMA EveryStepMoves ==
  ASSUME MaintenanceInv, [MaintenanceNext]_maintenanceVars
  PROVE  \/ disk'.phase = disk.phase
         \/ \E p \in Process : PhaseStep(p)
<1>1. CASE \E p \in Process : ReconcileStep(p)
  BY <1>1, ReconcileMoves DEF ReconcileMove
<1>2. CASE \E p \in Process : FinishStep(p)
  <2>1. PICK p \in Process : FinishStep(p)
    BY <1>2
  <2>2. PICK label, o : FinishMove(p, label, o)
    BY <2>1, FinishMoves
  <2> QED
    BY <2>2 DEF FinishMove, CommandMove, ReturnStep
<1>3. CASE UNCHANGED disk
  BY <1>3
<1> QED
  BY <1>1, <1>2, <1>3 DEF MaintenanceNext, CommandStep, maintenanceVars, stateVars

(* Whatever runs are killed, refused or left with a save that failed, what *)
(* Store.Save writes over what is on disk is one of allowedTransitions.    *)
THEOREM PhasesFollowTable == MaintenanceSpec => LifecycleFollowsTable
<1>1. ASSUME MaintenanceInv, [MaintenanceNext]_maintenanceVars
      PROVE  [disk'.phase # disk.phase => MayMove(disk, disk'.phase)]_maintenanceVars
  BY <1>1, EveryStepMoves DEF PhaseStep
<1> QED
  BY <1>1, MaintenanceSafety, PTL DEF MaintenanceSpec, LifecycleFollowsTable

(* "completed" is saved by the process that has the lock, whose last full  *)
(* inspection showed nodes, target and services as they have to be, or     *)
(* again by that run when the first save of it failed.                     *)
THEOREM CompletionIsProven == MaintenanceSpec => CompletedIsProven
<1> DEFINE Proven == disk.phase # "completed" /\ disk'.phase = "completed"
                       => \E p \in Process : lock = p /\ seen[p] = "active"
<1>1. ASSUME MaintenanceInv, [MaintenanceNext]_maintenanceVars
      PROVE  [Proven]_maintenanceVars
  BY <1>1, EveryStepMoves DEF PhaseStep
<1> QED
  BY <1>1, MaintenanceSafety, PTL DEF MaintenanceSpec, CompletedIsProven

(* What a run of finish may have done when it refuses. *)
RefusedUntouched ==
  \A p \in Process :
    /\ pc[p] \in FinishLabels /\ pc'[p] = "idle"
    /\ outcome'[p] \in {"blocked", "error"}
    => ~mutated[p]

LEMMA CommandRefuses ==
  ASSUME MaintenanceInv, NEW p \in Process, CommandStep(p)
  PROVE  RefusedUntouched
<1> USE DEF RefusedUntouched
<1>1. CASE ReconcileStep(p)
  <2>1. pc[p] \notin FinishLabels
    BY <1>1, ReconcileStarts DEF ReconcileLabels, Polling, FinishLabels
  <2>2. \A q \in Process : q # p => pc'[q] = pc[q]
    BY <1>1, OthersKeep DEF MaintenanceInv
  <2> QED
    BY <2>1, <2>2 DEF FinishLabels
<1>2. CASE FinishStep(p)
  <2>1. PICK label, o : FinishMove(p, label, o)
    BY <1>2, FinishMoves
  <2>2. pc'[p] = label /\ \A q \in Process : q # p => pc'[q] = pc[q]
    BY <2>1 DEF FinishMove, CommandMove, Goto, MaintenanceInv, SafetyInv, TypeOK, CommandTypeOK
  <2> QED
    BY <2>1, <2>2 DEF FinishMove, CommandMove, FinishLabels
<1> QED
  BY <1>1, <1>2 DEF CommandStep

(* A run of finish that reports "blocked" or a plain error has requested   *)
(* no activation, however its saves and its requests ended.                *)
THEOREM RefusalsChangeNothing == MaintenanceSpec => FinishRefusalUntouched
<1>1. ASSUME MaintenanceInv, [MaintenanceNext]_maintenanceVars
      PROVE  [RefusedUntouched]_maintenanceVars
  <2>1. UNCHANGED pc => RefusedUntouched
    BY DEF RefusedUntouched, FinishLabels
  <2> QED
    BY <1>1, <2>1, CommandRefuses DEF MaintenanceNext, maintenanceVars, commandVars
<1>2. MaintenanceSpec => [][RefusedUntouched]_maintenanceVars
  BY <1>1, MaintenanceSafety, PTL DEF MaintenanceSpec
<1> QED
  BY <1>2 DEF FinishRefusalUntouched, RefusedUntouched
=============================================================================
