--------------------------- MODULE Reconcile_proofs ---------------------------
(***************************************************************************)
(* Proofs about Reconcile, for every number of processes, services and     *)
(* nodes and every value of the other constants.                           *)
(***************************************************************************)
EXTENDS ReconcileInvariants, SequenceTheorems, TLAPS

-----------------------------------------------------------------------------
(* What the operators on operations return. *)

LEMMA PhasesAre ==
  Phases = {"created", "preflight-passed", "draining", "evacuating", "waiting-services",
            "reconciling", "maintenance-ready", "verifying-return", "activating",
            "verifying-cluster", "completed"}
BY DEF Phases, AllowedTransitions

LEMMA MovedIs ==
  ASSUME NEW o \in Operations, NEW ph \in Phases
  PROVE  /\ Moved(o, ph) \in Operations
         /\ Moved(o, ph).phase = ph
         /\ Moved(o, ph).attempts = o.attempts
BY DEF Moved, Operations

LEMMA WithLastOpenIs ==
  ASSUME NEW o \in Operations, NEW b \in BOOLEAN
  PROVE  /\ WithLastOpen(o, b) \in Operations
         /\ WithLastOpen(o, b).phase = o.phase
         /\ SameLog(o, WithLastOpen(o, b))
         /\ \A k \in DOMAIN o.attempts :
              WithLastOpen(o, b).attempts[k].open =
                IF k = Len(o.attempts) THEN b ELSE o.attempts[k].open
<1> DEFINE n == Len(o.attempts)
           a == [o.attempts EXCEPT ![n].open = b]
<1>1. WithLastOpen(o, b) = [o EXCEPT !.attempts = a]
  BY DEF WithLastOpen, Operations
<1>2. o.attempts \in Seq(Attempt) /\ DOMAIN o.attempts = 1..n
  BY DEF Operations
<1>3. /\ DOMAIN a = 1..n
      /\ \A k \in 1..n : a[k] = IF k = n THEN [o.attempts[k] EXCEPT !.open = b] ELSE o.attempts[k]
  BY <1>2
<1>4. \A k \in 1..n : o.attempts[k] \in Attempt
  BY <1>2
<1>5. \A k \in 1..n : /\ a[k] \in Attempt
                      /\ a[k].service = o.attempts[k].service
                      /\ a[k].before = o.attempts[k].before
                      /\ a[k].open = IF k = n THEN b ELSE o.attempts[k].open
  BY <1>3, <1>4 DEF Attempt
<1>6. a \in Seq(Attempt) /\ Len(a) = n
  <2>1. CASE n = 0
    <3>1. o.attempts \in [1..n -> Attempt]
      BY <1>2, LenProperties
    <3>2. a = o.attempts
      BY <2>1, <3>1
    <3> QED
      BY <1>2, <3>2
  <2>2. CASE n # 0
    <3>1. n \in 1..n
      BY <1>2, <2>2
    <3>2. a = [o.attempts EXCEPT ![n] = [o.attempts[n] EXCEPT !.open = b]]
      BY <1>2, <1>3, <3>1
    <3>3. [o.attempts[n] EXCEPT !.open = b] \in Attempt
      BY <1>3, <1>5, <3>1
    <3> QED
      BY <1>2, <3>1, <3>2, <3>3, ExceptSeq
  <2> QED
    BY <2>1, <2>2
<1>7. /\ WithLastOpen(o, b) \in Operations
      /\ WithLastOpen(o, b).phase = o.phase
      /\ WithLastOpen(o, b).attempts = a
  BY <1>1, <1>6 DEF Operations
<1> QED
  BY <1>2, <1>5, <1>6, <1>7 DEF SameLog

LEMMA DeclaredIs ==
  ASSUME NEW o \in Operations, NEW s \in Service, NEW c \in Nat
  PROVE  /\ Declared(o, s, c) \in Operations
         /\ Declared(o, s, c).phase = "reconciling"
         /\ Len(Declared(o, s, c).attempts) = Len(o.attempts) + 1
         /\ \A k \in 1..Len(o.attempts) : Declared(o, s, c).attempts[k] = o.attempts[k]
         /\ LastAttempt(Declared(o, s, c)) = Started(s, c)
<1>1. Started(s, c) \in Attempt
  BY DEF Started, Attempt
<1>2. o.attempts \in Seq(Attempt)
  BY DEF Operations
<1>3. Append(o.attempts, Started(s, c)) \in Seq(Attempt)
  BY <1>1, <1>2
<1> QED
  BY <1>1, <1>2, <1>3, PhasesAre DEF Declared, Operations, LastAttempt
-----------------------------------------------------------------------------
(* What the parts of the state may become. *)

LEMMA RunTypes ==
  ASSUME NEW r \in Run
  PROVE  /\ NoRun \in Run
         /\ \A b \in BOOLEAN : [r EXCEPT !.held = b] \in Run
         /\ \A b \in BOOLEAN : [r EXCEPT !.resuming = b] \in Run
         /\ \A i : [r EXCEPT !.todo = @ \ {i}] \in Run
         /\ \A c \in SUBSET (DOMAIN Affected) :
              [r EXCEPT !.todo = c, !.resuming = FALSE] \in Run
         /\ \A v \in [Service -> ServiceView], c \in SUBSET Service :
              [r EXCEPT !.services = v, !.proven = @ \cup c] \in Run
<1>1. NoRun \in Run
  BY DEF NoRun, Run, ServiceView, Conditions, Healths
<1> QED
  BY <1>1 DEF Run

LEMMA SwarmTypeKept ==
  SwarmTypeOK /\ UNCHANGED swarmVars => SwarmTypeOK'
BY DEF SwarmTypeOK, swarmVars

LEMMA ViewTypes ==
  ASSUME SwarmTypeOK
  PROVE  /\ TargetHeld \in BOOLEAN
         /\ ServiceViews \in [Service -> ServiceView]
         /\ \A s \in Service : ConditionOf(s) \in Conditions
BY DEF SwarmTypeOK, TargetHeld, ServiceViews, ServiceView, ConditionOf, Conditions, LiveService, Healths

LEMMA NoOperationType == NoOperation \in Operations
BY PhasesAre DEF NoOperation, Operations

(* The log of a record may only be extended. *)
LogGrows(old, new) ==
  \A k \in DOMAIN old.attempts :
    k \in DOMAIN new.attempts /\ new.attempts[k].service = old.attempts[k].service

-----------------------------------------------------------------------------
(* The three ways a process takes a step once it has loaded the operation: *)
(* it returns, it moves on with the file and its copy as they are, or it   *)
(* saves.  In each, no other process is past the lock.                     *)

LEMMA QuietIntent ==
  IntentFirst /\ UNCHANGED <<disk, swarmVars>> => IntentFirst'
BY DEF IntentFirst, swarmVars

(* What the lock means for the others. *)
LEMMA OthersWait ==
  ASSUME NoLostUpdate, NEW p \in Process, pc[p] \notin Unlocked,
         NEW q \in Process, q # p
  PROVE  pc[q] \in Unlocked
BY DEF NoLostUpdate

LEMMA LeavingKeeps ==
  ASSUME SafetyInv, NEW p \in Process,
         Goto(p, "idle"), SetOp(p, NoOperation), ReleaseClusterLock(p),
         run' = [run EXCEPT ![p] = NoRun],
         outcome' \in [Process -> Outcomes], UNCHANGED mutated,
         disk' \in Operations, disk' = disk \/ pc[p] \notin Unlocked,
         SwarmTypeOK', IntentFirst'
  PROVE  SafetyInv'
<1>1. TypeOK'
  BY RunTypes, NoOperationType
     DEF SafetyInv, TypeOK, CommandTypeOK, Goto, SetOp, ReleaseClusterLock, Labels
<1>2. ASSUME NEW q \in Process
      PROVE  /\ pc'[q] = IF q = p THEN "idle" ELSE pc[q]
             /\ op'[q] = IF q = p THEN NoOperation ELSE op[q]
             /\ pc'[q] \notin Unlocked => disk' = disk /\ lock' = lock /\ q # p
  BY OthersWait
     DEF SafetyInv, TypeOK, CommandTypeOK, Goto, SetOp, ReleaseClusterLock, NoLostUpdate,
         Unlocked
<1>3. NoLostUpdate'
  BY <1>2 DEF SafetyInv, NoLostUpdate, OutOfStep
<1>4. PhaseKnown'
  BY <1>2 DEF SafetyInv, PhaseKnown, PhaseFits, WorkingLabels, Polling
<1>5. LogKept'
  BY <1>2 DEF SafetyInv, LogKept, Unlocked
<1> QED
  BY <1>1, <1>3, <1>4, <1>5 DEF SafetyInv

(* Every return that saves nothing. *)
LEMMA ExitKeeps ==
  ASSUME SafetyInv, NEW p \in Process, NEW result \in Outcomes,
         Exit(p, result), UNCHANGED <<disk, swarmVars>>
  PROVE  SafetyInv'
<1>1. outcome' \in [Process -> Outcomes] /\ disk' \in Operations
  BY DEF SafetyInv, TypeOK, CommandTypeOK, Exit, Leave
<1>2. SwarmTypeOK' /\ IntentFirst'
  BY SwarmTypeKept, QuietIntent DEF SafetyInv, TypeOK
<1> QED
  BY <1>1, <1>2, LeavingKeeps DEF Exit, Leave

(* Every return after a save: the log only grows. *)
LEMMA SaveExitKeeps ==
  ASSUME SafetyInv, NEW p \in Process, NEW result \in Outcomes,
         Exit(p, result), UNCHANGED swarmVars, pc[p] \notin Unlocked,
         disk' \in Operations, LogGrows(disk, disk')
  PROVE  SafetyInv'
<1>1. outcome' \in [Process -> Outcomes]
  BY DEF SafetyInv, TypeOK, CommandTypeOK, Exit, Leave
<1>2. SwarmTypeOK' /\ IntentFirst'
  BY SwarmTypeKept DEF SafetyInv, TypeOK, IntentFirst, LogGrows, swarmVars
<1> QED
  BY <1>1, <1>2, LeavingKeeps DEF Exit, Leave

LEMMA AdvanceKeeps ==
  ASSUME SafetyInv, NEW p \in Process,
         NEW label \in ReconcileLabels \ {"locking", "reloading", "record"},
         pc[p] \notin OutOfStep, Goto(p, label), PhaseFits(label, op[p]),
         UNCHANGED <<stateVars, op, outcome>>,
         mutated' \in [Process -> BOOLEAN], run' \in [Process -> Run],
         SwarmTypeOK', IntentFirst'
  PROVE  SafetyInv'
<1>1. TypeOK'
  BY DEF SafetyInv, TypeOK, CommandTypeOK, Goto, Labels, stateVars
<1>2. /\ lock = p /\ disk = op[p]
      /\ \A q \in Process : pc'[q] = IF q = p THEN label ELSE pc[q]
      /\ disk' = disk /\ lock' = lock /\ op' = op
  BY DEF SafetyInv, TypeOK, CommandTypeOK, Goto, NoLostUpdate, OutOfStep, stateVars
<1>3. NoLostUpdate'
  BY <1>2 DEF SafetyInv, NoLostUpdate
<1>4. PhaseKnown'
  BY <1>2 DEF SafetyInv, PhaseKnown
<1>5. LogKept'
  BY <1>2 DEF SafetyInv, LogKept, SameLog
<1> QED
  BY <1>1, <1>3, <1>4, <1>5 DEF SafetyInv

(* The steps that leave the Swarm alone. *)
LEMMA MoveOnKeeps ==
  ASSUME SafetyInv, NEW p \in Process,
         NEW label \in ReconcileLabels \ {"locking", "reloading", "record"},
         pc[p] \notin OutOfStep, Goto(p, label), PhaseFits(label, op[p]),
         UNCHANGED <<stateVars, swarmVars, op, outcome, mutated>>,
         run' \in [Process -> Run]
  PROVE  SafetyInv'
<1>1. SwarmTypeOK' /\ IntentFirst'
  BY SwarmTypeKept, QuietIntent DEF SafetyInv, TypeOK, stateVars
<1>2. mutated' \in [Process -> BOOLEAN]
  BY DEF SafetyInv, TypeOK, CommandTypeOK
<1> QED
  BY <1>1, <1>2, AdvanceKeeps

LEMMA SavingKeeps ==
  ASSUME SafetyInv, NEW p \in Process, NEW next \in Operations,
         NEW label \in {"issue", "select", "next", "preserve", "record"},
         pc[p] \notin OutOfStep, Goto(p, label), SetOp(p, next), PhaseFits(label, next),
         disk' \in {disk, next}, label \notin {"preserve", "record"} => disk' = next,
         label \in {"preserve", "record"} => SameLog(op[p], next),
         LogGrows(disk, next),
         UNCHANGED <<lock, outcome, mutated, swarmVars>>, run' \in [Process -> Run]
  PROVE  SafetyInv'
<1>1. TypeOK'
  BY SwarmTypeKept
     DEF SafetyInv, TypeOK, CommandTypeOK, Goto, SetOp, Labels, ReconcileLabels
<1>2. lock = p /\ disk = op[p] /\ pc[p] \notin Unlocked
  BY DEF SafetyInv, NoLostUpdate, OutOfStep
<1>3. ASSUME NEW q \in Process
      PROVE  /\ pc'[q] = IF q = p THEN label ELSE pc[q]
             /\ op'[q] = IF q = p THEN next ELSE op[q]
             /\ q # p => pc'[q] \in Unlocked
  BY <1>2, OthersWait DEF SafetyInv, TypeOK, CommandTypeOK, Goto, SetOp
<1>4. NoLostUpdate'
  BY <1>2, <1>3 DEF NoLostUpdate, OutOfStep
<1>5. PhaseKnown'
  BY <1>3 DEF SafetyInv, PhaseKnown
<1>6. LogKept'
  BY <1>2, <1>3 DEF LogKept, SameLog, Unlocked
<1>7. IntentFirst'
  BY DEF SafetyInv, IntentFirst, LogGrows, swarmVars
<1> QED
  BY <1>1, <1>4, <1>5, <1>6, <1>7 DEF SafetyInv
-----------------------------------------------------------------------------
(* The steps of a run, in the groups of Next. *)

(* What is needed again and again to apply these lemmas. *)
LEMMA Held ==
  ASSUME SafetyInv, NEW p \in Process, pc[p] \notin OutOfStep
  PROVE  lock = p /\ disk = op[p] /\ op[p] \in Operations /\ pc[p] \notin Unlocked
BY DEF SafetyInv, NoLostUpdate, TypeOK, CommandTypeOK, OutOfStep

LEMMA RunHasTypes ==
  ASSUME SafetyInv, NEW p \in Process
  PROVE  /\ run \in [Process -> Run]
         /\ \A r \in Run : [run EXCEPT ![p] = r] \in [Process -> Run]
         /\ \A b \in BOOLEAN : [run EXCEPT ![p].held = b] \in [Process -> Run]
         /\ \A b \in BOOLEAN : [run EXCEPT ![p].resuming = b] \in [Process -> Run]
         /\ \A i : [run EXCEPT ![p].todo = @ \ {i}] \in [Process -> Run]
         /\ \A c \in SUBSET (DOMAIN Affected) :
              [run EXCEPT ![p].todo = c, ![p].resuming = FALSE] \in [Process -> Run]
         /\ SetServices(p) => run' \in [Process -> Run]
<1>1. run \in [Process -> Run] /\ run[p] \in Run
  BY DEF SafetyInv, TypeOK
<1>2. SetServices(p) => run' \in [Process -> Run]
  <2> DEFINE c == { s \in Service : run[p].held /\ live[s].health = "converged" }
             r == [run[p] EXCEPT !.services = ServiceViews, !.proven = @ \cup c]
  <2>1. SetServices(p) => run' = [run EXCEPT ![p] = r]
    BY <1>1 DEF SetServices
  <2>2. ServiceViews \in [Service -> ServiceView]
    BY ViewTypes DEF SafetyInv, TypeOK
  <2>3. r \in Run
    BY <1>1, <2>2, RunTypes
  <2> HIDE DEF r
  <2> QED
    BY <1>1, <2>1, <2>3
<1>3. /\ \A r \in Run : [run EXCEPT ![p] = r] \in [Process -> Run]
      /\ \A b \in BOOLEAN : [run EXCEPT ![p].held = b] \in [Process -> Run]
      /\ \A b \in BOOLEAN : [run EXCEPT ![p].resuming = b] \in [Process -> Run]
      /\ \A c \in SUBSET (DOMAIN Affected) :
           [run EXCEPT ![p].todo = c, ![p].resuming = FALSE] \in [Process -> Run]
  BY <1>1, RunTypes
<1>4. \A i : [run EXCEPT ![p].todo = @ \ {i}] \in [Process -> Run]
  BY <1>1 DEF Run
<1> QED
  BY <1>1, <1>2, <1>3, <1>4

LEMMA OpeningKeeps ==
  ASSUME SafetyInv, NEW p \in Process, Opening(p)
  PROVE  SafetyInv'
<1>1. CASE BeginReconcile(p)
  <2>1. TypeOK'
    BY <1>1, SwarmTypeKept
       DEF SafetyInv, BeginReconcile, Begin, Load, SetOp, Goto, stateVars, TypeOK, CommandTypeOK,
           Labels, ReconcileLabels, Outcomes
  <2>2. ASSUME NEW q \in Process
        PROVE  /\ pc'[q] = IF q = p THEN "locking" ELSE pc[q]
               /\ op'[q] = IF q = p THEN disk ELSE op[q]
    BY <1>1 DEF SafetyInv, TypeOK, CommandTypeOK, BeginReconcile, Begin, Load, SetOp, Goto
  <2>3. NoLostUpdate'
    BY <1>1, <2>2 DEF SafetyInv, BeginReconcile, Begin, NoLostUpdate, Unlocked, OutOfStep, stateVars
  <2>4. PhaseKnown' /\ LogKept'
    BY <1>1, <2>2
       DEF SafetyInv, BeginReconcile, Begin, PhaseKnown, PhaseFits, LogKept, WorkingLabels,
           Polling, stateVars
  <2>5. IntentFirst'
    BY <1>1, QuietIntent DEF SafetyInv, BeginReconcile, Begin, stateVars
  <2> QED
    BY <2>1, <2>3, <2>4, <2>5 DEF SafetyInv
<1>2. CASE LockReconcile(p)
  <2>1. TypeOK'
    BY <1>2, SwarmTypeKept
       DEF SafetyInv, LockReconcile, Lock, AcquireClusterLock, Goto, TypeOK, CommandTypeOK,
           Labels, ReconcileLabels
  <2>2. ASSUME NEW q \in Process
        PROVE  /\ pc'[q] = IF q = p THEN "reloading" ELSE pc[q]
               /\ pc[q] \in Unlocked
    BY <1>2, NoProcessAssumption
       DEF SafetyInv, TypeOK, CommandTypeOK, LockReconcile, Lock, AcquireClusterLock, Goto,
           NoLostUpdate
  <2>3. NoLostUpdate'
    BY <1>2, <2>2
       DEF LockReconcile, Lock, AcquireClusterLock, NoLostUpdate, OutOfStep
  <2>4. PhaseKnown' /\ LogKept'
    BY <1>2, <2>2
       DEF SafetyInv, LockReconcile, Lock, PhaseKnown, PhaseFits, LogKept, WorkingLabels,
           Polling
  <2>5. IntentFirst'
    BY <1>2, QuietIntent DEF SafetyInv, LockReconcile, Lock
  <2> QED
    BY <2>1, <2>3, <2>4, <2>5 DEF SafetyInv
<1>3. CASE ReloadReconcile(p)
  <2>1. TypeOK'
    BY <1>3, SwarmTypeKept
       DEF SafetyInv, ReloadReconcile, Load, SetOp, Goto, stateVars, TypeOK, CommandTypeOK,
           Labels, ReconcileLabels
  <2>2. ASSUME NEW q \in Process
        PROVE  /\ pc'[q] = IF q = p THEN "inspect" ELSE pc[q]
               /\ op'[q] = IF q = p THEN disk ELSE op[q]
    BY <1>3 DEF SafetyInv, TypeOK, CommandTypeOK, ReloadReconcile, Load, SetOp, Goto
  <2>3. NoLostUpdate'
    BY <1>3, <2>2 DEF SafetyInv, ReloadReconcile, NoLostUpdate, Unlocked, stateVars
  <2>4. PhaseKnown' /\ LogKept'
    BY <1>3, <2>2
       DEF SafetyInv, ReloadReconcile, PhaseKnown, PhaseFits, LogKept, WorkingLabels,
           Polling, stateVars
  <2>5. IntentFirst'
    BY <1>3, QuietIntent DEF SafetyInv, ReloadReconcile, stateVars
  <2> QED
    BY <2>1, <2>3, <2>4, <2>5 DEF SafetyInv
<1>4. CASE InspectNodes(p)
  <2>1. run' \in [Process -> Run]
    BY <1>4, RunHasTypes, ViewTypes DEF InspectNodes, SafetyInv, TypeOK
  <2>2. PhaseFits("services", op[p]) /\ pc[p] \notin OutOfStep
    BY <1>4
       DEF SafetyInv, PhaseKnown, PhaseFits, InspectNodes, WorkingLabels, Polling, OutOfStep,
           Unlocked, NodeLabels
  <2> QED
    BY <1>4, <2>1, <2>2, MoveOnKeeps DEF InspectNodes, ReconcileLabels
<1>5. CASE InspectServices(p)
  <2> DEFINE label == IF op[p].phase = "reconciling" THEN "resume" ELSE "select"
  <2>1. run' \in [Process -> Run]
    BY <1>5, RunHasTypes DEF InspectServices
  <2>2. PhaseFits(label, op[p]) /\ pc[p] \notin OutOfStep
    BY <1>5
       DEF SafetyInv, PhaseKnown, PhaseFits, InspectServices, WorkingLabels, Polling,
           OutOfStep, Unlocked, NodeLabels, ReconcilePhases
  <2>3. label \in ReconcileLabels \ {"locking", "reloading", "record"}
    BY DEF ReconcileLabels
  <2> QED
    BY <1>5, <2>1, <2>2, <2>3, MoveOnKeeps DEF InspectServices
<1>6. CASE LockRefused(p) \/ PhaseRefused(p) \/ OpeningFails(p) \/ StateRefused(p)
  BY <1>6, ExitKeeps DEF LockRefused, PhaseRefused, OpeningFails, StateRefused, Outcomes
<1> QED
  BY <1>1, <1>2, <1>3, <1>4, <1>5, <1>6 DEF Opening

LEMMA DecidingKeeps ==
  ASSUME SafetyInv, NEW p \in Process, Deciding(p)
  PROVE  SafetyInv'
<1>1. CASE Resume(p)
  <2>1. run' \in [Process -> Run]
    BY <1>1, RunHasTypes DEF Resume
  <2>2. /\ pc[p] \notin OutOfStep
        /\ \A label \in {"complete", "issue", "poll"} : PhaseFits(label, op[p])
    BY <1>1
       DEF SafetyInv, PhaseKnown, PhaseFits, Resume, WorkingLabels, Polling, OutOfStep,
           Unlocked, NodeLabels
  <2>3. PICK label \in {"complete", "issue", "poll"} : Goto(p, label)
    BY <1>1 DEF Resume
  <2>4. label \in ReconcileLabels \ {"locking", "reloading", "record"}
    BY DEF ReconcileLabels, Polling
  <2> QED
    BY <1>1, <2>1, <2>2, <2>3, <2>4, MoveOnKeeps DEF Resume
<1>2. CASE Select(p)
  <2>1. run' \in [Process -> Run]
    BY <1>2, RunHasTypes DEF Select, Candidates
  <2>2. PhaseFits("next", op[p]) /\ pc[p] \notin OutOfStep
    BY <1>2
       DEF SafetyInv, PhaseKnown, PhaseFits, Select, WorkingLabels, Polling, OutOfStep,
           Unlocked, NodeLabels
  <2> QED
    BY <1>2, <2>1, <2>2, MoveOnKeeps DEF Select, ReconcileLabels
<1>3. CASE CandidateConverged(p)
  <2>1. run' \in [Process -> Run]
    BY <1>3, RunHasTypes DEF CandidateConverged
  <2>2. SwarmTypeOK' /\ IntentFirst'
    BY <1>3, SwarmTypeKept, QuietIntent DEF CandidateConverged, SafetyInv, TypeOK, stateVars
  <2>3. UNCHANGED <<disk, lock, pc, op, outcome, mutated>>
    BY <1>3 DEF CandidateConverged, stateVars, commandVars
  <2>4. CommandTypeOK' /\ NoLostUpdate' /\ PhaseKnown' /\ LogKept'
    BY <2>3 DEF SafetyInv, TypeOK, CommandTypeOK, NoLostUpdate, PhaseKnown, LogKept
  <2> QED
    BY <2>1, <2>2, <2>4 DEF SafetyInv, TypeOK
<1>4. CASE ReadyAtOnce(p)
  <2>1. pc[p] \notin OutOfStep
    BY <1>4 DEF ReadyAtOnce, OutOfStep, Unlocked, NodeLabels
  <2>2. disk' \in Operations /\ LogGrows(disk, disk')
    BY <1>4, <2>1, Held, MovedIs, PhasesAre DEF ReadyAtOnce, SaveSucceeds, SaveFails, LogGrows
  <2>3. PICK result \in Outcomes : Exit(p, result)
    BY <1>4 DEF ReadyAtOnce, Outcomes
  <2> QED
    BY <1>4, <2>1, <2>2, <2>3, Held, SaveExitKeeps DEF ReadyAtOnce
<1>5. CASE Declare(p)
  <2>1. PICK i \in run[p].todo :
          LET next == Declared(op[p], Affected[i], run[p].services[Affected[i]].force) IN
          \/ /\ SaveSucceeds(next)
             /\ SetOp(p, next)
             /\ run' = [run EXCEPT ![p].todo = @ \ {i}]
             /\ Goto(p, "issue")
             /\ UNCHANGED <<lock, outcome, mutated>>
          \/ SaveFails(next) /\ Exit(p, "error")
    BY <1>5 DEF Declare
  <2> DEFINE counter == run[p].services[Affected[i]].force
             next == Declared(op[p], Affected[i], counter)
  <2>2. pc[p] = "next" /\ pc[p] \notin OutOfStep /\ UNCHANGED swarmVars
    BY <1>5 DEF Declare, OutOfStep, Unlocked, NodeLabels
  <2>3. disk = op[p] /\ op[p] \in Operations /\ pc[p] \notin Unlocked
    BY <2>2, Held
  <2>4. Affected[i] \in Service /\ counter \in Nat
    BY AffectedAssumption DEF SafetyInv, TypeOK, Run, ServiceView
  <2>5. /\ next \in Operations
        /\ next.phase = "reconciling"
        /\ Len(next.attempts) = Len(disk.attempts) + 1
        /\ \A k \in 1..Len(disk.attempts) : next.attempts[k] = disk.attempts[k]
        /\ LastAttempt(next) = Started(Affected[i], counter)
    BY <2>3, <2>4, DeclaredIs
  <2> HIDE DEF next
  <2>6. /\ DOMAIN disk.attempts = 1..Len(disk.attempts)
        /\ Len(disk.attempts) \in Nat
        /\ DOMAIN next.attempts = 1..(Len(disk.attempts) + 1)
    BY <2>3, <2>5 DEF Operations
  <2>7. LogGrows(disk, next)
    BY <2>5, <2>6 DEF LogGrows
  <2>8. PhaseFits("issue", next)
    BY <2>4, <2>5, <2>6, NoCounterAssumption DEF PhaseFits, Resumable, Started
  <2>9. CASE /\ SaveSucceeds(next)
             /\ SetOp(p, next)
             /\ run' = [run EXCEPT ![p].todo = @ \ {i}]
             /\ Goto(p, "issue")
             /\ UNCHANGED <<lock, outcome, mutated>>
    <3>1. run' \in [Process -> Run]
      BY <2>9, RunHasTypes
    <3>2. /\ disk' = next /\ next \in Operations
          /\ Goto(p, "issue") /\ SetOp(p, next)
          /\ UNCHANGED <<lock, outcome, mutated, swarmVars>>
          /\ pc[p] \notin OutOfStep
      BY <2>2, <2>5, <2>9 DEF SaveSucceeds
    <3> QED
      BY <2>7, <2>8, <3>1, <3>2, SavingKeeps
  <2>10. CASE SaveFails(next) /\ Exit(p, "error")
    <3>1. disk' \in Operations
      BY <2>3, <2>5, <2>10 DEF SaveFails
    <3>2. LogGrows(disk, disk')
      BY <2>7, <2>10 DEF SaveFails, LogGrows
    <3> QED
      BY <2>2, <2>3, <2>10, <3>1, <3>2, SaveExitKeeps DEF Outcomes
  <2> QED
    BY <2>1, <2>9, <2>10 DEF next
<1>6. CASE Ready(p)
  <2> DEFINE ready == Moved(op[p], "maintenance-ready")
  <2>1. pc[p] \notin OutOfStep /\ UNCHANGED swarmVars
    BY <1>6 DEF Ready, OutOfStep, Unlocked, NodeLabels
  <2>2. disk = op[p] /\ op[p] \in Operations /\ pc[p] \notin Unlocked
    BY <2>1, Held
  <2>3. /\ ready \in Operations
        /\ ready.phase = "maintenance-ready"
        /\ ready.attempts = op[p].attempts
    BY <2>2, MovedIs, PhasesAre
  <2> HIDE DEF ready
  <2>6. LogGrows(disk, ready)
    BY <2>2, <2>3 DEF LogGrows
  <2>4. CASE SaveSucceeds(ready) /\ Exit(p, "success")
    BY <2>1, <2>2, <2>3, <2>4, <2>6, SaveExitKeeps DEF SaveSucceeds, Outcomes
  <2>5. CASE /\ SaveFails(ready)
             /\ SetOp(p, ready)
             /\ Goto(p, "record")
             /\ UNCHANGED <<lock, outcome, mutated, run>>
    <3>1. SameLog(op[p], ready)
      BY <2>3 DEF SameLog
    <3>2. PhaseFits("record", ready)
      BY <2>3 DEF PhaseFits, WorkingLabels, Polling
    <3>3. run' \in [Process -> Run] /\ disk' \in {disk, ready}
      BY <2>5, RunHasTypes DEF SaveFails
    <3> QED
      BY <2>1, <2>2, <2>3, <2>5, <2>6, <3>1, <3>2, <3>3, SavingKeeps
  <2> QED
    BY <1>6, <2>4, <2>5 DEF Ready, ready
<1>7. CASE RecordError(p)
  <2>1. /\ SameLog(disk, op[p])
        /\ disk \in Operations
        /\ op[p] \in Operations
        /\ pc[p] \notin Unlocked
        /\ disk' \in {disk, op[p]}
    BY <1>7
       DEF RecordError, SafetyInv, TypeOK, CommandTypeOK, LogKept, Unlocked, Save, SaveSucceeds,
           SaveFails
  <2>2. LogGrows(disk, disk')
    BY <2>1 DEF SameLog, Operations, LogGrows
  <2> QED
    BY <1>7, <2>1, <2>2, SaveExitKeeps DEF RecordError, Outcomes
<1>8. CASE ResumeRefused(p) \/ SelectRefused(p) \/ CandidateRefused(p)
  BY <1>8, ExitKeeps DEF ResumeRefused, SelectRefused, CandidateRefused, Outcomes
<1> QED
  BY <1>1, <1>2, <1>3, <1>4, <1>5, <1>6, <1>7, <1>8 DEF Deciding

(* A process that is sending, waiting or completing has an open attempt.   *)
LEMMA AtWork ==
  ASSUME SafetyInv, NEW p \in Process, pc[p] \in WorkingLabels
  PROVE  /\ pc[p] \notin OutOfStep
         /\ lock = p /\ disk = op[p] /\ op[p] \in Operations
         /\ \A label \in WorkingLabels \cup {"preserve"} :
              PhaseFits(label, op[p]) /\ label \in ReconcileLabels \ {"locking", "reloading", "record"}
         /\ CurrentNumber(p) \in DOMAIN disk.attempts
         /\ Current(p) = disk.attempts[CurrentNumber(p)]
         /\ Current(p) \in Attempt
<1>1. pc[p] \notin OutOfStep
  BY DEF WorkingLabels, Polling, OutOfStep, Unlocked, NodeLabels
<1>2. lock = p /\ disk = op[p] /\ op[p] \in Operations
  BY <1>1, Held
<1>3. op[p].phase = "reconciling" /\ Resumable(op[p])
  BY DEF SafetyInv, PhaseKnown, PhaseFits
<1>4. \A label \in WorkingLabels \cup {"preserve"} :
        PhaseFits(label, op[p]) /\ label \in ReconcileLabels \ {"locking", "reloading", "record"}
  BY <1>3 DEF PhaseFits, Resumable, WorkingLabels, Polling, ReconcileLabels
<1>5. CurrentNumber(p) \in DOMAIN op[p].attempts /\ Current(p) \in Attempt
  BY <1>2, <1>3 DEF Operations, Resumable, LastAttempt, Current, CurrentNumber
<1> QED
  BY <1>1, <1>2, <1>4, <1>5 DEF Current, CurrentNumber, LastAttempt

(* The Swarm and the log after each kind of request. *)
LEMMA RequestKeeps ==
  ASSUME SwarmTypeOK, IntentFirst, UNCHANGED disk, NEW p \in Process
  PROVE  /\ \A k \in DOMAIN disk.attempts, s \in Service :
              /\ k \in Nat
              /\ disk.attempts[k].service = s
              /\ ReadServiceVersion(p, s, k)
              => SwarmTypeOK' /\ IntentFirst'
         /\ \A u \in updates : AcceptUpdate(u) => SwarmTypeOK' /\ IntentFirst'
         /\ LeaveOnItsWay(p) \/ Discard(p) => SwarmTypeOK' /\ IntentFirst'
<1>1. ASSUME NEW k \in DOMAIN disk.attempts, k \in Nat, NEW s \in Service,
             disk.attempts[k].service = s, ReadServiceVersion(p, s, k)
      PROVE  SwarmTypeOK' /\ IntentFirst'
  <2> DEFINE new == [process |-> p, service |-> s, attempt |-> k, sent |-> FALSE]
  <2>1. /\ updates' = updates \cup {new}
        /\ UNCHANGED <<endpoint, availability, membersWell, live, nodeUpdates, applied>>
    BY <1>1 DEF ReadServiceVersion
  <2>2. new \in Update /\ new.attempt = k /\ new.service = s
    BY <1>1 DEF Update
  <2> HIDE DEF new
  <2>3. SwarmTypeOK'
    BY <2>1, <2>2 DEF SwarmTypeOK
  <2>4. IntentFirst'
    BY <1>1, <2>1, <2>2 DEF IntentFirst
  <2> QED
    BY <2>3, <2>4
<1>2. ASSUME NEW u \in updates, AcceptUpdate(u)
      PROVE  SwarmTypeOK' /\ IntentFirst'
  <2>1. u \in Update /\ u.attempt \in DOMAIN disk.attempts /\ u.service \in Service
    BY DEF SwarmTypeOK, IntentFirst, Update
  <2>2. live' \in [Service -> LiveService]
    BY <1>2, <2>1 DEF SwarmTypeOK, AcceptUpdate, Rescheduled, LiveService, Healths
  <2>3. applied' \in [1..MaxAttempts -> 0..2]
    <3>1. applied' = [applied EXCEPT ![u.attempt] = IF @ = 2 THEN 2 ELSE @ + 1]
      BY <1>2 DEF AcceptUpdate
    <3>2. applied \in [1..MaxAttempts -> {0, 1, 2}] /\ 0..2 = {0, 1, 2}
      BY DEF SwarmTypeOK
    <3>3. \A k \in 1..MaxAttempts :
            (IF applied[k] = 2 THEN 2 ELSE applied[k] + 1) \in {0, 1, 2}
      BY <3>2
    <3> QED
      BY <3>1, <3>2, <3>3
  <2>4. updates' \subseteq updates
    BY <1>2 DEF AcceptUpdate, SpecChanged
  <2>5. SwarmTypeOK'
    BY <1>2, <2>2, <2>3, <2>4 DEF SwarmTypeOK, AcceptUpdate
  <2>6. \A k \in 1..MaxAttempts : applied'[k] > 0 => applied[k] > 0 \/ k = u.attempt
    BY <1>2 DEF SwarmTypeOK, AcceptUpdate
  <2> QED
    BY <2>1, <2>4, <2>5, <2>6 DEF IntentFirst
<1>3. ASSUME LeaveOnItsWay(p) \/ Discard(p)
      PROVE  SwarmTypeOK' /\ IntentFirst'
  <2>1. \A u \in updates' :
          \E v \in updates : u \in Update /\ u.service = v.service /\ u.attempt = v.attempt
    <3>1. \A v \in updates :
            /\ v \in Update /\ [v EXCEPT !.sent = TRUE] \in Update
            /\ [v EXCEPT !.sent = TRUE].service = v.service
            /\ [v EXCEPT !.sent = TRUE].attempt = v.attempt
      BY DEF SwarmTypeOK, Update
    <3>2. \A u \in updates' :
            \E v \in updates : u = v \/ u = [v EXCEPT !.sent = TRUE]
      BY <1>3 DEF LeaveOnItsWay, Discard, OnItsWay, UnsentOf
    <3> QED
      BY <3>1, <3>2
  <2>2. nodeUpdates' \in SUBSET NodeUpdate
    <3>1. \A v \in nodeUpdates : v \in NodeUpdate /\ [v EXCEPT !.sent = TRUE] \in NodeUpdate
      BY DEF SwarmTypeOK, NodeUpdate
    <3>2. \A u \in nodeUpdates' :
            \E v \in nodeUpdates : u = v \/ u = [v EXCEPT !.sent = TRUE]
      BY <1>3 DEF LeaveOnItsWay, Discard, OnItsWay, UnsentOf
    <3> QED
      BY <3>1, <3>2
  <2>3. UNCHANGED <<endpoint, availability, membersWell, live, applied>>
    BY <1>3 DEF LeaveOnItsWay, Discard
  <2> QED
    BY <2>1, <2>2, <2>3 DEF SwarmTypeOK, IntentFirst
<1> QED
  BY <1>1, <1>2, <1>3

LEMMA UpdatingKeeps ==
  ASSUME SafetyInv, NEW p \in Process, Updating(p)
  PROVE  SafetyInv'
<1> USE DEF SafetyInv
<1>1. CASE ReadServiceSpec(p)
  <2>1. pc[p] \in WorkingLabels /\ UNCHANGED <<stateVars, op, outcome, mutated, run>>
    BY <1>1 DEF ReadServiceSpec, WorkingLabels
  <2>2. SwarmTypeOK' /\ IntentFirst'
    <3>1. CurrentNumber(p) \in Nat /\ Current(p).service \in Service
      BY <2>1, AtWork DEF Attempt, Operations, CurrentNumber
    <3> QED
      BY <1>1, <2>1, <3>1, AtWork, RequestKeeps DEF ReadServiceSpec, TypeOK, stateVars
  <2>3. mutated' \in [Process -> BOOLEAN] /\ run' \in [Process -> Run] /\ Goto(p, "send")
    BY <1>1, <2>1, RunHasTypes DEF ReadServiceSpec, TypeOK, CommandTypeOK
  <2> QED
    BY <2>1, <2>2, <2>3, AtWork, AdvanceKeeps DEF WorkingLabels
<1>2. CASE UpdateAccepted(p)
  <2>1. pc[p] \in WorkingLabels /\ UNCHANGED <<stateVars, op, outcome, run>>
    BY <1>2 DEF UpdateAccepted, WorkingLabels
  <2>2. SwarmTypeOK' /\ IntentFirst'
    BY <1>2, <2>1, RequestKeeps DEF UpdateAccepted, UnsentOf, TypeOK, stateVars
  <2>3. mutated' \in [Process -> BOOLEAN]
    BY <1>2 DEF UpdateAccepted, TypeOK, CommandTypeOK
  <2>4. PICK label \in {"poll", "preserve"} : Goto(p, label)
    BY <1>2 DEF UpdateAccepted
  <2> QED
    BY <2>1, <2>2, <2>3, <2>4, AtWork, RunHasTypes, AdvanceKeeps DEF WorkingLabels, Polling
<1>3. CASE UpdateDelayed(p) \/ UpdateFails(p)
  <2>1. pc[p] \in WorkingLabels /\ UNCHANGED <<stateVars, op, outcome, run>>
    BY <1>3 DEF UpdateDelayed, UpdateFails, WorkingLabels
  <2>2. SwarmTypeOK' /\ IntentFirst'
    BY <1>3, <2>1, RequestKeeps DEF UpdateDelayed, UpdateFails, TypeOK, stateVars
  <2>3. mutated' \in [Process -> BOOLEAN] /\ Goto(p, "preserve")
    BY <1>3 DEF UpdateDelayed, UpdateFails, TypeOK, CommandTypeOK
  <2> QED
    BY <2>1, <2>2, <2>3, AtWork, RunHasTypes, AdvanceKeeps
<1>4. CASE ReadServiceSpecFails(p) \/ PollRefused(p) \/ PollFails(p)
  <2>1. /\ pc[p] \in WorkingLabels
        /\ Goto(p, "preserve")
        /\ UNCHANGED <<stateVars, swarmVars, op, outcome, mutated, run>>
    BY <1>4 DEF ReadServiceSpecFails, PollRefused, PollFails, WorkingLabels, Polling
  <2> QED
    BY <2>1, AtWork, RunHasTypes, MoveOnKeeps
<1>5. CASE PollNodes(p)
  <2>1. pc[p] \in WorkingLabels /\ run' \in [Process -> Run]
    BY <1>5, RunHasTypes, ViewTypes DEF PollNodes, WorkingLabels, Polling, TypeOK
  <2> QED
    BY <1>5, <2>1, AtWork, MoveOnKeeps DEF PollNodes, WorkingLabels, Polling
<1>6. CASE PollServices(p)
  <2>1. pc[p] \in WorkingLabels /\ run' \in [Process -> Run]
    BY <1>6, RunHasTypes DEF PollServices, WorkingLabels, Polling
  <2>2. PICK label \in {"poll", "complete"} : Goto(p, label)
    BY <1>6 DEF PollServices
  <2> QED
    BY <1>6, <2>1, <2>2, AtWork, MoveOnKeeps DEF PollServices, WorkingLabels, Polling
<1>7. CASE Complete(p)
  <2> DEFINE closed == WithLastOpen(op[p], FALSE)
             next == Moved(closed, "waiting-services")
  <2>1. /\ pc[p] \in WorkingLabels
        /\ SetOp(p, next)
        /\ UNCHANGED <<lock, outcome, mutated, swarmVars>>
        /\ run' \in [Process -> Run]
    BY <1>7, RunHasTypes DEF Complete, WorkingLabels
  <2>2. disk = op[p] /\ op[p] \in Operations /\ PhaseFits("preserve", op[p])
    BY <2>1, AtWork
  <2>3. closed \in Operations /\ SameLog(op[p], closed)
    BY <2>2, WithLastOpenIs
  <2>4. /\ next \in Operations
        /\ next.phase = "waiting-services"
        /\ next.attempts = closed.attempts
    BY <2>3, MovedIs, PhasesAre
  <2>5. /\ \/ disk' = next
           \/ disk' \in {disk, next} /\ Goto(p, "preserve")
        /\ Goto(p, "select") \/ Goto(p, "next") \/ Goto(p, "preserve")
    BY <1>7 DEF Complete, SaveSucceeds, SaveFails
  <2> HIDE DEF next, closed
  <2>6. SameLog(op[p], next)
    BY <2>3, <2>4 DEF SameLog
  <2>7. LogGrows(disk, next)
    BY <2>2, <2>4, <2>6 DEF SameLog, LogGrows, Operations
  <2>8. \A label \in {"select", "next", "preserve"} : PhaseFits(label, next)
    BY <2>2, <2>4, <2>6 DEF PhaseFits, SameLog, LastAttempt, WorkingLabels, Polling, Operations
  <2>9. PICK label \in {"select", "next", "preserve"} :
          /\ Goto(p, label)
          /\ disk' \in {disk, next}
          /\ label \notin {"preserve", "record"} => disk' = next
    BY <2>5
  <2> QED
    BY <2>1, <2>4, <2>6, <2>7, <2>8, <2>9, AtWork, SavingKeeps
<1>8. CASE Preserve(p)
  <2> DEFINE open == WithLastOpen(op[p], TRUE)
             next == Preserved(op[p])
  <2>1. /\ SameLog(disk, op[p])
        /\ disk \in Operations /\ op[p] \in Operations
        /\ pc[p] \notin Unlocked
        /\ disk' \in {disk, next}
    BY <1>8
       DEF Preserve, TypeOK, CommandTypeOK, LogKept, Unlocked, Save, SaveSucceeds, SaveFails
  <2>2. open \in Operations /\ SameLog(op[p], open)
    BY <2>1, WithLastOpenIs
  <2>3. next \in Operations /\ next.attempts = open.attempts
    BY <2>2, MovedIs, PhasesAre DEF Preserved
  <2> HIDE DEF open, next
  <2>4. LogGrows(disk, disk')
    BY <2>1, <2>2, <2>3 DEF SameLog, LogGrows, Operations
  <2> QED
    BY <1>8, <2>1, <2>3, <2>4, SaveExitKeeps DEF Preserve, Outcomes
<1> QED
  BY <1>1, <1>2, <1>3, <1>4, <1>5, <1>6, <1>7, <1>8 DEF Updating

LEMMA KillKeeps ==
  ASSUME SafetyInv, NEW p \in Process, KillReconcile(p)
  PROVE  SafetyInv'
<1>1. SwarmTypeOK' /\ IntentFirst'
  BY RequestKeeps DEF SafetyInv, TypeOK, KillReconcile, Killed
<1>2. outcome' \in [Process -> Outcomes] /\ disk' \in Operations
  BY DEF SafetyInv, TypeOK, CommandTypeOK, KillReconcile, Killed
<1> QED
  BY <1>1, <1>2, LeavingKeeps DEF KillReconcile, Killed

(* The Swarm and its operators never add an update, and apply one only by  *)
(* accepting it.                                                           *)
LEMMA SwarmKeeps ==
  ASSUME SwarmTypeOK, IntentFirst, UNCHANGED disk, SwarmStep
  PROVE  SwarmTypeOK' /\ IntentFirst'
<1> USE SwarmAssumption
<1>1. CASE LateUpdate
  <2>1. PICK u \in updates : AcceptUpdate(u)
    BY <1>1 DEF LateUpdate
  <2>2. u.process \in Process
    BY DEF SwarmTypeOK, Update
  <2> QED
    BY <2>1, <2>2, RequestKeeps
<1>2. CASE LateNodeUpdate
  <2>1. PICK u \in nodeUpdates : AcceptNodeUpdate(u)
    BY <1>2 DEF LateNodeUpdate
  <2>2. u.to \in Availabilities
    BY DEF SwarmTypeOK, NodeUpdate, Availabilities
  <2> QED
    BY <2>1, <2>2 DEF AcceptNodeUpdate, NodeSpecChanged, SwarmTypeOK, IntentFirst
<1>3. CASE \E s \in Service : ServiceStep(s)
  <2>1. PICK s \in Service : ServiceStep(s)
    BY <1>3
  <2>2. /\ updates' \subseteq updates
        /\ UNCHANGED <<endpoint, availability, membersWell, nodeUpdates, applied>>
    BY <2>1
       DEF ServiceStep, Converge, TasksChange, RemoveService, OutsideForceUpdate, Rollback,
           SpecChanged
  <2>3. live' \in [Service -> LiveService]
    <3>1. live \in [Service -> LiveService] /\ live[s].force \in Nat /\ live[s] \in LiveService
      BY DEF SwarmTypeOK, LiveService
    <3>2. CASE Converge(s) \/ TasksChange(s) \/ RemoveService(s)
      BY <3>1, <3>2 DEF Converge, TasksChange, RemoveService, LiveService, Healths
    <3>3. CASE OutsideForceUpdate(s)
      BY <3>1, <3>3 DEF OutsideForceUpdate, Rescheduled, LiveService, Healths
    <3>4. CASE Rollback(s)
      BY <3>1, <3>4 DEF Rollback, LiveService
    <3> QED
      BY <2>1, <3>2, <3>3, <3>4 DEF ServiceStep
  <2> QED
    BY <2>2, <2>3 DEF SwarmTypeOK, IntentFirst
<1>4. CASE TargetChanges \/ EndpointChanges \/ MembersChange
  BY <1>4
     DEF TargetChanges, EndpointChanges, MembersChange, NodeSpecChanged, SwarmTypeOK,
         IntentFirst
<1> QED
  BY <1>1, <1>2, <1>3, <1>4 DEF SwarmStep

-----------------------------------------------------------------------------
(* SafetyInv is inductive. *)

LEMMA InitSafe == Init => SafetyInv
<1> SUFFICES ASSUME Init
             PROVE  SafetyInv
  OBVIOUS
<1> USE DEF Init, SwarmInit, CommandInit
<1>1. disk \in Operations
  <2>1. \A s \in Service : Started(s, NoCounter) \in Attempt
    BY DEF Started, Attempt
  <2>2. << >> \in Seq(Attempt) /\ \A a \in Attempt : <<a>> \in Seq(Attempt)
    OBVIOUS
  <2>3. \A ph \in InitialPhases : [phase |-> ph, attempts |-> << >>] \in Operations
    BY <2>2, InitialPhasesAssumption DEF Operations
  <2>4. \A s \in Service :
          [phase |-> "reconciling", attempts |-> <<Started(s, NoCounter)>>] \in Operations
    BY <2>1, <2>2, PhasesAre DEF Operations
  <2> QED
    BY <2>3, <2>4 DEF StoredOperations
<1>2. SwarmTypeOK
  <2>1. live \in [Service -> LiveService]
    BY DEF LiveService, Healths
  <2> QED
    BY <2>1, SwarmAssumption DEF SwarmTypeOK, Availabilities
<1>3. CommandTypeOK /\ run \in [Process -> Run]
  BY <1>1, NoOperationType DEF CommandTypeOK, Labels, Outcomes, NoRun, Run, ServiceView, Conditions, Healths
<1>4. NoLostUpdate /\ PhaseKnown /\ LogKept
  BY DEF NoLostUpdate, OutOfStep, Unlocked, PhaseKnown, PhaseFits, LogKept, WorkingLabels, Polling
<1>5. IntentFirst
  BY DEF IntentFirst
<1> QED
  BY <1>2, <1>3, <1>4, <1>5 DEF SafetyInv, TypeOK

LEMMA NextSafe ==
  ASSUME SafetyInv, [Next]_vars
  PROVE  SafetyInv'
<1>1. CASE \E p \in Process : ReconcileStep(p)
  <2>1. PICK p \in Process : Opening(p) \/ Deciding(p) \/ Updating(p) \/ KillReconcile(p)
    BY <1>1 DEF ReconcileStep
  <2> QED
    BY <2>1, OpeningKeeps, DecidingKeeps, UpdatingKeeps, KillKeeps
<1>2. CASE Outside
  <2>1. SwarmTypeOK' /\ IntentFirst'
    BY <1>2, SwarmKeeps DEF SafetyInv, TypeOK, Outside, stateVars
  <2> QED
    BY <1>2, <2>1
       DEF SafetyInv, TypeOK, CommandTypeOK, NoLostUpdate, PhaseKnown, LogKept, Outside,
           stateVars, commandVars
<1>3. CASE UNCHANGED vars
  <2>1. SwarmTypeOK' /\ IntentFirst'
    BY <1>3, SwarmTypeKept, QuietIntent DEF SafetyInv, TypeOK, vars, stateVars
  <2> QED
    BY <1>3, <2>1
       DEF SafetyInv, TypeOK, CommandTypeOK, NoLostUpdate, PhaseKnown, LogKept, vars,
           stateVars, commandVars
<1> QED
  BY <1>1, <1>2, <1>3 DEF Next

(* Every reachable state of the reconcile command satisfies SafetyInv.     *)
THEOREM Safety == Spec => []SafetyInv
<1>1. Init => SafetyInv
  BY InitSafe
<1>2. SafetyInv /\ [Next]_vars => SafetyInv'
  BY NextSafe
<1> QED
  BY <1>1, <1>2, PTL DEF Spec

(* The state of the command always has its type.                           *)
THEOREM TypeCorrect == Spec => []TypeOK
<1>1. SafetyInv => TypeOK
  BY DEF SafetyInv
<1> QED
  BY <1>1, Safety, PTL

(* However many processes contend, die and run again: past the lock there  *)
(* is one process, and what it decides on is what the file says, because   *)
(* Reconcile loads the operation again once it has the lock.               *)
THEOREM NoUpdateIsLost == Spec => []NoLostUpdate
<1>1. SafetyInv => NoLostUpdate
  BY DEF SafetyInv
<1> QED
  BY <1>1, Safety, PTL

(* No force update is prepared, sent, or applied by the Swarm, however     *)
(* late, unless the operation file already holds its attempt, for any      *)
(* number of services, processes, kills, lost answers and failed saves.    *)
THEOREM IntentBeforeEffect == Spec => []IntentFirst
<1>1. SafetyInv => IntentFirst
  BY DEF SafetyInv
<1> QED
  BY <1>1, Safety, PTL

-----------------------------------------------------------------------------
(* A step of one process, or of the Swarm, leaves the locals of the others *)
(* alone.                                                                  *)

LEMMA OthersKeep ==
  ASSUME SafetyInv, NEW p \in Process, ReconcileStep(p), NEW q \in Process, q # p
  PROVE  pc'[q] = pc[q] /\ op'[q] = op[q] /\ run'[q] = run[q]
<1> USE DEF SafetyInv, TypeOK, CommandTypeOK, Goto, SetOp
<1>1. ASSUME NEW result, Exit(p, result)
      PROVE  pc'[q] = pc[q] /\ op'[q] = op[q] /\ run'[q] = run[q]
  BY <1>1 DEF Exit, Leave
<1>2. CASE Opening(p)
  BY <1>1, <1>2
     DEF Opening, BeginReconcile, Begin, Load, LockReconcile, Lock, LockRefused,
         ReloadReconcile, PhaseRefused, InspectNodes, InspectServices, SetServices,
         OpeningFails, StateRefused
<1>3. CASE ResumeRefused(p) \/ Resume(p) \/ SelectRefused(p) \/ Select(p) \/ ReadyAtOnce(p)
  BY <1>1, <1>3 DEF ResumeRefused, Resume, SelectRefused, Select, ReadyAtOnce
<1>4. CASE CandidateRefused(p) \/ CandidateConverged(p) \/ Declare(p) \/ Ready(p) \/ RecordError(p)
  BY <1>1, <1>4
     DEF CandidateRefused, CandidateConverged, commandVars, Declare, Ready, RecordError
<1>5. CASE Updating(p)
  BY <1>1, <1>5
     DEF Updating, ReadServiceSpec, ReadServiceSpecFails, UpdateAccepted, UpdateDelayed,
         UpdateFails, PollNodes, PollServices, SetServices, PollRefused, PollFails, Complete,
         Preserve
<1>6. CASE KillReconcile(p)
  BY <1>6 DEF KillReconcile, Killed
<1> QED
  BY <1>2, <1>3, <1>4, <1>5, <1>6 DEF ReconcileStep, Deciding

LEMMA OutsideKeeps ==
  Outside \/ UNCHANGED vars => UNCHANGED <<disk, lock, pc, op, run>>
BY DEF Outside, vars, stateVars, commandVars
=============================================================================
