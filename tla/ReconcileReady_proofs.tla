------------------------ MODULE ReconcileReady_proofs ------------------------
(***************************************************************************)
(* Proofs that updates are justified and readiness is proven, for every    *)
(* number of processes, services and nodes, with late updates, rollbacks   *)
(* and every other disturbance the Swarm of the model can make.            *)
(***************************************************************************)
EXTENDS Reconcile_proofs

-----------------------------------------------------------------------------
(* RunFits after the step of a process, in the groups of Next.             *)

(* An exit, and the locals a run starts with. *)
LEMMA FreshFits ==
  /\ \A o : RunFits("idle", NoRun, o)
  /\ \A p \in Process : \A result :
       SafetyInv /\ Exit(p, result) => RunFits(pc'[p], run'[p], op'[p])
<1>1. \A o : RunFits("idle", NoRun, o)
  BY DEF RunFits, NoRun, WorkingLabels, Polling
<1>2. ASSUME NEW p \in Process, NEW result, SafetyInv, Exit(p, result)
      PROVE  pc'[p] = "idle" /\ run'[p] = NoRun
  BY <1>2 DEF Exit, Leave, Goto, SafetyInv, TypeOK, CommandTypeOK
<1> QED
  BY <1>1, <1>2

(* The condition of a service is one of four. *)
LEMMA Visited ==
  ASSUME NEW s \in Service, NEW v \in ServiceView, ~Obstructed(s, v), ~Eligible(s, v)
  PROVE  v.condition = "converged"
BY DEF Obstructed, Eligible, ServiceView, Conditions, Healths

(* What a process sees with the target held, it has seen. *)
LEMMA SeenIsProven ==
  ASSUME SafetyInv, NEW p \in Process, SetServices(p), run[p].held,
         \A s \in Service : run[p].services[s].condition = "converged" => s \in run[p].proven
  PROVE  /\ run'[p].held = run[p].held
         /\ run'[p].todo = run[p].todo
         /\ run'[p].resuming = run[p].resuming
         /\ run[p].proven \subseteq run'[p].proven
         /\ \A s \in Service : run'[p].services[s].condition = ConditionOf(s)
         /\ \A s \in Service :
              run'[p].services[s].condition = "converged" => s \in run'[p].proven
<1>1. run[p] \in Run /\ run \in [Process -> Run]
  BY DEF SafetyInv, TypeOK
<1> DEFINE r == [run[p] EXCEPT !.services = ServiceViews,
                   !.proven = @ \cup { s \in Service : run[p].held /\ live[s].health = "converged" }]
<1>2. run'[p] = r
  BY <1>1 DEF SetServices
<1>3. /\ r.held = run[p].held /\ r.todo = run[p].todo /\ r.resuming = run[p].resuming
      /\ r.services = ServiceViews
      /\ r.proven = run[p].proven \cup { s \in Service : run[p].held /\ live[s].health = "converged" }
  BY <1>1 DEF Run
<1>4. \A s \in Service : ServiceViews[s].condition = ConditionOf(s)
  BY DEF ServiceViews
<1>5. \A s \in Service : ConditionOf(s) = "converged" => live[s].health = "converged"
  BY DEF ConditionOf
<1> HIDE DEF r
<1> QED
  BY <1>2, <1>3, <1>4, <1>5

LEMMA OpeningFits ==
  ASSUME SafetyInv, NEW p \in Process, Opening(p), RunFits(pc[p], run[p], op[p])
  PROVE  RunFits(pc'[p], run'[p], op'[p])
<1>1. CASE BeginReconcile(p) \/ LockReconcile(p) \/ ReloadReconcile(p)
  <2>1. pc'[p] \in {"locking", "reloading", "inspect"} /\ run'[p] = run[p]
    BY <1>1
       DEF BeginReconcile, Begin, LockReconcile, Lock, ReloadReconcile, Goto, SafetyInv,
           TypeOK, CommandTypeOK
  <2> QED
    BY <2>1 DEF RunFits, WorkingLabels, Polling
<1>2. CASE InspectNodes(p)
  <2>1. /\ pc'[p] = "services"
        /\ run'[p].services = run[p].services /\ run'[p].proven = run[p].proven
    BY <1>2 DEF InspectNodes, Goto, SafetyInv, TypeOK, CommandTypeOK, Run
  <2> QED
    BY <2>1 DEF RunFits, WorkingLabels, Polling
<1>3. CASE InspectServices(p)
  <2>1. pc'[p] \in {"resume", "select"} /\ run[p].held /\ SetServices(p)
    BY <1>3 DEF InspectServices, Goto, SafetyInv, TypeOK, CommandTypeOK
  <2> QED
    BY <2>1, SeenIsProven DEF RunFits, WorkingLabels, Polling
<1>4. CASE LockRefused(p) \/ PhaseRefused(p) \/ OpeningFails(p) \/ StateRefused(p)
  BY <1>4, FreshFits DEF LockRefused, PhaseRefused, OpeningFails, StateRefused
<1> QED
  BY <1>1, <1>2, <1>3, <1>4 DEF Opening

LEMMA DecidingFits ==
  ASSUME SafetyInv, NEW p \in Process, Deciding(p), RunFits(pc[p], run[p], op[p])
  PROVE  RunFits(pc'[p], run'[p], op'[p])
<1>0. run \in [Process -> Run] /\ run[p] \in Run
  BY DEF SafetyInv, TypeOK
<1>1. CASE Resume(p)
  <2>1. /\ pc[p] = "resume" /\ pc'[p] \in {"complete", "issue", "poll"}
        /\ run'[p] = [run[p] EXCEPT !.resuming = TRUE]
    BY <1>0, <1>1 DEF Resume, Goto, SafetyInv, TypeOK, CommandTypeOK
  <2> QED
    BY <1>0, <2>1 DEF RunFits, Run
<1>2. CASE Select(p)
  <2>1. /\ pc[p] = "select" /\ pc'[p] = "next"
        /\ run'[p] = [run[p] EXCEPT !.todo = Candidates(p), !.resuming = FALSE]
    BY <1>0, <1>2 DEF Select, Goto, SafetyInv, TypeOK, CommandTypeOK
  <2>2. /\ run'[p].held = run[p].held /\ run'[p].todo = Candidates(p)
        /\ run'[p].services = run[p].services /\ run'[p].proven = run[p].proven
    BY <1>0, <2>1 DEF Run
  <2>3. \A i \in DOMAIN Affected : i \in Candidates(p) \/ Affected[i] \in run[p].proven
    <3> TAKE i \in DOMAIN Affected
    <3>1. Affected[i] \in Service /\ run[p].services[Affected[i]] \in ServiceView
      BY <1>0, AffectedAssumption DEF Run
    <3>2. ~Obstructed(Affected[i], run[p].services[Affected[i]])
      BY <1>2 DEF Select
    <3> QED
      BY <3>1, <3>2, Visited DEF Candidates, RunFits
  <2> QED
    BY <2>1, <2>2, <2>3 DEF RunFits, WorkingLabels, Polling
<1>3. CASE CandidateConverged(p)
  <2>1. PICK i \in run[p].todo :
          /\ run[p].services[Affected[i]].condition = "converged"
          /\ run' = [run EXCEPT ![p].todo = @ \ {i}]
    BY <1>3 DEF CandidateConverged
  <2>2. pc'[p] = "next" /\ pc[p] = "next" /\ op'[p] = op[p]
    BY <1>3 DEF CandidateConverged, commandVars
  <2>3. /\ run'[p].held = run[p].held /\ run'[p].todo = run[p].todo \ {i}
        /\ run'[p].services = run[p].services /\ run'[p].proven = run[p].proven
    BY <1>0, <2>1 DEF Run
  <2>4. Affected[i] \in Service
    BY <1>0, <2>1, AffectedAssumption DEF Run
  <2> QED
    BY <2>1, <2>2, <2>3, <2>4 DEF RunFits, WorkingLabels, Polling
<1>4. CASE Declare(p)
  <2>1. pc[p] = "next"
    BY <1>4 DEF Declare
  <2>2. PICK i \in run[p].todo :
          LET s    == Affected[i]
              seen == run[p].services[s]
              next == Declared(op[p], s, seen.force) IN
          /\ Eligible(s, seen)
          /\ \/ /\ SetOp(p, next)
                /\ run' = [run EXCEPT ![p].todo = @ \ {i}]
                /\ Goto(p, "issue")
             \/ Exit(p, "error")
    BY <1>4 DEF Declare
  <2> DEFINE s == Affected[i]
             next == Declared(op[p], s, run[p].services[s].force)
  <2>3. s \in Service /\ run[p].services[s].force \in Nat
    BY <1>0, <2>2, AffectedAssumption DEF Run, ServiceView
  <2>4. LastAttempt(next).service = s
    <3>1. op[p] \in Operations
      BY DEF SafetyInv, TypeOK, CommandTypeOK
    <3>2. LastAttempt(next) = Started(s, run[p].services[s].force)
      BY <2>3, <3>1, DeclaredIs
    <3> QED
      BY <3>2 DEF Started
  <2> HIDE DEF next
  <2>5. CASE /\ SetOp(p, next)
             /\ run' = [run EXCEPT ![p].todo = @ \ {i}]
             /\ Goto(p, "issue")
    <3>1. pc'[p] = "issue" /\ op'[p] = next
      BY <2>5 DEF Goto, SetOp, SafetyInv, TypeOK, CommandTypeOK
    <3>2. /\ run'[p].held = run[p].held /\ run'[p].todo = run[p].todo \ {i}
          /\ run'[p].services = run[p].services /\ run'[p].proven = run[p].proven
      BY <1>0, <2>5 DEF Run
    <3> QED
      BY <2>1, <2>2, <2>4, <3>1, <3>2 DEF RunFits, WorkingLabels, Polling
  <2> QED
    BY <2>2, <2>5, FreshFits DEF next
<1>5. CASE Ready(p)
  <2>1. CASE Goto(p, "record") /\ UNCHANGED run
    <3>1. pc[p] = "next" /\ pc'[p] = "record" /\ run'[p] = run[p] /\ run[p].todo = {}
      BY <1>5, <2>1 DEF Ready, Goto, SafetyInv, TypeOK, CommandTypeOK
    <3> QED
      BY <3>1 DEF RunFits, WorkingLabels, Polling, AffectedServices
  <2> QED
    BY <1>5, <2>1, FreshFits DEF Ready
<1>6. CASE \/ ResumeRefused(p) \/ SelectRefused(p) \/ ReadyAtOnce(p)
           \/ CandidateRefused(p) \/ RecordError(p)
  BY <1>6, FreshFits DEF ResumeRefused, SelectRefused, ReadyAtOnce, CandidateRefused, RecordError
<1> QED
  BY <1>1, <1>2, <1>3, <1>4, <1>5, <1>6 DEF Deciding

LEMMA UpdatingFits ==
  ASSUME SafetyInv, NEW p \in Process, Updating(p), RunFits(pc[p], run[p], op[p])
  PROVE  RunFits(pc'[p], run'[p], op'[p])
<1>0. run \in [Process -> Run] /\ run[p] \in Run
  BY DEF SafetyInv, TypeOK
<1>1. CASE ReadServiceSpec(p) \/ UpdateAccepted(p)
  <2>1. /\ op'[p] = op[p] /\ run'[p] = run[p]
        /\ \/ pc[p] = "issue" /\ pc'[p] = "send"
           \/ pc[p] = "send" /\ pc'[p] \in {"poll", "preserve"}
    BY <1>1 DEF ReadServiceSpec, UpdateAccepted, Goto, SafetyInv, TypeOK, CommandTypeOK
  <2> QED
    BY <2>1 DEF RunFits, WorkingLabels, Polling
<1>2. CASE \/ UpdateDelayed(p) \/ UpdateFails(p) \/ ReadServiceSpecFails(p)
           \/ PollRefused(p) \/ PollFails(p)
  <2>1. run'[p] = run[p] /\ pc'[p] = "preserve"
    BY <1>2
       DEF UpdateDelayed, UpdateFails, ReadServiceSpecFails, PollRefused, PollFails, Goto,
           SafetyInv, TypeOK, CommandTypeOK
  <2> QED
    BY <2>1 DEF RunFits, WorkingLabels, Polling
<1>3. CASE PollNodes(p)
  <2>1. /\ pc[p] = "poll" /\ pc'[p] = "polled" /\ op'[p] = op[p]
        /\ run'[p] = [run[p] EXCEPT !.held = TargetHeld]
    BY <1>0, <1>3 DEF PollNodes, Goto, SafetyInv, TypeOK, CommandTypeOK
  <2>2. /\ run'[p].todo = run[p].todo /\ run'[p].resuming = run[p].resuming
        /\ run'[p].services = run[p].services /\ run'[p].proven = run[p].proven
    BY <1>0, <2>1 DEF Run
  <2> QED
    BY <2>1, <2>2 DEF RunFits, WorkingLabels, Polling
<1>4. CASE PollServices(p)
  <2>1. pc[p] = "polled" /\ op'[p] = op[p] /\ run[p].held
    BY <1>4 DEF PollServices
  <2>2. CASE /\ ConditionOf(Current(p).service) = "converged"
             /\ SetServices(p)
             /\ Goto(p, "complete")
    <3>1. pc'[p] = "complete"
      BY <2>2 DEF Goto, SafetyInv, TypeOK, CommandTypeOK
    <3>2. Current(p).service \in Service
      BY <2>1, AtWork DEF WorkingLabels, Polling, Attempt
    <3> QED
      BY <2>1, <2>2, <3>1, <3>2, SeenIsProven DEF RunFits, WorkingLabels, Polling, Current
  <2>3. CASE Goto(p, "poll") /\ UNCHANGED run
    <3>1. pc'[p] = "poll" /\ run'[p] = run[p]
      BY <2>3 DEF Goto, SafetyInv, TypeOK, CommandTypeOK
    <3> QED
      BY <2>1, <3>1 DEF RunFits, WorkingLabels, Polling
  <2> QED
    BY <1>4, <2>2, <2>3 DEF PollServices
<1>5. CASE Complete(p)
  <2>1. /\ pc[p] = "complete" /\ run'[p] = run[p]
        /\ \/ pc'[p] = "preserve"
           \/ run[p].resuming /\ pc'[p] = "select"
           \/ ~run[p].resuming /\ pc'[p] = "next"
    BY <1>5 DEF Complete, Goto, SafetyInv, TypeOK, CommandTypeOK
  <2> QED
    BY <2>1 DEF RunFits, WorkingLabels, Polling
<1>6. CASE Preserve(p)
  BY <1>6, FreshFits DEF Preserve
<1> QED
  BY <1>1, <1>2, <1>3, <1>4, <1>5, <1>6 DEF Updating

-----------------------------------------------------------------------------
(* ProvenInv is inductive relative to SafetyInv. *)

LEMMA InitProven == Init => ProvenInv
BY FreshFits DEF Init, CommandInit, ProvenInv

LEMMA NextProven ==
  ASSUME SafetyInv, ProvenInv, [Next]_vars
  PROVE  ProvenInv'
<1>1. CASE \E p \in Process : ReconcileStep(p)
  <2>1. PICK p \in Process : ReconcileStep(p)
    BY <1>1
  <2>2. RunFits(pc'[p], run'[p], op'[p])
    <3>1. CASE KillReconcile(p)
      <4>1. pc'[p] = "idle" /\ run'[p] = NoRun
        BY <3>1 DEF KillReconcile, Killed, Goto, SafetyInv, TypeOK, CommandTypeOK
      <4> QED
        BY <4>1, FreshFits
    <3> QED
      BY <2>1, <3>1, OpeningFits, DecidingFits, UpdatingFits DEF ReconcileStep, ProvenInv
  <2>3. \A q \in Process \ {p} : RunFits(pc'[q], run'[q], op'[q])
    BY <2>1, OthersKeep DEF ProvenInv
  <2> QED
    BY <2>2, <2>3 DEF ProvenInv
<1>2. CASE Outside \/ UNCHANGED vars
  BY <1>2, OutsideKeeps DEF ProvenInv
<1> QED
  BY <1>1, <1>2 DEF Next

LEMMA AlwaysProven == Spec => [](SafetyInv /\ ProvenInv)
<1>1. Init => SafetyInv /\ ProvenInv
  BY InitSafe, InitProven
<1>2. SafetyInv /\ ProvenInv /\ [Next]_vars => (SafetyInv /\ ProvenInv)'
  BY NextSafe, NextProven
<1> QED
  BY <1>1, <1>2, PTL DEF Spec

(* Every first-time force update goes to a service saved as a singleton    *)
(* that the newest inventory of its run showed at 0/1 while the target was *)
(* drained, however long the run has waited for other services before.     *)
THEOREM UpdatesAreJustified == Spec => []FreshlyJustified
<1>1. ProvenInv => FreshlyJustified
  BY DEF ProvenInv, RunFits, FreshlyJustified, Current, SeenCurrent
<1> QED
  BY <1>1, AlwaysProven, PTL

(* What a step that makes the operation ready knows. *)
LEMMA ReadyStep ==
  ASSUME SafetyInv, ProvenInv, [Next]_vars,
         disk.phase # "maintenance-ready", disk'.phase = "maintenance-ready"
  PROVE  \E p \in Process :
           lock = p /\ run[p].held /\ AffectedServices \subseteq run[p].proven
<1>1. PICK p \in Process : ReconcileStep(p)
  BY OutsideKeeps DEF Next
<1>2. ReadyAtOnce(p) \/ Ready(p) \/ RecordError(p)
  <2>1. ~Opening(p) /\ ~KillReconcile(p)
    BY DEF Opening, BeginReconcile, Begin, LockReconcile, Lock, LockRefused, ReloadReconcile,
           PhaseRefused, InspectNodes, InspectServices, OpeningFails, StateRefused,
           KillReconcile, Killed, stateVars
  <2>2. ~Complete(p) /\ ~Preserve(p)
    <3>1. op[p] \in Operations
      BY DEF SafetyInv, TypeOK, CommandTypeOK
    <3>2. \A b \in BOOLEAN : WithLastOpen(op[p], b) \in Operations
      BY <3>1, WithLastOpenIs
    <3>3. /\ Moved(WithLastOpen(op[p], FALSE), "waiting-services").phase = "waiting-services"
          /\ Preserved(op[p]).phase = "reconciling"
      BY <3>2, MovedIs, PhasesAre DEF Preserved
    <3> QED
      BY <3>3 DEF Complete, Preserve, Save, SaveSucceeds, SaveFails
  <2>3. ~Updating(p)
    BY <2>2
       DEF Updating, ReadServiceSpec, ReadServiceSpecFails, UpdateAccepted, UpdateDelayed,
           UpdateFails, PollNodes, PollServices, PollRefused, PollFails, stateVars
  <2>4. ~Declare(p)
    <3>1. \A s, c : Declared(op[p], s, c).phase = "reconciling"
      BY DEF Declared
    <3>2. Declare(p) => \E s, c : disk' \in {disk, Declared(op[p], s, c)}
      BY DEF Declare, SaveSucceeds, SaveFails
    <3> QED
      BY <3>1, <3>2
  <2> QED
    BY <1>1, <2>1, <2>3, <2>4
       DEF ReconcileStep, Deciding, ResumeRefused, Resume, SelectRefused, Select,
           CandidateRefused, CandidateConverged, stateVars
<1>3. lock = p
  BY <1>2 DEF ReadyAtOnce, Ready, RecordError, SafetyInv, NoLostUpdate, Unlocked
<1>4. AffectedServices \subseteq run[p].proven
  <2>1. RunFits(pc[p], run[p], op[p]) /\ run[p] \in Run
    BY DEF ProvenInv, SafetyInv, TypeOK
  <2>2. CASE ReadyAtOnce(p)
    <3> SUFFICES ASSUME NEW i \in DOMAIN Affected
                 PROVE  Affected[i] \in run[p].proven
      BY DEF AffectedServices
    <3>1. Affected[i] \in Service /\ run[p].services[Affected[i]] \in ServiceView
      BY <2>1, AffectedAssumption DEF Run
    <3>2. /\ ~Obstructed(Affected[i], run[p].services[Affected[i]])
          /\ ~Eligible(Affected[i], run[p].services[Affected[i]])
      BY <2>2 DEF ReadyAtOnce, Candidates
    <3> QED
      BY <2>1, <3>1, <3>2, Visited DEF RunFits
  <2>3. CASE Ready(p) \/ RecordError(p)
    BY <2>1, <2>3 DEF Ready, RecordError, RunFits, AffectedServices
  <2> QED
    BY <1>2, <2>2, <2>3
<1>5. run[p].held
  BY <1>2 DEF ReadyAtOnce, Ready, RecordError, ProvenInv, RunFits
<1> QED
  BY <1>3, <1>4, <1>5

(* The operation becomes maintenance-ready only by a run that holds the    *)
(* lock, whose newest inspection was of the right cluster with the target  *)
(* drained, and that has seen every affected service converged in such an  *)
(* inspection, whether it started, resumed or only retried the save.       *)
THEOREM ReadinessIsProven == Spec => ReadyIsProven
<1>1. SafetyInv /\ ProvenInv /\ [Next]_vars =>
        [ disk.phase # "maintenance-ready" /\ disk'.phase = "maintenance-ready"
            => \E p \in Process :
                 lock = p /\ run[p].held /\ AffectedServices \subseteq run[p].proven ]_vars
  BY ReadyStep
<1> QED
  BY <1>1, AlwaysProven, PTL DEF Spec, ReadyIsProven
=============================================================================
