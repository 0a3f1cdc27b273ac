----------------------- MODULE ReconcileAttempts_proofs -----------------------
(***************************************************************************)
(* Proofs about the attempts on record, for every number of processes,     *)
(* services, attempts and outside force updates.                           *)
(*                                                                         *)
(* First: the operation file records exactly what is in doubt, when no     *)
(* earlier version left the operation reconciling.  Then: an attempt takes *)
(* effect at most once and the live counter tells whether it has, when     *)
(* besides no update is applied after its sender gave up on it and nobody  *)
(* rolls a service back.                                                   *)
(***************************************************************************)
EXTENDS Reconcile_proofs

-----------------------------------------------------------------------------
(* DoubtIn, and its relatives, of what the steps write. *)

LEMMA SettledMoved ==
  ASSUME NEW o \in Operations, NEW ph \in Phases \ {"reconciling"}, AllClosed(o)
  PROVE  DoubtIn(Moved(o, ph)) /\ AllClosed(Moved(o, ph))
<1>1. Moved(o, ph).phase = ph /\ Moved(o, ph).attempts = o.attempts
  BY MovedIs
<1> QED
  BY <1>1 DEF DoubtIn, Settled, AllClosed

LEMMA ClosedDeclared ==
  ASSUME NEW o \in Operations, NEW s \in Service, NEW c \in Nat, AllClosed(o)
  PROVE  DoubtIn(Declared(o, s, c))
<1> DEFINE next == Declared(o, s, c)
           n == Len(o.attempts)
<1>1. /\ next \in Operations
      /\ next.phase = "reconciling"
      /\ Len(next.attempts) = n + 1
      /\ \A k \in 1..n : next.attempts[k] = o.attempts[k]
      /\ LastAttempt(next) = Started(s, c)
  BY DeclaredIs
<1> HIDE DEF next
<1>2. n \in Nat /\ DOMAIN o.attempts = 1..n /\ DOMAIN next.attempts = 1..(n + 1)
  BY <1>1 DEF Operations
<1>3. Resumable(next)
  BY <1>1, <1>2, NoCounterAssumption DEF Resumable, Started
<1>4. Settled(next)
  BY <1>1, <1>2 DEF Settled, AllClosed
<1> QED
  BY <1>1, <1>3, <1>4 DEF DoubtIn, next

LEMMA SettledLastOpen ==
  ASSUME NEW o \in Operations, Settled(o)
  PROVE  /\ AllClosed(WithLastOpen(o, FALSE))
         /\ Settled(WithLastOpen(o, TRUE))
<1>1. \A b \in BOOLEAN :
        /\ WithLastOpen(o, b) \in Operations
        /\ Len(WithLastOpen(o, b).attempts) = Len(o.attempts)
        /\ \A k \in DOMAIN o.attempts :
             WithLastOpen(o, b).attempts[k].open =
               IF k = Len(o.attempts) THEN b ELSE o.attempts[k].open
  BY WithLastOpenIs DEF SameLog
<1>2. \A b \in BOOLEAN : DOMAIN WithLastOpen(o, b).attempts = DOMAIN o.attempts
  BY <1>1 DEF Operations
<1> QED
  BY <1>1, <1>2 DEF AllClosed, Settled

LEMMA DoubtPreserved ==
  ASSUME NEW o \in Operations, Settled(o), o.attempts # << >>,
         LastAttempt(o).before # NoCounter
  PROVE  DoubtIn(Preserved(o))
<1> DEFINE open == WithLastOpen(o, TRUE)
           next == Preserved(o)
<1>1. /\ open \in Operations /\ SameLog(o, open)
      /\ \A k \in DOMAIN o.attempts :
           open.attempts[k].open = IF k = Len(o.attempts) THEN TRUE ELSE o.attempts[k].open
  BY WithLastOpenIs
<1>2. Settled(open)
  BY SettledLastOpen
<1>3. next.phase = "reconciling" /\ next.attempts = open.attempts
  BY <1>1, MovedIs, PhasesAre DEF Preserved
<1> HIDE DEF next, open
<1>4. Len(o.attempts) \in DOMAIN o.attempts /\ Len(o.attempts) = Len(open.attempts)
  BY <1>1 DEF Operations, SameLog
<1>5. Resumable(next)
  <2>1. LastAttempt(next) = open.attempts[Len(o.attempts)]
    BY <1>3, <1>4 DEF LastAttempt
  <2>2. LastAttempt(next).open /\ LastAttempt(next).before = LastAttempt(o).before
    BY <1>1, <1>4, <2>1 DEF SameLog, LastAttempt
  <2>3. Len(next.attempts) # 0
    BY <1>3, <1>4 DEF Operations
  <2> QED
    BY <2>2, <2>3 DEF Resumable
<1>6. Settled(next)
  BY <1>2, <1>3 DEF Settled
<1> QED
  BY <1>3, <1>5, <1>6 DEF DoubtIn, next

-----------------------------------------------------------------------------
(* The file and the process's copy after its step, in the groups of Next.  *)

LEMMA OpeningDoubt ==
  ASSUME SafetyInv, DoubtInv, NEW p \in Process, Opening(p) \/ KillReconcile(p)
  PROVE  DoubtIn(disk') /\ DoubtFits(pc'[p], op'[p])
<1>1. UNCHANGED disk
  BY DEF Opening, BeginReconcile, Begin, LockReconcile, Lock, LockRefused, ReloadReconcile,
         PhaseRefused, InspectNodes, InspectServices, OpeningFails, StateRefused,
         KillReconcile, Killed, stateVars
<1>2. pc'[p] \notin {"preserve", "record"}
  BY DEF Opening, BeginReconcile, Begin, LockReconcile, Lock, LockRefused, ReloadReconcile,
         PhaseRefused, InspectNodes, InspectServices, OpeningFails, StateRefused,
         KillReconcile, Killed, Exit, Leave, Goto, SafetyInv, TypeOK, CommandTypeOK
<1> QED
  BY <1>1, <1>2 DEF DoubtInv, DoubtFits

LEMMA DecidingDoubt ==
  ASSUME SafetyInv, DoubtInv, NEW p \in Process, Deciding(p)
  PROVE  DoubtIn(disk') /\ DoubtFits(pc'[p], op'[p])
<1>1. /\ pc \in [Process -> Labels] /\ op \in [Process -> Operations] /\ disk \in Operations
      /\ DoubtIn(disk) /\ DoubtFits(pc[p], op[p]) /\ PhaseFits(pc[p], op[p])
  BY DEF SafetyInv, TypeOK, CommandTypeOK, DoubtInv, PhaseKnown
<1>2. ASSUME NEW result, Exit(p, result)
      PROVE  pc'[p] = "idle"
  BY <1>1, <1>2 DEF Exit, Leave, Goto
<1>3. ASSUME pc[p] \in {"select", "next"}
      PROVE  disk = op[p] /\ op[p] \in Operations /\ AllClosed(op[p])
  <2>1. pc[p] \notin OutOfStep
    BY <1>3 DEF OutOfStep, Unlocked, NodeLabels
  <2> QED
    BY <1>1, <1>3, <2>1, Held DEF PhaseFits, DoubtIn
<1>4. CASE \/ ResumeRefused(p) \/ Resume(p) \/ SelectRefused(p) \/ Select(p)
           \/ CandidateRefused(p) \/ CandidateConverged(p)
  <2>1. UNCHANGED disk /\ pc'[p] \notin {"preserve", "record"}
    BY <1>1, <1>2, <1>4
       DEF ResumeRefused, Resume, SelectRefused, Select, CandidateRefused, CandidateConverged,
           Goto, stateVars, commandVars
  <2> QED
    BY <1>1, <2>1 DEF DoubtFits
<1>5. CASE ReadyAtOnce(p) \/ Ready(p)
  <2> DEFINE ready == Moved(op[p], "maintenance-ready")
  <2>1. DoubtIn(ready) /\ AllClosed(ready)
    BY <1>3, <1>5, SettledMoved, PhasesAre DEF ReadyAtOnce, Ready
  <2> HIDE DEF ready
  <2>2. /\ disk' \in {disk, ready}
        /\ \/ pc'[p] = "idle"
           \/ pc'[p] = "record" /\ op'[p] = ready
    BY <1>1, <1>2, <1>5 DEF ReadyAtOnce, Ready, SaveSucceeds, SaveFails, SetOp, Goto, ready
  <2> QED
    BY <1>1, <2>1, <2>2 DEF DoubtFits
<1>6. CASE Declare(p)
  <2>1. pc[p] = "next"
    BY <1>6 DEF Declare
  <2>2. PICK i \in run[p].todo :
          LET next == Declared(op[p], Affected[i], run[p].services[Affected[i]].force) IN
          \/ SaveSucceeds(next) /\ Goto(p, "issue")
          \/ SaveFails(next) /\ Exit(p, "error")
    BY <1>6 DEF Declare
  <2>3. Affected[i] \in Service /\ run[p].services[Affected[i]].force \in Nat
    BY AffectedAssumption DEF SafetyInv, TypeOK, Run, ServiceView
  <2> DEFINE next == Declared(op[p], Affected[i], run[p].services[Affected[i]].force)
  <2>4. DoubtIn(next)
    BY <1>3, <2>1, <2>3, ClosedDeclared
  <2>5. disk' \in {disk, next} /\ pc'[p] \in {"issue", "idle"}
    BY <1>1, <1>2, <2>2 DEF SaveSucceeds, SaveFails, Goto
  <2> QED
    BY <1>1, <2>4, <2>5 DEF DoubtFits
<1>7. CASE RecordError(p)
  <2>1. pc[p] = "record" /\ pc'[p] = "idle" /\ disk' \in {disk, op[p]}
    BY <1>2, <1>7 DEF RecordError, Save, SaveSucceeds, SaveFails
  <2>2. DoubtIn(op[p])
    BY <1>1, <2>1 DEF PhaseFits, DoubtFits, DoubtIn, Settled, AllClosed
  <2> QED
    BY <1>1, <2>1, <2>2 DEF DoubtFits
<1> QED
  BY <1>4, <1>5, <1>6, <1>7 DEF Deciding

LEMMA UpdatingDoubt ==
  ASSUME SafetyInv, DoubtInv, NEW p \in Process, Updating(p)
  PROVE  DoubtIn(disk') /\ DoubtFits(pc'[p], op'[p])
<1>1. /\ pc \in [Process -> Labels] /\ op \in [Process -> Operations] /\ disk \in Operations
      /\ DoubtIn(disk) /\ DoubtFits(pc[p], op[p]) /\ PhaseFits(pc[p], op[p])
  BY DEF SafetyInv, TypeOK, CommandTypeOK, DoubtInv, PhaseKnown
<1>2. CASE Complete(p)
  <2> DEFINE closed == WithLastOpen(op[p], FALSE)
             next == Moved(closed, "waiting-services")
  <2>1. pc[p] = "complete" /\ disk' \in {disk, next} /\ op'[p] = next
    BY <1>1, <1>2 DEF Complete, SaveSucceeds, SaveFails, SetOp
  <2>2. disk = op[p]
    BY <2>1, AtWork DEF WorkingLabels
  <2>3. closed \in Operations
    BY <1>1, WithLastOpenIs
  <2>4. AllClosed(closed)
    BY <1>1, <2>2, SettledLastOpen DEF DoubtIn
  <2>5. DoubtIn(next) /\ AllClosed(next)
    BY <2>3, <2>4, SettledMoved, PhasesAre
  <2>6. pc'[p] # "record"
    BY <1>1, <1>2 DEF Complete, Goto
  <2> HIDE DEF next
  <2> QED
    BY <1>1, <2>1, <2>5, <2>6 DEF DoubtFits, DoubtIn
<1>3. CASE Preserve(p)
  <2>1. pc[p] = "preserve" /\ disk' \in {disk, Preserved(op[p])} /\ pc'[p] = "idle"
    BY <1>1, <1>3 DEF Preserve, Save, SaveSucceeds, SaveFails, Exit, Leave, Goto
  <2>2. DoubtIn(Preserved(op[p]))
    BY <1>1, <2>1, DoubtPreserved DEF DoubtFits, PhaseFits
  <2> QED
    BY <1>1, <2>1, <2>2 DEF DoubtFits
<1>4. CASE \/ ReadServiceSpec(p) \/ ReadServiceSpecFails(p)
           \/ UpdateAccepted(p) \/ UpdateDelayed(p) \/ UpdateFails(p)
           \/ PollNodes(p) \/ PollServices(p) \/ PollRefused(p) \/ PollFails(p)
  <2>1. /\ pc[p] \in WorkingLabels /\ UNCHANGED <<disk, op>>
        /\ pc'[p] # "record"
    BY <1>1, <1>4
       DEF ReadServiceSpec, ReadServiceSpecFails, UpdateAccepted, UpdateDelayed, UpdateFails,
           PollNodes, PollServices, PollRefused, PollFails, WorkingLabels, Polling, Goto,
           stateVars
  <2>2. disk = op[p]
    BY <2>1, AtWork
  <2> QED
    BY <1>1, <2>1, <2>2 DEF DoubtFits, DoubtIn
<1> QED
  BY <1>2, <1>3, <1>4 DEF Updating

-----------------------------------------------------------------------------
(* DoubtInv is inductive relative to SafetyInv. *)

LEMMA InitDoubt ==
  ASSUME "reconciling" \notin InitialPhases, Init
  PROVE  DoubtInv
<1>1. PICK ph \in InitialPhases : disk = [phase |-> ph, attempts |-> << >>]
  BY DEF Init, CommandInit, StoredOperations
<1>2. disk.phase # "reconciling" /\ disk.attempts = << >>
  BY <1>1
<1>3. DoubtIn(disk)
  BY <1>2 DEF DoubtIn, Settled, AllClosed
<1>4. \A p \in Process : DoubtFits(pc[p], op[p])
  BY DEF Init, CommandInit, DoubtFits
<1> QED
  BY <1>3, <1>4 DEF DoubtInv

LEMMA NextDoubt ==
  ASSUME SafetyInv, DoubtInv, [Next]_vars
  PROVE  DoubtInv'
<1>1. CASE \E p \in Process : ReconcileStep(p)
  <2>1. PICK p \in Process : ReconcileStep(p)
    BY <1>1
  <2>2. DoubtIn(disk') /\ DoubtFits(pc'[p], op'[p])
    BY <2>1, OpeningDoubt, DecidingDoubt, UpdatingDoubt DEF ReconcileStep
  <2>3. \A q \in Process \ {p} : DoubtFits(pc'[q], op'[q])
    BY <2>1, OthersKeep DEF DoubtInv
  <2> QED
    BY <2>2, <2>3 DEF DoubtInv
<1>2. CASE Outside \/ UNCHANGED vars
  BY <1>2, OutsideKeeps DEF DoubtInv
<1> QED
  BY <1>1, <1>2 DEF Next

LEMMA AlwaysDoubt ==
  ASSUME "reconciling" \notin InitialPhases
  PROVE  Spec => [](SafetyInv /\ DoubtInv)
<1>1. Init => SafetyInv /\ DoubtInv
  BY InitSafe, InitDoubt
<1>2. SafetyInv /\ DoubtInv /\ [Next]_vars => (SafetyInv /\ DoubtInv)'
  BY NextSafe, NextDoubt
<1> QED
  BY <1>1, <1>2, PTL DEF Spec

(* Unless an earlier version left the operation reconciling, its file says *)
(* so exactly while its last attempt is open, with the counter a resume    *)
(* needs, whatever was killed and whichever saves have failed.             *)
THEOREM DoubtIsRecorded ==
  ASSUME "reconciling" \notin InitialPhases
  PROVE  Spec => []DoubtRecorded
<1>1. DoubtInv => DoubtRecorded
  BY DEF DoubtInv, DoubtIn, Settled, AllClosed, DoubtRecorded
<1> QED
  BY <1>1, AlwaysDoubt, PTL

-----------------------------------------------------------------------------
Orderly == ~LateDelivery /\ ~Rollbacks /\ "reconciling" \notin InitialPhases

LEMMA LastIs ==
  ASSUME NEW o \in Operations, Resumable(o)
  PROVE  /\ Len(o.attempts) \in DOMAIN o.attempts
         /\ LastAttempt(o) = o.attempts[Len(o.attempts)]
         /\ LastAttempt(o).service \in Service
<1>1. o.attempts \in Seq(Attempt) /\ o.attempts # << >>
  BY DEF Operations, Resumable
<1>2. Len(o.attempts) \in DOMAIN o.attempts /\ o.attempts[Len(o.attempts)] \in Attempt
  BY <1>1
<1> QED
  BY <1>2 DEF LastAttempt, Attempt

-----------------------------------------------------------------------------
(* CountIn of other records and of later states of the Swarm. *)

LEMMA CountOfSameLog ==
  ASSUME NEW a \in Operations, NEW b \in Operations, SameLog(a, b),
         NEW services, NEW tally, CountIn(a, services, tally)
  PROVE  CountIn(b, services, tally)
BY DEF CountIn, SameLog, Operations

LEMMA CountOfDeclared ==
  ASSUME NEW o \in Operations, NEW s \in Service, NEW c \in Nat,
         NEW services, NEW tally, CountIn(o, services, tally),
         Len(o.attempts) < MaxAttempts, c <= services[s].force,
         ~(tally[Len(o.attempts) + 1] > 0)
  PROVE  CountIn(Declared(o, s, c), services, tally)
<1> DEFINE next == Declared(o, s, c)
           n == Len(o.attempts)
<1>1. /\ next \in Operations
      /\ Len(next.attempts) = n + 1
      /\ \A k \in 1..n : next.attempts[k] = o.attempts[k]
      /\ LastAttempt(next) = Started(s, c)
  BY DeclaredIs
<1> HIDE DEF next
<1>2. n \in Nat /\ DOMAIN o.attempts = 1..n /\ DOMAIN next.attempts = 1..(n + 1)
  BY <1>1 DEF Operations
<1>3. next.attempts[n + 1].before = c /\ next.attempts[n + 1].service = s
  BY <1>1 DEF LastAttempt, Started
<1>4. \A k \in 1..(n + 1) : k \in 1..n \/ k = n + 1
  BY <1>2
<1>5. Len(next.attempts) <= MaxAttempts
  BY <1>1, <1>2, SwarmAssumption
<1> QED
  BY <1>1, <1>2, <1>3, <1>4, <1>5 DEF CountIn, next

LEMMA CountOfGrown ==
  ASSUME NEW o \in Operations, NEW old \in [Service -> LiveService],
         NEW new \in [Service -> LiveService],
         \A s \in Service : old[s].force <= new[s].force,
         NEW tally, CountIn(o, old, tally)
  PROVE  CountIn(o, new, tally)
<1> SUFFICES ASSUME NEW k \in DOMAIN o.attempts
             PROVE  LET a == o.attempts[k] IN
                    /\ a.before <= new[a.service].force
                    /\ tally[k] > 0 => a.before < new[a.service].force
  BY DEF CountIn
<1> DEFINE a == o.attempts[k]
<1>1. a.service \in Service
  <2>1. o.attempts \in Seq(Attempt)
    BY DEF Operations
  <2>2. a \in Attempt
    BY <2>1
  <2> QED
    BY <2>2 DEF Attempt
<1>2. old[a.service].force \in Nat /\ new[a.service].force \in Nat
  BY <1>1 DEF LiveService
<1>3. /\ a.before \in Nat /\ a.before <= old[a.service].force
      /\ tally[k] > 0 => a.before < old[a.service].force
  BY DEF CountIn
<1>4. old[a.service].force <= new[a.service].force
  BY <1>1
<1> HIDE DEF a
<1>5. /\ a.before <= new[a.service].force
      /\ tally[k] > 0 => a.before < new[a.service].force
  BY <1>2, <1>3, <1>4
<1> QED
  BY <1>5 DEF a

(* The views of a run, before and after the services have moved on. *)
LEMMA ViewsKeepBehind ==
  ASSUME SafetyInv
  PROVE  /\ ViewsBehind(NoRun, live)
         /\ \A p \in Process : SetServices(p) => ViewsBehind(run'[p], live)
<1>1. \A s \in Service : live[s].force \in Nat
  BY DEF SafetyInv, TypeOK, SwarmTypeOK, LiveService
<1>2. ViewsBehind(NoRun, live)
  BY <1>1 DEF ViewsBehind, NoRun
<1>3. ASSUME NEW p \in Process, SetServices(p)
      PROVE  ViewsBehind(run'[p], live)
  <2>1. run'[p].services = ServiceViews
    BY <1>3 DEF SetServices, SafetyInv, TypeOK, Run
  <2> QED
    BY <1>1, <2>1 DEF ViewsBehind, ServiceViews
<1> QED
  BY <1>2, <1>3

LEMMA ViewsOfGrown ==
  ASSUME NEW r \in Run, NEW old \in [Service -> LiveService],
         NEW new \in [Service -> LiveService],
         \A s \in Service : old[s].force <= new[s].force,
         ViewsBehind(r, old)
  PROVE  ViewsBehind(r, new)
<1> SUFFICES ASSUME NEW s \in Service
             PROVE  r.services[s].force <= new[s].force
  BY DEF ViewsBehind
<1>1. /\ r.services[s].force \in Nat /\ old[s].force \in Nat /\ new[s].force \in Nat
      /\ r.services[s].force <= old[s].force /\ old[s].force <= new[s].force
  BY DEF Run, ServiceView, LiveService, ViewsBehind
<1> QED
  BY <1>1

-----------------------------------------------------------------------------
(* Steps that leave the Swarm alone. *)

LEMMA QuietCount ==
  ASSUME SafetyInv, CountInv, NEW p \in Process, ReconcileStep(p),
         UNCHANGED swarmVars, pc[p] # "send",
         CountIn(disk', live, applied),
         ViewsBehind(run'[p], live),
         IssueFits(pc'[p], op'[p], run'[p], applied)
  PROVE  CountInv'
<1>1. UNCHANGED <<live, applied, updates>>
  BY DEF swarmVars
<1>2. \A q \in Process \ {p} : pc'[q] = pc[q] /\ op'[q] = op[q] /\ run'[q] = run[q]
  BY OthersKeep
<1>3. UpdatesOwned'
  BY <1>1, <1>2 DEF CountInv, UpdatesOwned, SafetyInv, TypeOK, SwarmTypeOK, Update
<1>4. \A q \in Process :
        ViewsBehind(run'[q], live) /\ IssueFits(pc'[q], op'[q], run'[q], applied)
  BY <1>2 DEF CountInv
<1> QED
  BY <1>1, <1>3, <1>4 DEF CountInv, AtMostOnce

(* Every return to idle. *)
LEMMA ExitCount ==
  ASSUME SafetyInv, CountInv, NEW p \in Process, ReconcileStep(p), NEW result,
         Exit(p, result), UNCHANGED swarmVars, pc[p] # "send",
         CountIn(disk', live, applied)
  PROVE  CountInv'
<1>1. pc'[p] = "idle" /\ run'[p] = NoRun
  BY DEF Exit, Leave, Goto, SafetyInv, TypeOK, CommandTypeOK
<1> QED
  BY <1>1, QuietCount, ViewsKeepBehind DEF IssueFits

(* Every move to a label at which nothing is issued, with the views as     *)
(* they are.                                                               *)
LEMMA AwayCount ==
  ASSUME SafetyInv, CountInv, NEW p \in Process, ReconcileStep(p),
         NEW label \in ReconcileLabels \ {"issue", "send", "resume"}, Goto(p, label),
         run'[p].services = run[p].services,
         UNCHANGED swarmVars, pc[p] # "send",
         CountIn(disk', live, applied)
  PROVE  CountInv'
<1>1. pc'[p] = label
  BY DEF Goto, SafetyInv, TypeOK, CommandTypeOK
<1>2. ViewsBehind(run'[p], live)
  BY DEF CountInv, ViewsBehind
<1> QED
  BY <1>1, <1>2, QuietCount DEF IssueFits

LEMMA OpeningCount ==
  ASSUME SafetyInv, CountInv, NEW p \in Process, Opening(p)
  PROVE  CountInv'
<1>0. ReconcileStep(p) /\ run \in [Process -> Run] /\ run[p] \in Run
  BY DEF ReconcileStep, SafetyInv, TypeOK
<1>1. /\ UNCHANGED <<disk, live, applied>> /\ UNCHANGED swarmVars /\ pc[p] # "send"
      /\ CountIn(disk', live, applied)
  BY DEF Opening, BeginReconcile, Begin, LockReconcile, Lock, LockRefused, ReloadReconcile,
         PhaseRefused, InspectNodes, InspectServices, OpeningFails, StateRefused, stateVars,
         swarmVars, CountInv
<1>2. CASE BeginReconcile(p) \/ LockReconcile(p) \/ ReloadReconcile(p) \/ InspectNodes(p)
  <2>1. PICK label \in {"locking", "reloading", "inspect", "services"} : Goto(p, label)
    BY <1>2 DEF BeginReconcile, Begin, LockReconcile, Lock, ReloadReconcile, InspectNodes
  <2>2. run'[p].services = run[p].services
    BY <1>0, <1>2
       DEF BeginReconcile, LockReconcile, ReloadReconcile, InspectNodes, Run
  <2> QED
    BY <1>0, <1>1, <2>1, <2>2, AwayCount DEF ReconcileLabels
<1>3. CASE InspectServices(p)
  <2>1. /\ pc[p] = "services" /\ pc'[p] \in {"resume", "select"}
        /\ op'[p] = op[p] /\ SetServices(p)
    BY <1>3 DEF InspectServices, Goto, SafetyInv, TypeOK, CommandTypeOK
  <2>2. run'[p].services = ServiceViews
    BY <1>0, <2>1 DEF SetServices, Run
  <2>3. disk = op[p] /\ op[p] \in Operations
    BY <2>1, Held DEF OutOfStep, Unlocked, NodeLabels
  <2>4. IssueFits(pc'[p], op'[p], run'[p], applied)
    <3> DEFINE n == Len(op[p].attempts)
               a == LastAttempt(op[p])
    <3> SUFFICES ASSUME Resumable(op[p]), applied[n] > 0
                 PROVE  run'[p].services[a.service].force > a.before
      BY <2>1 DEF IssueFits
    <3>1. n \in DOMAIN op[p].attempts /\ a = op[p].attempts[n] /\ a.service \in Service
      BY <2>3, LastIs
    <3>2. a.before \in Nat /\ a.before < live[a.service].force /\ live[a.service].force \in Nat
      BY <2>3, <3>1 DEF CountInv, CountIn, SafetyInv, TypeOK, SwarmTypeOK, LiveService
    <3>3. run'[p].services[a.service].force = live[a.service].force
      BY <2>2, <3>1 DEF ServiceViews
    <3> QED
      BY <3>2, <3>3
  <2> QED
    BY <1>0, <1>1, <2>1, <2>4, QuietCount, ViewsKeepBehind
<1>4. CASE LockRefused(p) \/ PhaseRefused(p) \/ OpeningFails(p) \/ StateRefused(p)
  <2>1. PICK result : Exit(p, result)
    BY <1>4 DEF LockRefused, PhaseRefused, OpeningFails, StateRefused
  <2> QED
    BY <1>0, <1>1, <2>1, ExitCount
<1> QED
  BY <1>2, <1>3, <1>4 DEF Opening

LEMMA DecidingCount ==
  ASSUME SafetyInv, CountInv, NEW p \in Process, Deciding(p)
  PROVE  CountInv'
<1>0. /\ ReconcileStep(p) /\ run \in [Process -> Run] /\ run[p] \in Run
      /\ pc \in [Process -> Labels] /\ op[p] \in Operations /\ disk \in Operations
      /\ op \in [Process -> Operations]
      /\ CountIn(disk, live, applied)
  BY DEF ReconcileStep, SafetyInv, TypeOK, CommandTypeOK, CountInv
<1>1. UNCHANGED swarmVars /\ pc[p] # "send"
  BY DEF Deciding, ResumeRefused, Resume, SelectRefused, Select, ReadyAtOnce,
         CandidateRefused, CandidateConverged, Declare, Ready, RecordError
<1>2. ASSUME pc[p] \in {"resume", "select", "next"}
      PROVE  disk = op[p]
  BY <1>2, Held DEF OutOfStep, Unlocked, NodeLabels
<1>3. CASE Resume(p)
  <2>1. /\ pc[p] = "resume" /\ op'[p] = op[p] /\ disk' = disk
        /\ pc'[p] = "issue" => CounterUnmoved(p)
        /\ pc'[p] \in {"complete", "issue", "poll"}
        /\ Resumable(op[p])
    BY <1>0, <1>3 DEF Resume, Goto, stateVars
  <2>2. run'[p].services = run[p].services
    BY <1>0, <1>3 DEF Resume, Run
  <2>3. IssueFits(pc[p], op[p], run[p], applied) /\ ViewsBehind(run[p], live)
    BY DEF CountInv
  <2>4. IssueFits(pc'[p], op'[p], run'[p], applied)
    <3> DEFINE n == Len(op[p].attempts)
               a == LastAttempt(op[p])
    <3> SUFFICES ASSUME CounterUnmoved(p)
                 PROVE  applied[n] = 0
      BY <2>1 DEF IssueFits
    <3>1. n \in DOMAIN op[p].attempts /\ a = op[p].attempts[n] /\ a.service \in Service
      BY <1>0, <2>1, LastIs
    <3>2. n \in 1..MaxAttempts /\ applied[n] \in 0..2
      BY <1>0, <1>2, <2>1, <3>1, SwarmAssumption
         DEF CountIn, Operations, SafetyInv, TypeOK, SwarmTypeOK
    <3>3. run[p].services[a.service].force = a.before /\ run[p].services[a.service].force \in Nat
      BY <1>0, <3>1 DEF CounterUnmoved, SeenCurrent, Current, Run, ServiceView
    <3> QED
      BY <2>1, <2>3, <3>2, <3>3 DEF IssueFits
  <2>5. ViewsBehind(run'[p], live)
    BY <2>2, <2>3 DEF ViewsBehind
  <2> QED
    BY <1>0, <1>1, <2>1, <2>4, <2>5, QuietCount
<1>4. CASE Select(p) \/ CandidateConverged(p)
  <2>1. /\ pc'[p] = "next" /\ disk' = disk
        /\ run'[p].services = run[p].services
    BY <1>0, <1>4 DEF Select, CandidateConverged, Goto, stateVars, commandVars, Run
  <2>2. ViewsBehind(run'[p], live)
    BY <2>1 DEF CountInv, ViewsBehind
  <2> QED
    BY <1>0, <1>1, <2>1, <2>2, QuietCount DEF IssueFits
<1>5. CASE ReadyAtOnce(p) \/ Ready(p)
  <2> DEFINE ready == Moved(op[p], "maintenance-ready")
  <2>1. disk = op[p]
    BY <1>2, <1>5 DEF ReadyAtOnce, Ready
  <2>2. ready \in Operations /\ SameLog(disk, ready)
    BY <1>0, <2>1, MovedIs, PhasesAre DEF SameLog
  <2>3. CountIn(ready, live, applied)
    BY <1>0, <2>2, CountOfSameLog
  <2> HIDE DEF ready
  <2>4. disk' \in {disk, ready}
    BY <1>5 DEF ReadyAtOnce, Ready, SaveSucceeds, SaveFails, ready
  <2>5. CountIn(disk', live, applied)
    BY <1>0, <2>3, <2>4
  <2>6. CASE \E result : Exit(p, result)
    BY <1>0, <1>1, <2>5, <2>6, ExitCount
  <2>7. CASE Goto(p, "record") /\ UNCHANGED run
    BY <1>0, <1>1, <2>5, <2>7, AwayCount DEF ReconcileLabels
  <2> QED
    BY <1>5, <2>6, <2>7 DEF ReadyAtOnce, Ready
<1>6. CASE Declare(p)
  <2>1. pc[p] = "next" /\ Len(op[p].attempts) < MaxAttempts
    BY <1>6 DEF Declare, CurrentNumber
  <2>2. PICK i \in run[p].todo :
          LET next == Declared(op[p], Affected[i], run[p].services[Affected[i]].force) IN
          \/ /\ SaveSucceeds(next)
             /\ SetOp(p, next)
             /\ run' = [run EXCEPT ![p].todo = @ \ {i}]
             /\ Goto(p, "issue")
          \/ SaveFails(next) /\ Exit(p, "error")
    BY <1>6 DEF Declare
  <2> DEFINE s == Affected[i]
             c == run[p].services[s].force
             next == Declared(op[p], s, c)
             n == Len(op[p].attempts)
  <2>3. s \in Service /\ c \in Nat
    BY <1>0, AffectedAssumption DEF Run, ServiceView
  <2>4. disk = op[p] /\ n \in Nat /\ DOMAIN disk.attempts = 1..n
    BY <1>0, <1>2, <2>1 DEF Operations
  <2>5. n + 1 \in 1..MaxAttempts /\ applied[n + 1] = 0
    <3>1. n + 1 \in 1..MaxAttempts /\ n + 1 \notin 1..n
      BY <2>1, <2>4, SwarmAssumption
    <3>2. ~(applied[n + 1] > 0) /\ applied[n + 1] \in 0..2
      BY <2>4, <3>1 DEF SafetyInv, TypeOK, SwarmTypeOK, IntentFirst
    <3> QED
      BY <3>1, <3>2
  <2>6. c <= live[s].force
    BY <2>3 DEF CountInv, ViewsBehind
  <2>7. CountIn(next, live, applied)
    BY <1>0, <2>1, <2>3, <2>4, <2>5, <2>6, CountOfDeclared
  <2>8. Len(next.attempts) = n + 1
    BY <1>0, <2>3, DeclaredIs
  <2> HIDE DEF next
  <2>9. CASE /\ SaveSucceeds(next)
             /\ SetOp(p, next)
             /\ run' = [run EXCEPT ![p].todo = @ \ {i}]
             /\ Goto(p, "issue")
    <3>1. pc'[p] = "issue" /\ op'[p] = next /\ disk' = next
      BY <1>0, <2>9 DEF SetOp, Goto, SaveSucceeds
    <3>2. ViewsBehind(run'[p], live)
      BY <1>0, <2>9 DEF CountInv, ViewsBehind, Run
    <3>3. IssueFits(pc'[p], op'[p], run'[p], applied)
      BY <2>5, <2>8, <3>1 DEF IssueFits
    <3> QED
      BY <1>0, <1>1, <2>7, <3>1, <3>2, <3>3, QuietCount
  <2>10. CASE SaveFails(next) /\ Exit(p, "error")
    <3>1. CountIn(disk', live, applied)
      BY <1>0, <2>7, <2>10 DEF SaveFails
    <3> QED
      BY <1>0, <1>1, <2>10, <3>1, ExitCount
  <2> QED
    BY <2>2, <2>9, <2>10 DEF next
<1>7. CASE RecordError(p)
  <2>1. disk' \in {disk, op[p]} /\ Exit(p, "partial") /\ SameLog(disk, op[p])
    BY <1>7 DEF RecordError, Save, SaveSucceeds, SaveFails, SafetyInv, LogKept
  <2>2. CountIn(disk', live, applied)
    BY <1>0, <2>1, CountOfSameLog
  <2> QED
    BY <1>0, <1>1, <2>1, <2>2, ExitCount
<1>8. CASE ResumeRefused(p) \/ SelectRefused(p) \/ CandidateRefused(p)
  <2>1. disk' = disk /\ Exit(p, "blocked")
    BY <1>8 DEF ResumeRefused, SelectRefused, CandidateRefused
  <2> QED
    BY <1>0, <1>1, <2>1, ExitCount
<1> QED
  BY <1>3, <1>4, <1>5, <1>6, <1>7, <1>8 DEF Deciding

-----------------------------------------------------------------------------
(* Steps that change the Swarm. *)

(* A request that is given up, and that cannot arrive any more.            *)
LEMMA DiscardCount ==
  ASSUME SafetyInv, CountInv, NEW p \in Process, ReconcileStep(p), Discard(p),
         pc'[p] \notin {"issue", "send", "resume"}, UNCHANGED disk,
         ViewsBehind(run'[p], live)
  PROVE  CountInv'
<1>1. UNCHANGED <<live, applied>> /\ updates' = updates \ UnsentOf(p, updates)
  BY DEF Discard
<1>2. \A q \in Process \ {p} : pc'[q] = pc[q] /\ op'[q] = op[q] /\ run'[q] = run[q]
  BY OthersKeep
<1>3. UpdatesOwned'
  <2> SUFFICES ASSUME NEW u \in updates'
               PROVE  /\ ~u.sent /\ pc'[u.process] = "send"
                      /\ u.attempt = Len(op'[u.process].attempts)
    BY DEF UpdatesOwned
  <2>1. u \in updates /\ ~u.sent /\ u.process \in Process \ {p}
    BY <1>1 DEF UnsentOf, CountInv, UpdatesOwned, SafetyInv, TypeOK, SwarmTypeOK, Update
  <2> QED
    BY <1>2, <2>1 DEF CountInv, UpdatesOwned
<1>4. IssueFits(pc'[p], op'[p], run'[p], applied)
  BY DEF IssueFits
<1>5. \A q \in Process :
        ViewsBehind(run'[q], live) /\ IssueFits(pc'[q], op'[q], run'[q], applied)
  BY <1>2, <1>4 DEF CountInv
<1> QED
  BY <1>1, <1>3, <1>5 DEF CountInv, AtMostOnce

LEMMA KillCount ==
  ASSUME Orderly, SafetyInv, CountInv, NEW p \in Process, KillReconcile(p)
  PROVE  CountInv'
<1>1. ReconcileStep(p) /\ Discard(p) /\ UNCHANGED disk
  BY DEF ReconcileStep, KillReconcile, Killed, LeaveOnItsWay, Orderly
<1>2. pc'[p] = "idle" /\ run'[p] = NoRun
  BY DEF KillReconcile, Killed, Goto, SafetyInv, TypeOK, CommandTypeOK
<1> QED
  BY <1>1, <1>2, DiscardCount, ViewsKeepBehind

(* The update is read on behalf of the process's own attempt.              *)
LEMMA ReadCount ==
  ASSUME SafetyInv, CountInv, NEW p \in Process, ReadServiceSpec(p)
  PROVE  CountInv'
<1> DEFINE new == [process |-> p, service |-> Current(p).service,
                   attempt |-> CurrentNumber(p), sent |-> FALSE]
<1>1. /\ pc[p] = "issue" /\ updates' = updates \cup {new}
      /\ UNCHANGED <<live, applied, disk, op, run>>
  BY DEF ReadServiceSpec, ReadServiceVersion, stateVars
<1>2. /\ pc'[p] = "send"
      /\ \A q \in Process \ {p} : pc'[q] = pc[q]
  BY DEF ReadServiceSpec, Goto, SafetyInv, TypeOK, CommandTypeOK
<1>3. UpdatesOwned'
  <2> SUFFICES ASSUME NEW u \in updates'
               PROVE  /\ ~u.sent /\ pc'[u.process] = "send"
                      /\ u.attempt = Len(op[u.process].attempts)
    BY <1>1 DEF UpdatesOwned
  <2>1. CASE u = new
    BY <1>2, <2>1 DEF CurrentNumber
  <2>2. CASE u \in updates
    <3>1. u.process \in Process
      BY <2>2 DEF SafetyInv, TypeOK, SwarmTypeOK, Update
    <3> QED
      BY <1>2, <2>2, <3>1 DEF CountInv, UpdatesOwned
  <2> QED
    BY <1>1, <2>1, <2>2
<1>4. \A q \in Process :
        ViewsBehind(run[q], live) /\ IssueFits(pc'[q], op[q], run[q], applied)
  BY <1>1, <1>2 DEF CountInv, IssueFits
<1> QED
  BY <1>1, <1>3, <1>4 DEF CountInv, AtMostOnce

(* The Swarm accepts the one update there is, for an attempt that had no   *)
(* effect so far, and moves past the attempt's counter.                    *)
LEMMA AcceptedCount ==
  ASSUME SafetyInv, CountInv, NEW p \in Process, UpdateAccepted(p)
  PROVE  CountInv'
<1> DEFINE n == CurrentNumber(p)
           s == Current(p).service
<1>1. /\ pc[p] = "send"
      /\ UNCHANGED <<disk, op, run>>
      /\ \E u \in UnsentOf(p, updates) : AcceptUpdate(u)
  BY DEF UpdateAccepted, stateVars
<1>2. /\ pc'[p] \in {"poll", "preserve"}
      /\ \A q \in Process \ {p} : pc'[q] = pc[q]
  BY DEF UpdateAccepted, Goto, SafetyInv, TypeOK, CommandTypeOK
<1>3. /\ lock = p /\ disk = op[p] /\ op[p] \in Operations
      /\ n \in DOMAIN disk.attempts /\ Current(p) = disk.attempts[n] /\ s \in Service
  BY <1>1, AtWork DEF WorkingLabels, Attempt
<1>4. \A u \in updates : u.process = p /\ u.attempt = n /\ u.service = s
  <2> TAKE u \in updates
  <2>1. u.process \in Process /\ pc[u.process] = "send"
    BY DEF CountInv, UpdatesOwned, SafetyInv, TypeOK, SwarmTypeOK, Update
  <2>2. u.process = p
    BY <1>3, <2>1 DEF SafetyInv, NoLostUpdate, Unlocked
  <2> QED
    BY <1>3, <2>2 DEF CountInv, UpdatesOwned, CurrentNumber, SafetyInv, IntentFirst
<1>5. /\ live' = [live EXCEPT ![s] = Rescheduled(@)]
      /\ applied' = [applied EXCEPT ![n] = IF @ = 2 THEN 2 ELSE @ + 1]
      /\ updates' = {}
  BY <1>1, <1>4 DEF UnsentOf, AcceptUpdate, SpecChanged
<1>6. /\ live \in [Service -> LiveService] /\ applied \in [1..MaxAttempts -> 0..2]
      /\ n \in 1..MaxAttempts /\ applied[n] = 0
  <2>1. n <= MaxAttempts /\ applied[n] = 0
    BY <1>1, <1>3 DEF CountInv, CountIn, IssueFits, CurrentNumber
  <2>2. n \in 1..Len(disk.attempts) /\ Len(disk.attempts) \in Nat
    BY <1>3 DEF Operations
  <2> QED
    BY <2>1, <2>2, SwarmAssumption DEF SafetyInv, TypeOK, SwarmTypeOK
<1>7. /\ live' \in [Service -> LiveService]
      /\ \A t \in Service : live[t].force <= live'[t].force
      /\ live[s].force < live'[s].force
  <2>1. \A t \in Service :
          /\ live[t] \in LiveService /\ live[t].force \in Nat
          /\ Rescheduled(live[t]) \in LiveService
          /\ Rescheduled(live[t]).force = live[t].force + 1
    BY <1>6 DEF LiveService, Rescheduled, Healths
  <2> QED
    BY <1>3, <1>5, <1>6, <2>1
<1>8. applied'[n] = 1 /\ \A k \in (1..MaxAttempts) \ {n} : applied'[k] = applied[k]
  BY <1>5, <1>6
<1>9. CountIn(disk, live', applied')
  <2>1. CountIn(disk, live', applied)
    BY <1>3, <1>6, <1>7, CountOfGrown DEF CountInv
  <2>2. /\ Current(p).before \in Nat /\ Current(p).before <= live[s].force
        /\ live[s].force \in Nat /\ live'[s].force \in Nat
    BY <1>3, <1>6, <1>7 DEF CountInv, CountIn, LiveService
  <2>3. Current(p).before < live'[s].force
    BY <1>7, <2>2
  <2>4. \A k \in DOMAIN disk.attempts : k \in 1..MaxAttempts
    BY <1>3, SwarmAssumption DEF CountInv, CountIn, Operations
  <2> QED
    BY <1>3, <1>8, <2>1, <2>3, <2>4 DEF CountIn
<1>10. AtMostOnce'
  BY <1>8 DEF CountInv, AtMostOnce
<1>11. \A q \in Process :
         ViewsBehind(run[q], live') /\ IssueFits(pc'[q], op[q], run[q], applied')
  <2> TAKE q \in Process
  <2>1. ViewsBehind(run[q], live')
    BY <1>6, <1>7, ViewsOfGrown DEF CountInv, SafetyInv, TypeOK
  <2>2. pc'[q] \notin {"issue", "send", "resume"}
    BY <1>1, <1>2, OthersWait DEF SafetyInv, Unlocked
  <2> QED
    BY <2>1, <2>2 DEF IssueFits
<1>12. UpdatesOwned'
  BY <1>5 DEF UpdatesOwned
<1> QED
  BY <1>1, <1>9, <1>10, <1>11, <1>12 DEF CountInv

LEMMA UpdatingCount ==
  ASSUME Orderly, SafetyInv, CountInv, NEW p \in Process, Updating(p)
  PROVE  CountInv'
<1>0. /\ ReconcileStep(p)
      /\ run \in [Process -> Run] /\ run[p] \in Run
      /\ pc \in [Process -> Labels] /\ op[p] \in Operations /\ disk \in Operations
      /\ CountIn(disk, live, applied) /\ ViewsBehind(run[p], live)
  BY DEF ReconcileStep, SafetyInv, TypeOK, CommandTypeOK, CountInv
<1>1. CASE ReadServiceSpec(p) \/ UpdateAccepted(p)
  BY <1>1, ReadCount, AcceptedCount
<1>2. CASE UpdateDelayed(p) \/ UpdateFails(p)
  <2>1. Discard(p) /\ pc'[p] = "preserve" /\ UNCHANGED <<disk, run>>
    BY <1>0, <1>2 DEF UpdateDelayed, UpdateFails, LeaveOnItsWay, Orderly, Goto, stateVars
  <2> QED
    BY <1>0, <2>1, DiscardCount
<1>3. CASE ReadServiceSpecFails(p) \/ PollRefused(p) \/ PollFails(p)
  <2>1. /\ Goto(p, "preserve") /\ pc[p] # "send"
        /\ UNCHANGED <<disk, run>> /\ UNCHANGED swarmVars
    BY <1>3 DEF ReadServiceSpecFails, PollRefused, PollFails, Polling, stateVars
  <2> QED
    BY <1>0, <2>1, AwayCount DEF ReconcileLabels
<1>4. CASE PollNodes(p)
  <2>1. /\ Goto(p, "polled") /\ pc[p] # "send" /\ UNCHANGED disk /\ UNCHANGED swarmVars
    BY <1>4 DEF PollNodes, stateVars
  <2>2. run'[p].services = run[p].services
    BY <1>0, <1>4 DEF PollNodes, Run
  <2> QED
    BY <1>0, <2>1, <2>2, AwayCount DEF ReconcileLabels, Polling
<1>5. CASE PollServices(p)
  <2>1. /\ pc'[p] \in {"poll", "complete"} /\ pc[p] # "send" /\ UNCHANGED disk
        /\ UNCHANGED swarmVars
        /\ SetServices(p) \/ UNCHANGED run
    BY <1>0, <1>5 DEF PollServices, Goto, stateVars
  <2>2. ViewsBehind(run'[p], live)
    BY <1>0, <2>1, ViewsKeepBehind
  <2> QED
    BY <1>0, <2>1, <2>2, QuietCount DEF IssueFits
<1>6. CASE Complete(p)
  <2> DEFINE closed == WithLastOpen(op[p], FALSE)
             next == Moved(closed, "waiting-services")
  <2>1. /\ pc[p] = "complete" /\ disk' \in {disk, next}
        /\ UNCHANGED run /\ UNCHANGED swarmVars
    BY <1>6 DEF Complete, SaveSucceeds, SaveFails
  <2>2. PICK label \in {"select", "next", "preserve"} : Goto(p, label)
    BY <1>6 DEF Complete
  <2>3. disk = op[p]
    BY <2>1, AtWork DEF WorkingLabels
  <2>4. closed \in Operations /\ SameLog(disk, closed)
    BY <1>0, <2>3, WithLastOpenIs
  <2>5. next \in Operations /\ next.attempts = closed.attempts
    BY <2>4, MovedIs, PhasesAre
  <2> HIDE DEF next, closed
  <2>6. CountIn(disk', live, applied)
    <3>1. SameLog(disk, next)
      BY <2>4, <2>5 DEF SameLog
    <3> QED
      BY <1>0, <2>1, <2>5, <3>1, CountOfSameLog
  <2> QED
    BY <1>0, <2>1, <2>2, <2>6, AwayCount DEF ReconcileLabels
<1>7. CASE Preserve(p)
  <2> DEFINE open == WithLastOpen(op[p], TRUE)
             next == Preserved(op[p])
  <2>1. /\ pc[p] = "preserve" /\ SameLog(disk, op[p])
        /\ disk' \in {disk, next} /\ Exit(p, "partial") /\ UNCHANGED swarmVars
    BY <1>7 DEF Preserve, Save, SaveSucceeds, SaveFails, SafetyInv, LogKept
  <2>2. open \in Operations /\ SameLog(op[p], open)
    BY <1>0, WithLastOpenIs
  <2>3. next \in Operations /\ next.attempts = open.attempts
    BY <2>2, MovedIs, PhasesAre DEF Preserved
  <2> HIDE DEF next, open
  <2>4. CountIn(disk', live, applied)
    <3>1. CountIn(op[p], live, applied)
      BY <1>0, <2>1, CountOfSameLog
    <3>2. SameLog(op[p], next)
      BY <2>2, <2>3 DEF SameLog
    <3> QED
      BY <1>0, <2>1, <2>3, <3>1, <3>2, CountOfSameLog
  <2> QED
    BY <1>0, <2>1, <2>4, ExitCount
<1> QED
  BY <1>1, <1>2, <1>3, <1>4, <1>5, <1>6, <1>7 DEF Updating

(* The Swarm and its operators: counters only grow, and no update is left  *)
(* to arrive late.                                                         *)
LEMMA OutsideCount ==
  ASSUME Orderly, SafetyInv, CountInv, Outside
  PROVE  CountInv'
<1>1. UNCHANGED <<disk, pc, op, run>>
  BY OutsideKeeps
<1>2. live \in [Service -> LiveService] /\ disk \in Operations /\ run \in [Process -> Run]
  BY DEF SafetyInv, TypeOK, SwarmTypeOK, CommandTypeOK
<1>3. /\ live' \in [Service -> LiveService]
      /\ SwarmStep
  BY SwarmKeeps DEF SafetyInv, TypeOK, Outside, stateVars, SwarmTypeOK
<1>4. ~LateUpdate
  BY DEF LateUpdate, CountInv, UpdatesOwned
<1>5. UNCHANGED applied /\ updates' \subseteq updates
  BY <1>3, <1>4
     DEF SwarmStep, LateNodeUpdate, AcceptNodeUpdate, ServiceStep, Converge, TasksChange,
         RemoveService, OutsideForceUpdate, Rollback, TargetChanges, EndpointChanges,
         MembersChange, SpecChanged
<1>6. \A s \in Service : live[s].force <= live'[s].force
  <2>1. \A t \in Service : live[t] \in LiveService /\ live[t].force \in Nat
    BY <1>2 DEF LiveService
  <2>2. ASSUME NEW s \in Service, ServiceStep(s)
        PROVE  \A t \in Service : live[t].force <= live'[t].force
    <3>1. CASE Converge(s) \/ TasksChange(s) \/ RemoveService(s)
      BY <1>2, <2>1, <3>1 DEF Converge, TasksChange, RemoveService, LiveService
    <3>2. CASE OutsideForceUpdate(s)
      BY <1>2, <2>1, <3>2 DEF OutsideForceUpdate, Rescheduled
    <3> QED
      BY <2>2, <3>1, <3>2 DEF ServiceStep, Rollback, Orderly
  <2>3. CASE UNCHANGED live
    BY <2>1, <2>3
  <2> QED
    BY <1>3, <1>4, <2>2, <2>3
       DEF SwarmStep, LateNodeUpdate, AcceptNodeUpdate, TargetChanges, EndpointChanges,
           MembersChange
<1>7. CountIn(disk, live', applied)
  BY <1>2, <1>3, <1>6, CountOfGrown DEF CountInv
<1>8. \A q \in Process : ViewsBehind(run[q], live')
  BY <1>2, <1>3, <1>6, ViewsOfGrown DEF CountInv
<1> QED
  BY <1>1, <1>5, <1>7, <1>8 DEF CountInv, UpdatesOwned, AtMostOnce

-----------------------------------------------------------------------------
(* CountInv is inductive relative to SafetyInv. *)

LEMMA InitCount ==
  ASSUME Orderly, Init
  PROVE  CountInv
<1>1. disk.attempts = << >> /\ updates = {} /\ \A k \in 1..MaxAttempts : applied[k] = 0
  BY DEF Init, SwarmInit, CommandInit, StoredOperations, Orderly
<1>2. CountIn(disk, live, applied)
  BY <1>1, SwarmAssumption DEF CountIn
<1>3. \A p \in Process : pc[p] = "idle" /\ run[p] = NoRun
  BY DEF Init, CommandInit
<1>4. ViewsBehind(NoRun, live)
  BY ViewsKeepBehind, InitSafe
<1> QED
  BY <1>1, <1>2, <1>3, <1>4 DEF CountInv, UpdatesOwned, AtMostOnce, IssueFits

LEMMA NextCount ==
  ASSUME Orderly, SafetyInv, CountInv, [Next]_vars
  PROVE  CountInv'
<1>1. CASE \E p \in Process : ReconcileStep(p)
  BY <1>1, OpeningCount, DecidingCount, UpdatingCount, KillCount DEF ReconcileStep
<1>2. CASE Outside
  BY <1>2, OutsideCount
<1>3. CASE UNCHANGED vars
  BY <1>3
     DEF vars, stateVars, swarmVars, commandVars, CountInv, UpdatesOwned, AtMostOnce
<1> QED
  BY <1>1, <1>2, <1>3 DEF Next

LEMMA AlwaysCount ==
  ASSUME Orderly
  PROVE  Spec => [](SafetyInv /\ CountInv)
<1>1. Init => SafetyInv /\ CountInv
  BY InitSafe, InitCount
<1>2. SafetyInv /\ CountInv /\ [Next]_vars => (SafetyInv /\ CountInv)'
  BY NextSafe, NextCount
<1> QED
  BY <1>1, <1>2, PTL DEF Spec

(* However often runs are killed, lose the answer to an update, fail to    *)
(* save and resume, and whatever operators do to the services meanwhile,   *)
(* the Swarm applies each attempt's force update at most once.             *)
THEOREM AppliedAtMostOnce ==
  ASSUME Orderly
  PROVE  Spec => []AtMostOnce
<1>1. CountInv => AtMostOnce
  BY DEF CountInv
<1> QED
  BY <1>1, AlwaysCount, PTL

(* The counter saved with an attempt tells a resume whether the attempt    *)
(* was applied: if it was, the live counter is above it from then on.      *)
THEOREM CounterIsTelling ==
  ASSUME Orderly
  PROVE  Spec => []CounterTells
<1>1. SafetyInv /\ CountInv => CounterTells
  BY DEF CountInv, CountIn, CounterTells
<1> QED
  BY <1>1, AlwaysCount, PTL
===============================================================================
