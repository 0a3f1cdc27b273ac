------------------------ MODULE ReconcileJournal_proofs ------------------------
(***************************************************************************)
(* Proof that the operation file and the Swarm together implement the      *)
(* journal of intents: every step of Reconcile is a step of IntentJournal  *)
(* or leaves it alone.                                                     *)
(***************************************************************************)
EXTENDS ReconcileAttempts_proofs

(* The journal an operation stands for: `journal` of the instance Journal. *)
JournalOf(operation) ==
  [k \in DOMAIN operation.attempts |->
     [about |-> operation.attempts[k].service, open |-> operation.attempts[k].open]]

Intent == [about : Service, open : BOOLEAN]

LEMMA JournalIs ==
  ASSUME NEW o \in Operations
  PROVE  /\ JournalOf(o) \in Seq(Intent)
         /\ Len(JournalOf(o)) = Len(o.attempts)
         /\ DOMAIN JournalOf(o) = 1..Len(o.attempts)
         /\ Len(o.attempts) \in Nat
         /\ \A k \in 1..Len(o.attempts) :
              /\ o.attempts[k] \in Attempt
              /\ JournalOf(o)[k] =
                   [about |-> o.attempts[k].service, open |-> o.attempts[k].open]
<1> DEFINE n == Len(o.attempts)
<1>1. o.attempts \in Seq(Attempt) /\ n \in Nat /\ DOMAIN o.attempts = 1..n
  BY DEF Operations
<1>2. \A k \in 1..n :
        /\ o.attempts[k] \in Attempt
        /\ [about |-> o.attempts[k].service, open |-> o.attempts[k].open] \in Intent
  <2> TAKE k \in 1..n
  <2>1. o.attempts[k] \in Attempt
    BY <1>1
  <2> QED
    BY <2>1 DEF Attempt, Intent
<1>3. JournalOf(o) \in [1..n -> Intent]
  BY <1>1, <1>2 DEF JournalOf
<1>4. JournalOf(o) \in Seq(Intent) /\ Len(JournalOf(o)) = n
  BY <1>1, <1>3, SeqDef, LenProperties
<1> QED
  BY <1>1, <1>2, <1>3, <1>4 DEF JournalOf

LEMMA JournalOpen ==
  ASSUME NEW o \in Operations, NEW k \in 1..Len(o.attempts)
  PROVE  JournalOf(o)[k].open = o.attempts[k].open
<1>1. JournalOf(o)[k] = [about |-> o.attempts[k].service, open |-> o.attempts[k].open]
  BY JournalIs
<1> QED
  BY <1>1

LEMMA JournalDeclared ==
  ASSUME NEW o \in Operations, NEW s \in Service, NEW c \in Nat
  PROVE  JournalOf(Declared(o, s, c)) =
           Append(JournalOf(o), [about |-> s, open |-> TRUE])
<1> DEFINE next == Declared(o, s, c)
           n == Len(o.attempts)
           intent == [about |-> s, open |-> TRUE]
<1>1. /\ next \in Operations
      /\ Len(next.attempts) = n + 1
      /\ \A k \in 1..n : next.attempts[k] = o.attempts[k]
      /\ LastAttempt(next) = Started(s, c)
  BY DeclaredIs
<1> HIDE DEF next
<1>2. /\ n \in Nat /\ JournalOf(o) \in Seq(Intent) /\ Len(JournalOf(o)) = n
      /\ intent \in Intent
  BY JournalIs DEF Intent
<1> HIDE DEF intent
<1>3. Append(JournalOf(o), intent) \in Seq(Intent) /\ Len(Append(JournalOf(o), intent)) = n + 1
  BY <1>2
<1>4. JournalOf(next) \in Seq(Intent) /\ Len(JournalOf(next)) = n + 1
  BY <1>1, JournalIs
<1>5. \A k \in 1..(n + 1) : JournalOf(next)[k] = Append(JournalOf(o), intent)[k]
  <2> TAKE k \in 1..(n + 1)
  <2>1. /\ JournalOf(next)[k] =
               [about |-> next.attempts[k].service, open |-> next.attempts[k].open]
        /\ k \in 1..n => JournalOf(o)[k] =
               [about |-> o.attempts[k].service, open |-> o.attempts[k].open]
    BY <1>1, JournalIs
  <2>2. CASE k \in 1..n
    BY <1>1, <1>2, <2>1, <2>2
  <2>3. CASE k = n + 1
    <3>1. next.attempts[k] = Started(s, c)
      BY <1>1, <2>3 DEF LastAttempt
    <3>2. JournalOf(next)[k] = intent
      BY <2>1, <3>1 DEF Started, intent
    <3> QED
      BY <1>2, <2>3, <3>2
  <2> QED
    BY <1>2, <2>2, <2>3
<1> QED
  BY <1>3, <1>4, <1>5, SeqEqual DEF next, intent

(* Two settled records of the same log differ at most in their last intent. *)
LEMMA JournalOfSameLog ==
  ASSUME NEW a \in Operations, NEW b \in Operations, SameLog(a, b), Settled(a), Settled(b),
         a.attempts # << >>
  PROVE  JournalOf(b) =
           [JournalOf(a) EXCEPT ![Len(JournalOf(a))].open = LastAttempt(b).open]
<1> DEFINE n == Len(a.attempts)
<1>1. n \in Nat /\ Len(b.attempts) = n /\ n \in 1..n
  BY DEF Operations, SameLog
<1>2. /\ JournalOf(a) \in Seq(Intent) /\ Len(JournalOf(a)) = n /\ DOMAIN JournalOf(a) = 1..n
      /\ \A k \in 1..n :
           /\ a.attempts[k] \in Attempt
           /\ JournalOf(a)[k] = [about |-> a.attempts[k].service, open |-> a.attempts[k].open]
  BY <1>1, JournalIs
<1>3. /\ JournalOf(b) \in Seq(Intent) /\ Len(JournalOf(b)) = n /\ DOMAIN JournalOf(b) = 1..n
      /\ \A k \in 1..n :
           /\ b.attempts[k] \in Attempt
           /\ JournalOf(b)[k] = [about |-> b.attempts[k].service, open |-> b.attempts[k].open]
  BY <1>1, JournalIs
<1>4. \A k \in 1..n : a.attempts[k].service = b.attempts[k].service
  BY <1>1 DEF SameLog, Operations
<1>5. ASSUME NEW k \in 1..n, k # n
      PROVE  JournalOf(b)[k] = JournalOf(a)[k]
  <2>1. ~a.attempts[k].open /\ ~b.attempts[k].open
    BY <1>1, <1>5 DEF Settled, Operations
  <2>2. a.attempts[k].open = FALSE /\ b.attempts[k].open = FALSE
    BY <1>2, <1>3, <2>1 DEF Attempt
  <2> QED
    BY <1>2, <1>3, <1>4, <2>2
<1>6. JournalOf(b)[n] = [JournalOf(a)[n] EXCEPT !.open = LastAttempt(b).open]
  <2>1. LastAttempt(b) = b.attempts[n] /\ a.attempts[n].service = b.attempts[n].service
    BY <1>1, <1>4 DEF LastAttempt
  <2>2. /\ JournalOf(a)[n] = [about |-> a.attempts[n].service, open |-> a.attempts[n].open]
        /\ JournalOf(b)[n] = [about |-> b.attempts[n].service, open |-> b.attempts[n].open]
    BY <1>1, <1>2, <1>3
  <2>3. \A t, x, y :
          [[about |-> t, open |-> x] EXCEPT !.open = y] = [about |-> t, open |-> y]
    OBVIOUS
  <2>4. [JournalOf(a)[n] EXCEPT !.open = LastAttempt(b).open]
          = [about |-> a.attempts[n].service, open |-> b.attempts[n].open]
    BY <2>1, <2>2, <2>3
  <2> QED
    BY <2>1, <2>2, <2>4
<1> DEFINE edited == [JournalOf(a) EXCEPT ![n].open = LastAttempt(b).open]
<1>7. /\ edited = [JournalOf(a) EXCEPT ![n] = JournalOf(b)[n]]
      /\ JournalOf(b)[n] \in Intent
  BY <1>1, <1>2, <1>3, <1>6, ElementOfSeq
<1>8. /\ edited \in Seq(Intent) /\ Len(edited) = n
      /\ \A k \in 1..n : edited[k] = IF k = n THEN JournalOf(b)[n] ELSE JournalOf(a)[k]
  BY <1>1, <1>2, <1>7, ExceptSeq
<1> HIDE DEF edited
<1>9. \A k \in 1..n : edited[k] = JournalOf(b)[k]
  BY <1>5, <1>8
<1>10. JournalOf(b) = edited
  BY <1>3, <1>8, <1>9, SeqEqual
<1> QED
  BY <1>2, <1>10 DEF edited

-----------------------------------------------------------------------------
(* The steps of the journal, in terms of the operation file. *)

LEMMA JournalStutters ==
  ASSUME UNCHANGED applied, JournalOf(disk') = JournalOf(disk)
  PROVE  UNCHANGED Journal!journalVars
BY DEF JournalOf, Journal!journalVars

(* A save of the same log closes the last intent, opens it again, or       *)
(* leaves the journal as it is.                                            *)
LEMMA JournalRelogged ==
  ASSUME disk \in Operations, disk' \in Operations, SameLog(disk, disk'),
         Settled(disk), Settled(disk'), UNCHANGED applied
  PROVE  [Journal!JournalNext]_(Journal!journalVars)
<1> DEFINE j == JournalOf(disk)
           n == Len(j)
           x == LastAttempt(disk').open
<1>1. /\ j \in Seq(Intent) /\ JournalOf(disk') \in Seq(Intent)
      /\ n = Len(disk.attempts) /\ Len(JournalOf(disk')) = n
      /\ DOMAIN j = 1..n /\ n \in Nat
  BY JournalIs DEF SameLog
<1>2. CASE n = 0
  <2>1. JournalOf(disk') = j
    BY <1>1, <1>2, SeqEqual
  <2> QED
    BY <2>1, JournalStutters
<1>3. CASE n # 0
  <2>1. disk.attempts # << >> /\ n \in 1..n
    BY <1>1, <1>3
  <2>2. JournalOf(disk') = [j EXCEPT ![n].open = x]
    BY <2>1, JournalOfSameLog
  <2>3. j # << >> /\ j[n] \in Intent
    BY <1>1, <1>3, <2>1, ElementOfSeq
  <2>4. x \in BOOLEAN
    <3>1. Len(disk'.attempts) = n /\ disk'.attempts[n] \in Attempt
      BY <1>1, <2>1, JournalIs DEF SameLog
    <3> QED
      BY <3>1 DEF LastAttempt, Attempt
  <2>5. CASE j[n].open = x
    <3>1. [j[n] EXCEPT !.open = x] = j[n]
      BY <2>3, <2>5 DEF Intent
    <3>2. [j EXCEPT ![n].open = x] = j
      BY <1>1, <3>1
    <3> QED
      BY <2>2, <3>2, JournalStutters
  <2>6. CASE j[n].open /\ x = FALSE
    <3>1. Journal!Settle
      BY <2>2, <2>3, <2>6 DEF Journal!Settle, Journal!LastOpen, JournalOf
    <3> QED
      BY <3>1 DEF Journal!JournalNext
  <2>7. CASE ~j[n].open /\ x = TRUE
    <3>1. Journal!Reopen
      BY <2>2, <2>3, <2>7 DEF Journal!Reopen, Journal!LastOpen, JournalOf
    <3> QED
      BY <3>1 DEF Journal!JournalNext
  <2> QED
    BY <2>3, <2>4, <2>5, <2>6, <2>7 DEF Intent
<1> QED
  BY <1>2, <1>3

(* The intent is written while none is open. *)
LEMMA JournalWritten ==
  ASSUME SafetyInv, DoubtInv, NEW p \in Process, Declare(p)
  PROVE  [Journal!JournalNext]_(Journal!journalVars)
<1>1. /\ pc[p] = "next" /\ Len(op[p].attempts) < MaxAttempts
      /\ UNCHANGED applied
  BY DEF Declare, CurrentNumber, swarmVars
<1>2. /\ disk = op[p] /\ op[p] \in Operations
      /\ AllClosed(disk)
  <2>1. pc[p] \notin OutOfStep /\ op[p].phase = "waiting-services"
    BY <1>1 DEF OutOfStep, Unlocked, NodeLabels, SafetyInv, PhaseKnown, PhaseFits
  <2> QED
    BY <2>1, Held DEF DoubtInv, DoubtIn
<1>3. PICK i \in run[p].todo :
        LET next == Declared(op[p], Affected[i], run[p].services[Affected[i]].force) IN
        SaveSucceeds(next) \/ SaveFails(next)
  BY DEF Declare
<1> DEFINE s == Affected[i]
           c == run[p].services[s].force
           j == JournalOf(disk)
<1>4. s \in Service /\ c \in Nat
  BY AffectedAssumption DEF SafetyInv, TypeOK, Run, ServiceView
<1>5. disk' \in {disk, Declared(disk, s, c)}
  BY <1>2, <1>3 DEF SaveSucceeds, SaveFails
<1>6. CASE disk' = disk
  BY <1>1, <1>6, JournalStutters
<1>7. CASE disk' = Declared(disk, s, c)
  <2>1. JournalOf(disk') = Append(j, [about |-> s, open |-> TRUE])
    BY <1>2, <1>4, <1>7, JournalDeclared
  <2>2. /\ Len(j) < MaxAttempts
        /\ ~(j # << >> /\ j[Len(j)].open)
    <3>1. /\ Len(j) = Len(disk.attempts) /\ Len(j) \in Nat /\ j \in Seq(Intent)
          /\ \A k \in 1..Len(j) : j[k].open = disk.attempts[k].open
      BY <1>2, JournalIs, JournalOpen
    <3>2. \A k \in 1..Len(j) : ~disk.attempts[k].open
      BY <1>2, <3>1 DEF AllClosed, Operations
    <3>3. j # << >> => Len(j) \in 1..Len(j)
      BY <3>1
    <3> QED
      BY <1>1, <1>2, <3>1, <3>2, <3>3
  <2>3. Journal!WriteIntent(s)
    BY <1>1, <2>1, <2>2 DEF Journal!WriteIntent, Journal!LastOpen, JournalOf
  <2> QED
    BY <1>4, <2>3 DEF Journal!JournalNext
<1> QED
  BY <1>5, <1>6, <1>7

(* The update takes effect while its intent is open, and for the first time. *)
LEMMA JournalTakesEffect ==
  ASSUME SafetyInv, CountInv, NEW p \in Process, UpdateAccepted(p)
  PROVE  [Journal!JournalNext]_(Journal!journalVars)
<1> DEFINE n == CurrentNumber(p)
           j == JournalOf(disk)
<1>1. /\ pc[p] = "send" /\ UNCHANGED disk
      /\ \E u \in UnsentOf(p, updates) : AcceptUpdate(u)
  BY DEF UpdateAccepted, stateVars
<1>2. /\ disk = op[p] /\ disk \in Operations /\ n \in DOMAIN disk.attempts
      /\ Current(p) = disk.attempts[n] /\ Resumable(op[p])
  BY <1>1, AtWork DEF WorkingLabels, SafetyInv, PhaseKnown, PhaseFits
<1>3. \A u \in UnsentOf(p, updates) : u.attempt = n
  BY DEF UnsentOf, CountInv, UpdatesOwned, CurrentNumber
<1>4. applied' = [applied EXCEPT ![n] = IF @ = 2 THEN 2 ELSE @ + 1]
  BY <1>1, <1>3 DEF AcceptUpdate
<1>5. applied[n] = 0
  BY <1>1 DEF CountInv, IssueFits, CurrentNumber
<1>6. applied' = [applied EXCEPT ![n] = 1]
  BY <1>4, <1>5 DEF SafetyInv, TypeOK, SwarmTypeOK
<1>7. /\ Len(j) = n /\ j \in Seq(Intent) /\ n \in 1..n
      /\ j[n].open = disk.attempts[n].open
  <2>1. /\ Len(j) = n /\ j \in Seq(Intent) /\ n \in 1..n
    BY <1>2, JournalIs DEF CurrentNumber
  <2> QED
    BY <1>2, <2>1, JournalOpen DEF CurrentNumber
<1>8. j # << >> /\ j[Len(j)].open
  BY <1>2, <1>7 DEF Resumable, Current
<1>9. Journal!TakeEffect
  BY <1>1, <1>5, <1>6, <1>7, <1>8 DEF Journal!TakeEffect, Journal!LastOpen, JournalOf
<1> QED
  BY <1>9 DEF Journal!JournalNext

(* Every other step of a process leaves the effects alone, and saves at    *)
(* most the same log.                                                      *)
LEMMA OtherSteps ==
  ASSUME SafetyInv, NEW p \in Process, ReconcileStep(p), ~Declare(p), ~UpdateAccepted(p)
  PROVE  /\ UNCHANGED applied
         /\ disk' = disk \/ (disk' \in Operations /\ SameLog(disk, disk'))
<1>0. op[p] \in Operations /\ disk \in Operations
  BY DEF SafetyInv, TypeOK, CommandTypeOK
<1>1. CASE Opening(p) \/ KillReconcile(p)
  BY <1>1
     DEF Opening, BeginReconcile, Begin, LockReconcile, Lock, LockRefused, ReloadReconcile,
         PhaseRefused, InspectNodes, InspectServices, OpeningFails, StateRefused,
         KillReconcile, Killed, LeaveOnItsWay, Discard, stateVars, swarmVars
<1>2. CASE \/ ResumeRefused(p) \/ Resume(p) \/ SelectRefused(p) \/ Select(p)
           \/ CandidateRefused(p) \/ CandidateConverged(p)
  BY <1>2
     DEF ResumeRefused, Resume, SelectRefused, Select, CandidateRefused, CandidateConverged,
         stateVars, swarmVars
<1>3. CASE \/ ReadServiceSpec(p) \/ ReadServiceSpecFails(p)
           \/ UpdateDelayed(p) \/ UpdateFails(p)
           \/ PollNodes(p) \/ PollServices(p) \/ PollRefused(p) \/ PollFails(p)
  BY <1>3
     DEF ReadServiceSpec, ReadServiceVersion, ReadServiceSpecFails, UpdateDelayed,
         UpdateFails, LeaveOnItsWay, Discard, PollNodes, PollServices, PollRefused, PollFails,
         stateVars, swarmVars
<1>4. CASE ReadyAtOnce(p) \/ Ready(p)
  <2> DEFINE ready == Moved(op[p], "maintenance-ready")
  <2>1. pc[p] \in {"select", "next"} /\ disk' \in {disk, ready} /\ UNCHANGED applied
    BY <1>4 DEF ReadyAtOnce, Ready, SaveSucceeds, SaveFails, swarmVars
  <2>2. disk = op[p]
    BY <2>1, Held DEF OutOfStep, Unlocked, NodeLabels
  <2>3. ready \in Operations /\ ready.attempts = op[p].attempts
    BY <1>0, MovedIs, PhasesAre
  <2> HIDE DEF ready
  <2> QED
    BY <2>1, <2>2, <2>3 DEF SameLog
<1>5. CASE RecordError(p)
  BY <1>0, <1>5
     DEF RecordError, Save, SaveSucceeds, SaveFails, swarmVars, SafetyInv, LogKept
<1>6. CASE Complete(p)
  <2> DEFINE closed == WithLastOpen(op[p], FALSE)
             next == Moved(closed, "waiting-services")
  <2>1. pc[p] = "complete" /\ disk' \in {disk, next} /\ UNCHANGED applied
    BY <1>6 DEF Complete, SaveSucceeds, SaveFails, swarmVars
  <2>2. disk = op[p]
    BY <2>1, AtWork DEF WorkingLabels
  <2>3. closed \in Operations /\ SameLog(op[p], closed)
    BY <1>0, WithLastOpenIs
  <2>4. next \in Operations /\ next.attempts = closed.attempts
    BY <2>3, MovedIs, PhasesAre
  <2> HIDE DEF next, closed
  <2> QED
    BY <2>1, <2>2, <2>3, <2>4 DEF SameLog
<1>7. CASE Preserve(p)
  <2> DEFINE open == WithLastOpen(op[p], TRUE)
             next == Preserved(op[p])
  <2>1. SameLog(disk, op[p]) /\ disk' \in {disk, next} /\ UNCHANGED applied
    BY <1>7 DEF Preserve, Save, SaveSucceeds, SaveFails, swarmVars, SafetyInv, LogKept
  <2>2. open \in Operations /\ SameLog(op[p], open)
    BY <1>0, WithLastOpenIs
  <2>3. next \in Operations /\ next.attempts = open.attempts
    BY <2>2, MovedIs, PhasesAre DEF Preserved
  <2> HIDE DEF next, open
  <2>4. SameLog(disk, next)
    BY <1>0, <2>1, <2>2, <2>3 DEF SameLog, Operations
  <2> QED
    BY <2>1, <2>3, <2>4
<1> QED
  BY <1>1, <1>2, <1>3, <1>4, <1>5, <1>6, <1>7 DEF ReconcileStep, Deciding, Updating

-----------------------------------------------------------------------------
LEMMA JournalStarts ==
  ASSUME Orderly, Init
  PROVE  Journal!JournalInit
<1>1. disk.attempts = << >> /\ disk \in Operations
  BY InitSafe DEF Init, CommandInit, StoredOperations, Orderly, SafetyInv, TypeOK, CommandTypeOK
<1>2. JournalOf(disk) = << >>
  <2>1. JournalOf(disk) \in Seq(Intent) /\ Len(JournalOf(disk)) = 0
    BY <1>1, JournalIs
  <2> QED
    BY <2>1, EmptySeq
<1>3. applied = [k \in 1..MaxAttempts |-> 0]
  BY DEF Init, SwarmInit
<1> QED
  BY <1>2, <1>3 DEF Journal!JournalInit, JournalOf

LEMMA JournalSteps ==
  ASSUME Orderly, SafetyInv, DoubtInv, CountInv, [Next]_vars
  PROVE  [Journal!JournalNext]_(Journal!journalVars)
<1>1. ASSUME NEW p \in Process, ReconcileStep(p)
      PROVE  [Journal!JournalNext]_(Journal!journalVars)
  <2>1. CASE Declare(p)
    BY <2>1, JournalWritten
  <2>2. CASE UpdateAccepted(p)
    BY <2>2, JournalTakesEffect
  <2>3. CASE ~Declare(p) /\ ~UpdateAccepted(p)
    <3>1. /\ UNCHANGED applied
          /\ disk' = disk \/ (disk' \in Operations /\ SameLog(disk, disk'))
      BY <1>1, <2>3, OtherSteps
    <3>2. disk \in Operations /\ Settled(disk) /\ Settled(disk')
      BY NextDoubt DEF SafetyInv, TypeOK, CommandTypeOK, DoubtInv, DoubtIn
    <3> QED
      BY <3>1, <3>2, JournalRelogged, JournalStutters
  <2> QED
    BY <2>1, <2>2, <2>3
<1>2. CASE Outside
  <2>1. UNCHANGED disk
    BY <1>2, OutsideKeeps
  <2>2. ~LateUpdate
    BY DEF LateUpdate, CountInv, UpdatesOwned
  <2>3. UNCHANGED applied
    BY <1>2, <2>2
       DEF Outside, SwarmStep, LateNodeUpdate, AcceptNodeUpdate, ServiceStep, Converge,
           TasksChange, RemoveService, OutsideForceUpdate, Rollback, TargetChanges,
           EndpointChanges, MembersChange
  <2> QED
    BY <2>1, <2>3, JournalStutters
<1>3. CASE UNCHANGED vars
  BY <1>3, JournalStutters DEF vars, stateVars, swarmVars
<1> QED
  BY <1>1, <1>2, <1>3 DEF Next

(* Whatever is killed, refused, unanswered or unsaved, the operation file  *)
(* and the Swarm together behave as the journal of intents: an attempt is  *)
(* written before its force update, the next only when the last is         *)
(* settled, and each takes effect at most once and while it is open.       *)
THEOREM JournalIsImplemented ==
  ASSUME Orderly
  PROVE  Spec => ImplementsJournal
<1>1. Init => Journal!JournalInit
  BY JournalStarts
<1>2. SafetyInv /\ CountInv /\ DoubtInv /\ [Next]_vars
        => [Journal!JournalNext]_(Journal!journalVars)
  BY JournalSteps
<1>3. Spec => [](SafetyInv /\ DoubtInv)
  BY AlwaysDoubt DEF Orderly
<1> QED
  BY <1>1, <1>2, <1>3, AlwaysCount, PTL DEF Spec, ImplementsJournal, Journal!JournalSpec
=============================================================================
