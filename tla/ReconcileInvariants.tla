-------------------------- MODULE ReconcileInvariants --------------------------
(***************************************************************************)
(* The inductive invariants behind the properties of Reconcile, for the    *)
(* proofs.  What a single process knows is stated as an operator on its    *)
(* label and its locals, so that the step of another process leaves it.    *)
(***************************************************************************)
EXTENDS Reconcile

(* Where a process has an attempt to settle. *)
WorkingLabels == Polling \cup {"issue", "send", "complete"}

-----------------------------------------------------------------------------
(* SafetyInv: type, lock and file, and write-ahead.                        *)

(* Where a process is tells what its copy of the operation looks like.     *)
PhaseFits(label, operation) ==
  /\ label \in {"inspect", "services"} => operation.phase \in ReconcilePhases
  /\ label = "resume" => operation.phase = "reconciling"
  /\ label \in WorkingLabels => operation.phase = "reconciling" /\ Resumable(operation)
  /\ label \in {"select", "next"} => operation.phase = "waiting-services"
  /\ label = "record" => operation.phase = "maintenance-ready"
  /\ label = "preserve" =>
       operation.attempts # << >> /\ LastAttempt(operation).before # NoCounter

PhaseKnown == \A p \in Process : PhaseFits(pc[p], op[p])

(* Two records with the same log, but for whether attempts are open. *)
SameLog(a, b) ==
  /\ Len(a.attempts) = Len(b.attempts)
  /\ \A k \in DOMAIN a.attempts :
       /\ a.attempts[k].service = b.attempts[k].service
       /\ a.attempts[k].before = b.attempts[k].before

(* A save that failed left the old or the new record, with the same log.   *)
LogKept ==
  \A p \in Process : pc[p] \in {"preserve", "record"} => SameLog(disk, op[p])

SafetyInv == TypeOK /\ NoLostUpdate /\ PhaseKnown /\ LogKept /\ IntentFirst

-----------------------------------------------------------------------------
(* DoubtInv: what the file says is in doubt, is, and the other way round.  *)

(* Only the last attempt can be open; none is. *)
Settled(operation) ==
  \A k \in DOMAIN operation.attempts :
    operation.attempts[k].open => k = Len(operation.attempts)
AllClosed(operation) == \A k \in DOMAIN operation.attempts : ~operation.attempts[k].open

(* DoubtRecorded of any record. *)
DoubtIn(operation) ==
  /\ operation.phase = "reconciling" => Resumable(operation)
  /\ Settled(operation)
  /\ operation.phase # "reconciling" => AllClosed(operation)

DoubtFits(label, operation) ==
  /\ label = "preserve" => Settled(operation)
  /\ label = "record" => AllClosed(operation)

DoubtInv == DoubtIn(disk) /\ \A p \in Process : DoubtFits(pc[p], op[p])

-----------------------------------------------------------------------------
(* ProvenInv: what a run still has to visit, and what it has seen.         *)

RunFits(label, r, operation) ==
  LET current == LastAttempt(operation).service IN
  /\ label \in {"resume", "select", "next", "issue", "send", "complete", "record"}
       => r.held
  /\ \A s \in Service : r.services[s].condition = "converged" => s \in r.proven
  /\ label = "next" =>
       \A i \in DOMAIN Affected : i \in r.todo \/ Affected[i] \in r.proven
  /\ label \in WorkingLabels /\ ~r.resuming =>
       \A i \in DOMAIN Affected : i \in r.todo \/ Affected[i] \in r.proven \cup {current}
  /\ label \in {"issue", "send"} /\ ~r.resuming => Eligible(current, r.services[current])
  /\ label = "complete" /\ ~r.resuming => current \in r.proven
  /\ label = "record" => AffectedServices \subseteq r.proven

ProvenInv == \A p \in Process : RunFits(pc[p], run[p], op[p])

-----------------------------------------------------------------------------
(* CountInv: who may still have an effect, and what the counters tell,     *)
(* without late updates, rollbacks and records of other versions.          *)

(* Every recorded attempt has a counter that the live one has reached, and *)
(* passed if the attempt was applied.                                      *)
CountIn(operation, services, tally) ==
  /\ Len(operation.attempts) <= MaxAttempts
  /\ \A k \in DOMAIN operation.attempts :
       LET a == operation.attempts[k] IN
       /\ a.before \in Nat
       /\ a.before <= services[a.service].force
       /\ tally[k] > 0 => a.before < services[a.service].force

(* An update is on behalf of the current attempt of a process sending it.  *)
UpdatesOwned ==
  \A u \in updates :
    ~u.sent /\ pc[u.process] = "send" /\ u.attempt = Len(op[u.process].attempts)

(* Counters only grow. *)
ViewsBehind(r, services) == \A s \in Service : r.services[s].force <= services[s].force

(* A process that may issue an attempt knows that it was not applied.      *)
IssueFits(label, operation, r, tally) ==
  LET number == Len(operation.attempts)
      a      == LastAttempt(operation) IN
  /\ label \in {"issue", "send"} => tally[number] = 0
  /\ label = "resume" /\ Resumable(operation) /\ tally[number] > 0
       => r.services[a.service].force > a.before

CountInv ==
  /\ CountIn(disk, live, applied)
  /\ UpdatesOwned
  /\ AtMostOnce
  /\ \A p \in Process :
       ViewsBehind(run[p], live) /\ IssueFits(pc[p], op[p], run[p], applied)
=============================================================================
