------------------------------ MODULE Operation ------------------------------
(***************************************************************************)
(* The saved maintenance operation: its phases, the transitions between    *)
(* them, and its log of reconciliation attempts.                           *)
(* Source: internal/maintenance/state.go and operation.go.                 *)
(*                                                                         *)
(* A record is [phase, attempts].  Identifiers, the workload saved with    *)
(* the operation and the cluster it names never change after creation, so  *)
(* they are constants; timestamps and error texts decide nothing and are   *)
(* left out.                                                               *)
(***************************************************************************)
EXTENDS Naturals, Sequences

CONSTANTS
  Process,          \* the skepr processes that may work on the operation
  Service,          \* the services of the Swarm
  Affected,         \* TargetWorkload.AffectedServices, in saved (name) order
  SavedSingleton,   \* those saved as a replicated service with one task
  NoCounter         \* an attempt without ForceUpdateBefore (a nil pointer)

ASSUME AffectedAssumption == Affected \in Seq(Service)
ASSUME SingletonAssumption == SavedSingleton \subseteq Service
ASSUME NoCounterAssumption == NoCounter \notin Nat

-----------------------------------------------------------------------------
(* The phases, and allowedTransitions as a relation on them. *)

AllowedTransitions ==
  { <<"created", "preflight-passed">>,
    <<"preflight-passed", "draining">>,
    <<"draining", "evacuating">>,
    <<"evacuating", "waiting-services">>,
    <<"waiting-services", "maintenance-ready">>,
    <<"waiting-services", "reconciling">>,
    <<"reconciling", "waiting-services">>,
    <<"maintenance-ready", "verifying-return">>,
    <<"verifying-return", "activating">>,
    <<"activating", "verifying-cluster">>,
    <<"verifying-cluster", "completed">> }

Phases == { t[1] : t \in AllowedTransitions } \cup { t[2] : t \in AllowedTransitions }

ReconcilePhases == {"waiting-services", "reconciling"}
FinishPhases == {"maintenance-ready", "verifying-return", "activating", "verifying-cluster"}

(* Operation.transition: the guard ValidateTransition and the assignment. *)
MayMove(operation, next) == <<operation.phase, next>> \in AllowedTransitions
Moved(operation, next) == [operation EXCEPT !.phase = next]

-----------------------------------------------------------------------------
(* Reconciliation attempts.  An attempt is open while its result is        *)
(* "started" and CompletedAt is nil; the code always sets the two together.*)

Attempt == [service : Service, before : Nat \cup {NoCounter}, open : BOOLEAN]
Operations == [phase : Phases, attempts : Seq(Attempt)]

Started(service, counter) == [service |-> service, before |-> counter, open |-> TRUE]
LastAttempt(operation) == operation.attempts[Len(operation.attempts)]
WithLastOpen(operation, open) ==
  [operation EXCEPT !.attempts[Len(operation.attempts)].open = open]

(* An operation that a later run may resume: the checks resumeAttempt      *)
(* makes on the record alone.                                              *)
Resumable(operation) ==
  /\ operation.attempts # << >>
  /\ LastAttempt(operation).open
  /\ LastAttempt(operation).before # NoCounter
=============================================================================
