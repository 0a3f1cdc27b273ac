--------------------------- MODULE StateDirectory ---------------------------
(***************************************************************************)
(* The state directory the commands share: the operation file and the      *)
(* cluster lock.  Source: internal/operations/store.go and lock.go, seen   *)
(* from their callers.                                                     *)
(*                                                                         *)
(* A rename replaces the file at once, so a reader finds one whole record. *)
(* Save may report an error before that rename or after it (the directory  *)
(* is opened and synced last), and its caller cannot tell which.           *)
(***************************************************************************)
EXTENDS Operation

CONSTANT NoProcess    \* the lock file is not locked

ASSUME NoProcessAssumption == NoProcess \notin Process

VARIABLES
  disk,        \* the operation file
  lock         \* the process that holds flock on the cluster's lock file

stateVars == <<disk, lock>>

SaveSucceeds(operation) == disk' = operation
SaveFails(operation) == disk' \in {disk, operation}
Save(operation) == SaveSucceeds(operation) \/ SaveFails(operation)

(* A fault: LOCK_SH in place of LOCK_EX. *)
AcquireShared(p) == lock' = p

(* LOCK_EX | LOCK_NB: one holder, and nobody waits for it. *)
AcquireClusterLock(p) == lock = NoProcess /\ lock' = p
LockConflict == lock # NoProcess

(* The deferred Release, or the kernel closing a dead process's files. *)
ReleaseClusterLock(p) == lock' = IF lock = p THEN NoProcess ELSE lock
=============================================================================
