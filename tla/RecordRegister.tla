---------------------------- MODULE RecordRegister ----------------------------
(***************************************************************************)
(* What the operation store promises: every operation is a register that   *)
(* is replaced whole.  A power loss may bring an earlier record back, but  *)
(* none that is older than the last one whose Save was reported done, and  *)
(* never half of one.                                                      *)
(***************************************************************************)
CONSTANTS Id, File

VARIABLES
  current,     \* the file a reader of the operation finds
  fallback,    \* the files a power loss may leave behind
  reported     \* the last file that Save reported as saved, or that was found

registerVars == <<current, fallback, reported>>

Settled(files) == [id \in Id |-> {files[id]}]

RegisterInit ==
  /\ current \in [Id -> File]
  /\ fallback = Settled(current)
  /\ reported = current

Replace(id, file) ==
  /\ current' = [current EXCEPT ![id] = file]
  /\ fallback' = [fallback EXCEPT ![id] = @ \cup {file}]
  /\ UNCHANGED reported

(* Success of one Save settles every file of the directory. *)
Report(id) ==
  /\ fallback' = Settled(current)
  /\ reported' = [reported EXCEPT ![id] = current[id]]
  /\ UNCHANGED current

PowerFails ==
  /\ current' \in [Id -> File]
  /\ \A id \in Id : current'[id] \in fallback[id]
  /\ fallback' = Settled(current')
  /\ reported' = current'

RegisterNext ==
  \/ \E id \in Id, file \in File : Replace(id, file)
  \/ \E id \in Id : Report(id)
  \/ PowerFails

RegisterSpec == RegisterInit /\ [][RegisterNext]_registerVars
=============================================================================
