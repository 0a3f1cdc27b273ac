--------------------------- MODULE MCOperationStore ---------------------------
EXTENDS OperationStore, TLC
Symmetry == Permutations(Process)
TwoClusters == [id \in Id |-> IF id = 2 THEN "other" ELSE "swarm"]
=============================================================================
