---------------------------- MODULE MCMaintenance ----------------------------
EXTENDS Maintenance, TLC
Symmetry == Permutations(Process)
One == <<"db">>
=============================================================================
