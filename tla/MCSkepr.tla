-------------------------------- MODULE MCSkepr -------------------------------
EXTENDS Skepr, TLC
Symmetry == Permutations(Process) \cup Permutations(Node \ {Target})
One == <<"db">>
=============================================================================
