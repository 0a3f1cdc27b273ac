----------------------------- MODULE MCReconcile -----------------------------
EXTENDS ReconcileInvariants, TLC
Symmetry == Permutations(Process)
One == <<"db">>
Two == <<"cache", "db">>
=============================================================================
