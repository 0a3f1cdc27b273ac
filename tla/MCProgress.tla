----------------------------- MODULE MCProgress -----------------------------
EXTENDS MaintenanceProgress
One == <<"db">>
=============================================================================
