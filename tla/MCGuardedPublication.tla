------------------------- MODULE MCGuardedPublication -------------------------
EXTENDS GuardedPublication

CONSTANTS
    table,      \* the console's own DataTable
    overlay     \* the SelectOverlay that the framework mounts for a Select

MCWidgets == {table, overlay}
MCNatives == {overlay}
=============================================================================
