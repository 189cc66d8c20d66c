SPECIFICATION ProfileSpec
CONSTANTS
    Consoles = {ui1, ui2}
    Configures = {cli}
    Contents = {a, b}
    Missing = Missing
    Nobody = Nobody
    MaxEdits = 2
    MaxCrashes = 1
SYMMETRY Sym
INVARIANTS
    OldRecoverable
PROPERTIES
    NewerKept
CHECK_DEADLOCK FALSE
