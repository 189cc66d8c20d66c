SPECIFICATION Spec
CONSTANTS
    ann = ann
    bob = bob
    People = {ann, bob}
    NoPerson = NoPerson
    unit = unit
    Scopes = {unit}
    NoScope = NoScope
    form = form
    timer = timer
    Admins = {form}
    Forms = {form}
    Timers = {timer}
    StartMembers <- Start
    Targets = {ann}
    Edited <- Edits
    MaxChanges = 2
    MaxEdits = 1
    MaxFaults = 1
    MaxTries = 2
INVARIANTS
    MoveKeepsEntitled
    PublishedIsChanged
PROPERTIES
    EmptiedOnPurpose
CHECK_DEADLOCK FALSE
