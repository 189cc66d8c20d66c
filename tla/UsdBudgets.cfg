SPECIFICATION FairSpec
CONSTANTS
    dept = dept team = team ann = ann svc = svc dir = dir known = known odd = odd
    Units = {dept, team}
    Users = {ann}
    NoUnit = NoUnit
    Home <- HomeTeam
    OrgLimit = 0
    Days = 2
    Services = {svc}
    Directs = {dir}
    NoHandler = NoHandler
    Models = {known, odd}
    Amounts = {1}
    Modes = {"strict", "notify"}
    Percent = 100
    DayLength = 1
    MonthLength = 3
    Freshness = 1
    MaxAge = 1
    Tolerance = 0
    Skew = 0
    Delay = 0
    Starts <- MCStarts
    MaxClock = 1
    MaxRows = 1
    MaxChanges = 1
    MaxFaults = 1
INVARIANTS
    ServedWithinBudget
    StopsAreDue
    AllocationsFit
PROPERTIES
    NewerStateKept
    Refreshes
CHECK_DEADLOCK FALSE
