SPECIFICATION FairSpec
CONSTANTS
    dept = dept div = div team = team ann = ann
    wr1 = wr1 wr2 = wr2 bo1 = bo1 bo2 = bo2
    Units = {dept, team}
    Users = {ann}
    NoUnit = NoUnit
    Home <- HomeTeam
    OrgLimit = 3
    Days = 1
    Writers = {wr1, wr2}
    NoWriter = NoWriter
    BoostIds = {bo1, bo2}
    NoBoost = NoBoost
    Amounts = {1, 2}
    Kinds = {"set", "boost"}
    Start <- StartTeam
    PutFailures = {"nothing", "landed"}
    SlowCalls = FALSE
    MaxRequests = 3
    MaxFaults = 1
    MaxEdits = 0
INVARIANTS
    HeadroomHolds
    RestoreAlwaysFits
PROPERTIES
    BoostStaysOver
    ImplementsLedger
    BoostEnds
CHECK_DEADLOCK FALSE
