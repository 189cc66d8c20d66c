SPECIFICATION Spec
CONSTANTS
    dept = dept div = div team = team ann = ann
    wr1 = wr1 wr2 = wr2 bo1 = bo1 bo2 = bo2
    Units = {dept, div, team}
    Users = {ann}
    NoUnit = NoUnit
    Home <- HomeDept
    OrgLimit = 3
    Days = 1
    Writers = {wr1, wr2}
    NoWriter = NoWriter
    BoostIds = {bo1}
    NoBoost = NoBoost
    Amounts = {2}
    Kinds = {"set", "boost", "add", "move", "remove", "tier", "manager"}
    Start <- StartCatalog
    PutFailures = {"nothing", "later"}
    SlowCalls = TRUE
    MaxRequests = 2
    MaxFaults = 1
    MaxEdits = 1
SYMMETRY Sym
INVARIANTS
    HeadroomHolds
    NoGrantWithoutUnit
PROPERTIES
    NothingUnseenOverwritten
CHECK_DEADLOCK FALSE
