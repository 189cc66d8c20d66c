SPECIFICATION Spec
CONSTANTS
    dept = dept div = div team = team ann = ann root = root boss = boss lead = lead gd = gd gt = gt ha = ha hb = hb
    Units = {dept, team}
    Users = {ann}
    NoUnit = NoUnit
    Home <- HomeTeam
    OrgLimit = 4
    Days = 1
    Persons = {root, boss, lead}
    Role <- Roles
    Holds <- Tokens
    Groups = {gd, gt}
    NoGroup = NoGroup
    Handlers = {ha, hb}
    NoHandler = NoHandler
    NoPerson = NoPerson
    RequestIds = {q1}
    Asked = {2}
    Percent = 80
    StartConfig <- Teamed
    StartMappings <- Grouped
    StartRequests <- NoneOrPending
    Metered = {team}
    SlowCalls = FALSE
    MaxCalls = 2
    MaxUsage = 1
    MaxFaults = 1
SYMMETRY Sym
PROPERTIES
    DecidedOnce
    ApprovedIsApplied
    DecisionAuthorised
    ChangesWhatWasSeen
    EveryChangeAnnounced
CHECK_DEADLOCK FALSE
