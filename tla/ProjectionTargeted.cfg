SPECIFICATION Spec
CONSTANTS
    u1 = u1
    u2 = u2
    Users = {u1, u2}
    snap = snap
    one = one
    JobRuns = {}
    SnapshotRuns = {snap}
    UserRuns = {one}
    Subject <- SubjectIsFirst
    NoRun = NoRun
    NoUser = NoUser
    Margin = 1
    MaxAge = 9
    ChunkSize = 1
    RemovalFloor = 0
    ExportSkew <- MarginAhead
    InitialMembers <- AllStandard
    InitialRecords <- EmptyOrEverybody
    MaxClock = 4
    MaxChanges = 1
PROPERTIES
    NoStaleOverwrite
CHECK_DEADLOCK FALSE
