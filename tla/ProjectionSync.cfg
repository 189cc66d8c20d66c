SPECIFICATION Spec
CONSTANTS
    u1 = u1
    Users = {u1}
    job = job
    snap = snap
    JobRuns = {job}
    SnapshotRuns = {snap}
    UserRuns = {}
    Subject <- SubjectIsFirst
    NoRun = NoRun
    NoUser = NoUser
    Margin = 0
    MaxAge = 2
    ChunkSize = 1
    RemovalFloor = 1
    ExportSkew <- NoSkew
    InitialMembers <- StandardOnly
    InitialRecords <- EmptyOrFull
    MaxClock = 3
    MaxChanges = 2
INVARIANTS
    SettledRecordsCorrect
    PublishedMatchesScan
PROPERTIES
    NoStaleOverwrite
    ImplementsSerial
CHECK_DEADLOCK FALSE
