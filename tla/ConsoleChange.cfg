SPECIFICATION Spec
CONSTANTS
    f1 = f1 f2 = f2 f3 = f3
    Forms = {f1, f2, f3}
    Kind <- MCKind
    Authorities = {"aum", "turnstile"}
    Amounts = {1, 2}
    Extras = {0}
    Limit = 3
    Stores <- MCStores
    None = None
    MaxTasks = 2
    MaxReviews = 2
    MaxMoves = 1
    MaxTrouble = 1
INVARIANTS
    OneWritePerReview
    QuitWaits
    OutcomeHonest
CHECK_DEADLOCK FALSE
