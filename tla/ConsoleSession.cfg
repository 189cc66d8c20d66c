SPECIFICATION Spec
CONSTANTS
    ann = ann bob = bob
    Users = {ann, bob}
    NoUser = NoUser
    Engines = {1, 2}
    First = 1
    Kinds <- OneOfEach
    MaxTrouble = 1
    MaxCycles = 3
    MaxMoves = 1
SYMMETRY Sym
INVARIANTS
    ShownIsVerified
    PageMatchesQuery
    ShownForSignIn
CHECK_DEADLOCK FALSE
