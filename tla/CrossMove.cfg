SPECIFICATION FairSpec
CONSTANTS
    Accounts = {A, B}
    Home = A
    UidPlusSets = {{A, B}, {}}
    Patient = TRUE
    MaxActs = 1
    MaxAttempts = 2
    MaxFaults = 1
INVARIANTS
    TypeOK
    NeverLost
    OneCopyEach
    IdentityIsOwn
    DoneIsRemoved
PROPERTIES
    ComesToRest
CHECK_DEADLOCK FALSE
