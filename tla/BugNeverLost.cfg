SPECIFICATION Spec
CONSTANTS
    Accounts = {A, B}
    Home = A
    UidPlusSets = {{A, B}}
    Patient = FALSE
    MaxActs = 2
    MaxAttempts = 2
    MaxFaults = 0
INVARIANTS
    NeverLost
CHECK_DEADLOCK FALSE
