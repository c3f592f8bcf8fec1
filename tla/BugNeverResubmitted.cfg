SPECIFICATION Spec
CONSTANTS
    Drafts = {d1}
    MaxAttempts = 2
    MaxRows = 2
    MaxFaults = 1
    DraftsMailbox = FALSE
    StoreFails = FALSE
INVARIANTS NeverResubmitted
CHECK_DEADLOCK FALSE
