SPECIFICATION FairSpec
CONSTANTS
    Drafts = {d1}
    MaxAttempts = 2
    MaxRows = 2
    MaxFaults = 1
    DraftsMailbox = TRUE
    StoreFails = FALSE
PROPERTIES QueuedSettles UnfileKeepsSent
CHECK_DEADLOCK FALSE
