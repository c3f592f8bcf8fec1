SPECIFICATION Spec
CONSTANTS
    Drafts = {d1}
    MaxAttempts = 2
    MaxRows = 2
    MaxFaults = 1
    DraftsMailbox = FALSE
    StoreFails = TRUE
INVARIANTS TypeOK AtMostOnce DeliveredIsRemembered OnWireIsSending
CONSTRAINT NotOverwritten
CHECK_DEADLOCK FALSE
