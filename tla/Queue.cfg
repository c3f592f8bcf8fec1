SPECIFICATION FairSpec
CONSTANTS
    Messages = {m1, m2}
    Other = m2
    Mailboxes = {"Inbox", "Archive", "Trash"}
    Inbox = "Inbox"
    Trash = "Trash"
    Flags = {seen}
    Copies = 2
    MaxAttempts = 2
    MaxRows = 2
    Lanes = 1
    MaxFaults = 1
INVARIANTS TypeOK SettledAgrees PendingFlagsShow
PROPERTIES RowsSettle TouchesItsMessage
CONSTRAINT OtherRests
CHECK_DEADLOCK FALSE
