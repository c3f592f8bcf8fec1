SPECIFICATION FairSpec
CONSTANTS
    Folders = 2
    Lanes = 2
    IdleKinds = {TRUE, FALSE}
    MaxMail = 1
    MaxEvents = 2
INVARIANT TypeOK
PROPERTIES InboxAlone ReadInTheEnd ServedInTheEnd
CHECK_DEADLOCK FALSE
