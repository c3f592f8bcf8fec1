SPECIFICATION Spec
CONSTANTS
    Frontends = {"desktop", "terminal"}
    MaxGen = 3
    MaxTyped = 2
    MaxQueue = 3
    MaxFaults = 1
INVARIANTS TypeOK OneRowEach WordsStayApart WordsAreWritten EmptiedIsGone
PROPERTIES SentStays DiscardsItsOwn
CHECK_DEADLOCK FALSE
