SPECIFICATION FairSpec
CONSTANTS
    Callers = {c1, c2, c3}
    MaxConnections = 2
    Dedicate = TRUE
    DropPoints = {"waiting", "running"}
    TimeoutGap = FALSE
    MaxAsks = 4
INVARIANTS TypeOK NoIdleSlot ConnectionsBounded ParkedIsClean ClosedParksNothing
PROPERTIES ServedInOrder IsSemaphore WaitEnds
CHECK_DEADLOCK FALSE
