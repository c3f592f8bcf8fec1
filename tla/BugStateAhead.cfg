SPECIFICATION Spec
CONSTANTS
    Initial = 1
    ModSeqServers = {TRUE}
    ReliableFeeds = {TRUE}
    SweepEvery = 2
    MaxEvents = 2
    MaxGens = 1
    MaxMoves = 0
    MaxFaults = 1
    MaxLosses = 0
INVARIANT StateNeverAhead
CHECK_DEADLOCK FALSE
