SPECIFICATION FairSpec
CONSTANTS
    Initial = 1
    ModSeqServers = {TRUE, FALSE}
    ReliableFeeds = {TRUE, FALSE}
    SweepEvery = 2
    MaxEvents = 2
    MaxGens = 2
    MaxMoves = 1
    MaxFaults = 1
    MaxLosses = 1
INVARIANT TypeOK
PROPERTIES OnlyGoneDeleted Converges CatchesUp
CHECK_DEADLOCK FALSE
