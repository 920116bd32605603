CONSTANTS
    NRanks <- MCRanks
    NThreads <- MCThreads
    CollopIds <- MCCollops
    MaxEvents <- MCEvents
    Defs <- MCDefs
    EnterFuncs <- MCEnterFuncs
    VTFlushFunc <- MCVTFlushFunc
SPECIFICATION Spec
INVARIANTS
    TypeOK
    RoundTrip
    SliceMatchesSender
    EventsTotal
    FlushesTotal
