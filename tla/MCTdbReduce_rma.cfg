CONSTANTS
    NRanks <- MCRanks
    NThreads <- MCThreads
    CollopIds <- MCCollops
    MaxEvents <- MCEventsSmall
    Defs <- MCDefs
    EnterFuncs <- MCEnterFuncs
    VTFlushFunc <- MCVTFlushFunc
SPECIFICATION Spec
INVARIANTS
    RmaTotal
