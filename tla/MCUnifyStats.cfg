CONSTANTS
    Files <- MCFiles
    EventTimes <- MCEventTimes
    Two64 = 1000
    StatsFiles <- MCStatsFiles
    LocalToGlobal <- MCLocalToGlobal
    ThreadBit = 65536
    NoStats = NoStats
    MarkerFiles <- MCMarkerFiles
    NoMarkers = NoMarkers
SPECIFICATION StatsSpec
INVARIANT TypeOK EventTimesCorrected MarkerTokensFaithful  SummaryIsAverage
PROPERTY ImplementsFormat
