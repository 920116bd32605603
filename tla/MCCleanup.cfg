CONSTANTS
    NStreams <- MCStreams
    MaxFaults <- MCFaults
SPECIFICATION Spec
INVARIANTS
    TypeOK
    MasterImpliesDefs
    ResultMatchesMaster
