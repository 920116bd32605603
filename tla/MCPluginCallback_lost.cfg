CONSTANTS
    p1 = p1
    Producers <- MCOneProducer
    Cap <- MCCap
    MaxTime <- MCMaxTime
    MaxSamples <- MCMaxSamples
    PMInputs <- MCPMInputs
SPECIFICATION Spec
INVARIANTS
    NoValueLost
