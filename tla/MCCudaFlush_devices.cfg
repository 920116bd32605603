CONSTANTS
    t1 = t1
    t2 = t2
    k1 = k1
    Kernels <- MCKernels
    Threads <- MCThreads
    Streams <- MCStreams
    DeviceCount <- MCDeviceCount
    BufSize <- MCBufSize
    KernelSize <- MCKernelSize
    MemcpySize <- MCMemcpySize
    SyncLevel <- MCSyncLevel
    Concurrent = FALSE
    Null = Null
    Garbage = Garbage
    MaxDevs <- MCMaxDevs
    MaxIssued <- MCMaxIssued
    MaxTime <- MCMaxTime
SPECIFICATION Spec
SYMMETRY MCSymmetry
INVARIANT DevicesInBounds
