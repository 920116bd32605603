---------------------------- MODULE MCCudaFlush ----------------------------
EXTENDS CudaFlush

CONSTANTS t1, t2, k1

MCThreads == {t1, t2}
MCKernels == {k1}
MCOneThread == {t1}
MCStreams == {0, 1}
\* One GPU; a buffer of 64 bytes holds two kernels (32 bytes each) but not
\* a kernel and a copy (40 bytes).
MCDeviceCount == 1
MCBufSize == 8
MCKernelSize == 4
MCMemcpySize == 5
MCSyncLevel == 3
MCMaxDevs == 2
MCMaxIssued == 2
MCMaxTime == 2

\* Every kernel registered at module load: a launch of an unregistered
\* kernel records nothing, and the run that checks the device slots
\* (MCCudaFlush_devices.cfg) keeps that case.
MCRegistered == {MCKernels}

MCSymmetry == Permutations(MCThreads)
====
