----------------------------- MODULE CudaFlush -----------------------------
(***************************************************************************)
(* The asynchronous task buffer of the CUDA runtime wrapper               *)
(* (vtlib/vt_cudartwrap.c).  Every host thread that uses the CUDA device  *)
(* gets a VTCUDADevice, registered in the array cudaDevices at index      *)
(* gpuNum.  Asynchronous memory copies (addMemcpy2Buf) and kernels        *)
(* (cudaConfigureCall reserves the entry at buf_pos and sets its stream,  *)
(* cudaLaunch completes it) are appended to the device's entry buffer     *)
(* with a pair of CUDA events.  VTCUDAflush synchronizes with the device  *)
(* and converts each entry's event times into VampirTrace timestamps,     *)
(* chained per stream object from the last synchronization point, then    *)
(* resets the buffer.  cudaThreadExit and vt_cudartwrap_finalize clean     *)
(* devices up.                                                             *)
(*                                                                         *)
(* One CUDA device id; a device is identified by its host thread.  Host  *)
(* and device times are integers of one true clock, but the code only     *)
(* knows them through the synchronization events: a sync event is         *)
(* recorded on the device between the host's record call and the return  *)
(* of cudaEventSynchronize, so factorX, the host time over the device     *)
(* time between two sync events, is a ratio that is not 1 in general; the *)
(* casts truncate.  Synchronizing with pending tasks takes one tick; a    *)
(* task takes at least one.  The GPU is the set of event timings Timings  *)
(* allows.  Buffer sizes are in 8-byte units.                             *)
(* Each API call is one action: a device is only touched by its thread,   *)
(* and the shared cudaDevices array only under CUDARTWRAP_LOCK.           *)
(***************************************************************************)
EXTENDS Integers, SequencesExt

CONSTANTS
    Threads,      \* host threads calling the CUDA runtime
    Kernels,      \* host function pointers of the application's kernels
    Streams,      \* CUDA stream handles; 0 is the default stream
    DeviceCount,  \* cudaGetDeviceCount: the length of cudaDevices
    BufSize,      \* asyncBufSize
    KernelSize,   \* sizeof(VTCUDAKernel)
    MemcpySize,   \* sizeof(VTCUDAMemcpy)
    SyncLevel,    \* VT_CUDATRACE_SYNC
    Concurrent,   \* deviceProp.concurrentKernels
    Null,         \* an empty cudaDevices slot
    Garbage,      \* an uninitialised or stale strm field at buf_pos
    MaxDevs,      \* bound on device registrations (gpuNum)
    MaxIssued,    \* bound on asynchronous tasks
    MaxTime       \* bound on the clock

ASSUME 0 \in Streams /\ SyncLevel \in 0 .. 3 /\ Concurrent \in BOOLEAN

\* VTCUDAKernel / VTCUDAMemcpy: the entry type, its stream object, the
\* stream its events are recorded on, and the host time of the call.
Entry == [id : Nat, type : {"kernel", "memcpy"}, strm : Streams,
          on : Streams, issued : Nat]

EntrySize(e) == IF e.type = "kernel" THEN KernelSize ELSE MemcpySize

\* buf_pos - asyncbuf.
Used(b) == FoldLeft(LAMBDA acc, e : acc + EntrySize(e), 0, b)

VARIABLES
    now,        \* vt_pform_wtime
    slots,      \* cudaDevices[0 .. gpuNum-1]: owning thread or Null
    dev,        \* per thread: its VTCUDADevice
    out,        \* the converted entries written to the CUDA stream threads
    dropped,    \* entries discarded by a cleanup without flush
    nextId,     \* asynchronous tasks issued
    corrupt,    \* cudaLaunch used a garbage stream pointer
    finalized,  \* vt_cudartwrap_finalize has run
    configured, \* per thread: the CUDA runtime holds a launch configuration
    kernels     \* kernelListHead: the registered host functions

vars == <<now, slots, dev, out, dropped, nextId, corrupt, finalized,
          configured, kernels>>

\* A freed VTCUDADevice (nothing of it is read again).
NoDev == [strms |-> <<>>, buf |-> <<>>, pend |-> Garbage,
          strtT |-> 0, strtE |-> 0, lastT |-> 0]

Registered(t) == t \in ToSet(slots)

\* VTCUDAgetDevice: the index of t's entry in cudaDevices.
SlotOf(t) == SelectInSeq(slots, LAMBDA u : u = t)

\* VTCUDAcreateDevice + VTCUDAinitDevice: stream 0's object, the start
\* synchronization point (no task is pending, so it is the current time),
\* lastTime = strtTime, an uninitialised buffer.
NewDev == [strms |-> <<0>>, buf |-> <<>>, pend |-> Garbage,
           strtT |-> now, strtE |-> now, lastT |-> now]

\* (mutant) a new stream object is appended without searching the list.
CheckThreadNoSearch(t, s) ==
    IF Registered(t)
    THEN [dev |-> [dev[t] EXCEPT !.strms = Append(@, s)],
          slots |-> slots, strm |-> s]
    ELSE [dev |-> NewDev, slots |-> Append(slots, t), strm |-> 0]

\* VTCUDAcheckThread(stream, ptid): the device and stream object of t,
\* creating the device (appended at cudaDevices[gpuNum]) or the stream
\* object as needed.  A new device is returned with its stream-0 object,
\* whatever stream was asked for.
CheckThread(t, s) ==
    IF Registered(t)
    THEN [dev |-> IF s \in ToSet(dev[t].strms) THEN dev[t]
                  ELSE [dev[t] EXCEPT !.strms = Append(@, s)],
          slots |-> slots, strm |-> s]
    ELSE [dev |-> NewDev, slots |-> Append(slots, t), strm |-> 0]

CanCheck(t) == Registered(t) \/ Len(slots) < MaxDevs

-----------------------------------------------------------------------------
(* The device.  A task recorded on the default stream waits for every      *)
(* earlier task and every later task waits for it; on one stream tasks run *)
(* in order.  The event times of the buffered tasks are any that respect   *)
(* this and the issue times, up to the stop synchronization point hi.      *)

SameQueue(a, b) == a.on = b.on \/ a.on = 0 \/ b.on = 0

RECURSIVE Timings(_, _, _)
Timings(b, hi, pre) ==
    IF Len(pre) = Len(b) THEN {pre}
    ELSE LET k  == Len(pre) + 1
             lo == Max({b[k].issued} \cup
                       {pre[j].e : j \in {i \in 1 .. Len(pre) :
                                             SameQueue(b[i], b[k])}})
         IN UNION {Timings(b, hi, Append(pre, r)) :
                     r \in {r \in [s : lo .. hi, e : lo .. hi] : r.s < r.e}}

-----------------------------------------------------------------------------
(* VTCUDAflush.                                                            *)

\* VTCUDAsynchronizeEvt on the stop event: it waits for the pending tasks.
SyncStop == now + 1

\* The device times the stop event, recorded on stream 0 at flush_time =
\* now, may have: after every buffered task, before the host returns.
StopEvents(tm) == (Max({now} \cup {tm[k].e : k \in DOMAIN tm})) .. SyncStop

\* Possible device timings of d's buffer at a flush, and of its stop event.
Meas(d) == IF d.buf = <<>> THEN {[tm |-> <<>>, stop |-> now]}
           ELSE UNION {{[tm |-> tm, stop |-> x] : x \in StopEvents(tm)} :
                        tm \in Timings(d.buf, SyncStop, <<>>)}

\* (uint64_t)((double)diff_ms * factorX) with factorX = fx.n / fx.d.
Cast(diff, fx) == (diff * fx.n) \div fx.d

\* One iteration of the loop over the buffer: convert the entry's start
\* event relative to its stream object's last event, clamp to lastTime,
\* add the duration, clamp both to syncStopTime, advance the stream
\* object, and for a kernel on a device without concurrent kernels start
\* it no earlier than the previous kernel's stop.
Step(lt, ss, fx, e, mk, st) ==
    LET o  == st.objs[e.strm]
        s0 == o.vt + Cast(mk.s - o.evt, fx)
        s1 == IF s0 < lt THEN lt ELSE s0
        p0 == s1 + Cast(mk.e - mk.s, fx)
        p  == IF p0 > ss THEN ss ELSE p0
        s2 == IF p0 > ss /\ s1 > ss THEN ss ELSE s1
        s3 == IF e.type = "kernel" /\ s2 < st.serial /\ ~Concurrent
              THEN st.serial ELSE s2
    IN [objs   |-> [st.objs EXCEPT ![e.strm] = [vt |-> p, evt |-> mk.e]],
        serial |-> IF e.type = "kernel" THEN p ELSE st.serial,
        out    |-> Append(st.out, [id |-> e.id, start |-> s3, stop |-> p,
                                   issued |-> e.issued])]

\* The loop of VTCUDAflush over d's buffer with measurements m: every
\* stream object starts at the synchronization start point, lastTime is
\* raised to strtTime, factorX = (syncStopTime - strtTime) / the device
\* time between the two sync events.
Convert(d, m) ==
    LET ss   == SyncStop
        lt   == IF d.strtT > d.lastT THEN d.strtT ELSE d.lastT
        fx   == [n |-> ss - d.strtT, d |-> m.stop - d.strtE]
        base == [objs   |-> [x \in Streams |-> [vt |-> d.strtT, evt |-> d.strtE]],
                 serial |-> 0, out |-> <<>>]
    IN  FoldLeft(LAMBDA st, x : Step(lt, ss, fx, x[1], x[2], st), base,
                 Zip(d.buf, m.tm))

\* (mutant) the buffer position is not reset.
FlushNoReset(d, m) ==
    IF d.buf = <<>> THEN [dev |-> d, out |-> <<>>, took |-> 0]
    ELSE [dev  |-> [d EXCEPT !.strtT = SyncStop, !.strtE = m.stop,
                             !.lastT = SyncStop],
          out  |-> Convert(d, m).out, took |-> 1]

Flush(d, m) ==
    IF d.buf = <<>> THEN [dev |-> d, out |-> <<>>, took |-> 0]
    ELSE [dev  |-> [d EXCEPT !.buf = <<>>, !.pend = d.buf[1].strm,
                             !.strtT = SyncStop, !.strtE = m.stop,
                             !.lastT = SyncStop],
          out  |-> Convert(d, m).out, took |-> 1]

\* A flush taken only when cond holds.
FlushIf(cond, d, m) ==
    IF cond THEN Flush(d, m) ELSE [dev |-> d, out |-> <<>>, took |-> 0]

MeasIf(cond, d) == IF cond THEN Meas(d) ELSE {[tm |-> <<>>, stop |-> now]}

\* The output and the clock after flush result f.
ApplyFlush(f) == /\ out' = out \o f.out
                 /\ now' = now + f.took

Live == ~finalized /\ ~corrupt

-----------------------------------------------------------------------------
(* The API calls.                                                          *)

\* The kernel lists module load can leave: __cudaRegisterFunction runs
\* for every kernel before main and, when kernels are traced, calls
\* insertKernelElement, which extracts the name, defines a region and
\* pushes the element on kernelListHead; a kernel of a module registered
\* behind the wrapper's back is missing.
RegisteredAtLoad == SUBSET Kernels

\* cudartwrap_init: no device is registered yet.
Init ==
    /\ now = 0
    /\ slots = <<>>
    /\ dev = [t \in Threads |-> NoDev]
    /\ out = <<>>
    /\ dropped = {}
    /\ nextId = 0
    /\ corrupt = FALSE
    /\ finalized = FALSE
    /\ configured = [t \in Threads |-> FALSE]
    /\ kernels \in RegisteredAtLoad

Tick ==
    /\ Live /\ now < MaxTime
    /\ now' = now + 1
    /\ UNCHANGED <<slots, dev, out, dropped, nextId, corrupt, finalized,
                   configured, kernels>>

\* addMemcpy2Buf(kind, count, stream), for a copy that is not host to
\* host: look up the device, flush it if the copy does not fit, append
\* the copy at buf_pos; the events are recorded on the copy's stream.
AddMemcpy2Buf(t, s, m) ==
    LET c    == CheckThread(t, s)
        full == Used(c.dev.buf) + MemcpySize > BufSize
        f    == FlushIf(full, c.dev, m)
        e    == [id |-> nextId, type |-> "memcpy", strm |-> c.strm, on |-> s,
                 issued |-> now + f.took]
    IN [dev   |-> [f.dev EXCEPT !.buf = Append(@, e), !.pend = Garbage],
        slots |-> c.slots, out |-> f.out, took |-> f.took]

\* cudaMemcpyAsync and the other CUDA_MEMCPY_ASYNC wrappers.
MemcpyAsync(t, s) ==
    /\ Live /\ CanCheck(t) /\ nextId < MaxIssued
    /\ LET c == CheckThread(t, s)
       IN \E m \in MeasIf(Used(c.dev.buf) + MemcpySize > BufSize, c.dev) :
            LET a == AddMemcpy2Buf(t, s, m)
            IN /\ dev' = [dev EXCEPT ![t] = a.dev]
               /\ slots' = a.slots
               /\ ApplyFlush(a)
    /\ nextId' = nextId + 1
    /\ UNCHANGED <<dropped, corrupt, finalized, configured, kernels>>

\* cudaConfigureCall(..., stream): look up the device, flush it if a
\* kernel does not fit, and set the strm field of the entry at buf_pos.
\* The application launches each configuration before the next one.
ConfigureCall(t, s) ==
    /\ Live /\ CanCheck(t) /\ ~configured[t]
    /\ configured' = [configured EXCEPT ![t] = TRUE]
    /\ LET c    == CheckThread(t, s)
           full == Used(c.dev.buf) + KernelSize > BufSize
       IN \E m \in MeasIf(full, c.dev) :
            LET f == FlushIf(full, c.dev, m)
            IN /\ dev' = [dev EXCEPT ![t] = [f.dev EXCEPT !.pend = c.strm]]
               /\ slots' = c.slots
               /\ ApplyFlush(f)
    /\ UNCHANGED <<dropped, nextId, corrupt, finalized, kernels>>

\* getKernelElement(hostFun): the list element for k, if registered.
GetKernelElement(k) == k \in kernels

\* cudaLaunch(entry): the CUDA runtime takes the configuration.  For a
\* registered kernel the entry at buf_pos is completed with its strm field
\* as cudaLaunch finds it, with no space check, and its events recorded on
\* that stream; a garbage strm is dereferenced.  An unregistered kernel
\* is not recorded.
Launch(t, k) ==
    /\ Live /\ Registered(t) /\ nextId < MaxIssued /\ configured[t]
    /\ configured' = [configured EXCEPT ![t] = FALSE]
    /\ LET d == dev[t]
       IN IF ~GetKernelElement(k)
          THEN UNCHANGED <<dev, nextId, corrupt>>
          ELSE IF d.pend = Garbage
          THEN /\ corrupt' = TRUE
               /\ UNCHANGED <<dev, nextId>>
          ELSE /\ dev' = [dev EXCEPT ![t].buf =
                            Append(@, [id |-> nextId, type |-> "kernel",
                                       strm |-> d.pend, on |-> d.pend,
                                       issued |-> now]),
                                      ![t].pend = Garbage]
               /\ nextId' = nextId + 1
               /\ UNCHANGED corrupt
    /\ UNCHANGED <<now, slots, out, dropped, finalized, kernels>>

\* CUDA_SEND_RECV, a synchronous copy: look up the device for stream 0;
\* unless the copy is host to host, flush at VT_CUDATRACE_SYNC > 2; after
\* the copy, at VT_CUDATRACE_SYNC > 2, lastTime is the time after it.
SendRecv(t, h2h) ==
    /\ Live /\ CanCheck(t)
    /\ LET c  == CheckThread(t, 0)
           fl == ~h2h /\ SyncLevel > 2
       IN \E m \in MeasIf(fl, c.dev) :
            LET f == FlushIf(fl, c.dev, m)
            IN /\ dev' = [dev EXCEPT ![t] =
                            [f.dev EXCEPT !.lastT = IF SyncLevel > 2
                                                    THEN now + f.took
                                                    ELSE @]]
               /\ slots' = c.slots
               /\ ApplyFlush(f)
    /\ UNCHANGED <<dropped, nextId, corrupt, finalized, configured, kernels>>

\* cudaThreadSynchronize: at VT_CUDATRACE_SYNC > 2 flush the device.
ThreadSynchronize(t) ==
    /\ Live /\ SyncLevel > 2 /\ Registered(t)
    /\ \E m \in Meas(dev[t]) :
         LET f == Flush(dev[t], m)
         IN /\ dev' = [dev EXCEPT ![t] = f.dev]
            /\ ApplyFlush(f)
    /\ UNCHANGED <<slots, dropped, nextId, corrupt, finalized, configured,
                   kernels>>

BufIds(d) == {d.buf[k].id : k \in 1 .. Len(d.buf)}

\* VTCUDAcleanupDevice(ptid, vtDev, cleanEvents): flush the device if
\* cleanEvents (the caller passes 1 and the start event is still valid),
\* else drop its buffered entries; then free it.
CleanupDevice(d, cleanEvents, m) ==
    IF cleanEvents THEN [f |-> Flush(d, m), gone |-> {}]
    ELSE [f |-> [dev |-> d, out |-> <<>>, took |-> 0], gone |-> BufIds(d)]

\* cudaThreadExit: VTCUDAcleanupDevice(ptid, vtDev, 1) on the thread's
\* live context, then the cudaDevices entry is cleared; gpuNum is not
\* decreased.
ThreadExit(t) ==
    /\ Live /\ Registered(t)
    /\ \E m \in Meas(dev[t]) : ApplyFlush(CleanupDevice(dev[t], TRUE, m).f)
    /\ slots' = [slots EXCEPT ![SlotOf(t)] = Null]
    /\ dev' = [dev EXCEPT ![t] = NoDev]
    /\ UNCHANGED <<dropped, nextId, corrupt, finalized, configured, kernels>>

\* vt_cudartwrap_finalize, run at exit by thread t: t's device is cleaned
\* up with cleanEvents 1, which flushes unless CUDA already destroyed the
\* context (lost: the event query fails); every other thread's device is
\* cleaned up with cleanEvents 0.  The array is freed.
Finalize(t) ==
    /\ Live
    /\ \E lost \in BOOLEAN :
         LET own == Registered(t) /\ ~lost
         IN \E m \in MeasIf(own, dev[t]) :
              LET c      == CleanupDevice(dev[t], own, m)
                  others == UNION {CleanupDevice(dev[u], FALSE, [tm |-> <<>>, stop |-> now]).gone :
                                     u \in ToSet(slots) \ {Null, t}}
              IN /\ ApplyFlush(c.f)
                 /\ dropped' = dropped \cup c.gone \cup others
    /\ slots' = [i \in DOMAIN slots |-> Null]
    /\ dev' = [u \in Threads |-> NoDev]
    /\ finalized' = TRUE
    /\ UNCHANGED <<nextId, corrupt, configured, kernels>>

Next ==
    \/ Tick
    \/ \E t \in Threads :
         \/ \E s \in Streams : MemcpyAsync(t, s) \/ ConfigureCall(t, s)
         \/ \E k \in Kernels : Launch(t, k)
         \/ \E h2h \in BOOLEAN : SendRecv(t, h2h)
         \/ ThreadSynchronize(t) \/ ThreadExit(t) \/ Finalize(t)
    \/ ~Live /\ UNCHANGED vars

Spec == Init /\ [][Next]_vars

-----------------------------------------------------------------------------
(* Properties.                                                             *)

\* A device has one stream object per CUDA stream (VTCUDAcheckThread
\* searches the list before appending).
TypeOK ==
    /\ slots \in Seq(Threads \cup {Null}) /\ Len(slots) <= MaxDevs
    /\ \A t \in Threads :
         /\ dev[t].strms \in Seq(Streams)
         /\ Len(dev[t].strms) <= Cardinality(Streams)
         /\ dev[t].buf \in Seq(Entry)
         /\ dev[t].pend \in Streams \cup {Garbage}
    /\ dropped \subseteq 0 .. (MaxIssued - 1)
    /\ nextId \in 0 .. MaxIssued

\* How often task i appears in the output, the buffers and the drops.
Copies(i) ==
    Cardinality({k \in 1 .. Len(out) : out[k].id = i})
    + Cardinality({t \in Threads : i \in BufIds(dev[t])})
    + (IF i \in dropped THEN 1 ELSE 0)

\* Every asynchronous task the wrapper recorded is, whatever the mix of
\* buffer-full flushes, synchronous copies, cudaThreadSynchronize,
\* cudaThreadExit and finalize, either still buffered, written exactly
\* once, or dropped by a cleanup that could not flush.
ExactlyOnce == \A i \in 0 .. (nextId - 1) : Copies(i) = 1

DevicesInBounds == Len(slots) <= DeviceCount

=============================================================================
