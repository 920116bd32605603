----------------------------- MODULE TdbReduce -----------------------------
(***************************************************************************)
(* The counters of HooksTdb (hooks/vt_unify_hooks_tdb.cc) and their       *)
(* reduction in HooksTdb::finalizeHook.  During the events phase every    *)
(* write hook increments the ThreadData of its OpenMP thread; at the end  *)
(* each rank adds its threads into ThreadVector[0], packs it with         *)
(* toBuffer, and MPI_Gather/MPI_Gatherv bring the buffers to rank 0,      *)
(* which unpacks every other rank's buffer into one reused ThreadData     *)
(* (fromBuffer) and adds it to its own.                                    *)
(*                                                                         *)
(* ThreadData is abstracted to three scalar counters (num_events, standing*)
(* for every plain counter, bytes_rma and num_vt_flushes) and its two     *)
(* maps: collop (by collective-operation id) and io (by I/O flag), each   *)
(* entry reduced to                                                       *)
(* one counter.  An entry of 0 is an absent key: every hook that creates  *)
(* a key increments it.  The buffer keeps the layout of toBuffer: the     *)
(* scalars, then key/value pairs of collop, then of io, keys ascending.   *)
(* A ghost record `ref` accumulates what every hook added.                *)
(*                                                                         *)
(* Before the events phase, rank 0 sees the definition records through    *)
(* the write hooks, picks the id of VampirTrace's flush function in       *)
(* phaseHook_UnifyDefinitions_post and broadcasts it in                   *)
(* phaseHook_UnifyEvents_pre; an Enter of that function counts a flush.   *)
(***************************************************************************)
EXTENDS Naturals, Sequences, FiniteSets, Functions, TLC

CONSTANTS
    NRanks,      \* g_iMPISize
    NThreads,    \* ThreadVector.size() after setThreadNumHook
    CollopIds,   \* global ids of collective operations (naturals)
    MaxEvents,   \* bound on the records the hooks see
    Defs,        \* the definition records rank 0 writes, in order
    EnterFuncs,  \* global function ids an Enter record may carry
    VTFlushFunc  \* the id VampirTrace gave its own flush function

ASSUME NRanks \in Nat \ {0} /\ NThreads \in Nat \ {0}
ASSUME CollopIds \subseteq Nat /\ MaxEvents \in Nat

Ranks == 0 .. (NRanks - 1)
Threads == 0 .. (NThreads - 1)

\* Keys of the io map: 0 sums all I/O, 1 is I/O without a special flag,
\* 2 stands for one special flag (OTF_IOFLAG_ASYNC, _SYNC, ...).
IoKeys == {0, 1, 2}

\* Words per item in the abstract buffer.
ScalarWords == 3
EntryWords == 2

EmptyTD == [events |-> 0, rma |-> 0, flushes |-> 0,
            collop |-> [k \in CollopIds |-> 0],
            io |-> [k \in IoKeys |-> 0]]

VARIABLES
    td,          \* td[r][t]: ThreadVector[t] of rank r
    ref,         \* ghost: the sum of everything the hooks added
    nEvents,     \* records seen so far
    combined,    \* ranks that added their threads into ThreadVector[0]
    gathered,    \* the Gather/Gatherv to rank 0 completed
    recvParts,   \* rank 0's recv_buffer: the three sizes of every rank
    recvData,    \* rank 0's recv_data_buffer
    p,           \* rank 0's read offset into recv_data_buffer
    j,           \* rank 0's loop counter over ranks
    tmp,         \* rank 0's tmp_vector
    written,     \* rank 0 wrote the .tdb file
    phase,       \* "defs" (rank 0 writes definitions), "bcast", "events"
    di,          \* the next record of Defs
    fgroup,      \* RootData.fgroup: function group id -> name
    flushFg,     \* RootData.flush_fgroup_ids: function id -> group id
    flushId      \* per rank: RootData.vt_flush_id

reduceVars == <<td, ref, nEvents, combined, gathered, recvParts, recvData,
                p, j, tmp, written>>
defVars == <<phase, di, fgroup, flushFg, flushId>>
vars == <<reduceVars, defVars>>

-----------------------------------------------------------------------------
(* ThreadData operations.                                                  *)

\* ThreadData::operator+=, as written: `bytes_rma += bytes_rma;`.
AddTD(a, b) ==
    [events |-> a.events + b.events,
     rma    |-> a.rma + a.rma,
     flushes |-> a.flushes + b.flushes,
     collop |-> [k \in CollopIds |-> a.collop[k] + b.collop[k]],
     io     |-> [k \in IoKeys |-> a.io[k] + b.io[k]]]

\* What the code means to compute, for the ghost.
SumTD(a, b) ==
    [events |-> a.events + b.events,
     rma    |-> a.rma + b.rma,
     flushes |-> a.flushes + b.flushes,
     collop |-> [k \in CollopIds |-> a.collop[k] + b.collop[k]],
     io     |-> [k \in IoKeys |-> a.io[k] + b.io[k]]]

Present(m) == {k \in DOMAIN m : m[k] > 0}

\* The key/value words of a map, keys ascending as std::map iterates.
RECURSIVE EntryWordsOf(_, _)
EntryWordsOf(m, ks) ==
    IF ks = {} THEN <<>>
    ELSE LET k == CHOOSE x \in ks : \A y \in ks : x <= y
         IN  <<k, m[k]>> \o EntryWordsOf(m, ks \ {k})

\* (mutant) the two scalars are packed in the wrong order.
ToBufferSwapped(d) ==
    <<d.rma, d.events, d.flushes>> \o EntryWordsOf(d.collop, Present(d.collop))
                        \o EntryWordsOf(d.io, Present(d.io))

\* ThreadData::toBuffer.
ToBuffer(d) ==
    <<d.events, d.rma, d.flushes>> \o EntryWordsOf(d.collop, Present(d.collop))
                        \o EntryWordsOf(d.io, Present(d.io))

\* The three sizes finalizeHook gathers first: num_attributes,
\* collop_map_size, io_map_size.
Parts(d) == <<ScalarWords, EntryWords * Cardinality(Present(d.collop)),
              EntryWords * Cardinality(Present(d.io))>>

PartsSum(pt) == pt[1] + pt[2] + pt[3]

\* The `while( offset < max_bytes )` loops of fromBuffer: `map[key] = ...`
\* for each key read (std::map inserts a key it does not hold), leaving
\* every other key as it was.
RECURSIVE ReadEntries(_, _, _, _)
ReadEntries(m, buf, off, last) ==
    IF off > last THEN m
    ELSE ReadEntries((buf[off] :> buf[off + 1]) @@ m, buf,
                     off + EntryWords, last)

\* (mutant) the collop entries are read from the last scalar on.
FromBufferEarly(d, buf, pt) ==
    LET cEnd == pt[1] + pt[2]
        ioEnd == cEnd + pt[3]
    IN  [events |-> buf[1], rma |-> buf[2], flushes |-> buf[3],
         collop |-> ReadEntries(d.collop, buf, pt[1], cEnd - 1),
         io     |-> ReadEntries(d.io, buf, cEnd + 1, ioEnd)]

\* ThreadData::fromBuffer into an existing ThreadData d.
FromBuffer(d, buf, pt) ==
    LET cEnd == pt[1] + pt[2]
        ioEnd == cEnd + pt[3]
    IN  [events |-> buf[1], rma |-> buf[2], flushes |-> buf[3],
         collop |-> ReadEntries(d.collop, buf, pt[1] + 1, cEnd),
         io     |-> ReadEntries(d.io, buf, cEnd + 1, ioEnd)]

\* The io keys handleFileOperation counts an operation under.
IoKeysOf(special) == IF special THEN {2, 0} ELSE {1, 0}

-----------------------------------------------------------------------------

Init ==
    /\ td = [r \in Ranks |-> [t \in Threads |-> EmptyTD]]
    /\ ref = EmptyTD
    /\ nEvents = 0
    /\ combined = {}
    /\ gathered = FALSE
    /\ recvParts = <<>>
    /\ recvData = <<>>
    /\ p = 0
    /\ j = 0
    /\ tmp = EmptyTD
    /\ written = FALSE
    /\ phase = "defs"
    /\ di = 1
    /\ fgroup = <<>>
    /\ flushFg = <<>>
    /\ flushId = [r \in Ranks |-> 0]

\* writeRecHook_DefFunctionGroup: RootData.fgroup[*fgroup] = *fgroup_name.
\* writeRecHook_DefFunction: a function named "flush" is remembered with
\* its group.  Other definition hooks keep no state this model reads.
DefHook ==
    /\ phase = "defs" /\ di <= Len(Defs)
    /\ LET d == Defs[di]
       IN  /\ fgroup' = IF d.kind = "group" THEN (d.id :> d.name) @@ fgroup
                                            ELSE fgroup
           /\ flushFg' = IF d.kind = "func" /\ d.name = "flush"
                         THEN (d.id :> d.group) @@ flushFg ELSE flushFg
    /\ di' = di + 1
    /\ UNCHANGED <<reduceVars, phase, flushId>>

\* The group of flush function f, as RootData.fgroup[...] reads it: a group
\* never defined is inserted with the name "".
GroupName(f) == IF flushFg[f] \in DOMAIN fgroup THEN fgroup[flushFg[f]] ELSE ""

\* (mutant) the test of vt_flush_id == 0 left out: the last function of
\* group "VT_API" wins.
DefinitionsPostLast ==
    /\ phase = "defs" /\ di > Len(Defs)
    /\ LET cand == {f \in DOMAIN flushFg : GroupName(f) = "VT_API"}
       IN  flushId' = [flushId EXCEPT ![0] =
                        IF cand = {} THEN 0
                        ELSE CHOOSE f \in cand : \A g \in cand : f >= g]
    /\ fgroup' = fgroup @@ [g \in Range(flushFg) |-> ""]
    /\ phase' = "bcast"
    /\ UNCHANGED <<reduceVars, di, flushFg>>

\* phaseHook_UnifyDefinitions_post on rank 0: walking flush_fgroup_ids in
\* ascending function id, the first function in group "VT_API" becomes
\* vt_flush_id (which stays 0 without one); each lookup of fgroup inserts
\* a group it does not hold.
DefinitionsPost ==
    /\ phase = "defs" /\ di > Len(Defs)
    /\ LET cand == {f \in DOMAIN flushFg : GroupName(f) = "VT_API"}
       IN  flushId' = [flushId EXCEPT ![0] =
                        IF cand = {} THEN 0
                        ELSE CHOOSE f \in cand : \A g \in cand : f <= g]
    /\ fgroup' = fgroup @@ [g \in Range(flushFg) |-> ""]
    /\ phase' = "bcast"
    /\ UNCHANGED <<reduceVars, di, flushFg>>

\* phaseHook_UnifyEvents_pre: MPI_Bcast of vt_flush_id from rank 0.
FlushIdBcast ==
    /\ phase = "bcast"
    /\ flushId' = [r \in Ranks |-> flushId[0]]
    /\ phase' = "events"
    /\ UNCHANGED <<reduceVars, di, fgroup, flushFg>>

\* A write hook on thread t of rank r adds delta to its ThreadData.
HookRef(r, t, delta, refDelta) ==
    /\ phase = "events"
    /\ combined = {}
    /\ nEvents < MaxEvents
    /\ td' = [td EXCEPT ![r][t] = SumTD(@, delta)]
    /\ ref' = SumTD(ref, refDelta)
    /\ nEvents' = nEvents + 1
    /\ UNCHANGED <<combined, gathered, recvParts, recvData, p, j, tmp,
                   written>>
    /\ UNCHANGED defVars

Hook(r, t, delta) == HookRef(r, t, delta, delta)

\* writeRecHook_Leave/SendMsg/RecvMsg/EndCollectiveOperation/
\* RMAEnd/Counter/...: num_events++ (and a plain counter).
PlainEvent(r, t) == Hook(r, t, [EmptyTD EXCEPT !.events = 1])

\* writeRecHook_Enter of function f: num_vt_flushes++ when f is this
\* rank's vt_flush_id, num_enter++ and num_events++.  The ghost counts the
\* Enters of VampirTrace's own flush function.
Enter(r, t, f) ==
    HookRef(r, t, [EmptyTD EXCEPT !.events = 1,
                                  !.flushes = IF f = flushId[r] THEN 1 ELSE 0],
                  [EmptyTD EXCEPT !.events = 1,
                                  !.flushes = IF f = VTFlushFunc THEN 1 ELSE 0])

\* writeRecHook_RMAPut/RMAPutRemoteEnd/RMAGet: num_rma++,
\* bytes_rma += *bytes, num_events++.
RmaEvent(r, t) == Hook(r, t, [EmptyTD EXCEPT !.events = 1, !.rma = 1])

\* writeRecHook_CollectiveOperation/BeginCollectiveOperation:
\* collop[*collop].num++, num_events++.
CollopEvent(r, t, k) ==
    Hook(r, t, [EmptyTD EXCEPT !.events = 1, !.collop[k] = 1])

\* handleFileOperation: io[flag] for every special flag set, or io[1]
\* without one, and io[0]; then num_events++.
IoEvent(r, t, special) ==
    Hook(r, t, [EmptyTD EXCEPT !.events = 1,
                 !.io = [k \in IoKeys |-> IF k \in IoKeysOf(special)
                                          THEN 1 ELSE 0]])

\* The left fold of `ThreadVector[0] += ThreadVector[i]` for i from i0.
RECURSIVE CombineFrom(_, _, _)
CombineFrom(acc, vec, i0) ==
    IF i0 > NThreads - 1 THEN acc
    ELSE CombineFrom(AddTD(acc, vec[i0]), vec, i0 + 1)

\* (mutant) the thread loop starts at 2.
CombineThreadsOffByOne(r) ==
    /\ phase = "events"
    /\ r \notin combined
    /\ td' = [td EXCEPT ![r][0] = CombineFrom(td[r][0], td[r], 2)]
    /\ combined' = combined \cup {r}
    /\ UNCHANGED <<ref, nEvents, gathered, recvParts, recvData, p, j, tmp,
                   written, defVars>>

\* finalizeHook on rank r, before the gather: add the other threads into
\* thread 0.  The events phase is over on every rank.
CombineThreads(r) ==
    /\ phase = "events"
    /\ r \notin combined
    /\ td' = [td EXCEPT ![r][0] = CombineFrom(td[r][0], td[r], 1)]
    /\ combined' = combined \cup {r}
    /\ UNCHANGED <<ref, nEvents, gathered, recvParts, recvData, p, j, tmp,
                   written, defVars>>

\* Concatenation of the buffers of ranks 0 .. n-1, rank order.
RECURSIVE Concat(_, _)
Concat(f, n) == IF n = 0 THEN <<>> ELSE Concat(f, n - 1) \o f[n - 1]

\* (mutant) rank 0 starts reading at its own buffer.
GatherNoSkip ==
    /\ combined = Ranks
    /\ ~gathered
    /\ gathered' = TRUE
    /\ recvParts' = [r \in Ranks |-> Parts(td[r][0])]
    /\ recvData' = Concat([r \in Ranks |-> ToBuffer(td[r][0])], NRanks)
    /\ p' = 0
    /\ j' = 1
    /\ UNCHANGED <<td, ref, nEvents, combined, tmp, written, defVars>>

\* MPI_Gather of the sizes and MPI_Gatherv of the toBuffer data; rank 0
\* computes recv_count and displ, then skips its own buffer.
Gather ==
    /\ combined = Ranks
    /\ ~gathered
    /\ gathered' = TRUE
    /\ recvParts' = [r \in Ranks |-> Parts(td[r][0])]
    /\ recvData' = Concat([r \in Ranks |-> ToBuffer(td[r][0])], NRanks)
    /\ p' = PartsSum(Parts(td[0][0]))
    /\ j' = 1
    /\ UNCHANGED <<td, ref, nEvents, combined, tmp, written, defVars>>

\* One iteration of rank 0's loop: tmp_vector.fromBuffer(p, ...);
\* ThreadVector[0] += tmp_vector; p += recv_count[j].
RootStep ==
    /\ gathered
    /\ j < NRanks
    /\ LET cnt == PartsSum(recvParts[j])
           t2 == FromBuffer(tmp, SubSeq(recvData, p + 1, p + cnt),
                            recvParts[j])
       IN  /\ tmp' = t2
           /\ td' = [td EXCEPT ![0][0] = AddTD(@, t2)]
           /\ p' = p + cnt
    /\ j' = j + 1
    /\ UNCHANGED <<ref, nEvents, combined, gathered, recvParts, recvData,
                   written, defVars>>

\* Rank 0 writes ThreadVector[0] to the .tdb file.
WriteTdb ==
    /\ gathered
    /\ j = NRanks
    /\ ~written
    /\ written' = TRUE
    /\ UNCHANGED <<td, ref, nEvents, combined, gathered, recvParts,
                   recvData, p, j, tmp, defVars>>

Next ==
    \/ DefHook \/ DefinitionsPost \/ FlushIdBcast
    \/ \E r \in Ranks, t \in Threads :
          \/ \E f \in EnterFuncs : Enter(r, t, f)
          \/ PlainEvent(r, t)
          \/ RmaEvent(r, t)
          \/ \E k \in CollopIds : CollopEvent(r, t, k)
          \/ \E special \in BOOLEAN : IoEvent(r, t, special)
    \/ \E r \in Ranks : CombineThreads(r)
    \/ Gather
    \/ RootStep
    \/ WriteTdb
    \/ written /\ UNCHANGED vars

Spec == Init /\ [][Next]_vars

-----------------------------------------------------------------------------
(* Properties.                                                             *)

TDType == [events : Nat, rma : Nat, flushes : Nat, collop : [CollopIds -> Nat],
           io : [IoKeys -> Nat]]

\* Every ThreadData, tmp_vector included, keeps the key sets the hooks
\* create, and rank 0's read offset stays inside recv_data_buffer.
TypeOK ==
    /\ td \in [Ranks -> [Threads -> TDType]]
    /\ ref \in TDType /\ tmp \in TDType
    /\ nEvents \in 0 .. MaxEvents
    /\ combined \subseteq Ranks
    /\ gathered \in BOOLEAN /\ written \in BOOLEAN
    /\ j \in 0 .. NRanks
    /\ p \in 0 .. Len(recvData)
    /\ phase \in {"defs", "bcast", "events"}
    /\ flushId \in [Ranks -> Nat]

\* fromBuffer inverts toBuffer: unpacking what toBuffer packed from any
\* ThreadData, with the sizes finalizeHook gathers, gives it back.
RoundTrip ==
    \A r \in Ranks, t \in Threads :
        FromBuffer(EmptyTD, ToBuffer(td[r][t]), Parts(td[r][t])) = td[r][t]

\* In rank 0's loop, the slice of recv_data_buffer at offset p with
\* length recv_count[j] is exactly the buffer rank j packed: the
\* displacements of MPI_Gatherv and the advance of p agree.
SliceMatchesSender ==
    gathered /\ j < NRanks =>
        SubSeq(recvData, p + 1, p + PartsSum(recvParts[j]))
            = ToBuffer(td[j][0])

\* The .tdb file counts every event of every thread of every rank once.
EventsTotal == written => td[0][0].events = ref.events

\* The .tdb file's num_vt_flushes counts exactly the Enters of
\* VampirTrace's own flush function on every thread of every rank: rank 0
\* picks, among the functions named "flush", the first of group VT_API,
\* although a user's "flush" is filed under VT_API too, and every other
\* rank learns it from the broadcast before its first event.
FlushesTotal == written => td[0][0].flushes = ref.flushes

\* The .tdb file's bytes_rma is the sum over all threads and ranks.
RmaTotal == written => td[0][0].rma = ref.rma

\* The .tdb file's collective-operation and I/O statistics are the sums
\* over all threads and ranks.
MapsTotal == written => td[0][0].collop = ref.collop /\ td[0][0].io = ref.io

=============================================================================
