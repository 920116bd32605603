--------------------------- MODULE MCUnifyDriver ---------------------------
(* Instances of UnifyDriver, with MASTER's definitions read (UnifyDefs),   *)
(* for TLC.                                                                 *)
EXTENDS UnifyDefs

\* Three ranks: MASTER and two others, so a failure on a non-MASTER rank
\* must reach MASTER and the third rank through the Allreduce.
MCSize == 3

\* VT_UNIFY_CREATE_TDB set on every rank, as mpirun exports it.
MCTdbAll == 0 .. (MCSize - 1)

\* VT_UNIFY_CREATE_TDB set on MASTER only.
MCTdbMasterOnly == {0}

\* Definition records of the local definitions files.
Cm(s, pre, tail) == [kind |-> "comment", stream |-> s,
                     comment |-> [pre |-> pre, tail |-> tail]]
Creator(s, v)    == [kind |-> "creator", stream |-> s, val |-> v]
TimerRes(s, v)   == [kind |-> "timerres", stream |-> s, val |-> v]
PGroup(s, t, pre, rest, m) ==
    [kind |-> "pgroup", stream |-> s, tok |-> t,
     name |-> [pre |-> pre, rest |-> rest], members |-> m]
Process(s, t, n, p) == [kind |-> "process", stream |-> s, tok |-> t,
                        name |-> n, parent |-> p]
Func(s, t, n)    == [kind |-> "function", stream |-> s, tok |-> t, data |-> n]

\* Stream 1: its creator and timer resolution, start and stop times, a
\* VampirTrace comment, a user comment, a comment that is only the
\* start-time prefix (a user comment), a node group and a function of its
\* thread (stream 65537).  The read may fail after the first four records.
F1 == <<Creator(1, "VT-5.8"), TimerRes(1, 1000), Cm(1, "__STARTTIME__", 20),
        Cm(1, "__STOPTIME__", 70), Cm(1, "__VT_COMMENT__", 1),
        Cm(1, "hello", NoTail), Cm(1, "__STARTTIME__", NoTail),
        PGroup(1, 5, "__NODE__", "a", <<1>>), Func(65537, 2, "f")>>

\* Stream 3: another creator and timer resolution, an earlier start and an
\* earlier stop, a user comment before a VampirTrace comment, the world
\* communicator and a process.
F3 == <<Creator(3, "VT-5.7"), TimerRes(3, 500), Cm(3, "__STARTTIME__", 10),
        Cm(3, "__STOPTIME__", 60), Cm(3, "note", NoTail),
        Cm(3, "__VT_COMMENT__", 2),
        PGroup(3, 1, "__MPI_COMM_WORLD__", "", <<1, 3>>), Process(3, 3, "P3", 0)>>

\* Stream 2 is unavailable.
MCDefStreams == <<[id |-> 1, avail |-> TRUE], [id |-> 2, avail |-> FALSE],
                  [id |-> 3, avail |-> TRUE]>>

MCDefFiles ==
    (1 :> {[recs |-> F1, bad |-> FALSE], [recs |-> SubSeq(F1, 1, 4), bad |-> TRUE]})
    @@ (2 :> {[recs |-> <<>>, bad |-> FALSE]})
    @@ (3 :> {[recs |-> F3, bad |-> FALSE]})
=============================================================================
