---------------------------- MODULE MCTdbReduce ----------------------------
(* TdbReduce for TLC: three ranks, two threads, two collective ids.       *)
EXTENDS TdbReduce

MCRanks == 3
MCThreads == 2
MCCollops == {1, 2}
MCEvents == 3
MCEventsSmall == 2

\* The definitions rank 0 writes: VT_API and a user group.  VampirTrace
\* files the user's own function "flush" (7) under VT_API as well (the
\* comment of phaseHook_UnifyDefinitions_post); its own flush function (5),
\* defined when the trace is opened, precedes it in id order.
MCDefs ==
    <<[kind |-> "group", id |-> 1, name |-> "VT_API"],
      [kind |-> "group", id |-> 2, name |-> "Application"],
      [kind |-> "func", id |-> 3, name |-> "main", group |-> 2],
      [kind |-> "func", id |-> 5, name |-> "flush", group |-> 1],
      [kind |-> "func", id |-> 7, name |-> "flush", group |-> 1]>>
MCEnterFuncs == {5, 7}
MCVTFlushFunc == 5
=============================================================================
