--------------------------- MODULE PluginCallback ---------------------------
(***************************************************************************)
(* Asynchronous callback counters of the VampirTrace library             *)
(* (vtlib/vt_plugin_cntr.c).  A counter plugin delivers (timestamp,      *)
(* value) pairs from its own threads through callback_function, which    *)
(* appends them to the per-thread array callback_values under            *)
(* callback_mutex after an unlocked check of the write position.  The    *)
(* traced thread calls vt_plugin_cntr_write_callback_data(time) to write *)
(* the buffered values with timestamps in (last, time] as counter        *)
(* records, then empties the buffer; vt_plugin_cntr_thread_exit disables *)
(* the counter and frees the buffer and the mutex.                       *)
(*                                                                         *)
(* A thread has at most one callback counter (add_events refuses a       *)
(* second one).  Values are identified by a sample number; `written` is  *)
(* the sequence of vt_count records.  Each locked section is one action. *)
(***************************************************************************)
EXTENDS Integers, Sequences, FiniteSets

CONSTANTS
    Producers,   \* plugin threads calling callback_function with this ID
    Cap,         \* MAX_VALUES_CALLBACK
    MaxTime,     \* bound on the clock
    MaxSamples   \* bound on the values the plugin produces

Sample == [id : 0 .. (MaxSamples - 1), ts : 0 .. MaxTime]

VARIABLES
    now,         \* the clock shared by plugin and traced thread; it starts
                 \* after last_callback_get_for_thread's initial 0
    enabled,     \* the plugin's counter is enabled (enable/disable_counter)
    ppc,         \* producer: "idle", or "checked" past the capacity test
    ptv,         \* producer: the value it is delivering
    nextId,      \* samples produced so far
    buf,         \* callback_values[0 .. current_callback_write_position-1]
    last,        \* last_callback_get_for_thread
    wpc,         \* traced thread: "run", "timed" (has its time), "exited"
    wtime,       \* the time argument of write_callback_data
    written,     \* counter records written by vt_count
    accepted,    \* samples stored (callback_function returned 0)
    freed,       \* callback_values and callback_mutex were freed
    uaf          \* a callback wrote into freed memory

vars == <<now, enabled, ppc, ptv, nextId, buf, last, wpc, wtime, written,
          accepted, freed, uaf>>

-----------------------------------------------------------------------------

\* vt_plugin_cntr_thread_init/add_events: the counter is added and enabled.
Init ==
    /\ now = 1
    /\ enabled = TRUE
    /\ ppc = [p \in Producers |-> "idle"]
    /\ ptv = [p \in Producers |-> [id |-> 0, ts |-> 0]]
    /\ nextId = 0
    /\ buf = <<>>
    /\ last = 0
    /\ wpc = "run"
    /\ wtime = 0
    /\ written = <<>>
    /\ accepted = {}
    /\ freed = FALSE
    /\ uaf = FALSE

Tick ==
    /\ now < MaxTime
    /\ now' = now + 1
    /\ UNCHANGED <<enabled, ppc, ptv, nextId, buf, last, wpc, wtime, written,
                   accepted, freed, uaf>>

\* (mutant) no capacity test.
CallNoCheck(p) ==
    /\ enabled
    /\ ppc[p] = "idle"
    /\ nextId < MaxSamples
    /\ nextId' = nextId + 1
    /\ ptv' = [ptv EXCEPT ![p] = [id |-> nextId, ts |-> now]]
    /\ ppc' = [ppc EXCEPT ![p] = "checked"]
    /\ UNCHANGED <<now, enabled, buf, last, wpc, wtime, written, accepted,
                   freed, uaf>>

\* The plugin measures a value at `now` and calls callback_function, whose
\* first statement tests current_callback_write_position without the
\* mutex and returns -1 when the array is full.
Call(p) ==
    /\ enabled
    /\ ppc[p] = "idle"
    /\ nextId < MaxSamples
    /\ nextId' = nextId + 1
    /\ ptv' = [ptv EXCEPT ![p] = [id |-> nextId, ts |-> now]]
    /\ ppc' = [ppc EXCEPT ![p] = IF Len(buf) >= Cap THEN "idle"
                                                     ELSE "checked"]
    /\ UNCHANGED <<now, enabled, buf, last, wpc, wtime, written, accepted,
                   freed, uaf>>

\* The locked section of callback_function:
\* timeList[current_callback_write_position++] = tv.
Store(p) ==
    /\ ppc[p] = "checked"
    /\ ppc' = [ppc EXCEPT ![p] = "idle"]
    /\ IF freed
       THEN /\ uaf' = TRUE
            /\ UNCHANGED <<buf, accepted>>
       ELSE /\ buf' = Append(buf, ptv[p])
            /\ accepted' = accepted \cup {ptv[p].id}
            /\ UNCHANGED uaf
    /\ UNCHANGED <<now, enabled, ptv, nextId, last, wpc, wtime, written,
                   freed>>

\* The caller of write_callback_data takes the current time.
GetTime ==
    /\ wpc = "run"
    /\ wpc' = "timed"
    /\ wtime' = now
    /\ UNCHANGED <<now, enabled, ppc, ptv, nextId, buf, last, written,
                   accepted, freed, uaf>>

\* Length of the prefix of s the while loop writes: it stops at the
\* first value outside (lo, hi].
RECURSIVE InWindowPrefix(_, _, _)
InWindowPrefix(s, lo, hi) ==
    IF s = <<>> \/ ~(lo < Head(s).ts /\ Head(s).ts <= hi) THEN 0
    ELSE 1 + InWindowPrefix(Tail(s), lo, hi)

\* vt_plugin_cntr_write_callback_data(time), for the thread's one callback
\* counter, all under the mutex: vt_count every value up to the first one
\* outside (last, time], then reset the write position and set last.
Flush ==
    /\ wpc = "timed"
    /\ LET n == InWindowPrefix(buf, last, wtime)
       IN  written' = written \o SubSeq(buf, 1, n)
    /\ buf' = <<>>
    /\ last' = wtime
    /\ wpc' = "run"
    /\ UNCHANGED <<now, enabled, ppc, ptv, nextId, wtime, accepted, freed,
                   uaf>>

\* vt_plugin_cntr_thread_disable_counters / _enable_counters.
Disable ==
    /\ wpc = "run" /\ enabled
    /\ enabled' = FALSE
    /\ UNCHANGED <<now, ppc, ptv, nextId, buf, last, wpc, wtime, written,
                   accepted, freed, uaf>>

Enable ==
    /\ wpc = "run" /\ ~enabled
    /\ enabled' = TRUE
    /\ UNCHANGED <<now, ppc, ptv, nextId, buf, last, wpc, wtime, written,
                   accepted, freed, uaf>>

\* vt_plugin_cntr_thread_exit: disable the counter, then free
\* callback_values and delete callback_mutex.
Exit ==
    /\ wpc = "run"
    /\ wpc' = "exited"
    /\ enabled' = FALSE
    /\ freed' = TRUE
    /\ UNCHANGED <<now, ppc, ptv, nextId, buf, last, wtime, written,
                   accepted, uaf>>

\* The thread has exited and no callback is in flight.
Done == wpc = "exited" /\ \A p \in Producers : ppc[p] = "idle"

Next ==
    \/ Tick
    \/ \E p \in Producers : Call(p) \/ Store(p)
    \/ GetTime \/ Flush
    \/ Disable \/ Enable \/ Exit
    \/ Done /\ UNCHANGED vars

Spec == Init /\ [][Next]_vars

-----------------------------------------------------------------------------
(* Properties.                                                             *)

\* The values buffered never exceed the MAX_VALUES_CALLBACK entries
\* allocated for callback_values.
TypeOK ==
    /\ buf \in Seq(Sample) /\ Len(buf) <= Cap
    /\ written \in Seq(Sample)
    /\ ppc \in [Producers -> {"idle", "checked"}]
    /\ last \in 0 .. MaxTime /\ wtime \in 0 .. MaxTime
    /\ accepted \subseteq 0 .. (MaxSamples - 1)

\* Buffered and written samples.
Buffered == {buf[i].id : i \in 1 .. Len(buf)}
WrittenIds == {written[i].id : i \in 1 .. Len(written)}

\* A value callback_function accepted is written by a later
\* write_callback_data or still waits in the buffer ("write all callback
\* data ... which occured between the last call of this function and
\* time").
NoValueLost == accepted \subseteq WrittenIds \cup Buffered

=============================================================================
