-------------------------- MODULE PluginPostMortem --------------------------
(***************************************************************************)
(* The post-mortem counters of the VampirTrace plugin interface          *)
(* (vtlib/vt_plugin_cntr.c, vt_plugin_cntr_final_write_post_mortem).  At  *)
(* the end of a thread every post-mortem counter hands over all its       *)
(* (timestamp, value) pairs through getAllValues, in the plugin's order;  *)
(* each array is bubble-sorted by timestamp, then the arrays are merged:  *)
(* each round selects, among the counters with values left, the one whose *)
(* next value has the smallest timestamp (the first such counter on a     *)
(* tie), writes it with vt_count and advances that counter.               *)
(*                                                                         *)
(* The function runs on one thread without interruption, so it is         *)
(* modelled as an operator from what the plugins return to the sequence  *)
(* of vt_count records.  Counters are numbered by counter_index from 1;   *)
(* a current pointer is a position in the array, 0 standing for NULL.     *)
(***************************************************************************)
EXTENDS Naturals, SequencesExt

CONSTANT PMInputs  \* the getAllValues results a thread's counters may give

-----------------------------------------------------------------------------
(* The bubble sort of one counter's array.                                 *)

\* The array with positions j and j + 1 exchanged (tmp_time_value).
Swap(s, j) == [s EXCEPT ![j] = s[j + 1], ![j + 1] = s[j]]

\* The inner loop `for (j=0;j<i;j++)`, j counted from 1: compare every
\* neighbour pair up to position i + 1 and swap a pair out of order;
\* change records whether anything moved.
RECURSIVE BubblePass(_, _, _, _)
BubblePass(s, j, i, change) ==
    IF j > i THEN [s |-> s, change |-> change]
    ELSE IF s[j].timestamp > s[j + 1].timestamp
         THEN BubblePass(Swap(s, j), j + 1, i, TRUE)
         ELSE BubblePass(s, j + 1, i, change)

\* The outer loop `for (i=n-1; i!=(uint64_t)-1; i--)`, ended early by
\* `if (!change) break`.
RECURSIVE BubbleFrom(_, _)
BubbleFrom(s, i) ==
    IF i < 0 THEN s
    ELSE LET r == BubblePass(s, 1, i, FALSE)
         IN  IF ~r.change THEN r.s ELSE BubbleFrom(r.s, i - 1)

\* `if (number_of_values[counter_index]!=0)`: sort.
BubbleSort(s) == IF Len(s) = 0 THEN s ELSE BubbleFrom(s, Len(s) - 1)

-----------------------------------------------------------------------------
(* The merge.                                                              *)

\* The counter loop of one round: sel is selected_counter, 0 while
\* selected_time_value is NULL; a counter replaces the selection only
\* with a strictly smaller timestamp.
RECURSIVE SelectNext(_, _, _, _)
SelectNext(vs, cur, c, sel) ==
    IF c > Len(vs) THEN sel
    ELSE IF cur[c] = 0 THEN SelectNext(vs, cur, c + 1, sel)
    ELSE IF sel = 0 \/ vs[sel][cur[sel]].timestamp > vs[c][cur[c]].timestamp
         THEN SelectNext(vs, cur, c + 1, c)
         ELSE SelectNext(vs, cur, c + 1, sel)

Advance(vs, cur, c) ==
    [cur EXCEPT ![c] = IF cur[c] + 1 > Len(vs[c]) THEN 0 ELSE cur[c] + 1]

\* The `while (1)` loop: select, write with vt_count, advance; stop when
\* nothing is selected.
RECURSIVE MergeFrom(_, _, _)
MergeFrom(vs, cur, written) ==
    LET c == SelectNext(vs, cur, 1, 0)
    IN  IF c = 0 THEN written
        ELSE MergeFrom(vs, Advance(vs, cur, c),
                       Append(written, [counter   |-> c,
                                        timestamp |-> vs[c][cur[c]].timestamp,
                                        value     |-> vs[c][cur[c]].value]))

\* vt_plugin_cntr_final_write_post_mortem for the arrays vs that the
\* counters' getAllValues return: sort each, point at its first value
\* (NULL when empty), merge.
FinalWritePostMortem(vs) ==
    LET sorted == [c \in DOMAIN vs |-> BubbleSort(vs[c])]
    IN  MergeFrom(sorted, [c \in DOMAIN vs |-> IF Len(vs[c]) = 0 THEN 0 ELSE 1],
                  <<>>)

-----------------------------------------------------------------------------
(* Properties.                                                             *)

\* Every value every counter returned, as the record vt_count writes.
Returned(vs) ==
    FlattenSeq([c \in DOMAIN vs |->
                  [k \in DOMAIN vs[c] |->
                     [counter |-> c, timestamp |-> vs[c][k].timestamp,
                      value |-> vs[c][k].value]]])

=============================================================================
