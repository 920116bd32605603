------------------------------ MODULE MCCleanup ------------------------------
(* Instances of Cleanup for TLC.                                           *)
EXTENDS Cleanup

\* Two streams, so that the loops run past their first iteration.
MCStreams == 2

\* Up to two failing file-system calls: one can hit the removal stage and
\* one a rename.
MCFaults == 2

\* No failing call: only the code's own control flow acts.
=============================================================================
