----------------------------- MODULE MCMpiComm -----------------------------
(* MpiComm for TLC: two user communicator handles, one user group, two    *)
(* window handles, room for four communicators and two windows.            *)
EXTENDS MpiComm, TLC

CONSTANTS c1, c2, g1, w1, w2

MCUserComms == {c1, c2}
MCUserGroups == {g1}
MCWins == {w1, w2}
MCMaxComms == 4
MCMaxWins == 2
MCMaxId == 6

\* Handles of the same kind are interchangeable.
MCSymmetry == Permutations(MCUserComms) \cup Permutations(MCWins)
=============================================================================
