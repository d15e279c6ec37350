------------------------- MODULE MCGitActivityFeed -------------------------
(* GitActivityFeed for TLC.                                                *)
EXTENDS GitActivityFeed, TLC

\* The statuses are told apart by Unavailable.
Symmetry == Permutations(Worker) \cup Permutations(Status \ Unavailable)
=============================================================================
