----------------------- MODULE MCGitStatusCoordinator -----------------------
(* GitStatusCoordinator for TLC.                                           *)
EXTENDS GitStatusCoordinator, TLC

\* Workers, activators and statuses are interchangeable: no definition compares
\* them with anything but equality.
Symmetry ==
  Permutations(Worker) \cup Permutations(Activator) \cup Permutations(Status)
=============================================================================
