------------------------ MODULE MCTerminalProjection ------------------------
(* TerminalProjection for TLC.                                             *)
EXTENDS TerminalProjection, TLC

\* Recoveries are told apart by nothing but their state.
Symmetry == Permutations(Recovery)
=============================================================================
