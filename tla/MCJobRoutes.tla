---------------------------- MODULE MCJobRoutes ----------------------------
(***************************************************************************)
(* Small instances of JobRoutes for TLC.                                   *)
(***************************************************************************)
EXTENDS JobRoutes, TLC

Symmetry == Permutations(Workers) \cup Permutations(Inputs) \cup Permutations(Requests)

=============================================================================
