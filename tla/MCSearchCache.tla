--------------------------- MODULE MCSearchCache ---------------------------
(***************************************************************************)
(* Small instances of SearchCache for TLC.                                 *)
(***************************************************************************)
EXTENDS SearchCache, TLC

Symmetry == Permutations(Callers)

=============================================================================
