-------------------------- MODULE MCCrmPublication --------------------------
(* Small instances of CrmPublication for TLC. *)
EXTENDS CrmPublication, TLC

CONSTANTS c1, c2   \* a Company and its Membership

OneRecord == <<c1>>
TwoRecords == <<c1, c2>>

Symmetry == Permutations(Workers)

=============================================================================
