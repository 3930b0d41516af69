------------------------- MODULE MCFieldEnrichment -------------------------
(* Small instances of FieldEnrichment for TLC. *)
EXTENDS FieldEnrichment, TLC

CONSTANT f1   \* e.g. the sector of a Company

OneField == <<f1>>

Symmetry == Permutations(Workers)

=============================================================================
