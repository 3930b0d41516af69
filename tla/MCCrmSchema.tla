----------------------------- MODULE MCCrmSchema -----------------------------
(* A small contract for TLC: two objects and a relation between them. *)
EXTENDS CrmSchema, TLC

CONSTANTS icp, membership, memberships

Contract == <<icp, membership, memberships>>
SourceOf == memberships :> icp
TargetOf == memberships :> membership
PageOfObject == icp :> 1 @@ membership :> 2

=============================================================================
