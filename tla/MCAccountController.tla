------------------------ MODULE MCAccountController ------------------------
(***************************************************************************)
(* Small instances of AccountController for TLC.                           *)
(***************************************************************************)
EXTENDS AccountController, TLC

=============================================================================
