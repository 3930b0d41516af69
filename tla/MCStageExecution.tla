-------------------------- MODULE MCStageExecution --------------------------
(***************************************************************************)
(* Small instances of StageExecution for TLC.                              *)
(***************************************************************************)
EXTENDS StageExecution

=============================================================================
