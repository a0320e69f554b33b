-------------------------- MODULE MCOperatorWrappers --------------------------
(* TLC instance of OperatorWrappers. *)
EXTENDS OperatorWrappers
=============================================================================
