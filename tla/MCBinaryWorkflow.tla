-------------------------- MODULE MCBinaryWorkflow --------------------------
(* An instance of BinaryWorkflow for TLC; the cfg files give the constant. *)
EXTENDS BinaryWorkflow
=============================================================================
