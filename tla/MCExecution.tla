----------------------------- MODULE MCExecution -----------------------------
(* Instances of Execution for the model checker.                              *)
EXTENDS Execution
=============================================================================
