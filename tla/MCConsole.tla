----------------------------- MODULE MCConsole ------------------------------
(* Instances of Console for the model checker.                               *)
EXTENDS Console

CONSTANTS c1, c2
=============================================================================
