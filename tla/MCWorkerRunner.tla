--------------------------- MODULE MCWorkerRunner ---------------------------
(* Instances of WorkerRunner for the model checker. *)
EXTENDS WorkerRunner
=============================================================================
