--------------------------- MODULE MCMaterializer ---------------------------
(* Instances of Materializer for the model checker. *)
EXTENDS Materializer

\* A new expression, a pause, a resume, and a new expression with a pause.
SomeEdits ==
    [cron_expr : Cron, paused : {Unset}]
      \cup [cron_expr : {Unset}, paused : BOOLEAN]
      \cup {[cron_expr |-> 1, paused |-> TRUE]}
=============================================================================
