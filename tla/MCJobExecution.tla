--------------------------- MODULE MCJobExecution ---------------------------
(* Constant values for the model checking of JobExecution.                 *)
EXTENDS JobExecution

OneChunk  == [s \in {"stdout", "stderr"} |-> 1]
=============================================================================
