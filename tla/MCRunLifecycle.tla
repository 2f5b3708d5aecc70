--------------------------- MODULE MCRunLifecycle ---------------------------
(* Constant values for the model checking of RunLifecycle.                 *)
EXTENDS RunLifecycle

OneTick   == [r \in 1..MaxRuns |-> 1]
=============================================================================
