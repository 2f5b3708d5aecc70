----------------------------- MODULE MCRetention -----------------------------
(* Constant values for the model checking of Retention.                      *)
EXTENDS Retention

\* Keep everything, or the last one and what is younger than a day.
Choices == {[last |-> 0, days |-> 0], [last |-> 1, days |-> 1]}
=============================================================================
