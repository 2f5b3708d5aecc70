---------------------------- MODULE MCScheduling ----------------------------
(* Constant values for the model checking of Scheduling.                   *)
EXTENDS Scheduling

TwoPeriods == {1, 2}
=============================================================================
