-------------------------------- MODULE MCUpkeep -------------------------------
(* The model checking of Upkeep.                                             *)
EXTENDS Upkeep
=============================================================================
