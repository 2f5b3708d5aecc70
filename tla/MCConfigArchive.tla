---------------------------- MODULE MCConfigArchive ----------------------------
(* The model checking of ConfigArchive, with one archive of another server:  *)
(* its instance is sealed with a key that this server has, had or never had. *)
EXTENDS ConfigArchive

Elsewhere ==
  {[rows |-> [i \in Ids |-> IF i = 1 THEN [key |-> k, value |-> MaxValue] ELSE Absent],
    schedules |-> {1}, admin |-> TRUE, intact |-> TRUE] : k \in {1, 2}}
=============================================================================
