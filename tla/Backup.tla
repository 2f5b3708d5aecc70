------------------------------- MODULE Backup -------------------------------
(***************************************************************************)
(* What the server promises about the runs of an instance, without the     *)
(* update stream, the upload, the files and the goroutines: a run is       *)
(* opened once and closed once, and in the step that closes it as a        *)
(* success, and in no other, its dump comes into being.                    *)
(***************************************************************************)
CONSTANTS
  Run,        \* the ids of the runs
  Streaming,  \* the runs whose output is the backup
  Verdicts    \* how a run may end

VARIABLES
  outcome,    \* "absent", "open" or the verdict on each run
  dumps       \* the runs with a dump on offer

Init ==
  /\ outcome = [r \in Run |-> "absent"]
  /\ dumps = {}

Open(r) ==
  /\ outcome[r] = "absent"
  /\ outcome' = [outcome EXCEPT ![r] = "open"]
  /\ UNCHANGED dumps

Close(r, v) ==
  /\ outcome[r] = "open"
  /\ outcome' = [outcome EXCEPT ![r] = v]
  /\ dumps' = IF v = "success" /\ r \in Streaming THEN dumps \cup {r} ELSE dumps

Next == \E r \in Run : Open(r) \/ \E v \in Verdicts : Close(r, v)

Spec == Init /\ [][Next]_<<outcome, dumps>>
=============================================================================
