----------------------------- MODULE MCEnrollment -----------------------------
(* The model checking of Enrollment.                                         *)
EXTENDS Enrollment
=============================================================================
