--------------------------- MODULE MCEnrollment ----------------------------
(***************************************************************************)
(* Enrollment with few runs of the command beside a worker.                *)
(***************************************************************************)
EXTENDS Enrollment
=============================================================================
