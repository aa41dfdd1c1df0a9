--------------------------- MODULE MCCompensation ---------------------------
(* Two compensation workers and one request.                               *)
EXTENDS Compensation
=============================================================================
