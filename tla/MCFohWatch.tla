----------------------------- MODULE MCFohWatch -----------------------------
(* Model checking of FohWatch.  Sensors influence each other only by whose   *)
(* turn it is.                                                               *)
EXTENDS FohWatch
=============================================================================
