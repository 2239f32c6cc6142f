---------------------------- MODULE MCTokenFleet ----------------------------
(* Model checking of TokenFleet: one Tcl process and one shell.             *)
EXTENDS TokenFleet

\* remote.sh cuts the answer at fixed fields, so a refresh_token must be in it.
NamedPolicies == {"rotate", "repeat"}
=============================================================================
