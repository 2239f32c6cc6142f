----------------------------- MODULE MCHueToken -----------------------------
(* Model checking of HueToken: values that are not plain cfg constants.     *)
EXTENDS HueToken, TLC

AllPolicies == {"rotate", "repeat", "omit"}
Symmetry == Permutations(Procs)
=============================================================================
