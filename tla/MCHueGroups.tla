---------------------------- MODULE MCHueGroups ----------------------------
(* Model checking of HueGroups: groups of three types that may share a name. *)
EXTENDS HueGroups, TLC

ThreeTypes == <<"zone", "room", "entertainment">>

\* Nothing is computed from the identity of a process, a light or a name.
GroupsSymmetry ==
    Permutations(Procs) \cup Permutations(Lights) \cup Permutations(Names)
=============================================================================
