----------------------------- MODULE MCFohManage -----------------------------
(* Model checking of FohManage: two buttons of one switch.                  *)
EXTENDS FohManage, TLC

\* Nothing is computed from the identity of a button or of an id.
ManageSymmetry ==
    Permutations(Buttons) \cup Permutations(RuleIds) \cup Permutations(RockerIds)
=============================================================================
