---------------------------- MODULE MCLightState ----------------------------
(* Model checking of LightState: two runs, two aspects, two names.           *)
EXTENDS LightState, TLC

\* Nothing is computed from the identity of a run, an aspect, a value or a name.
StateSymmetry ==
    Permutations(Procs) \cup Permutations(Aspects) \cup Permutations(Values)
        \cup Permutations(Names)

\* What a run has found matters no more when it is over and has saved or deleted, or
\* was disturbed: no property speaks of it, and the next run begins with Look.
Forgotten(p) == Over(p) /\ (op[p] \in {"save", "delete"} \/ disturbed[p])

\* States that differ only in what is forgotten are one.
StateView ==
    <<ccu, bridgeVars, store, changes, outdated, late, renamed,
      [p \in Procs |->
        IF Forgotten(p) THEN <<"over">>
        ELSE <<pc[p], op[p], seen[p], seenName[p], goal[p], disturbed[p], refused[p], stale[p]>>]>>
=============================================================================
