-------------------------- MODULE LightStateProofs --------------------------
(***************************************************************************)
(* What the scripts of LightState guarantee for any number of runs, any    *)
(* aspects, values and names: a restore is exact or leaves the light on, a *)
(* switch switches, unless the bridge refuses a PUT; a deleted state is    *)
(* forgotten unless there was a rename, or a save that had looked before.  *)
(***************************************************************************)
EXTENDS LightState, TLAPS

-----------------------------------------------------------------------------
(* The inductive invariant *)

Lit(s)  == [s EXCEPT !.on = TRUE]
Dark(s) == [s EXCEPT !.on = FALSE]

\* Where the light is at each point of a restore that nobody disturbs and the bridge
\* does not refuse.
Restoring(p) ==
    /\ pc[p] = "read" => light = seen[p]
    /\ pc[p] = "putOn" => light = seen[p] /\ ~seen[p].on
    /\ pc[p] = "putSet" => light = Lit(seen[p])
    /\ pc[p] = "putOff" => ~goal[p].on /\ light = Lit(goal[p])
    /\ pc[p] = "done" => light = goal[p]
    /\ pc[p] = "failed" => light.on \/ light \in {seen[p], goal[p]}

\* The same for a switch or a toggle.
Switching(p) ==
    /\ pc[p] = "putOn" => light = seen[p] /\ goal[p] = Lit(seen[p])
    /\ pc[p] = "putOff" => light = seen[p] /\ goal[p] = Dark(seen[p])
    /\ pc[p] = "done" => light = goal[p]

\* What a run can be doing, by what it is for.
Points(p) ==
    /\ pc[p] \in {"open", "write", "unlinked"} => op[p] = "save"
    /\ pc[p] \in {"read", "putSet"} => op[p] = "restore"
    /\ pc[p] \in {"putOn", "putOff"} => op[p] \in {"restore", "switch"}
    /\ pc[p] = "remove" => op[p] = "delete"
    /\ pc[p] = "idle" => op[p] = "switch"
    /\ pc[p] = "read" => ~refused[p]

\* A switch is over with its one PUT, refused or not.
Refused(p) == pc[p] \in {"done", "failed"} /\ light = seen[p]

RunInv(p) ==
    /\ Points(p)
    /\ ~disturbed[p] /\ op[p] = "restore" => Mixed(p) /\ (refused[p] \/ Restoring(p))
    /\ ~disturbed[p] /\ op[p] = "switch" => IF refused[p] THEN Refused(p) ELSE Switching(p)

\* Until the light is renamed there is but one slot, and everybody knows it.
OneSlot ==
    ~renamed =>
        /\ outdated \subseteq late
        /\ \A p \in Procs : seenName[p] = name
        /\ \A s \in Slots : s # (IF ccu THEN CcuSlot ELSE name) => store[s] = NoState

LInv == StateTypeOK /\ OneSlot /\ \A p \in Procs : RunInv(p)

-----------------------------------------------------------------------------
(* Lemmas *)

\* A state is a record: equal parts make equal states.
LEMMA SameState ==
    ASSUME NEW s \in State, NEW t \in State, s.on = t.on, s.set = t.set
    PROVE  s = t
  BY DEF State

\* Lit and Dark leave the settings alone.
LEMMA LitDark ==
    ASSUME NEW s \in State
    PROVE  /\ Lit(s) \in State /\ Lit(s).on = TRUE /\ Lit(s).set = s.set
           /\ Dark(s) \in State /\ Dark(s).on = FALSE /\ Dark(s).set = s.set
           /\ s.on \in BOOLEAN /\ s.set \in [Aspects -> Values]
           /\ (s.on => Lit(s) = s) /\ (~s.on => Dark(s) = s)
  BY DEF State, Lit, Dark

\* PutSet on a light that is lit and otherwise as seen gives it the settings of
\* the goal, although where both are off only some of them are put.
LEMMA SetReachesGoal ==
    ASSUME NEW p \in Procs, StateTypeOK, light = Lit(seen[p])
    PROVE  SetAspects(p, Body(p)) = Lit(goal[p])
<1>1. seen[p] \in State /\ goal[p] \in State /\ light \in State
  BY DEF StateTypeOK
<1>2. light.on /\ light.set = seen[p].set
  BY <1>1, LitDark
<1> DEFINE f == [a \in Aspects |-> IF a \in Body(p) THEN goal[p].set[a] ELSE light.set[a]]
<1>3. SetAspects(p, Body(p)) = [light EXCEPT !.set = f]
  BY <1>2 DEF SetAspects
<1>4. \A a \in Aspects : f[a] = goal[p].set[a]
  BY <1>1, <1>2 DEF Body
<1>5. goal[p].set \in [Aspects -> Values]
  BY <1>1, LitDark
<1>6. f = goal[p].set
  BY <1>4, <1>5
<1> HIDE DEF f
<1>7. /\ SetAspects(p, Body(p)) \in State
      /\ SetAspects(p, Body(p)).on = TRUE
      /\ SetAspects(p, Body(p)).set = goal[p].set
  BY <1>1, <1>2, <1>3, <1>5, <1>6 DEF State
<1>8. /\ Lit(goal[p]) \in State /\ Lit(goal[p]).on = TRUE
      /\ Lit(goal[p]).set = goal[p].set
  BY <1>1, LitDark
<1> QED
  BY <1>7, <1>8, SameState

\* A run is not concerned by a step that leaves it alone, unless it is disturbed.
LEMMA Bystander ==
    ASSUME NEW p \in Procs, RunInv(p),
           pc'[p] = pc[p], op'[p] = op[p], seen'[p] = seen[p], goal'[p] = goal[p],
           refused'[p] = refused[p],
           disturbed'[p] \/ (light' = light /\ (disturbed[p] => disturbed'[p]))
    PROVE  RunInv(p)'
  BY DEF RunInv, Restoring, Switching, Points, Refused, Mixed

\* Every run has a slot.
LEMMA SlotType == ASSUME NEW p \in Procs, StateTypeOK PROVE Slot(p) \in Slots
  BY DEF Slot, Slots, StateTypeOK

\* What a PUT makes of the light is a state; each setting stays or is the goal's.
LEMMA PutTypes ==
    ASSUME NEW p \in Procs, StateTypeOK, NEW A
    PROVE  /\ [light EXCEPT !.on = TRUE] \in State
           /\ [light EXCEPT !.on = FALSE] \in State
           /\ [light EXCEPT !.on = ~light.on] \in State
           /\ SetAspects(p, A) \in State
           /\ \A a \in Aspects : SetAspects(p, A).set[a] \in {light.set[a], goal[p].set[a]}
<1>1. light \in State /\ goal[p] \in State
  BY DEF StateTypeOK
<1>2. /\ [light EXCEPT !.on = TRUE] \in State
      /\ [light EXCEPT !.on = FALSE] \in State
      /\ [light EXCEPT !.on = ~light.on] \in State
  BY <1>1 DEF State
<1> DEFINE f == [a \in Aspects |-> IF a \in A THEN goal[p].set[a] ELSE light.set[a]]
<1>3. /\ f \in [Aspects -> Values]
      /\ \A a \in Aspects : f[a] \in {light.set[a], goal[p].set[a]}
  BY <1>1 DEF State
<1>4. SetAspects(p, A) = light \/ SetAspects(p, A) = [light EXCEPT !.set = f]
  BY DEF SetAspects
<1> HIDE DEF f
<1>5. /\ SetAspects(p, A) \in State
      /\ SetAspects(p, A).set = light.set \/ SetAspects(p, A).set = f
  BY <1>1, <1>3, <1>4 DEF State
<1> QED
  BY <1>2, <1>3, <1>5

-----------------------------------------------------------------------------
(* Types *)

\* Every step keeps the types.
LEMMA StateTypeStep == StateTypeOK /\ [StateNext]_vars => StateTypeOK'
<1> SUFFICES ASSUME StateTypeOK, [StateNext]_vars PROVE StateTypeOK'
  OBVIOUS
<1>0. CASE UNCHANGED vars
  BY <1>0 DEF vars, bridgeVars, local, history, StateTypeOK
<1>1. CASE Elsewhere
  <2>1. changes' \in 0..MaxChanges
    BY <1>1, StateAssumption DEF Elsewhere, StateTypeOK
  <2>2. light' \in State /\ disturbed' \in [Procs -> BOOLEAN]
    BY <1>1 DEF Elsewhere, Becomes, StateTypeOK
  <2>3. name' \in Names /\ reachable' \in BOOLEAN /\ renamed' \in BOOLEAN
    BY <1>1 DEF Elsewhere, StateTypeOK
  <2> QED
    BY <1>1, <2>1, <2>2, <2>3 DEF Elsewhere, local, StateTypeOK
<1>2. ASSUME NEW p \in Procs, Step(p) PROVE StateTypeOK'
  <2> USE DEF Goto, Look, bridgeVars, history, local, Ops
  <2>s. Slot(p) \in Slots /\ CcuSlot \in Slots /\ Names \subseteq Slots
    BY SlotType DEF Slots
  <2>1. CASE Save(p)
    BY <2>1 DEF Save, StateTypeOK
  <2>2. CASE Restore(p)
    BY <2>2 DEF Restore, StateTypeOK
  <2>3. CASE Delete(p)
    BY <2>3 DEF Delete, StateTypeOK
  <2>4. CASE Switch(p)
    <3> PICK on \in BOOLEAN :
            /\ Look(p, "switch", [light EXCEPT !.on = on])
            /\ Goto(p, IF light.on = on THEN "done" ELSE IF on THEN "putOn" ELSE "putOff")
      BY <2>4 DEF Switch
    <3>1. [light EXCEPT !.on = on] \in State
      BY DEF StateTypeOK, State
    <3> HIDE DEF Look, Goto
    <3>2. goal' = [goal EXCEPT ![p] = [light EXCEPT !.on = on]]
      BY DEF Look
    <3>3. goal' \in [Procs -> State]
      BY <3>1, <3>2 DEF StateTypeOK
    <3> QED
      BY <3>3 DEF StateTypeOK, Look, Goto
  <2>5. CASE Toggle(p)
    BY <2>5, PutTypes DEF Toggle, StateTypeOK
  <2>6. CASE OpenFile(p)
    <3>1. CASE ccu
      <4>1. seen[p] \in State /\ pc' \in [Procs -> {"idle", "open", "write", "unlinked",
                "read", "putOn", "putSet", "putOff", "remove", "done", "failed"}]
        BY <2>6, <3>1 DEF OpenFile, StateTypeOK
      <4>2. /\ store' \in [Slots -> State \cup {NoState, Torn}]
            /\ stale' \in [Procs -> BOOLEAN]
            /\ outdated' \in SUBSET Slots /\ late' \in SUBSET Slots
        <5>1. Fill(p)
          BY <2>6, <3>1 DEF OpenFile
        <5> QED
          BY <5>1, <2>s, <4>1 DEF Fill, StateTypeOK
      <4> QED
        BY <2>6, <3>1, <4>1, <4>2 DEF OpenFile, StateTypeOK
    <3>2. CASE ~ccu
      BY <2>6, <2>s, <3>2 DEF OpenFile, StateTypeOK
    <3> QED
      BY <3>1, <3>2
  <2>7. CASE WriteFile(p)
    BY <2>7, <2>s DEF WriteFile, Fill, StateTypeOK
  <2>8. CASE ReadStore(p)
    BY <2>8, <2>s DEF ReadStore, StateTypeOK
  <2>9. CASE PutOn(p) \/ PutOff(p)
    BY <2>9, PutTypes DEF PutOn, PutOff, PutPower, Put, Becomes, StateTypeOK
  <2>10. CASE PutSet(p)
    <3> PICK A \in SUBSET Body(p) :
            Put(p, SetAspects(p, A), A = Body(p), IF goal[p].on THEN "done" ELSE "putOff")
      BY <2>10 DEF PutSet
    <3> QED
      BY PutTypes DEF Put, Becomes, StateTypeOK
  <2>12. CASE Die(p)
    BY <2>12 DEF Die, StateTypeOK
  <2>13. CASE Remove(p)
    BY <2>13 DEF Remove, Forget, StateTypeOK
  <2>14. CASE DeleteAll(p)
    BY <2>14 DEF DeleteAll, Forget, StateTypeOK
  <2> QED
    BY <1>2, <2>1, <2>2, <2>3, <2>4, <2>5, <2>6, <2>7, <2>8, <2>9, <2>10, <2>12, <2>13,
       <2>14 DEF Step
<1> QED
  BY <1>0, <1>1, <1>2 DEF StateNext

-----------------------------------------------------------------------------
(* Runs *)

\* The steps of run p that do not touch the light.
LEMMA QuietRunStep ==
    ASSUME NEW p \in Procs, LInv,
           \/ Save(p) \/ Restore(p) \/ Delete(p) \/ Switch(p) \/ Toggle(p)
           \/ OpenFile(p) \/ WriteFile(p) \/ ReadStore(p) \/ Die(p)
    PROVE  RunInv(p)' /\ light' = light /\ (\A q \in Procs \ {p} : RunInv(q)')
<1> USE DEF LInv, bridgeVars, history, local
<1>t. seen[p] \in State /\ goal[p] \in State /\ light \in State
  BY DEF StateTypeOK
<1>1. light' = light
  BY DEF Save, Restore, Delete, Switch, Toggle, OpenFile, WriteFile, ReadStore, Die, Look
<1>2. \A q \in Procs \ {p} : RunInv(q)'
  <2> SUFFICES ASSUME NEW q \in Procs \ {p} PROVE RunInv(q)'
    OBVIOUS
  <2>1. /\ pc'[q] = pc[q] /\ op'[q] = op[q] /\ seen'[q] = seen[q] /\ goal'[q] = goal[q]
        /\ disturbed'[q] = disturbed[q] /\ refused'[q] = refused[q]
    BY DEF Save, Restore, Delete, Switch, Toggle, OpenFile, WriteFile, ReadStore, Die,
           Look, Goto, StateTypeOK
  <2> QED
    BY <1>1, <2>1, Bystander
<1>3. RunInv(p)'
  <2> USE <1>t DEF RunInv, Points, Restoring, Switching, Refused, Goto, StateTypeOK
  <2>1. CASE Save(p) \/ Delete(p)
    BY <2>1 DEF Save, Delete, Look
  <2>2. CASE Restore(p)
    BY <2>2 DEF Restore, Look, Mixed
  <2>3. CASE Switch(p)
    <3> PICK on \in BOOLEAN :
            /\ Look(p, "switch", [light EXCEPT !.on = on])
            /\ Goto(p, IF light.on = on THEN "done" ELSE IF on THEN "putOn" ELSE "putOff")
      BY <2>3 DEF Switch
    <3>1. /\ seen'[p] = light /\ goal'[p] = [light EXCEPT !.on = on] /\ op'[p] = "switch"
          /\ ~refused'[p]
      BY DEF Look
    <3>2. light.on \in BOOLEAN /\ (light.on = on => goal'[p] = light)
      <4>1. CASE on = TRUE
        BY <3>1, <4>1, LitDark DEF Lit
      <4>2. CASE on = FALSE
        BY <3>1, <4>2, LitDark DEF Dark
      <4> QED
        BY <4>1, <4>2, LitDark
    <3>3. CASE light.on = on
      BY <1>1, <3>1, <3>2, <3>3
    <3>4. CASE light.on # on /\ on = TRUE
      BY <1>1, <3>1, <3>4 DEF Lit
    <3>5. CASE light.on # on /\ on = FALSE
      BY <1>1, <3>1, <3>5 DEF Dark
    <3> QED
      BY <3>3, <3>4, <3>5
  <2>4. CASE Toggle(p)
    <3>1. light.on \in BOOLEAN
      BY LitDark
    <3>2. CASE light.on = TRUE
      BY <2>4, <3>2 DEF Toggle, Look, Dark
    <3>3. CASE light.on = FALSE
      BY <2>4, <3>3 DEF Toggle, Look, Lit
    <3> QED
      BY <3>1, <3>2, <3>3
  <2>5. CASE OpenFile(p)
    BY <2>5 DEF OpenFile
  <2>6. CASE WriteFile(p)
    BY <2>6 DEF WriteFile
  <2>7. CASE ReadStore(p)
    <3>1. /\ pc[p] = "read" /\ op[p] = "restore" /\ op'[p] = op[p] /\ seen'[p] = seen[p]
          /\ disturbed'[p] = disturbed[p] /\ refused'[p] = refused[p] /\ ~refused[p]
      BY <2>7 DEF ReadStore
    <3>2. seen[p].on \in BOOLEAN /\ (seen[p].on => Lit(seen[p]) = seen[p])
      BY LitDark
    <3>3. \/ pc'[p] = "failed"
          \/ pc'[p] = "done" /\ goal'[p] = seen[p]
          \/ pc'[p] = "putSet" /\ seen[p].on
          \/ pc'[p] = "putOn" /\ ~seen[p].on
      BY <2>7, <3>2 DEF ReadStore
    <3>4. Mixed(p)' \/ disturbed'[p]
      BY <1>1, <3>1 DEF Mixed
    <3> QED
      BY <1>1, <3>1, <3>2, <3>3, <3>4
  <2>8. CASE Die(p)
    <3>1. /\ pc'[p] = "failed" /\ op'[p] = op[p] /\ seen'[p] = seen[p] /\ goal'[p] = goal[p]
          /\ disturbed'[p] = disturbed[p] /\ refused'[p] = refused[p] /\ ~Over(p)
      BY <2>8 DEF Die
    <3>2. Lit(seen[p]).on = TRUE /\ Lit(goal[p]).on = TRUE
      BY LitDark
    <3>3. Mixed(p)' = Mixed(p)
      BY <1>1, <3>1 DEF Mixed
    <3> QED
      BY <1>1, <3>1, <3>2, <3>3 DEF Over
  <2> QED
    BY <2>1, <2>2, <2>3, <2>4, <2>5, <2>6, <2>7, <2>8
<1> QED
  BY <1>1, <1>2, <1>3

\* The PUTs of run p bring it on, and disturb whoever else has looked.
LEMMA PutStep ==
    ASSUME NEW p \in Procs, LInv, PutOn(p) \/ PutSet(p) \/ PutOff(p)
    PROVE  \A q \in Procs : RunInv(q)'
<1> USE DEF LInv, local
<1>t. seen[p] \in State /\ goal[p] \in State /\ light \in State
  BY DEF StateTypeOK
<1>l. PICK l, taken, next : Put(p, l, taken, next)
  BY DEF PutOn, PutSet, PutOff, PutPower
<1>2. ASSUME NEW q \in Procs \ {p} PROVE RunInv(q)'
  <2>1. /\ pc'[q] = pc[q] /\ op'[q] = op[q] /\ seen'[q] = seen[q] /\ goal'[q] = goal[q]
        /\ refused'[q] = refused[q]
    BY <1>l DEF Put, Goto, StateTypeOK
  <2>2. disturbed'[q] \/ (light' = light /\ (disturbed[q] => disturbed'[q]))
    BY <1>l DEF Put, Becomes
  <2> QED
    BY <2>1, <2>2, Bystander
<1>3. RunInv(p)'
  <2>1. /\ op'[p] = op[p] /\ seen'[p] = seen[p] /\ goal'[p] = goal[p]
        /\ disturbed'[p] = disturbed[p] /\ (refused[p] => refused'[p])
    BY <1>l DEF Put, Becomes, StateTypeOK
  <2>o. op[p] \in {"restore", "switch"} /\ (op[p] = "switch" => disturbed[p] \/ ~refused[p])
    BY DEF RunInv, Points, Refused, PutOn, PutSet, PutOff
  <2> USE <1>t DEF RunInv, Points, Goto, StateTypeOK
  <2>2. CASE PutOn(p)
    <3>1. /\ pc[p] = "putOn"
          /\ \/ light' = Lit(light) /\ refused'[p] = refused[p]
             \/ light' = light /\ refused'[p]
          /\ pc'[p] \in {IF op[p] = "restore" THEN "putSet" ELSE "done", "failed"}
      BY <2>2 DEF PutOn, PutPower, Put, Becomes, Lit
    <3>2. Lit(light).on = TRUE /\ Lit(light).set = light.set
      BY LitDark
    <3>3. op[p] = "restore" /\ ~disturbed[p] => Mixed(p)'
      BY <2>1, <3>1, <3>2 DEF Mixed
    <3> QED
      BY <2>1, <2>o, <3>1, <3>2, <3>3 DEF Restoring, Switching, Refused
  <2>3. CASE PutSet(p)
    <3> PICK A \in SUBSET Body(p) :
            Put(p, SetAspects(p, A), A = Body(p), IF goal[p].on THEN "done" ELSE "putOff")
      BY <2>3 DEF PutSet
    <3>1. /\ pc[p] = "putSet" /\ op[p] = "restore" /\ light' = SetAspects(p, A)
          /\ refused'[p] = (refused[p] \/ A # Body(p))
          /\ pc'[p] \in {IF goal[p].on THEN "done" ELSE "putOff", "failed"}
      BY <2>3 DEF PutSet, Put, Becomes
    <3>2. ~disturbed[p] /\ ~refused'[p] => light' = Lit(goal[p])
      BY <3>1, SetReachesGoal DEF Restoring
    <3>3. Lit(goal[p]).on = TRUE /\ (goal[p].on => Lit(goal[p]) = goal[p])
      BY LitDark
    <3>4. \A a \in Aspects : light'.set[a] \in {light.set[a], goal[p].set[a]}
      BY <3>1, PutTypes
    <3>5. ~disturbed[p] => Mixed(p)'
      BY <2>1, <3>1, <3>4 DEF Mixed
    <3> QED
      BY <2>1, <3>1, <3>2, <3>3, <3>5 DEF Restoring
  <2>4. CASE PutOff(p)
    <3>1. /\ pc[p] = "putOff" /\ pc'[p] \in {"done", "failed"}
          /\ \/ light' = Dark(light) /\ refused'[p] = refused[p]
             \/ light' = light /\ refused'[p]
      BY <2>4 DEF PutOff, PutPower, Put, Becomes, Dark
    <3>2. ~goal[p].on => Dark(Lit(goal[p])) = goal[p]
      <4>1. /\ Lit(goal[p]) \in State /\ Lit(goal[p]).set = goal[p].set
            /\ goal[p].on \in BOOLEAN
        BY LitDark
      <4>2. /\ Dark(Lit(goal[p])) \in State /\ Dark(Lit(goal[p])).on = FALSE
            /\ Dark(Lit(goal[p])).set = goal[p].set
        BY <4>1, LitDark
      <4> QED
        BY <4>1, <4>2, SameState
    <3>3. Dark(light).set = light.set
      BY LitDark
    <3>4. op[p] = "restore" /\ ~disturbed[p] => Mixed(p)'
      BY <2>1, <3>1, <3>3 DEF Mixed
    <3> QED
      BY <2>1, <2>o, <3>1, <3>2, <3>4 DEF Restoring, Switching, Refused
  <2> QED
    BY <2>2, <2>3, <2>4
<1> QED
  BY <1>2, <1>3

\* A deletion is over for its run, and a file that is being written loses its name.
LEMMA ForgetStep ==
    ASSUME NEW p \in Procs, LInv, Remove(p) \/ DeleteAll(p)
    PROVE  \A q \in Procs : RunInv(q)'
<1> SUFFICES ASSUME NEW q \in Procs PROVE RunInv(q)'
  OBVIOUS
<1>1. /\ op'[q] = op[q] /\ seen'[q] = seen[q] /\ goal'[q] = goal[q]
      /\ disturbed'[q] = disturbed[q] /\ refused'[q] = refused[q] /\ light' = light
  BY DEF Remove, DeleteAll, local, bridgeVars
<1>2. \/ pc'[q] = pc[q]
      \/ pc'[q] = "done" /\ pc[q] = "remove"
      \/ pc'[q] = "unlinked" /\ pc[q] = "write"
  BY StateAssumption DEF Remove, DeleteAll, Forget
<1>3. Mixed(q)' = Mixed(q)
  BY <1>1 DEF Mixed
<1> QED
  BY <1>1, <1>2, <1>3 DEF LInv, RunInv, Points, Restoring, Switching, Refused

\* Somebody else disturbs everybody, or nobody.
LEMMA ElsewhereStep ==
    ASSUME LInv, Elsewhere
    PROVE  \A q \in Procs : RunInv(q)'
<1> SUFFICES ASSUME NEW q \in Procs PROVE RunInv(q)'
  OBVIOUS
<1>1. /\ pc'[q] = pc[q] /\ op'[q] = op[q] /\ seen'[q] = seen[q] /\ goal'[q] = goal[q]
      /\ refused'[q] = refused[q]
  BY DEF Elsewhere, local
<1>2. disturbed'[q] \/ (light' = light /\ (disturbed[q] => disturbed'[q]))
  BY StateAssumption DEF Elsewhere, Becomes
<1> QED
  BY <1>1, <1>2, Bystander DEF LInv

-----------------------------------------------------------------------------
(* Slots *)

\* Without a rename every run saves to, and deletes, the one slot there is.
LEMMA OneSlotStep ==
    ASSUME LInv, [StateNext]_vars
    PROVE  OneSlot'
<1> USE DEF LInv, OneSlot, bridgeVars, history, local
<1> SUFFICES ASSUME ~renamed' PROVE OneSlot'
  OBVIOUS
<1>0. CASE UNCHANGED vars
  BY <1>0 DEF vars
<1>1. CASE Elsewhere
  BY <1>1 DEF Elsewhere, StateTypeOK
<1>2. ASSUME NEW p \in Procs, Step(p) PROVE OneSlot'
  <2>n. ~renamed /\ name' = name /\ ccu' = ccu
    BY <1>2 DEF Step, Save, Restore, Delete, Switch, Toggle, OpenFile, WriteFile, ReadStore,
       PutOn, PutSet, PutOff, PutPower, Put, Die, Remove, DeleteAll, Look
  <2>s. Slot(p) = (IF ccu THEN CcuSlot ELSE name)
    BY <2>n DEF Slot
  <2>1. CASE Save(p) \/ Restore(p) \/ Delete(p) \/ Switch(p) \/ Toggle(p)
    BY <2>1, <2>n DEF Save, Restore, Delete, Switch, Toggle, Look, StateTypeOK
  <2>2. CASE OpenFile(p) \/ WriteFile(p)
    BY <2>2, <2>n, <2>s DEF OpenFile, WriteFile, Fill, Slot, StateTypeOK
  <2>3. CASE ReadStore(p) \/ PutOn(p) \/ PutSet(p) \/ PutOff(p) \/ Die(p)
    BY <2>3, <2>n DEF ReadStore, PutOn, PutSet, PutOff, PutPower, Put, Die
  <2>4. CASE Remove(p)
    BY <2>4, <2>n, <2>s, StateAssumption DEF Remove, Forget
  <2>5. CASE DeleteAll(p)
    BY <2>5, <2>n, StateAssumption DEF DeleteAll, Forget, StateTypeOK
  <2> QED
    BY <1>2, <2>1, <2>2, <2>3, <2>4, <2>5 DEF Step
<1> QED
  BY <1>0, <1>1, <1>2 DEF StateNext

-----------------------------------------------------------------------------
(* Theorems *)

\* It holds at the start, and every step keeps it.
THEOREM LInvHolds == StateSpec => []LInv
<1>1. StateInit => LInv
  <2> SUFFICES ASSUME StateInit PROVE LInv
    OBVIOUS
  <2>1. StateTypeOK
    <3>1. store \in [Slots -> State \cup {NoState, Torn}]
      BY DEF StateInit
    <3>2. /\ pc \in [Procs -> {"idle"}] /\ op \in [Procs -> Ops]
          /\ disturbed \in [Procs -> BOOLEAN] /\ refused \in [Procs -> BOOLEAN]
          /\ stale \in [Procs -> BOOLEAN]
      BY DEF StateInit, Ops
    <3>3. /\ light \in State /\ seen \in [Procs -> State] /\ goal \in [Procs -> State]
          /\ name \in Names /\ seenName \in [Procs -> Names]
      BY DEF StateInit
    <3>4. pc \in [Procs -> {"idle", "open", "write", "unlinked", "read", "putOn", "putSet",
                           "putOff", "remove", "done", "failed"}]
      BY <3>2
    <3>5. /\ ccu \in BOOLEAN /\ reachable \in BOOLEAN /\ renamed \in BOOLEAN
          /\ outdated \in SUBSET Slots /\ late \in SUBSET Slots
      BY DEF StateInit
    <3>6. MaxChanges \in Nat /\ changes = 0
      BY StateAssumption DEF StateInit
    <3>7. changes \in 0..MaxChanges
      BY <3>6
    <3> QED
      BY <3>1, <3>2, <3>3, <3>4, <3>5, <3>7 DEF StateTypeOK
  <2> QED
    BY <2>1 DEF StateInit, LInv, OneSlot, RunInv, Points, Restoring, Switching
<1>2. LInv /\ [StateNext]_vars => LInv'
  <2> SUFFICES ASSUME LInv, [StateNext]_vars PROVE LInv'
    OBVIOUS
  <2>1. StateTypeOK'
    BY StateTypeStep DEF LInv
  <2>2. OneSlot'
    BY OneSlotStep
  <2>3. \A q \in Procs : RunInv(q)'
    <3>1. CASE UNCHANGED vars
      BY <3>1 DEF vars, bridgeVars, history, local, LInv, RunInv, Points, Restoring,
                  Switching, Refused, Mixed
    <3>2. CASE Elsewhere
      BY <3>2, ElsewhereStep
    <3>3. ASSUME NEW p \in Procs, Step(p) PROVE \A q \in Procs : RunInv(q)'
      <4>1. CASE \/ Save(p) \/ Restore(p) \/ Delete(p) \/ Switch(p) \/ Toggle(p)
                 \/ OpenFile(p) \/ WriteFile(p) \/ ReadStore(p) \/ Die(p)
        BY <4>1, QuietRunStep
      <4>2. CASE PutOn(p) \/ PutSet(p) \/ PutOff(p)
        BY <4>2, PutStep
      <4>3. CASE Remove(p) \/ DeleteAll(p)
        BY <4>3, ForgetStep
      <4> QED
        BY <3>3, <4>1, <4>2, <4>3 DEF Step
    <3> QED
      BY <3>1, <3>2, <3>3 DEF StateNext
  <2> QED
    BY <2>1, <2>2, <2>3 DEF LInv
<1> QED
  BY <1>1, <1>2, PTL DEF StateSpec

\* The types (LightStateSave, LightStateRead, LightStateDelete, LightOnOff).
THEOREM StateTypeCorrect == StateSpec => []StateTypeOK
<1>1. LInv => StateTypeOK
  BY DEF LInv
<1> QED
  BY <1>1, LInvHolds, PTL

\* A restore that nobody disturbs gives exactly the saved state, or where the bridge
\* refused a PUT a mixture of it and what was found (LightStateRead).
THEOREM RestoreIsExact == StateSpec => []RestoreExact
<1>1. LInv => RestoreExact
  BY DEF LInv, RestoreExact, RunInv, Restoring
<1> QED
  BY <1>1, LInvHolds, PTL

\* However it ends, it has not left the light off in between, unless the bridge
\* refused a PUT (LightStateRead).
THEOREM HalfOffHolds == StateSpec => []NeverHalfOff
<1>1. LInv => NeverHalfOff
  <2> SUFFICES ASSUME LInv, NEW p \in Procs, op[p] = "restore", ~disturbed[p]
               PROVE  \/ light.on \/ light \in {seen[p], goal[p]}
                      \/ refused[p] /\ Mixed(p)
    BY DEF NeverHalfOff
  <2>1. /\ seen[p] \in State /\ goal[p] \in State
        /\ pc[p] \in {"idle", "open", "write", "unlinked", "read", "putOn", "putSet", "putOff",
                     "remove", "done", "failed"}
    BY DEF LInv, StateTypeOK
  <2>2. Mixed(p) /\ (refused[p] \/ Restoring(p)) /\ Points(p)
    BY DEF LInv, RunInv
  <2>3. pc[p] \in {"read", "putOn", "putSet", "putOff", "done", "failed"}
    BY <2>1, <2>2 DEF Points
  <2>4. Lit(seen[p]).on = TRUE /\ Lit(goal[p]).on = TRUE
    BY <2>1, LitDark
  <2> QED
    BY <2>2, <2>3, <2>4 DEF Restoring
<1> QED
  BY <1>1, LInvHolds, PTL

\* A switch that nobody disturbs switches and changes nothing else, or leaves all as it
\* was where the bridge refused (LightOnOff).
THEOREM SwitchIsRight == StateSpec => []SwitchRight
<1>1. LInv => SwitchRight
  BY DEF LInv, SwitchRight, RunInv, Switching, Refused
<1> QED
  BY <1>1, LInvHolds, PTL

\* A deleted state does not come back without a rename, or a save that had looked at
\* the light before (LightStateDelete).
THEOREM ForgottenHolds == StateSpec => []DeletedIsForgotten
<1>1. LInv => DeletedIsForgotten
  BY DEF LInv, OneSlot, DeletedIsForgotten
<1> QED
  BY <1>1, LInvHolds, PTL
=============================================================================
