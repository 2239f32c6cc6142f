----------------------------- MODULE LightState -----------------------------
(***************************************************************************)
(* LightStateSave, LightStateRead, LightStateDelete and LightOnOff: the    *)
(* state of one light is saved to a file, or on a CCU to a variable, put   *)
(* back in up to three PUTs, or forgotten; and the light is switched.      *)
(* Every script is a process that looks at the light once, at its start.   *)
(* The bridge ignores the settings of a light that is off, so a light that *)
(* is to be off with other settings is switched on for them.               *)
(***************************************************************************)
EXTENDS Integers

CONSTANTS
    Procs,      \* runs of the scripts
    Aspects,    \* bri, sat, xy, effect, alert
    Values,     \* what an aspect may be
    Names,      \* names the light may bear
    NoState,    \* there is no file
    Torn,       \* a file that has been opened and not written yet
    Nobody,     \* no run of a script
    MaxChanges  \* bound: changes of the light by somebody else

State == [on : BOOLEAN, set : [Aspects -> Values]]
CcuSlot == "state<nr>"

ASSUME StateAssumption ==
    /\ NoState \notin State /\ Torn \notin State /\ Torn # NoState
    /\ CcuSlot \notin Names
    /\ Nobody \notin Procs
    /\ MaxChanges \in Nat

VARIABLES
    ccu,        \* the scripts run on a CCU
    light,      \* the light as the bridge has it
    name,       \* its name
    reachable,
    store,      \* the files .state<nr>_(<name>).txt and the variable state<nr>
    pc, op,     \* where each run is, what it is for
    seen,       \* the light as the run has found it, ...
    seenName,   \* ... and its name
    goal,       \* the state the run has read from the store
    changes,    \* how often somebody else has changed the light
    disturbed,  \* history: the light was changed by others since the run looked
    refused,    \* history: the bridge refused a PUT of the run, or a part of it
    stale,      \* history: a save under way looked before a deletion of the light
    outdated,   \* history: slots that hold a state from before a deletion, ...
    late,       \* ... and those a stale save filled
    renamed     \* history: the light has been renamed

history == <<disturbed, refused, stale, outdated, late, renamed>>
bridgeVars == <<light, name, reachable>>
local == <<op, seen, seenName, goal>>
vars == <<ccu, bridgeVars, store, pc, local, changes, history>>

Slots == Names \cup {CcuSlot}
Ops   == {"save", "restore", "delete", "switch"}

StateTypeOK ==
    /\ ccu \in BOOLEAN
    /\ light \in State /\ name \in Names /\ reachable \in BOOLEAN
    /\ store \in [Slots -> State \cup {NoState, Torn}]
    /\ pc \in [Procs -> {"idle", "open", "write", "unlinked", "read", "putOn", "putSet", "putOff",
                         "remove", "done", "failed"}]
    /\ op \in [Procs -> Ops]
    /\ seen \in [Procs -> State] /\ goal \in [Procs -> State]
    /\ seenName \in [Procs -> Names]
    /\ changes \in 0..MaxChanges
    /\ disturbed \in [Procs -> BOOLEAN] /\ refused \in [Procs -> BOOLEAN]
    /\ stale \in [Procs -> BOOLEAN]
    /\ outdated \in SUBSET Slots /\ late \in SUBSET Slots
    /\ renamed \in BOOLEAN

StateInit ==
    /\ ccu \in BOOLEAN
    /\ light \in State /\ name \in Names /\ reachable = TRUE
    /\ store = [s \in Slots |-> NoState]
    /\ pc = [p \in Procs |-> "idle"]
    /\ op = [p \in Procs |-> "switch"]
    /\ seen = [p \in Procs |-> light] /\ goal = [p \in Procs |-> light]
    /\ seenName = [p \in Procs |-> name]
    /\ changes = 0
    /\ disturbed = [p \in Procs |-> FALSE]
    /\ refused = [p \in Procs |-> FALSE]
    /\ stale = [p \in Procs |-> FALSE]
    /\ outdated = {} /\ late = {}
    /\ renamed = FALSE

-----------------------------------------------------------------------------
(* The scripts *)

Goto(p, l) == pc' = [pc EXCEPT ![p] = l]

\* A run that has not begun, or is over.
Over(p) == pc[p] \in {"idle", "done", "failed"}

\* The file of the light under its name, or the variable of its number.
Slot(p) == IF ccu THEN CcuSlot ELSE seenName[p]

\* The GET a run for o begins with; g is what it wants the light to become.
Look(p, o, g) ==
    /\ Over(p)
    /\ op' = [op EXCEPT ![p] = o]
    /\ goal' = [goal EXCEPT ![p] = g]
    /\ seen' = [seen EXCEPT ![p] = light]
    /\ seenName' = [seenName EXCEPT ![p] = name]
    /\ disturbed' = [disturbed EXCEPT ![p] = FALSE]
    /\ refused' = [refused EXCEPT ![p] = FALSE]
    /\ stale' = [stale EXCEPT ![p] = FALSE]
    /\ UNCHANGED <<ccu, bridgeVars, store, changes, outdated, late, renamed>>

\* LightStateSave; a light that cannot be reached is refused, here and below.
Save(p) ==
    /\ reachable
    /\ Look(p, "save", light)
    /\ Goto(p, "open")

\* LightStateRead
Restore(p) ==
    /\ reachable
    /\ Look(p, "restore", light)
    /\ Goto(p, "read")

\* LightStateDelete with a light
Delete(p) ==
    /\ Look(p, "delete", light)
    /\ Goto(p, "remove")

\* LightOnOff on or off; nothing is put where nothing is to be changed.
Switch(p) ==
    /\ \E on \in BOOLEAN :
          /\ Look(p, "switch", [light EXCEPT !.on = on])
          /\ Goto(p, IF light.on = on THEN "done" ELSE IF on THEN "putOn" ELSE "putOff")

\* Mutant: the light is put into the state it is in.
ToggleInverted(p) ==
    /\ Look(p, "switch", [light EXCEPT !.on = ~light.on])
    /\ Goto(p, IF light.on THEN "putOn" ELSE "putOff")

\* LightOnOff toggle
Toggle(p) ==
    /\ Look(p, "switch", [light EXCEPT !.on = ~light.on])
    /\ Goto(p, IF light.on THEN "putOff" ELSE "putOn")

\* What the run has found fills its slot, whatever was deleted in the meantime.
Fill(p) ==
    /\ store' = [store EXCEPT ![Slot(p)] = seen[p]]
    /\ outdated' = IF stale[p] THEN outdated \cup {Slot(p)} ELSE outdated \ {Slot(p)}
    /\ late' = IF stale[p] THEN late \cup {Slot(p)} ELSE late \ {Slot(p)}
    /\ stale' = [stale EXCEPT ![p] = FALSE]

\* The file is opened, which empties it; a variable is set in one call.
OpenFile(p) ==
    /\ pc[p] = "open"
    /\ IF ccu THEN Fill(p) /\ Goto(p, "done")
              ELSE /\ store' = [store EXCEPT ![Slot(p)] = Torn]
                   /\ outdated' = outdated \ {Slot(p)} /\ late' = late \ {Slot(p)}
                   /\ Goto(p, "write")
                   /\ UNCHANGED stale
    /\ UNCHANGED <<ccu, bridgeVars, local, changes, disturbed, refused, renamed>>

\* The text goes to the file that was opened, although it may have been removed.
WriteFile(p) ==
    /\ \/ pc[p] = "write" /\ Fill(p)
       \/ pc[p] = "unlinked" /\ UNCHANGED <<store, outdated, late, stale>>
    /\ Goto(p, "done")
    /\ UNCHANGED <<ccu, bridgeVars, local, changes, disturbed, refused, renamed>>

\* Mutant: a light that is to be off is switched off at once.
ReadStoreOffFirst(p) ==
    /\ pc[p] = "read"
    /\ IF store[Slot(p)] \in {NoState, Torn}
       THEN Goto(p, "failed") /\ UNCHANGED goal
       ELSE /\ goal' = [goal EXCEPT ![p] = store[Slot(p)]]
            /\ Goto(p, CASE store[Slot(p)] = seen[p] -> "done"
                         [] ~store[Slot(p)].on -> "putOff"
                         [] ~seen[p].on -> "putOn"
                         [] OTHER -> "putSet")
    /\ UNCHANGED <<ccu, bridgeVars, store, op, seen, seenName, changes, history>>

\* Without a saved state, or with an empty file, the script ends; so it does if
\* the light is in that state already.  On a CCU the array of the state keeps what
\* infoVariable says of the variable: where the light is off and is to stay off,
\* the comparison finds no such setting of the light, and Tcl's error ends the run.
ReadStore(p) ==
    /\ pc[p] = "read"
    /\ IF store[Slot(p)] \in {NoState, Torn}
       THEN Goto(p, "failed") /\ UNCHANGED goal
       ELSE /\ goal' = [goal EXCEPT ![p] = store[Slot(p)]]
            /\ Goto(p, CASE store[Slot(p)] = seen[p] -> "done"
                         [] ccu /\ store[Slot(p)] # seen[p]
                                /\ ~seen[p].on /\ ~store[Slot(p)].on -> "failed"
                         [] OTHER -> IF seen[p].on THEN "putSet" ELSE "putOn")
    /\ UNCHANGED <<ccu, bridgeVars, store, op, seen, seenName, changes, history>>

\* What is put: all settings, or where both states are off those that differ.
Body(p) ==
    IF seen[p].on \/ goal[p].on THEN Aspects
    ELSE {a \in Aspects : goal[p].set[a] # seen[p].set[a]}

\* The bridge takes the settings A; those of a light that is off stay as they are.
SetAspects(p, A) ==
    IF ~light.on THEN light
    ELSE [light EXCEPT !.set =
            [a \in Aspects |-> IF a \in A THEN goal[p].set[a] ELSE light.set[a]]]

\* Somebody changes the light to l: whoever else has looked at it is mistaken.
Becomes(l, writer) ==
    /\ light' = l
    /\ disturbed' = [q \in Procs |-> disturbed[q] \/ (q # writer /\ l # light)]

\* A PUT that arrives and makes the light l, taken whole or not.  A refusal that
\* curltest does not know is printed, and the script goes on; the answer may get
\* lost, and the script ends.
Put(p, l, taken, next) ==
    /\ Becomes(l, p)
    /\ refused' = [refused EXCEPT ![p] = refused[p] \/ ~taken]
    /\ \/ Goto(p, next)
       \/ Goto(p, "failed")
    /\ UNCHANGED <<ccu, name, reachable, store, local, changes, stale, outdated, late, renamed>>

\* The light is switched, or the bridge refuses.
PutPower(p, on, next) ==
    \/ Put(p, [light EXCEPT !.on = on], TRUE, next)
    \/ Put(p, light, FALSE, next)

PutOn(p) ==
    /\ pc[p] = "putOn"
    /\ PutPower(p, TRUE, IF op[p] = "restore" THEN "putSet" ELSE "done")

\* Mutant: the light is not switched off again.
PutSetStaysOn(p) ==
    /\ pc[p] = "putSet"
    /\ \E A \in SUBSET Body(p) : Put(p, SetAspects(p, A), A = Body(p), "done")

\* The bridge answers for each of the settings, and may refuse any of them.
PutSet(p) ==
    /\ pc[p] = "putSet"
    /\ \E A \in SUBSET Body(p) :
          Put(p, SetAspects(p, A), A = Body(p), IF goal[p].on THEN "done" ELSE "putOff")

PutOff(p) ==
    /\ pc[p] = "putOff"
    /\ PutPower(p, FALSE, "done")

\* A request that does not arrive or whose error curltest knows, or a kill.
Die(p) ==
    /\ ~Over(p)
    /\ Goto(p, "failed")
    /\ UNCHANGED <<ccu, bridgeVars, store, local, changes, history>>

\* The slots S are emptied, under the hands of a run that writes one of them; the
\* states that are left were saved before, those a save is about to write were read
\* before.
Forget(S, remover) ==
    /\ store' = [s \in Slots |-> IF s \in S THEN NoState ELSE store[s]]
    /\ outdated' = {s \in Slots : store'[s] \in State}
    /\ late' = {}
    /\ stale' = [q \in Procs |-> \/ stale[q]
                                 \/ pc[q] = "open"
                                 \/ pc[q] = "write" /\ Slot(q) \notin S]
    /\ pc' = [q \in Procs |->
                IF q = remover THEN "done"
                ELSE IF pc[q] = "write" /\ Slot(q) \in S THEN "unlinked" ELSE pc[q]]

\* Mutant: on a CCU as well it is a file that is removed.
RemoveFile(p) ==
    /\ pc[p] = "remove"
    /\ Forget({seenName[p]}, p)
    /\ UNCHANGED <<ccu, bridgeVars, local, changes, disturbed, refused, renamed>>

Remove(p) ==
    /\ pc[p] = "remove"
    /\ Forget({Slot(p)}, p)
    /\ UNCHANGED <<ccu, bridgeVars, local, changes, disturbed, refused, renamed>>

\* LightStateDelete 0: every variable.  The space in "file delete {*} [glob ...]"
\* makes the list of files one word, so a file goes only if it is the only one;
\* where there are more, or the word is no file's name, nothing changes.
DeleteAll(p) ==
    /\ Over(p)
    /\ ccu \/ \A m, n \in Names : store[m] # NoState /\ store[n] # NoState => m = n
    /\ Forget(IF ccu THEN {CcuSlot} ELSE Names, Nobody)
    /\ UNCHANGED <<ccu, bridgeVars, local, changes, disturbed, refused, renamed>>

-----------------------------------------------------------------------------
\* Somebody else sets the light, renames it, or switches its power.
Elsewhere ==
    /\ changes < MaxChanges
    /\ changes' = changes + 1
    /\ \/ /\ \E l \in State \ {light} : Becomes(l, Nobody)
          /\ UNCHANGED <<name, reachable, renamed>>
       \/ /\ name' \in Names \ {name}
          /\ renamed' = TRUE
          /\ UNCHANGED <<light, reachable, disturbed>>
       \/ /\ reachable' = ~reachable
          /\ UNCHANGED <<light, name, disturbed, renamed>>
    /\ UNCHANGED <<ccu, store, pc, local, refused, stale, outdated, late>>

Step(p) ==
    \/ Save(p) \/ Restore(p) \/ Delete(p) \/ Switch(p) \/ Toggle(p)
    \/ OpenFile(p) \/ WriteFile(p) \/ ReadStore(p) \/ PutOn(p) \/ PutSet(p)
    \/ PutOff(p) \/ Die(p) \/ Remove(p) \/ DeleteAll(p)

StateNext == Elsewhere \/ \E p \in Procs : Step(p)

StateSpec == StateInit /\ [][StateNext]_vars

-----------------------------------------------------------------------------
(* Properties *)

\* Each setting of the light is as run p found it or as it is to be.
Mixed(p) == \A a \in Aspects : light.set[a] \in {seen[p].set[a], goal[p].set[a]}

\* A restore that ends has put the light in the saved state, settings of a light
\* that is off included, unless somebody else changed it meanwhile, or the bridge
\* refused a PUT: the script ends the same way, and each setting is as found or as
\* saved (LightStateRead).
RestoreExact ==
    \A p \in Procs :
        pc[p] = "done" /\ op[p] = "restore" /\ ~disturbed[p] =>
            light = goal[p] \/ (refused[p] /\ Mixed(p))

\* A restore that is not over, or was interrupted, may have left the light on; a
\* light that is off is as it was found or as it is to be, unless the bridge refused
\* a PUT, and then each setting is (LightStateRead).
NeverHalfOff ==
    \A p \in Procs :
        op[p] = "restore" /\ ~disturbed[p] =>
            light.on \/ light \in {seen[p], goal[p]} \/ (refused[p] /\ Mixed(p))

\* A switch or a toggle that ends leaves the light switched as it was meant when
\* the run looked, and its settings as they were, unless somebody else changed it;
\* a refusal of the bridge leaves it as it was (LightOnOff).
SwitchRight ==
    \A p \in Procs :
        pc[p] = "done" /\ op[p] = "switch" /\ ~disturbed[p] =>
            light = IF refused[p] THEN seen[p] ELSE goal[p]

\* After a deletion of the light no state from before is left that a later restore
\* could find, unless the light has been renamed, or a save that had looked at the
\* light before the deletion wrote after it (LightStateDelete, LightStateSave).
DeletedIsForgotten == \A s \in outdated : renamed \/ s \in late
=============================================================================
