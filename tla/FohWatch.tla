------------------------------ MODULE FohWatch ------------------------------
(***************************************************************************)
(* ::hue::foh::watch of hue.inc.foh.tcl.  The bridge keeps, of each switch *)
(* without battery, the last event only: which button, pressed or          *)
(* released, and the second in which it happened.  The watch asks for one  *)
(* sensor after the other, for ever, and tells short presses from long     *)
(* ones by its own clock; what happens between two polls it never sees.    *)
(***************************************************************************)
EXTENDS Integers

CONSTANTS
    Last,       \* the sensors 1..Last, in the order of the argument of watch
    Buttons,    \* topleft, ..., bottom_pair, top_pair
    Threshold,  \* longThresholdMs
    Second,     \* the resolution of lastupdated
    MaxGap,     \* assumption: ticks between two readable answers of a sensor
    MaxTime     \* bound: last tick of the clock

Sensors == 1..Last
NoButton == "none"

ASSUME WatchAssumption ==
    /\ Last \in Nat \ {0}
    /\ NoButton \notin Buttons
    /\ Threshold \in Nat /\ Second \in Nat \ {0}
    /\ MaxGap \in Nat \ {0} /\ MaxTime \in Nat

VARIABLES
    now,      \* clock milliseconds
    held,     \* since when each button is held down; Never if it is not
    shown,    \* the state of each sensor at the bridge
    up,       \* the watch runs
    at,       \* the sensor whose turn it is
    primed,   \* sensors whose first event has been swallowed
    seen,     \* lastSeenBe and lastSeenLu
    pressTs,  \* when the watch has seen each button pressed
    line,     \* what it has just printed
    polled,   \* history: when each sensor was last read
    fetched,  \* history: sensors whose state the watch has read
    lost      \* history: buttons of which an event was overwritten unread since
              \* the watch last saw them pressed

bridgeVars == <<now, held, shown>>
watchVars == <<up, at, primed, seen, pressTs, line>>
history == <<polled, fetched, lost>>
vars == <<bridgeVars, watchVars, history>>

Never == -1
Time  == 0..MaxTime

\* buttonevent and lastupdated; any code but those of the buttons is "other".  len
\* is history: how long a released button was held.
Event   == [btn : Buttons \cup {NoButton}, phase : {"press", "release", "other"},
            lu : Time, len : Time]
NoEvent == [btn |-> NoButton, phase |-> "other", lu |-> Never, len |-> 0]

\* What de-duplication compares.
Seen(e) == <<e.btn, e.phase, e.lu>>

Line   == [kind : {"nothing", "PRESS", "SHORT", "press missed", "LONG", "OTHER"},
           on : Sensors, btn : Buttons \cup {NoButton}, len : Time]
Silent == [kind |-> "nothing", on |-> 1, btn |-> NoButton, len |-> 0]

WatchTypeOK ==
    /\ now \in Time
    /\ held \in [Sensors -> [Buttons -> Time \cup {Never}]]
    /\ shown \in [Sensors -> Event \cup {NoEvent}]
    /\ up \in BOOLEAN
    /\ at \in Sensors
    /\ primed \subseteq Sensors
    /\ seen \in [Sensors -> {Seen(e) : e \in Event \cup {NoEvent}}]
    /\ pressTs \in [Sensors -> [Buttons -> Time \cup {Never}]]
    /\ line \in Line
    /\ polled \in [Sensors -> Time]
    /\ fetched \subseteq Sensors
    /\ lost \in [Sensors -> SUBSET Buttons]

\* A watch that starts knows nothing.
Fresh ==
    /\ at' = 1
    /\ primed' = {}
    /\ seen' = [s \in Sensors |-> Seen(NoEvent)]
    /\ pressTs' = [s \in Sensors |-> [b \in Buttons |-> Never]]
    /\ line' = Silent
    /\ polled' = [s \in Sensors |-> now]
    /\ fetched' = {}
    /\ lost' = [s \in Sensors |-> Buttons]

WatchInit ==
    /\ now = 0
    /\ held = [s \in Sensors |-> [b \in Buttons |-> Never]]
    /\ shown = [s \in Sensors |-> NoEvent]
    /\ up = TRUE
    /\ at = 1
    /\ primed = {}
    /\ seen = [s \in Sensors |-> Seen(NoEvent)]
    /\ pressTs = [s \in Sensors |-> [b \in Buttons |-> Never]]
    /\ line = Silent
    /\ polled = [s \in Sensors |-> 0]
    /\ fetched = {}
    /\ lost = [s \in Sensors |-> Buttons]

-----------------------------------------------------------------------------
(* The switches and the bridge *)

Tick ==
    /\ now < MaxTime
    /\ \A s \in Sensors : up => now < polled[s] + MaxGap
    /\ now' = now + 1
    /\ line' = Silent
    /\ UNCHANGED <<held, shown, up, at, primed, seen, pressTs, history>>

\* Event e replaces the last one, which may not have been read.
Show(s, e) ==
    /\ shown' = [shown EXCEPT ![s] = [e EXCEPT !.lu = now \div Second]]
    /\ lost' = IF s \in fetched THEN lost
               ELSE [lost EXCEPT ![s] = @ \cup ({shown[s].btn} \ {NoButton})]
    /\ fetched' = fetched \ {s}
    /\ line' = Silent
    /\ UNCHANGED <<now, up, at, primed, seen, pressTs, polled>>

Press(s, b) ==
    /\ held[s][b] = Never
    /\ held' = [held EXCEPT ![s][b] = now]
    /\ Show(s, [btn |-> b, phase |-> "press", lu |-> 0, len |-> 0])

Release(s, b) ==
    /\ held[s][b] # Never
    /\ held' = [held EXCEPT ![s][b] = Never]
    /\ Show(s, [btn |-> b, phase |-> "release", lu |-> 0, len |-> now - held[s][b]])

\* A code the watch does not know, such as 104.
OtherEvent(s) ==
    /\ Show(s, [NoEvent EXCEPT !.lu = 0])
    /\ UNCHANGED held

-----------------------------------------------------------------------------
(* The watch *)

\* Mutant: events of one second are the same.
SameSecond(s, e) == seen[s][3] = e.lu

\* The next sensor; after the last one the watch sleeps for pollMs.
After(s) == IF s = Last THEN 1 ELSE s + 1

\* An exact repeat of what was seen last.
Repeat(s, e) == seen[s] = Seen(e)

Say(k, s, e) == line' = [kind |-> k, on |-> s, btn |-> e.btn, len |-> e.len]

\* Mutant: a press that is remembered is not replaced.
FirstPress(s, e) ==
    /\ e.phase = "press"
    /\ pressTs' = [pressTs EXCEPT ![s][e.btn] = IF @ = Never THEN now ELSE @]
    /\ lost' = [lost EXCEPT ![s] = @ \ {e.btn}]
    /\ Say("PRESS", s, e)

\* A later press replaces one whose release was missed.
Pressed(s, e) ==
    /\ e.phase = "press"
    /\ pressTs' = [pressTs EXCEPT ![s][e.btn] = now]
    /\ lost' = [lost EXCEPT ![s] = @ \ {e.btn}]
    /\ Say("PRESS", s, e)

\* Mutant: short and long are swapped.
ReleasedSwapped(s, e) ==
    /\ e.phase = "release"
    /\ Say(IF pressTs[s][e.btn] = Never THEN "press missed"
           ELSE IF now - pressTs[s][e.btn] < Threshold THEN "LONG" ELSE "SHORT",
           s, e)
    /\ pressTs' = [pressTs EXCEPT ![s][e.btn] = Never]
    /\ UNCHANGED lost

\* The time since the press decides, if there is one.
Released(s, e) ==
    /\ e.phase = "release"
    /\ Say(IF pressTs[s][e.btn] = Never THEN "press missed"
           ELSE IF now - pressTs[s][e.btn] >= Threshold THEN "LONG" ELSE "SHORT",
           s, e)
    /\ pressTs' = [pressTs EXCEPT ![s][e.btn] = Never]
    /\ UNCHANGED lost

Unknown(s, e) ==
    /\ e.phase = "other"
    /\ Say("OTHER", s, e)
    /\ UNCHANGED <<pressTs, lost>>

\* An event that is news: the first of a sensor is swallowed.
Notice(s, e) ==
    /\ seen' = [seen EXCEPT ![s] = Seen(e)]
    /\ primed' = primed \cup {s}
    /\ IF s \in primed
       THEN Pressed(s, e) \/ Released(s, e) \/ Unknown(s, e)
       ELSE line' = Silent /\ UNCHANGED <<pressTs, lost>>

\* Nothing is printed or remembered.
Skip == line' = Silent /\ UNCHANGED <<primed, seen, pressTs, lost>>

Asked(s, next) ==
    /\ up
    /\ at = s
    /\ at' = next
    /\ UNCHANGED <<bridgeVars, up>>

\* GET /sensors/<s> and what follows.
Poll(s) ==
    /\ Asked(s, After(s))
    /\ polled' = [polled EXCEPT ![s] = now]
    /\ fetched' = fetched \cup {s}
    /\ \/ shown[s] = NoEvent /\ Skip
       \/ shown[s] # NoEvent /\ s \in primed /\ Repeat(s, shown[s]) /\ Skip
       \/ /\ shown[s] # NoEvent
          /\ s \notin primed \/ ~Repeat(s, shown[s])
          /\ Notice(s, shown[s])

\* "don't die on transient junk; just skip".  In mode local every answer is junk: the
\* request lacks the /api/<key> of the version 1 interface.
Junk(s) == Asked(s, After(s)) /\ Skip /\ UNCHANGED <<polled, fetched>>

\* curl fails: a Tcl error ends the watch; or the user does.  He starts it again.
Stop  == up /\ up' = FALSE /\ line' = Silent
            /\ UNCHANGED <<bridgeVars, at, primed, seen, pressTs, history>>
Start == ~up /\ up' = TRUE /\ Fresh /\ UNCHANGED bridgeVars

WatchStep == \E s \in Sensors : Poll(s) \/ Junk(s)

WatchNext ==
    \/ Tick \/ Stop \/ Start \/ WatchStep
    \/ \E s \in Sensors :
          \/ OtherEvent(s)
          \/ \E b \in Buttons : Press(s, b) \/ Release(s, b)

WatchSpec == WatchInit /\ [][WatchNext]_vars

-----------------------------------------------------------------------------
(* Properties *)

\* What is reported as SHORT was held for less than the threshold, give or take
\* the time between two polls, whatever was missed before.
ShortIsShort ==
    line.kind = "SHORT" => line.len < Threshold + MaxGap

\* What is reported as LONG was held that long, unless an event of the button got
\* lost between two polls since it was seen pressed.
LongIsHeld ==
    line.kind = "LONG" /\ line.btn \notin lost[line.on] => line.len >= Threshold - MaxGap

\* "press missed" is said only where the press did get lost, or came before the
\* watch: de-duplication by code and second hides no press that was read, and no
\* release is reported twice.
MissedWasLost ==
    line.kind = "press missed" => line.btn \in lost[line.on]
=============================================================================
