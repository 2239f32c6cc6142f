--------------------------- MODULE FohWatchProofs ---------------------------
(***************************************************************************)
(* Proofs about FohWatch, for any number of sensors and buttons, any       *)
(* threshold, resolution and gap: what the watch prints is true.           *)
(***************************************************************************)
EXTENDS FohWatch, TLAPS

-----------------------------------------------------------------------------
(* The inductive invariant *)

\* The clock is ahead of everything that was taken from it.
Clocks ==
    \A s \in Sensors :
        /\ polled[s] <= now /\ shown[s].len <= now
        /\ up => now <= polled[s] + MaxGap
        /\ \A b \in Buttons : held[s][b] <= now /\ pressTs[s][b] <= now

\* What the bridge shows of a button fits the button.
ShownIsHeld ==
    \A s \in Sensors :
        /\ shown[s].phase # "other" => shown[s].btn \in Buttons
        /\ \A b \in Buttons : shown[s].btn = b =>
              /\ shown[s].phase = "press" => held[s][b] # Never
              /\ shown[s].phase = "release" => held[s][b] = Never

\* An event that was read is the one the watch compares with; an unread one is
\* younger than the last that was read.
ReadIsSeen ==
    \A s \in Sensors :
        /\ s \in fetched /\ shown[s] # NoEvent =>
              s \in primed /\ seen[s] = Seen(shown[s])
        /\ \A b \in Buttons :
              s \notin fetched /\ s \in primed /\ shown[s].btn = b
                 /\ shown[s].phase = "press" => polled[s] <= held[s][b]

\* A press is remembered at most a gap too late ...
NotTooLate ==
    \A s \in Sensors, b \in Buttons :
        /\ held[s][b] # Never => pressTs[s][b] <= held[s][b] + MaxGap
        /\ shown[s].btn = b /\ shown[s].phase = "release" =>
              pressTs[s][b] + shown[s].len <= now + MaxGap

Unread(s, b, k) == s \notin fetched /\ shown[s].btn = b /\ shown[s].phase = k

\* ... and never too early, unless an event of the button got lost.
NotTooEarly ==
    \A s \in Sensors, b \in Buttons : b \notin lost[s] =>
        /\ s \in primed
        /\ held[s][b] # Never /\ ~Unread(s, b, "press") =>
              pressTs[s][b] >= held[s][b]
        /\ Unread(s, b, "release") =>
              pressTs[s][b] # Never /\ pressTs[s][b] + shown[s].len >= polled[s]

\* De-duplication hides no press of such a button.
LastSeenPress ==
    \A s \in Sensors, b \in Buttons :
        b \notin lost[s] /\ seen[s][1] = b /\ seen[s][2] = "press" =>
            /\ held[s][b] = Never => Unread(s, b, "release")
            /\ ~Unread(s, b, "press")

\* What has just been printed is true.
Printed == ShortIsShort /\ LongIsHeld /\ MissedWasLost

WInv ==
    /\ WatchTypeOK /\ Clocks /\ ShownIsHeld /\ ReadIsSeen
    /\ NotTooLate /\ NotTooEarly /\ LastSeenPress /\ Printed

-----------------------------------------------------------------------------
(* Types *)

\* What the arithmetic of the other lemmas needs to know.
LEMMA Numbers ==
    ASSUME WatchTypeOK
    PROVE  /\ now \in Int /\ 0 <= now /\ Threshold \in Int /\ MaxGap \in Int /\ 0 < MaxGap
           /\ \A s \in Sensors :
                 /\ polled[s] \in Int /\ shown[s].len \in Int
                 /\ \A b \in Buttons :
                       /\ held[s][b] \in Int /\ -1 <= held[s][b]
                       /\ pressTs[s][b] \in Int /\ -1 <= pressTs[s][b]
<1>1. now \in Time
  BY DEF WatchTypeOK
<1>2. ASSUME NEW s \in Sensors
      PROVE  polled[s] \in Time /\ shown[s].len \in Time \cup {0}
  <2>1. polled[s] \in Time /\ shown[s] \in Event \cup {NoEvent}
    BY <1>2 DEF WatchTypeOK
  <2>2. QED
    BY <2>1 DEF Event, NoEvent
<1>3. ASSUME NEW s \in Sensors, NEW b \in Buttons
      PROVE  held[s][b] \in Time \cup {Never} /\ pressTs[s][b] \in Time \cup {Never}
  BY <1>3 DEF WatchTypeOK
<1>4. /\ now \in Int /\ 0 <= now /\ Threshold \in Int /\ MaxGap \in Int
      /\ 0 < MaxGap
  BY <1>1, WatchAssumption DEF Time
<1>5. \A s \in Sensors : polled[s] \in Int /\ shown[s].len \in Int
  BY <1>2, WatchAssumption DEF Time
<1>6. ASSUME NEW s \in Sensors, NEW b \in Buttons
      PROVE  /\ held[s][b] \in Int /\ -1 <= held[s][b]
             /\ pressTs[s][b] \in Int /\ -1 <= pressTs[s][b]
  BY <1>3, WatchAssumption DEF Time, Never
<1>7. QED
  BY <1>4, <1>5, <1>6

\* lastupdated is a time.
LEMMA SecondsAreTime ==
    ASSUME now \in Time
    PROVE  now \div Second \in Time
<1>1. MaxTime \in Nat /\ Second \in Nat \ {0} /\ now \in 0..MaxTime
  BY WatchAssumption DEF Time
<1>2. QED
  BY <1>1 DEF Time

LEMMA SilentIsLine == Silent \in Line /\ 1 \in Sensors
<1>1. 0 \in Time /\ 1 \in Sensors
  BY WatchAssumption DEF Time, Sensors
<1>2. QED
  BY <1>1 DEF Line, Silent

\* A fresh watch over switches nobody has touched.
LEMMA InitWInv == WatchInit => WInv
<1> SUFFICES ASSUME WatchInit
             PROVE  WInv
  OBVIOUS
<1>1. 0 \in Time /\ 1 \in Sensors
  BY WatchAssumption DEF Time, Sensors
<1>2. WatchTypeOK
  BY <1>1 DEF WatchInit, WatchTypeOK, Line, Silent
<1>3. Clocks /\ ShownIsHeld /\ ReadIsSeen /\ NotTooLate
  BY WatchAssumption
  DEF WatchInit, Clocks, ShownIsHeld, ReadIsSeen, NotTooLate, NoEvent, Never, NoButton
<1>4. NotTooEarly /\ LastSeenPress /\ Printed
  BY DEF WatchInit, NotTooEarly, LastSeenPress, Printed, ShortIsShort, LongIsHeld,
         MissedWasLost, Silent
<1>5. QED
  BY <1>2, <1>3, <1>4 DEF WInv

-----------------------------------------------------------------------------
(* Steps that are not polls *)

\* Nothing but the clock moves, and not past the next poll that is due.
LEMMA TickKeeps ==
    ASSUME WInv, Tick
    PROVE  WInv'
<1> USE DEF WInv
<1>1. now + 1 \in Time /\ now' = now + 1
  BY WatchAssumption DEF Tick, WatchTypeOK, Time
<1>2. WatchTypeOK'
  BY <1>1, SilentIsLine DEF Tick, WatchTypeOK, history
<1>3. Clocks'
  BY <1>1, Numbers DEF Tick, Clocks, history
<1>4. ShownIsHeld' /\ ReadIsSeen' /\ NotTooEarly' /\ LastSeenPress'
  BY DEF Tick, ShownIsHeld, ReadIsSeen, NotTooEarly, LastSeenPress, Unread, history
<1>5. NotTooLate'
  BY <1>1, Numbers DEF Tick, NotTooLate, history
<1>6. Printed'
  BY DEF Tick, Printed, ShortIsShort, LongIsHeld, MissedWasLost, Silent
<1>7. QED
  BY <1>2, <1>3, <1>4, <1>5, <1>6

LEMMA StopKeeps ==
    ASSUME WInv, Stop
    PROVE  WInv'
<1> USE DEF WInv
<1>1. WatchTypeOK'
  BY SilentIsLine DEF Stop, WatchTypeOK, history, bridgeVars
<1>2. Clocks' /\ ShownIsHeld' /\ ReadIsSeen' /\ NotTooLate'
  BY DEF Stop, Clocks, ShownIsHeld, ReadIsSeen, NotTooLate, history, bridgeVars
<1>3. NotTooEarly' /\ LastSeenPress'
  BY DEF Stop, NotTooEarly, LastSeenPress, Unread, history, bridgeVars
<1>4. Printed'
  BY DEF Stop, Printed, ShortIsShort, LongIsHeld, MissedWasLost, Silent
<1>5. QED
  BY <1>1, <1>2, <1>3, <1>4

\* A new watch knows no press, and counts every button as lost.
LEMMA StartKeeps ==
    ASSUME WInv, Start
    PROVE  WInv'
<1> USE DEF WInv
<1>1. WatchTypeOK'
  <2>1. seen' \in [Sensors -> {Seen(e) : e \in Event \cup {NoEvent}}]
    BY DEF Start, Fresh
  <2>2. pressTs' \in [Sensors -> [Buttons -> Time \cup {Never}]]
    BY DEF Start, Fresh
  <2>3. polled' \in [Sensors -> Time] /\ lost' \in [Sensors -> SUBSET Buttons]
    BY DEF Start, Fresh, WatchTypeOK
  <2>4. QED
    BY <2>1, <2>2, <2>3, SilentIsLine DEF Start, Fresh, WatchTypeOK, bridgeVars
<1>2. Clocks'
  BY Numbers DEF Start, Fresh, Clocks, bridgeVars, Never
<1>3. ShownIsHeld' /\ ReadIsSeen' /\ NotTooEarly' /\ LastSeenPress'
  BY DEF Start, Fresh, ShownIsHeld, ReadIsSeen, NotTooEarly, LastSeenPress, bridgeVars
<1>4. NotTooLate'
  BY Numbers DEF Start, Fresh, NotTooLate, Clocks, bridgeVars, Never
<1>5. Printed'
  BY DEF Start, Fresh, Printed, ShortIsShort, LongIsHeld, MissedWasLost, Silent
<1>6. QED
  BY <1>1, <1>2, <1>3, <1>4, <1>5

-----------------------------------------------------------------------------
(* Events *)

\* The event that is replaced is lost unless it was read.
LEMMA Replaced ==
    ASSUME WatchTypeOK, NEW s \in Sensors, NEW e, Show(s, e)
    PROVE  /\ lost' \in [Sensors -> SUBSET Buttons]
           /\ \A t \in Sensors, c \in Buttons : c \notin lost'[t] => c \notin lost[t]
           /\ \A c \in Buttons : c \notin lost'[s] => s \in fetched \/ shown[s].btn # c
<1>1. CASE s \in fetched
  BY <1>1 DEF Show, WatchTypeOK
<1>2. CASE s \notin fetched
  <2> DEFINE new == {shown[s].btn} \ {NoButton}
  <2>1. shown[s].btn \in Buttons \cup {NoButton}
    <3>1. shown[s] \in Event \cup {NoEvent}
      BY DEF WatchTypeOK
    <3>2. QED
      BY <3>1 DEF Event, NoEvent
  <2>2. lost' = [lost EXCEPT ![s] = @ \cup new] /\ lost \in [Sensors -> SUBSET Buttons]
    BY <1>2 DEF Show, WatchTypeOK
  <2>3. new \subseteq Buttons
    BY <2>1
  <2>4. \A c \in Buttons : shown[s].btn = c => c \in new
    BY WatchAssumption
  <2> HIDE DEF new
  <2>5. lost'[s] = lost[s] \cup new /\ \A t \in Sensors \ {s} : lost'[t] = lost[t]
    BY <2>2
  <2>6. lost' \in [Sensors -> SUBSET Buttons]
    BY <2>2, <2>3
  <2>7. QED
    BY <2>4, <2>5, <2>6
<1>3. QED
  BY <1>1, <1>2

\* A press: the old event may get lost, the new one is younger than any poll.
LEMMA PressKeeps ==
    ASSUME WInv, NEW s \in Sensors, NEW b \in Buttons, Press(s, b)
    PROVE  WInv'
<1> USE DEF WInv
<1> DEFINE e == [btn |-> b, phase |-> "press", lu |-> now \div Second, len |-> 0]
<1>1. /\ shown' = [shown EXCEPT ![s] = e]
      /\ held' = [held EXCEPT ![s][b] = now]
      /\ held[s][b] = Never
      /\ fetched' = fetched \ {s} /\ line' = Silent
      /\ UNCHANGED <<now, up, at, primed, seen, pressTs, polled>>
  <2> DEFINE e0 == [btn |-> b, phase |-> "press", lu |-> 0, len |-> 0]
  <2>1. [e0 EXCEPT !.lu = now \div Second] = e
    OBVIOUS
  <2>2. Show(s, e0) /\ held[s][b] = Never /\ held' = [held EXCEPT ![s][b] = now]
    BY DEF Press
  <2> HIDE DEF e0, e
  <2>3. QED
    BY <2>1, <2>2 DEF Show
<1>2. now \div Second \in Time /\ now \in Time /\ 0 \in Time
  BY SecondsAreTime, WatchAssumption DEF WatchTypeOK, Time
<1>3. e \in Event
  BY <1>2 DEF Event
<1>4. /\ lost' \in [Sensors -> SUBSET Buttons]
      /\ \A t \in Sensors, c \in Buttons : c \notin lost'[t] => c \notin lost[t]
      /\ \A c \in Buttons : c \notin lost'[s] => s \in fetched \/ shown[s].btn # c
  <2>1. Show(s, [btn |-> b, phase |-> "press", lu |-> 0, len |-> 0])
    BY DEF Press
  <2>2. QED
    BY <2>1, Replaced
<1>5. /\ shown'[s] = e /\ \A t \in Sensors \ {s} : shown'[t] = shown[t]
      /\ held'[s][b] = now /\ \A c \in Buttons \ {b} : held'[s][c] = held[s][c]
      /\ \A t \in Sensors \ {s} : held'[t] = held[t]
  BY <1>1 DEF WatchTypeOK
<1>6. /\ e.btn = b /\ e.phase = "press" /\ e.len = 0 /\ e # NoEvent
      /\ Never < now
  <2>1. e.btn = b /\ e.phase = "press" /\ e.len = 0
    OBVIOUS
  <2>2. NoEvent.phase = "other"
    BY DEF NoEvent
  <2>3. Never < now
    BY Numbers DEF Never
  <2>4. QED
    BY <2>1, <2>2, <2>3
<1> HIDE DEF e
<1>7. WatchTypeOK'
  BY <1>1, <1>2, <1>3, <1>4, SilentIsLine DEF WatchTypeOK
<1>8. Clocks'
  BY <1>1, <1>5, <1>6, Numbers DEF Clocks
<1>9. ShownIsHeld'
  BY <1>1, <1>5, <1>6, Numbers DEF ShownIsHeld
<1>10. ReadIsSeen'
  BY <1>1, <1>5, <1>6 DEF ReadIsSeen, Clocks
<1>11. NotTooLate'
  BY <1>1, <1>5, <1>6, Numbers DEF NotTooLate, Clocks
<1>12. NotTooEarly'
  BY <1>1, <1>4, <1>5, <1>6 DEF NotTooEarly, Unread
<1>13. LastSeenPress'
  BY <1>1, <1>4, <1>5, <1>6 DEF LastSeenPress, Unread
<1>14. Printed'
  BY <1>1 DEF Printed, ShortIsShort, LongIsHeld, MissedWasLost, Silent
<1>15. QED
  BY <1>7, <1>8, <1>9, <1>10, <1>11, <1>12, <1>13, <1>14

\* A release: how long the button was held is known now, and the press was
\* remembered in time unless an event got lost.
LEMMA ReleaseKeeps ==
    ASSUME WInv, NEW s \in Sensors, NEW b \in Buttons, Release(s, b)
    PROVE  WInv'
<1> USE DEF WInv
<1> DEFINE e == [btn |-> b, phase |-> "release", lu |-> now \div Second,
                 len |-> now - held[s][b]]
<1>1. /\ shown' = [shown EXCEPT ![s] = e]
      /\ held' = [held EXCEPT ![s][b] = Never]
      /\ held[s][b] # Never
      /\ fetched' = fetched \ {s} /\ line' = Silent
      /\ UNCHANGED <<now, up, at, primed, seen, pressTs, polled>>
  <2> DEFINE e0 == [btn |-> b, phase |-> "release", lu |-> 0, len |-> now - held[s][b]]
  <2>1. [e0 EXCEPT !.lu = now \div Second] = e
    OBVIOUS
  <2>2. Show(s, e0) /\ held[s][b] # Never /\ held' = [held EXCEPT ![s][b] = Never]
    BY DEF Release
  <2> HIDE DEF e0, e
  <2>3. QED
    BY <2>1, <2>2 DEF Show
<1>2. now \div Second \in Time /\ now - held[s][b] \in Time
  <2>1. held[s][b] \in Time /\ now \in Time
    BY <1>1 DEF WatchTypeOK
  <2>2. held[s][b] <= now
    BY DEF Clocks
  <2>3. now - held[s][b] \in Time
    BY <2>1, <2>2, WatchAssumption DEF Time
  <2>4. QED
    BY <2>1, <2>3, SecondsAreTime
<1>3. e \in Event
  BY <1>2 DEF Event
<1>4. /\ lost' \in [Sensors -> SUBSET Buttons]
      /\ \A t \in Sensors, c \in Buttons : c \notin lost'[t] => c \notin lost[t]
      /\ \A c \in Buttons : c \notin lost'[s] => s \in fetched \/ shown[s].btn # c
  <2>1. Show(s, [btn |-> b, phase |-> "release", lu |-> 0, len |-> now - held[s][b]])
    BY DEF Release
  <2>2. QED
    BY <2>1, Replaced
<1>5. /\ shown'[s] = e /\ \A t \in Sensors \ {s} : shown'[t] = shown[t]
      /\ held'[s][b] = Never /\ \A c \in Buttons \ {b} : held'[s][c] = held[s][c]
      /\ \A t \in Sensors \ {s} : held'[t] = held[t]
  BY <1>1 DEF WatchTypeOK
<1>6. e.btn = b /\ e.phase = "release" /\ e.len = now - held[s][b]
  OBVIOUS
<1>7. /\ held[s][b] \in Int /\ 0 <= held[s][b] /\ held[s][b] <= now
      /\ Never < now /\ Never < 0
  <2>1. -1 <= held[s][b] /\ held[s][b] # -1 /\ held[s][b] \in Int
    BY <1>1, Numbers DEF Never
  <2>2. QED
    BY <2>1, Numbers DEF Clocks, Never
<1> HIDE DEF e
<1>8. WatchTypeOK'
  BY <1>1, <1>3, <1>4, SilentIsLine DEF WatchTypeOK
<1>9. Clocks'
  <2>1. \A t \in Sensors : shown'[t].len <= now
    <3>1. e.len <= now /\ shown'[s] = e
      BY <1>5, <1>6, <1>7, Numbers
    <3>2. \A t \in Sensors \ {s} : shown'[t].len <= now
      BY <1>5 DEF Clocks
    <3>3. QED
      BY <3>1, <3>2
  <2>2. \A t \in Sensors, c \in Buttons : held'[t][c] <= now
    <3>1. held'[s][b] <= now
      BY <1>5, Numbers DEF Never
    <3>2. \A t \in Sensors, c \in Buttons :
             t # s \/ c # b => held'[t][c] = held[t][c]
      BY <1>5
    <3>3. QED
      BY <3>1, <3>2 DEF Clocks
  <2>3. QED
    BY <1>1, <2>1, <2>2 DEF Clocks
<1>10. ShownIsHeld' /\ ReadIsSeen'
  BY <1>1, <1>5, <1>6 DEF ShownIsHeld, ReadIsSeen
<1>11. NotTooLate'
  BY <1>1, <1>5, <1>6, <1>7, Numbers DEF NotTooLate
<1>12. NotTooEarly'
  <2>1. ASSUME b \notin lost'[s]
        PROVE  pressTs[s][b] # Never /\ pressTs[s][b] + e.len >= polled[s]
    <3>1. pressTs[s][b] >= held[s][b]
      BY <1>1, <1>4, <2>1 DEF NotTooEarly, Unread
    <3>2. QED
      BY <3>1, <1>6, <1>7, Numbers DEF Clocks, Never
  <2>2. QED
    BY <1>1, <1>4, <1>5, <1>6, <2>1 DEF NotTooEarly, Unread
<1>13. LastSeenPress'
  BY <1>1, <1>4, <1>5, <1>6 DEF LastSeenPress, Unread
<1>14. Printed'
  BY <1>1 DEF Printed, ShortIsShort, LongIsHeld, MissedWasLost, Silent
<1>15. QED
  BY <1>8, <1>9, <1>10, <1>11, <1>12, <1>13, <1>14

\* A code the watch does not know hides what was there before it.
LEMMA OtherEventKeeps ==
    ASSUME WInv, NEW s \in Sensors, OtherEvent(s)
    PROVE  WInv'
<1> USE DEF WInv
<1> DEFINE e == [btn |-> NoButton, phase |-> "other", lu |-> now \div Second, len |-> 0]
<1>1. /\ shown' = [shown EXCEPT ![s] = e]
      /\ fetched' = fetched \ {s} /\ line' = Silent
      /\ UNCHANGED <<now, held, up, at, primed, seen, pressTs, polled>>
  <2> DEFINE e0 == [NoEvent EXCEPT !.lu = 0]
  <2>1. [e0 EXCEPT !.lu = now \div Second] = e
    <3>1. e0 = [btn |-> NoButton, phase |-> "other", lu |-> 0, len |-> 0]
      BY DEF NoEvent
    <3> HIDE DEF e0
    <3>2. QED
      BY <3>1
  <2>2. Show(s, e0) /\ held' = held
    BY DEF OtherEvent
  <2> HIDE DEF e0, e
  <2>3. QED
    BY <2>1, <2>2 DEF Show
<1>2. now \div Second \in Time /\ 0 \in Time
  BY SecondsAreTime, WatchAssumption DEF WatchTypeOK, Time
<1>3. e \in Event
  BY <1>2 DEF Event
<1>4. /\ lost' \in [Sensors -> SUBSET Buttons]
      /\ \A t \in Sensors, c \in Buttons : c \notin lost'[t] => c \notin lost[t]
      /\ \A c \in Buttons : c \notin lost'[s] => s \in fetched \/ shown[s].btn # c
  <2>1. Show(s, [NoEvent EXCEPT !.lu = 0])
    BY DEF OtherEvent
  <2>2. QED
    BY <2>1, Replaced
<1>5. shown'[s] = e /\ \A t \in Sensors \ {s} : shown'[t] = shown[t]
  BY <1>1 DEF WatchTypeOK
<1>6. e.btn = NoButton /\ e.phase = "other" /\ e.len = 0
  OBVIOUS
<1> HIDE DEF e
<1>7. WatchTypeOK'
  BY <1>1, <1>3, <1>4, SilentIsLine DEF WatchTypeOK
<1>8. Clocks'
  BY <1>1, <1>5, <1>6, Numbers DEF Clocks
<1>9. ShownIsHeld' /\ ReadIsSeen' /\ NotTooLate'
  BY <1>1, <1>5, <1>6 DEF ShownIsHeld, ReadIsSeen, NotTooLate
<1>10. NotTooEarly' /\ LastSeenPress'
  BY <1>1, <1>4, <1>5, <1>6 DEF NotTooEarly, LastSeenPress, Unread
<1>11. Printed'
  BY <1>1 DEF Printed, ShortIsShort, LongIsHeld, MissedWasLost, Silent
<1>12. QED
  BY <1>7, <1>8, <1>9, <1>10, <1>11

-----------------------------------------------------------------------------
(* Turns of a sensor *)

\* Junk changes nothing but whose turn it is.
LEMMA JunkKeeps ==
    ASSUME WInv, NEW s \in Sensors, Junk(s)
    PROVE  WInv'
<1> USE DEF WInv
<1>1. /\ at' = After(s) /\ line' = Silent
      /\ UNCHANGED <<bridgeVars, up, primed, seen, pressTs, history>>
  BY DEF Junk, Asked, Skip, history
<1>2. After(s) \in Sensors
  BY WatchAssumption DEF After, Sensors
<1>3. WatchTypeOK'
  BY <1>1, <1>2, SilentIsLine DEF WatchTypeOK, history, bridgeVars
<1>4. Clocks' /\ ShownIsHeld' /\ ReadIsSeen' /\ NotTooLate'
  BY <1>1 DEF Clocks, ShownIsHeld, ReadIsSeen, NotTooLate, history, bridgeVars
<1>5. NotTooEarly' /\ LastSeenPress'
  BY <1>1 DEF NotTooEarly, LastSeenPress, Unread, history, bridgeVars
<1>6. Printed'
  BY <1>1 DEF Printed, ShortIsShort, LongIsHeld, MissedWasLost, Silent
<1>7. QED
  BY <1>3, <1>4, <1>5, <1>6

\* The frame of every poll: the sensor is read, and the watch keeps up with it.
Reads(s) ==
    /\ Asked(s, After(s))
    /\ polled' = [polled EXCEPT ![s] = now]
    /\ fetched' = fetched \cup {s}

LEMMA ReadFrame ==
    ASSUME WInv, NEW s \in Sensors, Reads(s)
    PROVE  /\ UNCHANGED <<now, held, shown, up>>
           /\ up /\ at' \in Sensors
           /\ polled' \in [Sensors -> Time] /\ fetched' \subseteq Sensors
           /\ \A t \in Sensors : polled'[t] <= now /\ now <= polled'[t] + MaxGap
           /\ \A t \in Sensors \ {s} : polled'[t] = polled[t]
           /\ \A b \in Buttons : \A k : ~Unread(s, b, k)'
           /\ \A t \in Sensors \ {s} :
                 /\ t \in fetched' <=> t \in fetched
                 /\ \A b \in Buttons : \A k : Unread(t, b, k)' <=> Unread(t, b, k)
<1> USE DEF WInv
<1>1. /\ UNCHANGED <<now, held, shown, up>> /\ up /\ at' = After(s)
      /\ polled' = [polled EXCEPT ![s] = now] /\ fetched' = fetched \cup {s}
  BY DEF Reads, Asked, bridgeVars
<1>2. After(s) \in Sensors
  BY WatchAssumption DEF After, Sensors
<1>3. polled' \in [Sensors -> Time] /\ fetched' \subseteq Sensors
  BY <1>1 DEF WatchTypeOK
<1>4. /\ polled'[s] = now
      /\ \A t \in Sensors \ {s} : polled'[t] = polled[t]
  BY <1>1 DEF WatchTypeOK
<1>5. \A t \in Sensors : polled'[t] <= now /\ now <= polled'[t] + MaxGap
  <2>1. now <= now /\ now <= now + MaxGap
    BY Numbers
  <2>2. \A t \in Sensors : polled[t] <= now /\ now <= polled[t] + MaxGap
    BY <1>1 DEF Clocks
  <2>3. QED
    BY <1>4, <2>1, <2>2
<1>6. QED
  BY <1>1, <1>2, <1>3, <1>4, <1>5 DEF Unread

\* Nothing new: what was seen last was no press of a button that is up again.
LEMMA SkipKeeps ==
    ASSUME WInv, NEW s \in Sensors, Reads(s), Skip,
           shown[s] = NoEvent \/ (s \in primed /\ Repeat(s, shown[s]))
    PROVE  WInv'
<1> USE DEF WInv
<1>1. line' = Silent /\ UNCHANGED <<now, held, shown, up, primed, seen, pressTs, lost>>
  BY ReadFrame DEF Skip
<1>2. shown[s] = NoEvent => \A b \in Buttons : shown[s].btn # b
  BY WatchAssumption DEF NoEvent
<1>3. Repeat(s, shown[s]) => seen[s][1] = shown[s].btn /\ seen[s][2] = shown[s].phase
  BY DEF Repeat, Seen
<1>4. WatchTypeOK'
  BY <1>1, ReadFrame, SilentIsLine DEF WatchTypeOK
<1>5. Clocks'
  BY <1>1, ReadFrame DEF Clocks
<1>6. ShownIsHeld' /\ NotTooLate'
  BY <1>1 DEF ShownIsHeld, NotTooLate
<1>7. ReadIsSeen'
  <2>1. \A t \in Sensors : t \in fetched' /\ shown[t] # NoEvent =>
           t \in primed /\ seen[t] = Seen(shown[t])
    BY ReadFrame DEF ReadIsSeen, Repeat
  <2>2. s \in fetched'
    BY DEF Reads
  <2>3. QED
    BY <1>1, <2>1, <2>2, ReadFrame DEF ReadIsSeen
<1>8. \A b \in Buttons : b \notin lost[s] => ~Unread(s, b, "press")
  BY <1>2, <1>3 DEF LastSeenPress, Unread
<1>9. NotTooEarly'
  <2>1. ASSUME NEW b \in Buttons, b \notin lost[s], held[s][b] # Never
        PROVE  s \in primed /\ pressTs[s][b] >= held[s][b]
    BY <2>1, <1>8 DEF NotTooEarly
  <2>2. QED
    BY <1>1, <2>1, ReadFrame DEF NotTooEarly
<1>10. LastSeenPress'
  <2>1. ASSUME NEW b \in Buttons, b \notin lost[s], seen[s][1] = b, seen[s][2] = "press"
        PROVE  held[s][b] # Never
    BY <2>1, <1>2, <1>3 DEF LastSeenPress, ShownIsHeld, Unread
  <2>2. QED
    BY <1>1, <2>1, ReadFrame DEF LastSeenPress
<1>11. Printed'
  BY <1>1 DEF Printed, ShortIsShort, LongIsHeld, MissedWasLost, Silent
<1>12. QED
  BY <1>4, <1>5, <1>6, <1>7, <1>9, <1>10, <1>11

-----------------------------------------------------------------------------
(* Polls that bring news *)

News(s) ==
    /\ Reads(s)
    /\ Notice(s, shown[s])
    /\ shown[s] # NoEvent
    /\ s \notin primed \/ ~Repeat(s, shown[s])

\* News is what the watch compares with from now on, and was not read before.
LEMMA NewsFrame ==
    ASSUME WInv, NEW s \in Sensors, News(s)
    PROVE  /\ seen' \in [Sensors -> {Seen(e) : e \in Event \cup {NoEvent}}]
           /\ seen'[s][1] = shown[s].btn /\ seen'[s][2] = shown[s].phase
           /\ \A t \in Sensors \ {s} : seen'[t] = seen[t]
           /\ primed' = primed \cup {s} /\ s \notin fetched
           /\ ShownIsHeld' /\ ReadIsSeen'
<1> USE DEF WInv
<1>1. seen' = [seen EXCEPT ![s] = Seen(shown[s])] /\ primed' = primed \cup {s}
  BY DEF News, Notice
<1>2. Reads(s)
  BY DEF News
<1>3. seen' \in [Sensors -> {Seen(e) : e \in Event \cup {NoEvent}}]
  <2>1. shown[s] \in Event \cup {NoEvent}
    BY DEF WatchTypeOK
  <2>2. Seen(shown[s]) \in {Seen(e) : e \in Event \cup {NoEvent}}
    BY <2>1
  <2>3. QED
    BY <1>1, <2>2 DEF WatchTypeOK
<1>4. seen'[s] = Seen(shown[s]) /\ \A t \in Sensors \ {s} : seen'[t] = seen[t]
  BY <1>1 DEF WatchTypeOK
<1>5. seen'[s][1] = shown[s].btn /\ seen'[s][2] = shown[s].phase
  BY <1>4 DEF Seen
<1>6. s \notin fetched
  BY DEF News, ReadIsSeen, Repeat
<1>7. UNCHANGED <<shown, held>>
  BY <1>2, ReadFrame
<1>8. ShownIsHeld'
  BY <1>7 DEF ShownIsHeld
<1>9. ReadIsSeen'
  <2>1. s \in fetched'
    BY <1>2 DEF Reads
  <2>2. \A t \in Sensors \ {s} :
           polled'[t] = polled[t] /\ (t \in fetched' <=> t \in fetched)
    BY <1>2, ReadFrame
  <2>3. QED
    BY <1>1, <1>4, <1>7, <2>1, <2>2 DEF ReadIsSeen
<1>10. QED
  BY <1>1, <1>3, <1>4, <1>5, <1>6, <1>8, <1>9

\* The first event of a sensor: all of its buttons still count as lost.
LEMMA PrimeKeeps ==
    ASSUME WInv, NEW s \in Sensors, News(s), s \notin primed
    PROVE  WInv'
<1> USE DEF WInv
<1>1. Reads(s) /\ line' = Silent /\ UNCHANGED <<pressTs, lost>>
  BY DEF News, Notice
<1>2. \A b \in Buttons : b \in lost[s]
  BY DEF NotTooEarly
<1>3. WatchTypeOK'
  BY <1>1, ReadFrame, NewsFrame, SilentIsLine DEF WatchTypeOK
<1>4. Clocks'
  BY <1>1, ReadFrame DEF Clocks
<1>5. NotTooLate'
  BY <1>1, ReadFrame DEF NotTooLate
<1>6. NotTooEarly'
  BY <1>1, <1>2, ReadFrame, NewsFrame DEF NotTooEarly
<1>7. LastSeenPress'
  BY <1>1, <1>2, ReadFrame, NewsFrame DEF LastSeenPress
<1>8. Printed'
  BY <1>1 DEF Printed, ShortIsShort, LongIsHeld, MissedWasLost, Silent
<1>9. QED
  BY <1>3, <1>4, <1>5, <1>6, <1>7, <1>8, NewsFrame

\* What is printed of an event is a line.
LEMMA SayIsLine ==
    ASSUME WInv, NEW s \in Sensors, shown[s] # NoEvent,
           NEW k \in {"nothing", "PRESS", "SHORT", "press missed", "LONG", "OTHER"},
           Say(k, s, shown[s])
    PROVE  /\ line' \in Line
           /\ line'.kind = k /\ line'.on = s
           /\ line'.btn = shown[s].btn /\ line'.len = shown[s].len
<1>1. shown[s] \in Event
  BY DEF WInv, WatchTypeOK
<1>2. shown[s].btn \in Buttons \cup {NoButton} /\ shown[s].len \in Time
  BY <1>1 DEF Event
<1>3. line' = [kind |-> k, on |-> s, btn |-> shown[s].btn, len |-> shown[s].len]
  BY DEF Say
<1>4. QED
  BY <1>2, <1>3 DEF Line

\* A code the watch does not know.
LEMMA UnknownKeeps ==
    ASSUME WInv, NEW s \in Sensors, News(s), s \in primed, Unknown(s, shown[s])
    PROVE  WInv'
<1> USE DEF WInv
<1>1. /\ Reads(s) /\ Say("OTHER", s, shown[s]) /\ shown[s] # NoEvent
      /\ shown[s].phase = "other" /\ UNCHANGED <<pressTs, lost>>
  BY DEF News, Unknown
<1>2. line' \in Line /\ line'.kind = "OTHER"
  BY <1>1, SayIsLine
<1>3. WatchTypeOK'
  BY <1>1, <1>2, ReadFrame, NewsFrame DEF WatchTypeOK
<1>4. Clocks'
  BY <1>1, ReadFrame DEF Clocks
<1>5. NotTooLate'
  BY <1>1, ReadFrame DEF NotTooLate
<1>6. NotTooEarly'
  <2>1. \A b \in Buttons : ~Unread(s, b, "press")
    BY <1>1 DEF Unread
  <2>2. QED
    BY <1>1, <2>1, ReadFrame, NewsFrame DEF NotTooEarly
<1>7. LastSeenPress'
  BY <1>1, ReadFrame, NewsFrame DEF LastSeenPress
<1>8. Printed'
  BY <1>2 DEF Printed, ShortIsShort, LongIsHeld, MissedWasLost
<1>9. QED
  BY <1>3, <1>4, <1>5, <1>6, <1>7, <1>8, NewsFrame

\* A press that was not read before came after the last poll, a gap ago at most.
LEMMA PressedKeeps ==
    ASSUME WInv, NEW s \in Sensors, News(s), s \in primed, Pressed(s, shown[s])
    PROVE  WInv'
<1> USE DEF WInv
<1> DEFINE b == shown[s].btn
<1>1. /\ Reads(s) /\ Say("PRESS", s, shown[s]) /\ shown[s] # NoEvent
      /\ shown[s].phase = "press"
      /\ pressTs' = [pressTs EXCEPT ![s][b] = now]
      /\ lost' = [lost EXCEPT ![s] = @ \ {b}]
  BY DEF News, Pressed
<1>2. line' \in Line /\ line'.kind = "PRESS"
  BY <1>1, SayIsLine
<1>3. b \in Buttons /\ held[s][b] # Never
  BY <1>1 DEF ShownIsHeld
<1>4. polled[s] <= held[s][b]
  BY <1>1, <1>3, NewsFrame DEF ReadIsSeen
<1> HIDE DEF b
<1>5. /\ pressTs' \in [Sensors -> [Buttons -> Time \cup {Never}]]
      /\ lost' \in [Sensors -> SUBSET Buttons]
  BY <1>1 DEF WatchTypeOK
<1>6. /\ pressTs'[s][b] = now
      /\ \A t \in Sensors, c \in Buttons :
            t # s \/ c # b =>
               /\ pressTs'[t][c] = pressTs[t][c]
               /\ c \notin lost'[t] => c \notin lost[t]
  BY <1>1, <1>3 DEF WatchTypeOK
<1>7. WatchTypeOK'
  BY <1>1, <1>2, <1>5, ReadFrame, NewsFrame DEF WatchTypeOK
<1>8. now <= held[s][b] + MaxGap /\ held[s][b] <= now /\ now <= now
  <2>1. now <= polled[s] + MaxGap
    BY <1>1, ReadFrame DEF Clocks
  <2>2. held[s][b] <= now
    BY <1>3 DEF Clocks
  <2>3. QED
    BY <1>3, <1>4, <2>1, <2>2, Numbers
<1>9. Clocks'
  <2>1. \A t \in Sensors, c \in Buttons : pressTs'[t][c] <= now
    BY <1>6, <1>8 DEF Clocks
  <2>2. QED
    BY <1>1, <2>1, ReadFrame DEF Clocks
<1>10. NotTooLate'
  <2>1. \A t \in Sensors, c \in Buttons :
           held[t][c] # Never => pressTs'[t][c] <= held[t][c] + MaxGap
    BY <1>6, <1>8 DEF NotTooLate
  <2>2. ASSUME NEW t \in Sensors, NEW c \in Buttons,
               shown[t].btn = c, shown[t].phase = "release"
        PROVE  pressTs'[t][c] + shown[t].len <= now + MaxGap
    BY <1>1, <1>6, <2>2 DEF NotTooLate
  <2>3. QED
    BY <1>1, <2>1, <2>2, ReadFrame DEF NotTooLate
<1>11. \A c \in Buttons \ {b} : \A k : ~Unread(s, c, k)
  BY DEF Unread, b
<1>12. NotTooEarly'
  <2>1. ASSUME NEW c \in Buttons, c \notin lost'[s], held[s][c] # Never
        PROVE  pressTs'[s][c] >= held[s][c]
    BY <1>6, <1>8, <1>11, <2>1, Numbers DEF NotTooEarly
  <2>2. QED
    BY <1>1, <1>6, <2>1, ReadFrame, NewsFrame DEF NotTooEarly
<1>13. LastSeenPress'
  <2>1. seen'[s][1] = b
    BY NewsFrame DEF b
  <2>2. QED
    BY <1>1, <1>3, <1>6, <2>1, ReadFrame, NewsFrame DEF LastSeenPress
<1>14. Printed'
  BY <1>2 DEF Printed, ShortIsShort, LongIsHeld, MissedWasLost
<1>15. QED
  BY <1>7, <1>9, <1>10, <1>12, <1>13, <1>14, NewsFrame

\* A release: what is printed follows from when the press was remembered.
LEMMA ReleasedKeeps ==
    ASSUME WInv, NEW s \in Sensors, News(s), s \in primed, Released(s, shown[s])
    PROVE  WInv'
<1> USE DEF WInv
<1> DEFINE b == shown[s].btn
           len == shown[s].len
<1>1. /\ Reads(s) /\ shown[s] # NoEvent
      /\ shown[s].phase = "release" /\ lost' = lost
      /\ pressTs' = [pressTs EXCEPT ![s][b] = Never]
  BY DEF News, Released
<1>2. b \in Buttons /\ held[s][b] = Never
  BY <1>1 DEF ShownIsHeld
<1>3. pressTs[s][b] + len <= now + MaxGap
  BY <1>1, <1>2 DEF NotTooLate
<1>4. b \notin lost[s] => pressTs[s][b] # Never /\ pressTs[s][b] + len >= polled[s]
  BY <1>1, <1>2, NewsFrame DEF NotTooEarly, Unread
<1>5. now <= polled[s] + MaxGap
  BY <1>1, ReadFrame DEF Clocks
<1>6. /\ now \in Int /\ MaxGap \in Int /\ Threshold \in Int /\ polled[s] \in Int
      /\ pressTs[s][b] \in Int /\ len \in Int /\ len <= now /\ 0 <= now /\ 0 < MaxGap
  BY <1>2, Numbers DEF Clocks
<1>7. line' \in Line /\ Printed'
  <2> DEFINE k == IF pressTs[s][b] = Never THEN "press missed"
                  ELSE IF now - pressTs[s][b] >= Threshold THEN "LONG" ELSE "SHORT"
  <2>1. Say(k, s, shown[s])
    BY DEF Released
  <2>2. /\ line' \in Line /\ line'.kind = k /\ line'.on = s
        /\ line'.btn = b /\ line'.len = len
    BY <1>1, <2>1, SayIsLine
  <2> HIDE DEF b, len
  <2>3. k = "SHORT" => len < Threshold + MaxGap
    BY <1>3, <1>6
  <2>4. k = "LONG" /\ b \notin lost[s] => len >= Threshold - MaxGap
    BY <1>4, <1>5, <1>6
  <2>5. k = "press missed" => b \in lost[s]
    BY <1>4
  <2> HIDE DEF k
  <2>6. QED
    BY <1>1, <2>2, <2>3, <2>4, <2>5 DEF Printed, ShortIsShort, LongIsHeld, MissedWasLost
<1> HIDE DEF b, len
<1>8. pressTs' \in [Sensors -> [Buttons -> Time \cup {Never}]]
  BY <1>1 DEF WatchTypeOK
<1>9. /\ pressTs'[s][b] = Never
       /\ \A t \in Sensors, c \in Buttons :
             t # s \/ c # b => pressTs'[t][c] = pressTs[t][c]
  BY <1>1, <1>2 DEF WatchTypeOK
<1>10. WatchTypeOK'
  BY <1>1, <1>7, <1>8, ReadFrame, NewsFrame DEF WatchTypeOK
<1>11. Clocks'
  <2>1. Never <= now
    BY <1>6 DEF Never
  <2>2. \A t \in Sensors, c \in Buttons : pressTs'[t][c] <= now
    BY <1>9, <2>1 DEF Clocks
  <2>3. QED
    BY <1>1, <2>2, ReadFrame DEF Clocks
<1>12. NotTooLate'
  <2>1. ASSUME NEW t \in Sensors, NEW c \in Buttons, held[t][c] # Never
        PROVE  pressTs'[t][c] <= held[t][c] + MaxGap
    BY <1>2, <1>9, <2>1 DEF NotTooLate
  <2>2. Never + len <= now + MaxGap
    BY <1>6 DEF Never
  <2>3. ASSUME NEW t \in Sensors, NEW c \in Buttons,
               shown[t].btn = c, shown[t].phase = "release"
        PROVE  pressTs'[t][c] + shown[t].len <= now + MaxGap
    BY <1>9, <2>2, <2>3 DEF NotTooLate, len
  <2>4. QED
    BY <1>1, <2>1, <2>3, ReadFrame DEF NotTooLate
<1>13. NotTooEarly'
  <2>1. ASSUME NEW c \in Buttons, c \notin lost[s], held[s][c] # Never
        PROVE  pressTs'[s][c] >= held[s][c]
    <3>1. c # b
      BY <1>2, <2>1
    <3>2. ~Unread(s, c, "press")
      BY <1>1 DEF Unread
    <3>3. QED
      BY <1>9, <2>1, <3>1, <3>2 DEF NotTooEarly
  <2>2. QED
    BY <1>1, <1>9, <2>1, ReadFrame, NewsFrame DEF NotTooEarly
<1>14. LastSeenPress'
  BY <1>1, ReadFrame, NewsFrame DEF LastSeenPress
<1>15. QED
  BY <1>7, <1>10, <1>11, <1>12, <1>13, <1>14, NewsFrame

-----------------------------------------------------------------------------
(* The theorems *)

LEMMA PollKeeps ==
    ASSUME WInv, NEW s \in Sensors, Poll(s)
    PROVE  WInv'
<1>1. Reads(s)
  BY DEF Poll, Reads
<1>2. CASE (shown[s] = NoEvent \/ (s \in primed /\ Repeat(s, shown[s]))) /\ Skip
  BY <1>1, <1>2, SkipKeeps
<1>3. CASE /\ shown[s] # NoEvent /\ Notice(s, shown[s])
           /\ s \notin primed \/ ~Repeat(s, shown[s])
  <2>1. News(s)
    BY <1>1, <1>3 DEF News
  <2>2. CASE s \notin primed
    BY <2>1, <2>2, PrimeKeeps
  <2>3. CASE s \in primed
    <3>1. Pressed(s, shown[s]) \/ Released(s, shown[s]) \/ Unknown(s, shown[s])
      BY <1>3, <2>3 DEF Notice
    <3>2. QED
      BY <2>1, <2>3, <3>1, PressedKeeps, ReleasedKeeps, UnknownKeeps
  <2>4. QED
    BY <2>2, <2>3
<1>4. QED
  BY <1>2, <1>3 DEF Poll

LEMMA StepKeeps == WInv /\ [WatchNext]_vars => WInv'
<1> SUFFICES ASSUME WInv, [WatchNext]_vars
             PROVE  WInv'
  OBVIOUS
<1>1. CASE Tick
  BY <1>1, TickKeeps
<1>2. CASE Stop
  BY <1>2, StopKeeps
<1>3. CASE Start
  BY <1>3, StartKeeps
<1>4. CASE WatchStep
  BY <1>4, PollKeeps, JunkKeeps DEF WatchStep
<1>5. ASSUME NEW s \in Sensors,
             OtherEvent(s) \/ \E b \in Buttons : Press(s, b) \/ Release(s, b)
      PROVE  WInv'
  BY <1>5, OtherEventKeeps, PressKeeps, ReleaseKeeps
<1>6. CASE UNCHANGED vars
  <2>1. UNCHANGED <<now, held, shown, up, at, primed, seen, pressTs, line>>
        /\ UNCHANGED <<polled, fetched, lost>>
    BY <1>6 DEF vars, bridgeVars, watchVars, history
  <2>2. (WatchTypeOK /\ Clocks /\ ShownIsHeld /\ ReadIsSeen)'
    BY <2>1 DEF WInv, WatchTypeOK, Clocks, ShownIsHeld, ReadIsSeen
  <2>3. (NotTooLate /\ NotTooEarly /\ LastSeenPress /\ Printed)'
    BY <2>1 DEF WInv, NotTooLate, NotTooEarly, LastSeenPress, Unread, Printed,
                ShortIsShort, LongIsHeld, MissedWasLost
  <2>4. QED
    BY <2>2, <2>3 DEF WInv
<1>7. QED
  BY <1>1, <1>2, <1>3, <1>4, <1>5, <1>6 DEF WatchNext

\* The inductive invariant of the watch.
THEOREM WInvHolds == WatchSpec => []WInv
<1>1. WatchInit /\ [][WatchNext]_vars => []WInv
  BY InitWInv, StepKeeps, PTL
<1>2. QED
  BY <1>1, PTL DEF WatchSpec

\* The variables have their types, whatever the buttons do and however often the
\* watch is restarted.
THEOREM WatchTypeCorrect == WatchSpec => []WatchTypeOK
<1>1. WInv => WatchTypeOK
  BY DEF WInv
<1>2. QED
  BY <1>1, WInvHolds, PTL

\* What the watch calls SHORT was held for less than the threshold and a gap.
THEOREM ShortHolds == WatchSpec => []ShortIsShort
<1>1. WInv => ShortIsShort
  BY DEF WInv, Printed
<1>2. QED
  BY <1>1, WInvHolds, PTL

\* What the watch calls LONG was held for the threshold less a gap, where no event
\* of the button was overwritten unread.
THEOREM LongHolds == WatchSpec => []LongIsHeld
<1>1. WInv => LongIsHeld
  BY DEF WInv, Printed
<1>2. QED
  BY <1>1, WInvHolds, PTL

\* "press missed" is never said of a press that the watch had read.
THEOREM MissedHolds == WatchSpec => []MissedWasLost
<1>1. WInv => MissedWasLost
  BY DEF WInv, Printed
<1>2. QED
  BY <1>1, WInvHolds, PTL

=============================================================================
