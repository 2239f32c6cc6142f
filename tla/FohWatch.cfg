\* One sensor with two buttons.  A tick is some 400 ms: a press is long from two
\* ticks on, and lastupdated changes every two ticks.
SPECIFICATION WatchSpec
CONSTANTS
    Last = 1
    Buttons = {topleft, topright}
    Threshold = 2
    Second = 2
    MaxGap = 1
    MaxTime = 6
INVARIANT ShortIsShort
INVARIANT LongIsHeld
INVARIANT MissedWasLost
