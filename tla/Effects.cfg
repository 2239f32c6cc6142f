\* Two lights, so that a frame can be cut; three signals, so that one comes after
\* the second; one effect of the three whose loops are alike.  The program ends.
SPECIFICATION StreamSpec
CONSTANTS
    Effects = {"rainbow", "bright", "randombright"}
    NumLights = 2
    Frames = 2
    MaxSignals = 3
    MaxFlips = 2
CHECK_DEADLOCK FALSE
INVARIANT OneSignalIsSafe
INVARIANT HardStopCutsFrame
INVARIANT StopEndsWithFrame
INVARIANT StopHasCause
INVARIANT StreamClosed
PROPERTY StopTakesEffect
PROPERTY SwitchStops
