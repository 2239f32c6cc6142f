\* The same, for what the docstring says of the second Ctrl-C.  The program ends.
SPECIFICATION StreamSpec
CONSTANTS
    Effects = {"rainbow", "bright", "randombright"}
    NumLights = 2
    Frames = 2
    MaxSignals = 2
    MaxFlips = 2
CHECK_DEADLOCK FALSE
PROPERTY SecondSignalExits
