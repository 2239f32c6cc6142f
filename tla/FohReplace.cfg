\* One button whose model file is edited once.
SPECIFICATION ManageSpec
CONSTANTS
    Buttons = {tl}
    RuleIds = {r1, r2, r3}
    RockerIds = {s1, s2}
    NoRocker = NoRocker
    NoButton = NoButton
    MaxEdits = 1
    MaxFaults = 0
INVARIANT SetEnforced
