\* Two buttons, three rules (all of one, or a short press of both), two rockers, one
\* edit, one fault.
SPECIFICATION ManageSpec
CONSTANTS
    Buttons = {tl, br}
    RuleIds = {r1, r2, r3}
    RockerIds = {s1, s2}
    NoRocker = NoRocker
    NoButton = NoButton
    MaxEdits = 1
    MaxFaults = 1
INVARIANT NoDangling
INVARIANT OneOfEach
INVARIANT NoOrphans
INVARIANT ExactSet
SYMMETRY ManageSymmetry
