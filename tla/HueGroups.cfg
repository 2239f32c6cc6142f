\* Two processes and two changes of the groups; one group is created late.
SPECIFICATION GroupsSpec
CONSTANTS
    Procs = {t1, t2}
    Groups = {1, 2, 3}
    Lights = {l1, l2}
    Names = {bath, hall}
    TypeOf <- ThreeTypes
    Newcomers = {2}
    NoName = NoName
    NoGroup = 0
    MaxEdits = 2
INVARIANT TablesMirrorBridge
INVARIANT PreferredIndexRight
PROPERTY EditKeepsMembers
SYMMETRY GroupsSymmetry
PROPERTY GroupsAreCached
