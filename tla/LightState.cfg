\* Two runs at a time; somebody else changes the light once.
SPECIFICATION StateSpec
CONSTANTS
    Procs = {p1, p2}
    Aspects = {bri, xy}
    Values = {v1, v2}
    Names = {bath, hall}
    NoState = NoState
    Torn = Torn
    Nobody = Nobody
    MaxChanges = 1
INVARIANT RestoreExact
INVARIANT NeverHalfOff
INVARIANT SwitchRight
INVARIANT DeletedIsForgotten
SYMMETRY StateSymmetry
VIEW StateView
