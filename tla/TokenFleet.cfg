\* One Tcl process and one remote.sh, one after the other.
SPECIFICATION FleetSpec
CONSTANTS
    Procs = {t1}
    Shells = {s1}
    Life = 4
    DefaultLife = 3
    TclSkew = 1
    ShSkew = 2
    MaxDelay = 1
    MaxIssued = 3
    MaxTime = 6
    Policies <- NamedPolicies
INVARIANT FleetExpiryBelongsToToken
PROPERTY FleetLoginLostOnlyByFault
