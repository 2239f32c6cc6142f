\* Three Tcl processes over one hue_remote_env, every cloud policy, a file that
\* may be read-only.  One tick is about a minute and a half, the skew of 90 s.
SPECIFICATION Spec
CONSTANTS
    Procs = {t1, t2, t3}
    Life = 4
    DefaultLife = 3
    TclSkew = 1
    MaxDelay = 1
    MaxIssued = 3
    MaxTime = 9
    Policies <- AllPolicies
SYMMETRY Symmetry
INVARIANT OneUpdater
INVARIANT ExpiryBelongsToToken
PROPERTY LoginLostOnlyByFault
PROPERTY AuthorisedIsHonoured
