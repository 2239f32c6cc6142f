\* One process at a time, restarted at will, beside other programs that create
\* and delete accounts; stamps may coincide, and the user may set a key.
SPECIFICATION UsersSpec
CONSTANTS
    Procs = {p1}
    Accounts = {1, 2, 3}
    Stamps = {"mon", "tue", "wed"}
    Stampings <- TwoTwins
    Keyed = {3}
    Newcomers = {3}
    EnvKeys <- EnvNames
    UserKeys <- Overrides
INVARIANT MappingRight
INVARIANT DeletedStaysGone
PROPERTY ClientKeySurvives
INVARIANT RightKeyInUse
