\* What the client key cache really holds.
SPECIFICATION UsersSpec
CONSTANTS
    Procs = {p1}
    Accounts = {1, 2, 3}
    Stamps = {"mon", "tue", "wed"}
    Stampings <- TwoTwins
    Keyed = {3}
    Newcomers = {3}
    EnvKeys <- EnvNames
    UserKeys <- Overrides
INVARIANT StoreHoldsClientKeys
