\* Any buffer of up to nine symbols, tokens from two on.
SPECIFICATION DumpSpec
CONSTANTS
    Docs <- AllDocs
    Texts <- AllTexts
    MaxBuf = 9
    FirstCount = 2
    Places = 2
INVARIANT JsonTypeOK
INVARIANT TokensNest
INVARIANT NothingLost
INVARIANT PrintsDocument
INVARIANT WholeOrNothing
PROPERTY ParsesTheWhole
PROPERTY DumpEnds
CHECK_DEADLOCK FALSE
