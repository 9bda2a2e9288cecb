SPECIFICATION FairSpec
CONSTANTS
    Second = 2
    Budget = 10
    MaxCopies = 8
    MaxParts = 2
    Window = 4
    SecretLengths <- MCSecretLengths
    NotHex = NotHex
INVARIANTS
    OverrunBounded
    TokenFresh
PROPERTIES
    ImplementsCall
    CallEnds
CHECK_DEADLOCK FALSE
