SPECIFICATION MCSpec
CONSTANTS
    HeaderLen = 2
    BodyLens = {0, 1, 3}
    RecvRetry = 2
    ShortSends = TRUE
    MaxMessages = 2
    Workers = {w1, w2}
    Procs = {p1, p2, p3}
    LockTries = 2
    MaxDeaths = 1
    EmptyFileSays = {"self", "dead", "other"}
    NoProc = NoProc
INVARIANTS
    TransferSafe ThreadsSafe FileHasOwner
PROPERTIES
    ImplementsStream WaitersReturn
CHECK_DEADLOCK FALSE
