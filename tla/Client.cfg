\* Jobs of up to three pages, with cancels, write errors, trailers and messages cut off.
CONSTANTS
    Modes = {m1}
    Sizes = {2, 3}
    MaxChunk = 2
    DaemonErrors = {"ADF_NO_PAPER"}
    MaxPage = 3
    RxMax = 2
    TxMax = 1
    Trailers = TRUE
    Misread <- MCMisread
    MaxMisreads = 2
    WriteFails = TRUE
SPECIFICATION FairSpec
INVARIANTS PagesSafe CancelStops
PROPERTIES ImplementsFrame ScanReturns
