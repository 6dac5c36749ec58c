\* A frontend that calls anything at any time, also out of a signal handler,
\* and a daemon that sends trailers.
CONSTANTS
    Modes = {m1}
    Sizes = {2, 3}
    MaxChunk = 2
    DaemonErrors = {"ADF_NO_PAPER"}
    MaxPage = 2
    RxMax = 2
    TxMax = 1
    Trailers = TRUE
    Misread <- MCMisread
    MaxMisreads = 1
    MaxLengths = {1, 2}
    Disciplined = FALSE
    AsyncCancel = TRUE
SPECIFICATION Spec
INVARIANTS StreamInv InOrder
