\* An empty SCANDATA after the last one of a page.
CONSTANTS
    Modes = {m1}
    Sizes = {2}
    MaxChunk = 2
    DaemonErrors = {"ADF_NO_PAPER"}
    MaxPage = 2
    RxMax = 2
    TxMax = 1
    Trailers = TRUE
    Misread <- MCMisread
    MaxMisreads = 1
    MaxLengths = {2}
    Disciplined = TRUE
    AsyncCancel = FALSE
SPECIFICATION Spec
INVARIANT ReplyIsNotData
