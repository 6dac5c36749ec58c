\* Every call returns and every frame ends.
CONSTANTS
    Modes = {m1}
    Sizes = {2, 3}
    MaxChunk = 2
    DaemonErrors = {"ADF_NO_PAPER"}
    MaxPage = 2
    RxMax = 2
    TxMax = 1
    Trailers = FALSE
    Misread <- MCMisread
    MaxMisreads = 1
    MaxLengths = {1, 2}
    Disciplined = TRUE
    AsyncCancel = FALSE
SPECIFICATION FairSpec
PROPERTIES CallsReturn FramesEnd
