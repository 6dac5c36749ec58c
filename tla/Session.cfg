\* A frontend that follows the SANE protocol, with sane_cancel out of a signal
\* handler while a call waits.
CONSTANTS
    Modes = {m1, m2}
    Sizes = {2, 3}
    MaxChunk = 2
    DaemonErrors = {"ADF_NO_PAPER"}
    MaxPage = 2
    RxMax = 2
    TxMax = 1
    Trailers = FALSE
    Misread <- MCMisread
    MaxMisreads = 1
    MaxLengths = {1, 2}
    Disciplined = TRUE
    AsyncCancel = TRUE
SPECIFICATION Spec
SYMMETRY ModeSymmetry
INVARIANTS FrameInv EofComplete ParamsOfFrame ReplyIsNotData
PROPERTIES NoDataAfterCancel ImplementsFrame
