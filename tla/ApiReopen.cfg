\* The frontend opens a device that it has open.
CONSTANTS
    RealNames <- MCRealNames
    Names <- MCNames
    Empty = Empty
    SaneName <- MCSaneName
    MaxDevices = 2
    Addresses = {a1}
    Impls = {p1, p2}
    NULL = NULL
SPECIFICATION Spec
INVARIANT NoNullCall
\* The process may have crashed.
CHECK_DEADLOCK FALSE
