\* Any frontend, and the liberties it takes: with the entry points, and with the
\* options of a device.
CONSTANTS
    RealNames <- MCRealNames
    Names <- MCNames
    Empty = Empty
    SaneName <- MCSaneName
    MaxDevices = 2
    Addresses = {a1, a2, a3}
    Impls = {p1, p2, p3}
    NULL = NULL
    Other = "other"
    Offers <- MCOffers
    Models <- MCModels
SPECIFICATION MCSpec
SYMMETRY ImplSymmetry
INVARIANTS ApiInv NoDangling CapsFollow AreaOnPaper RequestFits
PROPERTY Announced
\* The process may have crashed.
CHECK_DEADLOCK FALSE
