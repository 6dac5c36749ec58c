SPECIFICATION MCSpec
CONSTANTS
    Addrs = {"a1", "a2"}
    KernelAddrs = {"a2"}
    Kinds = {"k1", "k2"}
    EpTypes = {"bulk_in", "bulk_out", "int_in"}
    Descriptors <- MCDescriptorsOf
    Backends = {b1, b2}
    MaxDevices = 2
    Pluggable <- MCPluggable
    SetTypes = {"int_in"}
    MaxHalted = 1
    Sizes = {1, 3}
    WantedSize = 3
    QueueDepths = {0, 2}
    MaxRequests = 3
    MaxFree = 3
    ScanMisses = 2
    DevNums = {0, 1, 2}
    DevPrefixes = {1, 2}
    ScsiIds = {"i1", "i2"}
    PaPorts = {"p1"}
    PaBuilds = {"lib", "direct", "none"}
    PaScanners <- MCPaScanners
    PpPorts = {"p1"}
    PpLowPorts = {}
    PpBuilds = {"lib", "iopl", "ioperm", "none"}
    PpHardware <- MCPpHardware
    PioPorts = {"p378", "p278"}
    PioUsers = {"u1", "u2"}
    PioBytes = {0, 1}
    PioLen = 2
    LastReg = 2
    ResetReg = 2
    ChipBytes = {0, 1}
    MaxTransfer = 2
    MaxRead = 2
    ResetRetries = 2
    MaxData = 3
INVARIANTS
    UsbSafe ScsiSafe PortsSafe LmSafe
PROPERTY DeviceSteps
SYMMETRY MCSymmetry
CHECK_DEADLOCK FALSE
