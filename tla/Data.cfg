SPECIFICATION MCSpec
CONSTANTS
    Elems = {e1, e2}
    Links = {c1, c2, c3, c4}
    InitSize = 2
    GrowSize = 1
    MaxElems = 4
    Handles = {h1, h2, h3}
    Blocks = {b1, b2}
    MaxRefs = 3
    Objs = {o1, o2, o3}
    PropNames = {n1, n2}
    PropTypes = {"STRING", "INTEGER"}
    PropValues <- MCPropValues
    MaxLen = 1
    Dirs = {"d1", "d3"}
    Names = {"n2", "n3"}
    Exts = {"e"}
    Size <- MCSize
    PathMax = 8
    MaxWrites = 2
    Base = 4
    BufSize = 3
    MaxMem = 6
    WordValues <- MCWordValues
    StringValues <- MCStringValues
    ProcNumbers <- MCProcNumbers
    Version = 3
    MaxCalls = 2
    WordBits = 8
    AsciiItems <- MCAsciiItems
    MaxItems = 3
    Images <- MCImages
    Diams = {1, 2}
    Dpis = {4, 6}
    ConstraintBits = 4
    Descriptors <- MCDescriptors
    WordInputs <- MCWordInputs
    Letters <- MCLetters
    MaxLetters = 3
    ConfigLines <- MCConfigLines
    MaxConfigLines = 2
    MaxConfigCalls = 2
    OptionTypes <- MCOptionTypes
    OptionSizes <- MCOptionSizes
    OptionChecks <- MCOptionChecks
    LegalValues <- MCLegalValues
    ConfigDefaults <- MCConfigDefaults
    EnvPaths <- MCEnvPaths
    DefaultDirs <- MCDefaultDirs
    ScsiDevices <- MCScsiDevices
    ScsiWords <- MCScsiWords
INVARIANTS
    ContainersSafe ValuesSafe OutputSafe WireSafe AsciiSafe MagicSafe EdgesOfMedium ConfigSafe
PROPERTY ConstrainSafe
CHECK_DEADLOCK FALSE
