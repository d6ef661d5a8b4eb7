SPECIFICATION StorageSpec
CONSTANTS
    Clients = {c1, c2, c3, c4}
    Conns = {h1, h2, h3}
    NoConn = NoConn
    MinConns = 1
    MaxConns = 2
    MaxLate = 1
    Requests = {"a", "b", "c"}
    Version <- ThreeVersions
    Blob <- ThreeBlobs
    MaxDownloads = 2
    Modes = {"disable", "prefer", "require"}
    MaxStatements = 2
    MaxMessages = 6
    MaxTimeouts = 1
    Versions = {1, 2, 3}
    MaxCommands = 4
    MaxCuts = 2
    MaxBlocks = 3
    Sizes = {1, 2}
    MaxSteps = 8
SYMMETRY Symmetry
INVARIANTS
    SlotsAreBounded
    ConnsAreSafe
    HeapIsSound
    MigrationsAreTold
    VersionsStand
    ParametersBind
    StatementsAnswered
PROPERTIES
    UpAppliesAll
CHECK_DEADLOCK FALSE
