\* The migrator and the bridge over one file, the service check honoured.
SPECIFICATION MigrationSpec
CONSTANTS
    Carport = Carport
    CARPORT = CARPORT
    Garage = Garage
    None = None
    ZeroKwh = 0
    ResetEpsilon = 0
    PersistStep = 2
    Confirmations = 3
    Titles <- MCTitles
    DIs <- MCDIs
    Ranges <- MCRanges
    InitialFiles <- MCFiles
    IoFaults = {"write"}
    Names <- MCNames
    Lower <- MCLower
    LegacySetups <- MCSetups
    EvccLists <- MCLists
    Modes <- MCModes
    BridgeRange <- MCBridgeRange
    OperatorSlips = {}
INVARIANTS
    MigrationTypeOK
    MemoryMirrorsDisk
    RemovedHasSuccessor
    AutoIsUnambiguous
PROPERTY RegistrySpec
