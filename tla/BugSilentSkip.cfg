\* The claim that a seed which would change an instance is rejected.
SPECIFICATION MigrationSpec
CONSTANTS
    Carport = Carport
    CARPORT = CARPORT
    Garage = Garage
    None = None
    ZeroKwh = 0
    ResetEpsilon = 0
    PersistStep = 2
    Confirmations = 3
    Titles <- MCTitles
    DIs <- MCDIs
    Ranges <- MCRanges
    InitialFiles <- MCFiles
    IoFaults = {"write"}
    Names <- MCNames
    Lower <- MCLower
    LegacySetups <- MCSetups
    EvccLists <- MCLists
    Modes <- AutoModes
    BridgeRange <- MCBridgeRange
    OperatorSlips = {}
INVARIANT UninstalledIsCarried
