SPECIFICATION SyncSpec
CONSTANTS
    Carport = Carport
    Garage = Garage
    Pump = Pump
    None = None
    ZeroKwh = 0
    ResetEpsilon = 0
    PersistStep = 2
    Confirmations = 3
    Titles = {Carport, Garage, Pump}
    DIs <- TwoDIs
    Ranges <- OneRange
    BridgeRange <- BothRange
    EvccConfigs <- ManyLists
    Faults = {"crash", "malformed", "hidden", "unreachable"}
    IoFaults = {"write"}
    InitialFiles <- EmptyFile
    FirstMeter = 0
    MaxDelivered = 0
    ForeignDIs = {40}
INVARIANTS
    SyncTypeOK
    IdentityKept
    IdentityOnDisk
    BusMatchesPoll
    OthersServed
PROPERTY PlanStands
