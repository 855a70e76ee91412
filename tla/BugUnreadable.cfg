SPECIFICATION SyncSpec
CONSTANTS
    Carport = Carport
    Garage = Garage
    Pump = Pump
    None = None
    ZeroKwh = 0
    ResetEpsilon = 0
    PersistStep = 2
    Confirmations = 3
    Titles = {Carport, Garage}
    DIs <- TwoDIs
    Ranges <- OneRange
    BridgeRange <- BothRange
    EvccConfigs <- LiveLists
    Faults = {"crash"}
    IoFaults = {"read"}
    InitialFiles <- EmptyFile
    FirstMeter = 0
    MaxDelivered = 0
    ForeignDIs = {}
INVARIANT IdentityKept
