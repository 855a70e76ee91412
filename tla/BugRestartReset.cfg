SPECIFICATION SyncSpec
CONSTANTS
    Carport = Carport
    Garage = Garage
    Pump = Pump
    None = None
    ZeroKwh = 0
    ResetEpsilon = 0
    PersistStep = 2
    Confirmations = 3
    Titles = {Carport}
    DIs <- TwoDIs
    Ranges <- OneRange
    BridgeRange <- BothRange
    EvccConfigs <- OneList
    Faults = {"crash", "reset"}
    IoFaults = {}
    InitialFiles <- OnlySmallLegacyFile
    FirstMeter = 2
    MaxDelivered = 4
    ForeignDIs = {}
INVARIANT NoSpike
