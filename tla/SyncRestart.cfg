SPECIFICATION SyncSpec
CONSTANTS
    Carport = Carport
    Garage = Garage
    Pump = Pump
    None = None
    ZeroKwh = 0
    ResetEpsilon = 0
    PersistStep = 2
    Confirmations = 3
    Titles = {Carport}
    DIs <- TwoDIs
    Ranges <- OneRange
    BridgeRange <- BothRange
    EvccConfigs <- OneList
    Faults = {"crash", "unreachable", "legacy"}
    IoFaults = {"write"}
    InitialFiles <- EnergyFiles
    FirstMeter = 2
    MaxDelivered = 6
    ForeignDIs = {}
INVARIANTS
    NoSpike
    CleanIsSaved
PROPERTIES
    SeriesNeverFalls
    PlanPublishes
