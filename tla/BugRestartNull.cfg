SPECIFICATION FairSyncSpec
CONSTANTS
    Carport = Carport
    Garage = Garage
    Pump = Pump
    None = None
    ZeroKwh = 0
    ResetEpsilon = 0
    PersistStep = 2
    Confirmations = 3
    Titles = {Carport}
    DIs <- TwoDIs
    Ranges <- OneRange
    BridgeRange <- BothRange
    EvccConfigs <- OneList
    Faults = {"crash", "null"}
    IoFaults = {}
    InitialFiles <- EmptyFile
    FirstMeter = 2
    MaxDelivered = 2
    ForeignDIs = {}
PROPERTY SeriesNeverFalls
