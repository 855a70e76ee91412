\* StateStore under arbitrary callers, writes may fail and reads too.
SPECIFICATION StoreSpec
CONSTANTS
    Carport = Carport
    Garage = Garage
    Pump = Pump
    None = None
    ZeroKwh = 0
    ResetEpsilon = 0
    PersistStep = 2
    Confirmations = 3
    Titles <- MCTitles
    DIs <- MCDIs
    Ranges <- MCRanges
    InitialFiles <- MCInitialFiles
    IoFaults = {"read", "write"}
    SeedMaps <- MCSeedMaps
    AdoptValues <- MCAdoptValues
    Counters <- MCCounters
INVARIANTS
    MapOfRecords
    MemoryValid
