\* Removing the tunnel takes the x bit of rc.local: the bridge stays off.
SPECIFICATION FairSpec
CONSTANTS
    Dests = {"p8099"}
    IptablesFails = FALSE
PROPERTY
    BridgeAlwaysResumes
