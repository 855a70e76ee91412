\* Both services through installs, activations, removals, reboots and kills.
SPECIFICATION FairSpec
CONSTANTS
    Dests = {"p8099"}
    IptablesFails = TRUE
INVARIANTS
    DeploymentTypeOK
    NoRuleTwice
    RulesAccountedFor
    TunnelWaitsForOperator
PROPERTIES
    NeverRevived
    BridgeResumes
