\* A reboot between the install and the activation starts an unseeded bridge.
SPECIFICATION Spec
CONSTANTS
    Dests = {"p8099"}
    IptablesFails = FALSE
INVARIANT
    BridgeWaitsForOperator
