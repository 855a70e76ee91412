\* A bridge that supervise respawns behind the kill survives the uninstall.
SPECIFICATION Spec
CONSTANTS
    Dests = {"p8099"}
    IptablesFails = FALSE
INVARIANT
    UninstalledIsGone
