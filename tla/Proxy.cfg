\* A client that may fall silent, an EVCC that does not.
SPECIFICATION FairSpec
CONSTANTS
    FirstLine = 2
    Written <- MCWritten
    Pauses = {"client"}
INVARIANTS
    RedirectStaysLocal
    PassesThrough
PROPERTIES
    Streams
    ResponseArrives
    NoHalfOpen
CHECK_DEADLOCK FALSE
