\* EVCC has nothing to say for more than 10 s: an idle event stream.
SPECIFICATION Spec
CONSTANTS
    FirstLine = 2
    Written <- MCWritten
    Pauses = {"client", "evcc"}
INVARIANT
    PassesThrough
CHECK_DEADLOCK FALSE
