\* The claim that keys the template does not know are kept.
SPECIFICATION Spec
CONSTANTS
    Hosts = {"evcc"}
    Ips = {"lan", "loopback"}
    Loopback = {"loopback"}
    Edits <- MCEdits
    None = None
INVARIANT UnknownKeysKept
