\* Hand edits and tool runs in any order.
SPECIFICATION Spec
CONSTANTS
    Hosts = {"evcc"}
    Ips = {"lan", "loopback"}
    Loopback = {"loopback"}
    Edits <- MCEdits
    None = None
INVARIANTS
    ValuesKept
    BootChangesNothing
    EnterChangesNothing
PROPERTY
    ToolsKeepTunnelValid
