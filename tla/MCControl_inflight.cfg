SPECIFICATION Spec
CONSTANTS
    Callers = {a}
    Probes = {}
    Nobody = nobody
    MaxConns = 1
    ChannelCap = 1
    MinBackoff = 1
    MaxBackoff = 1
    InteropKey = FALSE
INVARIANTS InFlightResolvedOnDisconnect
