SPECIFICATION FairSpec
CONSTANTS
    Callers = {a, b}
    Probes = {}
    Nobody = nobody
    MaxConns = 1
    ChannelCap = 1
    MinBackoff = 1
    MaxBackoff = 1
    InteropKey = TRUE
PROPERTIES ShutdownReleasesCallers
