SPECIFICATION FairSpec
CONSTANTS
    Callers = {a}
    Probes = {}
    Nobody = nobody
    MaxConns = 2
    ChannelCap = 1
    MinBackoff = 1
    MaxBackoff = 1
    InteropKey = FALSE
PROPERTIES ShutdownStopsRun DetachedWriterEnds
