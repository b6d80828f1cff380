SPECIFICATION Spec
CONSTANTS
    Callers = {p, a}
    Probes = {p}
    Nobody = nobody
    MaxConns = 2
    ChannelCap = 1
    MinBackoff = 1
    MaxBackoff = 2
    InteropKey = FALSE
INVARIANTS TypeOK NoCrosstalk AtMostOnceOnWire NoLostCall VerifyOmittedOnlyIfReportedOld
PROPERTIES NoFalseDisconnect ImplementsService
