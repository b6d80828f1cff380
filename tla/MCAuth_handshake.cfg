SPECIFICATION FairSpec
CONSTANTS
    Events = {"event"}
    MaxEvents = 2
INVARIANTS TypeOK  FailureHasCause
PROPERTIES HandshakeEnds
