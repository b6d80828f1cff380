SPECIFICATION FairSpec
CONSTANTS
    Users = {u, v}
    Steps = 3
    Outcomes = {"ok", "error", "panic"}
    MaxCalls = 6
INVARIANTS TypeOK AtMostOneLateCommand NoLostWakeup
PROPERTIES ProgressUnlessPaused StopEndsTask
