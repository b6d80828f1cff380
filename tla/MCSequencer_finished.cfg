SPECIFICATION Spec
CONSTANTS
    Users = {u}
    Steps = 2
    Outcomes = {"ok"}
    MaxCalls = 2
INVARIANTS EndedIsFinished
