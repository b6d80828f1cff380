SPECIFICATION Spec
CONSTANTS
    Commands = {c, d}
    NoCommand = nocommand
    CmdCap = 1
    FrameCap = 1
    MaxConns = 2
    MaxFrames = 2
    Headers = {"stack", "toolarge"}
INVARIANTS TypeOK CommandsInOrder FramesComplete
PROPERTIES TimeoutMeansNoFrame
