SPECIFICATION FairSpec
CONSTANTS
    Commands = {c}
    NoCommand = nocommand
    CmdCap = 1
    FrameCap = 1
    MaxConns = 2
    MaxFrames = 1
    Headers = {"stack"}
PROPERTIES ShutdownEndsTasks
