SPECIFICATION FairSpec
CONSTANTS
    Frame <- ControlFrames
    CtrlCap = 1
    WireCap = 1
    ReadMax = 1
    MaxFrames = 7
    MaxBytes = 1
PROPERTIES ClientCloseEndsUplink BackendCloseEnds ControlAnswered
