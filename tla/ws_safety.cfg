SPECIFICATION Spec
CONSTANTS
    Frame <- AllFrames
    CtrlCap = 2
    WireCap = 1
    ReadMax = 2
    MaxFrames = 7
    MaxBytes = 2
INVARIANTS TypeOK HandshakeBeforeRelay UplinkFaithful DownlinkFaithful ControlFaithful
PROPERTIES NothingAfterClose ImplementsTunnel
