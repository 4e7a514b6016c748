SPECIFICATION Spec
CONSTANTS
    OutReq = {1}
    InReq = {1}
    Cookie = {1}
    Pdu <- AllPdus
    OutCap = 1
    BodyCap = 1
    MaxPdus = 2
INVARIANT WholePduAwaited
