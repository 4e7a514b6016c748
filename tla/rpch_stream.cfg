SPECIFICATION FairSpec
CONSTANTS
    OutReq = {1}
    InReq = {1}
    Cookie = {1}
    Pdu <- AllPdus
    OutCap = 1
    BodyCap = 2
    MaxPdus = 5
INVARIANTS StreamFaithful TunnelBeforeChannel
PROPERTIES ImplementsOutStreams BodyEndEndsIn
