SPECIFICATION FairSpec
CONSTANTS
    OutReq = {1, 2}
    InReq = {1, 2}
    Cookie = {1, 2}
    Pdu <- B1
    OutCap = 1
    BodyCap = 1
    MaxPdus = 1
INVARIANTS TypeOK ExclusivePairing CompleteStream
PROPERTY AbandonedOutEnds
