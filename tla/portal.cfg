SPECIFICATION FairSpec
CONSTANTS
    Value = {1}
    MaxCalls = 2
    MaxClicks = 3
    MaxOthers = 2
INVARIANTS IdsStable FormIsOfEdited
PROPERTIES LoadingEnds
