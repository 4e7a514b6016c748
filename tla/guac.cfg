SPECIFICATION FairSpec
CONSTANTS
    Target = {1, 2}
    WireCap = 1
    MaxItems = 5
    MaxTyped = 2
INVARIANTS RelayFaithful
PROPERTIES BrowserLeavingReachesGuacd SessionReleased
