SPECIFICATION Spec
CONSTANTS
    UserName = {"u", "v"}
    GroupName = {"g", "h"}
    San = {"s", "t"}
    Path = {"p"}
    RuleText <- TypedTexts
    Number <- Numbers
    InitUsers <- InitialUsers
    InitGroups <- InitialGroups
    InitRules <- InitialRules
    MaxRows = 2
    MaxRules = 3
    MaxKeys = 8
    MaxOthers = 2
INVARIANTS DialogMatchesMode
PROPERTIES ActsOnShown SelectionOnRow
