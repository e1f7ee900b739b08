SPECIFICATION Spec
CONSTANTS
    None = None
    Tabs = {"a", "b"}
    Kinds = {"refresh", "day", "establish", "abstain", "advance-abstention", "counsel", "resolve"}
    Histories <- MCHistories
    MaxRequests = 2
    MaxFailures = 1
INVARIANTS
    EachOnce
    OnePageTakesTurns
PROPERTIES
    SavedIsWhole
    EveryRequestEnds
CHECK_DEADLOCK FALSE
