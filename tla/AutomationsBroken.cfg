SPECIFICATION LiveSpec
CONSTANTS
    d1 = d1
    d2 = d2
    NumAutomations = 2
    Schedule <- TwoIntervals
    Backend <- BothLocal
    Guarded = {}
    Broken = {1}
    Dispatchers = {d1, d2}
    Workers = {d1}
    Limit = 2
    Horizon = 3
    MaxRequests = 0
    MaxCrashes = 0
PROPERTIES
    DueIsDispatched
CHECK_DEADLOCK FALSE
