SPECIFICATION LiveSpec
CONSTANTS
    d1 = d1
    d2 = d2
    NumAutomations = 3
    Schedule <- IntervalLastOnce
    Backend <- HostedOnce
    Guarded = {1}
    Broken = {2}
    Dispatchers = {d1}
    Workers = {d1}
    Limit = 1
    Horizon = 3
    MaxRequests = 1
    MaxCrashes = 1
PROPERTIES
    DueIsDispatched
CHECK_DEADLOCK FALSE
