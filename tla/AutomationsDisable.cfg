SPECIFICATION Spec
CONSTANTS
    d1 = d1
    d2 = d2
    NumAutomations = 1
    Schedule <- OneInterval
    Backend <- Local
    Guarded = {}
    Broken = {}
    Dispatchers = {d1, d2}
    Workers = {d1}
    Limit = 1
    Horizon = 3
    MaxRequests = 1
    MaxCrashes = 0
PROPERTIES
    DisabledStaysDisabled
CHECK_DEADLOCK FALSE
