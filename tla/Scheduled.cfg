SPECIFICATION ScheduledSpec
CONSTANTS
    d1 = d1
    d2 = d2
    r1 = r1
    r2 = r2
    r3 = r3
    NumAutomations = 2
    Schedule <- IntervalAndOnce
    Backend <- BothLocal
    Guarded = {1}
    Broken = {}
    Dispatchers = {d1, d2}
    Workers = {}
    Limit = 2
    Horizon = 4
    MaxRequests = 1
    MaxCrashes = 1
    Entities = 2
    Records = {r1, r2, r3}
    entityOf <- EntityOf
    newer <- LaterVersions
    takes <- NamesTaken
    rendered <- RenderedInstants
    Doubtful = {r1}
    Retries = 1
    MaxClock = 3
    MaxRuns = 2
    MaxInterruptions = 1
SYMMETRY DispatcherSymmetry
INVARIANTS
    OneShotOnce
    PassedOverForCause
    RunsEndForCause
PROPERTIES
    IntervalSpacing
    WithdrawnIsQuiet
CHECK_DEADLOCK FALSE
