SPECIFICATION Spec
CONSTANTS
    w1 = w1
    w2 = w2
    w3 = w3
    r1 = r1
    r2 = r2
    plain = plain
    gated = gated
    Workers = {w1, w2}
    Runners = {r1, r2}
    IdOf <- MCIdOf
    NumJobs = 1
    Profiles = {plain, gated}
    Gated = {gated}
    Offers <- AllOffers
    MaxAttempts = 2
    MaxRegistrations = 0
    MaxCrashes = 0
    MaxEarlyLapses = 0
    NoRunner = NoRunner
PROPERTIES
    CancelPreventsLeasing
