SPECIFICATION LiveSpec
CONSTANTS
    w1 = w1
    w2 = w2
    w3 = w3
    r1 = r1
    r2 = r2
    plain = plain
    gated = gated
    Workers = {w1, w2}
    Runners = {r1, r2}
    IdOf <- MCIdOf
    NumJobs = 2
    Profiles = {plain, gated}
    Gated = {gated}
    Offers <- TwoOffers
    MaxAttempts = 1
    MaxRegistrations = 0
    MaxCrashes = 1
    MaxEarlyLapses = 0
    NoRunner = NoRunner
PROPERTIES
    EventuallySettled
