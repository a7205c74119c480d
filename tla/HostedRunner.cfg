SPECIFICATION Spec
CONSTANTS
    w1 = w1
    w2 = w2
    w3 = w3
    r1 = r1
    r2 = r2
    plain = plain
    gated = gated
    Workers = {w1, w2, w3}
    Runners = {r1, r2}
    IdOf <- SharedIdOf
    NumJobs = 1
    Profiles = {plain}
    Gated = {}
    Offers <- PlainOrNone
    MaxAttempts = 2
    MaxRegistrations = 1
    MaxCrashes = 0
    MaxEarlyLapses = 1
    NoRunner = NoRunner
INVARIANTS
    ExclusiveUntilExpiry
    OutcomeIsLatestUntilExpiry
    RetryBudget
PROPERTIES
    ImplementsLedger
    OutcomeIsFinalUntilExpiry
