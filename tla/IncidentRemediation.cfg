SPECIFICATION LiveSpec
CONSTANTS
    c1 = c1
    c2 = c2
    a1 = a1
    a2 = a2
    i1 = i1
    i2 = i2
    Incidents = {i1, i2}
    Assets = {a1, a2}
    Affected = a1
    Callers = {c1, c2}
    Sound = {i1}
    MaxInterrupts = 1
INVARIANTS
    ExecutionIsApproved
    RemediatesOnceUnlessTorn
    RejectedIsUncertifiedUnlessTorn
    ResolvedIsRecertifiedUnlessTorn
    OnlyVerifiedIsCertified
PROPERTIES
    RemediationConcludes
CHECK_DEADLOCK FALSE
