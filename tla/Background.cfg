SPECIFICATION BackgroundSpec
CONSTANTS
    t1 = t1
    t2 = t2
    t3 = t3
    m1 = m1
    m2 = m2
    j1 = j1
    j2 = j2
    l1 = l1
    Tasks = {t1, t2, t3}
    Teammates = {m1, m2}
    Requests <- Shapes
    MaxParallel = 2
    MaxChanges = 1
    Jobs = {j1, j2}
    Lookups = {l1}
    Workers = 1
    MaxJobCrashes = 1
    MaxJobFaults = 1
INVARIANTS
    DependenciesPassed
    VerdictIsWhole
    ApprovedContractsAreMet
    StoppedNeverRuns
    RefusedForCause
PROPERTIES
    RunEnds
    JobsSettle
CHECK_DEADLOCK FALSE
