SPECIFICATION Spec
CONSTANTS
    j1 = j1
    j2 = j2
    l1 = l1
    e1 = e1
    e2 = e2
    e3 = e3
    p = p
    q = q
    A = A
    B = B
    w1 = w1
    w2 = w2
    t1 = t1
    t2 = t2
    k1 = k1
    s1 = s1
    s2 = s2
    d1 = d1
    d2 = d2
    m1 = m1
    m2 = m2
    m3 = m3
    null = null
    Turns = {t1, t2}
    Positional = {t1, t2}
    Signatures = {"query", "nothing"}
    UnknownTool = {"nothing"}
    Responses <- Asks
    MaxCalls = 2
    MaxSteps = 2
    RepeatLimit = 1
    Calls = {j1, j2}
    Jobs = {j1, j2}
    Lookups = {l1}
    Approvals = {"approval"}
    Scopes = {"scope"}
    MaxInstant = 1
    MaxGateCrashes = 1
    MaxGateFaults = 1
    Workers = 1
    MaxJobCrashes = 1
    MaxJobFaults = 1
    Subscriptions = {s1, s2}
    Principals = {k1}
    principalOf <- PrincipalOf
    MaxEvents = 5
    MaxRepeats = 1
    Paths = {p, q}
    Contents = {A, B}
    Arguments <- Mutations
    InitialDisk <- OneFile
    Applies = {w1, w2}
    MaxMishaps = 1
    Todos = {d1, d2}
    TodoCalls = {w1, w2}
    MaxTodoCalls = 4
    MaxPlanSteps = 2
    Keys = {1, 2, 4}
    NullKey = null
    Values = {"NULL", "<NULL>", "v"}
    Digests <- Hashes
    digestOf <- RowDigest
    Collations <- Orders
    prefixOf <- Prefixes
    Digits = {0, 1}
    Tables <- SomeTables
    MaxCopies = 1
    MaxPartition = 2
    MaxDepth = 2
    BucketDepth = 2
    MaxWrites = 1
    Prompts = {e1, e2, e3}
    MaxChunks = 2
    MaxCancels = 2
    Chunks = {1, 2}
    Versions = {"all", "tagged", "some"}
    chunksOf <- VersionChunks
    configOf <- VersionConfigs
    Foreign = "foreign"
    Processes = {w1, w2}
    MaxMeddling = 1
    MaxFailures = 1
    MemoryCalls = {m1, m2, m3}
    Facts = {"fact", "other"}
    Lessons = {"naming", "grain", "joins"}
    Files <- SectionFiles
    MaxPerKind = 2
    MaxMemoryClock = 1
INVARIANTS
    RequestsAreWhole
    RowsTellTheTruth
    SingleUseUnlessOverlap
    EntitledAsPaid
    MemoryAnswersHold
    TrainingAnswersHold
    NothingIsLost
    RolledBackIsUnchanged
    VerifiedByCaller
    DoneRestsOnDone
    StuckForCause
    DiffIsComplete
    SyncedIsIndexed
    CancelStopsPrompt
    CancelStopsOnePrompt
CHECK_DEADLOCK FALSE
