SPECIFICATION Spec
CONSTANTS
    t1 = t1
    t2 = t2
    t3 = t3
    m1 = m1
    m2 = m2
    Tasks = {t1, t2, t3}
    Teammates = {m1, m2}
    Requests <- Chain
    MaxParallel = 2
    MaxChanges = 0
INVARIANTS
    NeverImpossible
CHECK_DEADLOCK FALSE
