SPECIFICATION FairSpec
CONSTANTS
    m1 = m1
    m2 = m2
    p1 = p1
    p2 = p2
    Unscoped = Unscoped
    Media = {m1, m2}
    Workers = {w1, w2}
    NoWorker = NoWorker
    Projects = {p1, p2}
    ProjectOf <- OneProject
    Scope <- Scoped
    MaxRequeues = 2
    MaxCrashes = 1
INVARIANTS
    OneEvaluatorPerClaim
    RunningIsHeld
PROPERTIES
    DecidedStaysDecided
    EventuallyDecided
CHECK_DEADLOCK FALSE
