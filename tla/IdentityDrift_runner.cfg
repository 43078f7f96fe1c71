SPECIFICATION FairSpec
CONSTANTS
    m1 = m1
    m2 = m2
    p1 = p1
    p2 = p2
    Unscoped = Unscoped
    Media = {m1}
    Workers = {w1}
    NoWorker = NoWorker
    Projects = {p1, p2}
    ProjectOf <- OneProject
    Scope <- RunnerScope
    MaxRequeues = 1
    MaxCrashes = 0
PROPERTIES
    EventuallyDecided
CHECK_DEADLOCK FALSE
