SPECIFICATION FairSpec
CONSTANTS
    Workers = {w1}
    NoWorker = NoWorker
    Tasks = {}
    NoTask = NoTask
    Handlers = {h1, h2}
    Keys = {k1, k2}
    Projects = {p1}
    MaxJobs = 2
    Budgets = {2}
INVARIANTS
    AttemptsWithinBudget
    RowsAgree
    OneJobPerKey
    OneResultPerJob
PROPERTIES
    RunsSpendAttempts
    ClaimableIsServed
CHECK_DEADLOCK FALSE
