SPECIFICATION Spec
CONSTANTS
    Workers = {proc, web}
    NoWorker = NoWorker
    Tasks = {t1}
    NoTask = NoTask
    NumJobs = 1
    Kinds = {"dialogue"}
    Backends = {"kling"}
    Reclaimers = {proc}
    Budget = 2
    SubmitTime = 1
    PollTime = 2
    TransferTime = 0
    SyncTime = 2
    StaleAfter = 3
    MaxCrashes = 0
INVARIANTS
    LiveRunOwnsRow
CHECK_DEADLOCK FALSE
