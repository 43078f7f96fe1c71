SPECIFICATION FairSpec
CONSTANTS
    Workers = {web}
    NoWorker = NoWorker
    Tasks = {t1, t2}
    NoTask = NoTask
    NumJobs = 1
    Kinds = {"video"}
    Backends = {"kling"}
    Reclaimers = {}
    Budget = 2
    SubmitTime = 1
    PollTime = 1
    TransferTime = 1
    SyncTime = 0
    StaleAfter = 3
    MaxCrashes = 1
PROPERTIES
    JobsSettle
CHECK_DEADLOCK FALSE
