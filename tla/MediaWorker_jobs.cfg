SPECIFICATION FairSpec
CONSTANTS
    Workers = {proc, web}
    NoWorker = NoWorker
    Tasks = {t1, t2}
    NoTask = NoTask
    NumJobs = 1
    Kinds = {"image", "draft image", "draft video", "dialogue"}
    Backends = {"seedance", "kling"}
    Reclaimers = {proc}
    Budget = 2
    SubmitTime = 1
    PollTime = 2
    TransferTime = 1
    SyncTime = 1
    StaleAfter = 4
    MaxCrashes = 2
INVARIANTS
    CompletedFromItsTask
    LiveRunOwnsRow
    BilledOncePerLoss
    DraftsAreAccountedFor
PROPERTIES
    ImplementsLifecycle
    JobsSettle
