CONSTANTS
    Message = {m1, m2}
    Task = {t1}
    NoQueue = NoQueue
    NoRun = NoRun
    DroppedRun = {}
    FailingRun = {m1}
    CancelledRun = {m2}
    DeniedRun = {m1}
    AsyncAgent = TRUE
    MaxExtra = 1
SPECIFICATION FairSpec
PROPERTIES SteerIsTaken CompletionReachesWaiter
CHECK_DEADLOCK FALSE
