CONSTANTS
    Message = {m1, m2, m3}
    Task = {t1}
    NoQueue = NoQueue
    NoRun = NoRun
    DroppedRun = {m1}
    FailingRun = {m1}
    CancelledRun = {m2}
    DeniedRun = {m1}
    AsyncAgent = TRUE
    MaxExtra = 0
SPECIFICATION Spec
INVARIANTS QueueIsServed SteerInOnePlace InformedOnce RoundsExclude
CHECK_DEADLOCK FALSE
