CONSTANTS
    Task = {t1, t2}
    ImmediateTask = {t1}
    DroppedTask = {t2}
    Canceller = {}
    NoTask = NoTask
    MaxCompleted = 1
    MaxRestarts = 1
SPECIFICATION Spec
INVARIANTS ClaimedOnce DiskSettles
PROPERTY ImplementsTaskBoard
CHECK_DEADLOCK FALSE
