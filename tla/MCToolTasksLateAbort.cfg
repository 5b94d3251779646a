CONSTANTS
    Task = {t1, t2}
    ImmediateTask = {t1}
    DroppedTask = {}
    Canceller = {}
    NoTask = NoTask
    MaxCompleted = 2
    MaxRestarts = 0
SPECIFICATION Spec
INVARIANT DiskConverges
CHECK_DEADLOCK FALSE
