CONSTANTS
    User = {u1, u2}
    Session = {s1, f1}
    Forked = {f1}
    Run = {r1, r2}
    Nil = Nil
    EventCapacity = 1
    MaxEvents = 2
    MaxRequests = 3
    Task = {k1}
    ImmediateTask = {k1}
    DroppedTask = {k1}
    Canceller = {x1, x2}
    NoTask = NoTask
    MaxCompleted = 1
    MaxRestarts = 1
SPECIFICATION PartsFairSpec
INVARIANTS ApplicationTypeOK NoGap WaiterIsPending CompletionIsAnnounced RunningHasOwner
PROPERTIES RequestsReturn CancelEndsRun OutcomeIsFinal AnsweredIsRecorded
CHECK_DEADLOCK FALSE
