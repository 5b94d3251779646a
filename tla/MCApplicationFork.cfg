CONSTANTS
    User = {u1, u2}
    Session = {s1, f1}
    Forked = {f1}
    Run = {r1}
    Nil = Nil
    EventCapacity = 1
    MaxEvents = 1
    MaxRequests = 3
SPECIFICATION ApplicationEagerSpec
PROPERTY CancelReachesToken
CHECK_DEADLOCK FALSE
