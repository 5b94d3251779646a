SPECIFICATION BoundedFairSpec
CONSTANTS
    Turn = {t1, t2}
    Second = {t2}
    Client = {c1, c2}
    Question = {q1}
    plan = plan
    stop = stop
    Node <- Nodes
    Initial = plan
    Terminal = stop
    Jump <- Jumps
    Ask = ask
    NoNode = NoNode
    NoInstance = NoInstance
    NoTurn = NoTurn
    Unset = Unset
    MaxRounds = 1
    MaxSteers = 1
    CancelledTurn = {t1, t2}
    FailingTurn = {t1}
    AsyncAgent = TRUE
    Detaching = TRUE
    Order = {"pause", "clear", "start"}
INVARIANTS RoundBudget QuietCommandHolds CopiesAreCoherent
PROPERTIES CancelPauses TurnEnds
CHECK_DEADLOCK FALSE
