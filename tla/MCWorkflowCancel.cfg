SPECIFICATION Spec
CONSTANTS
    Turn = {t1, t2}
    Second = {}
    Client = {}
    Question = {}
    plan = plan
    stop = stop
    Node <- Nodes
    Initial = plan
    Terminal = stop
    Jump <- Jumps
    Ask = ask
    NoNode = NoNode
    NoInstance = NoInstance
    NoTurn = NoTurn
    Unset = Unset
    MaxRounds = 1
    MaxSteers = 0
    CancelledTurn = {t1}
    FailingTurn = {t1}
    AsyncAgent = FALSE
    Detaching = TRUE
    Order = {}
PROPERTIES CancelledIsPaused
CHECK_DEADLOCK FALSE
