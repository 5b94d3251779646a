SPECIFICATION Spec
CONSTANTS
    Turn = {t1}
    Second = {}
    Client = {c1}
    Question = {}
    plan = plan
    stop = stop
    Node <- Nodes
    Initial = plan
    Terminal = stop
    Jump <- Jumps
    Ask = ask
    NoNode = NoNode
    NoInstance = NoInstance
    NoTurn = NoTurn
    Unset = Unset
    MaxRounds = 1
    MaxSteers = 0
    CancelledTurn = {}
    FailingTurn = {}
    AsyncAgent = FALSE
    Detaching = FALSE
    Order = {"pause"}
PROPERTIES PauseSticks
CHECK_DEADLOCK FALSE
