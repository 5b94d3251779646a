CONSTANTS
    Process = {p1, p2}
    NoProcess = NoProcess
    Key = {k1, k2}
    Text = {x1, x2}
    Chat = {c1, c2}
    NoRecord = NoRecord
    NoAsk = NoAsk
    MaxUuids = 2
    MaxCalls = 3
    MaxDeaths = 1
SYMMETRY Symmetry
SPECIFICATION OutboxSpec
INVARIANT UncertainIsNotResent
