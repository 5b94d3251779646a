\* One batch may mix two local tools, a dynamic one and a missing one, and
\* three calls may be spread over up to three batches; a steer and a
\* cancellation come at any point.
CONSTANTS
    LocalTool = {l1, l2}
    DynamicTool = {d1}
    MissingTool = {u1}
    Steer = {s1}
    Opening = m0
    MaxCalls = 3
SPECIFICATION AgentRunFairSpec
INVARIANTS CompleteInput SavedIsComplete NoFalseInterruption LeavesTrace SaidIsSaved
PROPERTY CancelEnds
\* A run is over when it has ended.
CHECK_DEADLOCK FALSE
