SPECIFICATION Spec
CONSTANTS
    Nodes = {n1}
    Ws = {w1, w2}
    NoWs = NoWs
    NoNode = NoNode
    MaxSessions = 2
    OfflineTicks = 0
    Timed = FALSE
    Overlap = FALSE
    LateRegister = FALSE
    Telemetry = TRUE
    Beats = TRUE
    MaxFaults = 1
INVARIANTS
    ExecutorKnown
    NoGhosts
PROPERTY
    NodesReappear
