SPECIFICATION Spec
CONSTANTS
    Nodes = {n1, n2}
    Ws = {w1, w2}
    NoWs = NoWs
    NoNode = NoNode
    MaxSessions = 1
    OfflineTicks = 0
    Timed = FALSE
    Overlap = FALSE
    LateRegister = FALSE
    Telemetry = FALSE
    Beats = FALSE
    MaxFaults = 0
PROPERTY
    StopHeeded
