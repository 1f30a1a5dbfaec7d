SPECIFICATION FeedSpec
CONSTANTS
    Nodes = {n1}
    Ws = {w1}
    NoWs = NoWs
    NoNode = NoNode
    RadiusModes = {FALSE}
    MaxSessions = 1
    OfflineTicks = 0
    MaxQueued = 3
    MaxDrops = 1
INVARIANT
    DashboardConverges
