SPECIFICATION Spec
CONSTANTS
    Nodes = {n1, n2}
    Ws = {w1, w2}
    NoWs = NoWs
    NoNode = NoNode
    RadiusModes = {TRUE}
    MaxSessions = 2
    OfflineTicks = 0
SYMMETRY ControllerSymmetry
INVARIANTS
    TypeOK
    OneLiveSession
    RegistryAgrees
PROPERTIES
    OutcomeIsFinal
    ImplementsTestSlot
    OnlyOwnHandlerEvicts
