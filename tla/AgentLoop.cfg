SPECIFICATION AgentSpec
CONSTANTS
    Nodes = {n1}
    MaxSessions = 3
    Timed = TRUE
INVARIANT
    NoWaitOnSetEvent
PROPERTY
    AnnouncedPlansEnd
CHECK_DEADLOCK FALSE
