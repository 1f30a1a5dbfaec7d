SPECIFICATION Spec
CONSTANTS
    Ips = {ip1, ip2}
    MaxSessions = 2
    Overlap = FALSE
INVARIANTS
    OwnTimes
    AnsweredIsRecorded
    RolesAsAssigned
CHECK_DEADLOCK FALSE
