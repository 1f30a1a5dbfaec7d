SPECIFICATION Spec
CONSTANTS
    Nodes = {n1}
    Node = n1
    Ips = {ip1, ip2}
    MaxSessions = 2
    Timed = TRUE
    CmdFails = TRUE
    Overlap = FALSE
INVARIANTS
    AliasesUp
    LogoffBeforeUnalias
    CleanAfterPlans
CHECK_DEADLOCK FALSE
