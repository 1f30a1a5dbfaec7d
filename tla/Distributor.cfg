SPECIFICATION Spec
CONSTANTS
    Pool <- MCPool
    Roles <- MCRoles
    None = None
    Ranges <- MCRanges
    MaxUsers = 2
    MaxSessions = 2
INVARIANTS
    EndsMatch
    NoBusyPort
    CallsCrossNodes
    EvenLoad
    UsersFitNodes
    RolesAreEven
CHECK_DEADLOCK FALSE
