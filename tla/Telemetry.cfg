SPECIFICATION Spec
CONSTANTS
    Streams = {s1, s2}
    Window = 1
    Cap = 4
    MaxSnapshots = 5
    MaxTime = 2
INVARIANTS
    OneActiveAlert
    AlertsAreJustified
    LongDipsAlert
    ActiveUntilRecovery
    NewestKept
CHECK_DEADLOCK FALSE
