SPECIFICATION Spec
CONSTANTS
    MaxPackets = 3
    MaxStrays = 1
    MaxReports = 2
INVARIANTS
    WindowsTile
    LossIsReported
CHECK_DEADLOCK FALSE
