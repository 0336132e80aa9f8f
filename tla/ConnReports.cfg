SPECIFICATION Spec

CONSTANTS
    MaxConnections = 3
    BatchSize = 3
    Grace = 2
    Window = 1
    MinDelay = 1
    MaxDelay = 2
    MaxTime = 4
    MaxKills = 1
    Faults = {"answer", "d1", "detect"}
    Timely = {"attempt"}

INVARIANTS
    OnlyOffline
    AckedReported
    ReportedOnce

\* The clock is bounded.
CHECK_DEADLOCK FALSE
