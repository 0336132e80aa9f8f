SPECIFICATION Spec

CONSTANTS
    Sessions = {s1, s2}
    PingInterval = 2
    Grace = 1
    RetryDelay = 1
    Cooldown = 2
    AdminSlack = 2
    MaxTime = 2
    MaxCommands = 1
    MaxFaults = 1
    Commands = {"pause", "resume"}
    Faults = {"hibernate", "crash", "d1", "send"}
    Notifications = TRUE
    Timely = {"configRead"}

SYMMETRY Symmetry

INVARIANTS
    TypeOK
    AlertsSpaced
    RetriedOnce

PROPERTIES
    GraceTimerKept

\* The clock is bounded, and no client has to connect.
CHECK_DEADLOCK FALSE
