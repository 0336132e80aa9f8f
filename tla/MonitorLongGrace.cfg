SPECIFICATION Spec

CONSTANTS
    Sessions = {s1, s2}
    PingInterval = 1
    Grace = 2
    RetryDelay = 1
    Cooldown = 3
    AdminSlack = 2
    MaxTime = 5
    MaxCommands = 0
    MaxFaults = 0
    Commands = {}
    Faults = {}
    Notifications = TRUE
    Timely = {"alarm", "close", "handlers"}

SYMMETRY Symmetry

INVARIANTS
    LossRecorded

\* The clock is bounded, and no client has to connect.
CHECK_DEADLOCK FALSE
