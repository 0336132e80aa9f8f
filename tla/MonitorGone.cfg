SPECIFICATION FairSpec

CONSTANTS
    Sessions = {s1, s2}
    PingInterval = 1
    Grace = 1
    RetryDelay = 1
    Cooldown = 4
    AdminSlack = 2
    MaxTime = 8
    MaxCommands = 2
    MaxFaults = 0
    Commands = {"disconnect"}
    Faults = {"lose", "hibernate"}
    Notifications = TRUE
    Timely = {"alarm", "close", "handlers"}

INVARIANTS
    LossNoticed
    PingChain
    AdminDisconnectShown
    LossRecorded

PROPERTIES
    GoneIsRecorded

\* The clock is bounded, and no client has to connect.
CHECK_DEADLOCK FALSE
