SPECIFICATION Spec

CONSTANTS
    Drains = {"reconnect"}
    BatchSize = 2
    ServerLimit = 2
    ChannelCap = 1
    MaxProbes = 2
    MaxSessions = 2
    Faults = {"crash", "reset"}

INVARIANTS
    TypeOK
    NothingLost

PROPERTIES
    ImplementsLog

\* The number of probes is bounded.
CHECK_DEADLOCK FALSE
