SPECIFICATION FairSpec

CONSTANTS
    Drains = {"reconnect"}
    BatchSize = 2
    ServerLimit = 2
    ChannelCap = 1
    MaxProbes = 2
    MaxSessions = 1
    Faults = {"crash", "power"}

INVARIANTS
    StoredOnce

PROPERTIES
    EventuallyStored

\* The number of probes is bounded.
CHECK_DEADLOCK FALSE
