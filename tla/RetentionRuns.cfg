SPECIFICATION RetentionSpec

CONSTANTS
    Clients = {c1, c2}
    RunsPerDay = 2
    Keep = 1
    RawKeep <- RawKeepMC
    BatchSize = 1
    MaxTime = 3
    MaxRows = 3
    Faults = {"d1", "r2", "abort", "delete"}

INVARIANTS
    Swept
    ArchiveKept

\* The clock is bounded.
CHECK_DEADLOCK FALSE
