SPECIFICATION Spec

CONSTANTS
    Messages = {"m1"}
    Window = 2
    LossLimit = 40
    MaxPings = 3
    MaxAlerts = 2
    MaxTraces = 2
    Faults = {"d1", "crash", "hibernate"}

INVARIANTS
    MeasuredOnce
    RingIsRecent
    TagBudget

\* Everything is bounded.
CHECK_DEADLOCK FALSE
