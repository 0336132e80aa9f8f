SPECIFICATION Spec

CONSTANTS
    Messages = {"m1"}
    Selections = {{"telegram"}}
    Escalation = {"email"}
    Configured = {"email", "telegram"}
    Disabled = {"packet_loss"}
    MaxAlerts = 2
    MaxMutes = 2
    Faults = {"d1", "send", "answer", "crash"}

INVARIANTS
    DeliveredOnce
    StatusTruthful
    MuteKept

\* Everything is bounded.
CHECK_DEADLOCK FALSE
