SPECIFICATION FairSpec

CONSTANTS
    Window = 1
    MaxRequests = 2
    Gap = 1
    Burst = 2
    MaxInput = 4
    Attempts = 2
    Older = 1
    MaxTests = 2
    InFlight = 2
    MaxPosts = 2
    Timers = {1, 2}

INVARIANTS
    PollBounded
    ReportFits
    LimiterBound
    CalculationsRight

PROPERTIES
    RunningEnds
    ViewFollows
    EndedAsksLogin

\* The calculations are asked for or not.
CHECK_DEADLOCK FALSE
