SPECIFICATION FairSpec

CONSTANTS
    Machines = {m1, m2}
    Tokens = {t1, t2}
    MaxAuthFailures = 2
    MaxClients = 2
    MaxOps = 3
    MaxFaults = 2
    Launchd = {m1}

PROPERTIES
    DeletedForgotten

INVARIANTS
    ErasedForCause
    TokenOnce
    NoSilentZombie
    IdentityKept

\* People need not do anything.
CHECK_DEADLOCK FALSE
