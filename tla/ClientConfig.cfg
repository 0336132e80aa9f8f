SPECIFICATION FairSpec

CONSTANTS
    Tabs = {t1}
    Changed = {"ping", "sound", "notify"}
    Kinds = {"good", "zero", "empty"}
    MaxEdits = 2

INVARIANTS
    ChangesSurvive
    CopiesFollow

PROPERTIES
    ChangesArrive

\* People need not do anything.
CHECK_DEADLOCK FALSE
