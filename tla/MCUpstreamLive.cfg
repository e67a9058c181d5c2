\* Two requests for one slot; one GOAWAY, one cancel, and the connection may fail.
SPECIFICATION FairSpec
CONSTANTS
    r1 = r1
    r2 = r2
    Requests <- Two
    BodyOf <- NoBodies
    MaxPending = 1
    FirstLimit = 1
    Limits <- Same
    MaxSettings = 1
    MaxGoAway = 1
    Faults <- None
    MayCancel <- First
    MayDie = TRUE
INVARIANTS EventsWellFormed BudgetObeyed NoIdleSlot
PROPERTY EveryRequestEnds
CHECK_DEADLOCK FALSE
