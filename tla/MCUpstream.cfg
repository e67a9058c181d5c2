\* Two requests, one slot or none, one place in the queue; a GOAWAY, a fault.
SPECIFICATION Spec
CONSTANTS
    r1 = r1
    r2 = r2
    Requests <- Two
    BodyOf <- OneUpload
    MaxPending = 1
    FirstLimit = 1
    Limits <- Lowered
    MaxSettings = 1
    MaxGoAway = 1
    Faults <- BothFaults
    MayCancel <- None
    MayDie = FALSE
INVARIANTS RefusedNeverRan BodyArrivesWhole
CHECK_DEADLOCK FALSE
