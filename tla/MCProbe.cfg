SPECIFICATION Spec
CONSTANTS
    Tunings <- MCTunings
    MaxClock = 12
    MaxSpoken = 3
INVARIANTS
    NeverKillsTheLive
    SilenceIsFound
CHECK_DEADLOCK FALSE
