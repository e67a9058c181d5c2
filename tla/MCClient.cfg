\* An upload that either side may reset, a request that may come too late for the
\* drain and whose backend may vanish.
SPECIFICATION FairSpec
CONSTANTS
    N = 2
    WithBody <- First
    MayReset <- First
    Endings <- Endings12
    MayDrain = TRUE
    MayBeLate <- Second
    MayBeQuiet = TRUE
INVARIANTS ConnectionSurvives WireWellFormed LeasesFollowStreams NothingAfterTheLast
PROPERTY EveryRequestAnswered
CHECK_DEADLOCK FALSE
