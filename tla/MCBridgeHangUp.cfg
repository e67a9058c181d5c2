\* Two clients share the upstream connection; c1 may disconnect at any moment.
CONSTANTS
    s1 = s1
    s2 = s2
    c1 = c1
    c2 = c2
    MaxWindow     = 20
    Streams      <- TwoStreams
    Clients      <- TwoClients
    Owner        <- Separate
    Body         <- ShortSecond
    ConnWindow    = 3
    DefaultWindow = 1
    StreamWindow  = 2
    ClientConn    = 1
    ClientStream  = 1
    SendBudget    = 1
    MayReset     <- None
    MayAbort     <- None
    MayHangUp     = {c1}

SPECIFICATION FairSpec

PROPERTY
    HangUpLeaksNothing

CHECK_DEADLOCK FALSE
