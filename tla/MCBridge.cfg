\* Two streams of one client; it may reset s2 or hang up, the backend may abort s2.
CONSTANTS
    s1 = s1
    s2 = s2
    c1 = c1
    c2 = c2
    MaxWindow     = 20
    Streams      <- TwoStreams
    Clients      <- OneClient
    Owner        <- Shared
    Body         <- ShortSecond
    ConnWindow    = 3
    DefaultWindow = 1
    StreamWindow  = 2
    ClientConn    = 1
    ClientStream  = 1
    SendBudget    = 1
    MayReset      = {s2}
    MayAbort      = {s2}
    MayHangUp     = {c1}

SPECIFICATION FairSpec

INVARIANTS
    StreamCreditConserved
    HeldIsBuffered
    EndMeansWhole

PROPERTIES
    ConnCreditLoop
    ResponsesEnd

CHECK_DEADLOCK FALSE
