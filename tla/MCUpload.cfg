\* A connection window both uploads share; sizes that turn a spent window negative.
CONSTANTS
    a = a
    b = b
    MaxWindow = 9
    Initial = 2
    Granted = 1
    Streams = {a, b}
    Body <- MCBody
    StreamInitial = 2
    BackendConn = 2
    BackendSizes = {1, 2}
    FirstSize = 2
    MaxChanges = 1
    SendBudget = 2
    MayReset = {b}
    MayAbort = {b}
    MayAnswer = {}

SPECIFICATION UFairSpec

INVARIANTS
    IInv
    HeldIsAwaited
    StreamCreditConserved
    SendCreditConserved

PROPERTY
    UploadsEnd

CHECK_DEADLOCK FALSE
