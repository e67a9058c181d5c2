\* A client gives up while its request is the trial of a recovering backend.
SPECIFICATION Spec
CONSTANTS
    get = get
    again = again
    post = post
    bad = bad
    good = good
    None = None
    Streams <- Gets
    Retryable <- OneGet
    Backends <- TwoBackends
    Faulty <- Bad
    MayCancel <- Gets
    EjectAfter = 1
    Tunings <- OneWay
    Assumed = 2
    Limit = 1
    MaxTrouble = 1
    MaxConns = 2
INVARIANTS TrialHasRequest
CHECK_DEADLOCK FALSE
