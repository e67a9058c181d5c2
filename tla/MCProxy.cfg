\* A GET and a POST, a backend in trouble twice and one that is not.
SPECIFICATION Spec
CONSTANTS
    get = get
    again = again
    post = post
    bad = bad
    good = good
    None = None
    Streams <- Both
    Retryable <- OneGet
    Backends <- TwoBackends
    Faulty <- Bad
    MayCancel <- OneGet
    EjectAfter = 1
    Tunings <- Ways
    Assumed = 2
    Limit = 1
    MaxTrouble = 2
    MaxConns = 4
INVARIANTS SlotsMatchStreams SoundNeverEjected RetryLandsElsewhere
PROPERTIES ImplementsRequestLife EveryRequestSettled
CHECK_DEADLOCK FALSE
