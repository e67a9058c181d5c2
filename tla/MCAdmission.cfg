\* Two streams; shares of one or two under a ceiling of 2; up to three connections,
\* so that the floor of a share can win; three of the events that move the total.
SPECIFICATION LoopFairSpec
CONSTANTS
    Streams <- TwoStreams
    Limits <- OneOrTwo
    First = 2
    Ceiling = 2
    Assumed = 2
    MaxWire = 3
    MinAdmit = 1
    MinTotal = 2
    MinStep = 1
    Fraction = 4
    Unbounded = 9
    MaxConns = 3
    MaxEvents = 3
INVARIANTS NeverRefused IInv
PROPERTIES ImplementsSync Recovers
