SPECIFICATION Spec
CONSTANTS
    Static <- MCStatic
    Cost <- MCCost
    MaxList = 5
    MaxFrame = 12
    PeerFrame = 12
    TableMax = 2
    MaxStreams = 1
    MaxBlock = 5
    MaxContinuations = 1
    Asks <- MCAsks
    Answers <- MCAnswers
    Trailers <- MCTrailers
    Corrupt <- MCCorrupt
    Params <- MCParams
    Stray <- MCStray
    LateTrailers = FALSE
    LastStream = 2
    MaxUp = 1
    MaxDown = 2
    MaxSettings = 1
    Pieces = {0, 2}
    Resizes = {1}
INVARIANTS
    TablesInStep
    RequestsArriveAsSent
    AnswersArriveAsSent
    SecretsNeverStored
    FailsForCauseOnly
    OctetsJudged
    MessagesJudged
    TripsJudged
CHECK_DEADLOCK FALSE
