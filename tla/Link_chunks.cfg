SPECIFICATION Spec
CONSTANTS
    Requests   <- MCRequests
    NoiseRuns  <- NoNoise
    MapLines   <- MCMapLines
    MaxSent    = 3
    MaxNoise   = 0
    MaxBeats   = 2
CHECK_DEADLOCK FALSE
INVARIANTS TypeOK AnswersInOrder HeartbeatsFollow
PROPERTIES Delivers RequestsAnswered HeartbeatsComeBack
