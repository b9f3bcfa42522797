SPECIFICATION Spec
CONSTANTS
    Requests   <- MCRequests
    NoiseRuns  <- LoneNoise
    MapLines   <- MCMapLines
    MaxSent    = 1
    MaxNoise   = 1
    MaxBeats   = 1
CHECK_DEADLOCK FALSE
PROPERTIES MessagesDispatched
