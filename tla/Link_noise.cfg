SPECIFICATION Spec
CONSTANTS
    Requests   <- MCRequests
    NoiseRuns  <- AnyNoise
    MapLines   <- MCMapLines
    MaxSent    = 1
    MaxNoise   = 2
    MaxBeats   = 1
CHECK_DEADLOCK FALSE
PROPERTIES SlotReturns
