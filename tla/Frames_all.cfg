SPECIFICATION Spec
CONSTANTS
    Requests <- MCRequests
    Noises   <- MCNoises
    MaxNoise   = 1
    MaxSession = 2
    Spoiled    = 1
CHECK_DEADLOCK FALSE
INVARIANT TypeOK
PROPERTIES InOrderOrNotAtAll Resynchronises
