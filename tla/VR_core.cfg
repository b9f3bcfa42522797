SPECIFICATION Spec
CONSTANTS
    PointIds = {1, 2}
    Missions <- ShuttleMissions
    Heights <- MCHeights
    HeightTol = 20
    Inputs = {"stop", "setting", "reconnect", "drop"}
    MaxAT = 3
    HeartMod = 1
    MaxSession = 2
CHECK_DEADLOCK FALSE
INVARIANTS TypeOK StatusNamesMission WaitInBounds CompletionsConserved
PROPERTIES LiftOnlyOwed KeepsPromise
