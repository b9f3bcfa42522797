SPECIFICATION Spec
CONSTANTS
    PointIds = {1, 2}
    Missions <- OrderMissions
    Heights <- MCHeights
    HeightTol = 20
    Inputs = {"setting", "drop", "reconnect"}
    MaxAT = 4
    HeartMod = 2
    MaxSession = 2
CHECK_DEADLOCK FALSE
INVARIANTS EveryLiftReported AimsChain ActionsServed
