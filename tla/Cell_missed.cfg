SPECIFICATION CellSpec
CONSTANTS
    PointIds = {1, 2}
    Missions <- StartMissions
    Heights <- MCHeights
    HeightTol = 20
    Inputs = {"setting"}
    MaxAT = 2
    HeartMod = 1
    MaxSession = 1
    MaxStatus = 1
CHECK_DEADLOCK FALSE
PROPERTY ActionsTriggered
