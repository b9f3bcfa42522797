SPECIFICATION CellSpec
CONSTANTS
    PointIds = {1, 2}
    Missions <- EndMissions
    Heights <- MCHeights
    HeightTol = 20
    Inputs = {"setting", "drop"}
    MaxAT = 3
    HeartMod = 1
    MaxSession = 1
    MaxStatus = 1
CHECK_DEADLOCK FALSE
INVARIANT CellTypeOK
PROPERTIES LiftAtPoint ActionsTriggered HandlerReturns CompletionsSent CompletionNamesAction
