SPECIFICATION Spec
CONSTANTS
    Calls      <- MCCalls
    Starts     <- MCStarts
    MaxClicks  = 2
    MaxReports = 2
CHECK_DEADLOCK FALSE
INVARIANTS TypeOK RobotGoesWhereTold HeadingOfTravel
