SPECIFICATION Spec
CONSTANTS
    Addrs = {a1, a2}
    MaxConn = 3
CHECK_DEADLOCK FALSE
INVARIANTS TypeOK NoUnexpected ListedAgents PoolMatchesThreads
PROPERTIES PanelOfItem ClosedIsCleanedUp WaitReturns
