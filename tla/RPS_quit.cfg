SPECIFICATION Spec
CONSTANTS
    Addrs = {a1, a2}
    MaxConn = 2
CHECK_DEADLOCK FALSE
INVARIANT QuitIsSafe
