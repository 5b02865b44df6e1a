SPECIFICATION ServerSpec
CONSTANTS
    Games = {m1, m2}
    Reports = {1, 2}
    MaxConnections = 1
CHECK_DEADLOCK FALSE
INVARIANT DrainedIsPosted
