\* Tasks one after the other and side by side, forked and threaded.
CONSTANTS
    Tasks = {t1, t2, t3}
    MaxAlive = 2
    TaskStatuses = {"good", "jammed", "io_error"}
    NoTask = NoTask
SPECIFICATION TaskSpec
SYMMETRY TaskSymmetry
INVARIANT TasksSafe
CHECK_DEADLOCK FALSE
