CONSTANTS
    Awaitables = {e, a, p, q}
    Entry = e
    Pausables = {p, q}
    Task = task
    Null = null
    Reused = FALSE
    PauseNested = FALSE
    PauseOnPaused = FALSE
    FirstThrows = FALSE
    Tasks = {t1, t2, t3}
    Threads = {h1, h2}
    Nobody = nobody
    CancelWoken = FALSE
    Getters = {g1, g2}
    Putters = {p1, p2, p3}
    Values = {v1, v2, v3, v4}
    NoValue = none
    MaxSize = 2
    Resets = TRUE
    Branches = {b1, b2, b3}
    Conditions = {"AllCompleted", "FirstCompleted", "FirstException"}
    Targets = {x1, x2}
    Observers = {o1, o2}
    NoTarget = none
SPECIFICATION MCSpec
CHECK_DEADLOCK FALSE
INVARIANT JoinWaits
