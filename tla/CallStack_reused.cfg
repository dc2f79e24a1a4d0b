CONSTANTS
    Awaitables = {e, a, p}
    Entry = e
    Pausables = {p}
    Task = task
    Null = null
    Reused = TRUE
    PauseNested = FALSE
    PauseOnPaused = FALSE
    FirstThrows = FALSE
SPECIFICATION Spec
CHECK_DEADLOCK FALSE
INVARIANT NeverHangs
