CONSTANTS
    Tasks = {t1}
    Threads = {h1}
    Nobody = nobody
    CancelWoken = FALSE
SPECIFICATION FairSpec
PROPERTY LockProgress
