\* LOW, MED and HIGH on one mutex; MED may spin for ever.
SPECIFICATION MutexFairSpec
CONSTANTS
    TASK_MAX = 3
    IdleTask = IdleTask
    NULL = NULL
    WaitList = {m1}
    Mutex = {m1}
    InitialPriority <- MCLowMedHigh
    Delay = {1}
    Timeout = {}
    Pausable = {}
    TickModulus = 2
PROPERTIES
    MostUrgentLocks
