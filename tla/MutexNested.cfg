\* Two mutexes held at once.
SPECIFICATION MutexSpec
CONSTANTS
    TASK_MAX = 3
    IdleTask = IdleTask
    NULL = NULL
    WaitList = {m1, m2}
    Mutex = {m1, m2}
    InitialPriority <- MCLowMedHigh
    Delay = {1}
    Timeout = {}
    Pausable = {}
    TickModulus = 2
INVARIANTS
    PriorityRestored
