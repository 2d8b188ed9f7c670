\* Three tasks contend for one mutex, with and without timeouts.
SPECIFICATION MutexSpec
CONSTANTS
    TASK_MAX = 3
    IdleTask = IdleTask
    NULL = NULL
    WaitList = {m1}
    Mutex = {m1}
    InitialPriority <- MCMixed
    Delay = {1}
    Timeout = {1}
    Pausable = {}
    TickModulus = 2
INVARIANTS
    MutualExclusion
    WaitListExact
    NoLostWakeup
    OwnerInherits
    PriorityRestored
