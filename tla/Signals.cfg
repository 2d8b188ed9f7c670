\* Three tasks on one semaphore, or two receivers of notifications and a giver.
SPECIFICATION SignalSpec
CONSTANTS
    TASK_MAX = 3
    IdleTask = IdleTask
    NULL = NULL
    WaitList = {s1}
    Sem = {s1}
    InitialCount <- MCInitial
    MaxCount <- MCMax
    NotifyTimeout = {0, 1, 2}
    NotifyReceiver = {1, 2}
    InitialPriority <- MCOneUrgent
    Delay = {1}
    Pausable = {}
    TickModulus = 3
PROPERTIES
    MostUrgentTakes
    NotifyWaitEnds
INVARIANTS
    SignalTypeOK
    SemWaitListExact
    SemNoLostWakeup
    NotifyNotLost
