\* Three tasks of different priorities; the least urgent one makes timed calls.
SPECIFICATION QueueSpec
CONSTANTS
    TASK_MAX = 3
    IdleTask = IdleTask
    NULL = NULL
    waiters_send = waiters_send
    waiters_receive = waiters_receive
    WaitList = {waiters_send, waiters_receive}
    Capacity = 2
    Item = {a, b}
    Timeout = {2}
    TimedCaller = {0}
    InitialPriority <- MCDistinct
    Delay = {}
    Pausable = {}
    TickModulus = 3
SYMMETRY ItemSymmetry
INVARIANTS
    QueueWaitListExact
    QueueNoLostWakeup
    QueueWaitEndsAtDeadline
PROPERTIES
    QueueIsFifo
