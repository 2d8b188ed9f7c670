\* Two receivers, one with a timeout, and a sender of equal priority.
SPECIFICATION QueueSpec
CONSTANTS
    TASK_MAX = 3
    IdleTask = IdleTask
    NULL = NULL
    waiters_send = waiters_send
    waiters_receive = waiters_receive
    WaitList = {waiters_send, waiters_receive}
    Capacity = 1
    Item = {a}
    Timeout = {1}
    TimedCaller = {0}
    InitialPriority <- MCEqual
    Delay = {}
    Pausable = {}
    TickModulus = 4
INVARIANTS
    QueueNoLostWakeup
