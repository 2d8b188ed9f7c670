\* Three tasks, all operations; one of the tasks may be paused and resumed.
SPECIFICATION SchedFairSpec
CONSTANTS
    TASK_MAX = 3
    IdleTask = IdleTask
    NULL = NULL
    WaitList = {}
    InitialPriority <- MCTwoLevels
    Delay = {1, 2}
    Pausable = {0}
    TickModulus = 3
INVARIANTS
    TypeOK
    SingleRunning
    SwitchComes
    RunsMostUrgent
PROPERTIES
    DelayExact
    DelayReturns
