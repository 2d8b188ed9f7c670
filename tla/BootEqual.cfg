\* Two tasks of equal priority; ticks anywhere in sched_start.
SPECIFICATION BootSpec
CONSTANTS
    TASK_MAX = 2
    IdleTask = IdleTask
    NULL = NULL
    Main = Main
    WaitList = {}
    Plan <- MCEqual
INVARIANTS
    FramesIsolated
