\* Two tasks and an interrupt on an event group of two bits; two tasks and
\* callbacks on two timers; two delaying tasks above a tickless idle task whose
\* counter is too short for the longest sleep.
SPECIFICATION ClockSpec
SYMMETRY MCSymmetry
CONSTANTS
    TASK_MAX = 2
    IdleTask = IdleTask
    NULL = NULL
    WaitList = {e1}
    EventGroup = {e1}
    Bit = {b1, b2}
    EVENT_PENDING_MAX = 2
    EventRequest <- MCRequest
    EventTimeout = {2}
    EventWaiter = {0, 1}
    EventSetter = {0, 1}
    TIMER_MAX_COUNT = 2
    Period = {1, 3}
    Reaction = {"nothing", "timer_start", "timer_delete"}
    TICKS_PER_MS = 2
    TICKLESS_MAX_RELOAD = 4
    TICKLESS_MAX_SLEEP_MS = 4
    InitialTimer <- MCTimers
    InitialPriority <- MCOneUrgent
    Delay = {1, 4}
    Pausable = {}
    TickModulus = 8
INVARIANTS
    EventSlotsExact
    EventNoneForgotten
    EventResultSatisfies
    EventEndsAtDeadline
    TicksServeTimers
    
    

    
