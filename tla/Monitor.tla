------------------------------ MODULE Monitor ------------------------------
(***************************************************************************)
(* The run-time monitors: response times (deadline_monitor.c), wake-up     *)
(* jitter (jitter_monitor.c) and stack use with its canary                 *)
(* (stack_monitor.c, sched_check_stack_canaries of scheduler.c).           *)
(*                                                                         *)
(* Times are unsigned words of ClockModulus values, as are the sums.  The  *)
(* calls of a deadline monitor are not critical sections: a task may be    *)
(* preempted between their steps, by another task that prints a report.    *)
(***************************************************************************)
EXTENDS Integers, FiniteSets, FiniteSetsExt

CONSTANTS
    Worker,          \* tasks that measure themselves
    MONITOR_MAX,     \* DEADLINE_MONITOR_MAX_COUNT, JITTER_MONITOR_MAX_COUNT
    ClockModulus,    \* 2^32 in the code
    Budgets, MaxCycles,        \* bound: measured cycles of a task
    JitterPeriod, MaxMarks,    \* bound: marks of a task
    STACK_SIZE, STACK_SCAN_START_INDEX, CANARY_INDEX

ASSUME MonitorAssumption ==
    /\ MONITOR_MAX \in Nat \ {0} /\ ClockModulus \in Nat \ {0, 1} /\ ClockModulus % 2 = 0
    /\ Budgets \subseteq Nat /\ JitterPeriod \in 1 .. (ClockModulus \div 2) - 1
    /\ CANARY_INDEX \in Nat /\ STACK_SCAN_START_INDEX = CANARY_INDEX + 1
    /\ STACK_SIZE \in Nat /\ STACK_SIZE > STACK_SCAN_START_INDEX

VARIABLES
    clk,       \* systick_get_ms
    monitors,  \* s_monitors of deadline_monitor.c
    work,      \* where a task is in its cycle, its handle and the elapsed time
    age,       \* auxiliary: true time since a task's begin, or since its last mark
    truth,     \* auxiliary: true cycles, overruns, longest and total time of a monitor
    report,    \* the last report printed: avg_ms and max_ms of which monitor
    jitter,    \* s_monitors of jitter_monitor.c, one per task here
    late,      \* auxiliary: true signed distance from the schedule; best and worst
    stack, sp, deepest   \* a task's stack, its stack pointer, the lowest word written

deadlineVars == <<monitors, work, truth, report>>
jitterVars == <<jitter, late>>
stackVars == <<stack, sp, deepest>>
monitorVars == <<clk, deadlineVars, age, jitterVars, stackVars>>

Handle == 0 .. MONITOR_MAX - 1
Forever == ClockModulus - 1   \* 0xFFFFFFFF, the minimum of no samples

NoMonitor == [in_use |-> FALSE, active |-> FALSE, budget_ms |-> 0, start_ms |-> 0, min_ms |-> 0,
              max_ms |-> 0, sum_ms |-> 0, cycle_count |-> 0, overrun_count |-> 0]
Word == 0 .. 4   \* a stack word, by how many of its first bytes are STACK_FILL_BYTE
Canary == 5      \* TASK_STACK_CANARY_VALUE

ScanStart == STACK_SCAN_START_INDEX

(* task_stack_init leaves a frame at the top, the canary is written, then  *)
(* stack_monitor_fill fills the words between.                             *)
StackFilled(top) ==
    [w \in 0 .. STACK_SIZE - 1 |->
        IF ScanStart <= w /\ w < top THEN 4 ELSE IF w = CANARY_INDEX THEN Canary ELSE 0]

MonitorInit ==
    /\ clk \in {0, ClockModulus - 2}
    /\ monitors = [h \in Handle |-> NoMonitor]
    /\ work = [t \in Worker |-> [step |-> "new", h |-> -1, elapsed |-> 0]]
    /\ age = [t \in Worker |-> 0]
    /\ truth = [h \in Handle |-> [n |-> 0, over |-> 0, longest |-> 0, total |-> 0]]
    /\ report = [avg |-> 0, max |-> 0, h |-> 0, half |-> FALSE]
    /\ jitter = [t \in Worker |-> [in_use |-> FALSE]]
    /\ late = [t \in Worker |-> [now |-> 0, best |-> Forever, worst |-> 0]]
    /\ sp = STACK_SIZE - 1 /\ stack = StackFilled(STACK_SIZE - 1) /\ deepest = STACK_SIZE - 1

(* A millisecond.  No cycle is as long as the clock's wrap, and no mark is *)
(* off by half of it.                                                      *)
MonitorTick ==
    /\ \A t \in Worker : age[t] < ClockModulus - 1
    /\ clk' = (clk + 1) % ClockModulus
    /\ age' = [t \in Worker |-> IF work[t].step \in {"new", "idle"} /\ ~jitter[t].in_use
                                THEN 0 ELSE age[t] + 1]
    /\ UNCHANGED <<deadlineVars, jitterVars, stackVars>>
-----------------------------------------------------------------------------
(* deadline_monitor.c.                                                     *)
Goto(t, step) == work' = [work EXCEPT ![t].step = step]

FreeMonitors == {h \in Handle : ~monitors[h].in_use}

(* deadline_monitor_create claims a monitor in a critical section and      *)
(* fills it in afterwards; -1 if none is free.                             *)
ClaimMonitor(t) ==
    /\ work[t].step = "new"
    /\ IF FreeMonitors = {}
       THEN Goto(t, "idle") /\ UNCHANGED monitors
       ELSE LET h == Min(FreeMonitors) IN
            /\ monitors' = [monitors EXCEPT ![h].in_use = TRUE]
            /\ work' = [work EXCEPT ![t].step = "fill", ![t].h = h]
    /\ UNCHANGED <<clk, age, truth, report, jitterVars, stackVars>>

FillMonitor(t, budget) ==
    /\ work[t].step = "fill" /\ Goto(t, "idle")
    /\ monitors' = [monitors EXCEPT ![work[t].h] =
                      [NoMonitor EXCEPT !.in_use = TRUE, !.budget_ms = budget, !.min_ms = Forever]]
    /\ UNCHANGED <<clk, age, truth, report, jitterVars, stackVars>>

(* A call with handle -1 returns at once and changes nothing, and so do a  *)
(* second begin and an end without begin.                                  *)
Valid(t) == work[t].h \in Handle

deadline_monitor_begin(t) ==
    /\ work[t].step = "idle"
    /\ Valid(t) /\ truth[work[t].h].n < MaxCycles
    /\ monitors[work[t].h].in_use /\ ~monitors[work[t].h].active
    /\ monitors' = [monitors EXCEPT ![work[t].h].active = TRUE, ![work[t].h].start_ms = clk]
    /\ age' = [age EXCEPT ![t] = 0]
    /\ Goto(t, "busy")
    /\ UNCHANGED <<clk, truth, report, jitterVars, stackVars>>

(* Mutant: the difference does not wrap with the clock.                    *)
MutElapsedClamped(m) == IF clk > m.start_ms THEN clk - m.start_ms ELSE 0

Elapsed(m) == (clk - m.start_ms) % ClockModulus

Larger(a, b) == IF a > b THEN a ELSE b
Smaller(a, b) == IF a < b THEN a ELSE b

Counted(m, e) ==
    [m EXCEPT !.cycle_count = @ + 1, !.overrun_count = IF e > m.budget_ms THEN @ + 1 ELSE @]

Extremes(m, e) == [m EXCEPT !.min_ms = Smaller(@, e), !.max_ms = Larger(@, e)]

(* deadline_monitor_end: elapsed, min, max and sum, then the counters.     *)
deadline_monitor_end(t) ==
    LET h == work[t].h  m == monitors[h]  e == Elapsed(m)
    IN  /\ \/ /\ work[t].step = "busy"
              /\ monitors' = [monitors EXCEPT ![h] =
                     [Extremes(m, e) EXCEPT !.active = FALSE, !.sum_ms = (@ + e) % ClockModulus]]
              /\ work' = [work EXCEPT ![t].step = "ending", ![t].elapsed = e]
              /\ truth' = [truth EXCEPT ![h] =
                     [n |-> @.n + 1, over |-> @.over + (IF age[t] > m.budget_ms THEN 1 ELSE 0),
                      longest |-> Larger(@.longest, age[t]), total |-> @.total + age[t]]]
           \/ /\ work[t].step = "ending" /\ Goto(t, "idle")
              /\ monitors' = [monitors EXCEPT ![h] = Counted(m, work[t].elapsed)]
              /\ UNCHANGED truth
        /\ UNCHANGED <<clk, age, report, jitterVars, stackVars>>

(* deadline_monitor_report, also from deadline_monitor_report_all.         *)
deadline_monitor_report(h) ==
    LET m == monitors[h] IN
    /\ m.in_use /\ m.cycle_count > 0
    /\ report' = [avg |-> m.sum_ms \div m.cycle_count, max |-> m.max_ms, h |-> h,
                  half |-> truth[h].n > m.cycle_count]
    /\ UNCHANGED <<clk, monitors, work, age, truth, jitterVars, stackVars>>

DeadlineNext ==
    \/ MonitorTick
    \/ \E h \in Handle : deadline_monitor_report(h)
    \/ \E t \in Worker :
         \/ ClaimMonitor(t) \/ (\E b \in Budgets : FillMonitor(t, b))
         \/ deadline_monitor_begin(t) \/ deadline_monitor_end(t)
-----------------------------------------------------------------------------
(* jitter_monitor.c: create and mark; each is short and made by one task.  *)
jitter_monitor_create(t) ==
    /\ ~jitter[t].in_use
    /\ Cardinality({u \in Worker : jitter[u].in_use}) < MONITOR_MAX
    /\ jitter' = [jitter EXCEPT ![t] =
            [in_use |-> TRUE, period_ms |-> JitterPeriod, expected_ms |-> 0, baseline_set |-> FALSE,
             min |-> Forever, max |-> 0, sample_count |-> 0]]
    /\ UNCHANGED <<clk, deadlineVars, age, late, stackVars>>

Abs(x) == IF x < 0 THEN -x ELSE x

(* |(int32_t)(now - expected)|                                             *)
Distance(now, expected) ==
    LET d == (now - expected) % ClockModulus
    IN  Abs(IF d >= ClockModulus \div 2 THEN d - ClockModulus ELSE d)

jitter_monitor_mark(t) ==
    LET m == jitter[t]  j == Distance(clk, m.expected_ms)  off == late[t].now + age[t] - JitterPeriod
    IN  /\ m.in_use /\ m.sample_count < MaxMarks
        /\ IF ~m.baseline_set
           THEN /\ jitter' = [jitter EXCEPT ![t].expected_ms = (clk + m.period_ms) % ClockModulus,
                                            ![t].baseline_set = TRUE]
                /\ UNCHANGED late
           ELSE /\ Abs(off) < ClockModulus \div 2
                /\ jitter' = [jitter EXCEPT ![t] =
                     [m EXCEPT !.min = Smaller(@, j), !.max = Larger(@, j), !.sample_count = @ + 1,
                               !.expected_ms = (@ + m.period_ms) % ClockModulus]]
                /\ late' = [late EXCEPT ![t] = [now |-> off, best |-> Smaller(@.best, Abs(off)),
                                                worst |-> Larger(@.worst, Abs(off))]]
        /\ age' = [age EXCEPT ![t] = 0]
        /\ UNCHANGED <<clk, deadlineVars, stackVars>>

JitterNext ==
    MonitorTick \/ \E t \in Worker : jitter_monitor_create(t) \/ jitter_monitor_mark(t)
-----------------------------------------------------------------------------
(* stack_monitor.c and the canary.  The task writes words of any content   *)
(* below its stack pointer, skips words of a frame it does not use, and    *)
(* may run over the canary and further down.                               *)
Push(n, word) ==
    /\ sp >= n
    /\ sp' = sp - n
    /\ stack' = [stack EXCEPT ![sp - n] = word]
    /\ deepest' = Smaller(deepest, sp - n)
    /\ UNCHANGED <<clk, deadlineVars, age, jitterVars>>

Pop ==
    /\ sp < STACK_SIZE - 1 /\ sp' = sp + 1
    /\ UNCHANGED <<clk, deadlineVars, age, jitterVars, stack, deepest>>

StackNext == (\E n \in {1, 2}, word \in Word : Push(n, word)) \/ Pop

(* stack_monitor_get_used_bytes: bytes from the first one that is not      *)
(* STACK_FILL_BYTE.                                                        *)
stack_monitor_get_used_bytes ==
    LET touched == {w \in ScanStart .. STACK_SIZE - 1 : stack[w] < 4}
        low == Min(touched \cup {STACK_SIZE})
    IN  4 * (STACK_SIZE - ScanStart) -
          (4 * (low - ScanStart) + IF low = STACK_SIZE THEN 0 ELSE stack[low])

stack_monitor_get_used_percent == (stack_monitor_get_used_bytes * 100) \div (STACK_SIZE * 4)

(* Whether sched_check_stack_canaries names this task.                     *)
sched_check_stack_canaries == stack[CANARY_INDEX] # Canary
-----------------------------------------------------------------------------
(* Properties.                                                             *)

(* No two tasks get the same monitor, although it is filled in after the   *)
(* critical section that claims it.                                        *)
MonitorsNotShared ==
    \A t, u \in Worker : t # u /\ Valid(t) => work[t].h # work[u].h

(* Between two calls a monitor's counts are the true ones, also for cycles *)
(* over which the millisecond counter wraps.                               *)
DeadlineExact ==
    \A t \in Worker : Valid(t) /\ work[t].step \in {"idle", "busy"} =>
       LET m == monitors[work[t].h]  true == truth[work[t].h]
       IN  m.cycle_count = true.n /\ m.overrun_count = true.over /\ m.max_ms = true.longest

(* A report that cuts into deadline_monitor_end is off by no more than the *)
(* cycle that is being added: the extremes are updated before the sum.     *)
(* (The sum must not have wrapped.)                                        *)
DeadlineReportBounded ==
    truth[report.h].total < ClockModulus => report.avg <= 2 * report.max

(* The jitter is the true distance from the schedule that the first mark   *)
(* laid down, early or late, across the wrap of the counter.               *)
JitterExact ==
    \A t \in Worker : jitter[t].in_use =>
       jitter[t].max = late[t].worst /\ jitter[t].min = late[t].best

(* The high-water mark never exceeds the stack really used and misses none *)
(* of it unless the lowest word holds the fill pattern, also when frames   *)
(* leave words unwritten; and the canary check raises no false alarm.      *)
StackUseTrue ==
    /\ stack_monitor_get_used_bytes <= 4 * (STACK_SIZE - deepest)
    /\ deepest >= STACK_SCAN_START_INDEX /\ stack[deepest] < 4 =>
         stack_monitor_get_used_bytes > 4 * (STACK_SIZE - deepest - 1)
    /\ stack_monitor_get_used_percent <= 100
    /\ sched_check_stack_canaries => deepest <= CANARY_INDEX

(* The monitors tell the truth: a report of response times, jitter or      *)
(* stack use agrees with what really happened, across the wrap of the      *)
(* clock and whenever it cuts into an update.                              *)
MonitorsTrue ==
    /\ MonitorsNotShared /\ DeadlineExact /\ DeadlineReportBounded
    /\ JitterExact
    /\ StackUseTrue
=============================================================================
