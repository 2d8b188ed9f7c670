------------------------------ MODULE Scheduler ------------------------------
(***************************************************************************)
(* The preemptive scheduler at run time: tasks that call sched_delay_ms,   *)
(* sched_yield, sched_block, sched_task_pause and sched_task_resume, the   *)
(* SysTick interrupt and the PendSV context switch.                        *)
(*                                                                         *)
(* There is one CPU.  The thread it executes is k.g_current_task.  SysTick *)
(* and PendSV share the lowest interrupt priority and PendSV has the lower *)
(* exception number, so a pending PendSV is taken before any other step    *)
(* that is modelled here; a handler and a critical section are one step.   *)
(* What a function does outside its critical sections is a step of its     *)
(* own, at the place pc records.                                           *)
(***************************************************************************)
EXTENDS Kernel

CONSTANTS
    InitialPriority, \* priority functions main may create the tasks with
    Delay,           \* arguments of sched_delay_ms, uint32_t like the clock,
                     \* 0 excluded (it returns)
    Pausable,        \* tasks that other code pauses and resumes
    TickModulus      \* stands for 2^32, the range of s_ticks

ASSUME SchedulerAssumption ==
    /\ InitialPriority \subseteq [Task -> Priority]
    /\ TickModulus \in Nat \ {0}
    /\ Delay \subseteq 1 .. (TickModulus - 1)
    /\ Pausable \subseteq Task

VARIABLES
    k,       \* the kernel's memory, see Kernel
    pc,      \* where every task's code is
    s_ticks, \* systick.c
    wakeAt   \* auxiliary: the time a sched_delay_ms is to end at, else 0

schedVars == <<k, pc, s_ticks, wakeAt>>

Time == 0 .. (TickModulus - 1)

SchedLabel ==
    {"user",           \* in application code
     "delay_trigger",  \* sched_delay_ms, before trigger_pendsv
     "delay_wait",     \* sched_delay_ms, while (*ticks > 0) wfi
     "switch_trigger"} \* sched_yield or sched_block, before trigger_pendsv

SchedTypeOK ==
    /\ KernelTypeOK(k)
    /\ s_ticks \in Time
    /\ wakeAt \in [Task -> Time]

(* All tasks exist and the most urgent one runs.                           *)
SchedInit ==
    /\ \E p \in InitialPriority : k = Started(TASK_MAX, p)
    /\ pc = [t \in Task |-> "user"]
    /\ s_ticks = 0
    /\ wakeAt = [t \in Task |-> 0]

(* Task t executes: it is on the CPU and no context switch is pending.     *)
Runs(t) == k.g_current_task = t /\ ~k.pendsv

Goto(t, label) == pc' = [pc EXCEPT ![t] = label]

(* The absolute deadline of a timed call, and its test.                    *)
Deadline(now, ms) == (now + ms) % TickModulus

DeadlinePassed(now, deadline) == now >= deadline
-----------------------------------------------------------------------------
(* Mutant: one tick too many.                                             *)
MutDelayPlusOne(r, t, ms) ==
    sched_commit_next([r EXCEPT !.delay_ticks[t] = ms + 1, !.state[t] = "BLOCKED"])

(* sched_delay_ms(ms): the critical section, then trigger_pendsv, then the *)
(* wait for the countdown.                                                 *)
DelayLocked(r, t, ms) ==
    sched_commit_next([r EXCEPT !.delay_ticks[t] = ms, !.state[t] = "BLOCKED"])

sched_delay_ms(t, ms) ==
    /\ Runs(t) /\ pc[t] = "user"
    /\ k' = DelayLocked(k, t, ms)
    /\ wakeAt' = [wakeAt EXCEPT ![t] = (s_ticks + ms) % TickModulus]
    /\ Goto(t, "delay_trigger")
    /\ UNCHANGED s_ticks

DelayTrigger(t) ==
    /\ Runs(t) /\ pc[t] = "delay_trigger"
    /\ k' = trigger_pendsv(k)
    /\ Goto(t, "delay_wait")
    /\ UNCHANGED <<s_ticks, wakeAt>>

DelayReturn(t) ==
    /\ Runs(t) /\ pc[t] = "delay_wait"
    /\ k.delay_ticks[t] = 0
    /\ Goto(t, "user")
    /\ wakeAt' = [wakeAt EXCEPT ![t] = 0]
    /\ UNCHANGED <<k, s_ticks>>

YieldLocked(r, t) == sched_commit_next([r EXCEPT !.state[t] = "READY"])

sched_yield(t) ==
    /\ Runs(t) /\ pc[t] = "user"
    /\ k' = YieldLocked(k, t)
    /\ Goto(t, "switch_trigger")
    /\ UNCHANGED <<s_ticks, wakeAt>>

sched_block(t) ==
    /\ Runs(t) /\ pc[t] = "user"
    /\ k' = sched_pick_and_mark(k)
    /\ Goto(t, "switch_trigger")
    /\ UNCHANGED <<s_ticks, wakeAt>>

SwitchTrigger(t) ==
    /\ Runs(t) /\ pc[t] = "switch_trigger"
    /\ k' = trigger_pendsv(k)
    /\ Goto(t, "user")
    /\ UNCHANGED <<s_ticks, wakeAt>>

(* Pausing takes the task's state away whatever it was; it makes no        *)
(* scheduling decision.                                                    *)
PauseLocked(r, i) == [r EXCEPT !.state[i] = "PAUSED"]

sched_task_pause(t, i) ==
    /\ Runs(t) /\ pc[t] = "user"
    /\ i \in Pausable /\ i \in Created(k)
    /\ k' = PauseLocked(k, i)
    /\ UNCHANGED <<pc, s_ticks, wakeAt>>

(* Resuming readies a paused task; no scheduling decision either.          *)
ResumeLocked(r, i) ==
    IF r.state[i] = "PAUSED"
    THEN [r EXCEPT !.state[i] = "READY", !.late = @ \cup {i}]
    ELSE r

sched_task_resume(t, i) ==
    /\ Runs(t) /\ pc[t] = "user"
    /\ i \in Pausable /\ i \in Created(k)
    /\ k' = ResumeLocked(k, i)
    /\ UNCHANGED <<pc, s_ticks, wakeAt>>
-----------------------------------------------------------------------------
(* Mutant: the clock does not wrap.                                       *)
MutTickNoWrap == ~k.pendsv /\ s_ticks' = s_ticks + 1

(* The tick interrupt.  No software timer is armed and systick_isr_hook is *)
(* the weak empty function in this module.                                 *)
Tick == ~k.pendsv /\ s_ticks' = (s_ticks + 1) % TickModulus

SysTick_Handler ==
    /\ Tick
    /\ k' = sched_tick_n(k, 1)
    /\ UNCHANGED <<pc, wakeAt>>

PendSV ==
    /\ k.pendsv
    /\ k' = PendSV_Handler(k)
    /\ UNCHANGED <<pc, s_ticks, wakeAt>>

(* What a task does until its call of the scheduler has returned.          *)
SchedStep(t) == DelayTrigger(t) \/ DelayReturn(t) \/ SwitchTrigger(t)

SchedCall(t) ==
    \/ \E ms \in Delay : sched_delay_ms(t, ms)
    \/ sched_yield(t)
    \/ sched_block(t)
    \/ \E i \in Task : sched_task_pause(t, i)
    \/ \E i \in Task : sched_task_resume(t, i)

SchedNext ==
    \/ SysTick_Handler
    \/ PendSV
    \/ \E t \in Task : SchedStep(t) \/ SchedCall(t)

SchedSpec == SchedInit /\ [][SchedNext]_schedVars

(* The tick clock does not stop (SysTick_Handler is the only step that     *)
(* changes s_ticks) and a latched SysTick is taken once no PendSV is       *)
(* pending; a task that gets the CPU again and again executes the next     *)
(* instruction of a kernel function it is in, because a tick period is     *)
(* thousands of instructions.  Nothing is assumed of application code: it  *)
(* may run for ever without calling the kernel.                            *)
SchedFairness ==
    /\ SF_s_ticks(Tick)
    /\ WF_schedVars(PendSV)
    /\ \A t \in Task : SF_schedVars(SchedStep(t))

SchedFairSpec == SchedSpec /\ SchedFairness
-----------------------------------------------------------------------------
(* Properties.                                                             *)

(* Every field of every TCB, every scheduler static and every program      *)
(* counter has its type.                                                   *)
TypeOK == SchedTypeOK /\ pc \in [Task -> SchedLabel]

(* At most one task is RUNNING, the one committed in g_next_task: whatever *)
(* the order of ticks, yields, delays and switches, sched_commit_next      *)
(* leaves no task behind in state RUNNING, which sched_select_next would   *)
(* never choose again.                                                     *)
SingleRunning ==
    \A t \in Thread : k.state[t] = "RUNNING" => t = k.g_next_task

(* The context switch never hands the CPU to a blocked task.               *)
NextRunnable == k.state[k.g_next_task] # "BLOCKED"

(* A committed switch cannot be forgotten: while g_next_task differs from  *)
(* g_current_task, PendSV is pending or the running task is about to       *)
(* trigger it (sched_delay_ms, sched_yield and sched_block trigger outside *)
(* their critical sections, where a tick can commit another task).         *)
SwitchComes ==
    k.g_next_task # k.g_current_task =>
        \/ k.pendsv
        \/ /\ k.g_current_task \in Task
           /\ pc[k.g_current_task] \in {"delay_trigger", "switch_trigger"}

(* Preemptive priority scheduling: a task that keeps the CPU is at least   *)
(* as urgent as every ready task, but for tasks readied since the last     *)
(* decision by sched_task_resume, which takes none.                        *)
RunsMostUrgent ==
    (/\ ~k.pendsv
     /\ k.g_next_task = k.g_current_task
     /\ k.state[k.g_current_task] = "RUNNING")
    => \A t \in Ready(k) \ k.late :
            /\ k.g_current_task # IdleTask
            /\ k.priority[k.g_current_task] <= k.priority[t]

(* sched_delay_ms(ms) readies its caller at the tick ms after the call,    *)
(* neither earlier nor later, even when ticks fall between its critical    *)
(* section and its trigger_pendsv.  (A pause overwrites the BLOCKED state  *)
(* of a delayed task and stops its countdown for good, so this is about    *)
(* the tasks that nobody pauses.)                                          *)
InDelay(t) == pc[t] \in {"delay_trigger", "delay_wait"}

DelayExact ==
    [][\A t \in Task \ Pausable :
          InDelay(t) /\ k.state[t] = "BLOCKED" =>
             (k'.state[t] # "BLOCKED" <=> s_ticks' = wakeAt[t] /\ s_ticks' # s_ticks)]_schedVars

(* A delayed task that nobody pauses, and to which no other task is        *)
(* strictly preferred, returns from sched_delay_ms: whatever the others    *)
(* do, pausing included, the round-robin search reaches it among equals.   *)
DelayReturns ==
    \A t \in Task \ Pausable :
        (InDelay(t) /\ \A u \in Task : k.priority[t] <= k.priority[u]) ~> pc[t] = "user"
=============================================================================
