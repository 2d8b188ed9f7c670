------------------------------ MODULE Tickless ------------------------------
(***************************************************************************)
(* Tickless idle: idle_task_func and sched_get_next_wakeup_ms              *)
(* (kernel/core/scheduler.c), timer_get_next_ready_in_ms (timer.c) and     *)
(* systick_tickless_sleep and SysTick_Handler (systick.c of both boards).  *)
(*                                                                         *)
(* The SysTick counter is modelled: the hardware clock HwTick counts it    *)
(* down in units of 1/TICKS_PER_MS of a millisecond.  Kernel code takes no *)
(* time on this scale; time passes while application code runs and while   *)
(* the CPU sleeps.  The timers of this module were started before and run  *)
(* on; tasks delay.                                                        *)
(***************************************************************************)
EXTENDS Timer

CONSTANTS
    TICKS_PER_MS,          \* TICKLESS_TICKS_PER_MS
    TICKLESS_MAX_RELOAD,   \* 0x00FFFFFF
    TICKLESS_MAX_SLEEP_MS, \* 1000
    InitialTimer           \* the timers running at first: period and auto_reload

ASSUME TicklessAssumption ==
    /\ TICKS_PER_MS \in Nat \ {0} /\ TICKLESS_MAX_SLEEP_MS \in Nat \ {0}
    /\ TICKLESS_MAX_RELOAD \in Nat /\ TICKLESS_MAX_RELOAD >= TICKS_PER_MS
    /\ InitialTimer \subseteq Period \X BOOLEAN

VARIABLES
    syst,   \* the SysTick registers rvr, cvr, COUNTFLAG and the pending interrupt
    s_tickless_active, s_tickless_idle_enabled,
    idle,   \* where the idle task is, with its local variables
    rest    \* auxiliary: clock units until a task's delay should end

ticklessVars == <<syst, s_tickless_active, s_tickless_idle_enabled, idle, rest>>

Armed(ticks) == [rvr |-> ticks - 1, cvr |-> ticks - 1, countflag |-> FALSE, pend |-> FALSE]

(* Timers started with the periods of InitialTimer.                        *)
RunningTimers ==
    \E x \in InitialTimer :
        s_timers = [i \in Timers |->
            Starting([FreeTimer EXCEPT !.in_use = TRUE, !.period_ms = x[1], !.auto_reload = x[2]], 0)]

(* Tickless idle is off or on by TAMGAOS_TICKLESS_IDLE_DEFAULT.            *)
IdleInit ==
    /\ syst = Armed(TICKS_PER_MS)
    /\ s_tickless_active = FALSE
    /\ s_tickless_idle_enabled \in BOOLEAN
    /\ idle = [at |-> "loop", ms |-> 0, i |-> 0]
    /\ rest = [t \in Task |-> 0]

TicklessInit == SchedInit /\ RunningTimers /\ fired = {} /\ IdleInit

IdleAt(label) == Runs(IdleTask) /\ idle.at = label

(* Code that takes time: the application's, and waiting for an interrupt.  *)
TimePasses ==
    /\ ~k.pendsv
    /\ IF k.g_current_task = IdleTask THEN idle.at \in {"wfi", "sleep"}
       ELSE pc[k.g_current_task] = "user"

(* The SysTick counter; at its end it reloads and requests the interrupt.  *)
HwTick ==
    /\ TimePasses
    /\ syst' = IF syst.cvr > 0 THEN [syst EXCEPT !.cvr = @ - 1]
               ELSE [syst EXCEPT !.cvr = syst.rvr, !.countflag = TRUE, !.pend = TRUE]
    /\ rest' = [t \in Task |-> IF k.state[t] = "BLOCKED" THEN rest[t] - 1 ELSE rest[t]]
    /\ UNCHANGED <<schedVars, timerVars, s_tickless_active, s_tickless_idle_enabled, idle>>

(* An interrupt ends a wfi.                                                *)
Awake == IF idle.at \in {"wfi", "sleep"}
         THEN [idle EXCEPT !.at = IF idle.at = "wfi" THEN "loop" ELSE "woken"] ELSE idle

(* SysTick_Handler: during a tickless sleep it returns at once.            *)
TickHandler ==
    /\ syst.pend /\ ~k.pendsv
    /\ syst' = [syst EXCEPT !.pend = FALSE]
    /\ idle' = Awake
    /\ IF s_tickless_active
       THEN UNCHANGED <<k, s_ticks, timerVars>>
       ELSE /\ s_ticks' = (s_ticks + 1) % TickModulus
            /\ k' = sched_tick_n(k, 1)
            /\ Service([i \in Timers |-> "nothing"], s_ticks')
    /\ UNCHANGED <<pc, wakeAt, s_tickless_active, s_tickless_idle_enabled, rest>>
-----------------------------------------------------------------------------
(* The idle task.                                                          *)

(* Nobody waits with a countdown, no timer runs: 0xFFFFFFFF.               *)
NoWakeup == TickModulus - 1

(* Mutant: the countdowns of the tasks are overlooked.                     *)
MutNextWakeup == NoWakeup

sched_get_next_wakeup_ms ==
    Min({k.delay_ticks[t] : t \in {u \in Created(k) : k.state[u] = "BLOCKED" /\ k.delay_ticks[u] > 0}}
          \cup {NoWakeup})

timer_get_next_ready_in_ms(now) ==
    LET Left(x) == IF Signed(x.deadline_ms - now) > 0 THEN Signed(x.deadline_ms - now) ELSE 0
    IN  Min({Left(s_timers[i]) : i \in {j \in Timers : s_timers[j].in_use /\ s_timers[j].active}}
              \cup {NoWakeup})

IdleGoto(label) == idle' = [idle EXCEPT !.at = label]

(* The budget: a critical section for the tasks, then one for the timers.  *)
IdleLoop ==
    /\ IdleAt("loop")
    /\ idle' = IF s_tickless_idle_enabled
               THEN [idle EXCEPT !.at = "budget", !.ms = sched_get_next_wakeup_ms]
               ELSE [idle EXCEPT !.at = "wfi"]
    /\ UNCHANGED <<schedVars, timerVars, syst, s_tickless_active, s_tickless_idle_enabled, rest>>

(* Mutant: the timers do not limit the sleep.                              *)
MutBudgetTasks == Min({idle.ms, TICKLESS_MAX_SLEEP_MS})

Budget == Min({idle.ms, timer_get_next_ready_in_ms(s_ticks), TICKLESS_MAX_SLEEP_MS})

Reload(ms) ==
    IF ms * TICKS_PER_MS > TICKLESS_MAX_RELOAD THEN TICKLESS_MAX_RELOAD ELSE ms * TICKS_PER_MS

(* With a budget, the first half of systick_tickless_sleep: the counter is *)
(* restarted, whatever part of a millisecond it had counted.               *)
IdleArm ==
    /\ IdleAt("budget")
    /\ IF Budget = 0
       THEN IdleGoto("wfi") /\ UNCHANGED <<syst, s_tickless_active>>
       ELSE /\ syst' = Armed(Reload(Budget))
            /\ s_tickless_active' = TRUE
            /\ IdleGoto("sleep")
    /\ UNCHANGED <<schedVars, timerVars, s_tickless_idle_enabled, rest>>

(* Mutant: the sleep asked for, though the counter may be too short for it.*)
MutElapsedAsked == Budget

(* The milliseconds slept: rounded down, but never zero.                   *)
elapsed_ms ==
    LET ticks == IF syst.countflag THEN syst.rvr + 1 ELSE syst.rvr - syst.cvr
    IN  IF ticks \div TICKS_PER_MS = 0 THEN 1 ELSE ticks \div TICKS_PER_MS

(* Its second half, after the wfi.                                         *)
IdleWoken ==
    /\ IdleAt("woken")
    /\ s_tickless_active' = FALSE
    /\ syst' = Armed(TICKS_PER_MS)
    /\ s_ticks' = (s_ticks + elapsed_ms) % TickModulus
    /\ s_timers' = Aged(s_timers, elapsed_ms)
    /\ idle' = [idle EXCEPT !.at = "apply", !.ms = elapsed_ms]
    /\ UNCHANGED <<k, pc, wakeAt, fired, s_tickless_idle_enabled, rest>>

(* sched_tick_n, in thread mode.  The tasks it readies preempt the idle    *)
(* task before it serves the timers.                                       *)
IdleApply ==
    /\ IdleAt("apply")
    /\ k' = sched_tick_n(k, idle.ms)
    /\ idle' = [at |-> "service", ms |-> 0, i |-> 0]
    /\ UNCHANGED <<pc, s_ticks, wakeAt, timerVars, syst, s_tickless_active,
                   s_tickless_idle_enabled, rest>>

(* timer_service_tick in thread mode: it reads the clock, then for each    *)
(* timer comes the test and, if it is due, the update and the callback.    *)
NextTimer(now) ==
    IF idle.i + 1 < TIMER_MAX_COUNT THEN [at |-> "service", ms |-> now, i |-> idle.i + 1]
    ELSE [at |-> "loop", ms |-> 0, i |-> 0]

IdleTest ==
    /\ IdleAt("service")
    /\ LET now == IF idle.i = 0 THEN s_ticks ELSE idle.ms
       IN  idle' = IF Due(s_timers[idle.i], now)
                   THEN [idle EXCEPT !.at = "expire", !.ms = now] ELSE NextTimer(now)
    /\ UNCHANGED <<schedVars, timerVars, syst, s_tickless_active, s_tickless_idle_enabled, rest>>

IdleExpire ==
    /\ IdleAt("expire")
    /\ s_timers' = [s_timers EXCEPT ![idle.i] = Expire(@, "nothing", idle.ms)]
    /\ fired' = {<<idle.i, s_timers[idle.i].left>>}
    /\ idle' = NextTimer(idle.ms)
    /\ UNCHANGED <<schedVars, syst, s_tickless_active, s_tickless_idle_enabled, rest>>

IdleNext == IdleLoop \/ IdleArm \/ IdleWoken \/ IdleApply \/ IdleTest \/ IdleExpire
-----------------------------------------------------------------------------
TaskDelay(t, ms) ==
    /\ sched_delay_ms(t, ms)
    /\ rest' = [rest EXCEPT ![t] = ms * TICKS_PER_MS]
    /\ UNCHANGED <<timerVars, syst, s_tickless_active, s_tickless_idle_enabled, idle>>

sched_tickless_idle_set(t, on) ==
    /\ Runs(t) /\ pc[t] = "user"
    /\ s_tickless_idle_enabled' = on
    /\ UNCHANGED <<schedVars, timerVars, syst, s_tickless_active, idle, rest>>

(* A requested SysTick is taken before any further instruction, but after  *)
(* PendSV.                                                                 *)
TicklessNext ==
    \/ TickHandler
    \/ PendSV /\ UNCHANGED <<timerVars, ticklessVars>>
    \/ /\ ~syst.pend
       /\ \/ HwTick \/ IdleNext
          \/ \E t \in Task :
               \/ SchedStep(t) /\ UNCHANGED <<timerVars, ticklessVars>>
               \/ \E ms \in Delay : TaskDelay(t, ms)
               \/ \E on \in BOOLEAN : sched_tickless_idle_set(t, on)

TicklessAllVars == <<timerAllVars, ticklessVars>>
TicklessSpec == TicklessInit /\ [][TicklessNext]_TicklessAllVars
-----------------------------------------------------------------------------
(* Properties.                                                             *)

(* A delay ends when the tick counter shows the time asked for, although   *)
(* the idle task moves the counter and the countdowns in two steps, by     *)
(* many milliseconds at once, and mixes them with ordinary ticks.          *)
TicklessDelayExact ==
    [][\A t \in Task :
          InDelay(t) /\ k.state[t] = "BLOCKED" /\ k'.state[t] # "BLOCKED" =>
             s_ticks' = wakeAt[t]]_TicklessAllVars

(* On the hardware clock no delay ends early: at most the millisecond that *)
(* was running at the call is missing.                                     *)
TicklessNeverEarly ==
    \A t \in Task : pc[t] = "delay_wait" /\ k.state[t] # "BLOCKED" => rest[t] <= TICKS_PER_MS

(* A timer's callback never runs early and at most one tick late, though   *)
(* tasks readied by the same sleep may run for long before the idle task   *)
(* comes to serving the timers, and no sleep skips an expiry.              *)
TicklessTimersServed ==
    /\ \A f \in fired : f[2] \in {0, -1}
    /\ \A i \in Timers : s_timers[i].active => s_timers[i].left >= -1

(* No drift: on the hardware clock a delayed task is readied less than a   *)
(* millisecond after the time it asked for.                                *)
TicklessNoDrift ==
    \A t \in Task : k.state[t] = "BLOCKED" => rest[t] > -TICKS_PER_MS
=============================================================================
