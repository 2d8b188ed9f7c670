-------------------------------- MODULE Timer --------------------------------
(***************************************************************************)
(* Software timers (kernel/core/timer.c, include/timer.h): a static pool   *)
(* of one-shot and auto-reload timers with deadlines on the 32-bit tick    *)
(* counter, served by SysTick_Handler.  Callbacks run in the handler and   *)
(* may themselves start, stop or delete their timer.                       *)
(***************************************************************************)
EXTENDS Scheduler

CONSTANTS
    TIMER_MAX_COUNT, \* size of s_timers
    Period,          \* arguments period_ms
    Reaction         \* what callbacks do to their own timer

ASSUME TimerAssumption ==
    /\ TIMER_MAX_COUNT \in Nat \ {0}
    /\ Period \subseteq 1 .. (TickModulus \div 2 - 1)
    /\ Reaction \subseteq {"nothing", "timer_start", "timer_stop", "timer_delete"}

VARIABLES
    s_timers, \* the pool; the field left is auxiliary: milliseconds to the expiry
    fired     \* auxiliary: the callbacks the last service ran, with their left

timerVars == <<s_timers, fired>>
timerAllVars == <<schedVars, timerVars>>

Timers == 0 .. (TIMER_MAX_COUNT - 1)

FreeTimer ==
    [in_use |-> FALSE, active |-> FALSE, auto_reload |-> FALSE,
     period_ms |-> 0, deadline_ms |-> 0, left |-> 0]

TimerTypeOK ==
    /\ SchedTypeOK
    /\ s_timers \in [Timers -> [in_use : BOOLEAN, active : BOOLEAN, auto_reload : BOOLEAN,
                                period_ms : Period \cup {0}, deadline_ms : Time, left : Int]]
    /\ fired \subseteq Timers \X Int

TimerInit ==
    /\ SchedInit
    /\ s_timers = [i \in Timers |-> FreeTimer]
    /\ fired = {}
-----------------------------------------------------------------------------
(* The calls.  Each is a critical section; on a handle that is not in use  *)
(* all but timer_delete do nothing.                                        *)

Starting(x, now) ==
    [x EXCEPT !.deadline_ms = Deadline(now, x.period_ms), !.left = x.period_ms, !.active = TRUE]

(* The deadline of a stopped timer and the fields of a deleted one are not *)
(* read before timer_start or timer_create writes them.                    *)
Stopping(x) == [x EXCEPT !.active = FALSE, !.deadline_ms = 0, !.left = 0]

Deleting(x) == FreeTimer

Free == {i \in Timers : ~s_timers[i].in_use}

(* With no free entry timer_create returns -1.                             *)
timer_create(period, reload) ==
    /\ Free # {}
    /\ s_timers' = [s_timers EXCEPT ![Min(Free)] =
                       [FreeTimer EXCEPT !.in_use = TRUE, !.auto_reload = reload,
                                         !.period_ms = period]]

timer_start(i) == s_timers' = [s_timers EXCEPT ![i] = Starting(@, s_ticks)]

timer_stop(i) == s_timers' = [s_timers EXCEPT ![i] = Stopping(@)]

timer_set_period(i, period) == s_timers' = [s_timers EXCEPT ![i].period_ms = period]

timer_delete(i) == s_timers' = [s_timers EXCEPT ![i] = Deleting(@)]

TimerCall(t) ==
    /\ Runs(t) /\ pc[t] = "user"
    /\ \/ \E p \in Period : \E r \in BOOLEAN : timer_create(p, r)
       \/ \E i \in Timers \ Free :
            \/ timer_start(i) \/ timer_stop(i) \/ timer_delete(i)
            \/ \E p \in Period : timer_set_period(i, p)
    /\ UNCHANGED <<schedVars, fired>>
-----------------------------------------------------------------------------
(* The service.                                                            *)

(* (int32_t)(now - deadline) >= 0 and the value of (int32_t)d.             *)
Signed(d) ==
    IF d % TickModulus < TickModulus \div 2 THEN d % TickModulus
    ELSE (d % TickModulus) - TickModulus

(* Mutant: the tick values are compared as they are.                       *)
MutDueUnsigned(x, now) == x.in_use /\ x.active /\ now >= x.deadline_ms

Due(x, now) == x.in_use /\ x.active /\ Signed(now - x.deadline_ms) >= 0

(* The state update before the callback; an auto-reload timer moves its    *)
(* deadline by the period in force, from the old deadline.                 *)
Rearm(x) ==
    IF x.auto_reload
    THEN [x EXCEPT !.deadline_ms = (@ + x.period_ms) % TickModulus, !.left = @ + x.period_ms]
    ELSE Stopping(x)

React(x, r, now) ==
    CASE r = "timer_start"  -> Starting(x, now)
      [] r = "timer_stop"   -> Stopping(x)
      [] r = "timer_delete" -> Deleting(x)
      [] OTHER              -> x

(* One iteration of the loop for a timer that is due.                      *)
Expire(x, r, now) == React(Rearm(x), r, now)

timer_service_tick(pool, react, now) ==
    [i \in Timers |-> IF Due(pool[i], now) THEN Expire(pool[i], react[i], now) ELSE pool[i]]

(* n milliseconds pass for the running timers (auxiliary).                 *)
Aged(pool, n) ==
    [i \in Timers |-> [pool[i] EXCEPT !.left = IF pool[i].active THEN @ - n ELSE @]]

(* What SysTick_Handler does to the timers when the time becomes now.      *)
Service(react, now) ==
    LET pool == Aged(s_timers, 1)
    IN  /\ s_timers' = timer_service_tick(pool, react, now)
        /\ fired' = {<<i, pool[i].left>> : i \in {j \in Timers : Due(pool[j], now)}}

TimerTick ==
    /\ Tick
    /\ k' = sched_tick_n(k, 1)
    /\ \E react \in [Timers -> Reaction] : Service(react, s_ticks')
    /\ UNCHANGED <<pc, wakeAt>>

TimerNext ==
    \/ TimerTick
    \/ PendSV /\ UNCHANGED timerVars
    \/ \E t \in Task : TimerCall(t)

TimerSpec == TimerInit /\ [][TimerNext]_timerAllVars
-----------------------------------------------------------------------------
(* Properties.                                                             *)

(* A callback runs at the tick its timer has counted down to and at no     *)
(* other, and no expiry is missed, whatever start, stop, set_period and    *)
(* delete calls tasks and callbacks made, and also when the deadline lies  *)
(* beyond the wrap of the tick counter.  (With the types of the pool.)     *)
TimerOnTime ==
    /\ TimerTypeOK
    /\ \A f \in fired : f[2] = 0
    /\ \A i \in Timers : s_timers[i].active => s_timers[i].left > 0
=============================================================================
