------------------------------ MODULE MCClock ------------------------------
(* Event groups, software timers and the tickless idle task, checked in    *)
(* one run.  A behaviour is of tasks that use one of them; focus says      *)
(* which.                                                                  *)
EXTENDS Event, Tickless

VARIABLE focus

clockVars == <<schedVars, eventVars, timerVars, ticklessVars, focus>>

(* A most urgent task and one or two equals.                               *)
MCOneUrgent == {[t \in Task |-> IF t = TASK_MAX - 1 THEN 0 ELSE 1]}

(* Any or all of the bits, taking or leaving them.                         *)
MCRequest ==
    [group : EventGroup, mask : {Bit}, mode : {"EVENT_WAIT_ALL"}, auto_clear : {TRUE}]
      \cup [group : EventGroup, mask : {{b} : b \in Bit}, mode : {"EVENT_WAIT_ANY"},
            auto_clear : BOOLEAN]

(* The bits are interchangeable.                                           *)
MCSymmetry == Permutations(Bit)

MCTimers == {<<1, FALSE>>, <<3, TRUE>>}

ClockInit ==
    /\ EventInit /\ IdleInit
    /\ \/ focus = "event" /\ TimerInit /\ s_tickless_idle_enabled = FALSE
       \/ focus = "timer" /\ TimerInit /\ s_tickless_idle_enabled = FALSE
       \/ focus = "tickless" /\ TicklessInit

ClockNext ==
    /\ \/ focus = "event" /\ EventNext /\ UNCHANGED <<timerVars, ticklessVars>>
       \/ focus = "timer" /\ TimerNext /\ UNCHANGED <<eventVars, ticklessVars>>
       \/ focus = "tickless" /\ TicklessNext /\ UNCHANGED eventVars
    /\ UNCHANGED focus

ClockSpec == ClockInit /\ [][ClockNext]_clockVars

(* The tickless part alone.                                                *)
DriftSpec ==
    /\ EventInit /\ TicklessInit /\ focus = "tickless"
    /\ [][ClockNext]_clockVars
-----------------------------------------------------------------------------
(* Without tickless sleeps every callback runs at its very tick.           *)
TicksServeTimers == focus = "timer" => TimerOnTime
=============================================================================
