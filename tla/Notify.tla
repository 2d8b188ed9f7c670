------------------------------- MODULE Notify -------------------------------
(***************************************************************************)
(* Task notifications (kernel/core/notify.c, include/notify.h) on top of   *)
(* the scheduler: one pending flag per task.  The giver sets it in a       *)
(* critical section and wakes the receiver after it, going by the state    *)
(* the receiver had inside it.  The value that is stored and read together *)
(* with the flag is left out.                                              *)
(***************************************************************************)
EXTENDS Scheduler

CONSTANTS
    NotifyTimeout, \* timeouts of task_notify_wait
    NotifyReceiver \* tasks that wait for notifications and are given them

(* TASK_NOTIFY_WAIT_FOREVER is the largest tick count and is counted down  *)
(* like any other.                                                         *)
TASK_NOTIFY_WAIT_FOREVER == TickModulus - 1

ASSUME NotifyAssumption ==
    /\ NotifyTimeout \subseteq 0 .. TASK_NOTIFY_WAIT_FOREVER
    /\ NotifyReceiver \subseteq Task

VARIABLES
    notify_pending, \* task_t.notify_pending
    target          \* the task a task_notify_give is about to wake, else NULL

notifyVars == <<notify_pending, target>>
notifyAllVars == <<schedVars, notifyVars>>

NotifyTypeOK ==
    /\ SchedTypeOK
    /\ pc \in [Task -> SchedLabel \cup {"give_wake", "give_trigger", "notify_woken"}]
    /\ notify_pending \in [Task -> BOOLEAN]
    /\ target \in [Task -> Task \cup {NULL}]

NotifyInit ==
    /\ SchedInit
    /\ notify_pending = [t \in Task |-> FALSE]
    /\ target = [t \in Task |-> NULL]
-----------------------------------------------------------------------------
(* The critical section of task_notify_give.                               *)
Store(r) == notify_pending' = [notify_pending EXCEPT ![r] = TRUE]

(* Mutant: only a receiver whose wait has no timeout left is woken.        *)
MutBlockedForGood(r) == k.state[r] = "BLOCKED" /\ k.delay_ticks[r] = 0

WasBlocked(r) == k.state[r] = "BLOCKED"

task_notify_give(t, r) ==
    /\ Runs(t) /\ pc[t] = "user"
    /\ Store(r)
    /\ IF WasBlocked(r)
       THEN target' = [target EXCEPT ![t] = r] /\ Goto(t, "give_wake")
       ELSE UNCHANGED <<target, pc>>
    /\ UNCHANGED <<k, s_ticks, wakeAt>>

(* sched_wake_task with interrupts enabled: its critical section, then the *)
(* trigger.  The receiver is readied whatever it does by now.              *)
GiveWake(t) ==
    /\ Runs(t) /\ pc[t] = "give_wake"
    /\ k' = WakeLocked(k, target[t])
    /\ target' = [target EXCEPT ![t] = NULL]
    /\ Goto(t, "give_trigger")
    /\ UNCHANGED <<s_ticks, wakeAt, notify_pending>>

GiveTrigger(t) ==
    /\ Runs(t) /\ pc[t] = "give_trigger"
    /\ k' = TriggerIfSwitch(k)
    /\ Goto(t, "user")
    /\ UNCHANGED <<s_ticks, wakeAt, notifyVars>>

(* task_notify_give_from_isr: nothing this model has interrupts it.        *)
NotifyFromIsr(r) ==
    /\ Store(r)
    /\ k' = IF WasBlocked(r) THEN sched_wake_task(k, r) ELSE k
    /\ UNCHANGED <<pc, s_ticks, wakeAt, target>>

Consume(t) ==
    /\ notify_pending' = [notify_pending EXCEPT ![t] = FALSE]
    /\ UNCHANGED target

Pending(t) == notify_pending[t]

(* The countdown of a wait.  Mutant: none, as for an untimed wait.         *)
MutNoCountdown(ms) == 0

Countdown(ms) == ms

(* task_notify_wait; with timeout 0 and nothing pending it just returns.   *)
task_notify_wait(t, ms) ==
    /\ Runs(t) /\ pc[t] = "user" /\ t \in NotifyReceiver
    /\ \/ Pending(t) /\ Consume(t) /\ UNCHANGED <<k, pc>>
       \/ /\ ~Pending(t) /\ ms > 0
          /\ k' = sched_block_locked([k EXCEPT !.state[t] = "BLOCKED",
                                               !.delay_ticks[t] = Countdown(ms),
                                               !.wait_list_head[t] = NULL])
          /\ Goto(t, "notify_woken")
          /\ UNCHANGED notifyVars
    /\ UNCHANGED <<s_ticks, wakeAt>>

(* Its second critical section, once the task runs again.                  *)
NotifyWoken(t) ==
    /\ Runs(t) /\ pc[t] = "notify_woken"
    /\ IF notify_pending[t] THEN Consume(t) ELSE UNCHANGED notifyVars
    /\ Goto(t, "user")
    /\ UNCHANGED <<k, s_ticks, wakeAt>>

NotifyStep(t) == GiveWake(t) \/ GiveTrigger(t) \/ NotifyWoken(t)

NotifyNext ==
    \/ (SysTick_Handler \/ PendSV) /\ UNCHANGED notifyVars
    \/ \E t \in Task :
         \/ (SchedStep(t) \/ \E ms \in Delay : sched_delay_ms(t, ms)) /\ UNCHANGED notifyVars
         \/ NotifyStep(t)
         \/ \E ms \in NotifyTimeout : task_notify_wait(t, ms)
    \/ \E r \in NotifyReceiver :
         NotifyFromIsr(r) \/ \E t \in Task : task_notify_give(t, r)

NotifySpec == NotifyInit /\ [][NotifyNext]_notifyAllVars
-----------------------------------------------------------------------------
(* Properties.                                                             *)

InNotifyWait(t) == pc[t] = "notify_woken"

(* No notification is lost between the giver's two critical sections: a    *)
(* receiver that is blocked in task_notify_wait with a notification        *)
(* pending has a giver that is about to wake it.                           *)
NotifyNotLost ==
    \A r \in Task :
        InNotifyWait(r) /\ k.state[r] = "BLOCKED" /\ notify_pending[r] =>
            \E t \in Task : target[t] = r

(* A receiver that no other task is preferred to consumes a notification   *)
(* given while it waits, and its wait ends in any case: by the             *)
(* notification, by the timeout or by a wake-up meant for an earlier wait. *)
NotifyWaitEnds ==
    \A t \in NotifyReceiver :
        (InNotifyWait(t) /\ \A u \in Task : k.priority[t] <= k.priority[u])
            ~> pc[t] = "user"
=============================================================================
