-------------------------------- MODULE Event --------------------------------
(***************************************************************************)
(* Event groups (kernel/core/event.c, include/event.h) on top of the       *)
(* scheduler.  A group is a set of bits; a task waits for any or for all   *)
(* bits of a mask, with or without a timeout, and may have the mask        *)
(* cleared when it is satisfied.  What a waiter asked for lies in a slot   *)
(* of the pool s_pending, where the setter finds it and leaves the bits it *)
(* saw.                                                                    *)
(***************************************************************************)
EXTENDS Scheduler

CONSTANTS
    EventGroup,        \* the groups, each the address of its wait-list head
    Bit,               \* the bits of a group
    EVENT_PENDING_MAX, \* slots in s_pending
    EventRequest,      \* what tasks wait for: group, mask, mode, auto_clear
    EventTimeout,      \* timeouts of event_wait_timeout
    EventWaiter,       \* the tasks that wait for events
    EventSetter        \* the tasks that set and clear them

WaitMode == {"EVENT_WAIT_ANY", "EVENT_WAIT_ALL"}

ASSUME EventAssumption ==
    /\ EventGroup \subseteq WaitList
    /\ EventRequest \subseteq [group : EventGroup, mask : (SUBSET Bit) \ {{}},
                               mode : WaitMode, auto_clear : BOOLEAN]
    /\ EVENT_PENDING_MAX \in Nat /\ EVENT_PENDING_MAX >= TASK_MAX
    /\ EventTimeout \subseteq Nat
    /\ EventWaiter \subseteq Task /\ EventSetter \subseteq Task

VARIABLES
    bits,      \* event_group_t.bits
    s_pending, \* the pool of waiters' requests
    evCall     \* the arguments and the deadline of the call a task is in

eventVars == <<bits, s_pending, evCall>>
eventAllVars == <<schedVars, eventVars>>

Slot == 0 .. (EVENT_PENDING_MAX - 1)

(* A free slot.  What a freed slot still holds is not read before it is    *)
(* written again, so it is forgotten.                                      *)
EmptySlot == [task |-> NULL, req |-> NULL, observed_bits |-> {}]

(* No deadline: event_wait.                                                *)
Forever == TickModulus
NoCall == NULL

EventTypeOK ==
    /\ SchedTypeOK
    /\ pc \in [Task -> SchedLabel \cup {"event_try", "event_woken"}]
    /\ bits \in [EventGroup -> SUBSET Bit]
    /\ \A i \in Slot : /\ s_pending[i].task \in Task \cup {NULL}
                       /\ s_pending[i].observed_bits \subseteq Bit
    /\ \A t \in Task : evCall[t] # NoCall =>
          evCall[t].req \in EventRequest /\ evCall[t].deadline \in Time \cup {Forever}

EventInit ==
    /\ SchedInit
    /\ bits = [e \in EventGroup |-> {}]
    /\ s_pending = [i \in Slot |-> EmptySlot]
    /\ evCall = [t \in Task |-> NoCall]
-----------------------------------------------------------------------------
(* Mutant: waiting for all bits is satisfied by one of them.               *)
MutAnyIsEnough(b, req) == b \cap req.mask # {}

event_condition_met(b, req) ==
    IF req.mode = "EVENT_WAIT_ALL" THEN req.mask \subseteq b ELSE b \cap req.mask # {}

(* event_pending_find: the slots of task t; the code takes the first.      *)
event_pending_find(pool, t) == {i \in Slot : pool[i].task = t}

(* event_pending_alloc: the first free slot.                               *)
FreeSlot == Min({i \in Slot : s_pending[i].task = NULL})

(* Mutant: the slot of a wait that timed out is never freed.               *)
MutLeak(t) == IF k.timed_out[t] THEN s_pending
              ELSE [i \in Slot |-> IF s_pending[i].task = t
                                   THEN EmptySlot ELSE s_pending[i]]

(* event_pending_free                                                      *)
event_pending_free(t) ==
    [i \in Slot |-> IF s_pending[i].task = t THEN EmptySlot ELSE s_pending[i]]

AfterMatch(b, req) == IF req.auto_clear THEN b \ req.mask ELSE b

(* One iteration of event_wake_satisfied: m is the memory it changes.      *)
WakeIfSatisfied(m, e, t) ==
    LET i == Min(event_pending_find(m.pool, t))
        req == m.pool[i].req
    IN  IF event_condition_met(m.bits, req)
        THEN [bits |-> AfterMatch(m.bits, req),
              pool |-> [m.pool EXCEPT ![i].observed_bits = m.bits],
              kernel |-> sched_wake_task(
                  [m.kernel EXCEPT !.waiters[e] = Without(@, {t}), !.wait_list_head[t] = NULL], t)]
        ELSE m

(* The memory after each iteration of the loop over the wait list.         *)
Passed(m, e, list) ==
    LET after[n \in 0 .. Len(list)] ==
            IF n = 0 THEN m ELSE WakeIfSatisfied(after[n - 1], e, list[n])
    IN  after

(* Mutant: the setter looks at the first waiter only.                      *)
MutFirstOnly(m, e, list) == IF list = << >> THEN m ELSE WakeIfSatisfied(m, e, Head(list))

(* Waiters are served in order of urgency, and each one that clears its    *)
(* mask may take the bits from those behind it.                            *)
event_wake_satisfied(m, e, list) == Passed(m, e, list)[Len(list)]

(* event_set, in a task or in an interrupt (event_set_from_isr).           *)
event_set(e, new) ==
    LET m == event_wake_satisfied(
                 [bits |-> bits[e] \cup new, pool |-> s_pending, kernel |-> k], e, k.waiters[e])
    IN  /\ bits' = [bits EXCEPT ![e] = m.bits]
        /\ s_pending' = m.pool
        /\ k' = m.kernel
        /\ UNCHANGED <<pc, s_ticks, wakeAt, evCall>>

event_clear(e, old) ==
    /\ bits' = [bits EXCEPT ![e] = @ \ old]
    /\ UNCHANGED <<schedVars, s_pending, evCall>>

EventCall(t) ==
    /\ Runs(t) /\ pc[t] = "user" /\ t \in EventSetter
    /\ \E e \in EventGroup : \E b \in Bit : event_set(e, {b}) \/ event_clear(e, {b})

(* From an interrupt of any priority, also one that PendSV waits behind.   *)
EventFromIsr == \E e \in EventGroup : \E b \in Bit : event_set(e, {b}) \/ event_clear(e, {b})
-----------------------------------------------------------------------------
(* Entering event_wait or event_wait_timeout: the deadline is computed     *)
(* before the critical section.                                            *)
EnterWait(t, req, deadline) ==
    /\ Runs(t) /\ pc[t] = "user" /\ t \in EventWaiter
    /\ evCall' = [evCall EXCEPT ![t] = [req |-> req, deadline |-> deadline]]
    /\ Goto(t, "event_try")
    /\ UNCHANGED <<k, s_ticks, wakeAt, bits, s_pending>>

event_wait(t, req) == EnterWait(t, req, Forever)

event_wait_timeout(t, req, ms) == EnterWait(t, req, Deadline(s_ticks, ms))

Leave(t) == evCall' = [evCall EXCEPT ![t] = NoCall] /\ Goto(t, "user")

(* The mask is satisfied already: return at once.                          *)
EventNow(t) ==
    LET req == evCall[t].req
    IN  /\ Runs(t) /\ pc[t] = "event_try"
        /\ event_condition_met(bits[req.group], req)
        /\ bits' = [bits EXCEPT ![req.group] = AfterMatch(@, req)]
        /\ Leave(t)
        /\ UNCHANGED <<k, s_ticks, wakeAt, s_pending>>

TooLate(t) == evCall[t].deadline # Forever /\ DeadlinePassed(s_ticks, evCall[t].deadline)

EventTooLate(t) ==
    /\ Runs(t) /\ pc[t] = "event_try"
    /\ ~event_condition_met(bits[evCall[t].req.group], evCall[t].req)
    /\ TooLate(t)
    /\ Leave(t)
    /\ UNCHANGED <<k, s_ticks, wakeAt, bits, s_pending>>

(* Mutant: the full time-out is armed although time has passed.            *)
MutArmWhole(t, e) == ArmTimeout(k, t, e, evCall[t].deadline)

(* The countdown of a timed wait; event_wait only forgets the list head.   *)
ArmWait(t, e) ==
    IF evCall[t].deadline = Forever
    THEN [k EXCEPT !.wait_list_head[t] = NULL]
    ELSE ArmTimeout(k, t, e, evCall[t].deadline - s_ticks)

(* EVENT_PENDING_MAX >= TASK_MAX: event_pending_alloc finds a slot.        *)
EventBlock(t) ==
    LET req == evCall[t].req
    IN  /\ Runs(t) /\ pc[t] = "event_try"
        /\ ~event_condition_met(bits[req.group], req)
        /\ ~TooLate(t)
        /\ s_pending' = [s_pending EXCEPT ![FreeSlot].task = t, ![FreeSlot].req = req]
        /\ k' = BlockOn(ArmWait(t, req.group), t, req.group)
        /\ Goto(t, "event_woken")
        /\ UNCHANGED <<s_ticks, wakeAt, bits, evCall>>

(* The task runs again: an error if it timed out, else the observed bits.  *)
EventWoken(t) ==
    /\ Runs(t) /\ pc[t] = "event_woken"
    /\ k' = IF evCall[t].deadline # Forever /\ k.timed_out[t]
            THEN [k EXCEPT !.timed_out[t] = FALSE, !.wait_list_head[t] = NULL]
            ELSE k
    /\ s_pending' = event_pending_free(t)
    /\ Leave(t)
    /\ UNCHANGED <<s_ticks, wakeAt, bits>>

EventStep(t) == EventNow(t) \/ EventTooLate(t) \/ EventBlock(t) \/ EventWoken(t)

EventNext ==
    \/ (SysTick_Handler \/ PendSV) /\ UNCHANGED eventVars
    \/ EventFromIsr
    \/ \E t \in Task :
         \/ EventStep(t)
         \/ EventCall(t)
         \/ \E req \in EventRequest :
              event_wait(t, req) \/ \E ms \in EventTimeout : event_wait_timeout(t, req, ms)

EventSpec == EventInit /\ [][EventNext]_eventAllVars
-----------------------------------------------------------------------------
(* Properties.                                                             *)

InWait(t) == pc[t] = "event_woken"

(* What a request means: all bits of the mask, or one.                     *)
Satisfies(b, req) ==
    IF req.mode = "EVENT_WAIT_ALL" THEN \A x \in req.mask : x \in b ELSE \E x \in req.mask : x \in b

(* Task t was handed the bits it waited for and has not run since.         *)
Served(t) == InWait(t) /\ k.state[t] # "BLOCKED" /\ ~k.timed_out[t]

(* Every task inside a blocked wait owns exactly one slot, holding what it *)
(* asked for, and nobody else owns one: no slot leaks, whichever of        *)
(* event_set, the tick or an interrupt ends the wait, so event_pending_-   *)
(* alloc always finds one; and the list of a group links exactly the tasks *)
(* still blocked on it.  (With the types of the groups, slots and calls.)  *)
EventSlotsExact ==
    /\ EventTypeOK
    /\ LinkedOnce(k)
    /\ \A t \in Task :
         /\ Cardinality(event_pending_find(s_pending, t)) = IF InWait(t) THEN 1 ELSE 0
         /\ InWait(t) => \A i \in event_pending_find(s_pending, t) : s_pending[i].req = evCall[t].req
         /\ \A e \in EventGroup :
              t \in ToSet(k.waiters[e]) <=>
                 InWait(t) /\ k.state[t] = "BLOCKED" /\ evCall[t].req.group = e

(* No waiter sleeps on bits that satisfy it: one pass over the list is     *)
(* enough, although waiters clear bits of each other as they are served.   *)
EventNoneForgotten ==
    \A e \in EventGroup : \A i \in DOMAIN k.waiters[e] :
        ~Satisfies(bits[e], evCall[k.waiters[e][i]].req)

(* The bits a served waiter will return satisfy what it asked for, even    *)
(* if they were cleared, or the time ran out, before it got the CPU.       *)
EventResultSatisfies ==
    \A t \in Task : Served(t) =>
        \A i \in event_pending_find(s_pending, t) :
            Satisfies(s_pending[i].observed_bits, evCall[t].req)

(* A timed wait ends at its deadline and not before, unless the event      *)
(* happens: the countdown armed in the critical section is exact even when *)
(* ticks fell between reading the clock and entering it.                   *)
EventEndsAtDeadline ==
    \A t \in Task :
        InWait(t) /\ k.state[t] = "BLOCKED" /\ evCall[t].deadline # Forever =>
            s_ticks + k.delay_ticks[t] = evCall[t].deadline
=============================================================================
