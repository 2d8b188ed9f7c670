-------------------------------- MODULE Queue --------------------------------
(***************************************************************************)
(* The message queue (kernel/core/queue.c) on top of the scheduler: a ring *)
(* buffer with a wait list for each direction.  Sending and receiving are  *)
(* mirror images; dir says which.                                          *)
(*                                                                         *)
(* A call that moves an item takes the first waiter of the other direction *)
(* off its list inside the critical section and wakes it after the end of  *)
(* the critical section: in between the waiter is on no list, still        *)
(* blocked and its timeout still runs.                                     *)
(***************************************************************************)
EXTENDS Scheduler

CONSTANTS
    Capacity,        \* q->capacity
    Item,            \* the items that are sent
    waiters_send,    \* &q->waiters_send
    waiters_receive, \* &q->waiters_receive
    Timeout,         \* arguments of the timed calls
    TimedCaller      \* the tasks that make timed calls

ASSUME QueueAssumption ==
    /\ Capacity \in Nat \ {0}
    /\ NULL \notin Item
    /\ {waiters_send, waiters_receive} \subseteq WaitList
    /\ waiters_send # waiters_receive
    /\ Timeout \subseteq Nat
    /\ TimedCaller \subseteq Task

VARIABLES
    q,     \* buffer, count, head and tail of the queue_t
    last,  \* auxiliary: the item handed to a receiver last
    op     \* arguments and locals of the queue call a task is in

queueVars == <<q, last, op>>
vars == <<schedVars, queueVars>>

Direction == {"send", "receive"}

QueueLabel ==
    {"q_try",     \* before the critical section
     "q_check",   \* a timed call after sched_block_locked
     "q_wake",    \* item moved, before sched_wake_task(waiter)
     "q_trigger"} \* sched_wake_task, before its trigger_pendsv

NoOp == [dir |-> NULL, item |-> NULL, mode |-> NULL, deadline |-> 0, waiter |-> NULL]

QueueTypeOK ==
    /\ SchedTypeOK
    /\ pc \in [Task -> SchedLabel \cup QueueLabel]
    /\ q \in [buffer : [0 .. (Capacity - 1) -> Item \cup {NULL}],
              count : 0 .. Capacity,
              head : 0 .. (Capacity - 1),
              tail : 0 .. (Capacity - 1)]
    /\ last \in Item \cup {NULL}
    /\ op \in [Task -> [dir : Direction \cup {NULL}, item : Item \cup {NULL},
                        mode : {"block", "timed", "try", NULL}, deadline : Time,
                        waiter : Task \cup {NULL}]]

queue_init ==
    [buffer |-> [i \in 0 .. (Capacity - 1) |-> NULL], count |-> 0, head |-> 0, tail |-> 0]

QueueInit ==
    /\ SchedInit
    /\ q = queue_init
    /\ last = NULL
    /\ op = [t \in Task |-> NoOp]
-----------------------------------------------------------------------------
(* The ring buffer.                                                        *)

Possible(dir) == IF dir = "send" THEN q.count < Capacity ELSE q.count > 0

queue_copy_in(item) ==
    [q EXCEPT !.buffer[q.tail] = item,
              !.tail = (@ + 1) % Capacity,
              !.count = @ + 1]

(* Mutant: the newest item is handed out.                                  *)
MutCopyOutNewest ==
    [q EXCEPT !.tail = (@ + Capacity - 1) % Capacity, !.count = @ - 1]

queue_copy_out ==
    [q EXCEPT !.head = (@ + 1) % Capacity,
              !.count = @ - 1]

(* queue_copy_in or queue_copy_out.                                        *)
Move(dir, item) ==
    \/ dir = "send" /\ q' = queue_copy_in(item) /\ UNCHANGED last
    \/ dir = "receive" /\ q' = queue_copy_out /\ last' = q.buffer[q.head]

OwnList(dir) == IF dir = "send" THEN waiters_send ELSE waiters_receive

(* Mutant: the caller's own direction is woken.                            *)
MutOwnPeer(dir) == IF dir = "send" THEN waiters_send ELSE waiters_receive

PeerList(dir) == IF dir = "send" THEN waiters_receive ELSE waiters_send
-----------------------------------------------------------------------------
(* The calls: queue_send, queue_receive, queue_try_send, queue_try_receive *)
(* and, after reading the clock, the timed ones.                           *)
Enter(t, dir, item, mode, deadline) ==
    /\ Runs(t) /\ pc[t] = "user"
    /\ op' = [op EXCEPT ![t] = [dir |-> dir, item |-> item, mode |-> mode,
                                deadline |-> deadline, waiter |-> NULL]]
    /\ Goto(t, "q_try")
    /\ UNCHANGED <<k, s_ticks, wakeAt, q, last>>

queue_send(t, x) == Enter(t, "send", x, "block", 0)

queue_receive(t) == Enter(t, "receive", NULL, "block", 0)

queue_try_send(t, x) == Enter(t, "send", x, "try", 0)

queue_try_receive(t) == Enter(t, "receive", NULL, "try", 0)

queue_send_timeout(t, x, ms) == Enter(t, "send", x, "timed", Deadline(s_ticks, ms))

queue_receive_timeout(t, ms) == Enter(t, "receive", NULL, "timed", Deadline(s_ticks, ms))

Return(t) ==
    /\ op' = [op EXCEPT ![t] = NoOp]
    /\ Goto(t, "user")

(* The end of a successful call: the timed ones reset wait_list_head.      *)
Finished(r, t) ==
    IF op[t].mode = "timed" THEN [r EXCEPT !.wait_list_head[t] = NULL] ELSE r

(* The critical section when the item can be moved.  Of the locals only    *)
(* the mode and the waiter are used after it.                              *)
Transfer(t) ==
    LET peer == PeerList(op[t].dir)
        waiter == FirstWaiter(k, peer)
    IN  /\ Runs(t) /\ pc[t] = "q_try"
        /\ Possible(op[t].dir)
        /\ Move(op[t].dir, op[t].item)
        /\ IF waiter = NULL
           THEN Return(t) /\ k' = Finished(k, t)
           ELSE /\ k' = wq_pop(k, peer)
                /\ op' = [op EXCEPT ![t] = [NoOp EXCEPT !.mode = op[t].mode, !.waiter = waiter]]
                /\ Goto(t, "q_wake")
        /\ UNCHANGED <<s_ticks, wakeAt>>

(* Mutant: the remaining time is one tick too long.                        *)
MutRemainingPlusOne(deadline, now) == deadline - now + 1

Remaining(deadline, now) == deadline - now

(* The critical section when it cannot: fail, give up or block.            *)
Wait(t) ==
    LET own == OwnList(op[t].dir)
    IN  /\ Runs(t) /\ pc[t] = "q_try"
        /\ ~Possible(op[t].dir)
        /\ \/ /\ \/ op[t].mode = "try"
                 \/ op[t].mode = "timed" /\ DeadlinePassed(s_ticks, op[t].deadline)
              /\ Return(t)
              /\ UNCHANGED k
           \/ /\ op[t].mode = "block"
              /\ k' = BlockOn(k, t, own)
              /\ UNCHANGED <<op, pc>>
           \/ /\ op[t].mode = "timed" /\ ~DeadlinePassed(s_ticks, op[t].deadline)
              /\ k' = BlockOn(ArmTimeout(k, t, own, Remaining(op[t].deadline, s_ticks)), t, own)
              /\ Goto(t, "q_check")
              /\ UNCHANGED op
        /\ UNCHANGED <<s_ticks, wakeAt, q, last>>

Check(t) ==
    /\ Runs(t) /\ pc[t] = "q_check"
    /\ IF k.timed_out[t]
       THEN /\ k' = [k EXCEPT !.timed_out[t] = FALSE, !.wait_list_head[t] = NULL]
            /\ Return(t)
       ELSE Goto(t, "q_try") /\ UNCHANGED <<k, op>>
    /\ UNCHANGED <<s_ticks, wakeAt, q, last>>

(* sched_wake_task(waiter), whatever has become of the waiter meanwhile.   *)
Wake(t) ==
    /\ Runs(t) /\ pc[t] = "q_wake"
    /\ k' = WakeLocked(k, op[t].waiter)
    /\ op' = [op EXCEPT ![t].waiter = NULL]
    /\ Goto(t, "q_trigger")
    /\ UNCHANGED <<s_ticks, wakeAt, q, last>>

WakeTrigger(t) ==
    /\ Runs(t) /\ pc[t] = "q_trigger"
    /\ k' = Finished(TriggerIfSwitch(k), t)
    /\ Return(t)
    /\ UNCHANGED <<s_ticks, wakeAt, q, last>>

(* queue_send_from_isr or queue_receive_from_isr in systick_isr_hook, at   *)
(* the end of SysTick_Handler; on a full or empty queue they do nothing.   *)
IsrMove(dir, item) ==
    LET r == sched_tick_n(k, 1)
        waiter == FirstWaiter(r, PeerList(dir))
    IN  /\ Tick
        /\ Possible(dir)
        /\ Move(dir, item)
        /\ k' = IF waiter = NULL THEN r ELSE sched_wake_task(wq_pop(r, PeerList(dir)), waiter)
        /\ UNCHANGED <<pc, wakeAt, op>>
-----------------------------------------------------------------------------
QueueCall(t) ==
    \/ \E x \in Item : queue_send(t, x) \/ queue_try_send(t, x)
    \/ queue_receive(t) \/ queue_try_receive(t)
    \/ /\ t \in TimedCaller
       /\ \E ms \in Timeout :
             queue_receive_timeout(t, ms) \/ \E x \in Item : queue_send_timeout(t, x, ms)

QueueStep(t) == Transfer(t) \/ Wait(t) \/ Check(t) \/ Wake(t) \/ WakeTrigger(t)

QueueNext ==
    \/ SchedNext /\ UNCHANGED queueVars
    \/ \E t \in Task : QueueCall(t) \/ QueueStep(t)
    \/ IsrMove("receive", NULL) \/ \E x \in Item : IsrMove("send", x)

QueueSpec == QueueInit /\ [][QueueNext]_vars
-----------------------------------------------------------------------------
(* Properties.                                                             *)

(* The items in the ring, oldest first.                                    *)
Contents == [i \in 1 .. q.count |-> q.buffer[(q.head + i - 1) % Capacity]]

Fifo == INSTANCE BoundedFifo WITH fifo <- Contents, NoItem <- NULL

(* The ring buffer implements the bounded FIFO: whoever is interrupted     *)
(* where, items come out in the order they went in, none lost, none twice. *)
QueueIsFifo == Fifo!FifoSpec

Popped(t) == \E u \in Task : op[u].waiter = t

Waiting(t, dir) ==
    /\ op[t].dir = dir /\ pc[t] \in {"q_try", "q_check"}
    /\ k.state[t] = "BLOCKED"

(* The two wait lists hold exactly the blocked callers whom nobody has     *)
(* taken off yet, each once and in order of urgency.  (With the types of   *)
(* the ring and of the calls under way.)                                   *)
QueueWaitListExact ==
    /\ QueueTypeOK
    /\ LinkedOnce(k)
    /\ \A dir \in Direction :
         LET s == k.waiters[OwnList(dir)]
         IN  /\ \A t \in Task : t \in ToSet(s) <=> Waiting(t, dir) /\ ~Popped(t)
             /\ \A i, j \in DOMAIN s : i < j => k.priority[s[i]] <= k.priority[s[j]]

(* Nobody is stranded: while an item can be moved and callers wait to move *)
(* one, a caller of that direction is on its way to do so.                 *)
QueueNoLostWakeup ==
    \A dir \in Direction :
        Possible(dir) /\ k.waiters[OwnList(dir)] # << >> =>
            \E t \in Task :
                /\ op[t].dir = dir /\ op[t].mode # "try"
                /\ pc[t] \in {"q_try", "q_check"}
                /\ Popped(t) \/ k.state[t] # "BLOCKED"

(* The wait of a timed call ends at its deadline: the clock is read inside *)
(* the critical section that arms the countdown, also when the call wakes, *)
(* loses a race and waits again.                                           *)
QueueWaitEndsAtDeadline ==
    \A t \in Task :
        pc[t] = "q_check" /\ k.state[t] = "BLOCKED"
          => s_ticks + k.delay_ticks[t] = op[t].deadline
=============================================================================
