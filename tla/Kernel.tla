------------------------------- MODULE Kernel -------------------------------
(***************************************************************************)
(* Task control blocks and the scheduling decisions of TamgaOS             *)
(* (kernel/core/scheduler.c), as operators on one record k that holds the  *)
(* kernel's shared memory:                                                 *)
(*                                                                         *)
(*   state, priority, delay_ticks, wait_list_head, timed_out               *)
(*                    the task_t fields of every task (task.h)             *)
(*   s_task_count, g_current_task, g_next_task                             *)
(*                    the scheduler's statics                              *)
(*   pendsv           the PENDSVSET bit of SCB_ICSR                        *)
(*   waiters          the wait list behind every list head of the kernel   *)
(*   late             auxiliary: the tasks whose readiness or whose        *)
(*                    priority relative to the running task changed        *)
(*                    without a scheduling decision being taken since      *)
(*                                                                         *)
(* A wait list is the sequence of the tasks reached from its head along    *)
(* wait_next.  wait_next itself is read only for tasks on a list and is    *)
(* reset by every insertion, so the sequence says all there is to say as   *)
(* long as no task is linked twice; LinkedOnce states that.                *)
(*                                                                         *)
(* Every operator is one stretch of code that interrupts cannot split:     *)
(* it runs between sched_critical_enter and sched_critical_exit, or in a   *)
(* handler of the lowest interrupt priority.                               *)
(***************************************************************************)
EXTENDS Integers, FiniteSets, Sequences, SequencesExt

CONSTANTS
    TASK_MAX,   \* size of s_tasks
    IdleTask,   \* &s_idle_tcb
    NULL,       \* the null pointer
    WaitList    \* addresses of wait-list heads (&m->waiters, ...)

Task == 0 .. (TASK_MAX - 1)
Thread == Task \cup {IdleTask}

ASSUME KernelAssumption ==
    /\ TASK_MAX \in Nat \ {0}
    /\ IdleTask \notin Int
    /\ NULL \notin Thread \cup WaitList
    /\ NULL \notin Int

TaskState == {"READY", "RUNNING", "BLOCKED", "PAUSED"}

(* uint8_t priority, 0 is the most urgent; sched_select_next starts its    *)
(* search with best = 0xFF, so a task of priority 255 is never chosen.     *)
NoPriority == 255
Priority == 0 .. NoPriority

Created(k) == 0 .. (k.s_task_count - 1)

KernelTypeOK(k) ==
    k \in [state          : [Thread -> TaskState],
           priority       : [Task -> Priority],
           delay_ticks    : [Task -> Nat],
           wait_list_head : [Task -> WaitList \cup {NULL}],
           timed_out      : [Task -> BOOLEAN],
           s_task_count   : 0 .. TASK_MAX,
           g_current_task : Thread \cup {NULL},
           g_next_task    : Thread \cup {NULL},
           pendsv         : BOOLEAN,
           waiters        : [WaitList -> Seq(Task)],
           late           : SUBSET Task]
-----------------------------------------------------------------------------
(* Wait lists.                                                             *)

(* wq_insert: behind every waiter that is at least as urgent, up to the    *)
(* first one that is less urgent.                                          *)
wq_insert(k, h, t) ==
    LET s == k.waiters[h]
        i == Min({j \in 1 .. Len(s) : k.priority[s[j]] > k.priority[t]}
                   \cup {Len(s) + 1})
    IN  [k EXCEPT !.waiters[h] = InsertAt(s, i, t)]

(* What wq_pop returns, the first waiter or NULL, and what it leaves.      *)
FirstWaiter(k, h) == IF k.waiters[h] = << >> THEN NULL ELSE Head(k.waiters[h])

(* Mutant: the head is read and not advanced.                              *)
MutPeek(k, h) == k

wq_pop(k, h) == [k EXCEPT !.waiters[h] = IF @ = << >> THEN @ ELSE Tail(@)]

(* The subsequence of s without the members of ts.  (SelectSeq, written    *)
(* without recursion so that proofs can use it.)                           *)
Without(s, ts) ==
    LET kept == {i \in DOMAIN s : s[i] \notin ts}
        Place(j) == CHOOSE i \in kept : Cardinality({p \in kept : p <= i}) = j
    IN  [j \in 1 .. Cardinality(kept) |-> s[Place(j)]]

(* Mutant: a waiter that times out stays linked.                          *)
MutKeepLinked(waiters, heads, ts) == waiters

(* sched_wait_list_remove for every task of the set ts at once.            *)
sched_wait_list_remove(waiters, heads, ts) ==
    [h \in WaitList |-> Without(waiters[h], {t \in ts : heads[t] = h})]

(* t->wait_next = NULL: whatever follows t on its list is cut off.         *)
CutAfter(s, t) ==
    IF \E i \in DOMAIN s : s[i] = t
    THEN SubSeq(s, 1, CHOOSE i \in DOMAIN s : s[i] = t)
    ELSE s

(* No task is on a wait list twice or on two of them.                      *)
LinkedOnce(k) ==
    \A g, h \in WaitList : \A i \in DOMAIN k.waiters[g], j \in DOMAIN k.waiters[h] :
        k.waiters[g][i] = k.waiters[h][j] => g = h /\ i = j
-----------------------------------------------------------------------------
(* Who runs next.                                                          *)

Ready(k) == {t \in Created(k) : k.state[t] = "READY" /\ k.priority[t] < NoPriority}

(* Mutant: the comparison of priorities is turned round.                  *)
MutLeastUrgent(k) == {t \in Ready(k) : \A u \in Ready(k) : k.priority[t] >= k.priority[u]}

Best(k) == {t \in Ready(k) : \A u \in Ready(k) : k.priority[t] <= k.priority[u]}

(* The round-robin search begins after the running task and ends at it.    *)
(* The idle task counts as index 0; before sched_start there is no current *)
(* task and the lowest index is first.                                     *)
SearchStart(k) ==
    IF k.g_current_task \in Created(k) THEN k.g_current_task
    ELSE IF k.g_current_task = NULL THEN k.s_task_count - 1 ELSE 0

(* Mutant: the search starts at the running task instead of after it.     *)
MutStartAtCurrent(k, t) == (t + k.s_task_count - SearchStart(k)) % k.s_task_count

(* Position of t in that search.                                           *)
Turn(k, t) == (t + k.s_task_count - SearchStart(k) - 1) % k.s_task_count

sched_select_next(k) ==
    IF Ready(k) = {}
    THEN IdleTask
    ELSE CHOOSE t \in Best(k) : \A u \in Best(k) : Turn(k, t) <= Turn(k, u)

(* Mutant: the revert of a committed task that never ran is missing.      *)
MutNoUncommit(k) == k

(* A task that had been committed but never got the CPU goes back to       *)
(* READY before a new choice is made.                                      *)
Uncommit(k) ==
    IF /\ k.g_next_task \notin {NULL, k.g_current_task}
       /\ k.state[k.g_next_task] = "RUNNING"
    THEN [k EXCEPT !.state[k.g_next_task] = "READY"]
    ELSE k

Commit(k, n) ==
    [k EXCEPT !.g_next_task = n,
              !.state[n] = IF @ = "READY" THEN "RUNNING" ELSE @,
              !.late = {}]

sched_commit_next(k) ==
    LET r == Uncommit(k) IN Commit(r, sched_select_next(r))

(* The running task gives up RUNNING so that it competes with the others.  *)
Preempt(k) ==
    IF k.g_current_task # NULL /\ k.state[k.g_current_task] = "RUNNING"
    THEN [k EXCEPT !.state[k.g_current_task] = "READY"]
    ELSE k

trigger_pendsv(k) == [k EXCEPT !.pendsv = TRUE]

(* Mutant: the tick chooses another task but does not trigger the switch. *)
MutNoTrigger(k) == k

TriggerIfSwitch(k) ==
    IF k.g_next_task # k.g_current_task THEN trigger_pendsv(k) ELSE k

sched_pick_and_mark(k) == sched_commit_next(Preempt(k))

sched_block_locked(k) == trigger_pendsv(sched_pick_and_mark(k))

(* The end of every blocking call: block, queue up, choose who runs.       *)
BlockOn(k, t, h) ==
    sched_block_locked(wq_insert([k EXCEPT !.state[t] = "BLOCKED"], h, t))

(* Arms the countdown that sched_tick_n ends by unlinking the waiter.      *)
ArmTimeout(k, t, h, ticks) ==
    [k EXCEPT !.delay_ticks[t] = ticks,
              !.wait_list_head[t] = h,
              !.timed_out[t] = FALSE]
-----------------------------------------------------------------------------
(* Time.                                                                   *)

Expired(k, n) ==
    {t \in Created(k) : k.state[t] = "BLOCKED" /\ k.delay_ticks[t] \in 1 .. n}

(* The loop of sched_tick_n: counts every blocked delay down by n; a delay *)
(* that runs out unlinks its task from the list it waits on and readies it.*)
CountDown(k, n) ==
    LET out == Expired(k, n)
        timedOut == {t \in out : k.wait_list_head[t] # NULL}
    IN  [k EXCEPT
           !.delay_ticks = [t \in Task |->
               IF t \in out THEN 0
               ELSE IF t \in Created(k) /\ k.state[t] = "BLOCKED" /\ @[t] > n
                    THEN @[t] - n ELSE @[t]],
           !.waiters = sched_wait_list_remove(@, k.wait_list_head, timedOut),
           !.wait_list_head = [t \in Task |-> IF t \in timedOut THEN NULL ELSE @[t]],
           !.timed_out = [t \in Task |-> t \in timedOut \/ @[t]],
           !.state = [t \in Thread |-> IF t \in out THEN "READY" ELSE @[t]]]

sched_tick_n(k, n) ==
    TriggerIfSwitch(sched_commit_next(Preempt(CountDown(k, n))))

(* The critical section of sched_wake_task; the caller adds the trigger.   *)
WakeLocked(k, t) ==
    LET r == [k EXCEPT !.waiters = [h \in WaitList |-> CutAfter(@[h], t)],
                       !.delay_ticks[t] = 0,
                       !.state[t] = "READY"]
    IN  sched_commit_next(Preempt(r))

(* sched_wake_task called with interrupts already masked.                  *)
sched_wake_task(k, t) == TriggerIfSwitch(WakeLocked(k, t))

(* PendSV_Handler: save the current context, g_current_task = g_next_task. *)
PendSV_Handler(k) == [k EXCEPT !.g_current_task = k.g_next_task, !.pendsv = FALSE]
-----------------------------------------------------------------------------
(* Boot.                                                                   *)

(* Memory after sched_init: s_tasks is zeroed, TASK_READY is 0.            *)
sched_init ==
    [state |-> [t \in Thread |-> "READY"],
     priority |-> [t \in Task |-> 0],
     delay_ticks |-> [t \in Task |-> 0],
     wait_list_head |-> [t \in Task |-> NULL],
     timed_out |-> [t \in Task |-> FALSE],
     s_task_count |-> 0,
     g_current_task |-> NULL,
     g_next_task |-> NULL,
     pendsv |-> FALSE,
     waiters |-> [h \in WaitList |-> << >>],
     late |-> {}]

(* The critical section of sched_task_create.                              *)
CreateLocked(k, p) ==
    LET t == k.s_task_count
    IN  [k EXCEPT !.priority[t] = p,
                  !.state[t] = "READY",
                  !.delay_ticks[t] = 0,
                  !.wait_list_head[t] = NULL,
                  !.timed_out[t] = FALSE,
                  !.s_task_count = t + 1]

(* Mutant: the first task created is started, urgent or not.               *)
MutStartFirst(k) ==
    [k EXCEPT !.g_current_task = IF k.s_task_count > 0 THEN 0 ELSE IdleTask]

(* The three assignments of sched_start that a SysTick can fall between.   *)
StartCurrent(k) == [k EXCEPT !.g_current_task = sched_select_next(k)]

StartNext(k) == [k EXCEPT !.g_next_task = k.g_current_task]

StartRunning(k) == [k EXCEPT !.state[k.g_current_task] = "RUNNING"]

(* Memory when the first task begins to run, had no tick intervened:       *)
(* main created n tasks with priorities p and called sched_start.          *)
Started(n, p) ==
    StartRunning(StartNext(StartCurrent(
        [sched_init EXCEPT !.s_task_count = n, !.priority = p])))
=============================================================================
