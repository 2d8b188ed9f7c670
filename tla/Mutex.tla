-------------------------------- MODULE Mutex --------------------------------
(***************************************************************************)
(* Mutexes with priority inheritance (kernel/core/mutex.c) on top of the   *)
(* scheduler: mutex_lock, mutex_lock_timeout, mutex_trylock, mutex_unlock. *)
(*                                                                         *)
(* mu[m] holds the fields task, owner_original_priority and is_elevated of *)
(* mutex m; its list of waiters is k.waiters[m].  call[t] holds the        *)
(* arguments and locals of the mutex call task t is in.  Tasks use the     *)
(* mutex as the tests do: a task does not lock a mutex it holds (it would  *)
(* block on itself) and unlocks what it holds.                             *)
(***************************************************************************)
EXTENDS Scheduler

CONSTANTS
    Mutex,   \* the mutexes, each the address of its own wait-list head
    Timeout  \* arguments of mutex_lock_timeout

ASSUME MutexAssumption ==
    /\ Mutex \subseteq WaitList
    /\ Timeout \subseteq Nat

VARIABLES
    mu,    \* the fields of every mutex_t
    call,  \* locals of the mutex call a task is in
    holds, \* auxiliary: mutexes a task's code has acquired and not released
    base   \* auxiliary: priorities the tasks were created with

mutexLocals == <<mu, call, holds, base>>
vars == <<schedVars, mutexLocals>>

MutexLabel ==
    {"lock_enter",   \* mutex_lock, before its critical section
     "lock_retry",   \* mutex_lock, at the top of the loop after blocking
     "timed_try",    \* mutex_lock_timeout, before mutex_try_acquire
     "timed_now",    \* ... before systick_get_ms
     "timed_enter",  \* ... before its critical section
     "timed_check"}  \* ... after sched_block_locked, before reading timed_out

NoCall == [m |-> NULL, deadline |-> 0, remaining |-> 0]

MutexTypeOK ==
    /\ SchedTypeOK
    /\ pc \in [Task -> SchedLabel \cup MutexLabel]
    /\ mu \in [Mutex -> [task : Task \cup {NULL},
                         owner_original_priority : Priority,
                         is_elevated : BOOLEAN]]
    /\ call \in [Task -> [m : Mutex \cup {NULL}, deadline : Time, remaining : Nat]]
    /\ holds \in [Task -> SUBSET Mutex]
    /\ base \in [Task -> Priority]

mutex_init == [task |-> NULL, owner_original_priority |-> 0, is_elevated |-> FALSE]

MutexInit ==
    /\ SchedInit
    /\ mu = [m \in Mutex |-> mutex_init]
    /\ call = [t \in Task |-> NoCall]
    /\ holds = [t \in Task |-> {}]
    /\ base = k.priority
-----------------------------------------------------------------------------
(* Taking the mutex.                                                       *)

(* Mutant: mutex_try_acquire does not look at the owner.                  *)
MutAlwaysFree(m) == mu[m].task \in Task \cup {NULL}

Free(m) == mu[m].task = NULL

(* mutex_try_acquire succeeds and the call returns to the application.     *)
Acquire(t, m) ==
    /\ Free(m)
    /\ mu' = [mu EXCEPT ![m].task = t]
    /\ holds' = [holds EXCEPT ![t] = @ \cup {m}]
    /\ call' = [call EXCEPT ![t] = NoCall]
    /\ Goto(t, "user")

(* Mutant: the comparison of caller and owner is turned round.            *)
MutLendsDown(t, m) == k.priority[t] > k.priority[mu[m].task]

(* Priority inheritance: a more urgent caller lends its priority to the    *)
(* owner; the first loan saves the priority to restore.                    *)
Lends(t, m) == k.priority[t] < k.priority[mu[m].task]

ElevatedPriority(t, m) ==
    IF Lends(t, m)
    THEN [k.priority EXCEPT ![mu[m].task] = k.priority[t]]
    ELSE k.priority

ElevatedMutex(t, m) ==
    IF Lends(t, m) /\ ~mu[m].is_elevated
    THEN [mu EXCEPT ![m].owner_original_priority = k.priority[mu[m].task],
                    ![m].is_elevated = TRUE]
    ELSE mu

mutex_lock(t, m) ==
    /\ Runs(t) /\ pc[t] = "user" /\ m \notin holds[t]
    /\ \/ Acquire(t, m)
       \/ /\ ~Free(m)
          /\ call' = [call EXCEPT ![t].m = m]
          /\ Goto(t, "lock_enter")
          /\ UNCHANGED <<mu, holds>>
    /\ UNCHANGED <<k, s_ticks, wakeAt, base>>

LockEnter(t) ==
    /\ Runs(t) /\ pc[t] = "lock_enter"
    /\ LET m == call[t].m
       IN  IF Free(m)
           THEN UNCHANGED <<k, mu>>
           ELSE /\ k' = BlockOn([k EXCEPT !.priority = ElevatedPriority(t, m)], t, m)
                /\ mu' = ElevatedMutex(t, m)
    /\ Goto(t, "lock_retry")
    /\ UNCHANGED <<s_ticks, wakeAt, call, holds, base>>

LockRetry(t) ==
    /\ Runs(t) /\ pc[t] = "lock_retry"
    /\ \/ Acquire(t, call[t].m)
       \/ /\ ~Free(call[t].m)
          /\ Goto(t, "lock_enter")
          /\ UNCHANGED <<mu, call, holds>>
    /\ UNCHANGED <<k, s_ticks, wakeAt, base>>

mutex_trylock(t, m) ==
    /\ Runs(t) /\ pc[t] = "user" /\ m \notin holds[t]
    /\ Acquire(t, m)
    /\ UNCHANGED <<k, s_ticks, wakeAt, base>>
-----------------------------------------------------------------------------
(* Taking the mutex with a timeout.                                        *)

mutex_lock_timeout(t, m, ms) ==
    /\ Runs(t) /\ pc[t] = "user" /\ m \notin holds[t]
    /\ call' = [call EXCEPT ![t] = [m |-> m, deadline |-> Deadline(s_ticks, ms),
                                    remaining |-> 0]]
    /\ Goto(t, "timed_try")
    /\ UNCHANGED <<k, s_ticks, wakeAt, mu, holds, base>>

TimedTry(t) ==
    /\ Runs(t) /\ pc[t] = "timed_try"
    /\ \/ /\ Acquire(t, call[t].m)
          /\ k' = [k EXCEPT !.wait_list_head[t] = NULL]
       \/ /\ ~Free(call[t].m)
          /\ Goto(t, "timed_now")
          /\ UNCHANGED <<k, mu, call, holds>>
    /\ UNCHANGED <<s_ticks, wakeAt, base>>

(* return -1 to the application                                            *)
GiveUp(t) ==
    /\ call' = [call EXCEPT ![t] = NoCall]
    /\ Goto(t, "user")

TimedNow(t) ==
    /\ Runs(t) /\ pc[t] = "timed_now"
    /\ IF DeadlinePassed(s_ticks, call[t].deadline)
       THEN GiveUp(t)
       ELSE /\ call' = [call EXCEPT ![t].remaining = call[t].deadline - s_ticks]
            /\ Goto(t, "timed_enter")
    /\ UNCHANGED <<k, s_ticks, wakeAt, mu, holds, base>>

TimedEnter(t) ==
    /\ Runs(t) /\ pc[t] = "timed_enter"
    /\ LET m == call[t].m
       IN  IF Free(m)
           THEN /\ Goto(t, "timed_try")
                /\ UNCHANGED <<k, mu>>
           ELSE /\ k' = BlockOn(ArmTimeout([k EXCEPT !.priority = ElevatedPriority(t, m)],
                                           t, m, call[t].remaining), t, m)
                /\ mu' = ElevatedMutex(t, m)
                /\ Goto(t, "timed_check")
    /\ UNCHANGED <<s_ticks, wakeAt, call, holds, base>>

TimedCheck(t) ==
    /\ Runs(t) /\ pc[t] = "timed_check"
    /\ IF k.timed_out[t]
       THEN /\ k' = [k EXCEPT !.timed_out[t] = FALSE, !.wait_list_head[t] = NULL]
            /\ GiveUp(t)
       ELSE /\ Goto(t, "timed_try")
            /\ UNCHANGED <<k, call>>
    /\ UNCHANGED <<s_ticks, wakeAt, mu, holds, base>>
-----------------------------------------------------------------------------
(* Mutant: the borrowed priority is kept.                                 *)
MutNotRestored(m) == k.priority

(* Releasing it: pop the first waiter, give back a borrowed priority, wake *)
(* the waiter.  Without a waiter nobody is chosen anew, although the       *)
(* caller's priority may just have dropped.                                *)
Restored(m) ==
    IF mu[m].is_elevated
    THEN [k.priority EXCEPT ![mu[m].task] = mu[m].owner_original_priority]
    ELSE k.priority

(* Mutant: nobody is woken.                                               *)
MutUnlockNoWake(m) == [k EXCEPT !.priority = Restored(m), !.late = Ready(k)]

UnlockedKernel(m) ==
    LET r == [wq_pop(k, m) EXCEPT !.priority = Restored(m)]
        waiter == FirstWaiter(k, m)
    IN  IF waiter = NULL
        THEN [r EXCEPT !.late = IF mu[m].is_elevated THEN Ready(r) ELSE @]
        ELSE sched_wake_task(r, waiter)

mutex_unlock(t, m) ==
    /\ Runs(t) /\ pc[t] = "user" /\ m \in holds[t]
    /\ IF mu[m].task # t
       THEN UNCHANGED <<k, mu>>
       ELSE /\ k' = UnlockedKernel(m)
            /\ mu' = [mu EXCEPT ![m].task = NULL, ![m].is_elevated = FALSE]
    /\ holds' = [holds EXCEPT ![t] = @ \ {m}]
    /\ UNCHANGED <<pc, s_ticks, wakeAt, call, base>>
-----------------------------------------------------------------------------
MutexStep(t) ==
    \/ LockEnter(t)
    \/ LockRetry(t)
    \/ TimedTry(t)
    \/ TimedNow(t)
    \/ TimedEnter(t)
    \/ TimedCheck(t)

MutexCall(t) ==
    \E m \in Mutex :
        \/ mutex_lock(t, m)
        \/ mutex_trylock(t, m)
        \/ mutex_unlock(t, m)
        \/ \E ms \in Timeout : mutex_lock_timeout(t, m, ms)

MutexNext ==
    \/ SchedNext /\ UNCHANGED mutexLocals
    \/ \E t \in Task : MutexStep(t) \/ MutexCall(t)

MutexSpec == MutexInit /\ [][MutexNext]_vars

(* The fairness of the scheduler, extended to the code of mutex.c: a task  *)
(* that gets the CPU again and again inside a kernel function executes its *)
(* next step.  Of the application only this is assumed: a task that gets   *)
(* the CPU again and again with a mutex held releases one.  Nothing        *)
(* obliges a task that holds no mutex to leave the CPU.                    *)
InKernel(t) ==
    /\ Runs(t)
    /\ pc[t] # "user"
    /\ pc[t] = "delay_wait" => k.delay_ticks[t] = 0

InSection(t) == Runs(t) /\ pc[t] = "user" /\ holds[t] # {}

MutexFairness ==
    /\ SF_s_ticks(Tick)
    /\ WF_vars(PendSV /\ UNCHANGED mutexLocals)
    /\ \A t \in Task :
         /\ []<>InKernel(t) => []<><<pc'[t] # pc[t]>>_pc
         /\ []<>InSection(t) => []<><<~(holds[t] \subseteq holds'[t])>>_holds

MutexFairSpec == MutexSpec /\ MutexFairness
-----------------------------------------------------------------------------
(* Properties.                                                             *)

WaitingFor(t, m) == call[t].m = m /\ pc[t] \in {"lock_retry", "timed_check"}

(* Two tasks never both believe they hold a mutex, and the mutex knows its *)
(* holder: between mutex_try_acquire and the blocking critical section of  *)
(* another caller ticks, switches and unlocks may fall.                    *)
MutualExclusion ==
    \A m \in Mutex : \A t \in Task : m \in holds[t] <=> mu[m].task = t

(* The wait list of a mutex holds exactly the tasks that are blocked on    *)
(* it, each once: a blocked caller missing from it could never be woken by *)
(* mutex_unlock, and one that timed out or was woken must have left it.    *)
(* (With the types of all that the mutexes and their callers keep.)        *)
WaitListExact ==
    /\ MutexTypeOK
    /\ LinkedOnce(k)
    /\ \A m \in Mutex : \A t \in Task :
          t \in ToSet(k.waiters[m]) <=> WaitingFor(t, m) /\ k.state[t] = "BLOCKED"

(* No wake-up is lost: while tasks wait for a free mutex, one that was     *)
(* woken is on its way to take it.                                         *)
NoLostWakeup ==
    \A m \in Mutex :
        Free(m) /\ k.waiters[m] # << >> =>
            \E t \in Task :
                /\ call[t].m = m
                /\ pc[t] \in MutexLabel
                /\ k.state[t] # "BLOCKED"

(* Priority inheritance: the owner of a mutex is at least as urgent as     *)
(* every task that waits for it.                                           *)
OwnerInherits ==
    \A m \in Mutex :
        ~Free(m) => \A t \in ToSet(k.waiters[m]) :
                       k.priority[mu[m].task] <= k.priority[t]

(* A task that holds no mutex has the priority it was created with.        *)
PriorityRestored ==
    \A t \in Task : holds[t] = {} => k.priority[t] = base[t]

(* No unbounded priority inversion: the most urgent task gets the mutex it *)
(* asks for even if a less urgent task that uses no mutex never leaves the *)
(* CPU, because the owner runs at the priority it inherits.                *)
MostUrgentLocks ==
    \A t \in Task :
        (/\ pc[t] \in {"lock_enter", "lock_retry"}
         /\ \A u \in Task \ {t} : base[t] < base[u])
           ~> pc[t] = "user"
=============================================================================
