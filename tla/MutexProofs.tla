----------------------------- MODULE MutexProofs -----------------------------
(***************************************************************************)
(* Mutexes with priority inheritance, for any number of tasks and mutexes, *)
(* any priorities and any timeouts, in two layers.  MutexBase (types,      *)
(* mutual exclusion, the kernel's invariant) holds whatever the tasks do.  *)
(* The wait lists are exact, and no wake-up is lost, for tasks that nobody *)
(* pauses: sched_task_pause overwrites the BLOCKED state of a waiter and   *)
(* leaves it on the list.                                                  *)
(***************************************************************************)
EXTENDS Mutex, SchedulerProofs

MutexPc == SchedLabel \cup MutexLabel

MutexBase ==
    /\ SchedCore
    /\ pc \in [Task -> MutexPc]
    /\ SwitchAt(SchedTriggers)
    /\ mu \in [Mutex -> [task : Task \cup {NULL},
                         owner_original_priority : Priority,
                         is_elevated : BOOLEAN]]
    /\ call \in [Task -> [m : Mutex \cup {NULL}, deadline : Time, remaining : Nat]]
    /\ holds \in [Task -> SUBSET Mutex]
    /\ base \in [Task -> Priority]
    /\ \A t \in Task : pc[t] \in MutexLabel => call[t].m \in Mutex
    /\ MutualExclusion

(* Every list of the kernel holds the blocked callers of its mutex, once.  *)
MutexLists ==
    \A h \in WaitList :
        /\ Once(k.waiters[h])
        /\ \A t \in Task : t \in ToSet(k.waiters[h]) <=> WaitingFor(t, h) /\ k.state[t] = "BLOCKED"

(* mutex_lock waits without a countdown; the countdown of a blocked        *)
(* mutex_lock_timeout names the list the caller is on, so that the tick    *)
(* unlinks it there, and has not run out yet.                              *)
MutexWaits ==
    /\ NoStrayDelay
    /\ \A t \in Task : pc[t] = "lock_retry" => k.delay_ticks[t] = 0
    /\ \A t \in Task : pc[t] = "timed_check" /\ k.state[t] = "BLOCKED" =>
          /\ ~k.timed_out[t]
          /\ k.delay_ticks[t] # 0 => k.wait_list_head[t] = call[t].m

(* A woken task that will find the mutex free.                             *)
Succeeds(t, m) ==
    /\ call[t].m = m
    /\ k.state[t] # "BLOCKED"
    /\ \/ pc[t] \in {"lock_retry", "timed_try"}
       \/ pc[t] = "timed_check" /\ ~k.timed_out[t]

(* NoLostWakeup is not inductive, since mutex_lock_timeout may give up     *)
(* between its attempt and its critical section; the task that mutex_unlock*)
(* woke has not got that far.                                              *)
MutexTaken ==
    \A m \in Mutex : Free(m) /\ k.waiters[m] # << >> => \E t \in Task : Succeeds(t, m)

(* The inductive invariant for tasks that nobody pauses.                   *)
MutexInv == MutexBase /\ MutexLists /\ MutexWaits /\ MutexTaken
-----------------------------------------------------------------------------
(* Types and mutual exclusion.                                             *)

MutexRecord == [task : Task \cup {NULL}, owner_original_priority : Priority,
                is_elevated : BOOLEAN]
CallRecord == [m : Mutex \cup {NULL}, deadline : Time, remaining : Nat]

(* What is left to show for a step of mutex.c.                             *)
BaseStep ==
    /\ KernelInv(k') /\ k'.s_task_count = k.s_task_count
    /\ s_ticks' = s_ticks /\ wakeAt' = wakeAt /\ base' = base
    /\ SwitchAt(SchedTriggers)'
    /\ pc' \in [Task -> MutexPc]
    /\ mu' \in [Mutex -> MutexRecord]
    /\ call' \in [Task -> CallRecord]
    /\ holds' \in [Task -> SUBSET Mutex]
    /\ \A t \in Task : pc'[t] \in MutexLabel => call'[t].m \in Mutex
    /\ MutualExclusion'

(* What a step of a call must keep is what MutexBase asks.                 *)
LEMMA BaseAssembled ==
    ASSUME MutexBase, BaseStep
    PROVE  MutexBase'
<1>1. SchedCore'
  BY DEF MutexBase, BaseStep, SchedCore
<1> QED
  BY <1>1 DEF MutexBase, BaseStep, MutexRecord, CallRecord

(* The parts of MutexBase, and what is known of a running task that is not *)
(* about to trigger a switch.                                              *)
LEMMA BaseFacts ==
    ASSUME MutexBase
    PROVE  /\ KernelInv(k) /\ KernelCore(k) /\ k.s_task_count = TASK_MAX
           /\ k.priority \in [Task -> Priority] /\ k.delay_ticks \in [Task -> Nat]
           /\ k.waiters \in [WaitList -> Seq(Task)] /\ k.timed_out \in [Task -> BOOLEAN]
           /\ k.wait_list_head \in [Task -> WaitList \cup {NULL}]
           /\ pc \in [Task -> MutexPc] /\ SwitchAt(SchedTriggers)
           /\ mu \in [Mutex -> MutexRecord] /\ call \in [Task -> CallRecord]
           /\ holds \in [Task -> SUBSET Mutex] /\ base \in [Task -> Priority]
           /\ s_ticks \in Time /\ wakeAt \in [Task -> Time]
           /\ Mutex \subseteq WaitList /\ NULL \notin Mutex /\ NULL \notin Task
           /\ Task \subseteq Thread
           /\ \A t \in Task : Runs(t) /\ pc[t] \notin SchedTriggers =>
                 k.g_next_task = t /\ k.g_current_task = t /\ k.state[t] # "BLOCKED"
<1>1. /\ KernelInv(k) /\ KernelCore(k) /\ k.s_task_count = TASK_MAX
      /\ s_ticks \in Time /\ wakeAt \in [Task -> Time]
  BY DEF MutexBase, SchedCore, KernelInv
<1>2. /\ k.priority \in [Task -> Priority] /\ k.delay_ticks \in [Task -> Nat]
      /\ k.waiters \in [WaitList -> Seq(Task)] /\ k.timed_out \in [Task -> BOOLEAN]
      /\ k.wait_list_head \in [Task -> WaitList \cup {NULL}]
  BY <1>1 DEF KernelCore, KernelTypeOK
<1>3. /\ pc \in [Task -> MutexPc] /\ SwitchAt(SchedTriggers)
      /\ mu \in [Mutex -> MutexRecord] /\ call \in [Task -> CallRecord]
      /\ holds \in [Task -> SUBSET Mutex] /\ base \in [Task -> Priority]
  BY DEF MutexBase, MutexRecord, CallRecord
<1>4. /\ Mutex \subseteq WaitList /\ NULL \notin Mutex /\ NULL \notin Task
      /\ Task \subseteq Thread
  BY MutexAssumption, KernelAssumption DEF Thread
<1>5. \A t \in Task : Runs(t) /\ pc[t] \notin SchedTriggers =>
         k.g_next_task = t /\ k.g_current_task = t /\ k.state[t] # "BLOCKED"
  BY <1>1, <1>3, RunnerIsNext DEF Runs
<1> QED
  BY <1>1, <1>2, <1>3, <1>4, <1>5

(* Labels that the mutex functions use are not followed by a trigger.      *)
LEMMA MutexLabels ==
    /\ SchedLabel \subseteq MutexPc /\ MutexLabel \subseteq MutexPc
    /\ "user" \in MutexPc /\ "user" \notin MutexLabel
    /\ "user" \notin SchedTriggers /\ "delay_wait" \notin SchedTriggers
    /\ \A l \in MutexLabel : l \notin SchedTriggers /\ l \notin SchedLabel
BY DEF MutexPc, SchedLabel, MutexLabel, SchedTriggers

(* The steps that leave the kernel's memory alone, or only reset the       *)
(* waiting fields of the running task, keep the switch coming.             *)
LEMMA SwitchKept ==
    ASSUME MutexBase, NEW t \in Task, Runs(t), pc[t] \notin SchedTriggers,
           k'.g_current_task = k.g_current_task, k'.g_next_task = k.g_next_task
    PROVE  SwitchAt(SchedTriggers)'
BY BaseFacts DEF SwitchAt

(* mutex_try_acquire succeeds.                                             *)
LEMMA AcquireBase ==
    ASSUME MutexBase, NEW t \in Task, NEW m \in Mutex, Acquire(t, m)
    PROVE  /\ pc' \in [Task -> MutexPc]
           /\ mu' \in [Mutex -> MutexRecord]
           /\ call' \in [Task -> CallRecord]
           /\ holds' \in [Task -> SUBSET Mutex]
           /\ \A u \in Task : pc'[u] \in MutexLabel => call'[u].m \in Mutex
           /\ MutualExclusion'
<1>1. /\ mu[m].task = NULL
      /\ mu' = [mu EXCEPT ![m].task = t]
      /\ holds' = [holds EXCEPT ![t] = @ \cup {m}]
      /\ call' = [call EXCEPT ![t] = NoCall]
      /\ pc' = [pc EXCEPT ![t] = "user"]
  BY DEF Acquire, Free, Goto
<1>2. /\ pc \in [Task -> MutexPc] /\ mu \in [Mutex -> MutexRecord]
      /\ call \in [Task -> CallRecord] /\ holds \in [Task -> SUBSET Mutex]
      /\ NULL \notin Task
  BY BaseFacts
<1>3. pc' \in [Task -> MutexPc] /\ holds' \in [Task -> SUBSET Mutex]
  BY <1>1, <1>2, MutexLabels
<1>4. mu' \in [Mutex -> MutexRecord]
      /\ \A n \in Mutex : mu'[n].task = IF n = m THEN t ELSE mu[n].task
  BY <1>1, <1>2 DEF MutexRecord
<1>5. NoCall \in CallRecord
  BY SchedulerAssumption DEF NoCall, CallRecord, Time
<1>6. call' \in [Task -> CallRecord]
  BY <1>1, <1>2, <1>5
<1>7. \A u \in Task : pc'[u] \in MutexLabel => call'[u].m \in Mutex
  BY <1>1, <1>2, MutexLabels DEF MutexBase
<1>8. \A n \in Mutex : \A u \in Task :
         n \in holds'[u] <=> n \in holds[u] \/ (n = m /\ u = t)
  BY <1>1, <1>2
<1>9. MutualExclusion'
  BY <1>1, <1>2, <1>4, <1>8 DEF MutexBase, MutualExclusion
<1> QED
  BY <1>3, <1>4, <1>6, <1>7, <1>9

(* Steps to another label that change at most the caller's locals.         *)
LEMMA CallBase ==
    ASSUME MutexBase, NEW t \in Task, NEW l \in MutexPc, NEW c \in CallRecord,
           l \in MutexLabel => c.m \in Mutex,
           pc' = [pc EXCEPT ![t] = l], call' = [call EXCEPT ![t] = c],
           mu' = mu, holds' = holds
    PROVE  /\ pc' \in [Task -> MutexPc]
           /\ mu' \in [Mutex -> MutexRecord]
           /\ call' \in [Task -> CallRecord]
           /\ holds' \in [Task -> SUBSET Mutex]
           /\ \A u \in Task : pc'[u] \in MutexLabel => call'[u].m \in Mutex
           /\ MutualExclusion'
<1>1. /\ pc \in [Task -> MutexPc] /\ mu \in [Mutex -> MutexRecord]
      /\ call \in [Task -> CallRecord] /\ holds \in [Task -> SUBSET Mutex]
      /\ \A u \in Task : pc[u] \in MutexLabel => call[u].m \in Mutex
      /\ MutualExclusion
  BY BaseFacts DEF MutexBase
<1>2. pc' \in [Task -> MutexPc] /\ call' \in [Task -> CallRecord]
  BY <1>1
<1>3. \A u \in Task : pc'[u] \in MutexLabel => call'[u].m \in Mutex
  BY <1>1
<1> QED
  BY <1>1, <1>2, <1>3 DEF MutualExclusion

(* Priority inheritance keeps the types and the owner.                     *)
LEMMA ElevatedBase ==
    ASSUME MutexBase, NEW t \in Task, NEW m \in Mutex, ~Free(m)
    PROVE  /\ mu[m].task \in Task
           /\ ElevatedPriority(t, m) \in [Task -> Priority]
           /\ ElevatedMutex(t, m) \in [Mutex -> MutexRecord]
           /\ \A n \in Mutex : ElevatedMutex(t, m)[n].task = mu[n].task
<1>1. mu \in [Mutex -> MutexRecord] /\ k.priority \in [Task -> Priority]
  BY BaseFacts
<1>2. mu[m].task \in Task
  BY <1>1 DEF Free, MutexRecord
<1>3. ElevatedPriority(t, m) \in [Task -> Priority]
  BY <1>1, <1>2 DEF ElevatedPriority
<1>4. /\ ElevatedMutex(t, m) \in [Mutex -> MutexRecord]
      /\ \A n \in Mutex : ElevatedMutex(t, m)[n].task = mu[n].task
  <2>1. CASE Lends(t, m) /\ ~mu[m].is_elevated
    <3> DEFINE o == mu[m].task
               p == k.priority[o]
    <3>1. p \in Priority
      BY <1>1, <1>2
    <3>2. ElevatedMutex(t, m) = [mu EXCEPT ![m].owner_original_priority = p,
                                           ![m].is_elevated = TRUE]
      BY <2>1 DEF ElevatedMutex
    <3> HIDE DEF p
    <3> DEFINE e == [mu[m] EXCEPT !.owner_original_priority = p, !.is_elevated = TRUE]
    <3>3. ElevatedMutex(t, m) = [mu EXCEPT ![m] = e]
      BY <1>1, <3>2
    <3>4. e \in MutexRecord /\ e.task = mu[m].task
      <4>1. mu[m] \in MutexRecord
        BY <1>1
      <4> QED
        BY <3>1, <4>1 DEF MutexRecord
    <3> HIDE DEF e
    <3> QED
      BY <1>1, <3>3, <3>4
  <2>2. CASE ~(Lends(t, m) /\ ~mu[m].is_elevated)
    BY <1>1, <2>2 DEF ElevatedMutex
  <2> QED
    BY <2>1, <2>2
<1> QED
  BY <1>2, <1>3, <1>4

(* The blocking critical sections: the owner inherits, the caller arms its *)
(* countdown if it has one, is blocked and queues up.                      *)
Blocked(t, m) ==
    /\ KernelInv(k') /\ k'.pendsv /\ k'.s_task_count = k.s_task_count
    /\ k'.priority = ElevatedPriority(t, m)
    /\ \A u \in Task : k'.state[u] = "BLOCKED" <=> u = t \/ k.state[u] = "BLOCKED"
    /\ \A g \in WaitList : g # m => k'.waiters[g] = k.waiters[g]
    /\ ToSet(k'.waiters[m]) = ToSet(k.waiters[m]) \cup {t}
    /\ Once(k.waiters[m]) /\ t \notin ToSet(k.waiters[m]) => Once(k'.waiters[m])
    /\ Sorted(k.waiters[m], k'.priority) => Sorted(k'.waiters[m], k'.priority)
    /\ NobodyPaused(k) => Decided(k')

(* The blocking path of mutex_lock elevates the owner and blocks the       *)
(* caller.                                                                 *)
LEMMA LockBlocks ==
    ASSUME MutexBase, NEW t \in Task, NEW m \in Mutex, ~Free(m),
           k' = BlockOn([k EXCEPT !.priority = ElevatedPriority(t, m)], t, m)
    PROVE  /\ Blocked(t, m)
           /\ k'.delay_ticks = k.delay_ticks /\ k'.wait_list_head = k.wait_list_head
           /\ k'.timed_out = k.timed_out
<1> DEFINE p == ElevatedPriority(t, m)
           P == [k EXCEPT !.priority = p]
<1>1. /\ KernelCore(k) /\ p \in [Task -> Priority] /\ m \in WaitList /\ Task \subseteq Thread
  BY BaseFacts, ElevatedBase
<1> HIDE DEF p
<1>2. /\ KernelCore(P) /\ P.priority = p
      /\ P.state = k.state /\ P.delay_ticks = k.delay_ticks
      /\ P.wait_list_head = k.wait_list_head /\ P.timed_out = k.timed_out
      /\ P.waiters = k.waiters /\ P.s_task_count = k.s_task_count
      /\ P.g_current_task = k.g_current_task /\ P.g_next_task = k.g_next_task
      /\ P.pendsv = k.pendsv /\ P.late = k.late
  BY <1>1, PrioritySet
<1>3. k' = BlockOn(P, t, m)
  BY DEF P, p
<1> HIDE DEF P
<1>4. /\ KernelInv(k') /\ k'.pendsv
      /\ k'.priority = P.priority /\ k'.delay_ticks = P.delay_ticks
      /\ k'.wait_list_head = P.wait_list_head /\ k'.timed_out = P.timed_out
      /\ k'.g_current_task = P.g_current_task /\ k'.s_task_count = P.s_task_count
      /\ \A u \in Thread : k'.state[u] = "BLOCKED" <=> u = t \/ P.state[u] = "BLOCKED"
      /\ \A g \in WaitList : g # m => k'.waiters[g] = P.waiters[g]
      /\ ToSet(k'.waiters[m]) = ToSet(P.waiters[m]) \cup {t}
      /\ Once(P.waiters[m]) /\ t \notin ToSet(P.waiters[m]) => Once(k'.waiters[m])
      /\ Sorted(P.waiters[m], P.priority) => Sorted(k'.waiters[m], P.priority)
  <2>1. KernelCore(P) /\ m \in WaitList
    BY <1>1, <1>2
  <2> QED
    BY <1>3, <2>1, BlockOnResult
<1>5. NobodyPaused(k) => Decided(k')
  BY <1>1, <1>2, <1>3, BlockOnDecided DEF NobodyPaused
<1> QED
  BY <1>1, <1>2, <1>4, <1>5 DEF Blocked, p

(* The blocking path of mutex_lock_timeout also arms the timeout.          *)
LEMMA TimedBlocks ==
    ASSUME MutexBase, NEW t \in Task, NEW m \in Mutex, ~Free(m), NEW n \in Nat,
           k' = BlockOn(ArmTimeout([k EXCEPT !.priority = ElevatedPriority(t, m)], t, m, n), t, m)
    PROVE  /\ Blocked(t, m)
           /\ k'.delay_ticks = [k.delay_ticks EXCEPT ![t] = n]
           /\ k'.wait_list_head = [k.wait_list_head EXCEPT ![t] = m]
           /\ k'.timed_out = [k.timed_out EXCEPT ![t] = FALSE]
<1> DEFINE p == ElevatedPriority(t, m)
           P == [k EXCEPT !.priority = p]
           A == ArmTimeout(P, t, m, n)
<1>1. /\ KernelCore(k) /\ p \in [Task -> Priority] /\ m \in WaitList /\ Task \subseteq Thread
  BY BaseFacts, ElevatedBase
<1> HIDE DEF p
<1>2. /\ KernelCore(P) /\ P.priority = p
      /\ P.state = k.state /\ P.delay_ticks = k.delay_ticks
      /\ P.wait_list_head = k.wait_list_head /\ P.timed_out = k.timed_out
      /\ P.waiters = k.waiters /\ P.s_task_count = k.s_task_count
      /\ P.g_current_task = k.g_current_task /\ P.g_next_task = k.g_next_task
      /\ P.pendsv = k.pendsv /\ P.late = k.late
  BY <1>1, PrioritySet
<1>3. k' = BlockOn(A, t, m)
  BY DEF A, P, p
<1> HIDE DEF P
<1>4. /\ KernelTypeOK(A) /\ A.priority = P.priority /\ A.state = P.state
      /\ A.delay_ticks = [P.delay_ticks EXCEPT ![t] = n]
      /\ A.wait_list_head = [P.wait_list_head EXCEPT ![t] = m]
      /\ A.timed_out = [P.timed_out EXCEPT ![t] = FALSE]
      /\ A.waiters = P.waiters /\ A.s_task_count = P.s_task_count
      /\ A.g_current_task = P.g_current_task /\ A.g_next_task = P.g_next_task
  BY <1>1, <1>2 DEF ArmTimeout, KernelCore, KernelTypeOK
<1> HIDE DEF A
<1>5. KernelCore(A) /\ m \in WaitList
  BY <1>1, <1>2, <1>4 DEF KernelCore, HasThreads, OnlyNext, IdleAlive
<1>6. /\ KernelInv(k') /\ k'.pendsv
      /\ k'.priority = A.priority /\ k'.delay_ticks = A.delay_ticks
      /\ k'.wait_list_head = A.wait_list_head /\ k'.timed_out = A.timed_out
      /\ k'.g_current_task = A.g_current_task /\ k'.s_task_count = A.s_task_count
      /\ \A u \in Thread : k'.state[u] = "BLOCKED" <=> u = t \/ A.state[u] = "BLOCKED"
      /\ \A g \in WaitList : g # m => k'.waiters[g] = A.waiters[g]
      /\ ToSet(k'.waiters[m]) = ToSet(A.waiters[m]) \cup {t}
      /\ Once(A.waiters[m]) /\ t \notin ToSet(A.waiters[m]) => Once(k'.waiters[m])
      /\ Sorted(A.waiters[m], A.priority) => Sorted(k'.waiters[m], A.priority)
  BY <1>3, <1>5, BlockOnResult
<1>7. NobodyPaused(k) => Decided(k')
  BY <1>2, <1>3, <1>4, <1>5, BlockOnDecided DEF NobodyPaused
<1> QED
  BY <1>1, <1>2, <1>4, <1>6, <1>7 DEF Blocked, p

(* A call that the running task makes or continues without touching the    *)
(* kernel's memory.                                                        *)
LEMMA QuietBase ==
    ASSUME MutexBase, NEW t \in Task, Runs(t), pc[t] \notin SchedTriggers,
           k' = k, s_ticks' = s_ticks, wakeAt' = wakeAt, base' = base,
           \/ \E m \in Mutex : Acquire(t, m)
           \/ /\ mu' = mu /\ holds' = holds
              /\ \E l \in MutexPc, c \in CallRecord :
                    /\ l \in MutexLabel => c.m \in Mutex
                    /\ pc' = [pc EXCEPT ![t] = l] /\ call' = [call EXCEPT ![t] = c]
    PROVE  BaseStep
<1>1. KernelInv(k') /\ k'.s_task_count = k.s_task_count
  BY BaseFacts
<1>2. SwitchAt(SchedTriggers)'
  BY SwitchKept
<1>3. /\ pc' \in [Task -> MutexPc]
      /\ mu' \in [Mutex -> MutexRecord]
      /\ call' \in [Task -> CallRecord]
      /\ holds' \in [Task -> SUBSET Mutex]
      /\ \A u \in Task : pc'[u] \in MutexLabel => call'[u].m \in Mutex
      /\ MutualExclusion'
  BY AcquireBase, CallBase
<1> QED
  BY <1>1, <1>2, <1>3 DEF BaseStep

(* mutex_lock, up to its blocking critical section and after it.           *)
LEMMA LockBase ==
    ASSUME MutexBase, NEW t \in Task,
           \/ \E m \in Mutex : mutex_lock(t, m) \/ mutex_trylock(t, m)
           \/ LockRetry(t)
    PROVE  BaseStep
<1>1. /\ Runs(t) /\ k' = k /\ s_ticks' = s_ticks /\ wakeAt' = wakeAt /\ base' = base
      /\ pc[t] \in {"user", "lock_retry"}
  BY DEF mutex_lock, mutex_trylock, LockRetry
<1>2. /\ call \in [Task -> CallRecord]
      /\ \A u \in Task : pc[u] \in MutexLabel => call[u].m \in Mutex
  BY BaseFacts DEF MutexBase
<1>3. pc[t] \notin SchedTriggers
  BY <1>1 DEF SchedTriggers
<1>4. \/ \E m \in Mutex : Acquire(t, m)
      \/ /\ mu' = mu /\ holds' = holds
         /\ \E l \in MutexPc, c \in CallRecord :
               /\ l \in MutexLabel => c.m \in Mutex
               /\ pc' = [pc EXCEPT ![t] = l] /\ call' = [call EXCEPT ![t] = c]
  <2>1. ASSUME NEW m \in Mutex, mutex_lock(t, m)
        PROVE  \/ Acquire(t, m)
               \/ /\ mu' = mu /\ holds' = holds
                  /\ \E l \in MutexPc, c \in CallRecord :
                        /\ l \in MutexLabel => c.m \in Mutex
                        /\ pc' = [pc EXCEPT ![t] = l] /\ call' = [call EXCEPT ![t] = c]
    <3> DEFINE c == [call[t] EXCEPT !.m = m]
    <3>1. c \in CallRecord /\ c.m = m
      BY <1>2 DEF CallRecord
    <3>2. "lock_enter" \in MutexPc
      BY DEF MutexPc, MutexLabel
    <3>3. CASE call' = [call EXCEPT ![t].m = m] /\ Goto(t, "lock_enter") /\ UNCHANGED <<mu, holds>>
      <4>1. call' = [call EXCEPT ![t] = c] /\ pc' = [pc EXCEPT ![t] = "lock_enter"]
        BY <3>3 DEF Goto
      <4> HIDE DEF c
      <4> QED
        BY <3>1, <3>2, <3>3, <4>1
    <3> QED
      BY <2>1, <3>3 DEF mutex_lock
  <2>2. ASSUME LockRetry(t)
        PROVE  \/ Acquire(t, call[t].m) /\ call[t].m \in Mutex
               \/ /\ mu' = mu /\ holds' = holds
                  /\ \E l \in MutexPc, c \in CallRecord :
                        /\ l \in MutexLabel => c.m \in Mutex
                        /\ pc' = [pc EXCEPT ![t] = l] /\ call' = [call EXCEPT ![t] = c]
    <3>1. call[t].m \in Mutex /\ call[t] \in CallRecord
      BY <1>2, <2>2 DEF LockRetry, MutexLabel
    <3>2. "lock_enter" \in MutexPc
      BY DEF MutexPc, MutexLabel
    <3>3. CASE Goto(t, "lock_enter") /\ UNCHANGED <<mu, call, holds>>
      <4>1. call' = [call EXCEPT ![t] = call[t]] /\ pc' = [pc EXCEPT ![t] = "lock_enter"]
        BY <1>2, <3>3 DEF Goto
      <4> QED
        BY <3>1, <3>2, <3>3, <4>1
    <3> QED
      BY <2>2, <3>1, <3>3 DEF LockRetry
  <2>3. ASSUME NEW m \in Mutex, mutex_trylock(t, m)
        PROVE  Acquire(t, m)
    BY <2>3 DEF mutex_trylock
  <2> QED
    BY <2>1, <2>2, <2>3
<1> QED
  BY <1>1, <1>3, <1>4, QuietBase

(* mutex_lock_timeout, outside its critical section.                       *)
LEMMA TimedBase ==
    ASSUME MutexBase, NEW t \in Task,
           \/ \E m \in Mutex, ms \in Timeout : mutex_lock_timeout(t, m, ms)
           \/ TimedNow(t)
    PROVE  BaseStep
<1>1. /\ Runs(t) /\ k' = k /\ s_ticks' = s_ticks /\ wakeAt' = wakeAt /\ base' = base
      /\ mu' = mu /\ holds' = holds /\ pc[t] \in {"user", "timed_now"}
  BY DEF mutex_lock_timeout, TimedNow
<1>2. /\ call \in [Task -> CallRecord] /\ s_ticks \in Time
      /\ \A u \in Task : pc[u] \in MutexLabel => call[u].m \in Mutex
  BY BaseFacts DEF MutexBase
<1>3. pc[t] \notin SchedTriggers
  BY <1>1 DEF SchedTriggers
<1>4. Time \subseteq Nat /\ NoCall \in CallRecord
  BY SchedulerAssumption DEF Time, NoCall, CallRecord
<1>5. \E l \in MutexPc, c \in CallRecord :
         /\ l \in MutexLabel => c.m \in Mutex
         /\ pc' = [pc EXCEPT ![t] = l] /\ call' = [call EXCEPT ![t] = c]
  <2>1. ASSUME NEW m \in Mutex, NEW ms \in Timeout, mutex_lock_timeout(t, m, ms)
        PROVE  \E l \in MutexPc, c \in CallRecord :
                  /\ l \in MutexLabel => c.m \in Mutex
                  /\ pc' = [pc EXCEPT ![t] = l] /\ call' = [call EXCEPT ![t] = c]
    <3> DEFINE d == Deadline(s_ticks, ms)
               c == [m |-> m, deadline |-> d, remaining |-> 0]
    <3>1. d \in Time
      <4>1. s_ticks + ms \in Nat
        BY <1>2, <1>4, MutexAssumption
      <4> QED
        BY <4>1, SchedulerAssumption DEF Deadline, Time
    <3> HIDE DEF d
    <3>2. c \in CallRecord /\ c.m = m
      BY <3>1 DEF CallRecord
    <3>3. "timed_try" \in MutexPc
      BY DEF MutexPc, MutexLabel
    <3>4. call' = [call EXCEPT ![t] = c] /\ pc' = [pc EXCEPT ![t] = "timed_try"]
      BY <2>1 DEF mutex_lock_timeout, Goto, d
    <3> HIDE DEF c
    <3> QED
      BY <3>2, <3>3, <3>4
  <2>2. CASE TimedNow(t)
    <3>1. CASE GiveUp(t)
      BY <1>4, <3>1, MutexLabels DEF GiveUp, Goto
    <3>2. CASE ~DeadlinePassed(s_ticks, call[t].deadline)
      <4> DEFINE r == call[t].deadline - s_ticks
                 c == [call[t] EXCEPT !.remaining = r]
      <4>1. call[t] \in CallRecord /\ call[t].m \in Mutex /\ call[t].deadline \in Time
        BY <1>2, <2>2 DEF TimedNow, MutexLabel, CallRecord
      <4>2. r \in Nat
        <5>1. s_ticks \in Nat /\ call[t].deadline \in Nat
          BY <1>2, <1>4, <4>1
        <5>2. ~(s_ticks >= call[t].deadline)
          BY <3>2 DEF DeadlinePassed
        <5> QED
          BY <5>1, <5>2
      <4>3. call' = [call EXCEPT ![t].remaining = r] /\ pc' = [pc EXCEPT ![t] = "timed_enter"]
        BY <2>2, <3>2 DEF TimedNow, Goto
      <4> HIDE DEF r
      <4>4. c \in CallRecord /\ c.m = call[t].m
        BY <4>1, <4>2 DEF CallRecord
      <4>5. call' = [call EXCEPT ![t] = c]
        BY <4>3
      <4>6. "timed_enter" \in MutexPc
        BY DEF MutexPc, MutexLabel
      <4> HIDE DEF c
      <4> QED
        BY <4>1, <4>3, <4>4, <4>5, <4>6
    <3> QED
      BY <2>2, <3>1, <3>2 DEF TimedNow
  <2> QED
    BY <2>1, <2>2
<1> QED
  BY <1>1, <1>3, <1>5, QuietBase

(* mutex_lock_timeout, where it resets the caller's waiting fields.        *)
LEMMA TimedResetBase ==
    ASSUME MutexBase, NEW t \in Task, TimedTry(t) \/ TimedCheck(t)
    PROVE  BaseStep
<1>1. /\ Runs(t) /\ s_ticks' = s_ticks /\ wakeAt' = wakeAt /\ base' = base
      /\ pc[t] \in {"timed_try", "timed_check"}
  BY DEF TimedTry, TimedCheck
<1>2. /\ call \in [Task -> CallRecord] /\ call[t].m \in Mutex /\ call[t] \in CallRecord
      /\ KernelInv(k)
      /\ k.wait_list_head \in [Task -> WaitList \cup {NULL}] /\ k.timed_out \in [Task -> BOOLEAN]
  BY <1>1, BaseFacts DEF MutexBase, MutexLabel
<1>3. pc[t] \notin SchedTriggers
  BY <1>1 DEF SchedTriggers
<1>4. NoCall \in CallRecord
  BY SchedulerAssumption DEF NoCall, CallRecord, Time
<1>5. /\ KernelInv(k') /\ k'.s_task_count = k.s_task_count
      /\ k'.g_current_task = k.g_current_task /\ k'.g_next_task = k.g_next_task
  <2>1. CASE k' = k
    BY <1>2, <2>1
  <2>2. CASE k' = [k EXCEPT !.wait_list_head[t] = NULL]
    <3>1. SameButWaits(k, k')
      BY <1>2, <2>2 DEF SameButWaits, KernelInv, KernelCore, KernelTypeOK
    <3> QED
      BY <1>2, <3>1, WaitFieldsKept DEF SameButWaits
  <2>3. CASE k' = [k EXCEPT !.timed_out[t] = FALSE, !.wait_list_head[t] = NULL]
    <3>1. SameButWaits(k, k')
      BY <1>2, <2>3 DEF SameButWaits, KernelInv, KernelCore, KernelTypeOK
    <3> QED
      BY <1>2, <3>1, WaitFieldsKept DEF SameButWaits
  <2> QED
    BY <2>1, <2>2, <2>3 DEF TimedTry, TimedCheck
<1>6. SwitchAt(SchedTriggers)'
  BY <1>1, <1>3, <1>5, SwitchKept
<1>7. \/ Acquire(t, call[t].m)
      \/ /\ mu' = mu /\ holds' = holds
         /\ \E l \in MutexPc, c \in CallRecord :
               /\ l \in MutexLabel => c.m \in Mutex
               /\ pc' = [pc EXCEPT ![t] = l] /\ call' = [call EXCEPT ![t] = c]
  <2>1. CASE Acquire(t, call[t].m)
    BY <2>1
  <2>2. CASE GiveUp(t) /\ UNCHANGED <<mu, holds>>
    BY <1>4, <2>2, MutexLabels DEF GiveUp, Goto
  <2>3. ASSUME NEW l \in {"timed_now", "timed_try"}, Goto(t, l), UNCHANGED <<mu, call, holds>>
        PROVE  /\ mu' = mu /\ holds' = holds
               /\ \E c \in CallRecord : /\ l \in MutexPc /\ c.m \in Mutex
                     /\ pc' = [pc EXCEPT ![t] = l] /\ call' = [call EXCEPT ![t] = c]
    <3>1. call' = [call EXCEPT ![t] = call[t]] /\ l \in MutexPc
      BY <1>2, <2>3 DEF MutexPc, MutexLabel
    <3> QED
      BY <1>2, <2>3, <3>1 DEF Goto
  <2> QED
    BY <2>1, <2>2, <2>3 DEF TimedTry, TimedCheck
<1>8. /\ pc' \in [Task -> MutexPc]
      /\ mu' \in [Mutex -> MutexRecord]
      /\ call' \in [Task -> CallRecord]
      /\ holds' \in [Task -> SUBSET Mutex]
      /\ \A u \in Task : pc'[u] \in MutexLabel => call'[u].m \in Mutex
      /\ MutualExclusion'
  BY <1>2, <1>7, AcquireBase, CallBase
<1> QED
  BY <1>1, <1>5, <1>6, <1>8 DEF BaseStep

(* The two blocking critical sections.                                     *)
LEMMA EnterBase ==
    ASSUME MutexBase, NEW t \in Task, LockEnter(t) \/ TimedEnter(t)
    PROVE  /\ BaseStep
           /\ Free(call[t].m) \/ Blocked(t, call[t].m)
<1> DEFINE m == call[t].m
<1>1. /\ Runs(t) /\ s_ticks' = s_ticks /\ wakeAt' = wakeAt /\ base' = base
      /\ call' = call /\ holds' = holds /\ pc[t] \in {"lock_enter", "timed_enter"}
  BY DEF LockEnter, TimedEnter
<1>2. /\ call \in [Task -> CallRecord] /\ m \in Mutex /\ call[t] \in CallRecord
      /\ call[t].remaining \in Nat /\ mu \in [Mutex -> MutexRecord]
      /\ KernelInv(k) /\ pc \in [Task -> MutexPc] /\ holds \in [Task -> SUBSET Mutex]
      /\ \A u \in Task : pc[u] \in MutexLabel => call[u].m \in Mutex
      /\ MutualExclusion
  <2>1. call \in [Task -> CallRecord] /\ m \in Mutex
    BY <1>1, BaseFacts DEF MutexBase, MutexLabel
  <2> QED
    BY <2>1, BaseFacts DEF MutexBase, CallRecord
<1>3. pc[t] \notin SchedTriggers
  BY <1>1 DEF SchedTriggers
<1>4. PICK l \in {"lock_retry", "timed_try", "timed_check"} : pc' = [pc EXCEPT ![t] = l]
  BY DEF LockEnter, TimedEnter, Goto
<1>5. /\ pc' \in [Task -> MutexPc]
      /\ \A u \in Task : pc'[u] \in MutexLabel => call'[u].m \in Mutex
  <2>1. l \in MutexPc
    BY <1>4 DEF MutexPc, MutexLabel
  <2> QED
    BY <1>1, <1>2, <1>4, <2>1
<1> HIDE DEF m
<1>6. CASE Free(m)
  <2>1. k' = k /\ mu' = mu
    BY <1>6 DEF LockEnter, TimedEnter, m
  <2>2. SwitchAt(SchedTriggers)'
    BY <1>1, <1>3, <2>1, SwitchKept
  <2> QED
    BY <1>1, <1>2, <1>5, <1>6, <2>1, <2>2 DEF BaseStep, MutualExclusion, m
<1>7. CASE ~Free(m)
  <2>1. mu' = ElevatedMutex(t, m)
    BY <1>7 DEF LockEnter, TimedEnter, m
  <2>2. Blocked(t, m)
    <3>1. CASE LockEnter(t)
      <4>1. k' = BlockOn([k EXCEPT !.priority = ElevatedPriority(t, m)], t, m)
        BY <1>7, <3>1 DEF LockEnter, m
      <4> QED
        BY <1>2, <1>7, <4>1, LockBlocks
    <3>2. CASE TimedEnter(t)
      <4>1. k' = BlockOn(ArmTimeout([k EXCEPT !.priority = ElevatedPriority(t, m)],
                                    t, m, call[t].remaining), t, m)
        BY <1>7, <3>2 DEF TimedEnter, m
      <4> QED
        BY <1>2, <1>7, <4>1, TimedBlocks
    <3> QED
      BY <3>1, <3>2
  <2>3. mu' \in [Mutex -> MutexRecord] /\ \A n \in Mutex : mu'[n].task = mu[n].task
    BY <1>2, <1>7, <2>1, ElevatedBase
  <2>4. MutualExclusion'
    BY <1>1, <1>2, <2>3 DEF MutualExclusion
  <2>5. SwitchAt(SchedTriggers)'
    BY <2>2 DEF SwitchAt, Blocked
  <2> QED
    BY <1>1, <1>2, <1>5, <2>2, <2>3, <2>4, <2>5 DEF BaseStep, Blocked, m
<1> QED
  BY <1>6, <1>7

(* mutex_unlock: the memory it leaves, whether or not a task waits.        *)
LEMMA UnlockKernel ==
    ASSUME MutexBase, NEW m \in Mutex, mu[m].task \in Task
    PROVE  LET R == UnlockedKernel(m) IN
           /\ KernelInv(R) /\ R.s_task_count = k.s_task_count
           /\ R.g_current_task = k.g_current_task /\ R.priority = Restored(m)
           /\ R.g_next_task = k.g_next_task \/ (R.g_next_task # R.g_current_task => R.pendsv)
<1> DEFINE W == wq_pop(k, m)
           p == Restored(m)
           P == [W EXCEPT !.priority = p]
           w == FirstWaiter(k, m)
           D == [P EXCEPT !.late = IF mu[m].is_elevated THEN Ready(P) ELSE @]
           S == sched_wake_task(P, w)
<1>1. /\ KernelInv(k) /\ KernelCore(k) /\ m \in WaitList
      /\ k.priority \in [Task -> Priority] /\ mu[m] \in MutexRecord
  BY BaseFacts
<1>2. p \in [Task -> Priority] /\ (~mu[m].is_elevated => p = k.priority)
  <2>1. mu[m].owner_original_priority \in Priority
    BY <1>1 DEF MutexRecord
  <2> QED
    BY <1>1, <2>1 DEF Restored
<1>3. /\ KernelCore(W)
      /\ W.g_current_task = k.g_current_task /\ W.s_task_count = k.s_task_count
      /\ W.pendsv = k.pendsv /\ W.g_next_task = k.g_next_task
      /\ W.state = k.state /\ W.late = k.late /\ W.priority = k.priority
      /\ w \in Task \cup {NULL}
      /\ w = NULL => W = k
  BY <1>1, PopCore
<1>4. UnlockedKernel(m) = IF w = NULL THEN D ELSE S
  BY DEF UnlockedKernel
<1> HIDE DEF W, p, w
<1>5. /\ KernelCore(P) /\ P.priority = p
      /\ P.state = W.state /\ P.delay_ticks = W.delay_ticks
      /\ P.wait_list_head = W.wait_list_head /\ P.timed_out = W.timed_out
      /\ P.waiters = W.waiters /\ P.s_task_count = W.s_task_count
      /\ P.g_current_task = W.g_current_task /\ P.g_next_task = W.g_next_task
      /\ P.pendsv = W.pendsv /\ P.late = W.late
  BY <1>2, <1>3, PrioritySet
<1> HIDE DEF P
<1>6. CASE w = NULL
  <2>1. /\ KernelTypeOK(D) /\ D.priority = p /\ D.state = k.state
        /\ D.g_current_task = k.g_current_task /\ D.g_next_task = k.g_next_task
        /\ D.s_task_count = k.s_task_count
        /\ D.late = IF mu[m].is_elevated THEN Ready(P) ELSE k.late
    <3>1. KernelTypeOK(P) /\ Ready(P) \subseteq Task /\ P.late \subseteq Task
      BY <1>5, CreatedTasks DEF KernelCore, KernelTypeOK
    <3> DEFINE l == IF mu[m].is_elevated THEN Ready(P) ELSE P.late
    <3>2. l \subseteq Task /\ D = [P EXCEPT !.late = l]
      BY <3>1
    <3>3. l = IF mu[m].is_elevated THEN Ready(P) ELSE k.late
      BY <1>3, <1>5
    <3> HIDE DEF l, D
    <3>4. /\ KernelTypeOK(D) /\ D.priority = P.priority /\ D.state = P.state
          /\ D.g_current_task = P.g_current_task /\ D.g_next_task = P.g_next_task
          /\ D.s_task_count = P.s_task_count /\ D.late = l
      BY <3>1, <3>2 DEF KernelTypeOK
    <3> QED
      BY <1>3, <1>5, <3>3, <3>4
  <2> HIDE DEF D
  <2>2. Ready(D) = Ready(P)
    BY <1>3, <1>5, <2>1 DEF Ready, Created
  <2>3. NextMostUrgent(D)
    <3>1. CASE mu[m].is_elevated
      BY <2>1, <2>2, <3>1 DEF NextMostUrgent
    <3>2. CASE ~mu[m].is_elevated
      BY <1>1, <1>2, <2>1, <3>2 DEF NextMostUrgent, Ready, Created, KernelInv
    <3> QED
      BY <3>1, <3>2
  <2>4. KernelCore(D) /\ D.state[D.g_next_task] # "BLOCKED"
    BY <1>1, <2>1 DEF KernelInv, KernelCore, HasThreads, OnlyNext, IdleAlive
  <2> QED
    BY <1>4, <1>6, <2>1, <2>3, <2>4 DEF KernelInv, p
<1>7. CASE w # NULL
  <2>1. /\ KernelInv(S) /\ (S.g_next_task # S.g_current_task => S.pendsv)
        /\ S.priority = P.priority
        /\ S.s_task_count = P.s_task_count /\ S.g_current_task = P.g_current_task
    <3>1. KernelCore(P) /\ w \in Task
      BY <1>3, <1>5, <1>7
    <3> QED
      BY <3>1, WakeRuns
  <2> HIDE DEF S
  <2> QED
    BY <1>3, <1>4, <1>5, <1>7, <2>1 DEF p
<1> QED
  BY <1>6, <1>7

(* The rest of mutex_unlock.                                               *)
LEMMA UnlockFields ==
    ASSUME MutexBase, NEW t \in Task, NEW m \in Mutex, mutex_unlock(t, m)
    PROVE  /\ Runs(t) /\ pc[t] = "user" /\ mu[m].task = t
           /\ k' = UnlockedKernel(m)
           /\ mu' \in [Mutex -> MutexRecord]
           /\ \A n \in Mutex : mu'[n] =
                 IF n = m THEN [mu[m] EXCEPT !.task = NULL, !.is_elevated = FALSE] ELSE mu[n]
           /\ \A n \in Mutex : mu'[n].task = IF n = m THEN NULL ELSE mu[n].task
           /\ holds' \in [Task -> SUBSET Mutex]
           /\ \A u \in Task : holds'[u] = IF u = t THEN holds[u] \ {m} ELSE holds[u]
           /\ pc' = pc /\ s_ticks' = s_ticks /\ wakeAt' = wakeAt /\ call' = call /\ base' = base
<1>1. /\ mu \in [Mutex -> MutexRecord] /\ holds \in [Task -> SUBSET Mutex]
      /\ NULL \notin Task
  BY BaseFacts
<1>2. mu[m].task = t
  BY DEF mutex_unlock, MutexBase, MutualExclusion
<1>3. /\ k' = UnlockedKernel(m)
      /\ mu' = [mu EXCEPT ![m].task = NULL, ![m].is_elevated = FALSE]
      /\ holds' = [holds EXCEPT ![t] = holds[t] \ {m}]
  BY <1>1, <1>2 DEF mutex_unlock
<1> DEFINE e == [mu[m] EXCEPT !.task = NULL, !.is_elevated = FALSE]
<1>4. mu' = [mu EXCEPT ![m] = e]
  BY <1>1, <1>3
<1>5. e \in MutexRecord /\ e.task = NULL
  <2>1. mu[m] \in MutexRecord
    BY <1>1
  <2> QED
    BY <2>1 DEF MutexRecord
<1> HIDE DEF e
<1>6. /\ mu' \in [Mutex -> MutexRecord]
      /\ \A n \in Mutex : mu'[n] = IF n = m THEN e ELSE mu[n]
  BY <1>1, <1>4, <1>5
<1>7. \A n \in Mutex : mu'[n].task = IF n = m THEN NULL ELSE mu[n].task
  BY <1>5, <1>6
<1>8. holds' \in [Task -> SUBSET Mutex]
  BY <1>1, <1>3
<1>9. \A u \in Task : holds'[u] = IF u = t THEN holds[u] \ {m} ELSE holds[u]
  BY <1>1, <1>3
<1> QED
  BY <1>2, <1>3, <1>6, <1>7, <1>8, <1>9 DEF mutex_unlock, e

(* mutex_unlock, with and without a waiter, keeps the base invariant.      *)
LEMMA UnlockBase ==
    ASSUME MutexBase, NEW t \in Task, NEW m \in Mutex, mutex_unlock(t, m)
    PROVE  BaseStep
<1>1. /\ Runs(t) /\ pc[t] = "user" /\ mu[m].task = t
      /\ k' = UnlockedKernel(m)
      /\ mu' \in [Mutex -> MutexRecord]
      /\ \A n \in Mutex : mu'[n] =
            IF n = m THEN [mu[m] EXCEPT !.task = NULL, !.is_elevated = FALSE] ELSE mu[n]
      /\ \A n \in Mutex : mu'[n].task = IF n = m THEN NULL ELSE mu[n].task
      /\ holds' \in [Task -> SUBSET Mutex]
      /\ \A u \in Task : holds'[u] = IF u = t THEN holds[u] \ {m} ELSE holds[u]
      /\ pc' = pc /\ s_ticks' = s_ticks /\ wakeAt' = wakeAt /\ call' = call /\ base' = base
  BY UnlockFields
<1>2. /\ KernelInv(k') /\ k'.s_task_count = k.s_task_count
      /\ k'.g_current_task = k.g_current_task
      /\ k'.g_next_task = k.g_next_task \/ (k'.g_next_task # k'.g_current_task => k'.pendsv)
  BY <1>1, UnlockKernel
<1>3. SwitchAt(SchedTriggers)'
  <2>1. k.g_next_task = k.g_current_task
    BY <1>1, BaseFacts, MutexLabels
  <2> QED
    BY <1>2, <2>1 DEF SwitchAt
<1>4. MutualExclusion'
  <2>1. NULL \notin Task /\ MutualExclusion /\ holds \in [Task -> SUBSET Mutex]
    BY BaseFacts DEF MutexBase
  <2> QED
    BY <1>1, <2>1 DEF MutualExclusion
<1> QED
  BY <1>1, <1>2, <1>3, <1>4, BaseFacts DEF BaseStep, MutexBase

(* The scheduler's own steps.                                              *)
LEMMA SchedBase ==
    ASSUME MutexBase, [SchedNext]_schedVars, UNCHANGED mutexLocals
    PROVE  MutexBase'
<1>1. /\ SchedCore /\ SchedLabel \subseteq MutexPc /\ pc \in [Task -> MutexPc]
      /\ SchedTriggers \subseteq SchedTriggers
      /\ "user" \notin SchedTriggers /\ "delay_wait" \notin SchedTriggers
      /\ SwitchAt(SchedTriggers)
  BY MutexLabels DEF MutexBase
<1>2. /\ SchedCore' /\ pc' \in [Task -> MutexPc] /\ SwitchAt(SchedTriggers)'
      /\ \A u \in Task : pc'[u] # pc[u] => {pc[u], pc'[u]} \subseteq SchedLabel
  BY <1>1, SchedSteps
<1>3. \A u \in Task : pc'[u] \in MutexLabel => call[u].m \in Mutex
  BY <1>2, MutexLabels DEF MutexBase
<1> QED
  BY <1>2, <1>3 DEF MutexBase, mutexLocals, MutualExclusion

(* Nobody holds or waits for a mutex at first.                             *)
LEMMA InitBase ==
    ASSUME MutexInit
    PROVE  MutexBase
<1>1. SchedInv /\ k.priority \in [Task -> Priority]
  BY InitCore DEF MutexInit
<1>2. /\ mu = [m \in Mutex |-> mutex_init] /\ call = [t \in Task |-> NoCall]
      /\ holds = [t \in Task |-> {}] /\ base = k.priority /\ pc = [t \in Task |-> "user"]
  BY DEF MutexInit, SchedInit
<1>3. mutex_init \in MutexRecord /\ mutex_init.task = NULL
  BY DEF mutex_init, MutexRecord, Priority, NoPriority
<1>4. NoCall \in CallRecord
  BY SchedulerAssumption DEF NoCall, CallRecord, Time
<1>5. /\ mu \in [Mutex -> MutexRecord] /\ call \in [Task -> CallRecord]
      /\ holds \in [Task -> SUBSET Mutex] /\ base \in [Task -> Priority]
      /\ pc \in [Task -> MutexPc]
  BY <1>1, <1>2, <1>3, <1>4, MutexLabels
<1>6. \A t \in Task : pc[t] \notin MutexLabel
  BY <1>2, MutexLabels
<1>7. MutualExclusion
  <2>1. NULL \notin Task
    BY KernelAssumption DEF Thread
  <2> QED
    BY <1>2, <1>3, <2>1 DEF MutualExclusion
<1> QED
  BY <1>1, <1>5, <1>6, <1>7 DEF MutexBase, SchedInv, MutexRecord, CallRecord

(* So does every step of the tasks, of the handlers and of the tick.       *)
LEMMA NextBase ==
    ASSUME MutexBase, [MutexNext]_vars
    PROVE  MutexBase'
<1>1. CASE UNCHANGED vars
  BY <1>1, SchedBase DEF vars, schedVars
<1>2. CASE SchedNext /\ UNCHANGED mutexLocals
  BY <1>2, SchedBase
<1>3. ASSUME NEW t \in Task, MutexStep(t)
      PROVE  MutexBase'
  BY <1>3, LockBase, TimedBase, TimedResetBase, EnterBase, BaseAssembled DEF MutexStep
<1>4. ASSUME NEW t \in Task, MutexCall(t)
      PROVE  MutexBase'
  BY <1>4, LockBase, TimedBase, UnlockBase, BaseAssembled DEF MutexCall
<1> QED
  BY <1>1, <1>2, <1>3, <1>4 DEF MutexNext

(* The base invariant of mutex.c over the scheduler: the kernel is well    *)
(* formed, every record has its type and a mutex has at most one owner,    *)
(* which knows that it holds it.  Nothing is assumed of pausing.           *)
THEOREM MutexBaseInvariant == MutexSpec => []MutexBase
<1>1. MutexInit => MutexBase
  BY InitBase
<1>2. MutexBase /\ [MutexNext]_vars => MutexBase'
  BY NextBase
<1> QED
  BY <1>1, <1>2, PTL DEF MutexSpec

(* All that the mutexes and their callers keep has its type.               *)
THEOREM MutexTypeCorrect == MutexSpec => []MutexTypeOK
<1>1. MutexBase => MutexTypeOK
  BY DEF MutexBase, SchedCore, KernelInv, KernelCore, MutexTypeOK, SchedTypeOK, MutexPc
<1> QED
  BY <1>1, MutexBaseInvariant, PTL

(* Two tasks never both believe they hold a mutex, and the mutex knows its *)
(* holder.                                                                 *)
THEOREM MutexExcludes == MutexSpec => []MutualExclusion
<1>1. MutexBase => MutualExclusion
  BY DEF MutexBase
<1> QED
  BY <1>1, MutexBaseInvariant, PTL
-----------------------------------------------------------------------------
(* Wait lists and wake-ups.                                                *)

(* A step of the running task t that leaves the lists, the states and the  *)
(* priorities alone and takes no mutex from a task that will find it free. *)
Quiet(t) ==
    /\ k.state[t] # "BLOCKED"
    /\ k'.state = k.state /\ k'.waiters = k.waiters /\ k'.delay_ticks = k.delay_ticks
    /\ k'.priority = k.priority /\ k'.late = k.late /\ k'.g_next_task = k.g_next_task
    /\ \A u \in Task \ {t} : /\ pc'[u] = pc[u] /\ call'[u] = call[u]
                             /\ k'.wait_list_head[u] = k.wait_list_head[u]
                             /\ k'.timed_out[u] <=> k.timed_out[u]
    /\ \A n \in Mutex : Free(n)' => Free(n)
    /\ \A n \in Mutex : Free(n)' /\ Succeeds(t, n) => Succeeds(t, n)'

(* Such a step keeps the lists exact and loses no wake-up.                 *)
LEMMA QuietInv ==
    ASSUME MutexInv, NEW t \in Task, Quiet(t)
    PROVE  MutexLists' /\ MutexWaits' /\ MutexTaken'
<1> USE DEF Quiet
<1>1. MutexLists'
  <2> SUFFICES ASSUME NEW h \in WaitList, NEW u \in Task
               PROVE  u \in ToSet(k.waiters[h]) <=> WaitingFor(u, h)' /\ k.state[u] = "BLOCKED"
    BY DEF MutexInv, MutexLists
  <2>1. u \in ToSet(k.waiters[h]) <=> WaitingFor(u, h) /\ k.state[u] = "BLOCKED"
    BY DEF MutexInv, MutexLists
  <2>2. CASE u = t
    BY <2>1, <2>2
  <2>3. CASE u # t
    BY <2>1, <2>3 DEF WaitingFor
  <2> QED
    BY <2>2, <2>3
<1>2. MutexWaits'
  BY DEF MutexInv, MutexWaits, NoStrayDelay
<1>3. MutexTaken'
  <2> SUFFICES ASSUME NEW n \in Mutex, Free(n)', k.waiters[n] # << >>
               PROVE  \E u \in Task : Succeeds(u, n)'
    BY DEF MutexTaken
  <2>1. PICK u \in Task : Succeeds(u, n)
    BY DEF MutexInv, MutexTaken
  <2>2. CASE u = t
    BY <2>1, <2>2
  <2>3. CASE u # t
    <3>1. Succeeds(u, n)'
      BY <2>1, <2>3 DEF Succeeds
    <3> QED
      BY <3>1
  <2> QED
    BY <2>2, <2>3
<1> QED
  BY <1>1, <1>2, <1>3

(* The running task is not blocked, and its mutex steps change no other    *)
(* task's place or locals.                                                 *)
LEMMA RunnerSteps ==
    ASSUME MutexBase, NEW t \in Task, Runs(t), pc[t] \in MutexLabel \cup {"user"}
    PROVE  /\ k.state[t] # "BLOCKED"
           /\ \A l : Goto(t, l) => /\ pc'[t] = l
                                   /\ \A u \in Task \ {t} : pc'[u] = pc[u]
           /\ \A m \in Mutex : Acquire(t, m) =>
                 /\ ~Free(m)' /\ Free(m) /\ pc'[t] = "user"
                 /\ \A n \in Mutex : Free(n)' => Free(n)
                 /\ \A u \in Task \ {t} : pc'[u] = pc[u] /\ call'[u] = call[u]
           /\ GiveUp(t) => /\ pc'[t] = "user"
                           /\ \A u \in Task \ {t} : pc'[u] = pc[u] /\ call'[u] = call[u]
<1>1. /\ pc \in [Task -> MutexPc] /\ call \in [Task -> CallRecord]
      /\ mu \in [Mutex -> MutexRecord] /\ NULL \notin Task
  BY BaseFacts
<1>2. k.state[t] # "BLOCKED"
  BY BaseFacts, MutexLabels
<1>3. ASSUME NEW l, Goto(t, l)
      PROVE  pc'[t] = l /\ \A u \in Task \ {t} : pc'[u] = pc[u]
  BY <1>1, <1>3 DEF Goto
<1>4. ASSUME NEW m \in Mutex, Acquire(t, m)
      PROVE  /\ ~Free(m)' /\ Free(m) /\ pc'[t] = "user"
             /\ \A n \in Mutex : Free(n)' => Free(n)
             /\ \A u \in Task \ {t} : pc'[u] = pc[u] /\ call'[u] = call[u]
  <2>1. \A n \in Mutex : mu'[n].task = IF n = m THEN t ELSE mu[n].task
    BY <1>1, <1>4 DEF Acquire, MutexRecord
  <2>2. Goto(t, "user") /\ Free(m) /\ \A u \in Task \ {t} : call'[u] = call[u]
    BY <1>1, <1>4 DEF Acquire
  <2> QED
    BY <1>1, <1>3, <2>1, <2>2 DEF Free
<1>5. ASSUME GiveUp(t)
      PROVE  /\ pc'[t] = "user"
             /\ \A u \in Task \ {t} : pc'[u] = pc[u] /\ call'[u] = call[u]
  BY <1>1, <1>3, <1>5 DEF GiveUp
<1> QED
  BY <1>2, <1>3, <1>4, <1>5

(* The steps of mutex.c outside its critical sections.                     *)
LEMMA CallQuiet ==
    ASSUME MutexInv, NEW t \in Task,
           \/ \E m \in Mutex : mutex_lock(t, m) \/ mutex_trylock(t, m)
           \/ \E m \in Mutex, ms \in Timeout : mutex_lock_timeout(t, m, ms)
           \/ TimedNow(t)
           \/ LockRetry(t)
    PROVE  Quiet(t)
<1>0. MutexBase
  BY DEF MutexInv
<1>1. Runs(t) /\ pc[t] \in {"user", "timed_now", "lock_retry"} /\ k' = k
  BY DEF mutex_lock, mutex_trylock, mutex_lock_timeout, TimedNow, LockRetry
<1>2. pc[t] \in MutexLabel \cup {"user"}
  BY <1>1 DEF MutexLabel
<1>3. /\ k.state[t] # "BLOCKED"
      /\ \A l : Goto(t, l) => pc'[t] = l /\ \A u \in Task \ {t} : pc'[u] = pc[u]
      /\ \A m \in Mutex : Acquire(t, m) =>
            /\ ~Free(m)' /\ Free(m) /\ pc'[t] = "user"
            /\ \A n \in Mutex : Free(n)' => Free(n)
            /\ \A u \in Task \ {t} : pc'[u] = pc[u] /\ call'[u] = call[u]
      /\ GiveUp(t) => /\ pc'[t] = "user"
                      /\ \A u \in Task \ {t} : pc'[u] = pc[u] /\ call'[u] = call[u]
  BY <1>0, <1>1, <1>2, RunnerSteps
<1>4. call \in [Task -> CallRecord] /\ (pc[t] \in MutexLabel => call[t].m \in Mutex)
  BY <1>0, BaseFacts DEF MutexBase
<1>5. /\ \A u \in Task \ {t} : pc'[u] = pc[u] /\ call'[u] = call[u]
      /\ \A n \in Mutex : Free(n)' => Free(n)
      /\ \A n \in Mutex : Succeeds(t, n) => ~Free(n)'
  <2>1. ASSUME NEW m \in Mutex, mutex_lock(t, m) \/ mutex_trylock(t, m)
        PROVE  /\ \A u \in Task \ {t} : pc'[u] = pc[u] /\ call'[u] = call[u]
               /\ \A n \in Mutex : Free(n)' => Free(n)
               /\ \A n \in Mutex : ~Succeeds(t, n)
    <3>1. pc[t] = "user"
      BY <2>1 DEF mutex_lock, mutex_trylock
    <3>2. \A n \in Mutex : ~Succeeds(t, n)
      BY <3>1 DEF Succeeds
    <3>3. CASE Acquire(t, m)
      BY <1>3, <3>2, <3>3
    <3>4. CASE call' = [call EXCEPT ![t].m = m] /\ Goto(t, "lock_enter") /\ UNCHANGED <<mu, holds>>
      BY <1>3, <1>4, <3>2, <3>4 DEF Free
    <3> QED
      BY <2>1, <3>3, <3>4 DEF mutex_lock, mutex_trylock
  <2>2. ASSUME NEW m \in Mutex, NEW ms \in Timeout, mutex_lock_timeout(t, m, ms)
        PROVE  /\ \A u \in Task \ {t} : pc'[u] = pc[u] /\ call'[u] = call[u]
               /\ \A n \in Mutex : Free(n)' => Free(n)
               /\ \A n \in Mutex : ~Succeeds(t, n)
    BY <1>3, <1>4, <2>2 DEF mutex_lock_timeout, Succeeds, Free
  <2>3. ASSUME TimedNow(t)
        PROVE  /\ \A u \in Task \ {t} : pc'[u] = pc[u] /\ call'[u] = call[u]
               /\ \A n \in Mutex : Free(n)' => Free(n)
               /\ \A n \in Mutex : ~Succeeds(t, n)
    <3>1. \A n \in Mutex : ~Succeeds(t, n)
      BY <2>3 DEF Succeeds, TimedNow
    <3>2. mu' = mu
      BY <2>3 DEF TimedNow
    <3>3. CASE GiveUp(t)
      BY <1>3, <3>1, <3>2, <3>3 DEF Free
    <3>4. CASE call' = [call EXCEPT ![t].remaining = call[t].deadline - s_ticks]
                 /\ Goto(t, "timed_enter")
      BY <1>3, <1>4, <3>1, <3>2, <3>4 DEF Free
    <3> QED
      BY <2>3, <3>3, <3>4 DEF TimedNow
  <2>4. ASSUME LockRetry(t)
        PROVE  /\ \A u \in Task \ {t} : pc'[u] = pc[u] /\ call'[u] = call[u]
               /\ \A n \in Mutex : Free(n)' => Free(n)
               /\ \A n \in Mutex : Succeeds(t, n) => ~Free(n)'
    <3>1. call[t].m \in Mutex /\ \A n \in Mutex : Succeeds(t, n) => n = call[t].m
      BY <1>4, <2>4 DEF LockRetry, MutexLabel, Succeeds
    <3>2. CASE Acquire(t, call[t].m)
      BY <1>3, <3>1, <3>2
    <3>3. CASE ~Free(call[t].m) /\ Goto(t, "lock_enter") /\ UNCHANGED <<mu, call, holds>>
      BY <1>3, <3>1, <3>3 DEF Free
    <3> QED
      BY <2>4, <3>2, <3>3 DEF LockRetry
  <2> QED
    BY <2>1, <2>2, <2>3, <2>4
<1> QED
  BY <1>1, <1>3, <1>5 DEF Quiet

(* ... and those that reset the caller's waiting fields.                   *)
LEMMA ResetQuiet ==
    ASSUME MutexInv, NEW t \in Task, TimedTry(t) \/ TimedCheck(t)
    PROVE  Quiet(t)
<1>0. MutexBase
  BY DEF MutexInv
<1>1. Runs(t) /\ pc[t] \in {"timed_try", "timed_check"}
  BY DEF TimedTry, TimedCheck
<1>2. pc[t] \in MutexLabel \cup {"user"}
  BY <1>1 DEF MutexLabel
<1>3. /\ k.state[t] # "BLOCKED"
      /\ \A l : Goto(t, l) => pc'[t] = l /\ \A u \in Task \ {t} : pc'[u] = pc[u]
      /\ \A m \in Mutex : Acquire(t, m) =>
            /\ ~Free(m)' /\ Free(m) /\ pc'[t] = "user"
            /\ \A n \in Mutex : Free(n)' => Free(n)
            /\ \A u \in Task \ {t} : pc'[u] = pc[u] /\ call'[u] = call[u]
      /\ GiveUp(t) => /\ pc'[t] = "user"
                      /\ \A u \in Task \ {t} : pc'[u] = pc[u] /\ call'[u] = call[u]
  BY <1>0, <1>1, <1>2, RunnerSteps
<1>4. /\ call \in [Task -> CallRecord] /\ call[t].m \in Mutex /\ KernelTypeOK(k)
      /\ k.wait_list_head \in [Task -> WaitList \cup {NULL}] /\ k.timed_out \in [Task -> BOOLEAN]
  BY <1>0, <1>1, BaseFacts DEF MutexBase, MutexLabel, KernelCore
<1>5. /\ k'.state = k.state /\ k'.waiters = k.waiters /\ k'.delay_ticks = k.delay_ticks
      /\ k'.priority = k.priority /\ k'.late = k.late /\ k'.g_next_task = k.g_next_task
      /\ \A u \in Task \ {t} : /\ k'.wait_list_head[u] = k.wait_list_head[u]
                               /\ k'.timed_out[u] <=> k.timed_out[u]
  <2>1. CASE k' = k
    BY <2>1
  <2>2. CASE k' = [k EXCEPT !.wait_list_head[t] = NULL]
    BY <1>4, <2>2 DEF KernelTypeOK
  <2>3. CASE k' = [k EXCEPT !.timed_out[t] = FALSE, !.wait_list_head[t] = NULL]
    BY <1>4, <2>3 DEF KernelTypeOK
  <2> QED
    BY <2>1, <2>2, <2>3 DEF TimedTry, TimedCheck
<1>6. /\ \A u \in Task \ {t} : pc'[u] = pc[u] /\ call'[u] = call[u]
      /\ \A n \in Mutex : Free(n)' => Free(n)
      /\ \A n \in Mutex : Free(n)' /\ Succeeds(t, n) => Succeeds(t, n)'
  <2>1. \A n \in Mutex : Succeeds(t, n) => n = call[t].m
    BY DEF Succeeds
  <2>2. CASE TimedTry(t)
    <3>1. CASE Acquire(t, call[t].m)
      BY <1>3, <1>4, <2>1, <3>1
    <3>2. CASE ~Free(call[t].m) /\ Goto(t, "timed_now") /\ UNCHANGED <<mu, call>>
      BY <1>3, <2>1, <3>2 DEF Free
    <3> QED
      BY <2>2, <3>1, <3>2 DEF TimedTry
  <2>3. CASE TimedCheck(t)
    <3>1. mu' = mu
      BY <2>3 DEF TimedCheck
    <3>2. CASE k.timed_out[t]
      <4>1. \A n \in Mutex : ~Succeeds(t, n)
        BY <2>3, <3>2 DEF Succeeds, TimedCheck
      <4> QED
        BY <1>3, <2>3, <3>1, <3>2, <4>1 DEF TimedCheck, Free
    <3>3. CASE ~k.timed_out[t]
      <4>1. Goto(t, "timed_try") /\ k' = k /\ call' = call
        BY <2>3, <3>3 DEF TimedCheck
      <4> QED
        BY <1>3, <3>1, <4>1 DEF Succeeds, Free
    <3> QED
      BY <3>2, <3>3
  <2> QED
    BY <2>2, <2>3
<1> QED
  BY <1>3, <1>5, <1>6 DEF Quiet

(* The blocking critical sections: the caller joins the list, with the     *)
(* countdown that the tick will need.                                      *)
LEMMA EnterInv ==
    ASSUME MutexInv, NEW t \in Task, LockEnter(t) \/ TimedEnter(t)
    PROVE  MutexLists' /\ MutexWaits' /\ MutexTaken'
<1> DEFINE m == call[t].m
<1>0. MutexBase
  BY DEF MutexInv
<1>1. Runs(t) /\ pc[t] \in {"lock_enter", "timed_enter"} /\ call' = call
  BY DEF LockEnter, TimedEnter
<1>2. pc[t] \in MutexLabel \cup {"user"}
  BY <1>1 DEF MutexLabel
<1>3. /\ k.state[t] # "BLOCKED"
      /\ \A l : Goto(t, l) => pc'[t] = l /\ \A u \in Task \ {t} : pc'[u] = pc[u]
  BY <1>0, <1>1, <1>2, RunnerSteps
<1>4. /\ call \in [Task -> CallRecord] /\ m \in Mutex /\ m \in WaitList
      /\ k.delay_ticks \in [Task -> Nat] /\ Task \subseteq Thread
      /\ k.wait_list_head \in [Task -> WaitList \cup {NULL}] /\ k.timed_out \in [Task -> BOOLEAN]
  BY <1>0, <1>1, BaseFacts DEF MutexBase, MutexLabel
<1>5. \A u \in Task \ {t} : pc'[u] = pc[u]
  BY <1>3 DEF LockEnter, TimedEnter
<1>6. \A n \in Mutex : ~Succeeds(t, n)
  BY <1>1 DEF Succeeds
<1>7. CASE Free(m)
  <2>1. k' = k /\ mu' = mu
    BY <1>7 DEF LockEnter, TimedEnter
  <2> HIDE DEF m
  <2>2. \A n \in Mutex : Free(n)' => Free(n)
    BY <2>1 DEF Free
  <2> QED
    BY <1>1, <1>3, <1>5, <1>6, <2>1, <2>2, QuietInv DEF Quiet
<1>8. CASE ~Free(m)
  <2>1. Blocked(t, m)
    BY <1>0, <1>8, EnterBase
  <2>2. /\ \A n \in Mutex : Free(n)' <=> Free(n)
    <3>1. mu' = ElevatedMutex(t, m)
      BY <1>8 DEF LockEnter, TimedEnter
    <3> HIDE DEF m
    <3> QED
      BY <1>0, <1>4, <1>8, <3>1, ElevatedBase DEF Free
  <2>3. \/ /\ pc'[t] = "lock_retry"
           /\ k'.delay_ticks = k.delay_ticks /\ k'.wait_list_head = k.wait_list_head
           /\ k'.timed_out = k.timed_out
        \/ /\ pc'[t] = "timed_check"
           /\ \E n \in Nat : k'.delay_ticks = [k.delay_ticks EXCEPT ![t] = n]
           /\ k'.wait_list_head = [k.wait_list_head EXCEPT ![t] = m]
           /\ k'.timed_out = [k.timed_out EXCEPT ![t] = FALSE]
    <3>1. CASE LockEnter(t)
      <4>1. k' = BlockOn([k EXCEPT !.priority = ElevatedPriority(t, m)], t, m)
            /\ Goto(t, "lock_retry")
        BY <1>8, <3>1 DEF LockEnter
      <4> HIDE DEF m
      <4>2. /\ Blocked(t, m)
            /\ k'.delay_ticks = k.delay_ticks /\ k'.wait_list_head = k.wait_list_head
            /\ k'.timed_out = k.timed_out
        BY <1>0, <1>4, <1>8, <4>1, LockBlocks
      <4> QED
        BY <1>3, <4>1, <4>2
    <3>2. CASE TimedEnter(t)
      <4> DEFINE n == call[t].remaining
      <4>1. n \in Nat
        BY <1>4 DEF CallRecord
      <4>2. k' = BlockOn(ArmTimeout([k EXCEPT !.priority = ElevatedPriority(t, m)], t, m, n), t, m)
            /\ Goto(t, "timed_check")
        BY <1>8, <3>2 DEF TimedEnter
      <4> HIDE DEF m, n
      <4>3. /\ Blocked(t, m)
            /\ k'.delay_ticks = [k.delay_ticks EXCEPT ![t] = n]
            /\ k'.wait_list_head = [k.wait_list_head EXCEPT ![t] = m]
            /\ k'.timed_out = [k.timed_out EXCEPT ![t] = FALSE]
        BY <1>0, <1>4, <1>8, <4>1, <4>2, TimedBlocks
      <4> QED
        BY <1>3, <4>1, <4>2, <4>3
    <3> QED
      BY <3>1, <3>2
  <2>4. /\ \A u \in Task : k'.state[u] = "BLOCKED" <=> u = t \/ k.state[u] = "BLOCKED"
        /\ \A g \in WaitList : g # m => k'.waiters[g] = k.waiters[g]
        /\ ToSet(k'.waiters[m]) = ToSet(k.waiters[m]) \cup {t}
        /\ Once(k.waiters[m]) /\ t \notin ToSet(k.waiters[m]) => Once(k'.waiters[m])
    BY <2>1 DEF Blocked
  <2>5. \A h \in WaitList : WaitingFor(t, h)' <=> h = m
    BY <1>1, <2>3 DEF WaitingFor
  <2>6. \A u \in Task \ {t} : \A h : WaitingFor(u, h)' <=> WaitingFor(u, h)
    BY <1>1, <1>5 DEF WaitingFor
  <2>7. MutexLists'
    <3> SUFFICES ASSUME NEW h \in WaitList
                 PROVE  /\ Once(k'.waiters[h])
                        /\ \A u \in Task : u \in ToSet(k'.waiters[h])
                                             <=> WaitingFor(u, h)' /\ k'.state[u] = "BLOCKED"
      BY DEF MutexLists
    <3>1. /\ Once(k.waiters[h])
          /\ \A u \in Task : u \in ToSet(k.waiters[h])
                               <=> WaitingFor(u, h) /\ k.state[u] = "BLOCKED"
      BY DEF MutexInv, MutexLists
    <3>2. t \notin ToSet(k.waiters[h])
      BY <1>3, <3>1
    <3> HIDE DEF m
    <3>3. CASE h = m
      BY <2>4, <2>5, <2>6, <3>1, <3>2, <3>3
    <3>4. CASE h # m
      BY <2>4, <2>5, <2>6, <3>1, <3>2, <3>4
    <3> QED
      BY <3>3, <3>4
  <2>8. MutexWaits'
    <3>1. k.delay_ticks[t] = 0
      BY <1>3 DEF MutexInv, MutexWaits, NoStrayDelay
    <3>2. \A u \in Task \ {t} : /\ k'.delay_ticks[u] = k.delay_ticks[u]
                                /\ k'.wait_list_head[u] = k.wait_list_head[u]
                                /\ k'.timed_out[u] <=> k.timed_out[u]
      BY <1>4, <2>3
    <3>3. \/ pc'[t] = "lock_retry" /\ k'.delay_ticks[t] = 0
          \/ pc'[t] = "timed_check" /\ k'.wait_list_head[t] = m /\ ~k'.timed_out[t]
      BY <1>4, <2>3, <3>1
    <3>4. NoStrayDelay'
      BY <2>4, <3>2 DEF NoStrayDelay, MutexInv, MutexWaits
    <3>5. \A u \in Task : pc'[u] = "lock_retry" => k'.delay_ticks[u] = 0
      BY <1>5, <3>2, <3>3 DEF MutexInv, MutexWaits
    <3>6. ASSUME NEW u \in Task, pc'[u] = "timed_check", k'.state[u] = "BLOCKED"
          PROVE  ~k'.timed_out[u] /\ (k'.delay_ticks[u] # 0 => k'.wait_list_head[u] = call'[u].m)
      <4>1. CASE u = t
        BY <1>1, <3>3, <3>6, <4>1
      <4>2. CASE u # t
        BY <1>1, <1>5, <2>4, <3>2, <3>6, <4>2 DEF MutexInv, MutexWaits
      <4> QED
        BY <4>1, <4>2
    <3> QED
      BY <3>4, <3>5, <3>6 DEF MutexWaits
  <2>9. MutexTaken'
    <3> SUFFICES ASSUME NEW n \in Mutex, Free(n)', k'.waiters[n] # << >>
                 PROVE  \E u \in Task : Succeeds(u, n)'
      BY DEF MutexTaken
    <3>1. Free(n) /\ n # m /\ n \in WaitList
      BY <1>8, <2>2, MutexAssumption
    <3>2. k.waiters[n] # << >>
      BY <2>4, <3>1
    <3>3. PICK u \in Task : Succeeds(u, n)
      BY <3>1, <3>2 DEF MutexInv, MutexTaken
    <3>4. u # t
      BY <1>6, <3>3
    <3>5. k'.timed_out[u] <=> k.timed_out[u]
      BY <1>4, <2>3, <3>4
    <3>6. Succeeds(u, n)'
      BY <1>1, <1>5, <2>4, <3>3, <3>4, <3>5 DEF Succeeds
    <3> QED
      BY <3>6
  <2> QED
    BY <2>7, <2>8, <2>9
<1> QED
  BY <1>7, <1>8

(* What mutex_unlock makes of the kernel's memory: nothing that a wait     *)
(* depends on if nobody waits, else the first waiter w is off the list and *)
(* ready.                                                                  *)
Unlocks(R, m) ==
    \/ /\ k.waiters[m] = << >>
       /\ R.state = k.state /\ R.delay_ticks = k.delay_ticks
       /\ R.wait_list_head = k.wait_list_head /\ R.timed_out = k.timed_out
       /\ R.waiters = k.waiters /\ R.g_next_task = k.g_next_task
    \/ \E w \in ToSet(k.waiters[m]) :
       /\ w \in Task /\ w = FirstWaiter(k, m)
       /\ \A u \in Task : R.state[u] = "BLOCKED" <=> u # w /\ k.state[u] = "BLOCKED"
       /\ R.delay_ticks = [k.delay_ticks EXCEPT ![w] = 0]
       /\ R.wait_list_head = k.wait_list_head /\ R.timed_out = k.timed_out
       /\ R.waiters[m] \in Seq(Task) /\ SubList(R.waiters[m], k.waiters[m])
       /\ ToSet(R.waiters[m]) = ToSet(k.waiters[m]) \ {w}
       /\ \A g \in WaitList : g # m => R.waiters[g] = k.waiters[g]
       /\ NobodyPaused(k) => Decided(R)

(* mutex_unlock: the first waiter leaves the list, is woken and will find  *)
(* the mutex free.                                                         *)
LEMMA UnlockWakes ==
    ASSUME MutexInv, NEW m \in Mutex, mu[m].task \in Task,
           NEW R, R = UnlockedKernel(m)
    PROVE  Unlocks(R, m)
<1> DEFINE W == wq_pop(k, m)
           p == Restored(m)
           P == [W EXCEPT !.priority = p]
           w == FirstWaiter(k, m)
           D == [P EXCEPT !.late = IF mu[m].is_elevated THEN Ready(P) ELSE @]
           S == sched_wake_task(P, w)
<1>0. MutexBase
  BY DEF MutexInv
<1>1. /\ KernelCore(k) /\ m \in WaitList /\ Task \subseteq Thread
      /\ k.priority \in [Task -> Priority] /\ mu[m] \in MutexRecord
      /\ Once(k.waiters[m])
  BY <1>0, BaseFacts DEF MutexInv, MutexLists
<1>2. p \in [Task -> Priority]
  <2>1. mu[m].owner_original_priority \in Priority
    BY <1>1 DEF MutexRecord
  <2> QED
    BY <1>1, <2>1 DEF Restored
<1>3. R = IF w = NULL THEN D ELSE S
  BY DEF UnlockedKernel
<1> HIDE DEF p
<1>4. CASE k.waiters[m] = << >>
  <2>1. w = NULL
    BY <1>4 DEF FirstWaiter
  <2>2. W.state = k.state /\ W.delay_ticks = k.delay_ticks
        /\ W.wait_list_head = k.wait_list_head /\ W.timed_out = k.timed_out
        /\ W.waiters = k.waiters /\ W.g_next_task = k.g_next_task /\ KernelCore(W)
    <3>1. w = NULL => W = k
      BY <1>1, PopCore
    <3> HIDE DEF W, w
    <3> QED
      BY <1>1, <2>1, <3>1
  <2> HIDE DEF W, w
  <2>3. /\ KernelCore(P) /\ P.priority = p
        /\ P.state = W.state /\ P.delay_ticks = W.delay_ticks
        /\ P.wait_list_head = W.wait_list_head /\ P.timed_out = W.timed_out
        /\ P.waiters = W.waiters /\ P.s_task_count = W.s_task_count
        /\ P.g_current_task = W.g_current_task /\ P.g_next_task = W.g_next_task
        /\ P.pendsv = W.pendsv /\ P.late = W.late
    BY <1>2, <2>2, PrioritySet
  <2> HIDE DEF P
  <2>4. /\ D.state = P.state /\ D.delay_ticks = P.delay_ticks
        /\ D.wait_list_head = P.wait_list_head /\ D.timed_out = P.timed_out
        /\ D.waiters = P.waiters /\ D.g_next_task = P.g_next_task
    BY <2>3 DEF KernelCore, KernelTypeOK
  <2> HIDE DEF D, S
  <2> QED
    BY <1>3, <1>4, <2>1, <2>2, <2>3, <2>4 DEF Unlocks
<1>5. CASE k.waiters[m] # << >>
  <2>1. /\ KernelCore(W)
        /\ w \in Task /\ w # NULL /\ w \in ToSet(k.waiters[m])
        /\ W = [k EXCEPT !.waiters = W.waiters]
        /\ W.state = k.state
        /\ W.priority = k.priority /\ W.delay_ticks = k.delay_ticks
        /\ W.wait_list_head = k.wait_list_head /\ W.timed_out = k.timed_out
        /\ W.s_task_count = k.s_task_count /\ W.g_current_task = k.g_current_task
        /\ W.pendsv = k.pendsv
        /\ W.waiters[m] \in Seq(Task)
        /\ SubList(W.waiters[m], k.waiters[m])
        /\ ToSet(W.waiters[m]) = ToSet(k.waiters[m]) \ {w}
        /\ \A g \in WaitList : g # m => W.waiters[g] = k.waiters[g]
    BY <1>1, <1>5, PopKeeps
  <2>0. w = FirstWaiter(k, m)
    OBVIOUS
  <2> HIDE DEF W, w
  <2>2. /\ KernelCore(P) /\ P.priority = p
        /\ P.state = W.state /\ P.delay_ticks = W.delay_ticks
        /\ P.wait_list_head = W.wait_list_head /\ P.timed_out = W.timed_out
        /\ P.waiters = W.waiters /\ P.s_task_count = W.s_task_count
        /\ P.g_current_task = W.g_current_task /\ P.g_next_task = W.g_next_task
        /\ P.pendsv = W.pendsv /\ P.late = W.late
    BY <1>2, <2>1, PrioritySet
  <2> HIDE DEF P
  <2>3. \A h \in WaitList : w \notin ToSet(P.waiters[h])
    <3> SUFFICES ASSUME NEW h \in WaitList
                 PROVE  w \notin ToSet(W.waiters[h])
      BY <2>2
    <3>1. WaitingFor(w, m)
      BY <1>1, <2>1 DEF MutexInv, MutexLists
    <3>2. CASE h = m
      BY <2>1, <3>2
    <3>3. CASE h # m
      <4>1. ~WaitingFor(w, h)
        BY <3>1, <3>3 DEF WaitingFor
      <4> QED
        BY <2>1, <3>3, <4>1 DEF MutexInv, MutexLists
    <3> QED
      BY <3>2, <3>3
  <2>4. /\ LET L == WakeLocked(P, w) IN
           /\ KernelInv(L) /\ L.pendsv = P.pendsv
           /\ L.priority = P.priority /\ L.wait_list_head = P.wait_list_head
           /\ L.timed_out = P.timed_out /\ L.waiters = P.waiters
           /\ L.s_task_count = P.s_task_count /\ L.g_current_task = P.g_current_task
           /\ L.delay_ticks = [P.delay_ticks EXCEPT ![w] = 0]
           /\ \A u \in Thread : L.state[u] = "BLOCKED" <=> u # w /\ P.state[u] = "BLOCKED"
        /\ KernelInv(S) /\ (S.g_next_task # S.g_current_task => S.pendsv)
        /\ S.priority = P.priority /\ S.wait_list_head = P.wait_list_head
        /\ S.timed_out = P.timed_out /\ S.waiters = P.waiters
        /\ S.s_task_count = P.s_task_count /\ S.g_current_task = P.g_current_task
        /\ S.delay_ticks = [P.delay_ticks EXCEPT ![w] = 0]
        /\ \A u \in Thread : S.state[u] = "BLOCKED" <=> u # w /\ P.state[u] = "BLOCKED"
    <3>1. KernelCore(P) /\ w \in Task /\ \A h \in WaitList : w \notin ToSet(P.waiters[h])
      BY <2>1, <2>2, <2>3
    <3> QED
      BY <3>1, WakeDecides
  <2>5. R = S
    BY <1>3, <2>1
  <2>7. NobodyPaused(k) => Decided(S)
    BY <2>1, <2>2, <2>3, WakeDecided DEF NobodyPaused
  <2> HIDE DEF S
  <2>6. /\ \A u \in Task : R.state[u] = "BLOCKED" <=> u # w /\ k.state[u] = "BLOCKED"
        /\ R.delay_ticks = [k.delay_ticks EXCEPT ![w] = 0]
        /\ R.wait_list_head = k.wait_list_head /\ R.timed_out = k.timed_out
        /\ R.waiters = W.waiters
    BY <1>1, <2>1, <2>2, <2>4, <2>5
  <2>8. /\ w \in ToSet(k.waiters[m]) /\ w \in Task /\ w = FirstWaiter(k, m)
        /\ R.waiters[m] \in Seq(Task) /\ SubList(R.waiters[m], k.waiters[m])
        /\ ToSet(R.waiters[m]) = ToSet(k.waiters[m]) \ {w}
        /\ \A g \in WaitList : g # m => R.waiters[g] = k.waiters[g]
        /\ NobodyPaused(k) => Decided(R)
    BY <2>0, <2>1, <2>5, <2>6, <2>7
  <2> QED
    BY <2>6, <2>8 DEF Unlocks
<1> QED
  BY <1>4, <1>5

(* mutex_unlock hands the mutex to the first waiter or leaves it free, and *)
(* the lists stay exact.                                                   *)
LEMMA UnlockInv ==
    ASSUME MutexInv, NEW t \in Task, NEW m \in Mutex, mutex_unlock(t, m)
    PROVE  MutexLists' /\ MutexWaits' /\ MutexTaken'
<1>0. MutexBase
  BY DEF MutexInv
<1>1. /\ Runs(t) /\ pc[t] = "user" /\ mu[m].task = t
      /\ k' = UnlockedKernel(m)
      /\ mu' \in [Mutex -> MutexRecord]
      /\ \A n \in Mutex : mu'[n] =
            IF n = m THEN [mu[m] EXCEPT !.task = NULL, !.is_elevated = FALSE] ELSE mu[n]
      /\ \A n \in Mutex : mu'[n].task = IF n = m THEN NULL ELSE mu[n].task
      /\ holds' \in [Task -> SUBSET Mutex]
      /\ \A u \in Task : holds'[u] = IF u = t THEN holds[u] \ {m} ELSE holds[u]
      /\ pc' = pc /\ s_ticks' = s_ticks /\ wakeAt' = wakeAt /\ call' = call /\ base' = base
  BY <1>0, UnlockFields
<1>2. /\ m \in WaitList /\ k.delay_ticks \in [Task -> Nat] /\ k.waiters \in [WaitList -> Seq(Task)]
      /\ k.priority \in [Task -> Priority]
  BY <1>0, BaseFacts
<1>3. \A u \in Task : \A h : WaitingFor(u, h)' <=> WaitingFor(u, h)
  BY <1>1 DEF WaitingFor
<1>4. \A n \in Mutex : n # m => (Free(n)' <=> Free(n))
  BY <1>1 DEF Free
<1>5. ASSUME k.waiters[m] = << >>,
             k'.state = k.state, k'.delay_ticks = k.delay_ticks,
             k'.wait_list_head = k.wait_list_head, k'.timed_out = k.timed_out,
             k'.waiters = k.waiters
      PROVE  MutexLists' /\ MutexWaits' /\ MutexTaken'
  <2>1. MutexLists'
    BY <1>3, <1>5 DEF MutexInv, MutexLists
  <2>2. MutexWaits'
    BY <1>1, <1>5 DEF MutexInv, MutexWaits, NoStrayDelay
  <2>3. MutexTaken'
    <3> SUFFICES ASSUME NEW n \in Mutex, Free(n)', k'.waiters[n] # << >>
                 PROVE  \E u \in Task : Succeeds(u, n)'
      BY DEF MutexTaken
    <3>1. PICK u \in Task : Succeeds(u, n)
      BY <1>4, <1>5 DEF MutexInv, MutexTaken
    <3>2. Succeeds(u, n)'
      BY <1>1, <1>5, <3>1 DEF Succeeds
    <3> QED
      BY <3>2
  <2> QED
    BY <2>1, <2>2, <2>3
<1>6. ASSUME NEW w \in ToSet(k.waiters[m]), w \in Task,
             \A u \in Task : k'.state[u] = "BLOCKED" <=> u # w /\ k.state[u] = "BLOCKED",
             k'.delay_ticks = [k.delay_ticks EXCEPT ![w] = 0],
             k'.wait_list_head = k.wait_list_head, k'.timed_out = k.timed_out,
             k'.waiters[m] \in Seq(Task), SubList(k'.waiters[m], k.waiters[m]),
             ToSet(k'.waiters[m]) = ToSet(k.waiters[m]) \ {w},
             \A g \in WaitList : g # m => k'.waiters[g] = k.waiters[g]
      PROVE  MutexLists' /\ MutexWaits' /\ MutexTaken'
  <2>0. WaitingFor(w, m) /\ k.state[w] = "BLOCKED"
    BY <1>2, <1>6 DEF MutexInv, MutexLists
  <2>1. MutexLists'
    <3> SUFFICES ASSUME NEW h \in WaitList
                 PROVE  /\ Once(k'.waiters[h])
                        /\ \A u \in Task : u \in ToSet(k'.waiters[h])
                                             <=> WaitingFor(u, h) /\ k'.state[u] = "BLOCKED"
      BY <1>3 DEF MutexLists
    <3>1. /\ Once(k.waiters[h])
          /\ \A u \in Task : u \in ToSet(k.waiters[h])
                               <=> WaitingFor(u, h) /\ k.state[u] = "BLOCKED"
      BY DEF MutexInv, MutexLists
    <3>2. CASE h = m
      <4>1. k.waiters[m] \in Seq(Task)
        BY <1>2
      <4>2. Once(k'.waiters[m])
        BY <1>2, <1>6, <3>1, <3>2, <4>1, SubListKeeps
      <4> QED
        BY <1>6, <3>1, <3>2, <4>2
    <3>3. CASE h # m
      <4>1. ~WaitingFor(w, h)
        BY <2>0, <3>3 DEF WaitingFor
      <4> QED
        BY <1>6, <3>1, <3>3, <4>1
    <3> QED
      BY <3>2, <3>3
  <2>2. MutexWaits'
    <3>1. \A u \in Task : k'.delay_ticks[u] = IF u = w THEN 0 ELSE k.delay_ticks[u]
      BY <1>2, <1>6
    <3>2. NoStrayDelay'
      BY <1>6, <3>1 DEF MutexInv, MutexWaits, NoStrayDelay
    <3> QED
      BY <1>1, <1>6, <3>1, <3>2 DEF MutexInv, MutexWaits
  <2>3. MutexTaken'
    <3> SUFFICES ASSUME NEW n \in Mutex, Free(n)', k'.waiters[n] # << >>
                 PROVE  \E u \in Task : Succeeds(u, n)'
      BY DEF MutexTaken
    <3>1. CASE n = m
      <4>1. pc[w] = "lock_retry" \/ (pc[w] = "timed_check" /\ ~k.timed_out[w])
        BY <1>6, <2>0 DEF WaitingFor, MutexInv, MutexWaits
      <4>2. Succeeds(w, m)'
        BY <1>1, <1>6, <2>0, <4>1 DEF Succeeds, WaitingFor
      <4> QED
        BY <1>6, <3>1, <4>2
    <3>2. CASE n # m
      <4>1. n \in WaitList
        BY MutexAssumption
      <4>2. PICK u \in Task : Succeeds(u, n)
        BY <1>4, <1>6, <3>2, <4>1 DEF MutexInv, MutexTaken
      <4>3. Succeeds(u, n)'
        BY <1>1, <1>6, <4>2 DEF Succeeds
      <4> QED
        BY <4>3
    <3> QED
      BY <3>1, <3>2
  <2> QED
    BY <2>1, <2>2, <2>3
<1>7. Unlocks(k', m)
  BY <1>1, UnlockWakes
<1> QED
  BY <1>5, <1>6, <1>7 DEF Unlocks

(* The scheduler's own steps, the tick that ends a wait among them.        *)
LEMMA SchedListsInv ==
    ASSUME MutexInv, Pausable = {}, [SchedNext]_schedVars, UNCHANGED mutexLocals
    PROVE  MutexLists' /\ MutexWaits' /\ MutexTaken'
<1>0. MutexBase /\ mu' = mu /\ call' = call
  BY DEF MutexInv, mutexLocals
<1>1. /\ SchedCore /\ SchedLabel \subseteq MutexPc /\ pc \in [Task -> MutexPc]
      /\ SchedTriggers \subseteq SchedTriggers
      /\ "user" \notin SchedTriggers /\ "delay_wait" \notin SchedTriggers
      /\ SwitchAt(SchedTriggers) /\ NoStrayDelay
  BY MutexLabels DEF MutexInv, MutexBase, MutexWaits
<1>2. /\ NoStrayDelay'
      /\ \A u \in Task : pc[u] \notin SchedLabel => StaysWaiting(u) \/ TimesOut(u)
      /\ \A h \in WaitList : /\ SubList(k'.waiters[h], k.waiters[h])
                             /\ ToSet(k'.waiters[h]) \subseteq ToSet(k.waiters[h])
      /\ \A u \in Task : pc[u] \in SchedLabel => pc'[u] \in SchedLabel
  BY <1>1, SchedWaiting
<1>3. MutexBase'
  BY <1>0, SchedBase
<1>4. /\ k.waiters \in [WaitList -> Seq(Task)] /\ k'.waiters \in [WaitList -> Seq(Task)]
      /\ k.priority \in [Task -> Priority]
  BY <1>0, <1>3 DEF MutexBase, SchedCore, KernelInv, KernelCore, KernelTypeOK
<1>5. \A u \in Task : pc[u] \in MutexLabel => StaysWaiting(u) \/ TimesOut(u)
  BY <1>2, MutexLabels
<1>6. \A u \in Task : pc'[u] \in MutexLabel => pc[u] \in MutexLabel /\ pc'[u] = pc[u]
  <2>1. ASSUME NEW u \in Task, pc'[u] \in MutexLabel
        PROVE  pc[u] \in MutexLabel
    BY <1>1, <1>2, <2>1, MutexLabels DEF MutexPc
  <2> QED
    BY <1>5, <2>1 DEF StaysWaiting, TimesOut
<1>7. MutexLists'
  <2> SUFFICES ASSUME NEW h \in WaitList
               PROVE  /\ Once(k'.waiters[h])
                      /\ \A u \in Task : u \in ToSet(k'.waiters[h])
                                           <=> WaitingFor(u, h)' /\ k'.state[u] = "BLOCKED"
    BY DEF MutexLists
  <2>1. /\ Once(k.waiters[h])
        /\ \A u \in Task : u \in ToSet(k.waiters[h])
                             <=> WaitingFor(u, h) /\ k.state[u] = "BLOCKED"
    BY DEF MutexInv, MutexLists
  <2>2. Once(k'.waiters[h])
    BY <1>2, <1>4, <2>1, SubListKeeps
  <2>3. ASSUME NEW u \in Task
        PROVE  u \in ToSet(k'.waiters[h]) <=> WaitingFor(u, h)' /\ k'.state[u] = "BLOCKED"
    <3>1. CASE pc[u] \notin {"lock_retry", "timed_check"}
      <4>1. u \notin ToSet(k'.waiters[h])
        BY <1>2, <2>1, <3>1 DEF WaitingFor
      <4>2. ~WaitingFor(u, h)'
        BY <1>6, <3>1 DEF WaitingFor, MutexLabel
      <4> QED
        BY <4>1, <4>2
    <3>2. CASE pc[u] \in {"lock_retry", "timed_check"} /\ StaysWaiting(u)
      BY <1>0, <2>1, <3>2 DEF StaysWaiting, WaitingFor
    <3>3. CASE pc[u] \in {"lock_retry", "timed_check"} /\ TimesOut(u)
      <4>1. pc[u] = "timed_check"
        BY <3>3 DEF TimesOut, MutexInv, MutexWaits
      <4>2. k.wait_list_head[u] = call[u].m
        BY <3>3, <4>1 DEF TimesOut, MutexInv, MutexWaits
      <4> QED
        BY <1>0, <2>1, <3>3, <4>1, <4>2 DEF TimesOut, WaitingFor
    <3>4. pc[u] \in {"lock_retry", "timed_check"} => StaysWaiting(u) \/ TimesOut(u)
      BY <1>5 DEF MutexLabel
    <3> QED
      BY <3>1, <3>2, <3>3, <3>4
  <2> QED
    BY <2>2, <2>3
<1>8. MutexWaits'
  <2>1. ASSUME NEW u \in Task, pc'[u] = "lock_retry"
        PROVE  k'.delay_ticks[u] = 0
    <3>1. pc[u] = "lock_retry" /\ k.delay_ticks[u] = 0 /\ StaysWaiting(u)
      BY <1>5, <1>6, <2>1 DEF MutexLabel, MutexInv, MutexWaits, TimesOut
    <3> QED
      BY <3>1 DEF StaysWaiting
  <2>2. ASSUME NEW u \in Task, pc'[u] = "timed_check", k'.state[u] = "BLOCKED"
        PROVE  ~k'.timed_out[u] /\ (k'.delay_ticks[u] # 0 => k'.wait_list_head[u] = call[u].m)
    <3>1. pc[u] = "timed_check" /\ StaysWaiting(u)
      BY <1>5, <1>6, <2>2 DEF MutexLabel, TimesOut
    <3> QED
      BY <2>2, <3>1 DEF StaysWaiting, MutexInv, MutexWaits
  <2> QED
    BY <1>0, <1>2, <2>1, <2>2 DEF MutexWaits
<1>9. MutexTaken'
  <2> SUFFICES ASSUME NEW n \in Mutex, Free(n)', k'.waiters[n] # << >>
               PROVE  \E u \in Task : Succeeds(u, n)'
    BY DEF MutexTaken
  <2>1. Free(n) /\ n \in WaitList
    BY <1>0, MutexAssumption DEF Free
  <2>2. k.waiters[n] # << >>
    <3>1. k.waiters[n] \in Seq(Task) /\ k'.waiters[n] \in Seq(Task)
      BY <1>4, <2>1
    <3>2. 1 \in DOMAIN k'.waiters[n]
      BY <3>1
    <3>3. k'.waiters[n][1] \in ToSet(k.waiters[n])
      BY <1>2, <2>1, <3>2 DEF ToSet
    <3> QED
      BY <3>3 DEF ToSet
  <2>3. PICK u \in Task : Succeeds(u, n)
    BY <2>1, <2>2 DEF MutexInv, MutexTaken
  <2>4. StaysWaiting(u)
    BY <1>5, <2>3 DEF Succeeds, MutexLabel, TimesOut
  <2>5. Succeeds(u, n)'
    BY <1>0, <2>3, <2>4 DEF Succeeds, StaysWaiting
  <2> QED
    BY <2>5
<1> QED
  BY <1>7, <1>8, <1>9

(* No task waits at first.                                                 *)
LEMMA InitLists ==
    ASSUME MutexInit
    PROVE  MutexInv
<1>1. /\ k.waiters = [h \in WaitList |-> << >>]
      /\ k.delay_ticks = [t \in Task |-> 0]
      /\ \A t \in Thread : k.state[t] # "BLOCKED"
  BY InitCore DEF MutexInit
<1>2. pc = [t \in Task |-> "user"]
  BY DEF MutexInit, SchedInit
<1>3. ToSet(<< >>) = {} /\ Once(<< >>)
  BY DEF ToSet, Once
<1>4. MutexLists
  BY <1>1, <1>2, <1>3 DEF MutexLists, WaitingFor
<1>5. MutexWaits
  BY <1>1, <1>2 DEF MutexWaits, NoStrayDelay
<1>6. MutexTaken
  BY <1>1, MutexAssumption DEF MutexTaken
<1> QED
  BY <1>4, <1>5, <1>6, InitBase DEF MutexInv

(* When no task is paused, every step keeps the list invariant.            *)
LEMMA NextLists ==
    ASSUME MutexInv, Pausable = {}, [MutexNext]_vars
    PROVE  MutexInv'
<1>1. MutexBase'
  BY NextBase DEF MutexInv
<1>2. CASE UNCHANGED vars
  BY <1>1, <1>2, SchedListsInv DEF vars, schedVars, MutexInv
<1>3. CASE SchedNext /\ UNCHANGED mutexLocals
  BY <1>1, <1>3, SchedListsInv DEF MutexInv
<1>4. ASSUME NEW t \in Task, MutexStep(t)
      PROVE  MutexLists' /\ MutexWaits' /\ MutexTaken'
  BY <1>4, CallQuiet, ResetQuiet, QuietInv, EnterInv DEF MutexStep
<1>5. ASSUME NEW t \in Task, MutexCall(t)
      PROVE  MutexLists' /\ MutexWaits' /\ MutexTaken'
  BY <1>5, CallQuiet, QuietInv, UnlockInv DEF MutexCall
<1>6. MutexLists' /\ MutexWaits' /\ MutexTaken'
  BY <1>2, <1>3, <1>4, <1>5 DEF MutexNext, MutexInv
<1> QED
  BY <1>1, <1>6 DEF MutexInv

(* MutexInv is inductive for tasks that nobody pauses.                     *)
THEOREM MutexInvariant ==
    ASSUME Pausable = {}
    PROVE  MutexSpec => []MutexInv
<1>1. MutexInit => MutexInv
  BY InitLists
<1>2. MutexInv /\ [MutexNext]_vars => MutexInv'
  BY NextLists
<1> QED
  BY <1>1, <1>2, PTL DEF MutexSpec

(* When no task is paused, the wait list of a mutex holds exactly the      *)
(* tasks blocked on it, each once, and no task is on two lists.            *)
THEOREM MutexListExact ==
    ASSUME Pausable = {}
    PROVE  MutexSpec => []WaitListExact
<1>1. MutexInv => WaitListExact
  <2> SUFFICES ASSUME MutexInv
               PROVE  WaitListExact
    OBVIOUS
  <2>1. MutexTypeOK
    BY DEF MutexInv, MutexBase, SchedCore, KernelInv, KernelCore, MutexTypeOK, SchedTypeOK, MutexPc
  <2>2. LinkedOnce(k)
    <3> SUFFICES ASSUME NEW g \in WaitList, NEW h \in WaitList,
                        NEW i \in DOMAIN k.waiters[g], NEW j \in DOMAIN k.waiters[h],
                        k.waiters[g][i] = k.waiters[h][j]
                 PROVE  g = h /\ i = j
      BY DEF LinkedOnce
    <3> DEFINE u == k.waiters[g][i]
    <3>1. k.waiters \in [WaitList -> Seq(Task)]
      BY <2>1 DEF MutexTypeOK, SchedTypeOK, KernelTypeOK
    <3>2. u \in Task /\ u \in ToSet(k.waiters[g]) /\ u \in ToSet(k.waiters[h])
      BY <3>1 DEF ToSet
    <3>3. WaitingFor(u, g) /\ WaitingFor(u, h)
      BY <3>2 DEF MutexInv, MutexLists
    <3>4. g = h
      BY <3>3 DEF WaitingFor
    <3> QED
      BY <3>4 DEF MutexInv, MutexLists, Once
  <2>3. \A m \in Mutex : \A t \in Task :
           t \in ToSet(k.waiters[m]) <=> WaitingFor(t, m) /\ k.state[t] = "BLOCKED"
    BY MutexAssumption DEF MutexInv, MutexLists
  <2> QED
    BY <2>1, <2>2, <2>3 DEF WaitListExact
<1> QED
  BY <1>1, MutexInvariant, PTL

(* When no task is paused, a woken task is on its way to every free mutex  *)
(* that others wait for: no mutex_unlock is lost.                          *)
THEOREM MutexNoLostWakeup ==
    ASSUME Pausable = {}
    PROVE  MutexSpec => []NoLostWakeup
<1>1. MutexInv => NoLostWakeup
  BY DEF MutexInv, MutexTaken, Succeeds, NoLostWakeup, MutexLabel
<1> QED
  BY <1>1, MutexInvariant, PTL
-----------------------------------------------------------------------------
(* Borrowed priorities.                                                    *)

(* No task holds two mutexes at once.  (A task may wait for one while it   *)
(* holds another.)  With nested locks the first loan on one mutex saves a  *)
(* priority that is itself borrowed on the other.                          *)
HoldsOne == \A t \in Task : \A m, n \in holds[t] : m = n

(* An elevated mutex has an owner and remembers the priority the owner was *)
(* created with; no other task runs at a borrowed priority.                *)
Loans ==
    /\ \A m \in Mutex : mu[m].is_elevated =>
          mu[m].task \in Task /\ mu[m].owner_original_priority = base[mu[m].task]
    /\ \A t \in Task : k.priority[t] # base[t] =>
          \E m \in Mutex : mu[m].task = t /\ mu[m].is_elevated

(* mutex_try_acquire takes a mutex on which nothing is borrowed.           *)
LEMMA AcquireLoans ==
    ASSUME MutexBase, Loans, NEW t \in Task, NEW m \in Mutex, Acquire(t, m),
           k'.priority = k.priority, base' = base
    PROVE  Loans'
<1>1. mu \in [Mutex -> MutexRecord] /\ NULL \notin Task
  BY BaseFacts
<1>2. mu' = [mu EXCEPT ![m].task = t] /\ mu[m].task = NULL
  BY DEF Acquire, Free
<1>3. ~mu[m].is_elevated
  BY <1>1, <1>2 DEF Loans
<1>4. \A n \in Mutex :
         /\ mu'[n].task = IF n = m THEN t ELSE mu[n].task
         /\ mu'[n].owner_original_priority = mu[n].owner_original_priority
         /\ mu'[n].is_elevated <=> mu[n].is_elevated
  BY <1>1, <1>2 DEF MutexRecord
<1>5. \A n \in Mutex : mu'[n].is_elevated =>
         mu'[n].task \in Task /\ mu'[n].owner_original_priority = base[mu'[n].task]
  BY <1>3, <1>4 DEF Loans
<1>6. ASSUME NEW u \in Task, k.priority[u] # base[u]
      PROVE  \E n \in Mutex : mu'[n].task = u /\ mu'[n].is_elevated
  <2>1. PICK n \in Mutex : mu[n].task = u /\ mu[n].is_elevated
    BY <1>6 DEF Loans
  <2>2. n # m
    BY <1>3, <2>1
  <2> QED
    BY <1>4, <2>1, <2>2
<1> QED
  BY <1>5, <1>6 DEF Loans

(* Priority inheritance in the blocking critical sections.                 *)
LEMMA EnterLoans ==
    ASSUME MutexBase, HoldsOne, Loans, NEW t \in Task, LockEnter(t) \/ TimedEnter(t)
    PROVE  Loans'
<1> DEFINE m == call[t].m
           o == mu[m].task
<1>1. base' = base /\ m \in Mutex /\ mu \in [Mutex -> MutexRecord]
      /\ k.priority \in [Task -> Priority]
  BY BaseFacts DEF LockEnter, TimedEnter, MutexBase, MutexLabel
<1>2. CASE Free(m)
  BY <1>1, <1>2 DEF LockEnter, TimedEnter, Loans
<1>3. CASE ~Free(m)
  <2>1. /\ o \in Task
        /\ ElevatedPriority(t, m) \in [Task -> Priority]
        /\ ElevatedMutex(t, m) \in [Mutex -> MutexRecord]
        /\ \A n \in Mutex : ElevatedMutex(t, m)[n].task = mu[n].task
    BY <1>1, <1>3, ElevatedBase
  <2>2. k'.priority = ElevatedPriority(t, m) /\ mu' = ElevatedMutex(t, m)
    <3>1. Blocked(t, m)
      BY <1>3, EnterBase
    <3>2. mu' = ElevatedMutex(t, m)
      BY <1>3 DEF LockEnter, TimedEnter
    <3> QED
      BY <3>1, <3>2 DEF Blocked
  <2>3. \A n \in Mutex : mu[n].task = o => n = m
    BY <1>1, <2>1 DEF HoldsOne, MutexBase, MutualExclusion
  <2>4. \A n \in Mutex : mu'[n].task = mu[n].task
    BY <2>1, <2>2
  <2> HIDE DEF m
  <2>5. CASE ~Lends(t, m)
    BY <1>1, <2>2, <2>5 DEF ElevatedPriority, ElevatedMutex, Loans
  <2>6. CASE Lends(t, m)
    <3>1. \A u \in Task : u # o => k'.priority[u] = k.priority[u]
      BY <1>1, <2>1, <2>2, <2>6 DEF ElevatedPriority
    <3>2. /\ mu'[m].is_elevated /\ mu'[m].owner_original_priority = base[o]
          /\ \A n \in Mutex : n # m => mu'[n] = mu[n]
      <4>1. CASE mu[m].is_elevated
        BY <1>1, <2>2, <4>1 DEF ElevatedMutex, Loans
      <4>2. CASE ~mu[m].is_elevated
        <5>1. k.priority[o] = base[o]
          BY <2>1, <2>3, <4>2 DEF Loans
        <5>2. mu' = [mu EXCEPT ![m].owner_original_priority = k.priority[o],
                               ![m].is_elevated = TRUE]
          BY <2>2, <2>6, <4>2 DEF ElevatedMutex
        <5> DEFINE e == [mu[m] EXCEPT !.owner_original_priority = k.priority[o],
                                      !.is_elevated = TRUE]
        <5>3. mu' = [mu EXCEPT ![m] = e]
          BY <1>1, <5>2
        <5>4. e.owner_original_priority = k.priority[o] /\ e.is_elevated
          <6>1. mu[m] \in MutexRecord
            BY <1>1
          <6> QED
            BY <6>1 DEF MutexRecord
        <5> HIDE DEF e
        <5>5. mu'[m] = e /\ \A n \in Mutex : n # m => mu'[n] = mu[n]
          BY <1>1, <5>3
        <5> QED
          BY <5>1, <5>4, <5>5
      <4> QED
        BY <4>1, <4>2
    <3>3. \A n \in Mutex : mu'[n].is_elevated =>
             mu'[n].task \in Task /\ mu'[n].owner_original_priority = base[mu'[n].task]
      BY <2>1, <2>4, <3>2 DEF Loans
    <3>4. ASSUME NEW u \in Task, k'.priority[u] # base[u]
          PROVE  \E n \in Mutex : mu'[n].task = u /\ mu'[n].is_elevated
      <4>1. CASE u = o
        BY <1>1, <2>4, <3>2, <4>1
      <4>2. CASE u # o
        <5>1. PICK n \in Mutex : mu[n].task = u /\ mu[n].is_elevated
          BY <3>1, <3>4, <4>2 DEF Loans
        <5>2. n # m
          BY <4>2, <5>1
        <5> QED
          BY <3>2, <5>1, <5>2
      <4> QED
        BY <4>1, <4>2
    <3> QED
      BY <1>1, <3>3, <3>4 DEF Loans
  <2> QED
    BY <2>5, <2>6
<1> QED
  BY <1>2, <1>3

(* mutex_unlock gives back what its caller had borrowed.                   *)
LEMMA UnlockLoans ==
    ASSUME MutexBase, HoldsOne, Loans, NEW t \in Task, NEW m \in Mutex, mutex_unlock(t, m)
    PROVE  Loans'
<1>1. /\ Runs(t) /\ pc[t] = "user" /\ mu[m].task = t
      /\ k' = UnlockedKernel(m)
      /\ mu' \in [Mutex -> MutexRecord]
      /\ \A n \in Mutex : mu'[n] =
            IF n = m THEN [mu[m] EXCEPT !.task = NULL, !.is_elevated = FALSE] ELSE mu[n]
      /\ \A n \in Mutex : mu'[n].task = IF n = m THEN NULL ELSE mu[n].task
      /\ holds' \in [Task -> SUBSET Mutex]
      /\ \A u \in Task : holds'[u] = IF u = t THEN holds[u] \ {m} ELSE holds[u]
      /\ pc' = pc /\ s_ticks' = s_ticks /\ wakeAt' = wakeAt /\ call' = call /\ base' = base
  BY UnlockFields
<1>2. mu \in [Mutex -> MutexRecord] /\ k.priority \in [Task -> Priority]
  BY BaseFacts
<1>3. k'.priority = Restored(m)
  BY <1>1, UnlockKernel
<1>4. ~mu'[m].is_elevated
  <2>1. mu[m] \in MutexRecord
    BY <1>2
  <2> QED
    BY <1>1, <2>1 DEF MutexRecord
<1>5. \A n \in Mutex : mu[n].task = t => n = m
  BY <1>1 DEF HoldsOne, MutexBase, MutualExclusion
<1>6. k'.priority[t] = base[t]
  <2>1. CASE mu[m].is_elevated
    BY <1>1, <1>2, <1>3, <2>1 DEF Restored, Loans
  <2>2. CASE ~mu[m].is_elevated
    BY <1>1, <1>2, <1>3, <1>5, <2>2 DEF Restored, Loans
  <2> QED
    BY <2>1, <2>2
<1>7. \A u \in Task : u # t => k'.priority[u] = k.priority[u]
  BY <1>1, <1>2, <1>3 DEF Restored
<1>8. \A n \in Mutex : mu'[n].is_elevated =>
         mu'[n].task \in Task /\ mu'[n].owner_original_priority = base[mu'[n].task]
  BY <1>1, <1>4 DEF Loans
<1>9. ASSUME NEW u \in Task, k'.priority[u] # base[u]
      PROVE  \E n \in Mutex : mu'[n].task = u /\ mu'[n].is_elevated
  <2>1. u # t
    BY <1>6, <1>9
  <2>2. PICK n \in Mutex : mu[n].task = u /\ mu[n].is_elevated
    BY <1>7, <1>9, <2>1 DEF Loans
  <2>3. n # m
    BY <1>1, <2>1, <2>2
  <2> QED
    BY <1>1, <2>2, <2>3
<1> QED
  BY <1>1, <1>8, <1>9 DEF Loans

(* Every other step leaves the loans alone.                                *)
LEMMA NextLoans ==
    ASSUME MutexBase, HoldsOne, Loans, [MutexNext]_vars
    PROVE  Loans'
<1>1. ASSUME k'.priority = k.priority, mu' = mu, base' = base
      PROVE  Loans'
  BY <1>1 DEF Loans
<1>2. CASE UNCHANGED vars
  BY <1>1, <1>2 DEF vars, schedVars, mutexLocals
<1>3. CASE SchedNext /\ UNCHANGED mutexLocals
  <2>1. /\ SchedCore /\ SchedLabel \subseteq MutexPc /\ pc \in [Task -> MutexPc]
        /\ SchedTriggers \subseteq SchedTriggers
        /\ "user" \notin SchedTriggers /\ "delay_wait" \notin SchedTriggers
        /\ SwitchAt(SchedTriggers)
    BY MutexLabels DEF MutexBase
  <2>2. [SchedNext]_schedVars
    BY <1>3
  <2>3. k'.priority = k.priority
    BY <2>1, <2>2, SchedSteps
  <2> QED
    BY <1>1, <1>3, <2>3 DEF mutexLocals
<1>4. ASSUME NEW t \in Task, MutexStep(t)
      PROVE  Loans'
  <2>1. CASE LockEnter(t) \/ TimedEnter(t)
    BY <2>1, EnterLoans
  <2>2. CASE LockRetry(t)
    <3>1. call[t].m \in Mutex /\ k'.priority = k.priority /\ base' = base
      BY <2>2 DEF LockRetry, MutexBase, MutexLabel
    <3> QED
      BY <1>1, <2>2, <3>1, AcquireLoans DEF LockRetry
  <2>3. CASE TimedTry(t)
    <3>1. call[t].m \in Mutex /\ base' = base
      BY <2>3 DEF TimedTry, MutexBase, MutexLabel
    <3>2. k'.priority = k.priority
      BY <2>3, BaseFacts DEF TimedTry, KernelCore, KernelTypeOK
    <3> QED
      BY <1>1, <2>3, <3>1, <3>2, AcquireLoans DEF TimedTry
  <2>4. CASE TimedNow(t)
    BY <1>1, <2>4 DEF TimedNow
  <2>5. CASE TimedCheck(t)
    <3>1. k'.priority = k.priority
      BY <2>5, BaseFacts DEF TimedCheck, KernelCore, KernelTypeOK
    <3> QED
      BY <1>1, <2>5, <3>1 DEF TimedCheck
  <2> QED
    BY <1>4, <2>1, <2>2, <2>3, <2>4, <2>5 DEF MutexStep
<1>5. ASSUME NEW t \in Task, MutexCall(t)
      PROVE  Loans'
  <2>1. PICK m \in Mutex : \/ mutex_lock(t, m)
                           \/ mutex_trylock(t, m)
                           \/ mutex_unlock(t, m)
                           \/ \E ms \in Timeout : mutex_lock_timeout(t, m, ms)
    BY <1>5 DEF MutexCall
  <2>2. CASE mutex_lock(t, m) \/ mutex_trylock(t, m)
    BY <1>1, <2>2, AcquireLoans DEF mutex_lock, mutex_trylock
  <2>3. CASE mutex_unlock(t, m)
    BY <2>3, UnlockLoans
  <2>4. CASE \E ms \in Timeout : mutex_lock_timeout(t, m, ms)
    BY <1>1, <2>4 DEF mutex_lock_timeout
  <2> QED
    BY <2>1, <2>2, <2>3, <2>4
<1> QED
  BY <1>2, <1>3, <1>4, <1>5 DEF MutexNext

(* A task that holds no mutex has the priority it was created with, as     *)
(* long as no task ever holds two at once.                                 *)
THEOREM MutexPriorityRestored == MutexSpec /\ []HoldsOne => []PriorityRestored
<1>1. MutexInit => Loans
  BY DEF MutexInit, mutex_init, Loans
<1>2. MutexBase /\ HoldsOne /\ Loans /\ [MutexNext]_vars => Loans'
  BY NextLoans
<1>3. MutexBase /\ Loans => PriorityRestored
  BY DEF MutexBase, MutualExclusion, Loans, PriorityRestored
<1> QED
  BY <1>1, <1>2, <1>3, MutexBaseInvariant, PTL DEF MutexSpec

-----------------------------------------------------------------------------
(* Priority inheritance reaches the owner, for one mutex and tasks that    *)
(* nobody pauses.                                                          *)

(* There is one mutex.  With two, a waiter of one that owns the other may  *)
(* be elevated where it stands in the list, and an unlock of the other     *)
(* may lower the running task without a decision.                          *)
OneMutex == \A m, n \in Mutex : m = n

(* A task does not ask for a mutex that it holds.                          *)
AsksOthers == \A t \in Task : pc[t] \in MutexLabel => call[t].m \notin holds[t]

(* The most urgent waiter is first.                                        *)
Ordered == \A m \in Mutex : Sorted(k.waiters[m], k.priority)

(* A woken task that will find m free, that competes for the CPU since the *)
(* last decision, and that is at least as urgent as all who still wait.    *)
Chosen(w, m) ==
    /\ Succeeds(w, m)
    /\ w \notin k.late
    /\ \A u \in ToSet(k.waiters[m]) : k.priority[w] <= k.priority[u]

(* While tasks wait for a free mutex there is such a task: whoever takes   *)
(* the mutex before it must have been preferred to it, and is therefore at *)
(* least as urgent as the waiters it finds.                                *)
HasHeir ==
    \A m \in Mutex : Free(m) /\ k.waiters[m] # << >> => \E w \in Task : Chosen(w, m)

(* OwnerInherits is not inductive: who takes a free mutex lends nothing to *)
(* itself.  That it is urgent enough follows from the order of the list    *)
(* and from the scheduler's choice.                                        *)
Inherits == AsksOthers /\ NextRuns /\ Ordered /\ HasHeir /\ OwnerInherits

(* Priorities can be compared.                                             *)
LEMMA PriorityInt == Priority \subseteq Int
BY DEF Priority, NoPriority

(* The order of a list depends on the priorities of its members only, and  *)
(* its head is the most urgent of them.                                    *)
LEMMA SortedList ==
    ASSUME NEW s \in Seq(Task), NEW p, NEW q, Sorted(s, p)
    PROVE  /\ (\A u \in ToSet(s) : q[u] = p[u]) => Sorted(s, q)
           /\ s # << >> /\ p \in [Task -> Priority] => \A u \in ToSet(s) : p[Head(s)] <= p[u]
<1>1. \A i \in DOMAIN s : s[i] \in ToSet(s)
  BY DEF ToSet
<1>2. (\A u \in ToSet(s) : q[u] = p[u]) => Sorted(s, q)
  BY <1>1 DEF Sorted
<1>3. ASSUME s # << >>, p \in [Task -> Priority], NEW u \in ToSet(s)
      PROVE  p[Head(s)] <= p[u]
  <2>1. PICK i \in DOMAIN s : s[i] = u
    BY DEF ToSet
  <2>2. 1 \in DOMAIN s /\ i \in DOMAIN s /\ Head(s) = s[1] /\ s[1] \in Task /\ (i = 1 \/ 1 < i)
    BY <1>3
  <2>3. p[s[1]] \in Int
    <3>1. p[s[1]] \in Priority
      BY <1>3, <2>2
    <3> QED
      BY <3>1, PriorityInt
  <2> QED
    BY <2>1, <2>2, <2>3 DEF Sorted
<1> QED
  BY <1>2, <1>3

(* The task that executes code of mutex.c is at least as urgent as every   *)
(* task that could run and was there at the last decision.                 *)
LEMMA RunnerUrgent ==
    ASSUME MutexBase, NextRuns, NEW t \in Task, Runs(t), pc[t] \in MutexLabel \cup {"user"},
           NEW w \in Task, w \notin k.late, k.state[w] # "BLOCKED"
    PROVE  k.priority[t] <= k.priority[w]
<1>1. k.g_next_task = t /\ k.g_current_task = t
  BY BaseFacts, MutexLabels
<1>2. /\ k.state[t] = "RUNNING" /\ k.state[w] \in {"READY", "RUNNING"}
      /\ OnlyNext(k) /\ NextMostUrgent(k) /\ w \in Created(k)
      /\ k.priority[t] \in 0 .. 255 /\ k.priority[w] \in 0 .. 255
  <2>1. /\ KernelInv(k) /\ KernelTypeOK(k) /\ Task \subseteq Thread /\ k.s_task_count = TASK_MAX
        /\ k.priority \in [Task -> Priority] /\ OnlyNext(k) /\ NextMostUrgent(k)
    BY BaseFacts DEF KernelInv, KernelCore
  <2>2. k.state[w] \in TaskState /\ k.state[w] # "PAUSED"
    BY <2>1 DEF KernelTypeOK, NextRuns, NobodyPaused
  <2> QED
    BY <1>1, <2>1, <2>2 DEF NextRuns, TaskState, Created, Task, Priority, NoPriority
<1>3. CASE k.state[w] = "RUNNING"
  <2>1. w = t
    BY <1>1, <1>3, BaseFacts DEF KernelCore, OnlyNext
  <2> QED
    BY <1>2, <2>1
<1>4. CASE k.state[w] = "READY" /\ k.priority[w] < 255
  BY <1>1, <1>2, <1>4 DEF NextMostUrgent, Ready, NoPriority
<1>5. CASE k.priority[w] = 255
  BY <1>2, <1>5
<1> QED
  BY <1>2, <1>3, <1>4, <1>5

(* Outside the critical sections the owner of a mutex stays the same or    *)
(* becomes the running task.                                               *)
QuietOwners(t) ==
    \A n \in Mutex : mu'[n].task = mu[n].task \/ (Free(n) /\ mu'[n].task = t)

(* A quiet step keeps the order and the heir, and who takes the mutex is   *)
(* as urgent as the heir.                                                  *)
LEMMA QuietInherits ==
    ASSUME MutexInv, Inherits, NEW t \in Task, Runs(t), pc[t] \in MutexLabel \cup {"user"},
           Quiet(t), QuietOwners(t)
    PROVE  NextRuns' /\ Ordered' /\ HasHeir' /\ OwnerInherits'
<1>1. /\ MutexBase /\ k.priority \in [Task -> Priority] /\ k.waiters \in [WaitList -> Seq(Task)]
      /\ NULL \notin Task /\ Mutex \subseteq WaitList /\ mu \in [Mutex -> MutexRecord]
  <2>1. MutexBase
    BY DEF MutexInv
  <2> QED
    BY <2>1, BaseFacts
<1>2. NextRuns' /\ Ordered'
  BY DEF Inherits, NextRuns, NobodyPaused, Ordered, Quiet
<1>3. ASSUME NEW n \in Mutex, Free(n)', k.waiters[n] # << >>
      PROVE  \E w \in Task : Chosen(w, n)'
  <2>1. PICK w \in Task : Chosen(w, n)
    BY <1>3 DEF Inherits, HasHeir, Quiet
  <2>2. Succeeds(w, n)'
    <3>1. CASE w = t
      BY <1>3, <2>1, <3>1 DEF Quiet, Chosen
    <3>2. CASE w # t
      BY <2>1, <3>2 DEF Quiet, Chosen, Succeeds
    <3> QED
      BY <3>1, <3>2
  <2>3. Chosen(w, n)'
    BY <2>1, <2>2 DEF Chosen, Quiet
  <2> QED
    BY <2>3
<1>4. HasHeir'
  BY <1>3 DEF HasHeir, Quiet
<1>5. ASSUME NEW n \in Mutex, ~Free(n)', NEW u \in ToSet(k.waiters[n])
      PROVE  k.priority[mu'[n].task] <= k.priority[u]
  <2>1. CASE mu'[n].task = mu[n].task
    BY <1>5, <2>1 DEF Inherits, OwnerInherits, Free
  <2>2. CASE Free(n) /\ mu'[n].task = t
    <3>1. k.waiters[n] \in Seq(Task) /\ k.waiters[n] # << >> /\ u \in Task
      BY <1>1, <1>5 DEF ToSet
    <3>2. PICK w \in Task : Chosen(w, n)
      BY <2>2, <3>1 DEF Inherits, HasHeir
    <3>3. k.priority[t] <= k.priority[w]
      BY <1>1, <3>2, RunnerUrgent DEF Chosen, Succeeds, Inherits
    <3>4. k.priority[w] <= k.priority[u]
      BY <1>5, <3>2 DEF Chosen
    <3>5. k.priority[t] \in Int /\ k.priority[w] \in Int /\ k.priority[u] \in Int
      <4>1. k.priority[t] \in Priority /\ k.priority[w] \in Priority /\ k.priority[u] \in Priority
        BY <1>1, <3>1, <3>2
      <4> QED
        BY <4>1, PriorityInt
    <3> QED
      BY <2>2, <3>3, <3>4, <3>5
  <2> QED
    BY <2>1, <2>2 DEF QuietOwners
<1>6. OwnerInherits'
  BY <1>5 DEF OwnerInherits, Quiet
<1> QED
  BY <1>2, <1>4, <1>6

(* Priority inheritance in the blocking critical sections: the caller joins*)
(* the list at its place, and the owner is made as urgent as the caller.   *)
LEMMA EnterInherits ==
    ASSUME OneMutex, MutexInv, Inherits, NEW t \in Task, LockEnter(t) \/ TimedEnter(t),
           ~Free(call[t].m)
    PROVE  NextRuns' /\ Ordered' /\ HasHeir' /\ OwnerInherits'
<1> DEFINE m == call[t].m
           o == mu[m].task
<1>0. MutexBase
  BY DEF MutexInv
<1>1. /\ pc[t] \in MutexLabel /\ m \in Mutex /\ m \in WaitList /\ m \notin holds[t]
      /\ k.priority \in [Task -> Priority] /\ k.waiters[m] \in Seq(Task)
  <2>1. pc[t] \in MutexLabel
    BY DEF LockEnter, TimedEnter, MutexLabel
  <2> QED
    BY <1>0, <2>1, BaseFacts DEF MutexBase, Inherits, AsksOthers
<1>2. Blocked(t, m)
  BY <1>0, EnterBase
<1>3. /\ o \in Task /\ m \in holds[o]
      /\ \A n \in Mutex : mu'[n].task = mu[n].task
  <2>1. mu' = ElevatedMutex(t, m)
    BY DEF LockEnter, TimedEnter
  <2>2. o \in Task /\ \A n \in Mutex : ElevatedMutex(t, m)[n].task = mu[n].task
    <3>1. ~Free(m)
      OBVIOUS
    <3> HIDE DEF m
    <3>2. mu[m].task \in Task /\ \A n \in Mutex : ElevatedMutex(t, m)[n].task = mu[n].task
      BY <1>0, <1>1, <3>1, ElevatedBase
    <3> QED
      BY <3>2
  <2> QED
    BY <1>0, <1>1, <2>1, <2>2 DEF MutexBase, MutualExclusion
<1>4. o # t /\ o \notin ToSet(k.waiters[m])
  <2>1. ~WaitingFor(o, m)
    BY <1>3 DEF Inherits, AsksOthers, WaitingFor, MutexLabel
  <2> QED
    BY <1>1, <1>3, <2>1 DEF MutexInv, MutexLists
<1>5. ~Free(m)
  OBVIOUS
<1> HIDE DEF m, o
<1>6. /\ \A u \in Task : u # o => k'.priority[u] = k.priority[u]
      /\ k'.priority[o] <= k.priority[o] /\ k'.priority[o] <= k.priority[t]
      /\ k'.priority[o] \in Int
  <2>1. k'.priority = ElevatedPriority(t, m)
    BY <1>2 DEF Blocked
  <2>2. k.priority[o] \in Int /\ k.priority[t] \in Int
    <3>1. k.priority[o] \in Priority /\ k.priority[t] \in Priority
      BY <1>1, <1>3
    <3> QED
      BY <3>1, PriorityInt
  <2>3. CASE Lends(t, m)
    <3>1. k'.priority = [k.priority EXCEPT ![o] = k.priority[t]] /\ k.priority[t] < k.priority[o]
      BY <2>1, <2>3 DEF ElevatedPriority, Lends, o
    <3>2. k'.priority[o] = k.priority[t] /\ \A u \in Task : u # o => k'.priority[u] = k.priority[u]
      BY <1>1, <1>3, <3>1
    <3> QED
      BY <2>2, <3>1, <3>2
  <2>4. CASE ~Lends(t, m)
    <3>1. k'.priority = k.priority /\ ~(k.priority[t] < k.priority[o])
      BY <2>1, <2>4 DEF ElevatedPriority, Lends, o
    <3> QED
      BY <2>2, <3>1
  <2> QED
    BY <2>3, <2>4
<1>7. \A u \in ToSet(k.waiters[m]) : u \in Task /\ k'.priority[u] = k.priority[u]
  BY <1>1, <1>4, <1>6 DEF ToSet
<1>8. \A n \in Mutex : n = m
  BY <1>1 DEF OneMutex
<1>9. Ordered'
  <2>1. Sorted(k.waiters[m], k'.priority)
    BY <1>1, <1>7, SortedList DEF Inherits, Ordered
  <2>2. Sorted(k'.waiters[m], k'.priority)
    BY <1>2, <2>1 DEF Blocked
  <2> QED
    BY <1>8, <2>2 DEF Ordered
<1>10. NextRuns'
  BY <1>2 DEF Inherits, NextRuns, Blocked, Decided
<1>11. HasHeir'
  BY <1>1, <1>3, <1>5, <1>8 DEF HasHeir, Free
<1>12. ASSUME NEW u \in ToSet(k'.waiters[m])
       PROVE  k'.priority[o] <= k'.priority[u]
  <2>1. u \in ToSet(k.waiters[m]) \/ u = t
    BY <1>2 DEF Blocked
  <2>2. CASE u = t
    BY <1>4, <1>6, <2>2
  <2>3. CASE u \in ToSet(k.waiters[m])
    <3>1. k.priority[o] <= k.priority[u]
      BY <1>1, <1>5, <2>3 DEF Inherits, OwnerInherits, o
    <3>2. k.priority[o] \in Priority /\ k.priority[u] \in Priority /\ k'.priority[u] = k.priority[u]
      BY <1>1, <1>3, <1>7, <2>3
    <3>3. k.priority[o] \in Int /\ k.priority[u] \in Int
      BY <3>2, PriorityInt
    <3> QED
      BY <1>6, <3>1, <3>2, <3>3
  <2> QED
    BY <2>1, <2>2, <2>3
<1>13. OwnerInherits'
  <2>1. mu'[m].task = o
    BY <1>1, <1>3 DEF o
  <2> QED
    BY <1>8, <1>12, <2>1 DEF OwnerInherits
<1> QED
  BY <1>9, <1>10, <1>11, <1>13

(* mutex_unlock: the first waiter is woken, becomes the heir of the rest   *)
(* and competes for the CPU at once.                                       *)
LEMMA UnlockInherits ==
    ASSUME OneMutex, MutexInv, Inherits, NEW t \in Task, NEW m \in Mutex, mutex_unlock(t, m)
    PROVE  NextRuns' /\ Ordered' /\ HasHeir' /\ OwnerInherits'
<1>0. MutexBase
  BY DEF MutexInv
<1>1. /\ Runs(t) /\ pc[t] = "user" /\ mu[m].task = t
      /\ k' = UnlockedKernel(m)
      /\ mu' \in [Mutex -> MutexRecord]
      /\ \A n \in Mutex : mu'[n] =
            IF n = m THEN [mu[m] EXCEPT !.task = NULL, !.is_elevated = FALSE] ELSE mu[n]
      /\ \A n \in Mutex : mu'[n].task = IF n = m THEN NULL ELSE mu[n].task
      /\ holds' \in [Task -> SUBSET Mutex]
      /\ \A u \in Task : holds'[u] = IF u = t THEN holds[u] \ {m} ELSE holds[u]
      /\ pc' = pc /\ s_ticks' = s_ticks /\ wakeAt' = wakeAt /\ call' = call /\ base' = base
  BY <1>0, UnlockFields
<1>2. /\ k.priority \in [Task -> Priority] /\ m \in WaitList /\ k.waiters[m] \in Seq(Task)
      /\ \A n \in Mutex : n = m
  BY <1>0, BaseFacts DEF OneMutex
<1>3. OwnerInherits'
  BY <1>1, <1>2 DEF OwnerInherits, Free
<1>4. Unlocks(k', m)
  BY <1>0, <1>1, UnlockWakes
<1>5. \A u \in Task : u # t => k'.priority[u] = k.priority[u]
  <2>1. k'.priority = Restored(m)
    BY <1>0, <1>1, UnlockKernel
  <2> QED
    BY <1>1, <1>2, <2>1 DEF Restored
<1>6. \A u \in ToSet(k.waiters[m]) : u \in Task /\ u # t /\ k'.priority[u] = k.priority[u]
  <2>1. t \notin ToSet(k.waiters[m])
    BY <1>1, <1>2 DEF MutexInv, MutexLists, WaitingFor
  <2> QED
    BY <1>2, <1>5, <2>1 DEF ToSet
<1>7. k'.priority \in [Task -> Priority]
  BY <1>0, <1>1, UnlockKernel DEF KernelInv, KernelCore, KernelTypeOK
<1>8. CASE k.waiters[m] = << >> /\ k'.waiters = k.waiters /\ k'.state = k.state
           /\ k'.g_next_task = k.g_next_task
  <2>1. NextRuns'
    BY <1>8 DEF Inherits, NextRuns, NobodyPaused
  <2>2. Ordered' /\ HasHeir'
    BY <1>2, <1>8 DEF Ordered, HasHeir, Sorted
  <2> QED
    BY <1>3, <2>1, <2>2
<1>9. CASE \E w \in ToSet(k.waiters[m]) :
             /\ w \in Task /\ w = FirstWaiter(k, m)
             /\ \A u \in Task : k'.state[u] = "BLOCKED" <=> u # w /\ k.state[u] = "BLOCKED"
             /\ k'.timed_out = k.timed_out
             /\ k'.waiters[m] \in Seq(Task) /\ SubList(k'.waiters[m], k.waiters[m])
             /\ ToSet(k'.waiters[m]) = ToSet(k.waiters[m]) \ {w}
             /\ NobodyPaused(k) => Decided(k')
  <2>1. PICK w \in ToSet(k.waiters[m]) :
             /\ w \in Task /\ w = FirstWaiter(k, m)
             /\ \A u \in Task : k'.state[u] = "BLOCKED" <=> u # w /\ k.state[u] = "BLOCKED"
             /\ k'.timed_out = k.timed_out
             /\ k'.waiters[m] \in Seq(Task) /\ SubList(k'.waiters[m], k.waiters[m])
             /\ ToSet(k'.waiters[m]) = ToSet(k.waiters[m]) \ {w}
             /\ NobodyPaused(k) => Decided(k')
    BY <1>9
  <2>2. Decided(k')
    BY <2>1 DEF Inherits, NextRuns
  <2>3. NextRuns'
    BY <2>2 DEF Decided, NextRuns
  <2>4. Sorted(k.waiters[m], k.priority) /\ Sorted(k.waiters[m], k'.priority)
    <3>1. Sorted(k.waiters[m], k.priority)
      BY DEF Inherits, Ordered
    <3> QED
      BY <1>2, <1>6, <3>1, SortedList
  <2>5. Ordered'
    <3>1. Sorted(k'.waiters[m], k'.priority)
      BY <1>2, <1>7, <2>1, <2>4, SubListKeeps
    <3> QED
      BY <1>2, <3>1 DEF Ordered
  <2>6. \A u \in ToSet(k'.waiters[m]) : k'.priority[w] <= k'.priority[u]
    <3>1. k.waiters[m] # << >> /\ w = Head(k.waiters[m])
      BY <1>2, <2>1 DEF FirstWaiter, ToSet
    <3> QED
      BY <1>2, <1>7, <2>1, <2>4, <3>1, SortedList
  <2>7. Succeeds(w, m)'
    <3>1. WaitingFor(w, m) /\ k.state[w] = "BLOCKED"
      BY <1>2, <2>1 DEF MutexInv, MutexLists
    <3>2. pc[w] = "timed_check" => ~k.timed_out[w]
      BY <2>1, <3>1 DEF MutexInv, MutexWaits
    <3> QED
      BY <1>1, <2>1, <3>1, <3>2 DEF Succeeds, WaitingFor
  <2>8. Chosen(w, m)'
    BY <2>2, <2>6, <2>7 DEF Chosen, Decided
  <2>9. HasHeir'
    BY <1>2, <2>1, <2>8 DEF HasHeir
  <2> QED
    BY <1>3, <2>3, <2>5, <2>9
<1> QED
  BY <1>4, <1>8, <1>9 DEF Unlocks

(* A step of the scheduler only shortens the lists and leaves the heir     *)
(* where it is.                                                            *)
LEMMA SchedInherits ==
    ASSUME MutexInv, Inherits, Pausable = {}, [SchedNext]_schedVars, UNCHANGED mutexLocals
    PROVE  NextRuns' /\ Ordered' /\ HasHeir' /\ OwnerInherits'
<1>0. MutexBase /\ mu' = mu /\ call' = call
  BY DEF MutexInv, mutexLocals
<1>1. /\ SchedCore /\ SchedLabel \subseteq MutexPc /\ pc \in [Task -> MutexPc]
      /\ SchedTriggers \subseteq SchedTriggers
      /\ "user" \notin SchedTriggers /\ "delay_wait" \notin SchedTriggers
      /\ SwitchAt(SchedTriggers) /\ NoStrayDelay
  BY MutexLabels DEF MutexInv, MutexBase, MutexWaits
<1>2. /\ \A u \in Task : pc[u] \notin SchedLabel => StaysWaiting(u) \/ TimesOut(u)
      /\ \A h \in WaitList : /\ SubList(k'.waiters[h], k.waiters[h])
                             /\ ToSet(k'.waiters[h]) \subseteq ToSet(k.waiters[h])
  BY <1>1, SchedWaiting
<1>3. SchedCore' /\ k'.priority = k.priority
  BY <1>1, SchedSteps
<1>4. NextRuns' /\ k'.late \subseteq k.late
  BY <1>1, SchedRuns DEF Inherits
<1>5. /\ k.waiters \in [WaitList -> Seq(Task)] /\ k'.waiters \in [WaitList -> Seq(Task)]
      /\ k.priority \in [Task -> Priority] /\ Mutex \subseteq WaitList
  BY <1>0, <1>3, BaseFacts DEF SchedCore, KernelInv, KernelCore, KernelTypeOK
<1>6. Ordered'
  BY <1>2, <1>3, <1>5, SubListKeeps DEF Inherits, Ordered
<1>7. ASSUME NEW n \in Mutex, Free(n), k'.waiters[n] # << >>
      PROVE  \E w \in Task : Chosen(w, n)'
  <2>1. k.waiters[n] # << >>
    <3>1. n \in WaitList /\ k.waiters[n] \in Seq(Task) /\ k'.waiters[n] \in Seq(Task)
      BY <1>5
    <3>2. 1 \in DOMAIN k'.waiters[n]
      BY <1>7, <3>1
    <3>3. k'.waiters[n][1] \in ToSet(k.waiters[n])
      BY <1>2, <3>1, <3>2 DEF ToSet
    <3> QED
      BY <3>3 DEF ToSet
  <2>2. PICK w \in Task : Chosen(w, n)
    BY <1>7, <2>1 DEF Inherits, HasHeir
  <2>3. StaysWaiting(w)
    <3>1. pc[w] \in MutexLabel /\ k.state[w] # "BLOCKED"
      BY <2>2 DEF Chosen, Succeeds, MutexLabel
    <3> QED
      BY <1>2, <3>1, MutexLabels DEF TimesOut
  <2>4. Succeeds(w, n)'
    BY <1>0, <2>2, <2>3 DEF Chosen, Succeeds, StaysWaiting
  <2>5. n \in WaitList
    BY <1>5
  <2>6. Chosen(w, n)'
    BY <1>2, <1>3, <1>4, <2>2, <2>4, <2>5 DEF Chosen
  <2> QED
    BY <2>6
<1>8. HasHeir'
  BY <1>0, <1>7 DEF HasHeir, Free
<1>9. OwnerInherits'
  BY <1>0, <1>2, <1>3, <1>5 DEF Inherits, OwnerInherits, Free
<1> QED
  BY <1>4, <1>6, <1>8, <1>9

(* No step makes a task ask for a mutex that it holds.                     *)
LEMMA NextAsks ==
    ASSUME MutexBase, AsksOthers, [MutexNext]_vars
    PROVE  AsksOthers'
<1>1. /\ pc \in [Task -> MutexPc] /\ call \in [Task -> CallRecord]
      /\ holds \in [Task -> SUBSET Mutex]
  BY BaseFacts
<1>2. ASSUME NEW t \in Task,
             \A u \in Task \ {t} : pc'[u] = pc[u] /\ call'[u] = call[u] /\ holds'[u] = holds[u],
             pc'[t] = "user" \/ call'[t].m \notin holds'[t]
      PROVE  AsksOthers'
  BY <1>2, MutexLabels DEF AsksOthers
<1>3. CASE UNCHANGED vars
  BY <1>3 DEF vars, schedVars, mutexLocals, AsksOthers
<1>4. CASE SchedNext /\ UNCHANGED mutexLocals
  <2>1. /\ SchedCore /\ SchedLabel \subseteq MutexPc /\ pc \in [Task -> MutexPc]
        /\ SchedTriggers \subseteq SchedTriggers
        /\ "user" \notin SchedTriggers /\ "delay_wait" \notin SchedTriggers
        /\ SwitchAt(SchedTriggers)
    BY MutexLabels DEF MutexBase
  <2>2. [SchedNext]_schedVars
    BY <1>4
  <2>3. \A u \in Task : pc'[u] # pc[u] => {pc[u], pc'[u]} \subseteq SchedLabel
    BY <2>1, <2>2, SchedSteps
  <2> QED
    BY <1>4, <2>3, MutexLabels DEF AsksOthers, mutexLocals
<1>5. ASSUME NEW t \in Task, NEW m \in Mutex, Acquire(t, m)
      PROVE  AsksOthers'
  <2>1. \A u \in Task \ {t} : pc'[u] = pc[u] /\ call'[u] = call[u] /\ holds'[u] = holds[u]
    BY <1>1, <1>5 DEF Acquire, Goto
  <2>2. pc'[t] = "user"
    BY <1>1, <1>5 DEF Acquire, Goto
  <2> QED
    BY <1>2, <2>1, <2>2
<1>6. ASSUME NEW t \in Task, holds' = holds, GiveUp(t)
      PROVE  AsksOthers'
  BY <1>1, <1>2, <1>6 DEF GiveUp, Goto
<1>7. ASSUME NEW t \in Task, pc[t] \in MutexLabel, holds' = holds, call'[t].m = call[t].m,
             \A u \in Task \ {t} : call'[u] = call[u],
             NEW l, Goto(t, l)
      PROVE  AsksOthers'
  BY <1>1, <1>2, <1>7 DEF Goto, AsksOthers
<1>8. ASSUME NEW t \in Task, MutexStep(t)
      PROVE  AsksOthers'
  <2>1. pc[t] \in MutexLabel /\ call[t].m \in Mutex
    BY <1>8 DEF MutexStep, LockEnter, LockRetry, TimedTry, TimedNow, TimedEnter, TimedCheck,
                MutexLabel, MutexBase
  <2>2. CASE LockEnter(t)
    BY <1>7, <2>1, <2>2 DEF LockEnter
  <2>3. CASE LockRetry(t)
    BY <1>5, <1>7, <2>1, <2>3 DEF LockRetry
  <2>4. CASE TimedTry(t)
    BY <1>5, <1>7, <2>1, <2>4 DEF TimedTry
  <2>5. CASE TimedNow(t)
    <3>1. CASE GiveUp(t)
      BY <1>6, <2>5, <3>1 DEF TimedNow
    <3>2. CASE /\ call' = [call EXCEPT ![t].remaining = call[t].deadline - s_ticks]
               /\ Goto(t, "timed_enter")
      <4>1. call'[t].m = call[t].m /\ \A u \in Task \ {t} : call'[u] = call[u]
        BY <1>1, <3>2 DEF CallRecord
      <4> QED
        BY <1>7, <2>1, <2>5, <3>2, <4>1 DEF TimedNow
    <3> QED
      BY <2>5, <3>1, <3>2 DEF TimedNow
  <2>6. CASE TimedEnter(t)
    BY <1>7, <2>1, <2>6 DEF TimedEnter
  <2>7. CASE TimedCheck(t)
    BY <1>6, <1>7, <2>1, <2>7 DEF TimedCheck
  <2> QED
    BY <1>8, <2>2, <2>3, <2>4, <2>5, <2>6, <2>7 DEF MutexStep
<1>9. ASSUME NEW t \in Task, NEW m \in Mutex, mutex_lock(t, m) \/ mutex_trylock(t, m)
      PROVE  AsksOthers'
  <2>1. CASE Acquire(t, m)
    BY <1>5, <2>1
  <2>2. CASE m \notin holds[t] /\ call' = [call EXCEPT ![t].m = m] /\ Goto(t, "lock_enter")
             /\ holds' = holds
    <3>1. call'[t].m = m /\ \A u \in Task \ {t} : call'[u] = call[u]
      BY <1>1, <2>2 DEF CallRecord
    <3> QED
      BY <1>1, <1>2, <2>2, <3>1 DEF Goto
  <2> QED
    BY <1>9, <2>1, <2>2 DEF mutex_lock, mutex_trylock
<1>10. ASSUME NEW t \in Task, NEW m \in Mutex, NEW ms \in Timeout, mutex_lock_timeout(t, m, ms)
       PROVE  AsksOthers'
  <2>1. call'[t].m = m /\ \A u \in Task \ {t} : call'[u] = call[u]
    BY <1>1, <1>10 DEF mutex_lock_timeout
  <2> QED
    BY <1>1, <1>2, <1>10, <2>1 DEF mutex_lock_timeout, Goto
<1>11. ASSUME NEW t \in Task, NEW m \in Mutex, mutex_unlock(t, m)
       PROVE  AsksOthers'
  <2>1. pc' = pc /\ call' = call /\ \A u \in Task : holds'[u] \subseteq holds[u]
    BY <1>1, <1>11 DEF mutex_unlock
  <2> QED
    BY <2>1 DEF AsksOthers
<1> QED
  BY <1>3, <1>4, <1>8, <1>9, <1>10, <1>11 DEF MutexNext, MutexCall

(* The quiet steps of mutex.c, and who owns the mutexes after them.        *)
LEMMA OwnersQuiet ==
    ASSUME MutexBase, NEW t \in Task,
           \/ \E m \in Mutex : mutex_lock(t, m) \/ mutex_trylock(t, m)
           \/ \E m \in Mutex, ms \in Timeout : mutex_lock_timeout(t, m, ms)
           \/ TimedNow(t) \/ LockRetry(t) \/ TimedTry(t) \/ TimedCheck(t)
    PROVE  QuietOwners(t) /\ Runs(t) /\ pc[t] \in MutexLabel \cup {"user"}
<1>1. Runs(t) /\ pc[t] \in MutexLabel \cup {"user"}
  BY DEF mutex_lock, mutex_trylock, mutex_lock_timeout, TimedNow, LockRetry, TimedTry, TimedCheck,
         MutexLabel
<1>2. ASSUME NEW m \in Mutex, Acquire(t, m)
      PROVE  QuietOwners(t)
  <2>1. mu \in [Mutex -> MutexRecord]
    BY BaseFacts
  <2>2. \A n \in Mutex : mu'[n].task = IF n = m THEN t ELSE mu[n].task
    BY <1>2, <2>1 DEF Acquire, MutexRecord
  <2> QED
    BY <1>2, <2>2 DEF QuietOwners, Acquire
<1>3. ASSUME mu' = mu
      PROVE  QuietOwners(t)
  BY <1>3 DEF QuietOwners
<1>4. pc[t] \in MutexLabel => call[t].m \in Mutex
  BY DEF MutexBase
<1>5. CASE \E m \in Mutex : mutex_lock(t, m) \/ mutex_trylock(t, m)
  BY <1>1, <1>2, <1>3, <1>5 DEF mutex_lock, mutex_trylock
<1>6. CASE \E m \in Mutex, ms \in Timeout : mutex_lock_timeout(t, m, ms)
  BY <1>1, <1>3, <1>6 DEF mutex_lock_timeout
<1>7. CASE TimedNow(t) \/ TimedCheck(t)
  BY <1>1, <1>3, <1>7 DEF TimedNow, TimedCheck
<1>8. CASE LockRetry(t) \/ TimedTry(t)
  BY <1>1, <1>2, <1>3, <1>4, <1>8 DEF LockRetry, TimedTry, MutexLabel
<1> QED
  BY <1>1, <1>5, <1>6, <1>7, <1>8

(* Every step keeps what priority inheritance rests on.                    *)
LEMMA NextInherits ==
    ASSUME OneMutex, Pausable = {}, MutexInv, Inherits, [MutexNext]_vars
    PROVE  Inherits'
<1>0. MutexBase
  BY DEF MutexInv
<1>1. AsksOthers'
  BY <1>0, NextAsks DEF Inherits
<1> DEFINE Rest == NextRuns' /\ Ordered' /\ HasHeir' /\ OwnerInherits'
<1>2. ASSUME UNCHANGED vars
      PROVE  Rest
  BY <1>2, SchedInherits DEF vars, schedVars
<1>3. ASSUME SchedNext, UNCHANGED mutexLocals
      PROVE  Rest
  BY <1>3, SchedInherits
<1>4. ASSUME NEW t \in Task, MutexStep(t)
      PROVE  Rest
  <2>1. CASE LockRetry(t) \/ TimedTry(t) \/ TimedNow(t) \/ TimedCheck(t)
    <3>1. Quiet(t)
      BY <2>1, CallQuiet, ResetQuiet
    <3>2. QuietOwners(t) /\ Runs(t) /\ pc[t] \in MutexLabel \cup {"user"}
      BY <1>0, <2>1, OwnersQuiet
    <3> QED
      BY <3>1, <3>2, QuietInherits
  <2>2. CASE LockEnter(t) \/ TimedEnter(t)
    <3>1. CASE Free(call[t].m)
      <4>1. k' = k /\ mu' = mu /\ call' = call /\ Runs(t) /\ pc[t] \in {"lock_enter", "timed_enter"}
        BY <2>2, <3>1 DEF LockEnter, TimedEnter
      <4>2. pc[t] \in MutexLabel \cup {"user"}
        BY <4>1 DEF MutexLabel
      <4>3. k.state[t] # "BLOCKED" /\ \A u \in Task \ {t} : pc'[u] = pc[u]
        BY <1>0, <2>2, <4>1, <4>2, RunnerSteps DEF LockEnter, TimedEnter
      <4>4. \A n \in Mutex : ~Succeeds(t, n)
        BY <4>1 DEF Succeeds
      <4>5. Quiet(t) /\ QuietOwners(t)
        BY <4>1, <4>3, <4>4 DEF Quiet, QuietOwners, Free
      <4> QED
        BY <4>1, <4>2, <4>5, QuietInherits
    <3> QED
      BY <2>2, <3>1, EnterInherits
  <2> QED
    BY <1>4, <2>1, <2>2 DEF MutexStep
<1>5. ASSUME NEW t \in Task, MutexCall(t)
      PROVE  Rest
  <2>1. CASE \/ \E m \in Mutex : mutex_lock(t, m) \/ mutex_trylock(t, m)
             \/ \E m \in Mutex, ms \in Timeout : mutex_lock_timeout(t, m, ms)
    <3>1. Quiet(t)
      BY <2>1, CallQuiet
    <3>2. QuietOwners(t) /\ Runs(t) /\ pc[t] \in MutexLabel \cup {"user"}
      BY <1>0, <2>1, OwnersQuiet
    <3> QED
      BY <3>1, <3>2, QuietInherits
  <2>2. ASSUME NEW m \in Mutex, mutex_unlock(t, m)
        PROVE  Rest
    BY <2>2, UnlockInherits
  <2> QED
    BY <1>5, <2>1, <2>2 DEF MutexCall
<1> QED
  BY <1>1, <1>2, <1>3, <1>4, <1>5 DEF MutexNext, Inherits

(* Priority inheritance: the owner of the mutex is at least as urgent as   *)
(* every task that waits for it, also when it took the mutex ahead of the  *)
(* waiter that mutex_unlock had woken.                                     *)
THEOREM MutexOwnerInherits ==
    ASSUME Pausable = {}, OneMutex
    PROVE  MutexSpec => []OwnerInherits
<1>1. MutexInit => Inherits
  <2> SUFFICES ASSUME MutexInit PROVE Inherits
    OBVIOUS
  <2>1. MutexInv /\ NextRuns
    BY InitLists, InitRuns DEF MutexInit
  <2>2. /\ \A t \in Task : pc[t] = "user"
        /\ \A m \in Mutex : Free(m)
        /\ \A t \in Task : k.state[t] # "BLOCKED"
    <3>1. \A t \in Task : pc[t] = "user"
      BY DEF MutexInit, SchedInit
    <3>2. \A m \in Mutex : Free(m)
      BY DEF MutexInit, mutex_init, Free
    <3>3. \A t \in Task : k.state[t] # "BLOCKED"
      BY DEF MutexInit, SchedInit, Started, StartRunning, StartNext, StartCurrent, sched_init, Thread
    <3> QED
      BY <3>1, <3>2, <3>3
  <2>3. ASSUME NEW m \in Mutex
        PROVE  k.waiters[m] = << >>
    <3>1. k.waiters[m] \in Seq(Task) /\ m \in WaitList
      BY <2>1, BaseFacts DEF MutexInv
    <3>2. \A u \in Task : u \notin ToSet(k.waiters[m])
      BY <2>1, <2>2, <3>1 DEF MutexInv, MutexLists
    <3> QED
      BY <3>1, <3>2 DEF ToSet
  <2>4. Ordered
    BY <2>3 DEF Ordered, Sorted
  <2> QED
    BY <2>1, <2>2, <2>3, <2>4, MutexLabels DEF Inherits, AsksOthers, HasHeir, OwnerInherits
<1>2. MutexInv /\ Inherits /\ [MutexNext]_vars => Inherits'
  BY NextInherits
<1>3. Inherits => OwnerInherits
  BY DEF Inherits
<1> QED
  BY <1>1, <1>2, <1>3, MutexInvariant, PTL DEF MutexSpec
=============================================================================
