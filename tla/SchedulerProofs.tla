-------------------------- MODULE SchedulerProofs --------------------------
(***************************************************************************)
(* The scheduler's safety properties for any number of tasks, any          *)
(* priorities, any delays and any tick modulus.  The lemmas on its steps   *)
(* leave open which labels other modules add, so that the proofs about the *)
(* objects built on the scheduler reuse them.                              *)
(***************************************************************************)
EXTENDS Scheduler, KernelProofs

(* SwitchComes with the set of labels before a trigger_pendsv left open.   *)
SwitchAt(triggers) ==
    k.g_next_task # k.g_current_task =>
        \/ k.pendsv
        \/ k.g_current_task \in Task /\ pc[k.g_current_task] \in triggers

SchedTriggers == {"delay_trigger", "switch_trigger"}

(* Every conjunct that every module built on the scheduler keeps.          *)
SchedCore ==
    /\ KernelInv(k)
    /\ k.s_task_count = TASK_MAX
    /\ s_ticks \in Time
    /\ wakeAt \in [Task -> Time]

(* The inductive invariant.  KernelInv says that at most the committed     *)
(* thread is RUNNING, that it is not blocked and that it is as urgent as   *)
(* any ready task, even while the switch to it is still under way.         *)
SchedInv == SchedCore /\ pc \in [Task -> SchedLabel] /\ SwitchAt(SchedTriggers)

(* What DelayExact needs besides: the countdown of a blocked delay is the  *)
(* distance to the time the call is to end at.                             *)
DelayDue ==
    \A t \in Task \ Pausable :
        InDelay(t) /\ k.state[t] = "BLOCKED" =>
            /\ k.delay_ticks[t] \in 1 .. (TickModulus - 1)
            /\ wakeAt[t] = (s_ticks + k.delay_ticks[t]) % TickModulus
-----------------------------------------------------------------------------
(* The critical sections of sched_delay_ms and sched_yield re-establish    *)
(* the kernel part of the invariant.                                       *)
LEMMA DelayDecides ==
    ASSUME NEW K, KernelInv(K), NEW t \in Task, NEW ms \in Nat, K.g_current_task = t
    PROVE  LET R == DelayLocked(K, t, ms) IN
           /\ KernelInv(R) /\ R.g_current_task = t
           /\ R.s_task_count = K.s_task_count
           /\ R.priority = K.priority /\ R.wait_list_head = K.wait_list_head
           /\ R.timed_out = K.timed_out /\ R.waiters = K.waiters
           /\ R.delay_ticks = [K.delay_ticks EXCEPT ![t] = ms]
           /\ \A u \in Thread : R.state[u] = "BLOCKED" <=> u = t \/ K.state[u] = "BLOCKED"
<1> DEFINE B == [K EXCEPT !.delay_ticks[t] = ms, !.state[t] = "BLOCKED"]
<1>1. /\ KernelTypeOK(B)
      /\ B.state = [K.state EXCEPT ![t] = "BLOCKED"]
      /\ B.delay_ticks = [K.delay_ticks EXCEPT ![t] = ms]
      /\ B.priority = K.priority /\ B.wait_list_head = K.wait_list_head
      /\ B.timed_out = K.timed_out /\ B.waiters = K.waiters
      /\ B.s_task_count = K.s_task_count
      /\ B.g_current_task = t
      /\ B.g_next_task = K.g_next_task
  BY DEF KernelInv, KernelCore, KernelTypeOK, TaskState, Thread
<1> HIDE DEF B
<1>2. \A u \in Thread : B.state[u] = IF u = t THEN "BLOCKED" ELSE K.state[u]
  BY <1>1 DEF KernelInv, KernelCore, KernelTypeOK
<1>3. KernelCore(B) /\ B.state[B.g_current_task] # "RUNNING"
  BY <1>1, <1>2, KernelAssumption
  DEF KernelInv, KernelCore, HasThreads, OnlyNext, IdleAlive, Thread, Task
<1>4. LET R == sched_commit_next(B) IN KernelInv(R) /\ SameWaits(B, R)
  BY <1>3, CommitNext
<1> QED
  BY <1>1, <1>2, <1>4 DEF DelayLocked, SameWaits, B

(* sched_yield makes the caller READY and picks again.                     *)
LEMMA YieldDecides ==
    ASSUME NEW K, KernelInv(K), NEW t \in Task, K.g_current_task = t, K.state[t] # "BLOCKED"
    PROVE  LET R == YieldLocked(K, t) IN
           KernelInv(R) /\ SameWaits(K, R) /\ R.g_current_task = t
<1> DEFINE B == [K EXCEPT !.state[t] = "READY"]
<1>1. /\ KernelTypeOK(B)
      /\ B.state = [K.state EXCEPT ![t] = "READY"]
      /\ B.delay_ticks = K.delay_ticks
      /\ B.priority = K.priority /\ B.wait_list_head = K.wait_list_head
      /\ B.timed_out = K.timed_out /\ B.waiters = K.waiters
      /\ B.s_task_count = K.s_task_count
      /\ B.g_current_task = t
      /\ B.g_next_task = K.g_next_task
  BY DEF KernelInv, KernelCore, KernelTypeOK, TaskState, Thread
<1> HIDE DEF B
<1>2. \A u \in Thread : B.state[u] = IF u = t THEN "READY" ELSE K.state[u]
  BY <1>1 DEF KernelInv, KernelCore, KernelTypeOK
<1>3. KernelCore(B) /\ B.state[B.g_current_task] # "RUNNING"
  BY <1>1, <1>2, KernelAssumption
  DEF KernelInv, KernelCore, HasThreads, OnlyNext, IdleAlive, Thread, Task
<1>4. LET R == sched_commit_next(B) IN KernelInv(R) /\ SameWaits(B, R)
  BY <1>3, CommitNext
<1>5. SameWaits(K, B)
  BY <1>1, <1>2 DEF SameWaits
<1> QED
  BY <1>1, <1>4, <1>5, SameWaitsTrans DEF YieldLocked, SameWaits, B

(* Pausing and resuming leave the choice of the next task as it was; the   *)
(* resumed task counts as late.                                            *)
LEMMA PauseKeeps ==
    ASSUME NEW K, KernelInv(K), NEW i \in Task
    PROVE  LET R == PauseLocked(K, i) IN
           /\ KernelInv(R)
           /\ R.g_current_task = K.g_current_task
           /\ R.g_next_task = K.g_next_task
           /\ R.pendsv = K.pendsv
           /\ R.s_task_count = K.s_task_count
           /\ R.priority = K.priority /\ R.wait_list_head = K.wait_list_head
           /\ R.timed_out = K.timed_out /\ R.waiters = K.waiters
           /\ R.delay_ticks = K.delay_ticks
           /\ \A t \in Thread : t # i => R.state[t] = K.state[t]
           /\ \A t \in Thread : R.state[t] = "BLOCKED" => K.state[t] = "BLOCKED"
<1> DEFINE R == PauseLocked(K, i)
<1>1. /\ KernelTypeOK(R)
      /\ R.state = [K.state EXCEPT ![i] = "PAUSED"]
      /\ R.g_current_task = K.g_current_task
      /\ R.g_next_task = K.g_next_task
      /\ R.pendsv = K.pendsv
      /\ R.priority = K.priority
      /\ R.late = K.late
      /\ R.s_task_count = K.s_task_count
      /\ R.wait_list_head = K.wait_list_head
      /\ R.timed_out = K.timed_out /\ R.waiters = K.waiters
      /\ R.delay_ticks = K.delay_ticks
  BY DEF KernelInv, KernelCore, PauseLocked, KernelTypeOK, TaskState, Thread
<1> HIDE DEF R
<1>2. \A t \in Thread : R.state[t] = IF t = i THEN "PAUSED" ELSE K.state[t]
  BY <1>1 DEF KernelInv, KernelCore, KernelTypeOK
<1>3. HasThreads(R) /\ OnlyNext(R) /\ IdleAlive(R) /\ R.state[R.g_next_task] # "BLOCKED"
  BY <1>1, <1>2, KernelAssumption
  DEF KernelInv, KernelCore, HasThreads, OnlyNext, IdleAlive, Thread, Task
<1>4. NextMostUrgent(R)
  <2>1. Ready(R) \subseteq Ready(K)
    <3>1. Created(R) = Created(K) /\ Created(R) \subseteq Thread
      BY <1>1, CreatedTasks DEF Created, Thread
    <3> QED
      BY <1>1, <1>2, <3>1 DEF Ready
  <2> QED
    BY <1>1, <1>2, <2>1 DEF NextMostUrgent, KernelInv, KernelCore, HasThreads
<1> QED
  BY <1>1, <1>2, <1>3, <1>4 DEF KernelInv, KernelCore, R

(* sched_task_resume readies a paused task and leaves the decision to the  *)
(* next tick or call.                                                      *)
LEMMA ResumeKeeps ==
    ASSUME NEW K, KernelInv(K), NEW i \in Task
    PROVE  LET R == ResumeLocked(K, i) IN
           /\ KernelInv(R)
           /\ R.g_current_task = K.g_current_task
           /\ R.g_next_task = K.g_next_task
           /\ R.pendsv = K.pendsv
           /\ R.s_task_count = K.s_task_count
           /\ R.priority = K.priority /\ R.wait_list_head = K.wait_list_head
           /\ R.timed_out = K.timed_out /\ R.waiters = K.waiters
           /\ R.delay_ticks = K.delay_ticks
           /\ \A t \in Thread : t # i => R.state[t] = K.state[t]
           /\ \A t \in Thread : R.state[t] = "BLOCKED" => K.state[t] = "BLOCKED"
<1> DEFINE R == ResumeLocked(K, i)
<1>1. CASE K.state[i] # "PAUSED"
  BY <1>1 DEF ResumeLocked
<1>2. CASE K.state[i] = "PAUSED"
  <2>1. /\ KernelTypeOK(R)
        /\ R.state = [K.state EXCEPT ![i] = "READY"]
        /\ R.g_current_task = K.g_current_task
        /\ R.g_next_task = K.g_next_task
        /\ R.pendsv = K.pendsv
        /\ R.priority = K.priority
        /\ R.late = K.late \cup {i}
        /\ R.s_task_count = K.s_task_count
        /\ R.wait_list_head = K.wait_list_head
        /\ R.timed_out = K.timed_out /\ R.waiters = K.waiters
        /\ R.delay_ticks = K.delay_ticks
    BY <1>2 DEF KernelInv, KernelCore, ResumeLocked, KernelTypeOK, TaskState, Thread
  <2> HIDE DEF R
  <2>2. \A t \in Thread : R.state[t] = IF t = i THEN "READY" ELSE K.state[t]
    BY <2>1 DEF KernelInv, KernelCore, KernelTypeOK
  <2>3. HasThreads(R) /\ OnlyNext(R) /\ IdleAlive(R) /\ R.state[R.g_next_task] # "BLOCKED"
    BY <2>1, <2>2, KernelAssumption
    DEF KernelInv, KernelCore, HasThreads, OnlyNext, IdleAlive, Thread, Task
  <2>4. NextMostUrgent(R)
    <3>1. Ready(R) \ R.late \subseteq Ready(K) \ K.late
      <4>1. Created(R) = Created(K) /\ Created(R) \subseteq Thread
        BY <2>1, CreatedTasks DEF Created, Thread
      <4> QED
        BY <2>1, <2>2, <4>1 DEF Ready
    <3> QED
      BY <2>1, <2>2, <3>1 DEF NextMostUrgent, KernelInv, KernelCore, HasThreads
  <2> QED
    BY <2>1, <2>2, <2>3, <2>4 DEF KernelInv, KernelCore, R
<1> QED
  BY <1>1, <1>2
-----------------------------------------------------------------------------
(* The initial state: sched_start has marked its choice RUNNING.           *)
LEMMA StartedInv ==
    ASSUME NEW p \in [Task -> Priority]
    PROVE  /\ KernelInv(Started(TASK_MAX, p))
           /\ LET S == Started(TASK_MAX, p) IN
              /\ S.g_next_task = S.g_current_task
              /\ S.s_task_count = TASK_MAX
              /\ S.waiters = [h \in WaitList |-> << >>]
              /\ S.delay_ticks = [t \in Task |-> 0]
              /\ S.wait_list_head = [t \in Task |-> NULL]
              /\ S.priority = p
              /\ \A t \in Thread : S.state[t] # "BLOCKED"
<1> DEFINE Z == [sched_init EXCEPT !.s_task_count = TASK_MAX, !.priority = p]
           c == sched_select_next(Z)
           S == Started(TASK_MAX, p)
<1>1. /\ KernelTypeOK(Z)
      /\ Z.state = [t \in Thread |-> "READY"]
      /\ Z.late = {}
      /\ Z.pendsv = FALSE
      /\ Z.s_task_count = TASK_MAX
      /\ Z.waiters = [h \in WaitList |-> << >>]
      /\ Z.delay_ticks = [t \in Task |-> 0]
      /\ Z.wait_list_head = [t \in Task |-> NULL]
      /\ Z.priority = p
  <2>1. /\ [t \in Thread |-> "READY"] \in [Thread -> TaskState]
        /\ [t \in Task |-> 0] \in [Task -> Priority]
        /\ [t \in Task |-> 0] \in [Task -> Nat]
        /\ [t \in Task |-> NULL] \in [Task -> WaitList \cup {NULL}]
        /\ [t \in Task |-> FALSE] \in [Task -> BOOLEAN]
        /\ [h \in WaitList |-> << >>] \in [WaitList -> Seq(Task)]
        /\ 0 \in 0 .. TASK_MAX /\ TASK_MAX \in 0 .. TASK_MAX
    BY KernelAssumption DEF TaskState, Priority, NoPriority
  <2>2. KernelTypeOK(sched_init)
    BY <2>1 DEF sched_init, KernelTypeOK
  <2>3. /\ sched_init.state = [t \in Thread |-> "READY"]
        /\ sched_init.late = {}
        /\ sched_init.pendsv = FALSE
        /\ sched_init.waiters = [h \in WaitList |-> << >>]
        /\ sched_init.delay_ticks = [t \in Task |-> 0]
        /\ sched_init.wait_list_head = [t \in Task |-> NULL]
    BY DEF sched_init
  <2> QED
    BY <2>1, <2>2, <2>3 DEF KernelTypeOK
<1> HIDE DEF Z
<1>2. /\ Ready(Z) = {} => c = IdleTask
      /\ Ready(Z) # {} => c \in Best(Z)
      /\ Ready(Z) \subseteq Task
  BY <1>1, SelectNext, CreatedTasks
<1>3. c \in Thread
  BY <1>2 DEF Best, Thread
<1> HIDE DEF c
<1> DEFINE A == StartCurrent(Z)
           B == StartNext(A)
<1>4. /\ KernelTypeOK(A)
      /\ A.g_current_task = c
      /\ A.state = Z.state /\ A.priority = Z.priority
      /\ A.s_task_count = Z.s_task_count /\ A.late = {}
      /\ A.waiters = Z.waiters /\ A.delay_ticks = Z.delay_ticks
      /\ A.wait_list_head = Z.wait_list_head
  BY <1>1, <1>3 DEF StartCurrent, c, KernelTypeOK
<1> HIDE DEF A
<1>5. /\ KernelTypeOK(B)
      /\ B.g_current_task = c /\ B.g_next_task = c
      /\ B.state = Z.state /\ B.priority = Z.priority
      /\ B.s_task_count = Z.s_task_count /\ B.late = {}
      /\ B.waiters = Z.waiters /\ B.delay_ticks = Z.delay_ticks
      /\ B.wait_list_head = Z.wait_list_head
  BY <1>3, <1>4 DEF StartNext, KernelTypeOK
<1> HIDE DEF B
<1>6. /\ KernelTypeOK(S)
      /\ S.g_current_task = c /\ S.g_next_task = c
      /\ S.state = [Z.state EXCEPT ![c] = "RUNNING"]
      /\ S.priority = Z.priority
      /\ S.s_task_count = Z.s_task_count
      /\ S.waiters = Z.waiters /\ S.delay_ticks = Z.delay_ticks
      /\ S.wait_list_head = Z.wait_list_head
      /\ S.late = {}
  <2>1. S = StartRunning(B)
    BY DEF Started, A, B, Z
  <2>2. S = [B EXCEPT !.state[c] = "RUNNING"]
    BY <1>5, <2>1 DEF StartRunning
  <2>3. [Z.state EXCEPT ![c] = "RUNNING"] \in [Thread -> TaskState]
    BY <1>1, <1>3 DEF TaskState
  <2> HIDE DEF S
  <2> QED
    BY <1>5, <2>2, <2>3 DEF KernelTypeOK
<1> HIDE DEF S
<1>7. \A t \in Thread : S.state[t] = IF t = c THEN "RUNNING" ELSE "READY"
  BY <1>1, <1>6
<1>8. HasThreads(S) /\ OnlyNext(S) /\ IdleAlive(S) /\ S.state[S.g_next_task] # "BLOCKED"
  BY <1>3, <1>6, <1>7 DEF HasThreads, OnlyNext, IdleAlive, Thread
<1>9. NextMostUrgent(S)
  <2>1. Ready(S) \subseteq Ready(Z)
    <3>1. Ready(S) \subseteq Thread
      BY <1>6, CreatedTasks DEF Thread
    <3> QED
      BY <1>1, <1>6, <3>1 DEF Ready, Created
  <2> SUFFICES ASSUME NEW t \in Ready(S)
               PROVE  c # IdleTask /\ S.priority[c] <= S.priority[t]
    BY <1>6 DEF NextMostUrgent
  <2>2. c \in Best(Z) /\ c \in Task
    BY <1>2, <2>1 DEF Best
  <2>3. c # IdleTask
    BY <2>2, KernelAssumption DEF Task
  <2>4. Z.priority[c] <= Z.priority[t]
    BY <2>1, <2>2 DEF Best
  <2> QED
    BY <1>6, <2>3, <2>4
<1> QED
  BY <1>1, <1>6, <1>7, <1>8, <1>9 DEF KernelInv, KernelCore, S

(* What SchedInit leaves behind: nothing waits and nobody is blocked.      *)
LEMMA InitCore ==
    ASSUME SchedInit
    PROVE  /\ SchedInv
           /\ k.priority \in [Task -> Priority]
           /\ k.waiters = [h \in WaitList |-> << >>]
           /\ k.delay_ticks = [t \in Task |-> 0]
           /\ k.wait_list_head = [t \in Task |-> NULL]
           /\ k.g_next_task = k.g_current_task
           /\ \A t \in Thread : k.state[t] # "BLOCKED"
<1>1. PICK p \in [Task -> Priority] : k = Started(TASK_MAX, p)
  BY SchedulerAssumption DEF SchedInit
<1>2. /\ KernelInv(k) /\ k.g_next_task = k.g_current_task
      /\ k.s_task_count = TASK_MAX
      /\ k.waiters = [h \in WaitList |-> << >>]
      /\ k.delay_ticks = [t \in Task |-> 0]
      /\ k.wait_list_head = [t \in Task |-> NULL]
      /\ k.priority = p
      /\ \A t \in Thread : k.state[t] # "BLOCKED"
  BY <1>1, StartedInv
<1>3. 0 \in Time
  BY SchedulerAssumption DEF Time
<1>4. s_ticks \in Time /\ wakeAt \in [Task -> Time] /\ pc \in [Task -> SchedLabel]
  BY <1>3 DEF SchedInit, SchedLabel
<1> QED
  BY <1>2, <1>4 DEF SchedInv, SchedCore, SwitchAt
-----------------------------------------------------------------------------
(* The steps of the scheduler.                                             *)

(* A task in the scheduler's code that is not about to trigger a switch is *)
(* the committed one when it runs, and so not blocked.                     *)
LEMMA RunnerIsNext ==
    ASSUME KernelInv(k), NEW triggers, SwitchAt(triggers),
           NEW t \in Task, Runs(t), pc[t] \notin triggers
    PROVE  k.g_next_task = t /\ k.state[t] # "BLOCKED"
BY DEF KernelInv, SwitchAt, Runs

(* Taking the pending context switch.                                      *)
LEMMA PendSVKeeps ==
    ASSUME NEW K, KernelInv(K)
    PROVE  LET R == PendSV_Handler(K) IN
           /\ KernelInv(R)
           /\ R.g_current_task = R.g_next_task
           /\ R.s_task_count = K.s_task_count
           /\ R.state = K.state /\ R.priority = K.priority /\ R.delay_ticks = K.delay_ticks
           /\ R.wait_list_head = K.wait_list_head /\ R.timed_out = K.timed_out
           /\ R.waiters = K.waiters
<1> DEFINE R == PendSV_Handler(K)
<1>1. /\ KernelTypeOK(R)
      /\ R.state = K.state /\ R.priority = K.priority /\ R.late = K.late
      /\ R.g_current_task = K.g_next_task /\ R.g_next_task = K.g_next_task
      /\ R.s_task_count = K.s_task_count /\ R.delay_ticks = K.delay_ticks
      /\ R.wait_list_head = K.wait_list_head /\ R.timed_out = K.timed_out
      /\ R.waiters = K.waiters
  BY DEF PendSV_Handler, KernelInv, KernelCore, KernelTypeOK
<1> HIDE DEF R
<1> QED
  BY <1>1
  DEF KernelInv, KernelCore, HasThreads, OnlyNext, IdleAlive, NextMostUrgent, Ready, Created, R

(* What a step other than the tick does to the waits of a task that nobody *)
(* pauses: nothing, unless the task calls sched_delay_ms.                  *)
WaitsKept(u) ==
    /\ k'.delay_ticks[u] = k.delay_ticks[u]
    /\ k'.state[u] = "BLOCKED" <=> k.state[u] = "BLOCKED"
    /\ wakeAt'[u] = wakeAt[u] \/ pc'[u] = "user"

(* Every step of the scheduler keeps the kernel's part of the invariant,   *)
(* keeps the switch coming, keeps every label of another module and keeps  *)
(* all waits but those that the tick counts down.                          *)
LEMMA SchedSteps ==
    ASSUME SchedCore, NEW L, SchedLabel \subseteq L, pc \in [Task -> L],
           NEW triggers, SchedTriggers \subseteq triggers,
           "user" \notin triggers, "delay_wait" \notin triggers, SwitchAt(triggers),
           [SchedNext]_schedVars
    PROVE  /\ SchedCore'
           /\ pc' \in [Task -> L]
           /\ \A u \in Task : pc'[u] # pc[u] => {pc[u], pc'[u]} \subseteq SchedLabel
           /\ SwitchAt(triggers)'
           /\ k'.priority = k.priority
           /\ \A u \in Task : k'.state[u] = "BLOCKED" => k.state[u] = "BLOCKED" \/ pc[u] = "user"
           /\ \/ /\ SysTick_Handler
                 /\ SameWaits(CountDown(k, 1), k')
              \/ /\ k'.waiters = k.waiters
                 /\ k'.wait_list_head = k.wait_list_head
                 /\ k'.timed_out = k.timed_out
                 /\ s_ticks' = s_ticks
                 /\ \A u \in Task : pc[u] # "user" => k'.delay_ticks[u] = k.delay_ticks[u]
                 /\ \A u \in Task \ Pausable :
                       \/ WaitsKept(u)
                       \/ \E ms \in Delay : sched_delay_ms(u, ms) /\ k' = DelayLocked(k, u, ms)
<1> DEFINE Goal == /\ SchedCore'
                   /\ pc' \in [Task -> L]
                   /\ \A u \in Task : pc'[u] # pc[u] => {pc[u], pc'[u]} \subseteq SchedLabel
                   /\ SwitchAt(triggers)'
                   /\ k'.priority = k.priority
                   /\ \A u \in Task : k'.state[u] = "BLOCKED" => k.state[u] = "BLOCKED" \/ pc[u] = "user"
                   /\ k'.waiters = k.waiters
                   /\ k'.wait_list_head = k.wait_list_head
                   /\ k'.timed_out = k.timed_out
                   /\ s_ticks' = s_ticks
                   /\ \A u \in Task : pc[u] # "user" => k'.delay_ticks[u] = k.delay_ticks[u]
                   /\ \A u \in Task \ Pausable :
                         \/ WaitsKept(u)
                         \/ \E ms \in Delay : sched_delay_ms(u, ms) /\ k' = DelayLocked(k, u, ms)
<1>1. /\ KernelInv(k) /\ k.s_task_count = TASK_MAX /\ KernelCore(k)
      /\ k.delay_ticks \in [Task -> Nat]
      /\ k.g_current_task \in Thread
      /\ s_ticks \in Time
      /\ wakeAt \in [Task -> Time]
  BY DEF SchedCore, KernelInv, KernelCore, KernelTypeOK, HasThreads
<1>2. Task \subseteq Thread
  BY DEF Thread
<1>3. \A x \in Int : x % TickModulus \in Time
  BY SchedulerAssumption DEF Time
<1>4. ASSUME NEW t \in Task, NEW ms \in Delay, sched_delay_ms(t, ms)
      PROVE  Goal
  <2>1. ms \in Nat
    BY SchedulerAssumption
  <2>2. /\ k' = DelayLocked(k, t, ms)
        /\ pc' = [pc EXCEPT ![t] = "delay_trigger"] /\ pc[t] = "user"
        /\ s_ticks' = s_ticks
        /\ wakeAt' = [wakeAt EXCEPT ![t] = (s_ticks + ms) % TickModulus]
        /\ k.g_current_task = t
    BY <1>4 DEF sched_delay_ms, Goto, Runs
  <2>3. /\ KernelInv(k') /\ k'.g_current_task = t
        /\ k'.s_task_count = k.s_task_count
        /\ k'.priority = k.priority /\ k'.wait_list_head = k.wait_list_head
        /\ k'.timed_out = k.timed_out /\ k'.waiters = k.waiters
        /\ k'.delay_ticks = [k.delay_ticks EXCEPT ![t] = ms]
        /\ \A u \in Thread : k'.state[u] = "BLOCKED" <=> u = t \/ k.state[u] = "BLOCKED"
    BY <1>1, <2>1, <2>2, DelayDecides
  <2>4. s_ticks + ms \in Int
    BY <1>1, <2>1 DEF Time
  <2>5. SchedCore'
    BY <1>1, <1>3, <2>2, <2>3, <2>4 DEF SchedCore
  <2>6. /\ pc' \in [Task -> L]
        /\ \A u \in Task : pc'[u] # pc[u] => {pc[u], pc'[u]} \subseteq SchedLabel
        /\ pc'[t] = "delay_trigger"
    BY <2>2 DEF SchedLabel
  <2>7. SwitchAt(triggers)'
    BY <2>3, <2>6 DEF SwitchAt, SchedTriggers
  <2>8. \A u \in Task \ Pausable : u # t => WaitsKept(u)
    BY <1>1, <1>2, <2>2, <2>3 DEF WaitsKept
  <2>9. \A u \in Task : k'.state[u] = "BLOCKED" => k.state[u] = "BLOCKED" \/ pc[u] = "user"
    BY <1>2, <2>2, <2>3
  <2>10. \A u \in Task : pc[u] # "user" => k'.delay_ticks[u] = k.delay_ticks[u]
    BY <1>1, <2>2, <2>3
  <2> QED
    BY <1>4, <2>2, <2>3, <2>5, <2>6, <2>7, <2>8, <2>9, <2>10
<1>5. ASSUME NEW t \in Task, DelayTrigger(t) \/ SwitchTrigger(t)
      PROVE  Goal
  <2>1. /\ k' = trigger_pendsv(k) /\ pc[t] \in SchedTriggers
        /\ s_ticks' = s_ticks /\ wakeAt' = wakeAt
        /\ \E l \in {"delay_wait", "user"} : pc' = [pc EXCEPT ![t] = l]
    BY <1>5 DEF DelayTrigger, SwitchTrigger, Goto, SchedTriggers
  <2>2. KernelInv(k') /\ SameWaits(k, k') /\ k'.pendsv
    BY <1>1, <2>1, TriggerKeeps
  <2>3. SchedCore'
    BY <1>1, <2>1, <2>2 DEF SchedCore, SameWaits
  <2>4. /\ pc' \in [Task -> L]
        /\ \A u \in Task : pc'[u] # pc[u] => {pc[u], pc'[u]} \subseteq SchedLabel
    BY <2>1 DEF SchedLabel, SchedTriggers
  <2>5. SwitchAt(triggers)'
    BY <2>2 DEF SwitchAt
  <2>6. \A u \in Task \ Pausable : WaitsKept(u)
    BY <1>2, <2>1, <2>2 DEF WaitsKept, SameWaits
  <2>7. \A u \in Task : k'.state[u] = "BLOCKED" => k.state[u] = "BLOCKED"
    BY <1>2, <2>2 DEF SameWaits
  <2> QED
    BY <2>1, <2>2, <2>3, <2>4, <2>5, <2>6, <2>7 DEF SameWaits
<1>6. ASSUME NEW t \in Task, DelayReturn(t)
      PROVE  Goal
  <2>1. 0 \in Time
    BY SchedulerAssumption DEF Time
  <2>2. /\ k' = k /\ pc' = [pc EXCEPT ![t] = "user"] /\ s_ticks' = s_ticks
        /\ wakeAt' = [wakeAt EXCEPT ![t] = 0]
        /\ pc[t] = "delay_wait" /\ Runs(t)
    BY <1>6 DEF DelayReturn, Goto
  <2>3. k.g_next_task = k.g_current_task
    BY <1>1, <2>2, RunnerIsNext DEF Runs
  <2>4. /\ pc' \in [Task -> L]
        /\ \A u \in Task : pc'[u] # pc[u] => {pc[u], pc'[u]} \subseteq SchedLabel
    BY <2>2 DEF SchedLabel
  <2>5. SchedCore'
    BY <1>1, <2>1, <2>2 DEF SchedCore
  <2>6. \A u \in Task \ Pausable : WaitsKept(u)
    BY <1>1, <2>2 DEF WaitsKept
  <2> QED
    BY <2>2, <2>3, <2>4, <2>5, <2>6 DEF SwitchAt
<1>7. ASSUME NEW t \in Task, sched_yield(t) \/ sched_block(t)
      PROVE  Goal
  <2>1. /\ pc[t] = "user" /\ Runs(t) /\ k.g_current_task = t
        /\ pc' = [pc EXCEPT ![t] = "switch_trigger"]
        /\ s_ticks' = s_ticks /\ wakeAt' = wakeAt
    BY <1>7 DEF sched_yield, sched_block, Goto, Runs
  <2>2. KernelInv(k') /\ SameWaits(k, k') /\ k'.g_current_task = t
    <3>1. CASE sched_yield(t)
      <4>1. k.state[t] # "BLOCKED"
        BY <1>1, <2>1, RunnerIsNext
      <4> QED
        BY <1>1, <2>1, <3>1, <4>1, YieldDecides DEF sched_yield
    <3>2. CASE sched_block(t)
      BY <1>1, <2>1, <3>2, PickDecides DEF sched_block, SameWaits
    <3> QED
      BY <1>7, <3>1, <3>2
  <2>3. SchedCore'
    BY <1>1, <2>1, <2>2 DEF SchedCore, SameWaits
  <2>4. /\ pc' \in [Task -> L]
        /\ \A u \in Task : pc'[u] # pc[u] => {pc[u], pc'[u]} \subseteq SchedLabel
        /\ pc'[t] = "switch_trigger"
    BY <2>1 DEF SchedLabel
  <2>5. SwitchAt(triggers)'
    BY <2>2, <2>4 DEF SwitchAt, SchedTriggers
  <2>6. \A u \in Task \ Pausable : WaitsKept(u)
    BY <1>2, <2>1, <2>2 DEF WaitsKept, SameWaits
  <2>7. \A u \in Task : k'.state[u] = "BLOCKED" => k.state[u] = "BLOCKED"
    BY <1>2, <2>2 DEF SameWaits
  <2> QED
    BY <2>1, <2>2, <2>3, <2>4, <2>5, <2>6, <2>7 DEF SameWaits
<1>8. ASSUME NEW t \in Task, NEW i \in Task, sched_task_pause(t, i) \/ sched_task_resume(t, i)
      PROVE  Goal
  <2>1. pc' = pc /\ s_ticks' = s_ticks /\ wakeAt' = wakeAt /\ i \in Pausable
    BY <1>8 DEF sched_task_pause, sched_task_resume
  <2>2. /\ KernelInv(k')
        /\ k'.g_current_task = k.g_current_task
        /\ k'.g_next_task = k.g_next_task
        /\ k'.pendsv = k.pendsv
        /\ k'.s_task_count = k.s_task_count
        /\ k'.priority = k.priority /\ k'.wait_list_head = k.wait_list_head
        /\ k'.timed_out = k.timed_out /\ k'.waiters = k.waiters
        /\ k'.delay_ticks = k.delay_ticks
        /\ \A u \in Thread : u # i => k'.state[u] = k.state[u]
        /\ \A u \in Thread : k'.state[u] = "BLOCKED" => k.state[u] = "BLOCKED"
    <3>1. CASE sched_task_pause(t, i)
      BY <1>1, <3>1, PauseKeeps DEF sched_task_pause
    <3>2. CASE sched_task_resume(t, i)
      BY <1>1, <3>2, ResumeKeeps DEF sched_task_resume
    <3> QED
      BY <1>8, <3>1, <3>2
  <2>3. SchedCore'
    BY <1>1, <2>1, <2>2 DEF SchedCore
  <2>4. SwitchAt(triggers)'
    BY <2>1, <2>2 DEF SwitchAt
  <2>5. \A u \in Task \ Pausable : WaitsKept(u)
    BY <1>2, <2>1, <2>2 DEF WaitsKept
  <2> QED
    BY <1>2, <2>1, <2>2, <2>3, <2>4, <2>5
<1>9. ASSUME SysTick_Handler
      PROVE  /\ SchedCore' /\ pc' = pc /\ SwitchAt(triggers)'
             /\ k'.priority = k.priority
             /\ SameWaits(CountDown(k, 1), k')
             /\ \A u \in Task : k'.state[u] = "BLOCKED" => k.state[u] = "BLOCKED"
  <2>1. /\ KernelInv(k') /\ (k'.g_next_task # k'.g_current_task => k'.pendsv)
        /\ SameWaits(CountDown(k, 1), k')
    BY <1>1, <1>9, TickDecides DEF SysTick_Handler
  <2>2. s_ticks + 1 \in Int
    BY <1>1, SchedulerAssumption DEF Time
  <2>3. CountDown(k, 1).s_task_count = k.s_task_count /\ CountDown(k, 1).priority = k.priority
    BY <1>1 DEF CountDown, KernelCore, KernelTypeOK
  <2>4. s_ticks' \in Time /\ wakeAt' = wakeAt /\ pc' = pc
    BY <1>3, <1>9, <2>2 DEF SysTick_Handler, Tick
  <2>5. \A u \in Task : k'.state[u] = "BLOCKED" => k.state[u] = "BLOCKED"
    <3>1. LET C == CountDown(k, 1) IN
          \A u \in Task : C.state[u] = "READY" \/ C.state[u] = k.state[u]
      BY <1>1, CountDownWaits DEF KernelCore
    <3>2. \A u \in Task : k'.state[u] = "BLOCKED" <=> CountDown(k, 1).state[u] = "BLOCKED"
      BY <1>2, <2>1 DEF SameWaits
    <3> QED
      BY <3>1, <3>2
  <2> QED
    BY <1>1, <2>1, <2>3, <2>4, <2>5 DEF SchedCore, SwitchAt, SameWaits
<1>10. ASSUME PendSV
       PROVE  Goal
  <2>1. pc' = pc /\ s_ticks' = s_ticks /\ wakeAt' = wakeAt /\ k' = PendSV_Handler(k)
    BY <1>10 DEF PendSV
  <2>2. /\ KernelInv(k')
        /\ k'.g_current_task = k'.g_next_task
        /\ k'.s_task_count = k.s_task_count
        /\ k'.state = k.state /\ k'.priority = k.priority /\ k'.delay_ticks = k.delay_ticks
        /\ k'.wait_list_head = k.wait_list_head /\ k'.timed_out = k.timed_out
        /\ k'.waiters = k.waiters
    BY <1>1, <2>1, PendSVKeeps
  <2>3. SchedCore' /\ SwitchAt(triggers)'
    BY <1>1, <2>1, <2>2 DEF SchedCore, SwitchAt
  <2>4. \A u \in Task \ Pausable : WaitsKept(u)
    BY <2>1, <2>2 DEF WaitsKept
  <2> QED
    BY <2>1, <2>2, <2>3, <2>4
<1>11. CASE UNCHANGED schedVars
  <2>1. Goal
    BY <1>1, <1>11 DEF schedVars, SwitchAt, SchedCore, WaitsKept
  <2> QED
    BY <2>1
<1> HIDE DEF Goal
<1>12. CASE Goal
  BY <1>12 DEF Goal
<1> QED
  BY <1>4, <1>5, <1>6, <1>7, <1>8, <1>9, <1>10, <1>11, <1>12
  DEF SchedNext, SchedStep, SchedCall

(* The caller of sched_delay_ms is blocked.                                *)
LEMMA DelayBlocks ==
    ASSUME KernelInv(k), NEW t \in Task, NEW ms \in Delay, sched_delay_ms(t, ms)
    PROVE  k'.state[t] = "BLOCKED"
<1>1. ms \in Nat /\ t \in Thread
  BY SchedulerAssumption DEF Thread
<1>2. k' = DelayLocked(k, t, ms) /\ k.g_current_task = t
  BY DEF sched_delay_ms, Runs
<1>3. /\ KernelInv(k') /\ k'.g_current_task = t
      /\ k'.s_task_count = k.s_task_count
      /\ k'.priority = k.priority /\ k'.wait_list_head = k.wait_list_head
      /\ k'.timed_out = k.timed_out /\ k'.waiters = k.waiters
      /\ k'.delay_ticks = [k.delay_ticks EXCEPT ![t] = ms]
      /\ \A u \in Thread : k'.state[u] = "BLOCKED" <=> u = t \/ k.state[u] = "BLOCKED"
  BY <1>1, <1>2, DelayDecides
<1> QED
  BY <1>1, <1>3
-----------------------------------------------------------------------------
(* What the scheduler does to tasks that wait in another module's code,    *)
(* when nobody pauses them.                                                *)

(* Only a blocked task has a countdown.                                    *)
NoStrayDelay == \A t \in Task : k.delay_ticks[t] # 0 => k.state[t] = "BLOCKED"

(* The step leaves the wait of u alone ...                                 *)
StaysWaiting(u) ==
    /\ pc'[u] = pc[u]
    /\ k'.state[u] = "BLOCKED" <=> k.state[u] = "BLOCKED"
    /\ k'.delay_ticks[u] = 0 <=> k.delay_ticks[u] = 0
    /\ k'.wait_list_head[u] = k.wait_list_head[u]
    /\ k'.timed_out[u] <=> k.timed_out[u]
    /\ \A h \in WaitList : u \in ToSet(k'.waiters[h]) <=> u \in ToSet(k.waiters[h])

(* ... or ends it with a timeout, off the list that u had named.           *)
TimesOut(u) ==
    /\ pc'[u] = pc[u]
    /\ k.state[u] = "BLOCKED" /\ k.delay_ticks[u] # 0
    /\ k'.state[u] # "BLOCKED" /\ k'.delay_ticks[u] = 0
    /\ \A h \in WaitList :
          u \in ToSet(k'.waiters[h]) <=> u \in ToSet(k.waiters[h]) /\ k.wait_list_head[u] # h

(* Every wait outside the scheduler's own code stays as it is or times     *)
(* out, and the wait lists lose nobody else.                               *)
LEMMA SchedWaiting ==
    ASSUME SchedCore, NEW L, SchedLabel \subseteq L, pc \in [Task -> L],
           NEW triggers, SchedTriggers \subseteq triggers,
           "user" \notin triggers, "delay_wait" \notin triggers, SwitchAt(triggers),
           [SchedNext]_schedVars, NoStrayDelay, Pausable = {}
    PROVE  /\ NoStrayDelay'
           /\ \A u \in Task : pc[u] \notin SchedLabel => StaysWaiting(u) \/ TimesOut(u)
           /\ \A h \in WaitList : /\ SubList(k'.waiters[h], k.waiters[h])
                                  /\ ToSet(k'.waiters[h]) \subseteq ToSet(k.waiters[h])
           /\ \A u \in Task : pc[u] \in SchedLabel => pc'[u] \in SchedLabel
<1>1. /\ KernelTypeOK(k) /\ k.s_task_count = TASK_MAX /\ Task \subseteq Thread
      /\ k.delay_ticks \in [Task -> Nat] /\ k.waiters \in [WaitList -> Seq(Task)]
  BY DEF SchedCore, KernelInv, KernelCore, KernelTypeOK, Thread
<1>2. /\ \A u \in Task : pc'[u] # pc[u] => {pc[u], pc'[u]} \subseteq SchedLabel
      /\ \/ /\ SysTick_Handler
            /\ SameWaits(CountDown(k, 1), k')
         \/ /\ k'.waiters = k.waiters
            /\ k'.wait_list_head = k.wait_list_head
            /\ k'.timed_out = k.timed_out
            /\ \A u \in Task \ Pausable :
                  \/ WaitsKept(u)
                  \/ \E ms \in Delay : sched_delay_ms(u, ms) /\ k' = DelayLocked(k, u, ms)
  BY SchedSteps
<1>3. CASE SysTick_Handler /\ SameWaits(CountDown(k, 1), k')
  <2> DEFINE C == CountDown(k, 1)
             X == Expired(k, 1)
  <2>1. /\ \A t \in Task :
             IF t \in X
             THEN C.state[t] = "READY" /\ C.delay_ticks[t] = 0 /\ C.wait_list_head[t] = NULL
             ELSE /\ C.state[t] = k.state[t]
                  /\ C.delay_ticks[t] =
                       IF t \in Created(k) /\ k.state[t] = "BLOCKED" /\ k.delay_ticks[t] > 1
                       THEN k.delay_ticks[t] - 1 ELSE k.delay_ticks[t]
                  /\ C.wait_list_head[t] = k.wait_list_head[t]
                  /\ C.timed_out[t] <=> k.timed_out[t]
        /\ \A h \in WaitList :
             /\ SubList(C.waiters[h], k.waiters[h])
             /\ ToSet(C.waiters[h]) = ToSet(k.waiters[h]) \ {t \in X : k.wait_list_head[t] = h}
    BY <1>1, CountDownWaits
  <2>2. /\ k'.delay_ticks = C.delay_ticks /\ k'.wait_list_head = C.wait_list_head
        /\ k'.waiters = C.waiters /\ k'.timed_out = C.timed_out
        /\ \A t \in Task : k'.state[t] = "BLOCKED" <=> C.state[t] = "BLOCKED"
    BY <1>1, <1>3 DEF SameWaits
  <2>3. pc' = pc
    BY <1>3 DEF SysTick_Handler
  <2>4. \A t \in X : k.state[t] = "BLOCKED" /\ k.delay_ticks[t] # 0
    BY DEF Expired
  <2>5. \A t \in Task : t \notin X => (C.delay_ticks[t] = 0 <=> k.delay_ticks[t] = 0)
    BY <1>1, <2>1
  <2> HIDE DEF C, X
  <2>6. NoStrayDelay'
    BY <2>1, <2>2, <2>5 DEF NoStrayDelay
  <2>7. \A u \in Task : IF u \in X THEN TimesOut(u) ELSE StaysWaiting(u)
    BY <2>1, <2>2, <2>3, <2>4, <2>5 DEF TimesOut, StaysWaiting
  <2> QED
    BY <2>1, <2>2, <2>3, <2>6, <2>7
<1>4. CASE /\ k'.waiters = k.waiters
           /\ k'.wait_list_head = k.wait_list_head
           /\ k'.timed_out = k.timed_out
           /\ \A u \in Task \ Pausable :
                 \/ WaitsKept(u)
                 \/ \E ms \in Delay : sched_delay_ms(u, ms) /\ k' = DelayLocked(k, u, ms)
  <2>1. \A u \in Task : WaitsKept(u) \/ \E ms \in Delay : sched_delay_ms(u, ms)
    BY <1>4
  <2>2. NoStrayDelay'
    <3> SUFFICES ASSUME NEW u \in Task
                 PROVE  k'.delay_ticks[u] # 0 => k'.state[u] = "BLOCKED"
      BY DEF NoStrayDelay
    <3>1. CASE WaitsKept(u)
      BY <3>1 DEF WaitsKept, NoStrayDelay
    <3>2. CASE \E ms \in Delay : sched_delay_ms(u, ms)
      BY <3>2, DelayBlocks DEF SchedCore
    <3> QED
      BY <2>1, <3>1, <3>2
  <2>3. \A u \in Task : pc[u] \notin SchedLabel => StaysWaiting(u)
    BY <1>2, <1>4, <2>1 DEF WaitsKept, StaysWaiting, sched_delay_ms, SchedLabel
  <2>4. ASSUME NEW h \in WaitList
        PROVE  SubList(k.waiters[h], k.waiters[h])
    <3> DEFINE s == k.waiters[h]
               f == [i \in DOMAIN s |-> i]
    <3>1. f \in [DOMAIN s -> DOMAIN s]
      OBVIOUS
    <3>2. /\ \A i, j \in DOMAIN s : i < j => f[i] < f[j]
          /\ \A i \in DOMAIN s : s[i] = s[f[i]]
      OBVIOUS
    <3> QED
      BY <3>1, <3>2 DEF SubList
  <2> QED
    BY <1>2, <1>4, <2>2, <2>3, <2>4
<1> QED
  BY <1>2, <1>3, <1>4
-----------------------------------------------------------------------------
(* Every step preserves the invariant.                                     *)
LEMMA NextInv == SchedInv /\ [SchedNext]_schedVars => SchedInv'
<1>1. SchedTriggers \subseteq SchedTriggers /\ "user" \notin SchedTriggers
      /\ "delay_wait" \notin SchedTriggers
  BY DEF SchedTriggers
<1> QED
  BY <1>1, SchedSteps DEF SchedInv

(* The inductive invariant holds in every reachable state.                 *)
THEOREM SchedulerInvariant == SchedSpec => []SchedInv
<1>1. SchedInit => SchedInv
  BY InitCore
<1> QED
  BY <1>1, NextInv, PTL DEF SchedSpec

(* Types: every TCB field, scheduler static and program counter.           *)
THEOREM SchedulerTypeCorrect == SchedSpec => []TypeOK
<1>1. SchedInv => TypeOK
  BY DEF SchedInv, SchedCore, KernelInv, KernelCore, TypeOK, SchedTypeOK
<1> QED
  BY SchedulerInvariant, <1>1, PTL

(* However ticks, delays, yields, pauses and switches interleave, at most  *)
(* one thread is RUNNING and it is the one PendSV switches to, which is    *)
(* never blocked.                                                          *)
THEOREM SchedulerSingleRunning == SchedSpec => [](SingleRunning /\ NextRunnable)
<1>1. SchedInv => SingleRunning /\ NextRunnable
  BY DEF SchedInv, SchedCore, KernelInv, KernelCore, OnlyNext, SingleRunning, NextRunnable
<1> QED
  BY SchedulerInvariant, <1>1, PTL

(* A committed context switch is never lost.                               *)
THEOREM SchedulerSwitchComes == SchedSpec => []SwitchComes
<1>1. SchedInv => SwitchComes
  BY DEF SchedInv, SwitchAt, SchedTriggers, SwitchComes
<1> QED
  BY SchedulerInvariant, <1>1, PTL

(* The thread that keeps the CPU is at least as urgent as every ready task *)
(* a scheduling decision has seen.                                         *)
THEOREM SchedulerRunsMostUrgent == SchedSpec => []RunsMostUrgent
<1>1. SchedInv => RunsMostUrgent
  BY DEF SchedInv, SchedCore, KernelInv, RunsMostUrgent, NextMostUrgent
<1> QED
  BY SchedulerInvariant, <1>1, PTL
-----------------------------------------------------------------------------
(* DelayExact.                                                             *)

(* Clock arithmetic without the modulus.                                   *)
LEMMA ClockWraps ==
    ASSUME NEW x \in Time, NEW d \in 1 .. (TickModulus - 1)
    PROVE  (x + d) % TickModulus = IF x + d < TickModulus THEN x + d ELSE x + d - TickModulus
<1>1. TickModulus \in Nat /\ TickModulus > 0 /\ x \in Nat /\ d \in Nat
  BY SchedulerAssumption DEF Time
<1>2. CASE x + d < TickModulus
  BY <1>1, <1>2
<1>3. CASE x + d >= TickModulus
  <2>1. x + d - TickModulus \in 0 .. (TickModulus - 1)
    BY <1>1, <1>3 DEF Time
  <2>2. x + d = TickModulus * 1 + (x + d - TickModulus)
    BY <1>1
  <2> QED
    BY <1>1, <1>3, <2>1, <2>2
<1> QED
  BY <1>1, <1>2, <1>3

(* Time up to a tick: the clock reaches d ticks ahead at the next tick     *)
(* only if d is one, and otherwise is d - 1 ticks away from it then.       *)
LEMMA NextTick ==
    ASSUME NEW x \in Time, NEW d \in 1 .. (TickModulus - 1)
    PROVE  LET y == (x + 1) % TickModulus IN
           /\ y # x
           /\ y = (x + d) % TickModulus <=> d = 1
           /\ d > 1 => (y + (d - 1)) % TickModulus = (x + d) % TickModulus
<1> DEFINE y == (x + 1) % TickModulus
           z == (x + d) % TickModulus
<1>1. TickModulus \in Nat /\ TickModulus > 1 /\ x \in Nat /\ x < TickModulus
      /\ d \in Nat /\ d >= 1 /\ d < TickModulus
  BY SchedulerAssumption DEF Time
<1>2. 1 \in 1 .. (TickModulus - 1)
  BY <1>1
<1>3. /\ y = IF x + 1 < TickModulus THEN x + 1 ELSE x + 1 - TickModulus
      /\ z = IF x + d < TickModulus THEN x + d ELSE x + d - TickModulus
  BY <1>2, ClockWraps
<1> HIDE DEF y, z
<1>4. y # x /\ (y = z <=> d = 1)
  BY <1>1, <1>3
<1>5. y \in Time
  BY <1>1, <1>3 DEF Time
<1>6. ASSUME d > 1
      PROVE  (y + (d - 1)) % TickModulus = z
  <2>1. d - 1 \in 1 .. (TickModulus - 1)
    BY <1>1, <1>6
  <2>2. (y + (d - 1)) % TickModulus =
          IF y + (d - 1) < TickModulus THEN y + (d - 1) ELSE y + (d - 1) - TickModulus
    BY <1>5, <2>1, ClockWraps
  <2> QED
    BY <1>1, <1>3, <2>2
<1> QED
  BY <1>4, <1>6 DEF y, z

(* A tick counts the blocked delay of a task nobody pauses down by one and *)
(* readies the task when it was one.                                       *)
LEMMA TickCounts ==
    ASSUME SchedInv, SysTick_Handler, SameWaits(CountDown(k, 1), k'),
           NEW t \in Task, k.state[t] = "BLOCKED", k.delay_ticks[t] \in 1 .. (TickModulus - 1)
    PROVE  /\ k'.state[t] = "BLOCKED" <=> k.delay_ticks[t] # 1
           /\ k'.delay_ticks[t] = k.delay_ticks[t] - 1
<1>1. KernelTypeOK(k) /\ k.s_task_count = TASK_MAX
  BY DEF SchedInv, SchedCore, KernelInv, KernelCore
<1>2. Created(k) = Task /\ t \in Created(k) /\ 1 \in Nat
  BY <1>1 DEF Created, Task
<1>3. k.delay_ticks[t] \in Nat /\ k.delay_ticks[t] >= 1
  BY SchedulerAssumption
<1>4. t \in Expired(k, 1) <=> k.delay_ticks[t] = 1
  BY <1>2, <1>3 DEF Expired
<1>5. LET R == CountDown(k, 1) IN
      IF t \in Expired(k, 1)
      THEN R.state[t] = "READY" /\ R.delay_ticks[t] = 0
      ELSE /\ R.state[t] = k.state[t]
           /\ R.delay_ticks[t] = IF t \in Created(k) /\ k.state[t] = "BLOCKED" /\ k.delay_ticks[t] > 1
                                 THEN k.delay_ticks[t] - 1 ELSE k.delay_ticks[t]
  BY <1>1, <1>2, CountDownWaits
<1>6. /\ k'.delay_ticks = CountDown(k, 1).delay_ticks
      /\ k'.state[t] = "BLOCKED" <=> CountDown(k, 1).state[t] = "BLOCKED"
  BY DEF SameWaits, Thread
<1> QED
  BY <1>2, <1>3, <1>4, <1>5, <1>6

(* One step of the scheduler ends a delay exactly when DelayExact says,    *)
(* and leaves the remaining ones due when they were.                       *)
LEMMA DelayStep ==
    ASSUME SchedInv, DelayDue, [SchedNext]_schedVars
    PROVE  /\ DelayDue'
           /\ \A t \in Task \ Pausable :
                 InDelay(t) /\ k.state[t] = "BLOCKED" =>
                    (k'.state[t] # "BLOCKED" <=> s_ticks' = wakeAt[t] /\ s_ticks' # s_ticks)
<1>1. /\ SchedCore /\ s_ticks \in Time /\ pc \in [Task -> SchedLabel]
      /\ k.delay_ticks \in [Task -> Nat] /\ wakeAt \in [Task -> Time]
  BY DEF SchedInv, SchedCore, KernelInv, KernelCore, KernelTypeOK
<1>2. \/ /\ SysTick_Handler
         /\ SameWaits(CountDown(k, 1), k')
      \/ /\ s_ticks' = s_ticks
         /\ \A u \in Task \ Pausable :
               \/ WaitsKept(u)
               \/ \E ms \in Delay : sched_delay_ms(u, ms) /\ k' = DelayLocked(k, u, ms)
  <2>1. SchedTriggers \subseteq SchedTriggers /\ "user" \notin SchedTriggers
        /\ "delay_wait" \notin SchedTriggers
    BY DEF SchedTriggers
  <2> QED
    BY <2>1, SchedSteps DEF SchedInv
<1>3. CASE SysTick_Handler /\ SameWaits(CountDown(k, 1), k')
  <2>1. pc' = pc /\ wakeAt' = wakeAt /\ s_ticks' = (s_ticks + 1) % TickModulus
    BY <1>3 DEF SysTick_Handler, Tick
  <2>2. \A t \in Task : k'.state[t] = "BLOCKED" => k.state[t] = "BLOCKED"
    <3>1. LET R == CountDown(k, 1) IN
          \A t \in Task : R.state[t] = "READY" \/ R.state[t] = k.state[t]
      BY <1>1, CountDownWaits DEF SchedCore, KernelInv, KernelCore
    <3>2. \A t \in Task : k'.state[t] = "BLOCKED" <=> CountDown(k, 1).state[t] = "BLOCKED"
      BY <1>3 DEF SameWaits, Thread
    <3> QED
      BY <3>1, <3>2
  <2> SUFFICES ASSUME NEW t \in Task \ Pausable, InDelay(t), k.state[t] = "BLOCKED"
               PROVE  /\ k'.state[t] # "BLOCKED" <=> s_ticks' = wakeAt[t] /\ s_ticks' # s_ticks
                      /\ k'.state[t] = "BLOCKED" =>
                            /\ k'.delay_ticks[t] \in 1 .. (TickModulus - 1)
                            /\ wakeAt[t] = (s_ticks' + k'.delay_ticks[t]) % TickModulus
    BY <2>1, <2>2 DEF DelayDue, InDelay
  <2>3. /\ k.delay_ticks[t] \in 1 .. (TickModulus - 1)
        /\ wakeAt[t] = (s_ticks + k.delay_ticks[t]) % TickModulus
    BY DEF DelayDue
  <2>4. /\ k'.state[t] = "BLOCKED" <=> k.delay_ticks[t] # 1
        /\ k'.delay_ticks[t] = k.delay_ticks[t] - 1
    BY <1>3, <2>3, TickCounts
  <2>5. /\ s_ticks' # s_ticks
        /\ s_ticks' = wakeAt[t] <=> k.delay_ticks[t] = 1
        /\ k.delay_ticks[t] > 1 =>
              (s_ticks' + (k.delay_ticks[t] - 1)) % TickModulus = wakeAt[t]
    BY <1>1, <2>1, <2>3, NextTick
  <2>6. k.delay_ticks[t] # 1 => k.delay_ticks[t] - 1 \in 1 .. (TickModulus - 1)
    BY <2>3, SchedulerAssumption
  <2>7. k.delay_ticks[t] # 1 => k.delay_ticks[t] > 1
    BY <2>3, SchedulerAssumption
  <2> QED
    BY <2>4, <2>5, <2>6, <2>7
<1>4. CASE /\ s_ticks' = s_ticks
           /\ \A u \in Task \ Pausable :
                 \/ WaitsKept(u)
                 \/ \E ms \in Delay : sched_delay_ms(u, ms) /\ k' = DelayLocked(k, u, ms)
  <2> SUFFICES ASSUME NEW t \in Task \ Pausable
               PROVE  /\ InDelay(t) /\ k.state[t] = "BLOCKED" => k'.state[t] = "BLOCKED"
                      /\ InDelay(t)' /\ k'.state[t] = "BLOCKED" =>
                            /\ k'.delay_ticks[t] \in 1 .. (TickModulus - 1)
                            /\ wakeAt'[t] = (s_ticks + k'.delay_ticks[t]) % TickModulus
    BY <1>4 DEF DelayDue
  <2>1. CASE \E ms \in Delay : sched_delay_ms(t, ms) /\ k' = DelayLocked(k, t, ms)
    <3>1. PICK ms \in Delay : sched_delay_ms(t, ms) /\ k' = DelayLocked(k, t, ms)
      BY <2>1
    <3>2. ms \in 1 .. (TickModulus - 1) /\ ms \in Nat
      BY SchedulerAssumption
    <3>3. pc[t] = "user" /\ k.g_current_task = t
          /\ wakeAt' = [wakeAt EXCEPT ![t] = (s_ticks + ms) % TickModulus]
      BY <3>1 DEF sched_delay_ms, Runs
    <3>4. k'.delay_ticks = [k.delay_ticks EXCEPT ![t] = ms]
      BY <1>1, <3>1, <3>2, <3>3, DelayDecides DEF SchedCore
    <3>5. k'.delay_ticks[t] = ms /\ wakeAt'[t] = (s_ticks + ms) % TickModulus
      BY <1>1, <3>3, <3>4
    <3> QED
      BY <3>2, <3>3, <3>5 DEF InDelay
  <2>2. CASE WaitsKept(t)
    <3>1. InDelay(t)' /\ k'.state[t] = "BLOCKED" => InDelay(t) /\ wakeAt'[t] = wakeAt[t]
      <4>1. ASSUME InDelay(t)', ~InDelay(t)
            PROVE  FALSE
        <5>1. \E ms \in Delay : sched_delay_ms(t, ms)
          BY <1>1, <4>1
          DEF InDelay, SchedNext, SchedStep, SchedCall, DelayTrigger, DelayReturn, SwitchTrigger,
              sched_delay_ms, sched_yield, sched_block, sched_task_pause, sched_task_resume,
              SysTick_Handler, PendSV, Goto, schedVars
        <5>2. PICK ms \in Delay : sched_delay_ms(t, ms)
          BY <5>1
        <5>3. ms \in Nat /\ ms # 0
          BY SchedulerAssumption
        <5>4. k' = DelayLocked(k, t, ms) /\ k.g_current_task = t /\ Runs(t) /\ pc[t] = "user"
          BY <5>2 DEF sched_delay_ms, Runs
        <5>5. k'.state[t] = "BLOCKED"
          BY <1>1, <5>2, DelayBlocks DEF SchedCore
        <5>6. k.state[t] # "BLOCKED"
          BY <5>4, RunnerIsNext DEF SchedInv, SchedCore, SchedTriggers
        <5> QED
          BY <2>2, <5>5, <5>6 DEF WaitsKept
      <4> QED
        BY <2>2, <4>1 DEF WaitsKept, InDelay
    <3> QED
      BY <2>2, <3>1 DEF WaitsKept, DelayDue
  <2> QED
    BY <1>4, <2>1, <2>2
<1> QED
  BY <1>2, <1>3, <1>4

(* sched_delay_ms readies its caller at the tick it asked for, neither     *)
(* earlier nor later, for every delay that uint32_t holds, whatever the    *)
(* other tasks do and however often the clock wraps.                       *)
THEOREM SchedulerDelayExact == SchedSpec => DelayExact
<1>1. SchedInit => DelayDue
  BY DEF SchedInit, DelayDue, InDelay
<1>2. SchedInv /\ DelayDue /\ [SchedNext]_schedVars => DelayDue'
  BY DelayStep
<1>3. SchedInv /\ DelayDue /\ [SchedNext]_schedVars =>
        [\A t \in Task \ Pausable :
            InDelay(t) /\ k.state[t] = "BLOCKED" =>
               (k'.state[t] # "BLOCKED" <=> s_ticks' = wakeAt[t] /\ s_ticks' # s_ticks)]_schedVars
  BY DelayStep
<1> QED
  BY SchedulerInvariant, <1>1, <1>2, <1>3, PTL DEF SchedSpec, DelayExact
-----------------------------------------------------------------------------
(* While nobody is paused the committed thread is RUNNING, and a step of   *)
(* the scheduler makes no task late.                                       *)
NextRuns == NobodyPaused(k) /\ k.state[k.g_next_task] = "RUNNING"

(* sched_start marks the task it starts as RUNNING.                        *)
LEMMA InitRuns ==
    ASSUME SchedInit
    PROVE  NextRuns
<1>1. PICK p \in [Task -> Priority] : k = Started(TASK_MAX, p)
  BY SchedulerAssumption DEF SchedInit
<1> DEFINE Z == [sched_init EXCEPT !.s_task_count = TASK_MAX, !.priority = p]
           c == sched_select_next(Z)
<1>2. /\ Z.state = [t \in Thread |-> "READY"] /\ Z.late = {}
      /\ k = [Z EXCEPT !.g_current_task = c, !.g_next_task = c, !.state[c] = "RUNNING"]
  BY <1>1 DEF Started, StartRunning, StartNext, StartCurrent, sched_init
<1>3. k.g_next_task \in Thread
  BY InitCore DEF SchedInv, SchedCore, KernelInv, KernelCore, HasThreads
<1> HIDE DEF c
<1>4. k.g_next_task = c /\ k.state = [Z.state EXCEPT ![c] = "RUNNING"]
  BY <1>2 DEF sched_init
<1> HIDE DEF Z
<1> QED
  BY <1>2, <1>3, <1>4 DEF NextRuns, NobodyPaused

(* When no task is paused the committed task is RUNNING in every state,    *)
(* and no step adds a task to late.                                        *)
LEMMA SchedRuns ==
    ASSUME SchedCore, NEW triggers, "user" \notin triggers, SwitchAt(triggers),
           Pausable = {}, NextRuns, [SchedNext]_schedVars
    PROVE  NextRuns' /\ k'.late \subseteq k.late
<1>1. KernelInv(k) /\ KernelCore(k) /\ KernelTypeOK(k) /\ NobodyPaused(k) /\ Task \subseteq Thread
  BY DEF SchedCore, KernelInv, KernelCore, NextRuns, Thread
<1>2. ASSUME Decided(k')
      PROVE  NextRuns' /\ k'.late \subseteq k.late
  BY <1>2 DEF Decided, NextRuns
<1>3. ASSUME k'.state = k.state, k'.g_next_task = k.g_next_task, k'.late = k.late
      PROVE  NextRuns' /\ k'.late \subseteq k.late
  BY <1>3 DEF NextRuns, NobodyPaused
<1>4. ASSUME NEW t \in Task, NEW ms \in Delay, sched_delay_ms(t, ms)
      PROVE  Decided(k')
  <2> DEFINE B == [k EXCEPT !.delay_ticks[t] = ms, !.state[t] = "BLOCKED"]
  <2>1. ms \in Nat /\ k.g_current_task = t /\ k' = sched_commit_next(B)
    BY <1>4, SchedulerAssumption DEF sched_delay_ms, Runs, DelayLocked
  <2>2. /\ KernelTypeOK(B) /\ B.state = [k.state EXCEPT ![t] = "BLOCKED"]
        /\ B.g_current_task = k.g_current_task /\ B.g_next_task = k.g_next_task
    BY <1>1, <2>1 DEF KernelTypeOK, TaskState, Thread
  <2> HIDE DEF B
  <2>3. \A u \in Thread : B.state[u] = IF u = t THEN "BLOCKED" ELSE k.state[u]
    BY <1>1, <2>2 DEF KernelTypeOK
  <2>4. KernelCore(B) /\ B.state[B.g_current_task] # "RUNNING" /\ NobodyPaused(B)
    BY <1>1, <2>1, <2>2, <2>3, KernelAssumption
    DEF KernelCore, HasThreads, OnlyNext, IdleAlive, Thread, Task, NobodyPaused
  <2> QED
    BY <2>1, <2>4, CommitDecided
<1>5. ASSUME NEW t \in Task, sched_yield(t)
      PROVE  Decided(k')
  <2> DEFINE B == [k EXCEPT !.state[t] = "READY"]
  <2>1. k.g_current_task = t /\ k' = sched_commit_next(B) /\ Runs(t) /\ pc[t] = "user"
    BY <1>5 DEF sched_yield, Runs, YieldLocked
  <2>2. /\ KernelTypeOK(B) /\ B.state = [k.state EXCEPT ![t] = "READY"]
        /\ B.g_current_task = k.g_current_task /\ B.g_next_task = k.g_next_task
    BY <1>1, <2>1 DEF KernelTypeOK, TaskState, Thread
  <2> HIDE DEF B
  <2>3. \A u \in Thread : B.state[u] = IF u = t THEN "READY" ELSE k.state[u]
    BY <1>1, <2>2 DEF KernelTypeOK
  <2>4. KernelCore(B) /\ B.state[B.g_current_task] # "RUNNING" /\ NobodyPaused(B)
    BY <1>1, <2>1, <2>2, <2>3, KernelAssumption
    DEF KernelCore, HasThreads, OnlyNext, IdleAlive, Thread, Task, NobodyPaused
  <2> QED
    BY <2>1, <2>4, CommitDecided
<1>6. ASSUME NEW t \in Task, sched_block(t)
      PROVE  Decided(k')
  BY <1>1, <1>6, PickDecided DEF sched_block
<1>7. ASSUME NEW t \in Task, DelayTrigger(t) \/ SwitchTrigger(t)
      PROVE  k'.state = k.state /\ k'.g_next_task = k.g_next_task /\ k'.late = k.late
  BY <1>1, <1>7 DEF DelayTrigger, SwitchTrigger, trigger_pendsv, KernelTypeOK
<1>8. ASSUME NEW t \in Task, DelayReturn(t)
      PROVE  k' = k
  BY <1>8 DEF DelayReturn
<1>9. ASSUME NEW t \in Task, NEW i \in Task, sched_task_pause(t, i) \/ sched_task_resume(t, i)
      PROVE  FALSE
  BY <1>9 DEF sched_task_pause, sched_task_resume
<1>10. ASSUME SysTick_Handler
       PROVE  Decided(k')
  BY <1>1, <1>10, TickDecided DEF SysTick_Handler
<1>11. ASSUME PendSV
       PROVE  k'.state = k.state /\ k'.g_next_task = k.g_next_task /\ k'.late = k.late
  BY <1>1, <1>11 DEF PendSV, PendSV_Handler, KernelTypeOK
<1>12. CASE UNCHANGED schedVars
  BY <1>3, <1>12 DEF schedVars
<1>13. CASE SchedNext
  BY <1>2, <1>3, <1>4, <1>5, <1>6, <1>7, <1>8, <1>9, <1>10, <1>11, <1>13
  DEF SchedNext, SchedStep, SchedCall
<1> QED
  BY <1>12, <1>13
=============================================================================
