--------------------------- MODULE PlatformProofs ---------------------------
(***************************************************************************)
(* What surrounds the running kernel: start-up, from main to the first     *)
(* task, for any number of tasks; the fault record and the watchdog, for   *)
(* any number of faults, resets and cache evictions, in any order, and     *)
(* every timeout iwdg_init accepts; and the deadline, jitter and stack     *)
(* monitors, for any number of monitors, samples and tasks.                *)
(***************************************************************************)
EXTENDS Boot, Fault, Monitor, KernelProofs

-----------------------------------------------------------------------------
(* Start-up.                                                               *)

(* The tasks sched_select_next can choose once nobody has blocked.         *)
Startable(K) == {t \in Created(K) : K.priority[t] < NoPriority}

(* c is the one that every decision of sched_start chooses.                *)
Top(K, c) ==
    IF Startable(K) = {} THEN c = IdleTask
    ELSE c \in Startable(K) /\ \A u \in Startable(K) : u # c => K.priority[c] < K.priority[u]

(* No two tasks of an application share a priority; those of priority 255  *)
(* are never chosen and may.                                               *)
DistinctPriorities ==
    \A p \in Plan : \A i, j \in Task : p[i] = p[j] /\ p[i] < NoPriority => i = j

(* main creates tasks; no decision has been taken.                         *)
Fresh ==
    /\ k.g_current_task = NULL /\ k.g_next_task = NULL /\ ~k.pendsv /\ cpu = Main
    /\ \A t \in Thread : k.state[t] = "READY"

(* A tick has chosen the first task before sched_start could, and PendSV   *)
(* is about to take the CPU from main without saving it.                   *)
Overtaken ==
    /\ k.g_current_task = NULL /\ k.pendsv /\ cpu = Main
    /\ k.g_next_task \in Thread /\ OnlyNext(k)
    /\ Top(k, k.g_next_task)

(* sched_start has chosen: ticks confirm its choice and trigger nothing.   *)
Chosen ==
    /\ k.g_current_task \in Thread /\ Top(k, k.g_current_task) /\ ~k.pendsv
    /\ k.g_next_task = k.g_current_task \/ (at = "next" /\ k.g_next_task = NULL)
    /\ \A t \in Thread : k.state[t] = "RUNNING" => t = k.g_current_task
    /\ cpu = IF at = "gone" THEN k.g_current_task ELSE Main

(* The inductive invariant.                                                *)
BootInv ==
    /\ KernelTypeOK(k) /\ plan \in Plan
    /\ frame = [t \in Thread |-> t]
    /\ \A t \in Thread : k.state[t] \in {"READY", "RUNNING"}
    /\ \A t \in Created(k) : k.priority[t] = plan[t]
    /\ at \in {"create", "current", "next", "running", "svc", "gone"}
    /\ s_started <=> at # "create"
    /\ at = "create" => Fresh
    /\ at = "current" => Fresh \/ Overtaken
    /\ at \notin {"create", "current"} => Chosen
-----------------------------------------------------------------------------
(* With everybody ready, the decision is the one Top names.                *)
LEMMA TopChosen ==
    ASSUME NEW K, KernelTypeOK(K), \A t \in Thread : K.state[t] = "READY", NEW c, Top(K, c)
    PROVE  sched_select_next(K) = c
<1>1. Ready(K) = Startable(K)
  BY CreatedTasks DEF Ready, Startable, Thread
<1>2. \A t \in Startable(K) : K.priority[t] \in Nat
  <2>1. K.priority \in [Task -> Priority] /\ Startable(K) \subseteq Task
    BY CreatedTasks DEF Startable, KernelTypeOK
  <2> QED BY <2>1 DEF Priority
<1>3. CASE Startable(K) = {}
  BY <1>1, <1>3, SelectNext DEF Top
<1>4. CASE Startable(K) # {}
  <2>1. sched_select_next(K) \in Best(K)
    BY <1>1, <1>4, SelectNext
  <2>2. \A t \in Best(K) : t = c
    BY <1>1, <1>2, <1>4 DEF Top, Best
  <2> QED BY <2>1, <2>2
<1> QED BY <1>3, <1>4

(* With different priorities there is such a choice.                       *)
LEMMA TopExists ==
    ASSUME NEW K, KernelTypeOK(K), \A t \in Thread : K.state[t] = "READY",
           \A t, u \in Startable(K) : K.priority[t] = K.priority[u] => t = u
    PROVE  Top(K, sched_select_next(K)) /\ sched_select_next(K) \in Thread
<1>1. Ready(K) = Startable(K) /\ Startable(K) \subseteq Thread
  BY CreatedTasks DEF Ready, Startable, Thread
<1>2. \A t \in Startable(K) : K.priority[t] \in Nat
  <2>1. K.priority \in [Task -> Priority] /\ Startable(K) \subseteq Task
    BY CreatedTasks DEF Startable, KernelTypeOK
  <2> QED BY <2>1 DEF Priority
<1>3. CASE Startable(K) = {}
  BY <1>1, <1>3, SelectNext DEF Top, Thread
<1>4. CASE Startable(K) # {}
  <2>1. sched_select_next(K) \in Best(K)
    BY <1>1, <1>4, SelectNext
  <2> DEFINE c == sched_select_next(K)
  <2>2. c \in Startable(K) /\ \A u \in Startable(K) : K.priority[c] <= K.priority[u]
    BY <1>1, <2>1 DEF Best
  <2> HIDE DEF c
  <2>3. \A u \in Startable(K) : u # c => K.priority[c] < K.priority[u]
    BY <1>2, <2>2
  <2>4. Top(K, c) /\ c \in Thread
    BY <1>1, <1>4, <2>2, <2>3 DEF Top
  <2> QED BY <2>4 DEF c
<1> QED BY <1>3, <1>4

(* What a tick makes of a kernel that has no other task to choose.         *)
Ticked(K, c, R) ==
    /\ KernelTypeOK(R)
    /\ R.s_task_count = K.s_task_count /\ R.priority = K.priority
    /\ R.g_current_task = K.g_current_task /\ R.g_next_task = c
    /\ R.pendsv <=> K.pendsv \/ c # K.g_current_task
    /\ \A t \in Thread : R.state[t] = IF t = c THEN "RUNNING" ELSE "READY"

(* A tick during start-up: nobody is blocked, at most the current task is  *)
(* RUNNING, and the choice is c.                                           *)
LEMMA StartTick ==
    ASSUME NEW K, KernelTypeOK(K), NEW c \in Thread, Top(K, c),
           \A t \in Thread : K.state[t] = "READY" \/ (K.state[t] = "RUNNING" /\ t = K.g_current_task),
           K.g_next_task \in {NULL, K.g_current_task}
    PROVE  Ticked(K, c, sched_tick_n(K, 1))
<1> DEFINE C == CountDown(K, 1)
           P == Preempt(C)
           U == Uncommit(P)
           D == Commit(U, c)
<1>1. /\ KernelTypeOK(C)
      /\ C.g_current_task = K.g_current_task /\ C.g_next_task = K.g_next_task /\ C.pendsv = K.pendsv
      /\ \A t \in Thread : C.state[t] = K.state[t]
  BY CountDownReadies
<1>2. C.s_task_count = K.s_task_count /\ C.priority = K.priority
  BY CountDownWaits
<1> HIDE DEF C
<1>3. NULL \notin Thread
  BY KernelAssumption
<1>4. /\ KernelTypeOK(P)
      /\ P.s_task_count = K.s_task_count /\ P.priority = K.priority
      /\ P.g_current_task = K.g_current_task /\ P.g_next_task = K.g_next_task /\ P.pendsv = K.pendsv
      /\ \A t \in Thread : P.state[t] = "READY"
  <2>1. CASE C.g_current_task # NULL /\ C.state[C.g_current_task] = "RUNNING"
    <3>1. P = [C EXCEPT !.state[C.g_current_task] = "READY"] /\ C.g_current_task \in Thread
      BY <2>1, <1>1 DEF Preempt, KernelTypeOK
    <3>2. KernelTypeOK(P)
      <4> DEFINE st == [C.state EXCEPT ![C.g_current_task] = "READY"]
      <4>1. st \in [Thread -> TaskState]
        BY <1>1 DEF KernelTypeOK, TaskState
      <4>2. P = [C EXCEPT !.state = st]
        BY <3>1, <1>1 DEF KernelTypeOK
      <4> HIDE DEF st, P
      <4> QED BY <4>1, <4>2, <1>1 DEF KernelTypeOK
    <3>3. /\ P.s_task_count = C.s_task_count /\ P.priority = C.priority
          /\ P.g_current_task = C.g_current_task /\ P.g_next_task = C.g_next_task
          /\ P.pendsv = C.pendsv /\ P.state = [C.state EXCEPT ![C.g_current_task] = "READY"]
      BY <3>1, <1>1 DEF KernelTypeOK
    <3>4. C.state \in [Thread -> TaskState]
      BY <1>1 DEF KernelTypeOK
    <3> HIDE DEF P
    <3> QED BY <3>1, <3>2, <3>3, <3>4, <1>1, <1>2
  <2>2. CASE ~(C.g_current_task # NULL /\ C.state[C.g_current_task] = "RUNNING")
    <3>1. P = C
      BY <2>2 DEF Preempt
    <3> QED BY <3>1, <2>2, <1>1, <1>2, <1>3
  <2> QED BY <2>1, <2>2
<1> HIDE DEF P
<1>5. U = P
  BY <1>4 DEF Uncommit
<1>6. Top(P, c)
  BY <1>4 DEF Top, Startable, Created
<1>7. sched_select_next(U) = c
  BY <1>4, <1>5, <1>6, TopChosen
<1>8. D = sched_commit_next(P)
  BY <1>7 DEF sched_commit_next
<1>9. /\ KernelTypeOK(D)
      /\ D.s_task_count = K.s_task_count /\ D.priority = K.priority
      /\ D.g_current_task = K.g_current_task /\ D.g_next_task = c /\ D.pendsv = K.pendsv
      /\ \A t \in Thread : D.state[t] = IF t = c THEN "RUNNING" ELSE "READY"
  <2> DEFINE st == [P.state EXCEPT ![c] = "RUNNING"]
  <2>1. P.state \in [Thread -> TaskState] /\ P.state[c] = "READY"
    BY <1>4 DEF KernelTypeOK
  <2>2. st \in [Thread -> TaskState] /\ \A t \in Thread : st[t] = IF t = c THEN "RUNNING" ELSE P.state[t]
    BY <2>1 DEF TaskState
  <2>3. D = [P EXCEPT !.g_next_task = c, !.state = st, !.late = {}]
    BY <1>4, <1>5, <2>1 DEF Commit, KernelTypeOK
  <2> HIDE DEF D, st
  <2>4. /\ KernelTypeOK(D) /\ D.state = st
        /\ D.s_task_count = P.s_task_count /\ D.priority = P.priority
        /\ D.g_current_task = P.g_current_task /\ D.g_next_task = c /\ D.pendsv = P.pendsv
    BY <1>4, <2>2, <2>3 DEF KernelTypeOK
  <2> QED BY <1>4, <2>2, <2>4
<1> HIDE DEF D
<1>10. Ticked(K, c, TriggerIfSwitch(D))
  BY <1>9 DEF Ticked, TriggerIfSwitch, trigger_pendsv, KernelTypeOK
<1> QED BY <1>8, <1>10 DEF sched_tick_n, C, P

(* What holds at first.                                                    *)
LEMMA BootInitInv == BootInit => BootInv
<1> SUFFICES ASSUME BootInit PROVE BootInv
  OBVIOUS
<1>1. \A h : << >> \in Seq(Task)
  OBVIOUS
<1>2. KernelTypeOK(k)
  BY <1>1, KernelAssumption DEF BootInit, sched_init, KernelTypeOK, TaskState, Priority, NoPriority
<1>3. Created(k) = {}
  BY DEF BootInit, sched_init, Created
<1>4. Fresh
  BY DEF BootInit, sched_init, Fresh
<1> QED BY <1>2, <1>3, <1>4 DEF BootInit, sched_init, BootInv

(* The tasks created have the priorities main gave them.                   *)
LEMMA PlanDistinct ==
    ASSUME BootInv, DistinctPriorities
    PROVE  \A t, u \in Startable(k) : k.priority[t] = k.priority[u] => t = u
<1>1. Startable(k) \subseteq Task /\ Startable(k) \subseteq Created(k)
  BY CreatedTasks DEF BootInv, Startable
<1>2. \A t \in Startable(k) : k.priority[t] = plan[t] /\ plan[t] < NoPriority
  BY <1>1 DEF BootInv, Startable
<1> QED BY <1>1, <1>2 DEF BootInv, DistinctPriorities

(* main creates a task before it starts the scheduler.                     *)
LEMMA CreateBoot == BootInv /\ sched_task_create => BootInv'
<1> SUFFICES ASSUME BootInv, sched_task_create PROVE BootInv'
  OBVIOUS
<1> DEFINE n == k.s_task_count
<1>1. /\ k' = CreateLocked(k, plan[n]) /\ at = "create" /\ Fresh /\ n \in Nat /\ n < TASK_MAX
      /\ s_started' = s_started /\ cpu' = cpu /\ at' = at /\ frame' = frame /\ plan' = plan
      /\ n \in Task /\ n \in Thread /\ plan[n] \in Priority
  BY KernelAssumption, BootAssumption DEF sched_task_create, BootInv, KernelTypeOK, Task, Thread
<1>2. /\ k'.s_task_count = n + 1
      /\ k'.g_current_task = k.g_current_task /\ k'.g_next_task = k.g_next_task /\ k'.pendsv = k.pendsv
      /\ k'.state = [k.state EXCEPT ![n] = "READY"]
      /\ k'.priority = [k.priority EXCEPT ![n] = plan[n]]
  BY <1>1 DEF CreateLocked, BootInv, KernelTypeOK
<1>3. KernelTypeOK(k')
  <2>1. n + 1 \in 0 .. TASK_MAX
    BY <1>1, KernelAssumption
  <2> QED BY <2>1, <1>1 DEF CreateLocked, BootInv, KernelTypeOK, TaskState
<1>4. \A t \in Thread : k'.state[t] = "READY"
  BY <1>1, <1>2 DEF Fresh, BootInv, KernelTypeOK
<1>5. \A t \in Created(k') : k'.priority[t] = plan'[t]
  <2>1. \A t \in Created(k') : t \in Task /\ (t \in Created(k) \/ t = n)
    BY <1>1, <1>2, KernelAssumption DEF Created, Task
  <2>2. k.priority \in [Task -> Priority]
    BY DEF BootInv, KernelTypeOK
  <2> QED BY <1>1, <1>2, <2>1, <2>2 DEF BootInv
<1>6. Fresh'
  BY <1>1, <1>2, <1>4 DEF Fresh
<1> QED BY <1>1, <1>3, <1>4, <1>5, <1>6 DEF BootInv

(* s_started = 1.                                                          *)
LEMMA FlagBoot == BootInv /\ StartFlag => BootInv'
<1> SUFFICES ASSUME BootInv, StartFlag PROVE BootInv'
  OBVIOUS
<1>1. /\ at = "create" /\ Fresh /\ s_started' = TRUE /\ at' = "current"
      /\ k' = k /\ cpu' = cpu /\ frame' = frame /\ plan' = plan
  BY DEF StartFlag, BootInv
<1>2. Fresh'
  BY <1>1 DEF Fresh
<1> QED BY <1>1, <1>2 DEF BootInv, Created

(* The assignments of sched_start, each between ticks.                     *)
LEMMA StartBoot == DistinctPriorities /\ BootInv /\ sched_start => BootInv'
<1> SUFFICES ASSUME DistinctPriorities, BootInv, sched_start PROVE BootInv'
  OBVIOUS
<1>1. /\ cpu = Main /\ ~k.pendsv /\ KernelTypeOK(k)
      /\ s_started' = s_started /\ cpu' = cpu /\ frame' = frame /\ plan' = plan
  BY DEF sched_start, MainRuns, BootInv
<1>2. CASE at = "current" /\ k' = StartCurrent(k) /\ at' = "next"
  <2>1. Fresh
    BY <1>1, <1>2 DEF BootInv, Overtaken
  <2> DEFINE c == sched_select_next(k)
  <2>2. Top(k, c) /\ c \in Thread
    BY <1>1, <2>1, PlanDistinct, TopExists DEF Fresh
  <2> HIDE DEF c
  <2>3. k' = [k EXCEPT !.g_current_task = c]
    BY <1>2 DEF StartCurrent, c
  <2>4. /\ KernelTypeOK(k') /\ k'.state = k.state /\ k'.priority = k.priority
        /\ k'.s_task_count = k.s_task_count /\ k'.g_current_task = c
        /\ k'.g_next_task = k.g_next_task /\ k'.pendsv = k.pendsv
    BY <1>1, <2>2, <2>3 DEF KernelTypeOK
  <2>5. Top(k', c) /\ Created(k') = Created(k)
    BY <2>2, <2>4 DEF Top, Startable, Created
  <2>6. Chosen'
    BY <1>1, <1>2, <2>1, <2>2, <2>4, <2>5 DEF Chosen, Fresh
  <2> QED BY <1>1, <1>2, <2>1, <2>4, <2>5, <2>6 DEF BootInv, Fresh
<1>3. CASE at = "next" /\ k' = StartNext(k) /\ at' = "running"
  <2> DEFINE c == k.g_current_task
  <2>1. Chosen /\ c \in Thread
    BY <1>3 DEF BootInv, Chosen
  <2>2. k' = [k EXCEPT !.g_next_task = c]
    BY <1>3 DEF StartNext
  <2>4. /\ KernelTypeOK(k') /\ k'.state = k.state /\ k'.priority = k.priority
        /\ k'.s_task_count = k.s_task_count /\ k'.g_current_task = c
        /\ k'.g_next_task = c /\ k'.pendsv = k.pendsv
    BY <1>1, <2>1, <2>2 DEF KernelTypeOK
  <2>5. Top(k', c) /\ Created(k') = Created(k)
    BY <2>1, <2>4 DEF Chosen, Top, Startable, Created
  <2>6. Chosen'
    BY <1>1, <1>3, <2>1, <2>4, <2>5 DEF Chosen
  <2> QED BY <1>1, <1>3, <2>4, <2>5, <2>6 DEF BootInv
<1>4. CASE at = "running" /\ k' = StartRunning(k) /\ at' = "svc"
  <2> DEFINE c == k.g_current_task
  <2>1. Chosen /\ c \in Thread
    BY <1>4 DEF BootInv, Chosen
  <2>2. k' = [k EXCEPT !.state[c] = "RUNNING"]
    BY <1>4 DEF StartRunning
  <2>4. /\ KernelTypeOK(k') /\ k'.state = [k.state EXCEPT ![c] = "RUNNING"] /\ k'.priority = k.priority
        /\ k'.s_task_count = k.s_task_count /\ k'.g_current_task = c
        /\ k'.g_next_task = k.g_next_task /\ k'.pendsv = k.pendsv
    BY <1>1, <2>1, <2>2 DEF KernelTypeOK, TaskState
  <2>5. Top(k', c) /\ Created(k') = Created(k)
    BY <2>1, <2>4 DEF Chosen, Top, Startable, Created
  <2>6. \A t \in Thread : k'.state[t] = IF t = c THEN "RUNNING" ELSE k.state[t]
    BY <1>1, <2>4 DEF KernelTypeOK
  <2>7. Chosen'
    BY <1>1, <1>4, <2>1, <2>4, <2>5, <2>6 DEF Chosen
  <2> QED BY <1>1, <1>4, <2>4, <2>5, <2>6, <2>7 DEF BootInv
<1> QED BY <1>2, <1>3, <1>4 DEF sched_start

(* SVC_Handler starts the task that both pointers name.                    *)
LEMMA SvcBoot == BootInv /\ SVC_Handler => BootInv'
<1> SUFFICES ASSUME BootInv, SVC_Handler PROVE BootInv'
  OBVIOUS
<1>1. /\ at = "svc" /\ Chosen /\ at' = "gone" /\ cpu' = frame[k.g_current_task]
      /\ k' = k /\ s_started' = s_started /\ frame' = frame /\ plan' = plan
  BY DEF SVC_Handler, BootInv
<1>2. cpu' = k.g_current_task
  BY <1>1 DEF BootInv, Chosen
<1>3. Chosen'
  BY <1>1, <1>2 DEF Chosen
<1> QED BY <1>1, <1>3 DEF BootInv

(* A tick, before, between or after the assignments.                       *)
LEMMA TickBoot == DistinctPriorities /\ BootInv /\ SysTick_Handler => BootInv'
<1> SUFFICES ASSUME DistinctPriorities, BootInv, SysTick_Handler PROVE BootInv'
  OBVIOUS
<1>1. /\ k' = sched_tick_n(k, 1) /\ ~k.pendsv /\ at # "create" /\ KernelTypeOK(k)
      /\ s_started' = s_started /\ cpu' = cpu /\ at' = at /\ frame' = frame /\ plan' = plan
  BY DEF SysTick_Handler, BootInv
<1>0. NULL \notin Thread
  BY KernelAssumption
<1>2. ASSUME NEW c \in Thread, Ticked(k, c, k')
      PROVE  /\ KernelTypeOK(k') /\ \A t \in Thread : k'.state[t] \in {"READY", "RUNNING"}
             /\ \A t \in Created(k') : k'.priority[t] = plan'[t]
             /\ Top(k, c) => Top(k', c)
  BY <1>1, <1>2 DEF Ticked, BootInv, Created, Top, Startable
<1>3. CASE at = "current"
  <2>1. Fresh
    BY <1>1, <1>3 DEF BootInv, Overtaken
  <2> DEFINE c == sched_select_next(k)
  <2>2. Top(k, c) /\ c \in Thread
    BY <1>1, <2>1, PlanDistinct, TopExists DEF Fresh
  <2> HIDE DEF c
  <2>3. Ticked(k, c, k')
    BY <1>1, <2>1, <2>2, StartTick DEF Fresh
  <2>4. Overtaken'
    BY <1>0, <1>1, <1>2, <2>1, <2>2, <2>3 DEF Overtaken, Ticked, Fresh, OnlyNext
  <2> QED BY <1>1, <1>2, <1>3, <2>2, <2>3, <2>4 DEF BootInv
<1>4. CASE at # "current"
  <2> DEFINE c == k.g_current_task
  <2>1. Chosen /\ c \in Thread /\ Top(k, c)
    BY <1>1, <1>4 DEF BootInv, Chosen
  <2>2. /\ \A t \in Thread : k.state[t] = "READY" \/ (k.state[t] = "RUNNING" /\ t = k.g_current_task)
        /\ k.g_next_task \in {NULL, k.g_current_task}
    BY <2>1 DEF BootInv, Chosen
  <2>3. Ticked(k, c, k')
    BY <1>1, <2>1, <2>2, StartTick
  <2>4. Chosen'
    BY <1>1, <1>2, <2>1, <2>3 DEF Chosen, Ticked
  <2> QED BY <1>1, <1>2, <1>4, <2>1, <2>3, <2>4 DEF BootInv
<1> QED BY <1>3, <1>4

(* PendSV strikes main only while there is no task to save it into.        *)
LEMMA PendSVBoot == BootInv /\ PendSV => BootInv'
<1> SUFFICES ASSUME BootInv, PendSV PROVE BootInv'
  OBVIOUS
<1>1. at = "current" /\ Overtaken /\ KernelTypeOK(k)
  BY DEF PendSV, BootInv, Fresh, Chosen
<1> DEFINE c == k.g_next_task
<1>2. /\ frame' = frame /\ cpu' = frame[c] /\ k' = PendSV_Handler(k) /\ at' = "gone"
      /\ s_started' = s_started /\ plan' = plan
  BY <1>1 DEF PendSV, SavedFrame, Overtaken
<1>3. cpu' = c /\ c \in Thread
  BY <1>1, <1>2 DEF BootInv, Overtaken
<1>4. /\ KernelTypeOK(k') /\ k'.state = k.state /\ k'.priority = k.priority
      /\ k'.s_task_count = k.s_task_count /\ k'.g_current_task = c
      /\ k'.g_next_task = c /\ ~k'.pendsv
  BY <1>1, <1>2, <1>3 DEF PendSV_Handler, KernelTypeOK
<1>5. Top(k', c) /\ Created(k') = Created(k)
  BY <1>1, <1>4 DEF Overtaken, Top, Startable, Created
<1>6. Chosen'
  BY <1>1, <1>2, <1>3, <1>4, <1>5 DEF Chosen, Overtaken, OnlyNext
<1> QED BY <1>1, <1>2, <1>4, <1>5, <1>6 DEF BootInv

(* Every step of main, of the tick and of PendSV.                          *)
LEMMA BootNextInv ==
    ASSUME DistinctPriorities
    PROVE  BootInv /\ [BootNext]_bootVars => BootInv'
<1> SUFFICES ASSUME BootInv, [BootNext]_bootVars PROVE BootInv'
  OBVIOUS
<1>1. CASE UNCHANGED bootVars
  BY <1>1 DEF bootVars, BootInv, Created, Fresh, Overtaken, Chosen
<1>2. CASE BootNext
  BY <1>2, CreateBoot, FlagBoot, StartBoot, SvcBoot, TickBoot, PendSVBoot DEF BootNext
<1> QED BY <1>1, <1>2

(* Start-up ends with every thread's saved stack pointer its own and one   *)
(* task RUNNING, the committed one, wherever ticks cut into sched_start,   *)
(* for any number of tasks of different priorities.                        *)
THEOREM BootStartsCleanly ==
    ASSUME DistinctPriorities
    PROVE  BootSpec => []StartsCleanly
<1>1. BootInit => BootInv
  BY BootInitInv
<1>2. BootInv /\ [BootNext]_bootVars => BootInv'
  BY BootNextInv
<1>3. BootInv => StartsCleanly
  BY DEF BootInv, Chosen, StartsCleanly, FramesIsolated, BootSingleRunning
<1> QED BY <1>1, <1>2, <1>3, PTL DEF BootSpec
-----------------------------------------------------------------------------
(* The fault record and the watchdog.                                      *)

Record == [magic : BOOLEAN, first : Nat, second : Nat]

Whole(r) == r.magic => r.first = r.second

(* Inside fault_log_write before magic is stored, and after it.            *)
FieldsOpen == where \in {"write1", "write2", "magic"}
MagicStored == where \in {"clean1", "clean2"}

FaultTypeOK ==
    /\ bkpsram \in Record /\ cached \in Record /\ out \in Record
    /\ dirty \in SUBSET Lines
    /\ unlocked \in BOOLEAN /\ cut \in BOOLEAN
    /\ where \in Booting \cup Writing \cup {"run", "stuck", "halted"}
    /\ fault \in [count : Nat, hard : BOOLEAN]
    /\ told \in SUBSET (0 .. fault.count)
    /\ pending \in Nat
    /\ bkpsram.first <= fault.count /\ cached.first <= fault.count /\ out.first <= fault.count

(* A record that the next boot may find valid has not been reported: the   *)
(* fault that wrote it is not in told.                                     *)
NotYetTold ==
    /\ bkpsram.magic => bkpsram.first \notin told
    /\ cached.magic => cached.first \notin told
    /\ where \in {"clear", "print"} => out.first \notin told /\ ~cached.magic
    /\ where = "print" => ~bkpsram.magic
    /\ FieldsOpen => fault.count \notin told

(* How far fault_log_write has come, in the cache and in memory.           *)
WriteProgress ==
    /\ where \in {"write2", "magic"} \/ MagicStored => cached.first = fault.count
    /\ where = "magic" \/ MagicStored => cached.second = fault.count
    /\ MagicStored => cached.magic
    /\ where = "clean2" => 1 \notin dirty
    /\ where = "clean2" /\ unlocked => bkpsram.magic /\ bkpsram.first = fault.count
    /\ where \in {"cause", "check", "clear", "print", "sensor", "arm", "run"} => unlocked

(* The record of a completed write is in memory and nothing that could     *)
(* still be written back differs from it.                                  *)
Durable ==
    pending # 0 =>
        /\ bkpsram = [magic |-> TRUE, first |-> pending, second |-> pending]
        /\ dirty = {}
        /\ ~FieldsOpen /\ ~MagicStored /\ where # "clear"

(* Unless a record was cut, magic vouches for memory and for the cache; a  *)
(* line that can still be evicted cannot make a half-written record valid. *)
Uncut ==
    ~cut =>
        /\ Whole(cached) /\ Whole(out)
        /\ FieldsOpen => ~cached.magic /\ ~bkpsram.magic
        /\ MagicStored /\ ~unlocked => ~bkpsram.magic
        /\ ~MagicStored => /\ Whole(bkpsram)
                           /\ dirty # {} => ~cached.magic
                           /\ 2 \in dirty => ~bkpsram.magic

FaultInv ==
    FaultTypeOK /\ NotYetTold /\ WriteProgress /\ Durable /\ Uncut
-----------------------------------------------------------------------------
(* WriteBack copies exactly the fields of the given lines, if the backup   *)
(* domain accepts writes.                                                  *)
LEMMA WriteBackCopies ==
    ASSUME FaultTypeOK, NEW lines \in SUBSET Lines, WriteBack(lines)
    PROVE  /\ bkpsram' \in Record
           /\ bkpsram'.magic = IF unlocked /\ 1 \in lines THEN cached.magic ELSE bkpsram.magic
           /\ bkpsram'.first = IF unlocked /\ 1 \in lines THEN cached.first ELSE bkpsram.first
           /\ bkpsram'.second = IF unlocked /\ 2 \in lines THEN cached.second ELSE bkpsram.second
           /\ dirty' = dirty \ lines
<1> DEFINE R == [f \in DOMAIN bkpsram |-> IF LineOf(f) \in lines THEN cached[f] ELSE bkpsram[f]]
<1>1. DOMAIN bkpsram = {"magic", "first", "second"}
  BY DEF FaultTypeOK, Record
<1>2. /\ R.magic = IF 1 \in lines THEN cached.magic ELSE bkpsram.magic
      /\ R.first = IF 1 \in lines THEN cached.first ELSE bkpsram.first
      /\ R.second = IF 2 \in lines THEN cached.second ELSE bkpsram.second
  BY <1>1 DEF LineOf
<1>3. R = [magic |-> R.magic, first |-> R.first, second |-> R.second]
  BY <1>1
<1>4. R \in Record
  BY <1>2, <1>3 DEF FaultTypeOK, Record
<1>5. bkpsram' = (IF unlocked THEN R ELSE bkpsram) /\ dirty' = dirty \ lines
  BY DEF WriteBack
<1> HIDE DEF R
<1> QED
  BY <1>2, <1>4, <1>5 DEF FaultTypeOK

(* Two records with the same fields are the same record.                   *)
LEMMA SameRecord ==
    ASSUME NEW r \in Record, NEW m, NEW a, NEW b, r.magic = m, r.first = a, r.second = b
    PROVE  r = [magic |-> m, first |-> a, second |-> b]
BY DEF Record
-----------------------------------------------------------------------------
(* The record a boot starts with is none.                                  *)
LEMMA EmptyRecord ==
    Empty \in Record /\ ~Empty.magic /\ Empty.first = 0 /\ Empty.second = 0
BY DEF Empty, Record

(* Before the first boot nothing is written, cached or told.               *)
LEMMA FaultInitInv == FaultInit => FaultInv
<1> SUFFICES ASSUME FaultInit PROVE FaultInv
  OBVIOUS
<1>1. /\ fault \in [count : Nat, hard : BOOLEAN] /\ fault.count = 0
      /\ bkpsram = Empty /\ cached = Empty /\ out = Empty
      /\ dirty = {} /\ told = {} /\ pending = 0 /\ where = "init"
      /\ unlocked = FALSE /\ cut = FALSE
  BY DEF FaultInit
<1>2. FaultTypeOK
  <2>1. dirty \in SUBSET Lines /\ told \in SUBSET (0 .. fault.count)
    BY <1>1
  <2>2. where \in Booting
    BY <1>1 DEF Booting
  <2>3. bkpsram.first <= fault.count /\ cached.first <= fault.count /\ out.first <= fault.count
    BY <1>1, EmptyRecord
  <2> QED
    BY <1>1, <2>1, <2>2, <2>3, EmptyRecord DEF FaultTypeOK
<1> QED
  BY <1>1, <1>2, EmptyRecord
  DEF FaultInv, NotYetTold, WriteProgress, Durable, Uncut, Whole, FieldsOpen, MagicStored

(* Every step preserves the invariant, action by action.                   *)
LEMMA FaultNextInv == FaultInv /\ [FaultNext]_faultVars => FaultInv'
<1> SUFFICES ASSUME FaultInv, [FaultNext]_faultVars
             PROVE  FaultInv'
  OBVIOUS
<1> USE DEF FieldsOpen, MagicStored, Whole
<1>1. CASE fault_log_init
  BY <1>1 DEF FaultInv, FaultTypeOK, NotYetTold, WriteProgress, Durable, Uncut, fault_log_init,
              Step, auxVars, Booting, Writing
<1>2. CASE ReportCause
  BY <1>2 DEF FaultInv, FaultTypeOK, NotYetTold, WriteProgress, Durable, Uncut, ReportCause,
              Step, memVars, auxVars, Booting, Writing
<1>3. CASE fault_log_check
  <2>1. CASE ~cached.magic
    BY <1>3, <2>1 DEF FaultInv, FaultTypeOK, NotYetTold, WriteProgress, Durable, Uncut,
                      fault_log_check, Step, Booting, Writing
  <2>2. CASE cached.magic
    <3>1. /\ where = "check" /\ where' = "clear" /\ out' = cached /\ pending' = 0
          /\ cached' = [cached EXCEPT !.magic = FALSE] /\ dirty' = dirty \cup {1}
          /\ UNCHANGED <<bkpsram, unlocked, fault, told, cut>>
      BY <1>3, <2>2 DEF fault_log_check, Step, Store, LineOf
    <3>2. /\ cached' \in Record /\ ~cached'.magic
          /\ cached'.first = cached.first /\ cached'.second = cached.second
      BY <3>1 DEF FaultInv, FaultTypeOK, Record
    <3> QED
      BY <2>2, <3>1, <3>2 DEF FaultInv, FaultTypeOK, NotYetTold, WriteProgress, Durable, Uncut,
                         Lines, Booting, Writing
  <2> QED
    BY <2>1, <2>2
<1>4. CASE fault_log_clear
  <2>1. WriteBack({1})
    BY <1>4 DEF fault_log_clear, LineOf
  <2> QED
  BY <1>4, <2>1, WriteBackCopies DEF FaultInv, FaultTypeOK, NotYetTold, WriteProgress, Durable, Uncut, fault_log_clear,
              Step, auxVars, Lines, Booting, Writing
<1>5. CASE PrintReport
  <2>1. /\ where = "print" /\ where' = "sensor" /\ told' = told \cup {out.first}
        /\ out' \in Record /\ ~out'.magic /\ out'.first = 0
        /\ UNCHANGED <<memVars, fault, pending, cut>>
    BY <1>5, EmptyRecord DEF PrintReport, Step
  <2>2. out.first \in 0 .. fault.count /\ 0 <= fault.count
    BY DEF FaultInv, FaultTypeOK, Record
  <2> QED
    BY <2>1, <2>2 DEF FaultInv, FaultTypeOK, NotYetTold, WriteProgress, Durable, Uncut,
                      memVars, Booting, Writing
<1>6. CASE SensorInit \/ Hang \/ Halt
  BY <1>6 DEF FaultInv, FaultTypeOK, NotYetTold, WriteProgress, Durable, Uncut, SensorInit, Hang, Halt,
              Step, memVars, auxVars, Booting, Writing
<1>7. CASE (\E ms \in AskedTimeout : iwdg_init(ms)) \/ iwdg_kick \/ WatchdogTime
  BY <1>7 DEF FaultInv, FaultTypeOK, NotYetTold, WriteProgress, Durable, Uncut, iwdg_init, iwdg_kick, WatchdogTime,
              Step, memVars, auxVars, Booting, Writing
<1>8. CASE WatchdogReset \/ ResetPin
  <2>1. /\ cached' = bkpsram /\ dirty' = {} /\ unlocked' = FALSE /\ where' = "init"
        /\ fault' = [fault EXCEPT !.hard = FALSE]
        /\ out' \in Record /\ ~out'.magic /\ out'.first = 0
        /\ cut' = (cut \/ MagicStored)
        /\ UNCHANGED <<bkpsram, told, pending>>
    BY <1>8, EmptyRecord DEF WatchdogReset, ResetPin, ResetTo
  <2>2. fault' \in [count : Nat, hard : BOOLEAN] /\ fault'.count = fault.count
    BY <2>1 DEF FaultInv, FaultTypeOK
  <2>3. FaultTypeOK'
    <3>1. dirty' \in SUBSET Lines /\ cut' \in BOOLEAN /\ unlocked' \in BOOLEAN
      BY <2>1
    <3>2. where' \in Booting
      BY <2>1 DEF Booting
    <3>3. told' \in SUBSET (0 .. fault'.count)
      BY <2>1, <2>2 DEF FaultInv, FaultTypeOK
    <3>4. bkpsram'.first <= fault'.count /\ cached'.first <= fault'.count
          /\ out'.first <= fault'.count
      BY <2>1, <2>2 DEF FaultInv, FaultTypeOK
    <3>5. bkpsram' \in Record /\ cached' \in Record /\ out' \in Record /\ pending' \in Nat
      BY <2>1 DEF FaultInv, FaultTypeOK
    <3> QED
      BY <2>2, <3>1, <3>2, <3>3, <3>4, <3>5 DEF FaultTypeOK
  <2>4. NotYetTold' /\ WriteProgress' /\ Durable'
    BY <2>1, <2>2 DEF FaultInv, FaultTypeOK, NotYetTold, WriteProgress, Durable
  <2>5. Uncut'
    BY <2>1, <2>2 DEF FaultInv, FaultTypeOK, Uncut
  <2> QED
    BY <2>3, <2>4, <2>5 DEF FaultInv
<1>9. CASE \E line \in Lines : Evict(line)
  <2>1. PICK line \in Lines : Evict(line)
    BY <1>9
  <2>2. /\ WriteBack({line}) /\ {line} \in SUBSET Lines /\ line \in dirty
        /\ UNCHANGED <<cached, unlocked, where, fault, out, auxVars>>
    BY <2>1 DEF Evict
  <2>3. /\ bkpsram' \in Record
        /\ bkpsram'.magic = IF unlocked /\ line = 1 THEN cached.magic ELSE bkpsram.magic
        /\ bkpsram'.first = IF unlocked /\ line = 1 THEN cached.first ELSE bkpsram.first
        /\ bkpsram'.second = IF unlocked /\ line = 2 THEN cached.second ELSE bkpsram.second
        /\ dirty' = dirty \ {line}
    BY <2>2, WriteBackCopies DEF FaultInv
  <2>4. line \in {1, 2} /\ pending = 0
    BY <2>1, <2>2 DEF Lines, FaultInv, Durable
  <2>5. FaultTypeOK' /\ NotYetTold' /\ Durable'
    BY <2>2, <2>3, <2>4 DEF FaultInv, FaultTypeOK, NotYetTold, Durable, auxVars
  <2>6. WriteProgress'
    BY <2>2, <2>3, <2>4 DEF FaultInv, FaultTypeOK, WriteProgress, auxVars
  <2>7. Uncut'
    BY <2>2, <2>3, <2>4 DEF FaultInv, FaultTypeOK, Uncut, auxVars
  <2> QED
    BY <2>5, <2>6, <2>7 DEF FaultInv
<1>10. CASE \E hard \in BOOLEAN : EnterFault(hard)
  BY <1>10 DEF FaultInv, FaultTypeOK, NotYetTold, WriteProgress, Durable, Uncut, EnterFault,
              memVars, Empty, Record, Booting, Writing
<1>11. CASE WriteFields
  <2>1. /\ \/ /\ where = "write1" /\ where' = "write2" /\ dirty' = dirty \cup {1}
             /\ cached' = [cached EXCEPT !.first = fault.count]
          \/ /\ where = "write2" /\ where' = "magic" /\ dirty' = dirty \cup {2}
             /\ cached' = [cached EXCEPT !.second = fault.count]
        /\ UNCHANGED <<bkpsram, unlocked, fault, out, auxVars>>
    BY <1>11 DEF WriteFields, Step, Store, LineOf
  <2>2. /\ cached' \in Record /\ cached'.magic = cached.magic
        /\ cached'.first = IF where = "write1" THEN fault.count ELSE cached.first
        /\ cached'.second = IF where = "write2" THEN fault.count ELSE cached.second
    BY <2>1 DEF FaultInv, FaultTypeOK, Record
  <2> QED
    BY <2>1, <2>2 DEF FaultInv, FaultTypeOK, NotYetTold, WriteProgress, Durable, Uncut,
                      Lines, auxVars, Booting, Writing
<1>12. CASE WriteMagic
  BY <1>12 DEF FaultInv, FaultTypeOK, NotYetTold, WriteProgress, Durable, Uncut, WriteMagic,
              Step, Store, LineOf, Lines, auxVars, Record, Booting, Writing
<1>13. CASE clean_dcache_range
  <2>1. CASE Step("clean1", "clean2") /\ WriteBack({1}) /\ UNCHANGED pending
    <3>1. /\ bkpsram' \in Record
          /\ bkpsram'.magic = IF unlocked THEN cached.magic ELSE bkpsram.magic
          /\ bkpsram'.first = IF unlocked THEN cached.first ELSE bkpsram.first
          /\ bkpsram'.second = bkpsram.second
          /\ dirty' = dirty \ {1}
      BY <2>1, WriteBackCopies DEF FaultInv, Lines
    <3> QED
      BY <1>13, <2>1, <3>1 DEF FaultInv, FaultTypeOK, NotYetTold, WriteProgress, Durable, Uncut,
                  clean_dcache_range, Step, Booting, Writing
  <2>2. CASE Step("clean2", "peek") /\ WriteBack({2})
             /\ pending' = IF unlocked THEN fault.count ELSE 0
    <3>1. /\ bkpsram' \in Record
          /\ bkpsram'.magic = bkpsram.magic
          /\ bkpsram'.first = bkpsram.first
          /\ bkpsram'.second = IF unlocked THEN cached.second ELSE bkpsram.second
          /\ dirty' = dirty \ {2}
      BY <2>2, WriteBackCopies DEF FaultInv, Lines
    <3>2. dirty' = {}
      BY <2>2, <3>1 DEF FaultInv, FaultTypeOK, WriteProgress, Lines, Step
    <3>3. where = "clean2" /\ where' = "peek"
          /\ UNCHANGED <<cached, unlocked, fault, out, told, cut>>
      BY <1>13, <2>2 DEF clean_dcache_range, Step
    <3>4. FaultTypeOK' /\ NotYetTold' /\ WriteProgress' /\ Uncut'
      BY <2>2, <3>1, <3>2, <3>3
      DEF FaultInv, FaultTypeOK, NotYetTold, WriteProgress, Uncut, Booting, Writing
    <3>5. Durable'
      BY <2>2, <3>1, <3>2, <3>3, SameRecord DEF FaultInv, WriteProgress, Durable
    <3> QED
      BY <3>4, <3>5 DEF FaultInv
  <2> QED
    BY <1>13, <2>1, <2>2 DEF clean_dcache_range
<1>14. CASE UNCHANGED faultVars
  BY <1>14 DEF FaultInv, FaultTypeOK, NotYetTold, WriteProgress, Durable, Uncut, faultVars
<1> QED
  BY <1>1, <1>2, <1>3, <1>4, <1>5, <1>6, <1>7, <1>8, <1>9, <1>10, <1>11, <1>12, <1>13, <1>14
  DEF FaultNext

(* The invariant of the fault log holds in every reachable state.          *)
THEOREM FaultLogInvariant == FaultSpec => []FaultInv
BY FaultInitInv, FaultNextInv, PTL DEF FaultSpec

(* However faults, resets and evictions fall, a fault is reported at most  *)
(* once.                                                                   *)
THEOREM FaultLogReportsOnce == FaultSpec => []FaultReportedOnce
<1>1. FaultInv => FaultReportedOnce
  BY DEF FaultInv, NotYetTold, FaultReportedOnce
<1> QED
  BY FaultLogInvariant, <1>1, PTL

(* A completed record survives resets and evictions until it is read, and  *)
(* a record a boot takes for valid was written by one fault, unless it was *)
(* cut.                                                                    *)
THEOREM FaultLogRecordWhole == FaultSpec => []FaultRecordWhole
<1>1. FaultInv => FaultRecordWhole
  BY DEF FaultInv, Durable, Uncut, Whole, FaultRecordWhole, FaultDurable, FaultMagicMeansWhole
<1> QED
  BY FaultLogInvariant, <1>1, PTL
-----------------------------------------------------------------------------
(* The reloads of the seven prescalers: the integer divisions of the 32    *)
(* kHz clock by the prescaler are exact.                                   *)
LEMMA Reloads ==
    ASSUME NEW ms \in Nat
    PROVE  /\ ReloadFor(ms, 0) = 8 * ms /\ ReloadFor(ms, 1) = 4 * ms
           /\ ReloadFor(ms, 2) = 2 * ms /\ ReloadFor(ms, 3) = ms
           /\ ReloadFor(ms, 4) = ms \div 2 /\ ReloadFor(ms, 5) = ms \div 4
           /\ ReloadFor(ms, 6) = ms \div 8
<1>1. /\ Prescaler(0) = 4 /\ Prescaler(1) = 8 /\ Prescaler(2) = 16 /\ Prescaler(3) = 32
      /\ Prescaler(4) = 64 /\ Prescaler(5) = 128 /\ Prescaler(6) = 256
  BY DEF Prescaler
<1>2. /\ LSI_FREQ_HZ \div 4 = 8000 /\ LSI_FREQ_HZ \div 8 = 4000
      /\ LSI_FREQ_HZ \div 16 = 2000 /\ LSI_FREQ_HZ \div 32 = 1000
      /\ LSI_FREQ_HZ \div 64 = 500 /\ LSI_FREQ_HZ \div 128 = 250
      /\ LSI_FREQ_HZ \div 256 = 125
  BY DEF LSI_FREQ_HZ
<1>3. /\ (ms * 8000) \div 1000 = 8 * ms /\ (ms * 4000) \div 1000 = 4 * ms
      /\ (ms * 2000) \div 1000 = 2 * ms /\ (ms * 1000) \div 1000 = ms
  OBVIOUS
<1>4. /\ (ms * 500) \div 1000 = ms \div 2 /\ (ms * 250) \div 1000 = ms \div 4
      /\ (ms * 125) \div 1000 = ms \div 8
  OBVIOUS
<1> QED
  BY <1>1, <1>2, <1>3, <1>4 DEF ReloadFor

(* What iwdg_init programs: prescaler code and reload.                     *)
Programs(ms, code, reload) == Programmed(ms).pr = code /\ Programmed(ms).rlr = reload

(* What iwdg_init programs, by the range its argument falls in.            *)
LEMMA ProgrammedRanges ==
    ASSUME NEW ms \in Nat
    PROVE  /\ ms = 0 => Programs(ms, 0, 1)
           /\ 1 <= ms /\ ms <= 511 => Programs(ms, 0, 8 * ms)
           /\ 512 <= ms /\ ms <= 1023 => Programs(ms, 1, 4 * ms)
           /\ 1024 <= ms /\ ms <= 2047 => Programs(ms, 2, 2 * ms)
           /\ 2048 <= ms /\ ms <= 4095 => Programs(ms, 3, ms)
           /\ 4096 <= ms /\ ms <= 8191 => Programs(ms, 4, ms \div 2)
           /\ 8192 <= ms /\ ms <= 16383 => Programs(ms, 5, ms \div 4)
           /\ 16384 <= ms /\ ms <= 32767 => Programs(ms, 6, ms \div 8)
           /\ 32768 <= ms => Programs(ms, 6, 4095)
<1> DEFINE fits == {c \in 0 .. 6 : ReloadFor(ms, c) <= 4095}
           code == IF fits = {} THEN 6 ELSE CHOOSE c \in fits : \A d \in fits : c <= d
           rl == IF fits = {} THEN 4095 ELSE ReloadFor(ms, code)
<1>1. Programmed(ms).pr = code /\ Programmed(ms).rlr = IF rl = 0 THEN 1 ELSE rl
  BY DEF Programmed
<1>2. \A c \in 0 .. 6 : c \in fits <=> ReloadFor(ms, c) <= 4095
  OBVIOUS
<1>3. fits \in SUBSET (0 .. 6)
  OBVIOUS
<1> HIDE DEF fits
<1>4. ASSUME NEW c \in fits, \A d \in fits : c <= d
      PROVE  code = c /\ rl = ReloadFor(ms, c)
  <2>1. \A d \in fits : (\A e \in fits : d <= e) => d = c
    BY <1>3, <1>4
  <2> QED
    BY <1>4, <2>1
<1>5. fits = {} => code = 6 /\ rl = 4095
  OBVIOUS
<1> HIDE DEF code, rl
<1>6. /\ 0 \in fits <=> ms <= 511
      /\ 1 \in fits <=> ms <= 1023
      /\ 2 \in fits <=> ms <= 2047
      /\ 3 \in fits <=> ms <= 4095
  BY <1>2, Reloads
<1>7. 4 \in fits <=> ms <= 8191
  BY <1>2, Reloads
<1>8. 5 \in fits <=> ms <= 16383
  BY <1>2, Reloads
<1>9. 6 \in fits <=> ms <= 32767
  BY <1>2, Reloads
<1>10. ASSUME ms = 0
      PROVE  Programs(ms, 0, 1)
  <2>1. 0 \in fits /\ \A d \in fits : 0 <= d
    BY <1>3, <1>6, <1>7, <1>8, <1>9, <1>10
  <2>2. code = 0 /\ rl = 8 * ms
    BY <1>4, <2>1, Reloads
  <2>3. rl = 0
    BY <1>10, <2>2
  <2> QED
    BY <1>1, <2>2, <2>3 DEF Programs
<1>11. ASSUME 1 <= ms /\ ms <= 511
      PROVE  Programs(ms, 0, 8 * ms)
  <2>1. 0 \in fits /\ \A d \in fits : 0 <= d
    BY <1>3, <1>6, <1>7, <1>8, <1>9, <1>11
  <2>2. code = 0 /\ rl = 8 * ms
    BY <1>4, <2>1, Reloads
  <2>3. rl # 0
    BY <1>11, <2>2
  <2> QED
    BY <1>1, <2>2, <2>3 DEF Programs
<1>12. ASSUME 512 <= ms /\ ms <= 1023
      PROVE  Programs(ms, 1, 4 * ms)
  <2>1. 1 \in fits /\ \A d \in fits : 1 <= d
    BY <1>3, <1>6, <1>7, <1>8, <1>9, <1>12
  <2>2. code = 1 /\ rl = 4 * ms
    BY <1>4, <2>1, Reloads
  <2>3. rl # 0
    BY <1>12, <2>2
  <2> QED
    BY <1>1, <2>2, <2>3 DEF Programs
<1>13. ASSUME 1024 <= ms /\ ms <= 2047
      PROVE  Programs(ms, 2, 2 * ms)
  <2>1. 2 \in fits /\ \A d \in fits : 2 <= d
    BY <1>3, <1>6, <1>7, <1>8, <1>9, <1>13
  <2>2. code = 2 /\ rl = 2 * ms
    BY <1>4, <2>1, Reloads
  <2>3. rl # 0
    BY <1>13, <2>2
  <2> QED
    BY <1>1, <2>2, <2>3 DEF Programs
<1>14. ASSUME 2048 <= ms /\ ms <= 4095
      PROVE  Programs(ms, 3, ms)
  <2>1. 3 \in fits /\ \A d \in fits : 3 <= d
    BY <1>3, <1>6, <1>7, <1>8, <1>9, <1>14
  <2>2. code = 3 /\ rl = ms
    BY <1>4, <2>1, Reloads
  <2>3. rl # 0
    BY <1>14, <2>2
  <2> QED
    BY <1>1, <2>2, <2>3 DEF Programs
<1>15. ASSUME 4096 <= ms /\ ms <= 8191
      PROVE  Programs(ms, 4, ms \div 2)
  <2>1. 4 \in fits /\ \A d \in fits : 4 <= d
    BY <1>3, <1>6, <1>7, <1>8, <1>9, <1>15
  <2>2. code = 4 /\ rl = ms \div 2
    BY <1>4, <2>1, Reloads
  <2>3. rl # 0
    BY <1>15, <2>2
  <2> QED
    BY <1>1, <2>2, <2>3 DEF Programs
<1>16. ASSUME 8192 <= ms /\ ms <= 16383
      PROVE  Programs(ms, 5, ms \div 4)
  <2>1. 5 \in fits /\ \A d \in fits : 5 <= d
    BY <1>3, <1>6, <1>7, <1>8, <1>9, <1>16
  <2>2. code = 5 /\ rl = ms \div 4
    BY <1>4, <2>1, Reloads
  <2>3. rl # 0
    BY <1>16, <2>2
  <2> QED
    BY <1>1, <2>2, <2>3 DEF Programs
<1>17. ASSUME 16384 <= ms /\ ms <= 32767
      PROVE  Programs(ms, 6, ms \div 8)
  <2>1. 6 \in fits /\ \A d \in fits : 6 <= d
    BY <1>3, <1>6, <1>7, <1>8, <1>9, <1>17
  <2>2. code = 6 /\ rl = ms \div 8
    BY <1>4, <2>1, Reloads
  <2>3. rl # 0
    BY <1>17, <2>2
  <2> QED
    BY <1>1, <2>2, <2>3 DEF Programs
<1>18. ASSUME 32768 <= ms
      PROVE  Programs(ms, 6, 4095)
  <2>1. fits = {}
    BY <1>3, <1>6, <1>7, <1>8, <1>9, <1>18
  <2> QED
    BY <1>1, <1>5, <2>1 DEF Programs
<1> QED
  BY <1>10, <1>11, <1>12, <1>13, <1>14, <1>15, <1>16, <1>17, <1>18

(* The reload counts the timeout: in range, at most one step of the        *)
(* prescaler short, and no finer prescaler could have counted it.          *)
LEMMA ProgrammedWaits ==
    ASSUME NEW ms \in Nat, NEW pr, NEW rlr, Programs(ms, pr, rlr)
    PROVE  /\ pr \in Nat /\ rlr \in Nat /\ 1 <= rlr /\ rlr <= 4095
           /\ 1 <= ms /\ ms <= 32760 =>
                 /\ rlr * Prescaler(pr) <= 32 * ms
                 /\ 32 * ms < rlr * Prescaler(pr) + Prescaler(pr)
                 /\ pr > 0 => 32 * ms > 4095 * Prescaler(pr - 1)
           /\ ms > 32767 => rlr * Prescaler(pr) = 4095 * 256
<1>1. /\ Prescaler(0) = 4 /\ Prescaler(1) = 8 /\ Prescaler(2) = 16 /\ Prescaler(3) = 32
      /\ Prescaler(4) = 64 /\ Prescaler(5) = 128 /\ Prescaler(6) = 256
  BY DEF Prescaler
<1>2. ASSUME NEW code, NEW reload, Programs(ms, code, reload)
      PROVE  pr = code /\ rlr = reload
  BY <1>2 DEF Programs
<1>3. CASE ms = 0
  <2>1. pr = 0 /\ rlr = 1
    BY <1>2, <1>3, ProgrammedRanges
  <2> QED
    BY <1>1, <1>3, <2>1
<1>4. CASE 1 <= ms /\ ms <= 511
  <2>1. pr = 0 /\ rlr = 8 * ms
    BY <1>2, <1>4, ProgrammedRanges
  <2> QED
    BY <1>1, <1>4, <2>1
<1>5. CASE 512 <= ms /\ ms <= 1023
  <2>1. pr = 1 /\ rlr = 4 * ms
    BY <1>2, <1>5, ProgrammedRanges
  <2> QED
    BY <1>1, <1>5, <2>1
<1>6. CASE 1024 <= ms /\ ms <= 2047
  <2>1. pr = 2 /\ rlr = 2 * ms
    BY <1>2, <1>6, ProgrammedRanges
  <2> QED
    BY <1>1, <1>6, <2>1
<1>7. CASE 2048 <= ms /\ ms <= 4095
  <2>1. pr = 3 /\ rlr = ms
    BY <1>2, <1>7, ProgrammedRanges
  <2> QED
    BY <1>1, <1>7, <2>1
<1>8. CASE 4096 <= ms /\ ms <= 8191
  <2>1. pr = 4 /\ rlr = ms \div 2
    BY <1>2, <1>8, ProgrammedRanges
  <2> QED
    BY <1>1, <1>8, <2>1
<1>9. CASE 8192 <= ms /\ ms <= 16383
  <2>1. pr = 5 /\ rlr = ms \div 4
    BY <1>2, <1>9, ProgrammedRanges
  <2> QED
    BY <1>1, <1>9, <2>1
<1>10. CASE 16384 <= ms /\ ms <= 32767
  <2>1. pr = 6 /\ rlr = ms \div 8
    BY <1>2, <1>10, ProgrammedRanges
  <2> QED
    BY <1>1, <1>10, <2>1
<1>11. CASE 32768 <= ms
  <2>1. pr = 6 /\ rlr = 4095
    BY <1>2, <1>11, ProgrammedRanges
  <2> QED
    BY <1>1, <1>11, <2>1
<1> QED
  BY <1>3, <1>4, <1>5, <1>6, <1>7, <1>8, <1>9, <1>10, <1>11

(* The armed watchdog holds what iwdg_init computed from its argument.     *)
IwdgProgrammed ==
    /\ iwdg \in [armed : BOOLEAN, left : Int, pr : Nat, rlr : Nat, asked : Nat]
    /\ iwdg.armed => /\ iwdg.pr = Programmed(iwdg.asked).pr
                     /\ iwdg.rlr = Programmed(iwdg.asked).rlr

(* Whatever iwdg_init was asked for, the armed watchdog waits that long,   *)
(* to within one step of the finest prescaler that can count it.           *)
THEOREM WatchdogTimeoutKept == FaultSpec => []IwdgTimeoutKept
<1>1. FaultInit => IwdgProgrammed
  BY DEF FaultInit, Off, IwdgProgrammed
<1>2. IwdgProgrammed /\ [FaultNext]_faultVars => IwdgProgrammed'
  <2> SUFFICES ASSUME IwdgProgrammed, [FaultNext]_faultVars PROVE IwdgProgrammed'
    OBVIOUS
  <2>1. CASE \E ms \in AskedTimeout : iwdg_init(ms)
    <3>1. PICK ms \in AskedTimeout : iwdg_init(ms)
      BY <2>1
    <3>2. ms \in Nat /\ IwdgTicks \in Int
      BY <3>1, FaultAssumption
    <3>3. Programmed(ms).pr \in Nat /\ Programmed(ms).rlr \in Nat
      BY <3>2, ProgrammedWaits DEF Programs
    <3>4. iwdg' = [armed |-> TRUE, left |-> IwdgTicks, asked |-> ms,
                   pr |-> Programmed(ms).pr, rlr |-> Programmed(ms).rlr]
      BY <3>1 DEF iwdg_init
    <3> QED
      BY <3>2, <3>3, <3>4 DEF IwdgProgrammed
  <2>2. CASE WatchdogReset \/ ResetPin
    <3>1. iwdg' = [armed |-> FALSE, left |-> 0, pr |-> 0, rlr |-> 0, asked |-> 0]
      BY <2>2 DEF WatchdogReset, ResetPin, ResetTo, Off
    <3> QED
      BY <3>1 DEF IwdgProgrammed
  <2>3. CASE iwdg_kick \/ WatchdogTime
    <3>1. PICK left \in Int : iwdg' = [iwdg EXCEPT !.left = left]
      BY <2>3, FaultAssumption DEF iwdg_kick, WatchdogTime, IwdgProgrammed
    <3>2. /\ iwdg' \in [armed : BOOLEAN, left : Int, pr : Nat, rlr : Nat, asked : Nat]
          /\ iwdg'.armed = iwdg.armed /\ iwdg'.asked = iwdg.asked
          /\ iwdg'.pr = iwdg.pr /\ iwdg'.rlr = iwdg.rlr
      BY <3>1 DEF IwdgProgrammed
    <3> QED
      BY <3>2 DEF IwdgProgrammed
  <2>4. CASE UNCHANGED iwdg
    BY <2>4 DEF IwdgProgrammed
  <2> QED
    BY <2>1, <2>2, <2>3, <2>4
    DEF FaultNext, fault_log_init, ReportCause, fault_log_check, fault_log_clear, PrintReport,
        SensorInit, Hang, Evict, EnterFault, WriteFields, WriteMagic, clean_dcache_range, Halt,
        faultVars
<1>3. IwdgProgrammed => IwdgTimeoutKept
  <2> SUFFICES ASSUME IwdgProgrammed PROVE IwdgTimeoutKept
    OBVIOUS
  <2>1. CASE ~iwdg.armed
    BY <2>1 DEF IwdgTimeoutKept
  <2>2. CASE iwdg.armed
    <3>1. iwdg.asked \in Nat /\ Programs(iwdg.asked, iwdg.pr, iwdg.rlr)
      BY <2>2 DEF IwdgProgrammed, Programs
    <3> QED
      BY <3>1, ProgrammedWaits DEF IwdgTimeoutKept
  <2> QED
    BY <2>1, <2>2
<1> QED
  BY <1>1, <1>2, <1>3, PTL DEF FaultSpec
-----------------------------------------------------------------------------
(* The monitors.                                                           *)

(* The monitors as tasks use them: one of the three at a time.             *)
MonitorSpec ==
    /\ MonitorInit
    /\ \/ [][DeadlineNext]_monitorVars
       \/ [][JitterNext]_monitorVars
       \/ [][StackNext]_monitorVars

Millis == 0 .. ClockModulus - 1
-----------------------------------------------------------------------------
(* Deadline monitors.                                                      *)

MonitorRecord ==
    [in_use : BOOLEAN, active : BOOLEAN, budget_ms : Nat, start_ms : Millis, min_ms : Nat,
     max_ms : Nat, sum_ms : Nat, cycle_count : Nat, overrun_count : Nat]
WorkRecord ==
    [step : {"new", "fill", "idle", "busy", "ending"}, h : Handle \cup {-1}, elapsed : Nat]
TruthRecord == [n : Nat, over : Nat, longest : Nat, total : Nat]

DeadlineTypeOK ==
    /\ clk \in Millis /\ age \in [Worker -> Millis]
    /\ monitors \in [Handle -> MonitorRecord]
    /\ work \in [Worker -> WorkRecord]
    /\ truth \in [Handle -> TruthRecord]
    /\ report \in [avg : Nat, max : Nat, h : Handle, half : BOOLEAN]

(* A monitor has an owner from the critical section that claims it on.     *)
Owned ==
    /\ MonitorsNotShared
    /\ \A t \in Worker : Valid(t) => monitors[work[t].h].in_use
    /\ \A t \in Worker : work[t].step = "new" => ~Valid(t)
    /\ \A t \in Worker : work[t].step \in {"fill", "busy", "ending"} => Valid(t)

(* What the monitors have added up, at every point of a call: the counters *)
(* come last.                                                              *)
Tally ==
    \A h \in Handle :
        LET m == monitors[h]  true == truth[h]
        IN  /\ m.cycle_count <= true.n /\ true.n <= m.cycle_count + 1
            /\ m.max_ms = true.longest
            /\ m.sum_ms = true.total % ClockModulus
            /\ true.total <= true.n * true.longest

(* Nothing has been measured with a monitor that is not filled in.         *)
Unused(h) ==
    monitors[h].max_ms = 0 /\ monitors[h].sum_ms = 0 /\ truth[h] = [n |-> 0, over |-> 0, longest |-> 0, total |-> 0]

Unfilled ==
    /\ \A h \in Handle : ~monitors[h].in_use => Unused(h)
    /\ \A t \in Worker : work[t].step = "fill" => Unused(work[t].h)

(* A running cycle began age milliseconds ago; a cycle that is being added *)
(* is in truth and not in the counters.                                    *)
InCycle ==
    \A t \in Worker :
        /\ work[t].step = "busy" => Elapsed(monitors[work[t].h]) = age[t]
        /\ work[t].step = "ending" =>
             LET m == monitors[work[t].h]  true == truth[work[t].h]
             IN  /\ true.n = m.cycle_count + 1
                 /\ true.over = m.overrun_count + (IF work[t].elapsed > m.budget_ms THEN 1 ELSE 0)

DeadlineInv ==
    DeadlineTypeOK /\ Owned /\ Tally /\ Unfilled /\ InCycle /\ DeadlineExact /\ DeadlineReportBounded

(* Nothing is measured before the first claim.                             *)
LEMMA DeadlineInitInv == MonitorInit => DeadlineInv
<1> SUFFICES ASSUME MonitorInit PROVE DeadlineInv
  OBVIOUS
<1>0. 0 % ClockModulus = 0 /\ ClockModulus > 1 /\ ClockModulus \in Nat /\ MONITOR_MAX \in Nat \ {0} /\ -1 \notin Handle
  BY MonitorAssumption DEF Handle
<1>1. DeadlineTypeOK
  BY <1>0 DEF MonitorInit, DeadlineTypeOK, NoMonitor, Millis, Handle, MonitorRecord, WorkRecord, TruthRecord
<1>2. Owned
  BY <1>0 DEF MonitorInit, Owned, MonitorsNotShared, Valid
<1>3. Tally /\ Unfilled
  BY <1>0 DEF MonitorInit, Tally, Unfilled, Unused, NoMonitor
<1>4. InCycle /\ DeadlineExact
  BY <1>0 DEF MonitorInit, InCycle, DeadlineExact, Valid
<1>5. DeadlineReportBounded
  BY DEF MonitorInit, DeadlineReportBounded
<1> QED BY <1>1, <1>2, <1>3, <1>4, <1>5 DEF DeadlineInv

(* The least free monitor.                                                 *)
LEMMA FreeLeast ==
    ASSUME FreeMonitors # {}
    PROVE  Min(FreeMonitors) \in FreeMonitors
<1>1. FreeMonitors \in SUBSET Nat
  BY MonitorAssumption DEF FreeMonitors, Handle
<1>2. \E m \in FreeMonitors : \A n \in FreeMonitors : m <= n
  BY <1>1, LeastNat
<1> QED BY <1>2 DEF Min

(* The distance of two readings of the clock, one of them a millisecond    *)
(* later.                                                                  *)
LEMMA ClockAdvances ==
    ASSUME NEW M \in Nat, M > 1, NEW c \in 0 .. M - 1, NEW s \in 0 .. M - 1, (c - s) % M < M - 1
    PROVE  /\ (c + 1) % M \in 0 .. M - 1
           /\ (((c + 1) % M) - s) % M = ((c - s) % M) + 1
<1>1. (c + 1) % M = IF c = M - 1 THEN 0 ELSE c + 1
  OBVIOUS
<1>2. \A x \in - (M - 1) .. M - 1 : x % M = IF x < 0 THEN x + M ELSE x
  OBVIOUS
<1>3. (c - s) % M = IF c < s THEN c - s + M ELSE c - s
  BY <1>2
<1>4. CASE c = M - 1
  <2>1. (c + 1) % M = 0 /\ s # 0 /\ 0 - s \in - (M - 1) .. M - 1
    BY <1>1, <1>3, <1>4
  <2>2. (0 - s) % M = IF 0 - s < 0 THEN 0 - s + M ELSE 0 - s
    BY <1>2, <2>1
  <2> QED BY <1>3, <1>4, <2>1, <2>2
<1>5. CASE c # M - 1
  <2>1. (c + 1) % M = c + 1 /\ c + 1 - s \in - (M - 1) .. M - 1
    BY <1>1, <1>5
  <2>3. (c + 1 - s) % M = IF c + 1 - s < 0 THEN c + 1 - s + M ELSE c + 1 - s
    BY <1>2, <2>1
  <2>4. c < s => c + 1 - s # 0
    BY <1>3
  <2> QED BY <1>1, <1>3, <1>5, <2>3, <2>4
<1> QED BY <1>4, <1>5

(* A millisecond makes a running cycle a millisecond older.                *)
LEMMA DeadlineTick == DeadlineInv /\ MonitorTick => DeadlineInv'
<1> SUFFICES ASSUME DeadlineInv, MonitorTick PROVE DeadlineInv'
  OBVIOUS
<1>1. /\ monitors' = monitors /\ work' = work /\ truth' = truth /\ report' = report
      /\ clk' = (clk + 1) % ClockModulus
  BY DEF MonitorTick, deadlineVars
<1>2. ClockModulus \in Nat /\ ClockModulus > 1
  BY MonitorAssumption
<1>3. clk' \in Millis /\ age' \in [Worker -> Millis]
  BY <1>1, <1>2 DEF MonitorTick, DeadlineInv, DeadlineTypeOK, Millis
<1>4. DeadlineTypeOK'
  BY <1>1, <1>3 DEF DeadlineInv, DeadlineTypeOK
<1>5. Owned' /\ Tally' /\ Unfilled' /\ DeadlineExact' /\ DeadlineReportBounded'
  BY <1>1 DEF DeadlineInv, Owned, MonitorsNotShared, Valid, Tally, Unfilled, Unused, DeadlineExact,
       DeadlineReportBounded
<1>6. InCycle'
  <2> SUFFICES ASSUME NEW t \in Worker, work[t].step = "busy"
               PROVE  Elapsed(monitors[work[t].h])' = age'[t]
    BY <1>1 DEF DeadlineInv, InCycle
  <2> DEFINE s == monitors[work[t].h].start_ms
  <2>1. work[t].h \in Handle /\ s \in Millis
    BY DEF DeadlineInv, Owned, Valid, DeadlineTypeOK, MonitorRecord
  <2>2. (clk - s) % ClockModulus = age[t] /\ age[t] < ClockModulus - 1 /\ age'[t] = age[t] + 1
    BY DEF DeadlineInv, InCycle, Elapsed, MonitorTick
  <2> HIDE DEF s
  <2>3. (clk' - s) % ClockModulus = age[t] + 1
    <3>1. clk \in Millis
      BY DEF DeadlineInv, DeadlineTypeOK
    <3> QED BY <1>1, <1>2, <2>1, <2>2, <3>1, ClockAdvances DEF Millis
  <2> QED BY <1>1, <2>2, <2>3 DEF Elapsed, s
<1> QED BY <1>4, <1>5, <1>6 DEF DeadlineInv

(* Every cycle counts at most as long as the longest.                      *)
LEMMA TotalGrows ==
    ASSUME NEW n \in Nat, NEW longest \in Nat, NEW total \in Nat, NEW a \in Nat,
           total <= n * longest
    PROVE  total + a <= (n + 1) * Larger(longest, a)
<1> DEFINE l == Larger(longest, a)
<1>1. l \in Nat /\ longest <= l /\ a <= l
  BY DEF Larger
<1> HIDE DEF l
<1>2. n * longest <= n * l
  <2>1. PICK d \in Nat : l = longest + d
    BY <1>1
  <2>2. n * (longest + d) = n * longest + n * d /\ n * d \in Nat
    OBVIOUS
  <2>3. n * longest \in Nat
    OBVIOUS
  <2> QED BY <2>1, <2>2, <2>3
<1>3. (n + 1) * l = n * l + l /\ n * l \in Nat /\ n * longest \in Nat
  BY <1>1
<1> QED BY <1>1, <1>2, <1>3 DEF l

(* An average over one cycle too few is at most twice the longest.         *)
LEMMA AverageBounded ==
    ASSUME NEW n \in Nat, NEW longest \in Nat, NEW total \in Nat, NEW count \in Nat \ {0},
           total <= n * longest, n <= count + 1
    PROVE  total \div count <= 2 * longest
<1>1. n * longest <= (count + 1) * longest
  <2>1. PICK d \in Nat : count + 1 = n + d
    OBVIOUS
  <2>2. (n + d) * longest = n * longest + d * longest /\ d * longest \in Nat /\ n * longest \in Nat
    OBVIOUS
  <2> QED BY <2>1, <2>2
<1>2. (count + 1) * longest <= count * (2 * longest)
  <2>1. PICK d \in Nat : count = d + 1
    OBVIOUS
  <2>2. d * longest \in Nat
    OBVIOUS
  <2>3. (d + 2) * longest = d * longest + 2 * longest /\ (d + 1) * (2 * longest) = 2 * (d * longest) + 2 * longest
    OBVIOUS
  <2> QED BY <2>1, <2>2, <2>3
<1>3. total <= count * (2 * longest)
  <2>1. n * longest \in Nat /\ (count + 1) * longest \in Nat /\ count * (2 * longest) \in Nat
    OBVIOUS
  <2> QED BY <1>1, <1>2, <2>1
<1>4. \A q, r \in Nat : \A b \in Nat : q * count + r <= count * b => q <= b
  <2> SUFFICES ASSUME NEW q \in Nat, NEW r \in Nat, NEW b \in Nat, q * count + r <= count * b, q > b
               PROVE  FALSE
    OBVIOUS
  <2>1. PICK d \in Nat : q = b + 1 + d
    OBVIOUS
  <2>2. q * count = count * b + count + d * count /\ d * count \in Nat /\ count * b \in Nat
    BY <2>1
  <2> QED BY <2>2
<1>5. total = (total \div count) * count + (total % count) /\ total \div count \in Nat /\ total % count \in Nat
  OBVIOUS
<1>6. 2 * longest \in Nat
  OBVIOUS
<1> HIDE DEF Larger
<1> QED BY <1>3, <1>4, <1>5, <1>6

-----------------------------------------------------------------------------
(* What a step that changes one task's progress and at most one monitor    *)
(* has to show.                                                            *)
Replaced(t, w, h, r) ==
    /\ work' = [work EXCEPT ![t] = w] /\ w \in WorkRecord
    /\ monitors' = [monitors EXCEPT ![h] = r] /\ r \in MonitorRecord

(* One monitor replaced, the others as they were.                          *)
LEMMA ReplacedIs ==
    ASSUME DeadlineTypeOK, NEW t \in Worker, NEW w, NEW h \in Handle, NEW r, Replaced(t, w, h, r)
    PROVE  /\ work' \in [Worker -> WorkRecord] /\ monitors' \in [Handle -> MonitorRecord]
           /\ work'[t] = w /\ \A u \in Worker : u # t => work'[u] = work[u]
           /\ monitors'[h] = r /\ \A g \in Handle : g # h => monitors'[g] = monitors[g]
<1>1. work \in [Worker -> WorkRecord] /\ monitors \in [Handle -> MonitorRecord]
  BY DEF DeadlineTypeOK
<1> QED BY <1>1 DEF Replaced

(* The monitor that is claimed belongs to nobody.                          *)
LEMMA ClaimMonitorInv ==
    ASSUME DeadlineInv, NEW t \in Worker, ClaimMonitor(t)
    PROVE  DeadlineInv'
<1>1. /\ clk' = clk /\ age' = age /\ truth' = truth /\ report' = report /\ work[t].step = "new"
  BY DEF ClaimMonitor
<1>2. DeadlineTypeOK /\ Owned /\ Tally /\ Unfilled /\ InCycle /\ DeadlineExact /\ DeadlineReportBounded
  BY DEF DeadlineInv
<1>0. work[t] \in WorkRecord /\ work \in [Worker -> WorkRecord] /\ monitors \in [Handle -> MonitorRecord]
  BY <1>2 DEF DeadlineTypeOK
<1>3. CASE FreeMonitors = {}
  <2> DEFINE w == [work[t] EXCEPT !.step = "idle"]
  <2>1. monitors' = monitors /\ work' = [work EXCEPT ![t] = w]
    BY <1>0, <1>3 DEF ClaimMonitor, Goto
  <2>2. w \in WorkRecord /\ w.step = "idle" /\ w.h = work[t].h
    BY <1>0 DEF WorkRecord
  <2> HIDE DEF w
  <2>3. work[t].h \notin Handle
    BY <1>1, <1>2 DEF Owned, Valid
  <2>4. work'[t] = w /\ \A u \in Worker : u # t => work'[u] = work[u]
    BY <1>0, <2>1
  <2>5. DeadlineTypeOK'
    BY <1>0, <1>1, <1>2, <2>1, <2>2 DEF DeadlineTypeOK
  <2>6. Owned'
    BY <1>2, <2>1, <2>2, <2>3, <2>4 DEF Owned, MonitorsNotShared, Valid
  <2>7. Unfilled' /\ Tally' /\ DeadlineReportBounded'
    BY <1>1, <1>2, <2>1, <2>2, <2>4 DEF Unfilled, Unused, Tally, DeadlineReportBounded
  <2>8. InCycle' /\ DeadlineExact'
    BY <1>1, <1>2, <2>1, <2>2, <2>3, <2>4 DEF InCycle, Elapsed, DeadlineExact, Valid
  <2> QED BY <2>5, <2>6, <2>7, <2>8 DEF DeadlineInv
<1>4. CASE FreeMonitors # {}
  <2> DEFINE h == Min(FreeMonitors)
             r == [monitors[h] EXCEPT !.in_use = TRUE]
             w == [work[t] EXCEPT !.step = "fill", !.h = h]
  <2>1. h \in Handle /\ ~monitors[h].in_use
    BY <1>4, FreeLeast DEF FreeMonitors
  <2>2. /\ monitors' = [monitors EXCEPT ![h].in_use = TRUE]
        /\ work' = [work EXCEPT ![t].step = "fill", ![t].h = h]
    BY <1>4 DEF ClaimMonitor
  <2> HIDE DEF h
  <2>3. /\ monitors' = [monitors EXCEPT ![h] = r] /\ work' = [work EXCEPT ![t] = w]
    BY <1>0, <2>2
  <2>4. /\ r \in MonitorRecord /\ r.in_use /\ r.max_ms = monitors[h].max_ms
        /\ r.sum_ms = monitors[h].sum_ms /\ r.cycle_count = monitors[h].cycle_count
    BY <1>0, <2>1 DEF MonitorRecord
  <2>5. w \in WorkRecord /\ w.step = "fill" /\ w.h = h
    BY <1>0, <2>1 DEF WorkRecord
  <2> HIDE DEF r, w
  <2>6. /\ work' \in [Worker -> WorkRecord] /\ monitors' \in [Handle -> MonitorRecord]
        /\ work'[t] = w /\ \A u \in Worker : u # t => work'[u] = work[u]
        /\ monitors'[h] = r /\ \A g \in Handle : g # h => monitors'[g] = monitors[g]
    BY <1>2, <2>1, <2>3, <2>4, <2>5, ReplacedIs DEF Replaced
  <2>7. \A u \in Worker : work[u].h # h
    BY <1>2, <2>1 DEF Owned, Valid
  <2>8. DeadlineTypeOK'
    BY <1>1, <1>2, <2>6 DEF DeadlineTypeOK
  <2>9. Owned'
    BY <1>2, <2>1, <2>4, <2>5, <2>6, <2>7 DEF Owned, MonitorsNotShared, Valid
  <2>10. Unfilled'
    BY <1>1, <1>2, <2>1, <2>4, <2>5, <2>6, <2>7 DEF Unfilled, Unused, Owned, Valid
  <2>11. Tally'
    BY <1>1, <1>2, <2>4, <2>6 DEF Tally
  <2>12. InCycle' /\ DeadlineExact' /\ DeadlineReportBounded'
    BY <1>1, <1>2, <2>5, <2>6, <2>7
    DEF InCycle, Elapsed, DeadlineExact, Valid, Owned, DeadlineReportBounded
  <2> QED BY <2>8, <2>9, <2>10, <2>11, <2>12 DEF DeadlineInv
<1> QED BY <1>3, <1>4

(* Only the claimer's monitor is filled in, and nothing was measured with  *)
(* it.                                                                     *)
LEMMA FillMonitorInv ==
    ASSUME DeadlineInv, NEW t \in Worker, NEW b \in Budgets, FillMonitor(t, b)
    PROVE  DeadlineInv'
<1> DEFINE h == work[t].h
           r == [NoMonitor EXCEPT !.in_use = TRUE, !.budget_ms = b, !.min_ms = Forever]
           w == [work[t] EXCEPT !.step = "idle"]
<1>2. DeadlineTypeOK /\ Owned /\ Tally /\ Unfilled /\ InCycle /\ DeadlineExact /\ DeadlineReportBounded
  BY DEF DeadlineInv
<1>0. work[t] \in WorkRecord /\ work \in [Worker -> WorkRecord]
  BY <1>2 DEF DeadlineTypeOK
<1>1. /\ clk' = clk /\ age' = age /\ truth' = truth /\ report' = report /\ work[t].step = "fill"
      /\ monitors' = [monitors EXCEPT ![h] = r] /\ work' = [work EXCEPT ![t] = w]
  BY <1>0 DEF FillMonitor, Goto
<1>3. h \in Handle /\ Unused(h)
  BY <1>1, <1>2 DEF Owned, Valid, Unfilled
<1>4. /\ r \in MonitorRecord
      /\ r.in_use /\ r.max_ms = 0 /\ r.sum_ms = 0 /\ r.cycle_count = 0 /\ r.overrun_count = 0
  <2>1. b \in Nat /\ Forever \in Nat /\ 0 \in Millis
    BY MonitorAssumption DEF Forever, Millis
  <2> QED BY <2>1 DEF NoMonitor, MonitorRecord
<1>5. w \in WorkRecord /\ w.step = "idle" /\ w.h = h
  BY <1>0 DEF WorkRecord
<1> HIDE DEF r, w
<1>6. /\ work' \in [Worker -> WorkRecord] /\ monitors' \in [Handle -> MonitorRecord]
      /\ work'[t] = w /\ \A u \in Worker : u # t => work'[u] = work[u]
      /\ monitors'[h] = r /\ \A g \in Handle : g # h => monitors'[g] = monitors[g]
  BY <1>1, <1>2, <1>3, <1>4, <1>5, ReplacedIs DEF Replaced
<1>7. \A u \in Worker : u # t => work[u].h # h
  BY <1>2, <1>3 DEF Owned, MonitorsNotShared, Valid
<1>8. DeadlineTypeOK'
  BY <1>1, <1>2, <1>6 DEF DeadlineTypeOK
<1>9. Owned'
  BY <1>2, <1>3, <1>4, <1>5, <1>6, <1>7 DEF Owned, MonitorsNotShared, Valid
<1>10. Unfilled'
  BY <1>1, <1>2, <1>4, <1>5, <1>6, <1>7 DEF Unfilled, Unused, Owned, Valid
<1>11. Tally'
  BY <1>1, <1>2, <1>3, <1>4, <1>6, MonitorAssumption DEF Tally, Unused
<1>12. InCycle'
  BY <1>1, <1>2, <1>5, <1>6, <1>7 DEF InCycle, Elapsed, Owned, Valid
<1>13. DeadlineExact' /\ DeadlineReportBounded'
  BY <1>1, <1>2, <1>3, <1>4, <1>5, <1>6, <1>7 DEF DeadlineExact, Unused, Valid, DeadlineReportBounded
<1> QED BY <1>8, <1>9, <1>10, <1>11, <1>12, <1>13 DEF DeadlineInv

(* A cycle begins.                                                         *)
LEMMA BeginInv ==
    ASSUME DeadlineInv, NEW t \in Worker, deadline_monitor_begin(t)
    PROVE  DeadlineInv'
<1> DEFINE h == work[t].h
           m == monitors[h]
           r == [m EXCEPT !.active = TRUE, !.start_ms = clk]
           w == [work[t] EXCEPT !.step = "busy"]
<1>2. DeadlineTypeOK /\ Owned /\ Tally /\ Unfilled /\ InCycle /\ DeadlineExact /\ DeadlineReportBounded
  BY DEF DeadlineInv
<1>3. h \in Handle /\ m.in_use /\ work[t].step = "idle"
  BY DEF deadline_monitor_begin, Valid
<1>0. /\ work[t] \in WorkRecord /\ work \in [Worker -> WorkRecord]
      /\ m \in MonitorRecord /\ monitors \in [Handle -> MonitorRecord]
      /\ clk \in Millis /\ age \in [Worker -> Millis] /\ 0 \in Millis
  BY <1>2, <1>3, MonitorAssumption DEF DeadlineTypeOK, Millis
<1>1. /\ clk' = clk /\ age' = [age EXCEPT ![t] = 0] /\ truth' = truth /\ report' = report
      /\ monitors' = [monitors EXCEPT ![h] = r] /\ work' = [work EXCEPT ![t] = w]
  BY <1>0, <1>3 DEF deadline_monitor_begin, Goto
<1>4. /\ r \in MonitorRecord
      /\ r.in_use /\ r.max_ms = m.max_ms /\ r.sum_ms = m.sum_ms /\ r.start_ms = clk
      /\ r.cycle_count = m.cycle_count /\ r.overrun_count = m.overrun_count
  BY <1>0, <1>3 DEF MonitorRecord
<1>5. w \in WorkRecord /\ w.step = "busy" /\ w.h = h
  BY <1>0 DEF WorkRecord
<1> HIDE DEF r, w
<1>6. /\ work' \in [Worker -> WorkRecord] /\ monitors' \in [Handle -> MonitorRecord]
      /\ work'[t] = w /\ \A u \in Worker : u # t => work'[u] = work[u]
      /\ monitors'[h] = r /\ \A g \in Handle : g # h => monitors'[g] = monitors[g]
  BY <1>1, <1>2, <1>3, <1>4, <1>5, ReplacedIs DEF Replaced
<1>7. \A u \in Worker : u # t => work[u].h # h
  BY <1>2, <1>3 DEF Owned, MonitorsNotShared, Valid
<1>8. DeadlineTypeOK' /\ age'[t] = 0 /\ \A u \in Worker : u # t => age'[u] = age[u]
  BY <1>0, <1>1, <1>2, <1>6 DEF DeadlineTypeOK
<1>9. Owned'
  BY <1>2, <1>3, <1>4, <1>5, <1>6, <1>7 DEF Owned, MonitorsNotShared, Valid
<1>10. Unfilled'
  BY <1>1, <1>2, <1>3, <1>4, <1>5, <1>6, <1>7 DEF Unfilled, Unused, Owned, Valid
<1>11. Tally'
  BY <1>1, <1>2, <1>3, <1>4, <1>6 DEF Tally
<1>12. InCycle'
  <2>1. (clk - clk) % ClockModulus = 0
    BY <1>0, MonitorAssumption DEF Millis
  <2> QED BY <1>1, <1>2, <1>4, <1>5, <1>6, <1>7, <1>8, <2>1 DEF InCycle, Elapsed, Owned, Valid
<1>13. DeadlineExact' /\ DeadlineReportBounded'
  BY <1>1, <1>2, <1>3, <1>4, <1>5, <1>6, <1>7 DEF DeadlineExact, Valid, DeadlineReportBounded
<1> QED BY <1>8, <1>9, <1>10, <1>11, <1>12, <1>13 DEF DeadlineInv

(* The first half of deadline_monitor_end.                                 *)
LEMMA EndAddsInv ==
    ASSUME DeadlineInv, NEW t \in Worker, deadline_monitor_end(t), work[t].step = "busy"
    PROVE  DeadlineInv'
<1> DEFINE h == work[t].h
           m == monitors[h]
           e == Elapsed(m)
           r == [Extremes(m, e) EXCEPT !.active = FALSE, !.sum_ms = (@ + e) % ClockModulus]
           w == [work[t] EXCEPT !.step = "ending", !.elapsed = e]
           x == [n |-> truth[h].n + 1, over |-> truth[h].over + (IF age[t] > m.budget_ms THEN 1 ELSE 0),
                 longest |-> Larger(truth[h].longest, age[t]), total |-> truth[h].total + age[t]]
<1>2. DeadlineTypeOK /\ Owned /\ Tally /\ Unfilled /\ InCycle /\ DeadlineExact /\ DeadlineReportBounded
  BY DEF DeadlineInv
<1>3. h \in Handle /\ m.in_use
  BY <1>2 DEF Owned, Valid
<1>0. /\ work[t] \in WorkRecord /\ work \in [Worker -> WorkRecord]
      /\ m \in MonitorRecord /\ monitors \in [Handle -> MonitorRecord]
      /\ truth[h] \in TruthRecord /\ truth \in [Handle -> TruthRecord]
  BY <1>2, <1>3 DEF DeadlineTypeOK
<1>1. /\ clk' = clk /\ age' = age /\ report' = report /\ truth' = [truth EXCEPT ![h] = x]
      /\ monitors' = [monitors EXCEPT ![h] = r] /\ work' = [work EXCEPT ![t] = w]
  BY <1>0, <1>3 DEF deadline_monitor_end
<1>4. e = age[t] /\ e \in Nat
  BY <1>2, MonitorAssumption DEF InCycle, DeadlineTypeOK, Millis
<1> HIDE DEF e
<1>5. /\ r \in MonitorRecord
      /\ r.in_use /\ r.max_ms = Larger(m.max_ms, e) /\ r.sum_ms = (m.sum_ms + e) % ClockModulus
      /\ r.cycle_count = m.cycle_count /\ r.overrun_count = m.overrun_count /\ r.budget_ms = m.budget_ms
  <2>1. /\ m.min_ms \in Nat /\ m.max_ms \in Nat /\ m.sum_ms \in Nat
        /\ Smaller(m.min_ms, e) \in Nat /\ Larger(m.max_ms, e) \in Nat
    BY <1>0, <1>4 DEF MonitorRecord, Smaller, Larger
  <2>2. (m.sum_ms + e) % ClockModulus \in Nat
    BY <1>4, <2>1, MonitorAssumption
  <2>3. Extremes(m, e) = [m EXCEPT !.min_ms = Smaller(m.min_ms, e), !.max_ms = Larger(m.max_ms, e)]
    BY DEF Extremes
  <2>4. r = [m EXCEPT !.min_ms = Smaller(m.min_ms, e), !.max_ms = Larger(m.max_ms, e),
                      !.active = FALSE, !.sum_ms = (m.sum_ms + e) % ClockModulus]
    BY <1>0, <2>3 DEF MonitorRecord
  <2> HIDE DEF r, m
  <2> QED BY <1>0, <1>3, <2>1, <2>2, <2>4 DEF MonitorRecord
<1>6. /\ x \in TruthRecord /\ x.n = truth[h].n + 1
      /\ x.over = truth[h].over + (IF e > m.budget_ms THEN 1 ELSE 0)
      /\ x.longest = Larger(truth[h].longest, e) /\ x.total = truth[h].total + e
      /\ truth[h].total <= x.total
  BY <1>0, <1>4 DEF Larger, TruthRecord
<1>7. w \in WorkRecord /\ w.step = "ending" /\ w.h = h /\ w.elapsed = e
  BY <1>0, <1>4 DEF WorkRecord
<1> HIDE DEF r, w, x
<1>8. /\ work' \in [Worker -> WorkRecord] /\ monitors' \in [Handle -> MonitorRecord]
      /\ work'[t] = w /\ \A u \in Worker : u # t => work'[u] = work[u]
      /\ monitors'[h] = r /\ \A g \in Handle : g # h => monitors'[g] = monitors[g]
  BY <1>1, <1>2, <1>3, <1>5, <1>7, ReplacedIs DEF Replaced
<1>9. /\ truth' \in [Handle -> TruthRecord]
      /\ truth'[h] = x /\ \A g \in Handle : g # h => truth'[g] = truth[g]
  BY <1>0, <1>1, <1>3, <1>6
<1>10. \A u \in Worker : u # t => work[u].h # h
  BY <1>2, <1>3 DEF Owned, MonitorsNotShared, Valid
<1>11. DeadlineTypeOK'
  BY <1>1, <1>2, <1>8, <1>9 DEF DeadlineTypeOK
<1>12. Owned'
  BY <1>2, <1>3, <1>5, <1>7, <1>8, <1>10 DEF Owned, MonitorsNotShared, Valid
<1>13. Unfilled'
  BY <1>2, <1>5, <1>7, <1>8, <1>9, <1>10 DEF Unfilled, Unused, Owned, Valid
<1>14. /\ m.cycle_count = truth[h].n /\ m.overrun_count = truth[h].over
       /\ m.max_ms = truth[h].longest /\ m.sum_ms = truth[h].total % ClockModulus
       /\ truth[h].total <= truth[h].n * truth[h].longest
  BY <1>2, <1>3 DEF DeadlineExact, Valid, Tally
<1>15. Tally'
  <2>1. truth[h].total \in Nat /\ truth[h].n \in Nat /\ truth[h].longest \in Nat
    BY <1>0 DEF TruthRecord
  <2>2. ((truth[h].total % ClockModulus) + e) % ClockModulus = (truth[h].total + e) % ClockModulus
    <3>1. ClockModulus \in Nat /\ ClockModulus > 0 /\ truth[h].total \in Int /\ e \in Int
      BY <1>4, <2>1, MonitorAssumption
    <3> QED BY <3>1, SumWraps
  <2>3. truth[h].total + e <= (truth[h].n + 1) * Larger(truth[h].longest, e)
    BY <1>4, <1>14, <2>1, TotalGrows
  <2> HIDE DEF m, h
  <2>4. /\ r.cycle_count <= x.n /\ x.n <= r.cycle_count + 1 /\ r.max_ms = x.longest
        /\ r.sum_ms = x.total % ClockModulus /\ x.total <= x.n * x.longest
    BY <1>5, <1>6, <1>14, <2>1, <2>2, <2>3
  <2> QED BY <1>2, <1>8, <1>9, <2>4 DEF Tally
<1>16. InCycle'
  <2>1. x.n = r.cycle_count + 1 /\ x.over = r.overrun_count + (IF e > r.budget_ms THEN 1 ELSE 0)
    BY <1>5, <1>6, <1>14
  <2> QED BY <1>1, <1>2, <1>7, <1>8, <1>9, <1>10, <2>1 DEF InCycle, Elapsed, Owned, Valid
<1>17. DeadlineExact'
  BY <1>2, <1>7, <1>8, <1>9, <1>10 DEF DeadlineExact, Valid
<1>18. DeadlineReportBounded'
  <2>1. report.h \in Handle /\ truth[report.h].total <= truth'[report.h].total
        /\ truth[report.h].total \in Nat /\ truth'[report.h].total \in Nat
    BY <1>2, <1>0, <1>6, <1>9 DEF DeadlineTypeOK, TruthRecord
  <2> QED BY <1>1, <1>2, <2>1, MonitorAssumption DEF DeadlineReportBounded
<1> QED BY <1>11, <1>12, <1>13, <1>15, <1>16, <1>17, <1>18 DEF DeadlineInv

(* The second half, which counts.                                          *)
LEMMA EndCountsInv ==
    ASSUME DeadlineInv, NEW t \in Worker, deadline_monitor_end(t), work[t].step = "ending"
    PROVE  DeadlineInv'
<1> DEFINE h == work[t].h
           m == monitors[h]
           r == Counted(m, work[t].elapsed)
           w == [work[t] EXCEPT !.step = "idle"]
<1>2. DeadlineTypeOK /\ Owned /\ Tally /\ Unfilled /\ InCycle /\ DeadlineExact /\ DeadlineReportBounded
  BY DEF DeadlineInv
<1>3. h \in Handle /\ m.in_use
  BY <1>2 DEF Owned, Valid
<1>0. /\ work[t] \in WorkRecord /\ work \in [Worker -> WorkRecord]
      /\ m \in MonitorRecord /\ monitors \in [Handle -> MonitorRecord]
  BY <1>2, <1>3 DEF DeadlineTypeOK
<1>1. /\ clk' = clk /\ age' = age /\ report' = report /\ truth' = truth
      /\ monitors' = [monitors EXCEPT ![h] = r] /\ work' = [work EXCEPT ![t] = w]
  BY <1>0, <1>3 DEF deadline_monitor_end, Goto
<1>4. /\ r \in MonitorRecord
      /\ r.in_use /\ r.max_ms = m.max_ms /\ r.sum_ms = m.sum_ms
      /\ r.cycle_count = m.cycle_count + 1
      /\ r.overrun_count = m.overrun_count + (IF work[t].elapsed > m.budget_ms THEN 1 ELSE 0)
  <2> DEFINE o == IF work[t].elapsed > m.budget_ms THEN m.overrun_count + 1 ELSE m.overrun_count
  <2>1. m.cycle_count + 1 \in Nat /\ o \in Nat
        /\ o = m.overrun_count + (IF work[t].elapsed > m.budget_ms THEN 1 ELSE 0)
    BY <1>0 DEF MonitorRecord
  <2>2. r = [m EXCEPT !.cycle_count = m.cycle_count + 1, !.overrun_count = o]
    BY <1>0 DEF Counted, MonitorRecord
  <2> HIDE DEF r, m, o
  <2> QED BY <1>0, <1>3, <2>1, <2>2 DEF MonitorRecord
<1>5. w \in WorkRecord /\ w.step = "idle" /\ w.h = h
  BY <1>0 DEF WorkRecord
<1> HIDE DEF r, w
<1>6. /\ work' \in [Worker -> WorkRecord] /\ monitors' \in [Handle -> MonitorRecord]
      /\ work'[t] = w /\ \A u \in Worker : u # t => work'[u] = work[u]
      /\ monitors'[h] = r /\ \A g \in Handle : g # h => monitors'[g] = monitors[g]
  BY <1>1, <1>2, <1>3, <1>4, <1>5, ReplacedIs DEF Replaced
<1>7. \A u \in Worker : u # t => work[u].h # h
  BY <1>2, <1>3 DEF Owned, MonitorsNotShared, Valid
<1>8. DeadlineTypeOK'
  BY <1>1, <1>2, <1>6 DEF DeadlineTypeOK
<1>9. Owned'
  BY <1>2, <1>3, <1>4, <1>5, <1>6, <1>7 DEF Owned, MonitorsNotShared, Valid
<1>10. Unfilled' /\ DeadlineReportBounded'
  BY <1>1, <1>2, <1>4, <1>5, <1>6, <1>7 DEF Unfilled, Unused, Owned, Valid, DeadlineReportBounded
<1>11. r.cycle_count = truth[h].n /\ r.overrun_count = truth[h].over /\ r.max_ms = truth[h].longest
  BY <1>2, <1>3, <1>4 DEF InCycle, Tally
<1>12. Tally'
  <2>1. r.cycle_count <= truth[h].n /\ truth[h].n <= r.cycle_count + 1
    <3>1. r.cycle_count \in Nat
      BY <1>4 DEF MonitorRecord
    <3> QED BY <1>11, <3>1
  <2> QED BY <1>1, <1>2, <1>3, <1>4, <1>6, <2>1 DEF Tally
<1>13. InCycle'
  BY <1>1, <1>2, <1>5, <1>6, <1>7 DEF InCycle, Elapsed, Owned, Valid
<1>14. DeadlineExact'
  BY <1>1, <1>2, <1>5, <1>6, <1>7, <1>11 DEF DeadlineExact, Valid
<1> QED BY <1>8, <1>9, <1>10, <1>12, <1>13, <1>14 DEF DeadlineInv

(* A report changes no monitor, and its average is bounded at every        *)
(* moment.                                                                 *)
LEMMA ReportInv ==
    ASSUME DeadlineInv, NEW h \in Handle, deadline_monitor_report(h)
    PROVE  DeadlineInv'
<1> DEFINE m == monitors[h]
<1>1. /\ clk' = clk /\ age' = age /\ truth' = truth /\ work' = work /\ monitors' = monitors
      /\ m.cycle_count > 0
      /\ report' = [avg |-> m.sum_ms \div m.cycle_count, max |-> m.max_ms, h |-> h,
                    half |-> truth[h].n > m.cycle_count]
  BY DEF deadline_monitor_report
<1>2. DeadlineTypeOK /\ Owned /\ Tally /\ Unfilled /\ InCycle /\ DeadlineExact /\ DeadlineReportBounded
  BY DEF DeadlineInv
<1>3. /\ m.sum_ms \in Nat /\ m.cycle_count \in Nat \ {0} /\ m.max_ms \in Nat
      /\ truth[h].n \in Nat /\ truth[h].total \in Nat /\ truth[h].longest \in Nat
  BY <1>1, <1>2 DEF DeadlineTypeOK, MonitorRecord, TruthRecord
<1>4. m.sum_ms \div m.cycle_count \in Nat
  BY <1>3
<1>5. DeadlineTypeOK'
  BY <1>1, <1>2, <1>3, <1>4 DEF DeadlineTypeOK
<1>6. DeadlineReportBounded'
  <2> SUFFICES ASSUME truth[h].total < ClockModulus PROVE m.sum_ms \div m.cycle_count <= 2 * m.max_ms
    BY <1>1 DEF DeadlineReportBounded
  <2>1. m.sum_ms = truth[h].total
    <3>1. m.sum_ms = truth[h].total % ClockModulus
      BY <1>2 DEF Tally
    <3>2. \A M \in Nat : \A n \in Nat : n < M => n % M = n
      OBVIOUS
    <3>3. ClockModulus \in Nat
      BY MonitorAssumption
    <3> QED BY <1>3, <3>1, <3>2, <3>3
  <2> QED BY <1>2, <1>3, <2>1, AverageBounded DEF Tally
<1>7. Owned' /\ Tally' /\ Unfilled' /\ InCycle' /\ DeadlineExact'
  BY <1>1, <1>2 DEF Owned, MonitorsNotShared, Valid, Unfilled, Unused, Tally, InCycle, Elapsed, DeadlineExact
<1> QED BY <1>5, <1>6, <1>7 DEF DeadlineInv

(* Every call of a deadline monitor keeps the invariant.                   *)
LEMMA DeadlineStep == DeadlineInv /\ [DeadlineNext]_monitorVars => DeadlineInv'
<1> SUFFICES ASSUME DeadlineInv, [DeadlineNext]_monitorVars PROVE DeadlineInv'
  OBVIOUS
<1>1. CASE UNCHANGED monitorVars
  BY <1>1 DEF monitorVars, deadlineVars, DeadlineInv, DeadlineTypeOK, Owned, MonitorsNotShared, Valid,
       Unfilled, Unused, Tally, InCycle, Elapsed, DeadlineExact, DeadlineReportBounded
<1>2. ASSUME NEW t \in Worker, deadline_monitor_end(t) PROVE DeadlineInv'
  <2>1. work[t].step \in {"busy", "ending"}
    BY <1>2 DEF deadline_monitor_end
  <2> QED BY <1>2, <2>1, EndAddsInv, EndCountsInv
<1>3. CASE DeadlineNext
  BY <1>2, <1>3, DeadlineTick, ReportInv, ClaimMonitorInv, FillMonitorInv, BeginInv DEF DeadlineNext
<1> QED BY <1>1, <1>3
-----------------------------------------------------------------------------
(* Jitter monitors.                                                        *)

JitterRecord ==
    [in_use : {TRUE}, period_ms : {JitterPeriod}, expected_ms : Millis,
     baseline_set : BOOLEAN, min : Nat, max : Nat, sample_count : Nat]

(* The schedule that the first mark laid down is the expected time, modulo *)
(* the clock.                                                              *)
OnSchedule(t) ==
    IF jitter[t].in_use
    THEN /\ jitter[t] \in JitterRecord
         /\ jitter[t].max = late[t].worst /\ jitter[t].min = late[t].best
         /\ IF jitter[t].baseline_set
            THEN \E q \in Int : clk - jitter[t].expected_ms =
                                 late[t].now + age[t] - JitterPeriod + q * ClockModulus
            ELSE late[t].now = 0
    ELSE late[t] = [now |-> 0, best |-> Forever, worst |-> 0]

LateRecord == [now : Int, best : Nat, worst : Nat]

JitterInv ==
    /\ clk \in Millis /\ age \in [Worker -> Nat]
    /\ jitter = [t \in Worker |-> jitter[t]]
    /\ late \in [Worker -> LateRecord]
    /\ \A t \in Worker : OnSchedule(t)

(* No schedule has been laid down.                                         *)
LEMMA JitterInitInv == MonitorInit => JitterInv
<1> SUFFICES ASSUME MonitorInit PROVE JitterInv
  OBVIOUS
<1>1. clk \in Millis /\ age \in [Worker -> Nat] /\ Forever \in Nat
  BY MonitorAssumption DEF MonitorInit, Millis, Forever
<1>2. late \in [Worker -> LateRecord]
  BY <1>1 DEF MonitorInit, LateRecord
<1>3. jitter = [t \in Worker |-> jitter[t]] /\ \A t \in Worker : ~jitter[t].in_use
  BY DEF MonitorInit
<1>4. \A t \in Worker : late[t] = [now |-> 0, best |-> Forever, worst |-> 0]
  BY DEF MonitorInit
<1> QED BY <1>1, <1>2, <1>3, <1>4 DEF JitterInv, OnSchedule

(* |(int32_t)(now - expected)| is the true distance.                       *)
LEMMA DistanceTrue ==
    ASSUME NEW e \in Millis, NEW off \in Int, clk \in Millis, NEW q \in Int,
           clk - e = off + q * ClockModulus, Abs(off) < ClockModulus \div 2
    PROVE  Distance(clk, e) = Abs(off)
<1> DEFINE M == ClockModulus
           x == clk - e
           d == x % M
<1>1. PICK h \in Nat : M = 2 * h /\ M \div 2 = h /\ M \in Nat /\ M > 0 /\ h > 0
  BY MonitorAssumption
<1>2. -h < off /\ off < h /\ x \in Int /\ x = off + q * M
  BY <1>1 DEF Abs, Millis
<1>3. Distance(clk, e) = Abs(IF d >= M \div 2 THEN d - M ELSE d)
  BY DEF Distance
<1> HIDE DEF M, x
<1>4. CASE off >= 0
  <2>1. off \in 0 .. M - 1 /\ x = q * M + off
    BY <1>1, <1>2, <1>4
  <2>2. d = off
    BY <1>1, <1>2, <2>1, ModUnique
  <2> HIDE DEF d
  <2> QED BY <1>1, <1>2, <1>3, <1>4, <2>2 DEF Abs
<1>5. CASE off < 0
  <2>1. off + M \in 0 .. M - 1 /\ x = (q - 1) * M + (off + M) /\ q - 1 \in Int
    BY <1>1, <1>2, <1>5
  <2>2. d = off + M
    BY <1>1, <1>2, <2>1, ModUnique
  <2> HIDE DEF d
  <2>3. d >= h /\ d - M = off
    BY <1>1, <1>2, <2>2
  <2> QED BY <1>1, <1>3, <2>3
<1> QED BY <1>4, <1>5

(* The clock one millisecond later.                                        *)
LEMMA NextMilli ==
    ASSUME clk \in Millis
    PROVE  /\ (clk + 1) % ClockModulus \in Millis
           /\ \E q \in Int : (clk + 1) % ClockModulus = clk + 1 + q * ClockModulus
<1>1. ClockModulus \in Nat /\ ClockModulus > 1 /\ clk \in 0 .. ClockModulus - 1
  BY MonitorAssumption DEF Millis
<1>2. CASE clk = ClockModulus - 1
  <2>1. (clk + 1) % ClockModulus = 0 /\ 0 = clk + 1 + (-1) * ClockModulus
    BY <1>1, <1>2
  <2>2. \E q \in Int : 0 = clk + 1 + q * ClockModulus
    BY <2>1, -1 \in Int
  <2>3. 0 \in Millis
    BY <1>1 DEF Millis
  <2> QED BY <2>1, <2>2, <2>3
<1>3. CASE clk # ClockModulus - 1
  <2>1. (clk + 1) % ClockModulus = clk + 1 /\ clk + 1 = clk + 1 + 0 * ClockModulus
    BY <1>1, <1>3
  <2>2. \E q \in Int : clk + 1 = clk + 1 + q * ClockModulus
    BY <2>1, 0 \in Int
  <2>3. clk + 1 \in Millis
    BY <1>1, <1>3 DEF Millis
  <2> QED BY <2>1, <2>2, <2>3
<1> QED BY <1>2, <1>3

(* A millisecond moves the clock and the age together.                     *)
LEMMA JitterTick == JitterInv /\ MonitorTick => JitterInv'
<1> SUFFICES ASSUME JitterInv, MonitorTick PROVE JitterInv'
  OBVIOUS
<1> DEFINE M == ClockModulus
<1>1. M \in Nat /\ M > 0 /\ JitterPeriod \in Nat /\ clk \in Millis /\ clk \in Int
  BY MonitorAssumption DEF JitterInv, Millis
<1>2. /\ jitter' = jitter /\ late' = late /\ clk' = (clk + 1) % M
      /\ age' = [t \in Worker |-> IF work[t].step \in {"new", "idle"} /\ ~jitter[t].in_use
                                THEN 0 ELSE age[t] + 1]
      /\ age \in [Worker -> Nat] /\ late \in [Worker -> LateRecord]
  BY DEF MonitorTick, jitterVars, JitterInv
<1>3. clk' \in Millis /\ \E q \in Int : clk' = clk + 1 + q * M
  BY <1>1, <1>2, NextMilli
<1>4. age' \in [Worker -> Nat]
  BY <1>2
<1>5. ASSUME NEW t \in Worker PROVE OnSchedule(t)'
  <2>1. OnSchedule(t)
    BY DEF JitterInv
  <2>2. CASE jitter[t].in_use /\ jitter[t].baseline_set
    <3> DEFINE e == jitter[t].expected_ms
               o == late[t].now + age[t] - JitterPeriod
    <3>1. e \in Int
      <4>1. jitter[t] \in JitterRecord
        BY <2>1, <2>2 DEF OnSchedule
      <4>2. e \in Millis
        BY <4>1 DEF JitterRecord
      <4> QED BY <1>1, <4>2 DEF Millis
    <3>2. late[t].now \in Int /\ age[t] \in Nat /\ o \in Int
      BY <1>1, <1>2 DEF LateRecord
    <3>3. PICK q \in Int : clk - e = o + q * M
      BY <2>1, <2>2 DEF OnSchedule
    <3>4. PICK p \in Int : clk' = clk + 1 + p * M
      BY <1>3
    <3>5. late'[t].now + age'[t] - JitterPeriod = o + 1
      BY <1>1, <1>2, <2>2, <3>2
    <3> HIDE DEF e, o, M
    <3>6. clk' - e = o + 1 + (q + p) * M /\ q + p \in Int
      BY <1>1, <3>1, <3>2, <3>3, <3>4
    <3> QED BY <1>2, <2>1, <2>2, <3>5, <3>6 DEF OnSchedule, e, M
  <2>3. CASE ~(jitter[t].in_use /\ jitter[t].baseline_set)
    BY <1>2, <2>1, <2>3 DEF OnSchedule
  <2> QED BY <2>2, <2>3
<1> QED BY <1>2, <1>3, <1>4, <1>5 DEF JitterInv

(* A new jitter monitor has no sample.                                     *)
LEMMA JitterCreateInv ==
    ASSUME JitterInv, NEW t \in Worker, jitter_monitor_create(t)
    PROVE  JitterInv'
<1> DEFINE r == [in_use |-> TRUE, period_ms |-> JitterPeriod, expected_ms |-> 0, baseline_set |-> FALSE,
                 min |-> Forever, max |-> 0, sample_count |-> 0]
<1>1. /\ jitter' = [jitter EXCEPT ![t] = r] /\ clk' = clk /\ age' = age /\ late' = late /\ ~jitter[t].in_use
  BY DEF jitter_monitor_create
<1>2. r \in JitterRecord /\ r.in_use /\ r.max = 0 /\ r.min = Forever /\ ~r.baseline_set
  BY MonitorAssumption DEF JitterRecord, Forever, Millis
<1> HIDE DEF r
<1>3. jitter' = [u \in Worker |-> IF u = t THEN r ELSE jitter[u]]
  <2> DEFINE J == [u \in Worker |-> jitter[u]]
  <2>1. jitter = J
    BY DEF JitterInv
  <2>2. [J EXCEPT ![t] = r] = [u \in Worker |-> IF u = t THEN r ELSE J[u]] /\ \A u \in Worker : J[u] = jitter[u]
    OBVIOUS
  <2> HIDE DEF J
  <2> QED BY <1>1, <2>1, <2>2
<1>4. late[t] = [now |-> 0, best |-> Forever, worst |-> 0]
  BY <1>1 DEF JitterInv, OnSchedule
<1>5. OnSchedule(t)'
  BY <1>1, <1>2, <1>3, <1>4 DEF OnSchedule
<1>6. \A u \in Worker : u # t => OnSchedule(u)'
  BY <1>1, <1>3 DEF JitterInv, OnSchedule
<1>7. jitter' = [u \in Worker |-> jitter'[u]]
  BY <1>3
<1> QED BY <1>1, <1>5, <1>6, <1>7 DEF JitterInv

(* The first mark lays the schedule down, each later one measures against  *)
(* it.                                                                     *)
LEMMA JitterMarkInv ==
    ASSUME JitterInv, NEW t \in Worker, jitter_monitor_mark(t)
    PROVE  JitterInv'
<1> DEFINE M == ClockModulus
           m == jitter[t]
           j == Distance(clk, m.expected_ms)
           off == late[t].now + age[t] - JitterPeriod
<1>1. /\ m.in_use /\ clk' = clk /\ age' = [age EXCEPT ![t] = 0]
      /\ M \in Nat /\ M > 0 /\ JitterPeriod \in Nat
  BY MonitorAssumption DEF jitter_monitor_mark
<1>2. /\ m \in JitterRecord /\ OnSchedule(t) /\ late \in [Worker -> LateRecord] /\ late[t] \in LateRecord
      /\ clk \in Millis /\ age \in [Worker -> Nat]
  BY <1>1 DEF JitterInv, OnSchedule
<1>3. /\ m.expected_ms \in Millis /\ m.period_ms = JitterPeriod /\ m.min \in Nat /\ m.max \in Nat
      /\ m.sample_count \in Nat /\ clk \in Int /\ m.expected_ms \in Int /\ off \in Int
      /\ m.max = late[t].worst /\ m.min = late[t].best
  <2>1. /\ m.expected_ms \in Millis /\ m.period_ms = JitterPeriod /\ m.min \in Nat /\ m.max \in Nat
        /\ m.sample_count \in Nat
    BY <1>2 DEF JitterRecord
  <2>2. clk \in Int /\ m.expected_ms \in Int
    BY <1>1, <1>2, <2>1 DEF Millis
  <2>3. late[t].now \in Int /\ age[t] \in Nat
    BY <1>2 DEF LateRecord
  <2>4. m.max = late[t].worst /\ m.min = late[t].best
    BY <1>1, <1>2 DEF OnSchedule
  <2> QED BY <1>1, <2>1, <2>2, <2>3, <2>4
<1>4. age' \in [Worker -> Nat] /\ age'[t] = 0 /\ \A u \in Worker : u # t => age'[u] = age[u]
  BY <1>1, <1>2
<1>5. ASSUME NEW r, jitter' = [jitter EXCEPT ![t] = r]
      PROVE  /\ jitter' = [u \in Worker |-> jitter'[u]] /\ jitter'[t] = r
             /\ \A u \in Worker : u # t => jitter'[u] = jitter[u]
  <2> DEFINE J == [u \in Worker |-> jitter[u]]
  <2>1. jitter = J
    BY DEF JitterInv
  <2>2. [J EXCEPT ![t] = r] = [u \in Worker |-> IF u = t THEN r ELSE J[u]] /\ \A u \in Worker : J[u] = jitter[u]
    OBVIOUS
  <2> HIDE DEF J
  <2>3. jitter' = [u \in Worker |-> IF u = t THEN r ELSE jitter[u]]
    BY <1>5, <2>1, <2>2
  <2> QED BY <2>3
<1>6. CASE ~m.baseline_set
  <2> DEFINE e == (clk + m.period_ms) % M
             r == [m EXCEPT !.expected_ms = e, !.baseline_set = TRUE]
  <2>1. late' = late /\ jitter' = [jitter EXCEPT ![t].expected_ms = e, ![t].baseline_set = TRUE]
    BY <1>6 DEF jitter_monitor_mark
  <2>2. e \in Millis /\ e \in Int /\ \E q \in Int : e = clk + JitterPeriod + q * M
    <3> DEFINE x == clk + JitterPeriod
    <3>1. x \in Int /\ e = x % M
      BY <1>1, <1>3
    <3> HIDE DEF x
    <3>2. x % M \in 0 .. M - 1 /\ x \div M \in Int /\ x = M * (x \div M) + (x % M)
      BY <1>1, <3>1
    <3>3. x % M = x + (-(x \div M)) * M /\ -(x \div M) \in Int
      BY <1>1, <3>1, <3>2
    <3> QED BY <3>1, <3>2, <3>3 DEF Millis, x
  <2> HIDE DEF e
  <2>3. jitter' = [jitter EXCEPT ![t] = r]
    <3>1. jitter = [u \in Worker |-> jitter[u]]
      BY DEF JitterInv
    <3> QED BY <1>2, <2>1, <3>1 DEF JitterRecord
  <2>4. r \in JitterRecord /\ r.in_use /\ r.expected_ms = e /\ r.baseline_set /\ r.min = m.min /\ r.max = m.max
    BY <1>1, <1>2, <2>2 DEF JitterRecord
  <2> HIDE DEF r
  <2>5. /\ jitter' = [u \in Worker |-> jitter'[u]] /\ jitter'[t] = r
        /\ \A u \in Worker : u # t => jitter'[u] = jitter[u]
    BY <1>5, <2>3
  <2>6. late[t].now = 0
    BY <1>1, <1>2, <1>6 DEF OnSchedule
  <2>7. OnSchedule(t)'
    <3>1. PICK q \in Int : e = clk + JitterPeriod + q * M
      BY <2>2
    <3> HIDE DEF M
    <3>2. clk - e = 0 + 0 - JitterPeriod + (-q) * M /\ -q \in Int
      BY <1>1, <1>3, <2>2, <3>1
    <3>3. late'[t].now + age'[t] - JitterPeriod = 0 + 0 - JitterPeriod
      BY <1>1, <1>4, <2>1, <2>6
    <3>4. \E p \in Int : clk' - jitter'[t].expected_ms = late'[t].now + age'[t] - JitterPeriod + p * M
      BY <1>1, <2>4, <2>5, <3>2, <3>3
    <3>5. jitter'[t].max = late'[t].worst /\ jitter'[t].min = late'[t].best
      BY <1>3, <2>1, <2>4, <2>5
    <3> QED BY <2>4, <2>5, <3>4, <3>5 DEF OnSchedule, M
  <2>8. \A u \in Worker : u # t => OnSchedule(u)'
    BY <1>1, <1>4, <2>1, <2>5 DEF OnSchedule, JitterInv
  <2> QED BY <1>1, <1>2, <1>4, <2>1, <2>5, <2>7, <2>8 DEF JitterInv
<1>7. CASE m.baseline_set
  <2> DEFINE e == (m.expected_ms + m.period_ms) % M
             r == [m EXCEPT !.min = Smaller(@, j), !.max = Larger(@, j), !.sample_count = @ + 1,
                            !.expected_ms = (@ + m.period_ms) % M]
             l == [now |-> off, best |-> Smaller(late[t].best, Abs(off)), worst |-> Larger(late[t].worst, Abs(off))]
  <2>1. /\ Abs(off) < M \div 2 /\ jitter' = [jitter EXCEPT ![t] = r] /\ late' = [late EXCEPT ![t] = l]
    BY <1>2, <1>7 DEF jitter_monitor_mark
  <2>2. PICK q \in Int : clk - m.expected_ms = off + q * M
    BY <1>1, <1>2, <1>7 DEF OnSchedule
  <2>3. j = Abs(off) /\ Abs(off) \in Nat
    BY <1>2, <1>3, <2>1, <2>2, DistanceTrue DEF Abs
  <2>4. e \in Millis /\ e \in Int /\ \E p \in Int : e = m.expected_ms + JitterPeriod + p * M
    <3> DEFINE x == m.expected_ms + JitterPeriod
    <3>1. x \in Int /\ e = x % M
      BY <1>1, <1>3
    <3> HIDE DEF x
    <3>2. x % M \in 0 .. M - 1 /\ x \div M \in Int /\ x = M * (x \div M) + (x % M)
      BY <1>1, <3>1
    <3>3. x % M = x + (-(x \div M)) * M /\ -(x \div M) \in Int
      BY <1>1, <3>1, <3>2
    <3> QED BY <3>1, <3>2, <3>3 DEF Millis, x
  <2>5. Smaller(m.min, j) \in Nat /\ Larger(m.max, j) \in Nat /\ m.sample_count + 1 \in Nat
    BY <1>3, <2>3 DEF Smaller, Larger
  <2>6. r = [m EXCEPT !.min = Smaller(m.min, j), !.max = Larger(m.max, j), !.sample_count = m.sample_count + 1,
                      !.expected_ms = e]
    BY <1>2 DEF JitterRecord
  <2> HIDE DEF r, e, j
  <2>7. /\ r \in JitterRecord /\ r.in_use /\ r.expected_ms = e /\ r.baseline_set
        /\ r.min = Smaller(m.min, j) /\ r.max = Larger(m.max, j)
    BY <1>1, <1>2, <1>7, <2>4, <2>5, <2>6 DEF JitterRecord
  <2>8. l \in LateRecord /\ l.now = off /\ l.best = Smaller(late[t].best, Abs(off))
        /\ l.worst = Larger(late[t].worst, Abs(off))
    BY <1>2, <1>3, <2>3 DEF LateRecord, Smaller, Larger
  <2> HIDE DEF l
  <2>9. /\ jitter' = [u \in Worker |-> jitter'[u]] /\ jitter'[t] = r
        /\ \A u \in Worker : u # t => jitter'[u] = jitter[u]
        /\ late' \in [Worker -> LateRecord] /\ late'[t] = l
        /\ \A u \in Worker : u # t => late'[u] = late[u]
    BY <1>2, <1>5, <2>1, <2>8
  <2>10. OnSchedule(t)'
    <3>1. PICK p \in Int : e = m.expected_ms + JitterPeriod + p * M
      BY <2>4
    <3> DEFINE y == m.expected_ms
    <3>2. y \in Int /\ clk - y = off + q * M /\ e = y + JitterPeriod + p * M
      BY <1>3, <2>2, <3>1
    <3> HIDE DEF M, off, y
    <3>3. clk - e = off + 0 - JitterPeriod + (q - p) * M /\ q - p \in Int
      BY <1>1, <1>3, <2>4, <3>2
    <3>4. r.max = l.worst /\ r.min = l.best
      BY <1>3, <2>3, <2>7, <2>8
    <3> QED BY <1>1, <1>4, <2>7, <2>8, <2>9, <3>3, <3>4 DEF OnSchedule, M
  <2>11. \A u \in Worker : u # t => OnSchedule(u)'
    BY <1>1, <1>4, <2>9 DEF OnSchedule, JitterInv
  <2> QED BY <1>1, <1>2, <1>4, <2>9, <2>10, <2>11 DEF JitterInv
<1> QED BY <1>6, <1>7

(* Every call of a jitter monitor keeps the invariant.                     *)
LEMMA JitterStep == JitterInv /\ [JitterNext]_monitorVars => JitterInv'
<1> SUFFICES ASSUME JitterInv, [JitterNext]_monitorVars PROVE JitterInv'
  OBVIOUS
<1>1. CASE UNCHANGED monitorVars
  BY <1>1 DEF monitorVars, jitterVars, JitterInv, OnSchedule
<1>2. CASE JitterNext
  BY <1>2, JitterTick, JitterCreateInv, JitterMarkInv DEF JitterNext
<1> QED BY <1>1, <1>2
-----------------------------------------------------------------------------
(* The stack.                                                              *)

(* Below the deepest word nothing has been written.                        *)
StackInv ==
    /\ sp \in 0 .. STACK_SIZE - 1 /\ deepest \in 0 .. STACK_SIZE - 1 /\ deepest <= sp
    /\ stack \in [0 .. STACK_SIZE - 1 -> Word \cup {Canary}]
    /\ \A w \in ScanStart .. STACK_SIZE - 1 : w < deepest => stack[w] = 4
    /\ CANARY_INDEX < deepest => stack[CANARY_INDEX] = Canary

(* A filled stack.                                                         *)
LEMMA StackInitInv == MonitorInit => StackInv
BY MonitorAssumption DEF MonitorInit, StackInv, StackFilled, ScanStart, Word, Canary

(* Pushing and popping leave the words below the deepest alone.            *)
LEMMA StackStep == StackInv /\ [StackNext]_monitorVars => StackInv'
<1> SUFFICES ASSUME StackInv, [StackNext]_monitorVars PROVE StackInv'
  OBVIOUS
<1>1. CASE UNCHANGED monitorVars
  BY <1>1 DEF monitorVars, stackVars, StackInv
<1>2. ASSUME NEW n \in {1, 2}, NEW word \in Word, Push(n, word) PROVE StackInv'
  <2>1. /\ sp >= n /\ sp' = sp - n /\ stack' = [stack EXCEPT ![sp - n] = word]
        /\ deepest' = IF deepest < sp - n THEN deepest ELSE sp - n
    BY <1>2 DEF Push, Smaller
  <2>2. /\ STACK_SIZE \in Nat /\ CANARY_INDEX \in Nat /\ ScanStart = CANARY_INDEX + 1
        /\ sp \in 0 .. STACK_SIZE - 1 /\ deepest \in 0 .. STACK_SIZE - 1 /\ deepest <= sp
        /\ stack \in [0 .. STACK_SIZE - 1 -> Word \cup {Canary}]
        /\ CANARY_INDEX < STACK_SIZE
    BY MonitorAssumption DEF StackInv, ScanStart
  <2>3. /\ sp' \in 0 .. STACK_SIZE - 1 /\ deepest' \in 0 .. STACK_SIZE - 1 /\ deepest' <= sp'
        /\ deepest' <= deepest /\ sp - n \in 0 .. STACK_SIZE - 1 /\ deepest' <= sp - n
    BY <2>1, <2>2
  <2>4. stack' \in [0 .. STACK_SIZE - 1 -> Word \cup {Canary}]
    BY <2>1, <2>2, <2>3
  <2>5. \A w \in 0 .. STACK_SIZE - 1 : w < deepest' => stack'[w] = stack[w] /\ w < deepest
    BY <2>1, <2>2, <2>3
  <2> QED BY <2>2, <2>3, <2>4, <2>5 DEF StackInv
<1>3. CASE Pop
  BY <1>3, MonitorAssumption DEF Pop, StackInv
<1> QED BY <1>1, <1>2, <1>3 DEF StackNext

(* What the scan finds: the lowest word that is not the fill pattern.      *)
LEMMA ScanTrue == StackInv => StackUseTrue
<1> SUFFICES ASSUME StackInv PROVE StackUseTrue
  OBVIOUS
<1> DEFINE touched == {w \in ScanStart .. STACK_SIZE - 1 : stack[w] < 4}
           low == Min(touched \cup {STACK_SIZE})
           rem == IF low = STACK_SIZE THEN 0 ELSE stack[low]
           used == stack_monitor_get_used_bytes
<1>1. /\ STACK_SIZE \in Nat /\ CANARY_INDEX \in Nat /\ ScanStart = CANARY_INDEX + 1
      /\ STACK_SIZE > ScanStart /\ STACK_SCAN_START_INDEX = ScanStart
      /\ deepest \in 0 .. STACK_SIZE - 1
      /\ stack \in [0 .. STACK_SIZE - 1 -> 0 .. 5]
  BY MonitorAssumption DEF StackInv, ScanStart, Word, Canary
<1>2. touched \cup {STACK_SIZE} \in SUBSET Nat /\ touched \cup {STACK_SIZE} # {}
  BY <1>1
<1>3. low \in touched \cup {STACK_SIZE} /\ \A w \in touched \cup {STACK_SIZE} : low <= w
  <2>1. \E m \in touched \cup {STACK_SIZE} : \A n \in touched \cup {STACK_SIZE} : m <= n
    BY <1>2, LeastNat
  <2> QED BY <2>1 DEF Min
<1>4. used = 4 * (STACK_SIZE - ScanStart) - (4 * (low - ScanStart) + rem)
  BY DEF stack_monitor_get_used_bytes
<1> HIDE DEF low, used
<1>5. low \in Nat /\ low <= STACK_SIZE /\ ScanStart <= low /\ rem \in 0 .. 3
      /\ (low # STACK_SIZE => low \in touched)
  BY <1>1, <1>3
<1>6. deepest <= low
  BY <1>1, <1>3, <1>5 DEF StackInv
<1> HIDE DEF rem
<1>7. used = 4 * (STACK_SIZE - low) - rem /\ used <= 4 * (STACK_SIZE - deepest) /\ used <= 4 * STACK_SIZE
      /\ used \in Int
  BY <1>1, <1>4, <1>5, <1>6
<1>8. used >= 0
  BY <1>1, <1>3, <1>5, <1>7 DEF rem
<1>9. ASSUME deepest >= STACK_SCAN_START_INDEX, stack[deepest] < 4
      PROVE  used > 4 * (STACK_SIZE - deepest - 1)
  <2>1. deepest \in touched
    BY <1>1, <1>9
  <2>2. low = deepest
    BY <1>1, <1>3, <1>5, <1>6, <2>1
  <2> QED BY <1>1, <1>5, <1>7, <2>2
<1>10. stack_monitor_get_used_percent <= 100
  <2>1. stack_monitor_get_used_percent = (used * 100) \div (STACK_SIZE * 4)
    BY DEF stack_monitor_get_used_percent, used
  <2>2. \A a, b \in Nat : b > 0 /\ a <= 100 * b => a \div b <= 100
    <3> SUFFICES ASSUME NEW a \in Nat, NEW b \in Nat, b > 0, a <= 100 * b, a \div b > 100 PROVE FALSE
      OBVIOUS
    <3>1. a \div b \in Int /\ a % b \in 0 .. b - 1 /\ a = b * (a \div b) + (a % b)
      OBVIOUS
    <3>2. PICK d \in Nat : a \div b = 101 + d
      BY <3>1
    <3>3. b * (101 + d) = 101 * b + b * d /\ b * d \in Nat
      OBVIOUS
    <3> QED BY <3>1, <3>2, <3>3
  <2>3. used * 100 \in Nat /\ STACK_SIZE * 4 \in Nat /\ STACK_SIZE * 4 > 0 /\ used * 100 <= 100 * (STACK_SIZE * 4)
    BY <1>1, <1>7, <1>8
  <2> QED BY <2>1, <2>2, <2>3
<1>11. sched_check_stack_canaries => deepest <= CANARY_INDEX
  BY <1>1 DEF sched_check_stack_canaries, StackInv
<1> QED BY <1>7, <1>9, <1>10, <1>11 DEF StackUseTrue, used
-----------------------------------------------------------------------------
(* What a monitor reports does not change while it is not used.            *)
LEMMA DeadlineQuiet ==
    UNCHANGED deadlineVars =>
       (MonitorsNotShared /\ DeadlineExact /\ DeadlineReportBounded =>
        MonitorsNotShared' /\ DeadlineExact' /\ DeadlineReportBounded')
BY DEF deadlineVars, MonitorsNotShared, DeadlineExact, DeadlineReportBounded, Valid

(* The same of the jitter monitors.                                        *)
LEMMA JitterQuiet == UNCHANGED jitterVars => (JitterExact => JitterExact')
BY DEF jitterVars, JitterExact

(* The same of the stack.                                                  *)
LEMMA StackQuiet == UNCHANGED stackVars => (StackUseTrue => StackUseTrue')
BY DEF stackVars, StackUseTrue, stack_monitor_get_used_bytes, stack_monitor_get_used_percent,
       sched_check_stack_canaries

(* What each monitor's calls leave alone.                                  *)
LEMMA OneMonitorMoves ==
    /\ [DeadlineNext]_monitorVars => UNCHANGED jitterVars /\ UNCHANGED stackVars
    /\ [JitterNext]_monitorVars => UNCHANGED deadlineVars /\ UNCHANGED stackVars
    /\ [StackNext]_monitorVars => UNCHANGED deadlineVars /\ UNCHANGED jitterVars
<1>1. UNCHANGED monitorVars => UNCHANGED deadlineVars /\ UNCHANGED jitterVars /\ UNCHANGED stackVars
  BY DEF monitorVars
<1>2. DeadlineNext => UNCHANGED jitterVars /\ UNCHANGED stackVars
  BY DEF DeadlineNext, MonitorTick, deadline_monitor_report, ClaimMonitor, FillMonitor,
         deadline_monitor_begin, deadline_monitor_end
<1>3. JitterNext => UNCHANGED deadlineVars /\ UNCHANGED stackVars
  BY DEF JitterNext, MonitorTick, jitter_monitor_create, jitter_monitor_mark
<1>4. StackNext => UNCHANGED deadlineVars /\ UNCHANGED jitterVars
  BY DEF StackNext, Push, Pop
<1> QED BY <1>1, <1>2, <1>3, <1>4

(* What the monitors report is true, for any number of tasks and monitors, *)
(* any clock width, budgets and period, and a stack of any size: no two    *)
(* tasks share a monitor, counts and extremes are those of the cycles      *)
(* really run, across every wrap of the counter; a report that cuts into   *)
(* deadline_monitor_end is off by no more than the cycle being added; the  *)
(* jitter is the true distance from the schedule; the high-water mark      *)
(* neither exceeds nor misses the stack used, and the canary check raises  *)
(* no false alarm.                                                         *)
THEOREM MonitorsTruth == MonitorSpec => []MonitorsTrue
<1> DEFINE D == MonitorsNotShared /\ DeadlineExact /\ DeadlineReportBounded
<1>1. MonitorInit => DeadlineInv /\ JitterInv /\ StackInv
  BY DeadlineInitInv, JitterInitInv, StackInitInv
<1>2. DeadlineInv => D
  BY DEF DeadlineInv, Owned
<1>3. JitterInv => JitterExact
  BY DEF JitterInv, OnSchedule, JitterExact
<1>4. StackInv => StackUseTrue
  BY ScanTrue
<1>5. D /\ JitterExact /\ StackUseTrue => MonitorsTrue
  BY DEF MonitorsTrue
<1>6. UNCHANGED deadlineVars /\ D => D'
  BY DeadlineQuiet
<1> HIDE DEF D
<1>7. MonitorInit /\ [][DeadlineNext]_monitorVars => []MonitorsTrue
  <2>1. DeadlineInv /\ JitterExact /\ StackUseTrue /\ [DeadlineNext]_monitorVars =>
          (DeadlineInv /\ JitterExact /\ StackUseTrue)'
    BY DeadlineStep, OneMonitorMoves, JitterQuiet, StackQuiet
  <2> QED BY <1>1, <1>2, <1>3, <1>4, <1>5, <2>1, PTL
<1>8. MonitorInit /\ [][JitterNext]_monitorVars => []MonitorsTrue
  <2>1. D /\ JitterInv /\ StackUseTrue /\ [JitterNext]_monitorVars => (D /\ JitterInv /\ StackUseTrue)'
    BY <1>6, JitterStep, OneMonitorMoves, StackQuiet
  <2> QED BY <1>1, <1>2, <1>3, <1>4, <1>5, <2>1, PTL
<1>9. MonitorInit /\ [][StackNext]_monitorVars => []MonitorsTrue
  <2>1. D /\ JitterExact /\ StackInv /\ [StackNext]_monitorVars => (D /\ JitterExact /\ StackInv)'
    BY <1>6, StackStep, OneMonitorMoves, JitterQuiet
  <2> QED BY <1>1, <1>2, <1>3, <1>4, <1>5, <2>1, PTL
<1> QED BY <1>7, <1>8, <1>9, PTL DEF MonitorSpec
=============================================================================
