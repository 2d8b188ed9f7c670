---------------------------- MODULE SignalProofs ----------------------------
(***************************************************************************)
(* Semaphores and task notifications, for any number of tasks, semaphores  *)
(* and tokens.  The semaphore theorems are about tasks that nobody pauses: *)
(* sched_task_pause overwrites the BLOCKED state of a waiter and leaves it *)
(* on the wait list, where sem_take would link it a second time.           *)
(***************************************************************************)
EXTENDS MCSignals, SchedulerProofs

(* Tasks that were woken for s and have not yet come back to the loop.     *)
Woken(s) == {t \in Task : wants[t] = s /\ k.state[t] # "BLOCKED"}

SemTyped ==
    /\ SchedCore
    /\ pc \in [Task -> SchedLabel \cup {"take_retry"}]
    /\ SwitchAt(SchedTriggers)
    /\ count \in [Sem -> Nat]
    /\ \A s \in Sem : count[s] <= MaxCount[s]
    /\ wants \in [Task -> Sem \cup {NULL}]

(* A task wants a semaphore in the loop of sem_take only, and waits there  *)
(* without a countdown, so that the tick leaves it alone.                  *)
SemCalls ==
    /\ \A t \in Task : wants[t] # NULL <=> pc[t] = "take_retry"
    /\ \A t \in Task : pc[t] = "take_retry" => k.delay_ticks[t] = 0
    /\ NoStrayDelay

(* Every list of the kernel: its members are the blocked callers, each     *)
(* once, the most urgent first.                                            *)
SemLists ==
    \A h \in WaitList :
        /\ \A t \in Task : t \in ToSet(k.waiters[h]) <=> wants[t] = h /\ k.state[t] = "BLOCKED"
        /\ Once(k.waiters[h])
        /\ Sorted(k.waiters[h], k.priority)

(* Behind a queue of waiters there is a woken task for every token.  (That *)
(* there is one for the first token, as SemNoLostWakeup says, is not       *)
(* inductive: the woken task takes one token and may leave another.)       *)
SemTokens ==
    \A s \in Sem : k.waiters[s] # << >> => count[s] <= Cardinality(Woken(s))

(* The inductive invariant.                                                *)
SemInv == SemTyped /\ SemCalls /\ SemLists /\ SemTokens

(* For notifications: a task is about to wake another at give_wake only,   *)
(* and nothing is ever on a wait list.                                     *)
NotifyInv ==
    /\ SchedCore
    /\ NotifyTypeOK
    /\ SwitchAt(SchedTriggers \cup {"give_trigger"})
    /\ \A t \in Task : target[t] # NULL <=> pc[t] = "give_wake"
    /\ \A h \in WaitList : k.waiters[h] = << >>
    /\ NotifyNotLost
-----------------------------------------------------------------------------
(* Semaphores.                                                             *)

(* Sets of tasks are finite and can be counted.                            *)
LEMMA TasksFinite ==
    ASSUME NEW S \in SUBSET Task
    PROVE  IsFiniteSet(S) /\ Cardinality(S) \in Nat
<1>1. IsFiniteSet(Task)
  BY KernelAssumption, FS_Interval DEF Task
<1> QED
  BY <1>1, FS_Subset, FS_CardinalityType

(* Nobody waits at first.                                                  *)
LEMMA SemInitInv ==
    ASSUME SemInit
    PROVE  SemInv
<1>1. /\ SchedInv
      /\ k.waiters = [h \in WaitList |-> << >>]
      /\ k.delay_ticks = [t \in Task |-> 0]
      /\ \A t \in Thread : k.state[t] # "BLOCKED"
  BY InitCore DEF SemInit
<1>2. /\ count = [s \in Sem |-> InitialCount[s]]
      /\ wants = [t \in Task |-> NULL]
      /\ pc = [t \in Task |-> "user"]
  BY DEF SemInit, SchedInit
<1>3. SemTyped
  <2>1. pc \in [Task -> SchedLabel \cup {"take_retry"}]
    BY <1>2 DEF SchedLabel
  <2> QED
    BY <1>1, <1>2, <2>1, SemAssumption DEF SemTyped, SchedInv
<1>4. SemCalls
  BY <1>1, <1>2 DEF SemCalls, NoStrayDelay
<1>5. SemLists
  <2>1. \A h \in WaitList : k.waiters[h] = << >>
    BY <1>1
  <2>2. ToSet(<< >>) = {} /\ Once(<< >>) /\ Sorted(<< >>, k.priority)
    BY DEF ToSet, Once, Sorted
  <2>3. \A t \in Task : k.state[t] # "BLOCKED"
    BY <1>1 DEF Thread
  <2> QED
    BY <2>1, <2>2, <2>3 DEF SemLists
<1>6. SemTokens
  BY <1>1, SemAssumption DEF SemTokens
<1> QED
  BY <1>3, <1>4, <1>5, <1>6 DEF SemInv

(* The scheduler's own steps.                                              *)
LEMMA SemSchedInv ==
    ASSUME SemInv, Pausable = {}, [SchedNext]_schedVars, UNCHANGED semVars
    PROVE  SemInv'
<1> DEFINE L == SchedLabel \cup {"take_retry"}
<1>0. count' = count /\ wants' = wants
  BY DEF semVars
<1>1. /\ SchedCore /\ SchedLabel \subseteq L /\ pc \in [Task -> L]
      /\ SchedTriggers \subseteq SchedTriggers
      /\ "user" \notin SchedTriggers /\ "delay_wait" \notin SchedTriggers
      /\ SwitchAt(SchedTriggers) /\ NoStrayDelay
  BY DEF SemInv, SemTyped, SemCalls, SchedTriggers
<1>2. SchedCore' /\ pc' \in [Task -> L] /\ SwitchAt(SchedTriggers)' /\ k'.priority = k.priority
  BY <1>1, SchedSteps
<1>3. /\ NoStrayDelay'
      /\ \A u \in Task : pc[u] \notin SchedLabel => StaysWaiting(u) \/ TimesOut(u)
      /\ \A h \in WaitList : /\ SubList(k'.waiters[h], k.waiters[h])
                             /\ ToSet(k'.waiters[h]) \subseteq ToSet(k.waiters[h])
      /\ \A u \in Task : pc[u] \in SchedLabel => pc'[u] \in SchedLabel
  BY <1>1, SchedWaiting
<1>4. \A u \in Task : wants[u] # NULL => StaysWaiting(u)
  <2>1. \A u \in Task : wants[u] # NULL => pc[u] \notin SchedLabel /\ k.delay_ticks[u] = 0
    BY DEF SemInv, SemCalls, SchedLabel
  <2> QED
    BY <1>3, <2>1 DEF TimesOut
<1>5. SemTyped'
  BY <1>0, <1>2 DEF SemInv, SemTyped
<1>6. SemCalls'
  <2>1. ASSUME NEW u \in Task
        PROVE  /\ wants[u] # NULL <=> pc'[u] = "take_retry"
               /\ pc'[u] = "take_retry" => k'.delay_ticks[u] = 0
    <3>1. CASE wants[u] # NULL
      BY <1>4, <3>1 DEF StaysWaiting, SemInv, SemCalls
    <3>2. CASE wants[u] = NULL
      <4>1. pc[u] \in SchedLabel
        BY <3>2 DEF SemInv, SemCalls, SemTyped
      <4> QED
        BY <1>3, <3>2, <4>1 DEF SchedLabel
    <3> QED
      BY <3>1, <3>2
  <2> QED
    BY <1>0, <1>3, <2>1 DEF SemCalls
<1>7. SemLists'
  <2> SUFFICES ASSUME NEW h \in WaitList
               PROVE  /\ \A t \in Task : t \in ToSet(k'.waiters[h])
                                           <=> wants[t] = h /\ k'.state[t] = "BLOCKED"
                      /\ Once(k'.waiters[h])
                      /\ Sorted(k'.waiters[h], k'.priority)
    BY <1>0 DEF SemLists
  <2>1. /\ k.waiters[h] \in Seq(Task) /\ k'.waiters[h] \in Seq(Task)
        /\ k.priority \in [Task -> Priority]
    BY <1>1, <1>2 DEF SchedCore, KernelInv, KernelCore, KernelTypeOK
  <2>2. Once(k'.waiters[h]) /\ Sorted(k'.waiters[h], k'.priority)
    BY <1>2, <1>3, <2>1, SubListKeeps DEF SemInv, SemLists
  <2>3. ASSUME NEW t \in Task
        PROVE  t \in ToSet(k'.waiters[h]) <=> wants[t] = h /\ k'.state[t] = "BLOCKED"
    <3>1. CASE wants[t] # NULL
      BY <1>4, <3>1 DEF StaysWaiting, SemInv, SemLists
    <3>2. CASE wants[t] = NULL
      <4>1. h # NULL
        BY KernelAssumption
      <4> QED
        BY <1>3, <3>2, <4>1 DEF SemInv, SemLists
    <3> QED
      BY <3>1, <3>2
  <2> QED
    BY <2>2, <2>3
<1>8. SemTokens'
  <2> SUFFICES ASSUME NEW s \in Sem, k'.waiters[s] # << >>
               PROVE  count[s] <= Cardinality(Woken(s)')
    BY <1>0 DEF SemTokens
  <2>1. s \in WaitList /\ s # NULL
    BY SemAssumption, KernelAssumption
  <2>2. k.waiters[s] # << >>
    <3>1. k.waiters[s] \in Seq(Task) /\ k'.waiters[s] \in Seq(Task)
      BY <1>1, <1>2, <2>1 DEF SchedCore, KernelInv, KernelCore, KernelTypeOK
    <3>2. 1 \in DOMAIN k'.waiters[s]
      BY <3>1
    <3>3. k'.waiters[s][1] \in ToSet(k.waiters[s])
      BY <1>3, <2>1, <3>2 DEF ToSet
    <3> QED
      BY <3>3 DEF ToSet
  <2>3. Woken(s)' = Woken(s)
    BY <1>0, <1>4, <2>1 DEF Woken, StaysWaiting
  <2> QED
    BY <2>2, <2>3 DEF SemInv, SemTokens
<1> QED
  BY <1>5, <1>6, <1>7, <1>8 DEF SemInv

(* A pass through the loop of sem_take.                                    *)
LEMMA SemTakeInv ==
    ASSUME SemInv, NEW t \in Task, NEW s \in Sem, Runs(t),
           \/ pc[t] = "user"
           \/ pc[t] = "take_retry" /\ wants[t] = s,
           TryTake(t, s), UNCHANGED <<s_ticks, wakeAt>>
    PROVE  SemInv'
<1> DEFINE L == SchedLabel \cup {"take_retry"}
<1>1. /\ KernelInv(k) /\ KernelCore(k) /\ k.s_task_count = TASK_MAX /\ pc \in [Task -> L]
      /\ SwitchAt(SchedTriggers) /\ pc[t] \notin SchedTriggers
      /\ count \in [Sem -> Nat] /\ wants \in [Task -> Sem \cup {NULL}]
      /\ s \in WaitList /\ s # NULL /\ Task \subseteq Thread
      /\ s_ticks' \in Time /\ wakeAt' \in [Task -> Time]
  BY SemAssumption, KernelAssumption
  DEF SemInv, SemTyped, SchedCore, KernelInv, SchedTriggers, Thread
<1>2. k.g_next_task = t /\ k.state[t] # "BLOCKED" /\ k.g_current_task = t
  BY <1>1, RunnerIsNext DEF Runs
<1>3. wants[t] \in {NULL, s} /\ (wants[t] = s <=> pc[t] = "take_retry")
  BY <1>1 DEF SemInv, SemCalls
<1>4. CASE /\ count[s] > 0
           /\ count' = [count EXCEPT ![s] = @ - 1]
           /\ wants' = [wants EXCEPT ![t] = NULL]
           /\ Goto(t, "user")
           /\ UNCHANGED k
  <2>1. /\ k' = k /\ pc' = [pc EXCEPT ![t] = "user"]
        /\ wants' = [wants EXCEPT ![t] = NULL]
        /\ \A q \in Sem : count'[q] = IF q = s THEN count[q] - 1 ELSE count[q]
        /\ count' \in [Sem -> Nat]
    BY <1>1, <1>4 DEF Goto
  <2>2. \A u \in Task : wants'[u] = IF u = t THEN NULL ELSE wants[u]
    BY <1>1, <2>1
  <2>3. SemTyped'
    <3>1. pc' \in [Task -> L] /\ wants' \in [Task -> Sem \cup {NULL}]
      BY <1>1, <2>1 DEF SchedLabel
    <3>2. \A q \in Sem : count'[q] <= MaxCount[q]
      BY <1>1, <2>1, SemAssumption DEF SemInv, SemTyped
    <3>3. SchedCore' /\ SwitchAt(SchedTriggers)'
      BY <1>1, <1>2, <2>1 DEF SchedCore, SwitchAt
    <3> QED
      BY <2>1, <3>1, <3>2, <3>3 DEF SemTyped
  <2>4. SemCalls'
    BY <1>1, <2>1, <2>2 DEF SemInv, SemCalls, NoStrayDelay
  <2>5. SemLists'
    BY <1>2, <2>1, <2>2 DEF SemInv, SemLists
  <2>6. SemTokens'
    <3> SUFFICES ASSUME NEW q \in Sem, k.waiters[q] # << >>
                 PROVE  count'[q] <= Cardinality(Woken(q)')
      BY <2>1 DEF SemTokens
    <3>1. q # NULL
      BY KernelAssumption, SemAssumption
    <3>2. Woken(q)' = Woken(q) \ {t}
      BY <2>1, <2>2, <3>1 DEF Woken
    <3>3. /\ IsFiniteSet(Woken(q)) /\ Cardinality(Woken(q)) \in Nat
      BY TasksFinite DEF Woken
    <3>4. Cardinality(Woken(q) \ {t}) =
            IF t \in Woken(q) THEN Cardinality(Woken(q)) - 1 ELSE Cardinality(Woken(q))
      BY <3>3, FS_RemoveElement
    <3>5. t \in Woken(q) => q = s
      BY <1>3, <3>1 DEF Woken
    <3>6. count[q] <= Cardinality(Woken(q)) /\ count[q] \in Nat
      BY <1>1 DEF SemInv, SemTokens
    <3> QED
      BY <2>1, <3>2, <3>3, <3>4, <3>5, <3>6
  <2> QED
    BY <2>3, <2>4, <2>5, <2>6 DEF SemInv
<1>5. CASE /\ count[s] = 0
           /\ k' = BlockOn(k, t, s)
           /\ wants' = [wants EXCEPT ![t] = s]
           /\ Goto(t, "take_retry")
           /\ UNCHANGED count
  <2>1. /\ KernelInv(k') /\ k'.pendsv
        /\ k'.priority = k.priority /\ k'.delay_ticks = k.delay_ticks
        /\ k'.wait_list_head = k.wait_list_head /\ k'.timed_out = k.timed_out
        /\ k'.g_current_task = k.g_current_task /\ k'.s_task_count = k.s_task_count
        /\ \A u \in Thread : k'.state[u] = "BLOCKED" <=> u = t \/ k.state[u] = "BLOCKED"
        /\ \A g \in WaitList : g # s => k'.waiters[g] = k.waiters[g]
        /\ ToSet(k'.waiters[s]) = ToSet(k.waiters[s]) \cup {t}
        /\ Once(k.waiters[s]) /\ t \notin ToSet(k.waiters[s]) => Once(k'.waiters[s])
        /\ Sorted(k.waiters[s], k.priority) => Sorted(k'.waiters[s], k.priority)
    <3>1. KernelCore(k) /\ s \in WaitList /\ k' = BlockOn(k, t, s)
      BY <1>1, <1>5
    <3> QED
      BY <3>1, BlockOnDecides
  <2>2. /\ pc' = [pc EXCEPT ![t] = "take_retry"] /\ count' = count
        /\ \A u \in Task : wants'[u] = IF u = t THEN s ELSE wants[u]
        /\ \A u \in Task : pc'[u] = IF u = t THEN "take_retry" ELSE pc[u]
        /\ wants' \in [Task -> Sem \cup {NULL}]
    BY <1>1, <1>5 DEF Goto
  <2>3. SemTyped'
    <3>1. pc' \in [Task -> L]
      BY <1>1, <2>2
    <3>2. SchedCore' /\ SwitchAt(SchedTriggers)'
      BY <1>1, <2>1 DEF SchedCore, SwitchAt
    <3> QED
      BY <2>2, <3>1, <3>2 DEF SemInv, SemTyped
  <2>4. SemCalls'
    <3>1. k.delay_ticks[t] = 0
      BY <1>2 DEF SemInv, SemCalls, NoStrayDelay
    <3>2. NoStrayDelay'
      BY <1>1, <2>1 DEF SemInv, SemCalls, NoStrayDelay
    <3> QED
      BY <1>1, <2>1, <2>2, <3>1, <3>2 DEF SemInv, SemCalls
  <2>5. SemLists'
    <3> SUFFICES ASSUME NEW h \in WaitList
                 PROVE  /\ \A u \in Task : u \in ToSet(k'.waiters[h])
                                             <=> wants'[u] = h /\ k'.state[u] = "BLOCKED"
                        /\ Once(k'.waiters[h])
                        /\ Sorted(k'.waiters[h], k'.priority)
      BY DEF SemLists
    <3>1. /\ \A u \in Task : u \in ToSet(k.waiters[h])
                               <=> wants[u] = h /\ k.state[u] = "BLOCKED"
          /\ Once(k.waiters[h]) /\ Sorted(k.waiters[h], k.priority)
      BY DEF SemInv, SemLists
    <3>2. t \notin ToSet(k.waiters[h])
      BY <1>2, <3>1
    <3>3. \A u \in Task : k'.state[u] = "BLOCKED" <=> u = t \/ k.state[u] = "BLOCKED"
      BY <1>1, <2>1
    <3>4. CASE h = s
      BY <2>1, <2>2, <3>1, <3>2, <3>3, <3>4
    <3>5. CASE h # s
      BY <2>1, <2>2, <3>1, <3>2, <3>3, <3>5
    <3> QED
      BY <3>4, <3>5
  <2>6. SemTokens'
    <3> SUFFICES ASSUME NEW q \in Sem, k'.waiters[q] # << >>
                 PROVE  count[q] <= Cardinality(Woken(q)')
      BY <2>2 DEF SemTokens
    <3>1. CASE q = s
      <4>1. Woken(q)' \in SUBSET Task
        BY DEF Woken
      <4> QED
        BY <1>5, <3>1, <4>1, TasksFinite
    <3>2. CASE q # s
      <4>1. k'.waiters[q] = k.waiters[q] /\ q # NULL
        BY <2>1, <3>2, SemAssumption, KernelAssumption
      <4>2. Woken(q)' = Woken(q)
        BY <1>1, <1>3, <2>1, <2>2, <3>2, <4>1 DEF Woken
      <4> QED
        BY <4>1, <4>2 DEF SemInv, SemTokens
    <3> QED
      BY <3>1, <3>2
  <2> QED
    BY <2>3, <2>4, <2>5, <2>6 DEF SemInv
<1> QED
  BY <1>4, <1>5 DEF TryTake

(* A token for the most urgent waiter.                                     *)
LEMMA SemGiveInv ==
    ASSUME SemInv, NEW t \in Task, NEW s \in Sem, sem_give(t, s)
    PROVE  SemInv'
<1>1. /\ KernelInv(k) /\ KernelCore(k) /\ k.s_task_count = TASK_MAX
      /\ count \in [Sem -> Nat] /\ wants \in [Task -> Sem \cup {NULL}]
      /\ s \in WaitList /\ s # NULL /\ Task \subseteq Thread
      /\ k.waiters[s] \in Seq(Task)
  BY SemAssumption, KernelAssumption
  DEF SemInv, SemTyped, SchedCore, KernelInv, KernelCore, KernelTypeOK, Thread
<1>2. /\ pc' = pc /\ s_ticks' = s_ticks /\ wakeAt' = wakeAt /\ wants' = wants
      /\ count' = [count EXCEPT ![s] = Given(s)] /\ k' = GiveKernel(s)
      /\ pc[t] = "user" /\ Runs(t)
  BY DEF sem_give
<1>3. /\ count' \in [Sem -> Nat]
      /\ \A q \in Sem : count'[q] <= MaxCount[q]
      /\ \A q \in Sem : count'[q] \in {count[q], count[q] + 1}
      /\ \A q \in Sem : q # s => count'[q] = count[q]
  <2>1. count[s] \in Nat /\ MaxCount[s] \in Nat /\ count[s] <= MaxCount[s]
    BY <1>1, SemAssumption DEF SemInv, SemTyped
  <2>2. Given(s) \in Nat /\ Given(s) <= MaxCount[s] /\ Given(s) \in {count[s], count[s] + 1}
    BY <2>1 DEF Given
  <2>3. \A q \in Sem : count'[q] = IF q = s THEN Given(s) ELSE count[q]
    BY <1>1, <1>2
  <2>4. \A q \in Sem : count[q] <= MaxCount[q]
    BY DEF SemInv, SemTyped
  <2> QED
    BY <1>1, <1>2, <2>2, <2>3, <2>4
<1>4. CASE k.waiters[s] = << >>
  <2>1. k' = k
    BY <1>2, <1>4 DEF GiveKernel, FirstWaiter
  <2>2. SemTyped'
    BY <1>2, <1>3, <2>1 DEF SemInv, SemTyped, SchedCore, SwitchAt
  <2>3. SemCalls' /\ SemLists'
    BY <1>2, <2>1 DEF SemInv, SemCalls, SemLists, NoStrayDelay
  <2>4. SemTokens'
    BY <1>2, <1>3, <1>4, <2>1 DEF SemInv, SemTokens, Woken
  <2> QED
    BY <2>2, <2>3, <2>4 DEF SemInv
<1>5. CASE k.waiters[s] # << >>
  <2> DEFINE P == wq_pop(k, s)
             w == FirstWaiter(k, s)
  <2>1. Once(k.waiters[s]) /\ Sorted(k.waiters[s], k.priority)
    BY <1>1 DEF SemInv, SemLists
  <2>2. /\ KernelCore(P)
        /\ w \in Task /\ w # NULL /\ w \in ToSet(k.waiters[s])
        /\ P = [k EXCEPT !.waiters = P.waiters]
        /\ P.state = k.state
        /\ P.priority = k.priority /\ P.delay_ticks = k.delay_ticks
        /\ P.wait_list_head = k.wait_list_head /\ P.timed_out = k.timed_out
        /\ P.s_task_count = k.s_task_count /\ P.g_current_task = k.g_current_task
        /\ P.pendsv = k.pendsv
        /\ P.waiters[s] \in Seq(Task)
        /\ SubList(P.waiters[s], k.waiters[s])
        /\ ToSet(P.waiters[s]) = ToSet(k.waiters[s]) \ {w}
        /\ \A g \in WaitList : g # s => P.waiters[g] = k.waiters[g]
    BY <1>1, <1>5, <2>1, PopKeeps
  <2>3. k' = sched_wake_task(P, w)
    BY <1>2, <2>2 DEF GiveKernel
  <2> HIDE DEF P, w
  <2>4. wants[w] = s /\ k.state[w] = "BLOCKED"
    BY <1>1, <2>2 DEF SemInv, SemLists
  <2>5. \A h \in WaitList : w \notin ToSet(P.waiters[h])
    <3> SUFFICES ASSUME NEW h \in WaitList, h # s
                 PROVE  w \notin ToSet(P.waiters[h])
      BY <2>2
    <3> QED
      BY <2>2, <2>4 DEF SemInv, SemLists
  <2>6. LET R == sched_wake_task(P, w) IN
        /\ KernelInv(R) /\ (R.g_next_task # R.g_current_task => R.pendsv)
        /\ R.priority = P.priority /\ R.wait_list_head = P.wait_list_head
        /\ R.timed_out = P.timed_out /\ R.waiters = P.waiters
        /\ R.s_task_count = P.s_task_count /\ R.g_current_task = P.g_current_task
        /\ R.delay_ticks = [P.delay_ticks EXCEPT ![w] = 0]
        /\ \A u \in Thread : R.state[u] = "BLOCKED" <=> u # w /\ P.state[u] = "BLOCKED"
    <3>1. KernelCore(P) /\ w \in Task
      BY <2>2
    <3> QED BY <3>1, <2>5, WakeDecides
  <2>8. /\ KernelInv(k') /\ k'.g_current_task = k.g_current_task
        /\ k'.g_next_task # k'.g_current_task => k'.pendsv
        /\ k'.priority = k.priority /\ k'.waiters = P.waiters
        /\ k'.s_task_count = k.s_task_count
        /\ k'.delay_ticks = [k.delay_ticks EXCEPT ![w] = 0]
        /\ \A u \in Task : k'.state[u] = "BLOCKED" <=> u # w /\ k.state[u] = "BLOCKED"
    BY <1>1, <2>2, <2>3, <2>6
  <2>9. SemTyped'
    <3>1. SchedCore' /\ SwitchAt(SchedTriggers)'
      BY <1>1, <1>2, <2>8 DEF SchedCore, SwitchAt, SemInv, SemTyped
    <3> QED
      BY <1>2, <1>3, <3>1 DEF SemInv, SemTyped
  <2>10. SemCalls'
    <3>1. \A u \in Task : k'.delay_ticks[u] = IF u = w THEN 0 ELSE k.delay_ticks[u]
      BY <1>1, <2>2, <2>8 DEF KernelCore, KernelTypeOK
    <3> QED
      BY <1>2, <2>8, <3>1 DEF SemInv, SemCalls, NoStrayDelay
  <2>11. SemLists'
    <3> SUFFICES ASSUME NEW h \in WaitList
                 PROVE  /\ \A u \in Task : u \in ToSet(k'.waiters[h])
                                             <=> wants[u] = h /\ k'.state[u] = "BLOCKED"
                        /\ Once(k'.waiters[h])
                        /\ Sorted(k'.waiters[h], k'.priority)
      BY <1>2 DEF SemLists
    <3>1. /\ \A u \in Task : u \in ToSet(k.waiters[h])
                               <=> wants[u] = h /\ k.state[u] = "BLOCKED"
          /\ Once(k.waiters[h]) /\ Sorted(k.waiters[h], k.priority)
      BY DEF SemInv, SemLists
    <3>2. CASE h = s
      <4>1. k.priority \in [Task -> Priority]
        BY <1>1 DEF KernelCore, KernelTypeOK
      <4>2. Once(k'.waiters[h]) /\ Sorted(k'.waiters[h], k'.priority)
        BY <1>1, <2>1, <2>2, <2>8, <3>2, <4>1, SubListKeeps
      <4>3. ToSet(k'.waiters[h]) = ToSet(k.waiters[h]) \ {w}
        BY <2>2, <2>8, <3>2
      <4> QED
        BY <2>8, <3>1, <4>2, <4>3
    <3>3. CASE h # s
      BY <2>2, <2>4, <2>8, <3>1, <3>3
    <3> QED
      BY <3>2, <3>3
  <2>12. SemTokens'
    <3> SUFFICES ASSUME NEW q \in Sem, k'.waiters[q] # << >>
                 PROVE  count'[q] <= Cardinality(Woken(q)')
      BY DEF SemTokens
    <3>1. CASE q = s
      <4>1. Woken(q)' = Woken(q) \cup {w}
        BY <1>2, <2>2, <2>4, <2>8, <3>1 DEF Woken
      <4>2. w \notin Woken(q)
        BY <2>4 DEF Woken
      <4>3. IsFiniteSet(Woken(q)) /\ Cardinality(Woken(q)) \in Nat
        BY TasksFinite DEF Woken
      <4>4. Cardinality(Woken(q) \cup {w}) = Cardinality(Woken(q)) + 1
        BY <4>2, <4>3, FS_AddElement
      <4>5. count[q] <= Cardinality(Woken(q)) /\ count[q] \in Nat
        BY <1>1, <1>5, <3>1 DEF SemInv, SemTokens
      <4> QED
        BY <1>3, <4>1, <4>3, <4>4, <4>5
    <3>2. CASE q # s
      <4>1. k'.waiters[q] = k.waiters[q]
        BY <2>2, <2>8, <3>2, SemAssumption
      <4>2. Woken(q)' = Woken(q)
        BY <1>2, <2>4, <2>8, <3>2 DEF Woken
      <4> QED
        BY <1>3, <3>2, <4>1, <4>2 DEF SemInv, SemTokens
    <3> QED
      BY <3>1, <3>2
  <2> QED
    BY <2>9, <2>10, <2>11, <2>12 DEF SemInv
<1> QED
  BY <1>4, <1>5

(* Every step of tasks that use semaphores.                                *)
LEMMA SemNextInv ==
    ASSUME Pausable = {}
    PROVE  SemInv /\ [SemNext]_semAllVars => SemInv'
<1> SUFFICES ASSUME SemInv, [SemNext]_semAllVars
             PROVE  SemInv'
  OBVIOUS
<1>1. CASE SchedNext /\ UNCHANGED semVars
  BY <1>1, SemSchedInv
<1>2. ASSUME NEW t \in Task, TakeRetry(t)
      PROVE  SemInv'
  <2>1. Runs(t) /\ pc[t] = "take_retry" /\ TryTake(t, wants[t]) /\ UNCHANGED <<s_ticks, wakeAt>>
    BY <1>2 DEF TakeRetry
  <2>2. wants[t] \in Sem
    BY <2>1 DEF SemInv, SemCalls, SemTyped
  <2> QED
    BY <2>1, <2>2, SemTakeInv
<1>3. ASSUME NEW t \in Task, NEW s \in Sem, sem_take(t, s)
      PROVE  SemInv'
  BY <1>3, SemTakeInv DEF sem_take
<1>4. ASSUME NEW t \in Task, NEW s \in Sem, sem_trytake(t, s)
      PROVE  SemInv'
  <2>1. /\ UNCHANGED <<s_ticks, wakeAt>> /\ Runs(t) /\ pc[t] = "user"
        /\ count[s] > 0 /\ count' = [count EXCEPT ![s] = @ - 1]
        /\ k' = k /\ pc' = pc /\ wants' = wants
    BY <1>4 DEF sem_trytake, schedVars
  <2>2. pc \in [Task -> SchedLabel \cup {"take_retry"}] /\ wants \in [Task -> Sem \cup {NULL}]
        /\ wants[t] = NULL
    BY <2>1 DEF SemInv, SemTyped, SemCalls
  <2>3. pc' = [pc EXCEPT ![t] = "user"] /\ wants' = [wants EXCEPT ![t] = NULL]
    BY <2>1, <2>2
  <2>4. TryTake(t, s)
    BY <2>1, <2>3 DEF TryTake, Goto
  <2> QED
    BY <2>1, <2>4, SemTakeInv
<1>5. ASSUME NEW t \in Task, NEW s \in Sem, sem_give(t, s)
      PROVE  SemInv'
  BY <1>5, SemGiveInv
<1>6. CASE UNCHANGED semAllVars
  <2>1. UNCHANGED schedVars /\ UNCHANGED semVars
    BY <1>6 DEF semAllVars
  <2> QED
    BY <2>1, SemSchedInv
<1> QED
  BY <1>1, <1>2, <1>3, <1>4, <1>5, <1>6 DEF SemNext

(* SemInv is inductive for tasks that nobody pauses.                       *)
THEOREM SemaphoreInvariant ==
    ASSUME Pausable = {}
    PROVE  SemSpec => []SemInv
<1>1. SemInit => SemInv
  BY SemInitInv
<1>2. SemInv /\ [SemNext]_semAllVars => SemInv'
  BY SemNextInv
<1> QED
  BY <1>1, <1>2, PTL DEF SemSpec

(* Counts stay between zero and the maximum of sem_init, program counters  *)
(* inside the code of the scheduler and of sem_take.                       *)
THEOREM SemaphoreTypeCorrect ==
    ASSUME Pausable = {}
    PROVE  SemSpec => []SemTypeOK
<1>1. SemInv => SemTypeOK
  BY SemAssumption DEF SemInv, SemTyped, SemTypeOK, SchedCore, KernelInv, KernelCore, SchedTypeOK
<1>2. SemSpec => []SemInv
  BY SemaphoreInvariant
<1> QED
  BY <1>1, <1>2, PTL

(* When no task is paused, the wait list of a semaphore is the set of      *)
(* tasks blocked in sem_take, each once, in order of urgency.              *)
THEOREM SemaphoreListExact ==
    ASSUME Pausable = {}
    PROVE  SemSpec => []SemWaitListExact
<1>1. SemInv => SemWaitListExact
  <2> SUFFICES ASSUME SemInv PROVE SemWaitListExact
    OBVIOUS
  <2>1. LinkedOnce(k)
    <3> SUFFICES ASSUME NEW g \in WaitList, NEW h \in WaitList,
                        NEW i \in DOMAIN k.waiters[g], NEW j \in DOMAIN k.waiters[h],
                        k.waiters[g][i] = k.waiters[h][j]
                 PROVE  g = h /\ i = j
      BY DEF LinkedOnce
    <3>1. k.waiters[g] \in Seq(Task) /\ k.waiters[h] \in Seq(Task)
      BY DEF SemInv, SemTyped, SchedCore, KernelInv, KernelCore, KernelTypeOK
    <3>2. /\ k.waiters[g][i] \in Task
          /\ k.waiters[g][i] \in ToSet(k.waiters[g])
          /\ k.waiters[g][i] \in ToSet(k.waiters[h])
      BY <3>1 DEF ToSet
    <3>3. g = h
      BY <3>2 DEF SemInv, SemLists
    <3> QED
      BY <3>3 DEF SemInv, SemLists, Once
  <2> QED
    BY <2>1, SemAssumption DEF SemWaitListExact, SemInv, SemLists, Sorted
<1>2. SemSpec => []SemInv
  BY SemaphoreInvariant
<1> QED
  BY <1>1, <1>2, PTL

(* When no task is paused no wake-up of sem_give is lost, whatever barges  *)
(* in between the give and the return of the woken task to its loop.       *)
THEOREM SemaphoreNoLostWakeup ==
    ASSUME Pausable = {}
    PROVE  SemSpec => []SemNoLostWakeup
<1>1. SemInv => SemNoLostWakeup
  <2> SUFFICES ASSUME SemInv, NEW s \in Sem, count[s] > 0, k.waiters[s] # << >>
               PROVE  \E t \in Task : wants[t] = s /\ k.state[t] # "BLOCKED"
    BY DEF SemNoLostWakeup
  <2>1. count[s] <= Cardinality(Woken(s)) /\ count[s] \in Nat
    BY DEF SemInv, SemTokens, SemTyped
  <2>2. Cardinality(Woken(s)) \in Nat /\ Cardinality({}) = 0
    BY TasksFinite, FS_EmptySet DEF Woken
  <2>3. Cardinality(Woken(s)) # 0
    BY <2>1, <2>2
  <2>4. Woken(s) # {}
    BY <2>2, <2>3
  <2> QED
    BY <2>4 DEF Woken
<1>2. SemSpec => []SemInv
  BY SemaphoreInvariant
<1> QED
  BY <1>1, <1>2, PTL
-----------------------------------------------------------------------------
(* Task notifications.                                                     *)

NotifyTriggers == SchedTriggers \cup {"give_trigger"}

NotifyLabel == SchedLabel \cup {"give_wake", "give_trigger", "notify_woken"}

(* The scheduler's own steps.                                              *)
LEMMA NotifySchedInv ==
    ASSUME NotifyInv, [SchedNext]_schedVars, UNCHANGED notifyVars
    PROVE  NotifyInv'
<1>0. notify_pending' = notify_pending /\ target' = target
  BY DEF notifyVars
<1>1. /\ SchedCore /\ SchedLabel \subseteq NotifyLabel /\ pc \in [Task -> NotifyLabel]
      /\ SchedTriggers \subseteq NotifyTriggers
      /\ "user" \notin NotifyTriggers /\ "delay_wait" \notin NotifyTriggers
      /\ SwitchAt(NotifyTriggers)
      /\ \A h \in WaitList : k.waiters[h] = << >>
  BY DEF NotifyInv, NotifyTypeOK, NotifyLabel, SchedTriggers, NotifyTriggers
<1>2. /\ SchedCore'
      /\ pc' \in [Task -> NotifyLabel]
      /\ \A u \in Task : pc'[u] # pc[u] => {pc[u], pc'[u]} \subseteq SchedLabel
      /\ SwitchAt(NotifyTriggers)'
      /\ k'.priority = k.priority
      /\ \A u \in Task : k'.state[u] = "BLOCKED" => k.state[u] = "BLOCKED" \/ pc[u] = "user"
      /\ \/ /\ SysTick_Handler
            /\ SameWaits(CountDown(k, 1), k')
         \/ /\ k'.waiters = k.waiters
            /\ k'.wait_list_head = k.wait_list_head
            /\ k'.timed_out = k.timed_out
            /\ s_ticks' = s_ticks
            /\ \A u \in Task \ Pausable :
                  \/ WaitsKept(u)
                  \/ \E ms \in Delay : sched_delay_ms(u, ms) /\ k' = DelayLocked(k, u, ms)
  BY <1>1, SchedSteps
<1>3. \A h \in WaitList : k'.waiters[h] = << >>
  <2> SUFFICES ASSUME NEW h \in WaitList, SameWaits(CountDown(k, 1), k')
               PROVE  k'.waiters[h] = << >>
    BY <1>1, <1>2
  <2>1. KernelTypeOK(k) /\ 1 \in Nat
    BY <1>1 DEF SchedCore, KernelInv, KernelCore
  <2>2. LET R == CountDown(k, 1) IN
        /\ R.waiters[h] \in Seq(Task)
        /\ SubList(R.waiters[h], k.waiters[h])
        /\ ToSet(R.waiters[h]) =
             ToSet(k.waiters[h]) \ {t \in Expired(k, 1) : k.wait_list_head[t] = h}
    BY <2>1, CountDownWaits
  <2>3. k'.waiters[h] \in Seq(Task) /\ ToSet(k'.waiters[h]) \subseteq ToSet(k.waiters[h])
    BY <2>2 DEF SameWaits
  <2>4. ToSet(k.waiters[h]) = {}
    BY <1>1 DEF ToSet
  <2>5. 1 \notin DOMAIN k'.waiters[h]
    BY <2>3, <2>4 DEF ToSet
  <2> QED
    BY <2>3, <2>5
<1>4. NotifyTypeOK'
  BY <1>0, <1>2
  DEF NotifyInv, NotifyTypeOK, SchedTypeOK, SchedCore, KernelInv, KernelCore, NotifyLabel
<1>5. \A t \in Task : target'[t] # NULL <=> pc'[t] = "give_wake"
  BY <1>0, <1>2 DEF NotifyInv, SchedLabel
<1>6. NotifyNotLost'
  <2>1. \A r \in Task : InNotifyWait(r)' => InNotifyWait(r)
    BY <1>2 DEF InNotifyWait, SchedLabel
  <2>2. \A r \in Task : InNotifyWait(r) /\ k'.state[r] = "BLOCKED" => k.state[r] = "BLOCKED"
    BY <1>2 DEF InNotifyWait
  <2> QED
    BY <1>0, <2>1, <2>2 DEF NotifyNotLost, NotifyInv
<1> QED
  BY <1>2, <1>3, <1>4, <1>5, <1>6 DEF NotifyInv, NotifyTriggers

(* The wait: the second half of task_notify_wait's first critical section. *)
LEMMA NotifyBlocks ==
    ASSUME NEW K, KernelCore(K), NEW t \in Task, NEW ms \in Nat
    PROVE  LET R == sched_block_locked([K EXCEPT !.state[t] = "BLOCKED",
                                                 !.delay_ticks[t] = ms,
                                                 !.wait_list_head[t] = NULL])
           IN
           /\ KernelInv(R) /\ R.pendsv
           /\ R.waiters = K.waiters /\ R.s_task_count = K.s_task_count
           /\ \A u \in Thread : R.state[u] = "BLOCKED" <=> u = t \/ K.state[u] = "BLOCKED"
<1> DEFINE B == [K EXCEPT !.state[t] = "BLOCKED", !.delay_ticks[t] = ms,
                          !.wait_list_head[t] = NULL]
           D == sched_pick_and_mark(B)
           R == trigger_pendsv(D)
<1>1. /\ KernelTypeOK(B)
      /\ B.state = [K.state EXCEPT ![t] = "BLOCKED"]
      /\ B.waiters = K.waiters /\ B.s_task_count = K.s_task_count
      /\ B.g_current_task = K.g_current_task
      /\ B.g_next_task = K.g_next_task
  BY DEF KernelCore, KernelTypeOK, TaskState, Thread
<1>2. R = sched_block_locked(B)
  BY DEF sched_block_locked
<1> HIDE DEF B
<1>3. \A u \in Thread : B.state[u] = IF u = t THEN "BLOCKED" ELSE K.state[u]
  BY <1>1 DEF KernelCore, KernelTypeOK
<1>4. KernelCore(B)
  BY <1>1, <1>3, KernelAssumption
  DEF KernelCore, HasThreads, OnlyNext, IdleAlive, Thread, Task
<1>5. KernelInv(D) /\ SameWaits(B, D)
  BY <1>4, PickDecides
<1> HIDE DEF D
<1>6. KernelInv(R) /\ SameWaits(D, R) /\ R.pendsv
  BY <1>5, TriggerKeeps
<1>7. SameWaits(B, R)
  BY <1>5, <1>6, SameWaitsTrans
<1> HIDE DEF R
<1>8. /\ KernelInv(R) /\ R.pendsv
      /\ R.waiters = K.waiters /\ R.s_task_count = K.s_task_count
      /\ \A u \in Thread : R.state[u] = "BLOCKED" <=> u = t \/ K.state[u] = "BLOCKED"
  BY <1>1, <1>3, <1>6, <1>7 DEF SameWaits
<1> QED
  BY <1>2, <1>8 DEF B

(* What is left to show for a step of notify.c.                            *)
NotifyStepKeeps ==
    /\ KernelInv(k') /\ k'.s_task_count = k.s_task_count /\ k'.waiters = k.waiters
    /\ s_ticks' = s_ticks /\ wakeAt' = wakeAt
    /\ pc' \in [Task -> NotifyLabel] /\ SwitchAt(NotifyTriggers)'
    /\ notify_pending' \in [Task -> BOOLEAN] /\ target' \in [Task -> Task \cup {NULL}]
    /\ \A t \in Task : target'[t] # NULL <=> pc'[t] = "give_wake"
    /\ NotifyNotLost'

(* What a step of a call must keep is what NotifyInv asks.                 *)
LEMMA NotifyAssembled ==
    ASSUME NotifyInv, NotifyStepKeeps
    PROVE  NotifyInv'
<1>1. SchedCore' /\ SchedTypeOK'
  BY DEF NotifyInv, NotifyStepKeeps, SchedCore, SchedTypeOK, KernelInv, KernelCore
<1> QED
  BY <1>1 DEF NotifyInv, NotifyStepKeeps, NotifyTypeOK, NotifyLabel, NotifyTriggers

(* Every step of tasks that use notifications.                             *)
LEMMA NotifyNextInv == NotifyInv /\ [NotifyNext]_notifyAllVars => NotifyInv'
<1> SUFFICES ASSUME NotifyInv, [NotifyNext]_notifyAllVars
             PROVE  NotifyInv'
  OBVIOUS
<1>1. /\ KernelInv(k) /\ KernelCore(k)
      /\ pc \in [Task -> NotifyLabel] /\ SwitchAt(NotifyTriggers)
      /\ notify_pending \in [Task -> BOOLEAN] /\ target \in [Task -> Task \cup {NULL}]
      /\ \A t \in Task : target[t] # NULL <=> pc[t] = "give_wake"
      /\ \A t \in Task : \A h \in WaitList : t \notin ToSet(k.waiters[h])
      /\ Task \subseteq Thread /\ \A t \in Task : t # NULL
      /\ NotifyNotLost
  BY KernelAssumption
  DEF NotifyInv, NotifyTypeOK, SchedCore, KernelInv, NotifyLabel, NotifyTriggers, Thread, ToSet
<1>2. \A t \in Task : Runs(t) /\ pc[t] \in {"user", "notify_woken", "give_wake"} =>
          k.g_next_task = t /\ k.g_current_task = t
  <2>1. \A l \in {"user", "notify_woken", "give_wake"} : l \notin NotifyTriggers
    BY DEF NotifyTriggers, SchedTriggers
  <2> QED
    BY <1>1, <2>1, RunnerIsNext DEF Runs
<1>3. ASSUME NEW t \in Task, NEW r \in NotifyReceiver, task_notify_give(t, r)
      PROVE  NotifyInv'
  <2>1. /\ r \in Task /\ k' = k /\ s_ticks' = s_ticks /\ wakeAt' = wakeAt
        /\ pc[t] = "user" /\ Runs(t) /\ target[t] = NULL
        /\ notify_pending' = [notify_pending EXCEPT ![r] = TRUE]
    BY <1>1, <1>3, NotifyAssumption DEF task_notify_give, Store
  <2>2. k.g_next_task = k.g_current_task
    BY <1>2, <2>1
  <2>3. CASE WasBlocked(r)
    <3>1. target' = [target EXCEPT ![t] = r] /\ pc' = [pc EXCEPT ![t] = "give_wake"]
      BY <1>3, <2>3 DEF task_notify_give, Goto
    <3>2. pc' \in [Task -> NotifyLabel] /\ target' \in [Task -> Task \cup {NULL}]
          /\ \A u \in Task : target'[u] # NULL <=> pc'[u] = "give_wake"
      BY <1>1, <2>1, <3>1 DEF NotifyLabel
    <3>3. NotifyNotLost'
      BY <1>1, <2>1, <3>1 DEF NotifyNotLost, InNotifyWait
    <3>4. SwitchAt(NotifyTriggers)'
      BY <2>1, <2>2 DEF SwitchAt
    <3> QED
      BY <1>1, <2>1, <3>2, <3>3, <3>4, NotifyAssembled DEF NotifyStepKeeps
  <2>4. CASE ~WasBlocked(r)
    <3>1. target' = target /\ pc' = pc
      BY <1>3, <2>4 DEF task_notify_give
    <3>2. NotifyNotLost'
      BY <1>1, <2>1, <2>4, <3>1 DEF NotifyNotLost, InNotifyWait, WasBlocked
    <3>3. SwitchAt(NotifyTriggers)'
      BY <2>1, <2>2 DEF SwitchAt
    <3> QED
      BY <1>1, <2>1, <3>1, <3>2, <3>3, NotifyAssembled DEF NotifyStepKeeps
  <2> QED
    BY <2>3, <2>4
<1>4. ASSUME NEW t \in Task, GiveWake(t)
      PROVE  NotifyInv'
  <2> DEFINE r == target[t]
  <2>1. /\ r \in Task /\ k' = WakeLocked(k, r) /\ s_ticks' = s_ticks /\ wakeAt' = wakeAt
        /\ pc[t] = "give_wake" /\ k.g_current_task = t
        /\ notify_pending' = notify_pending
        /\ target' = [target EXCEPT ![t] = NULL] /\ pc' = [pc EXCEPT ![t] = "give_trigger"]
    BY <1>1, <1>2, <1>4 DEF GiveWake, Goto
  <2> HIDE DEF r
  <2>2. LET R == WakeLocked(k, r) IN
        /\ KernelInv(R) /\ R.pendsv = k.pendsv
        /\ R.priority = k.priority /\ R.wait_list_head = k.wait_list_head
        /\ R.timed_out = k.timed_out /\ R.waiters = k.waiters
        /\ R.s_task_count = k.s_task_count /\ R.g_current_task = k.g_current_task
        /\ R.delay_ticks = [k.delay_ticks EXCEPT ![r] = 0]
        /\ \A u \in Thread : R.state[u] = "BLOCKED" <=> u # r /\ k.state[u] = "BLOCKED"
    <3>1. KernelCore(k) /\ r \in Task /\ \A h \in WaitList : r \notin ToSet(k.waiters[h])
      BY <1>1, <2>1
    <3> QED
      BY <3>1, WakeDecides
  <2>3. /\ pc' \in [Task -> NotifyLabel] /\ target' \in [Task -> Task \cup {NULL}]
        /\ \A u \in Task : target'[u] # NULL <=> pc'[u] = "give_wake"
        /\ pc'[t] = "give_trigger"
    BY <1>1, <2>1 DEF NotifyLabel
  <2>4. NotifyNotLost'
    <3>1. \A q \in Task : /\ InNotifyWait(q)' => InNotifyWait(q)
                          /\ k'.state[q] = "BLOCKED" => k.state[q] = "BLOCKED" /\ q # r
      BY <1>1, <2>1, <2>2 DEF InNotifyWait
    <3>2. \A u \in Task : target'[u] = IF u = t THEN NULL ELSE target[u]
      BY <1>1, <2>1
    <3> QED
      BY <1>1, <2>1, <3>1, <3>2 DEF NotifyNotLost, r
  <2>5. SwitchAt(NotifyTriggers)'
    BY <2>1, <2>2, <2>3 DEF SwitchAt, NotifyTriggers
  <2> QED
    BY <1>1, <2>1, <2>2, <2>3, <2>4, <2>5, NotifyAssembled DEF NotifyStepKeeps
<1>5. ASSUME NEW t \in Task, GiveTrigger(t)
      PROVE  NotifyInv'
  <2>1. /\ k' = TriggerIfSwitch(k) /\ s_ticks' = s_ticks /\ wakeAt' = wakeAt
        /\ notify_pending' = notify_pending /\ target' = target
        /\ pc[t] = "give_trigger" /\ pc' = [pc EXCEPT ![t] = "user"]
    BY <1>5 DEF GiveTrigger, Goto, notifyVars
  <2>2. LET R == TriggerIfSwitch(k) IN
        /\ KernelInv(R) /\ SameWaits(k, R) /\ R.state = k.state
        /\ R.g_next_task = k.g_next_task
        /\ R.g_next_task # R.g_current_task => R.pendsv
        /\ k.pendsv => R.pendsv
    BY <1>1, TriggerKeeps
  <2>3. /\ pc' \in [Task -> NotifyLabel]
        /\ \A u \in Task : target'[u] # NULL <=> pc'[u] = "give_wake"
    BY <1>1, <2>1 DEF NotifyLabel, SchedLabel
  <2>4. NotifyNotLost'
    BY <1>1, <2>1, <2>2 DEF NotifyNotLost, InNotifyWait
  <2>5. SwitchAt(NotifyTriggers)'
    BY <2>1, <2>2 DEF SwitchAt
  <2> QED
    BY <1>1, <2>1, <2>2, <2>3, <2>4, <2>5, NotifyAssembled DEF NotifyStepKeeps, SameWaits
<1>6. ASSUME NEW r \in NotifyReceiver, NotifyFromIsr(r)
      PROVE  NotifyInv'
  <2>1. /\ r \in Task /\ s_ticks' = s_ticks /\ wakeAt' = wakeAt /\ target' = target /\ pc' = pc
        /\ notify_pending' = [notify_pending EXCEPT ![r] = TRUE]
        /\ k' = IF WasBlocked(r) THEN sched_wake_task(k, r) ELSE k
    BY <1>6, NotifyAssumption DEF NotifyFromIsr, Store
  <2>2. LET R == sched_wake_task(k, r) IN
        /\ KernelInv(R) /\ (R.g_next_task # R.g_current_task => R.pendsv)
        /\ R.priority = k.priority /\ R.wait_list_head = k.wait_list_head
        /\ R.timed_out = k.timed_out /\ R.waiters = k.waiters
        /\ R.s_task_count = k.s_task_count /\ R.g_current_task = k.g_current_task
        /\ R.delay_ticks = [k.delay_ticks EXCEPT ![r] = 0]
        /\ \A u \in Thread : R.state[u] = "BLOCKED" <=> u # r /\ k.state[u] = "BLOCKED"
    <3>1. KernelCore(k) /\ r \in Task /\ \A h \in WaitList : r \notin ToSet(k.waiters[h])
      BY <1>1, <2>1
    <3> QED
      BY <3>1, WakeDecides
  <2>3. /\ KernelInv(k') /\ k'.s_task_count = k.s_task_count /\ k'.waiters = k.waiters
        /\ SwitchAt(NotifyTriggers)'
        /\ \A u \in Task : k'.state[u] = "BLOCKED" => u # r /\ k.state[u] = "BLOCKED"
    <3>1. CASE WasBlocked(r)
      BY <1>1, <2>1, <2>2, <3>1 DEF SwitchAt
    <3>2. CASE ~WasBlocked(r)
      BY <1>1, <2>1, <3>2 DEF SwitchAt, WasBlocked
    <3> QED
      BY <3>1, <3>2
  <2>4. NotifyNotLost'
    BY <1>1, <2>1, <2>3 DEF NotifyNotLost, InNotifyWait
  <2> QED
    BY <1>1, <2>1, <2>3, <2>4, NotifyAssembled DEF NotifyStepKeeps
<1>7. ASSUME NEW t \in Task, NEW ms \in NotifyTimeout, task_notify_wait(t, ms)
      PROVE  NotifyInv'
  <2>1. s_ticks' = s_ticks /\ wakeAt' = wakeAt /\ pc[t] = "user" /\ Runs(t)
    BY <1>7 DEF task_notify_wait
  <2>2. CASE Consume(t) /\ UNCHANGED <<k, pc>>
    <3>1. /\ notify_pending' = [notify_pending EXCEPT ![t] = FALSE]
          /\ target' = target /\ k' = k /\ pc' = pc
      BY <2>2 DEF Consume
    <3>2. NotifyNotLost' /\ SwitchAt(NotifyTriggers)'
      BY <1>1, <2>1, <3>1 DEF NotifyNotLost, InNotifyWait, SwitchAt
    <3> QED
      BY <1>1, <2>1, <3>1, <3>2, NotifyAssembled DEF NotifyStepKeeps
  <2>3. CASE /\ ~Pending(t) /\ ms > 0
             /\ k' = sched_block_locked([k EXCEPT !.state[t] = "BLOCKED",
                                                  !.delay_ticks[t] = Countdown(ms),
                                                  !.wait_list_head[t] = NULL])
             /\ Goto(t, "notify_woken")
             /\ UNCHANGED notifyVars
    <3>1. /\ notify_pending' = notify_pending /\ target' = target /\ ~notify_pending[t]
          /\ pc' = [pc EXCEPT ![t] = "notify_woken"]
      BY <2>3 DEF notifyVars, Pending, Goto
    <3>2. Countdown(ms) \in Nat
      <4>1. TickModulus - 1 \in Nat
        BY SchedulerAssumption
      <4> QED
        BY <4>1, NotifyAssumption DEF Countdown, TASK_NOTIFY_WAIT_FOREVER
    <3>3. /\ KernelInv(k') /\ k'.pendsv
          /\ k'.waiters = k.waiters /\ k'.s_task_count = k.s_task_count
          /\ \A u \in Thread : k'.state[u] = "BLOCKED" <=> u = t \/ k.state[u] = "BLOCKED"
      <4>1. KernelCore(k)
        BY <1>1
      <4>2. LET R == sched_block_locked([k EXCEPT !.state[t] = "BLOCKED",
                                                 !.delay_ticks[t] = Countdown(ms),
                                                 !.wait_list_head[t] = NULL])
            IN
            /\ KernelInv(R) /\ R.pendsv
            /\ R.waiters = k.waiters /\ R.s_task_count = k.s_task_count
            /\ \A u \in Thread : R.state[u] = "BLOCKED" <=> u = t \/ k.state[u] = "BLOCKED"
        BY <3>2, <4>1, NotifyBlocks
      <4> QED
        BY <2>3, <4>2
    <3>4. /\ pc' \in [Task -> NotifyLabel]
          /\ \A u \in Task : target'[u] # NULL <=> pc'[u] = "give_wake"
      BY <1>1, <2>1, <3>1 DEF NotifyLabel
    <3>5. NotifyNotLost'
      BY <1>1, <3>1, <3>3 DEF NotifyNotLost, InNotifyWait
    <3>6. SwitchAt(NotifyTriggers)'
      BY <3>3 DEF SwitchAt
    <3> QED
      BY <1>1, <2>1, <3>1, <3>3, <3>4, <3>5, <3>6, NotifyAssembled DEF NotifyStepKeeps
  <2> QED
    BY <1>7, <2>2, <2>3 DEF task_notify_wait
<1>8. ASSUME NEW t \in Task, NotifyWoken(t)
      PROVE  NotifyInv'
  <2>1. /\ k' = k /\ s_ticks' = s_ticks /\ wakeAt' = wakeAt /\ target' = target
        /\ pc[t] = "notify_woken" /\ Runs(t) /\ pc' = [pc EXCEPT ![t] = "user"]
        /\ notify_pending' \in {notify_pending, [notify_pending EXCEPT ![t] = FALSE]}
    BY <1>8 DEF NotifyWoken, Consume, Goto, notifyVars
  <2>2. k.g_next_task = k.g_current_task
    BY <1>2, <2>1
  <2>3. /\ pc' \in [Task -> NotifyLabel] /\ notify_pending' \in [Task -> BOOLEAN]
        /\ \A u \in Task : target'[u] # NULL <=> pc'[u] = "give_wake"
    BY <1>1, <2>1 DEF NotifyLabel, SchedLabel
  <2>4. NotifyNotLost'
    <3>1. \A q \in Task : InNotifyWait(q)' => InNotifyWait(q) /\ q # t
      BY <1>1, <2>1 DEF InNotifyWait
    <3>2. \A q \in Task : q # t => notify_pending'[q] = notify_pending[q]
      BY <1>1, <2>1
    <3> QED
      BY <1>1, <2>1, <3>1, <3>2 DEF NotifyNotLost
  <2>5. SwitchAt(NotifyTriggers)'
    BY <2>1, <2>2 DEF SwitchAt
  <2> QED
    BY <1>1, <2>1, <2>3, <2>4, <2>5, NotifyAssembled DEF NotifyStepKeeps
<1>9. CASE (SysTick_Handler \/ PendSV) /\ UNCHANGED notifyVars
  BY <1>9, NotifySchedInv DEF SchedNext
<1>10. ASSUME NEW t \in Task, SchedStep(t) \/ \E ms \in Delay : sched_delay_ms(t, ms),
              UNCHANGED notifyVars
       PROVE  NotifyInv'
  <2>1. SchedNext
    BY <1>10 DEF SchedNext, SchedCall
  <2> QED
    BY <1>10, <2>1, NotifySchedInv
<1>11. CASE UNCHANGED notifyAllVars
  <2>1. UNCHANGED schedVars /\ UNCHANGED notifyVars
    BY <1>11 DEF notifyAllVars
  <2> QED
    BY <2>1, NotifySchedInv
<1> QED
  BY <1>3, <1>4, <1>5, <1>6, <1>7, <1>8, <1>9, <1>10, <1>11 DEF NotifyNext, NotifyStep

(* Nobody has been notified at first.                                      *)
LEMMA NotifyInitInv ==
    ASSUME NotifyInit
    PROVE  NotifyInv
<1>1. /\ SchedInv
      /\ k.waiters = [h \in WaitList |-> << >>]
      /\ k.g_next_task = k.g_current_task
      /\ \A t \in Thread : k.state[t] # "BLOCKED"
  BY InitCore DEF NotifyInit
<1>2. /\ notify_pending = [t \in Task |-> FALSE] /\ target = [t \in Task |-> NULL]
      /\ pc = [t \in Task |-> "user"]
  BY DEF NotifyInit, SchedInit
<1>3. NotifyTypeOK
  <2>1. pc \in [Task -> SchedLabel \cup {"give_wake", "give_trigger", "notify_woken"}]
    BY <1>2 DEF SchedLabel
  <2>2. notify_pending \in [Task -> BOOLEAN]
    BY <1>2
  <2>3. target \in [Task -> Task \cup {NULL}]
    BY <1>2
  <2> QED
    BY <1>1, <2>1, <2>2, <2>3
    DEF NotifyTypeOK, SchedInv, SchedCore, KernelInv, KernelCore, SchedTypeOK
<1> QED
  BY <1>1, <1>2, <1>3 DEF NotifyInv, NotifyNotLost, InNotifyWait, SwitchAt, SchedInv

(* The inductive invariant of the notifications.                           *)
THEOREM NotifyInvariant == NotifySpec => []NotifyInv
BY NotifyInitInv, NotifyNextInv, PTL DEF NotifySpec

(* No notification is lost between the critical section of                 *)
(* task_notify_give and the wake-up that follows it.                       *)
THEOREM NotificationNotLost == NotifySpec => []NotifyNotLost
<1>1. NotifyInv => NotifyNotLost
  BY DEF NotifyInv
<1> QED
  BY <1>1, NotifyInvariant, PTL
-----------------------------------------------------------------------------
(* Both in one program.                                                    *)

(* The invariant of the component in focus.                                *)
SignalInv ==
    /\ focus = "semaphore" => SemInv
    /\ focus = "notify" => NotifyInv

(* Whichever of the two the tasks use: token counts stay between zero and  *)
(* the maximum of sem_init, and every task is at a place of the scheduler  *)
(* or of the component's functions.                                        *)
THEOREM SignalTypesKept ==
    ASSUME Pausable = {}
    PROVE  SignalSpec => []SignalTypeOK
<1>1. SignalInit => SignalInv
  BY SemInitInv, NotifyInitInv DEF SignalInit, SignalInv
<1>2. SignalInv /\ [SignalNext]_signalVars => SignalInv'
  <2> SUFFICES ASSUME SignalInv, [SignalNext]_signalVars
               PROVE  SignalInv'
    OBVIOUS
  <2>1. focus' = focus
    BY DEF SignalNext, signalVars
  <2>2. ASSUME focus = "semaphore"
        PROVE  SemInv'
    <3>1. SemInv
      BY <2>2 DEF SignalInv
    <3>2. [SemNext]_semAllVars
      BY <2>2 DEF SignalNext, signalVars, semAllVars
    <3> QED
      BY <3>1, <3>2, SemNextInv
  <2>3. ASSUME focus = "notify"
        PROVE  NotifyInv'
    <3>1. NotifyInv
      BY <2>3 DEF SignalInv
    <3>2. [NotifyNext]_notifyAllVars
      BY <2>3 DEF SignalNext, signalVars, notifyAllVars
    <3> QED
      BY <3>1, <3>2, NotifyNextInv
  <2> QED
    BY <2>1, <2>2, <2>3 DEF SignalInv
<1>3. SignalInv => SignalTypeOK
  <2>1. SemInv => SemTypeOK
    BY SemAssumption DEF SemInv, SemTyped, SemTypeOK, SchedCore, KernelInv, KernelCore, SchedTypeOK
  <2>2. NotifyInv => NotifyTypeOK
    BY DEF NotifyInv
  <2> QED
    BY <2>1, <2>2 DEF SignalInv, SignalTypeOK
<1> QED
  BY <1>1, <1>2, <1>3, PTL DEF SignalSpec
=============================================================================
