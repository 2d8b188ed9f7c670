------------------------------ MODULE Semaphore ------------------------------
(***************************************************************************)
(* Counting semaphores (kernel/core/semaphore.c) on top of the scheduler.  *)
(* A giver adds the token and wakes the most urgent waiter in one critical *)
(* section; the waiter competes for the token again when it runs.          *)
(***************************************************************************)
EXTENDS Scheduler

CONSTANTS
    Sem,     \* the semaphores, each the address of its own wait-list head
    InitialCount, \* InitialCount[s] and MaxCount[s]: the arguments of sem_init
    MaxCount

ASSUME SemAssumption ==
    /\ Sem \subseteq WaitList
    /\ MaxCount \in [Sem -> Nat \ {0}]
    /\ InitialCount \in [Sem -> Nat]
    /\ \A s \in Sem : InitialCount[s] <= MaxCount[s]

VARIABLES
    count,  \* sem_t.count
    wants   \* the semaphore of the sem_take a task is in, else NULL

semVars == <<count, wants>>
semAllVars == <<schedVars, semVars>>

SemTypeOK ==
    /\ SchedTypeOK
    /\ pc \in [Task -> SchedLabel \cup {"take_retry"}]
    /\ \A s \in Sem : count[s] \in 0 .. MaxCount[s]
    /\ wants \in [Task -> Sem \cup {NULL}]

SemInit ==
    /\ SchedInit
    /\ count = [s \in Sem |-> InitialCount[s]]
    /\ wants = [t \in Task |-> NULL]
-----------------------------------------------------------------------------
(* One pass through the loop of sem_take, a single critical section.       *)
TryTake(t, s) ==
    \/ /\ count[s] > 0
       /\ count' = [count EXCEPT ![s] = @ - 1]
       /\ wants' = [wants EXCEPT ![t] = NULL]
       /\ Goto(t, "user")
       /\ UNCHANGED k
    \/ /\ count[s] = 0
       /\ k' = BlockOn(k, t, s)
       /\ wants' = [wants EXCEPT ![t] = s]
       /\ Goto(t, "take_retry")
       /\ UNCHANGED count

sem_take(t, s) ==
    /\ Runs(t) /\ pc[t] = "user"
    /\ TryTake(t, s)
    /\ UNCHANGED <<s_ticks, wakeAt>>

TakeRetry(t) ==
    /\ Runs(t) /\ pc[t] = "take_retry"
    /\ TryTake(t, wants[t])
    /\ UNCHANGED <<s_ticks, wakeAt>>

(* A failing sem_trytake changes nothing.                                  *)
sem_trytake(t, s) ==
    /\ Runs(t) /\ pc[t] = "user"
    /\ count[s] > 0
    /\ count' = [count EXCEPT ![s] = @ - 1]
    /\ UNCHANGED <<schedVars, wants>>

(* Mutant: the limit is not tested.                                        *)
MutGiveUnbounded(s) == count[s] + 1

(* Mutant: a give that finds a waiter adds no token.                       *)
MutNoHandOff(s) == IF FirstWaiter(k, s) = NULL /\ count[s] < MaxCount[s] THEN count[s] + 1 ELSE count[s]

(* A token beyond max is dropped, whether or not somebody waits.           *)
Given(s) == IF count[s] < MaxCount[s] THEN count[s] + 1 ELSE count[s]

(* Mutant: the waiter is taken off the list and not woken.                 *)
MutPopOnly(s) == wq_pop(k, s)

(* Mutant: nobody is woken.                                                *)
MutNoWake(s) == k

GiveKernel(s) ==
    LET waiter == FirstWaiter(k, s)
    IN  IF waiter = NULL THEN k ELSE sched_wake_task(wq_pop(k, s), waiter)

sem_give(t, s) ==
    /\ Runs(t) /\ pc[t] = "user"
    /\ count' = [count EXCEPT ![s] = Given(s)]
    /\ k' = GiveKernel(s)
    /\ UNCHANGED <<pc, s_ticks, wakeAt, wants>>
-----------------------------------------------------------------------------
SemNext ==
    \/ SchedNext /\ UNCHANGED semVars
    \/ \E t \in Task : TakeRetry(t)
    \/ \E t \in Task : \E s \in Sem : sem_take(t, s) \/ sem_trytake(t, s) \/ sem_give(t, s)

SemSpec == SemInit /\ [][SemNext]_semAllVars
-----------------------------------------------------------------------------
(* Properties.                                                             *)

(* The wait list of a semaphore holds exactly the tasks blocked in         *)
(* sem_take, each once and in order of urgency: sem_give serves the most   *)
(* urgent waiter.                                                          *)
SemWaitListExact ==
    /\ LinkedOnce(k)
    /\ \A s \in Sem :
         /\ \A t \in Task :
               t \in ToSet(k.waiters[s]) <=> wants[t] = s /\ k.state[t] = "BLOCKED"
         /\ \A i, j \in DOMAIN k.waiters[s] :
               i < j => k.priority[k.waiters[s][i]] <= k.priority[k.waiters[s][j]]

(* No wake-up is lost: while a token is there and tasks wait, a woken task *)
(* is on its way to take it.  sem_trytake and newly arriving callers may   *)
(* take tokens before it.                                                  *)
SemNoLostWakeup ==
    \A s \in Sem :
        count[s] > 0 /\ k.waiters[s] # << >> =>
            \E t \in Task : wants[t] = s /\ k.state[t] # "BLOCKED"

(* As long as tokens keep being given, the most urgent task gets one, even *)
(* if the other tasks barge in with sem_trytake or never stop running.     *)
MostUrgentTakes ==
    \A s \in Sem : \A t \in Task :
        []<><<\E u \in Task : sem_give(u, s)>>_semAllVars =>
            ((wants[t] = s /\ \A u \in Task \ {t} : k.priority[t] < k.priority[u])
               ~> wants[t] = NULL)
=============================================================================
