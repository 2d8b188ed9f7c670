----------------------------- MODULE MCSignals -----------------------------
(* Semaphores and task notifications, checked in one run.  They share      *)
(* nothing but the scheduler, so a behaviour is of tasks that use one of   *)
(* the two; focus says which.                                              *)
EXTENDS Semaphore, Notify

VARIABLE focus

signalVars == <<schedVars, semVars, notifyVars, focus>>

(* A most urgent task and two equals.                                      *)
MCOneUrgent == {[t \in Task |-> IF t = 2 THEN 0 ELSE 1]}

(* No token at first, at most two.                                         *)
MCInitial == [s \in Sem |-> 0]
MCMax == [s \in Sem |-> 2]

SignalInit ==
    /\ SemInit /\ NotifyInit
    /\ focus \in {"semaphore", "notify"}

SignalNext ==
    /\ \/ focus = "semaphore" /\ SemNext /\ UNCHANGED notifyVars
       \/ focus = "notify" /\ NotifyNext /\ UNCHANGED semVars
    /\ UNCHANGED focus

(* As in Scheduler: ticks come, PendSV is taken, and a task that gets the  *)
(* CPU again and again inside a kernel function executes its next step.    *)
InKernel(t) == SchedStep(t) \/ TakeRetry(t) \/ NotifyStep(t)

(* Each of those steps changes the kernel's memory or the task's place.    *)
cpuVars == <<k, pc>>

SignalSpec ==
    /\ SignalInit /\ [][SignalNext]_signalVars
    /\ SF_s_ticks(Tick)
    /\ WF_k(PendSV)
    /\ \A t \in Task : SF_cpuVars(InKernel(t))
-----------------------------------------------------------------------------
(* Types of the component in focus: token counts stay between zero and     *)
(* sem_init's maximum, program counters inside the component's functions.  *)
SignalTypeOK ==
    /\ focus = "semaphore" => SemTypeOK
    /\ focus = "notify" => NotifyTypeOK
=============================================================================
