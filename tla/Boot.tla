-------------------------------- MODULE Boot --------------------------------
(***************************************************************************)
(* From main to the first task: sched_task_create and sched_start, with    *)
(* the tick interrupt already running (every main calls systick_init       *)
(* before sched_start) and PendSV_Handler as the assembly in               *)
(* kernel/arch/<cpu>/ has it, which saves the interrupted context into     *)
(* g_current_task whoever was interrupted.                                 *)
(***************************************************************************)
EXTENDS Kernel

CONSTANTS
    Main, \* the context of main, on the main stack
    Plan  \* priority functions: main creates task i with priority p[i]

ASSUME BootAssumption ==
    /\ Main \notin Thread \cup {NULL}
    /\ Plan \subseteq [Task -> Priority]

VARIABLES
    k,         \* the kernel's memory, see Kernel
    s_started, \* scheduler.c
    cpu,       \* the context the CPU executes: Main or a thread
    at,        \* where main is: "create", "current", "next", "running",
               \* "svc", and "gone" once it has lost the CPU for good
    frame,     \* whose registers every thread's saved sp points at
    plan       \* the priorities of this application

bootVars == <<k, s_started, cpu, at, frame, plan>>

(* task_stack_init gives every thread a frame of its own.                  *)
BootInit ==
    /\ k = sched_init
    /\ s_started = FALSE
    /\ cpu = Main
    /\ at = "create"
    /\ frame = [t \in Thread |-> t]
    /\ plan \in Plan

MainRuns == cpu = Main /\ ~k.pendsv

(* Only main creates tasks; with s_tasks full it gets -1.                  *)
sched_task_create ==
    /\ MainRuns /\ at = "create"
    /\ k.s_task_count < TASK_MAX
    /\ k' = CreateLocked(k, plan[k.s_task_count])
    /\ UNCHANGED <<s_started, cpu, at, frame, plan>>

(* sched_start, statement by statement: ticks are not masked.              *)
StartFlag ==
    /\ MainRuns /\ at = "create"
    /\ s_started' = TRUE
    /\ at' = "current"
    /\ UNCHANGED <<k, cpu, frame, plan>>

sched_start ==
    /\ MainRuns
    /\ \/ at = "current" /\ k' = StartCurrent(k) /\ at' = "next"
       \/ at = "next"    /\ k' = StartNext(k)    /\ at' = "running"
       \/ at = "running" /\ k' = StartRunning(k) /\ at' = "svc"
    /\ UNCHANGED <<s_started, cpu, frame, plan>>

(* sched_start_asm and SVC_Handler: load g_current_task's frame.           *)
SVC_Handler ==
    /\ MainRuns /\ at = "svc"
    /\ cpu' = frame[k.g_current_task]
    /\ at' = "gone"
    /\ UNCHANGED <<k, s_started, frame, plan>>

SysTick_Handler ==
    /\ ~k.pendsv
    /\ s_started
    /\ k' = sched_tick_n(k, 1)
    /\ UNCHANGED <<s_started, cpu, at, frame, plan>>

(* Save the interrupted context unless g_current_task is NULL, then load   *)
(* g_next_task's.                                                          *)
SavedFrame ==
    IF k.g_current_task = NULL THEN frame ELSE [frame EXCEPT ![k.g_current_task] = cpu]

PendSV ==
    /\ k.pendsv
    /\ frame' = SavedFrame
    /\ cpu' = frame'[k.g_next_task]
    /\ k' = PendSV_Handler(k)
    /\ at' = IF cpu = Main THEN "gone" ELSE at
    /\ UNCHANGED <<s_started, plan>>

BootNext ==
    \/ sched_task_create
    \/ StartFlag
    \/ sched_start
    \/ SVC_Handler
    \/ SysTick_Handler
    \/ PendSV

BootSpec == BootInit /\ [][BootNext]_bootVars
-----------------------------------------------------------------------------
(* Per-task isolation of contexts: a thread's saved stack pointer always   *)
(* leads to the thread's own registers.  A PendSV taken after sched_start  *)
(* has set g_current_task and before the SVC would store main's registers  *)
(* through the thread's TCB.                                               *)
FramesIsolated == \A t \in Thread : frame[t] = t

(* However a tick cuts into sched_start, no task is left RUNNING without   *)
(* being the committed one, where sched_select_next would never find it.   *)
BootSingleRunning ==
    at = "gone" => \A t \in Thread : k.state[t] = "RUNNING" => t = k.g_next_task

(* Start-up ends with every thread's context its own and one task running, *)
(* for every assignment of different priorities and with a tick after any  *)
(* statement of sched_start.                                               *)
StartsCleanly == FramesIsolated /\ BootSingleRunning
=============================================================================
