---------------------------- MODULE MCScheduler ----------------------------
(* Small instances of Scheduler for TLC.                                   *)
EXTENDS Scheduler

(* Two urgencies: equals that share the CPU round-robin and a task that    *)
(* preempts them or is preempted by them.                                  *)
MCTwoLevels == {p \in [Task -> {0, 1}] : p[0] = 0}
=============================================================================
