------------------------------ MODULE MCMutex ------------------------------
(* Small instances of Mutex for TLC.                                       *)
EXTENDS Mutex

(* The LOW / MED / HIGH scenario of test_mutex_priority_inheritance.c.     *)
MCLowMedHigh == {[t \in Task |-> 2 - t]}

(* The same, and two equals that contend with a more urgent task.          *)
MCMixed == {[t \in Task |-> 2 - t], [t \in Task |-> IF t = 2 THEN 0 ELSE 1]}
=============================================================================
