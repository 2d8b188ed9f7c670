------------------------------- MODULE MCBoot -------------------------------
(* Small instances of Boot for TLC.                                        *)
EXTENDS Boot

(* Two tasks share the highest priority.                                   *)
MCEqual == {[t \in Task |-> 1]}
=============================================================================
