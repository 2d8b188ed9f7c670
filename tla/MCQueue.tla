------------------------------ MODULE MCQueue ------------------------------
(* Small instances of Queue for TLC.                                       *)
EXTENDS Queue

MCDistinct == {[t \in Task |-> 2 - t]}
MCEqual == {[t \in Task |-> 1]}

(* Items are only stored and handed on.                                    *)
ItemSymmetry == Permutations(Item)
=============================================================================
