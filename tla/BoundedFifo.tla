---------------------------- MODULE BoundedFifo ----------------------------
(***************************************************************************)
(* What a queue promises whoever uses it: items leave in the order in      *)
(* which they entered, none is lost, invented or duplicated, and no more   *)
(* than Capacity of them are inside.                                       *)
(***************************************************************************)
EXTENDS Naturals, Sequences

CONSTANTS Item, Capacity, NoItem

VARIABLES
    fifo,  \* the items inside, oldest first
    last   \* the item handed to a receiver last

FifoInit == fifo = << >> /\ last = NoItem

Send(x) ==
    /\ Len(fifo) < Capacity
    /\ fifo' = Append(fifo, x)
    /\ UNCHANGED last

Receive ==
    /\ fifo # << >>
    /\ last' = Head(fifo)
    /\ fifo' = Tail(fifo)

FifoNext == Receive \/ \E x \in Item : Send(x)

FifoSpec == FifoInit /\ [][FifoNext]_<<fifo, last>>
=============================================================================
