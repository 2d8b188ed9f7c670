----------------------------- MODULE QueueProofs -----------------------------
(***************************************************************************)
(* The message queue, for any number of tasks, any capacity, any items,    *)
(* any priorities and any timeouts.  What moves through the ring is right  *)
(* whoever pauses whom.  The wait lists are exact, and no wake-up is lost, *)
(* for tasks that nobody pauses and timed calls by nobody but a task less  *)
(* urgent than all others (TimedLast): the wake-up comes after the         *)
(* critical section that takes a waiter off its list, and any other waiter *)
(* with a timeout may by then wait elsewhere.                              *)
(***************************************************************************)
EXTENDS Queue, SchedulerProofs

QueuePc == SchedLabel \cup QueueLabel

(* The labels before a trigger_pendsv.                                     *)
QueueTriggers == SchedTriggers \cup {"q_trigger"}

RingRecord == [buffer : [0 .. (Capacity - 1) -> Item \cup {NULL}],
               count : 0 .. Capacity,
               head : 0 .. (Capacity - 1),
               tail : 0 .. (Capacity - 1)]

OpRecord == [dir : Direction \cup {NULL}, item : Item \cup {NULL},
             mode : {"block", "timed", "try", NULL}, deadline : Time,
             waiter : Task \cup {NULL}]

(* The ring: the slot to write next is count slots after the one to read.  *)
RingInv ==
    /\ q \in RingRecord
    /\ last \in Item \cup {NULL}
    /\ q.tail = (q.head + q.count) % Capacity

(* A call under way knows its direction, and what to send; a call that has *)
(* taken a waiter off its list knows whom.                                 *)
CallsInv ==
    /\ op \in [Task -> OpRecord]
    /\ \A t \in Task :
          /\ pc[t] \in {"q_try", "q_check"} =>
                op[t].dir \in Direction /\ (op[t].dir = "send" => op[t].item \in Item)
          /\ pc[t] = "q_wake" => op[t].waiter \in Task

(* The countdown of a blocked timed call has not run out.                  *)
CountsDown ==
    \A t \in Task : pc[t] = "q_check" /\ k.state[t] = "BLOCKED" =>
        k.delay_ticks[t] # 0 /\ s_ticks + k.delay_ticks[t] = op[t].deadline

(* The inductive invariant.                                                *)
QueueBase ==
    /\ SchedCore
    /\ pc \in [Task -> QueuePc]
    /\ SwitchAt(QueueTriggers)
    /\ RingInv
    /\ CallsInv
    /\ CountsDown
-----------------------------------------------------------------------------
(* The ring buffer.                                                        *)

(* Indices wrap at most once.                                              *)
LEMMA RingIndex ==
    ASSUME NEW h \in 0 .. (Capacity - 1), NEW i \in 0 .. Capacity
    PROVE  (h + i) % Capacity = IF h + i < Capacity THEN h + i ELSE h + i - Capacity
<1>1. Capacity \in Nat /\ Capacity > 0 /\ h \in Nat /\ i \in Nat /\ h < Capacity /\ i <= Capacity
  BY QueueAssumption
<1>2. CASE h + i < Capacity
  BY <1>1, <1>2
<1>3. CASE h + i >= Capacity
  <2>1. h + i - Capacity \in 0 .. (Capacity - 1)
    BY <1>1, <1>3
  <2>2. h + i = Capacity * 1 + (h + i - Capacity)
    BY <1>1
  <2> QED
    BY <1>1, <1>3, <2>1, <2>2
<1> QED
  BY <1>1, <1>2, <1>3

(* The slot of the i-th item.                                              *)
Slot(i) == (q.head + i - 1) % Capacity

(* The arithmetic of the ring: where slot i is, with and without wrapping. *)
LEMMA SlotIndex ==
    ASSUME RingInv
    PROVE  /\ Capacity \in Nat /\ Capacity > 0
           /\ q.count \in Nat /\ q.count <= Capacity
           /\ q.head \in 0 .. (Capacity - 1) /\ q.tail \in 0 .. (Capacity - 1)
           /\ \A i \in 1 .. (Capacity + 1) :
                 /\ Slot(i) = IF q.head + i - 1 < Capacity THEN q.head + i - 1
                                                           ELSE q.head + i - 1 - Capacity
                 /\ Slot(i) \in 0 .. (Capacity - 1)
           /\ q.tail = Slot(q.count + 1)
           /\ Contents = [i \in 1 .. q.count |-> q.buffer[Slot(i)]]
           /\ Contents \in Seq(Item \cup {NULL}) /\ Len(Contents) = q.count
<1>1. /\ Capacity \in Nat /\ Capacity > 0
      /\ q.count \in Nat /\ q.count <= Capacity
      /\ q.head \in 0 .. (Capacity - 1) /\ q.tail \in 0 .. (Capacity - 1)
      /\ q.buffer \in [0 .. (Capacity - 1) -> Item \cup {NULL}]
  BY QueueAssumption DEF RingInv, RingRecord
<1>2. ASSUME NEW i \in 1 .. (Capacity + 1)
      PROVE  /\ Slot(i) = IF q.head + i - 1 < Capacity THEN q.head + i - 1
                                                       ELSE q.head + i - 1 - Capacity
             /\ Slot(i) \in 0 .. (Capacity - 1)
  <2>1. i - 1 \in 0 .. Capacity /\ q.head + i - 1 = q.head + (i - 1)
    BY <1>1
  <2> DEFINE j == i - 1
  <2>2. (q.head + j) % Capacity = IF q.head + j < Capacity THEN q.head + j
                                                          ELSE q.head + j - Capacity
    BY <1>1, <2>1, RingIndex
  <2>3. Slot(i) = (q.head + j) % Capacity
    BY <2>1 DEF Slot
  <2>4. (q.head + j) % Capacity \in 0 .. (Capacity - 1)
    <3>1. Capacity \in Nat /\ Capacity > 0 /\ q.head \in 0 .. (Capacity - 1) /\ j \in 0 .. Capacity
      BY <1>1, <2>1
    <3> HIDE DEF j
    <3> QED BY <2>2, <3>1
  <2> QED
    BY <2>1, <2>2, <2>3, <2>4
<1>3. q.tail = Slot(q.count + 1)
  <2>1. q.head + (q.count + 1) - 1 = q.head + q.count
    BY <1>1
  <2> QED
    BY <2>1 DEF RingInv, Slot
<1>4. Contents = [i \in 1 .. q.count |-> q.buffer[Slot(i)]]
  BY DEF Contents, Slot
<1>5. \A i \in 1 .. q.count : q.buffer[Slot(i)] \in Item \cup {NULL}
  BY <1>1, <1>2
<1>6. Contents \in Seq(Item \cup {NULL}) /\ Len(Contents) = q.count
  <2>1. Contents \in [1 .. q.count -> Item \cup {NULL}]
    BY <1>4, <1>5
  <2>2. q.count \in Nat
    BY <1>1
  <2> QED BY <2>1, <2>2
<1> QED
  BY <1>1, <1>2, <1>3, <1>4, <1>6

(* queue_copy_in appends an item.                                          *)
LEMMA CopyInAppends ==
    ASSUME RingInv, q.count < Capacity, NEW x \in Item, q' = queue_copy_in(x), last' = last
    PROVE  RingInv' /\ Contents' = Append(Contents, x)
<1>0. /\ Capacity \in Nat /\ Capacity > 0
      /\ q.count \in Nat /\ q.count <= Capacity
      /\ q.head \in Nat /\ q.head < Capacity
      /\ q.tail \in Nat /\ q.tail < Capacity
  BY SlotIndex
<1>1. /\ Capacity \in Nat /\ Capacity > 0
      /\ q.count \in Nat /\ q.count <= Capacity
      /\ q.head \in 0 .. (Capacity - 1) /\ q.tail \in 0 .. (Capacity - 1)
      /\ \A i \in 1 .. (Capacity + 1) :
            /\ Slot(i) = IF q.head + i - 1 < Capacity THEN q.head + i - 1
                                                      ELSE q.head + i - 1 - Capacity
            /\ Slot(i) \in 0 .. (Capacity - 1)
      /\ q.tail = Slot(q.count + 1)
      /\ Contents = [i \in 1 .. q.count |-> q.buffer[Slot(i)]]
      /\ Contents \in Seq(Item \cup {NULL}) /\ Len(Contents) = q.count
  BY SlotIndex
<1>2. q \in RingRecord
  BY DEF RingInv
<1>3. /\ q'.head = q.head /\ q'.count = q.count + 1
      /\ q'.tail = (q.tail + 1) % Capacity
      /\ q'.buffer = [q.buffer EXCEPT ![q.tail] = x]
      /\ q' \in RingRecord
  <2>0. q.tail \in 0 .. (Capacity - 1) /\ 1 \in 0 .. Capacity
    BY <1>0
  <2>6. (q.tail + 1) % Capacity = IF q.tail + 1 < Capacity THEN q.tail + 1 ELSE q.tail + 1 - Capacity
    BY <2>0, RingIndex
  <2>1. (q.tail + 1) % Capacity \in 0 .. (Capacity - 1) /\ q.count + 1 \in 0 .. Capacity
    BY <1>0, <2>6
  <2>2. [q.buffer EXCEPT ![q.tail] = x] \in [0 .. (Capacity - 1) -> Item \cup {NULL}]
    BY <1>2 DEF RingRecord
  <2> DEFINE b == [q.buffer EXCEPT ![q.tail] = x]
             e == (q.tail + 1) % Capacity
             c == q.count + 1
  <2>3. q' = [q EXCEPT !.buffer = b, !.tail = e, !.count = c]
    BY <1>2 DEF queue_copy_in, RingRecord
  <2> HIDE DEF b, e, c
  <2>4. q'.head = q.head /\ q'.count = c /\ q'.tail = e /\ q'.buffer = b
    BY <1>2, <2>3 DEF RingRecord
  <2>5. q' \in RingRecord
    BY <1>2, <2>1, <2>2, <2>3 DEF RingRecord, b, e, c
  <2> QED
    BY <2>4, <2>5 DEF b, e, c
<1>4. q'.tail = (q'.head + q'.count) % Capacity
  <2>1. (q.tail + 1) % Capacity = IF q.tail + 1 < Capacity THEN q.tail + 1
                                                          ELSE q.tail + 1 - Capacity
    <3>1. q.tail \in 0 .. (Capacity - 1) /\ 1 \in 0 .. Capacity
      BY <1>0
    <3> QED
      BY <3>1, RingIndex
  <2>2. (q.head + (q.count + 1)) % Capacity =
          IF q.head + (q.count + 1) < Capacity THEN q.head + (q.count + 1)
                                               ELSE q.head + (q.count + 1) - Capacity
    <3>1. q.count + 1 \in 0 .. Capacity
      BY <1>1
    <3> QED
      BY <1>1, <3>1, RingIndex
  <2>3. q.tail = IF q.head + q.count < Capacity THEN q.head + q.count
                                                ELSE q.head + q.count - Capacity
    <3>1. q.count + 1 \in 1 .. (Capacity + 1)
      BY <1>1
    <3>2. Slot(q.count + 1) = IF q.head + (q.count + 1) - 1 < Capacity
                              THEN q.head + (q.count + 1) - 1
                              ELSE q.head + (q.count + 1) - 1 - Capacity
      BY <1>1, <3>1
    <3>3. q.head + (q.count + 1) - 1 = q.head + q.count
      BY <1>1
    <3> QED
      BY <1>1, <3>2, <3>3
  <2>4. (q.tail + 1) % Capacity = (q.head + (q.count + 1)) % Capacity
    BY <1>0, <2>1, <2>2, <2>3
  <2> QED
    BY <1>3, <2>4
<1>5. RingInv'
  BY <1>3, <1>4 DEF RingInv
<1>6. Contents' = [i \in 1 .. (q.count + 1) |-> q'.buffer[Slot(i)]]
  BY <1>3 DEF Contents, Slot
<1>7. \A i \in 1 .. q.count : Slot(i) # q.tail /\ q'.buffer[Slot(i)] = q.buffer[Slot(i)]
  <2>1. SUFFICES ASSUME NEW i \in 1 .. q.count
                 PROVE  Slot(i) # q.tail /\ q'.buffer[Slot(i)] = q.buffer[Slot(i)]
    OBVIOUS
  <2>2. /\ i \in 1 .. (Capacity + 1) /\ q.count + 1 \in 1 .. (Capacity + 1)
        /\ i <= q.count /\ i \in Nat
    BY <1>0
  <2>3. /\ Slot(i) = IF q.head + i - 1 < Capacity THEN q.head + i - 1
                                                  ELSE q.head + i - 1 - Capacity
        /\ Slot(q.count + 1) = IF q.head + (q.count + 1) - 1 < Capacity
                               THEN q.head + (q.count + 1) - 1
                               ELSE q.head + (q.count + 1) - 1 - Capacity
        /\ Slot(i) \in 0 .. (Capacity - 1)
    BY <1>1, <2>2
  <2>4. Slot(i) # q.tail
    <3>1. q.tail = Slot(q.count + 1)
      BY <1>1
    <3>2. Slot(i) # Slot(q.count + 1)
      BY <1>0, <2>2, <2>3
    <3> QED
      BY <3>1, <3>2
  <2>5. q.buffer \in [0 .. (Capacity - 1) -> Item \cup {NULL}]
    BY <1>2 DEF RingRecord
  <2> QED
    BY <1>3, <2>3, <2>4, <2>5
<1>8. q'.buffer[Slot(q.count + 1)] = x
  BY <1>1, <1>2, <1>3 DEF RingRecord
<1>9. Contents' = Append(Contents, x)
  <2>1. Append(Contents, x) = [i \in 1 .. (Len(Contents) + 1) |->
                                IF i \in 1 .. Len(Contents) THEN Contents[i] ELSE x]
    BY <1>1
  <2>2. \A i \in 1 .. (q.count + 1) : i \notin 1 .. q.count => i = q.count + 1
    BY <1>1
  <2>3. \A i \in 1 .. (q.count + 1) :
           q'.buffer[Slot(i)] = IF i \in 1 .. q.count THEN Contents[i] ELSE x
    BY <1>1, <1>7, <1>8, <2>2
  <2> QED
    BY <1>1, <1>6, <2>1, <2>3
<1> QED
  BY <1>5, <1>9

(* queue_copy_out hands out the oldest item.                               *)
LEMMA CopyOutTakesHead ==
    ASSUME RingInv, q.count > 0, q' = queue_copy_out, last' = q.buffer[q.head]
    PROVE  /\ RingInv'
           /\ Contents # << >> /\ last' = Head(Contents) /\ Contents' = Tail(Contents)
<1>0. /\ Capacity \in Nat /\ Capacity > 0
      /\ q.count \in Nat /\ q.count <= Capacity
      /\ q.head \in Nat /\ q.head < Capacity
      /\ q.tail \in Nat /\ q.tail < Capacity
  BY SlotIndex
<1>1. /\ Capacity \in Nat /\ Capacity > 0
      /\ q.count \in Nat /\ q.count <= Capacity
      /\ q.head \in 0 .. (Capacity - 1) /\ q.tail \in 0 .. (Capacity - 1)
      /\ \A i \in 1 .. (Capacity + 1) :
            /\ Slot(i) = IF q.head + i - 1 < Capacity THEN q.head + i - 1
                                                      ELSE q.head + i - 1 - Capacity
            /\ Slot(i) \in 0 .. (Capacity - 1)
      /\ q.tail = Slot(q.count + 1)
      /\ Contents = [i \in 1 .. q.count |-> q.buffer[Slot(i)]]
      /\ Contents \in Seq(Item \cup {NULL}) /\ Len(Contents) = q.count
  BY SlotIndex
<1>2. q \in RingRecord
  BY DEF RingInv
<1> DEFINE h == (q.head + 1) % Capacity
<1>3. h = IF q.head + 1 < Capacity THEN q.head + 1 ELSE q.head + 1 - Capacity
  <2>1. q.head \in 0 .. (Capacity - 1) /\ 1 \in 0 .. Capacity
    BY <1>0
  <2> QED
    BY <2>1, RingIndex
<1> HIDE DEF h
<1>4. /\ q'.head = h /\ q'.count = q.count - 1
      /\ q'.tail = q.tail /\ q'.buffer = q.buffer
      /\ q' \in RingRecord
  <2>1. h \in 0 .. (Capacity - 1) /\ q.count - 1 \in 0 .. Capacity
    BY <1>0, <1>3
  <2> DEFINE c == q.count - 1
  <2>2. q' = [q EXCEPT !.head = h, !.count = c]
    BY <1>2 DEF queue_copy_out, RingRecord, h
  <2> HIDE DEF c
  <2>3. q'.head = h /\ q'.count = c /\ q'.tail = q.tail /\ q'.buffer = q.buffer
    BY <1>2, <2>2 DEF RingRecord
  <2>4. q' \in RingRecord
    BY <1>2, <2>1, <2>2 DEF RingRecord, c
  <2> QED
    BY <2>3, <2>4 DEF c
<1>5. \A i \in 1 .. q.count : (h + i - 1) % Capacity = Slot(i + 1)
  <2> SUFFICES ASSUME NEW i \in 1 .. q.count
               PROVE  (h + i - 1) % Capacity = Slot(i + 1)
    OBVIOUS
  <2> DEFINE j == i - 1
  <2>1. /\ h \in 0 .. (Capacity - 1) /\ j \in 0 .. Capacity /\ i + 1 \in 1 .. (Capacity + 1)
        /\ h + i - 1 = h + j /\ j = i - 1 /\ i \in Nat
    BY <1>0, <1>3
  <2> HIDE DEF j
  <2>2. (h + j) % Capacity = IF h + j < Capacity THEN h + j ELSE h + j - Capacity
    BY <2>1, RingIndex
  <2>3. Slot(i + 1) = IF q.head + (i + 1) - 1 < Capacity THEN q.head + (i + 1) - 1
                                                         ELSE q.head + (i + 1) - 1 - Capacity
    BY <1>1, <2>1
  <2>4. j <= Capacity - 1
    BY <1>0, <2>1
  <2>5. CASE q.head + 1 < Capacity
    BY <1>0, <1>3, <2>1, <2>2, <2>3, <2>4, <2>5
  <2>6. CASE q.head + 1 >= Capacity
    <3>1. q.head = Capacity - 1 /\ h = 0
      BY <1>0, <1>3, <2>6
    <3>2. (h + j) % Capacity = j
      BY <1>0, <2>1, <2>2, <2>4, <3>1
    <3>3. Slot(i + 1) = j
      BY <1>0, <2>1, <2>3, <3>1
    <3> QED
      BY <2>1, <3>2, <3>3
  <2> QED
    BY <1>0, <2>5, <2>6
<1>6. q'.tail = (q'.head + q'.count) % Capacity
  <2>1. q.count \in 1 .. q.count /\ h + q.count - 1 = h + (q.count - 1)
    BY <1>1, <1>3
  <2>2. (h + q.count - 1) % Capacity = Slot(q.count + 1)
    BY <1>5, <2>1
  <2> QED
    BY <1>1, <1>4, <2>1, <2>2
<1>7. Slot(1) = q.head
  <2>1. 1 \in 1 .. (Capacity + 1) /\ q.head + 1 - 1 = q.head
    BY <1>1
  <2> QED
    BY <1>1, <2>1
<1>8. RingInv'
  <2>1. q.buffer[q.head] \in Item \cup {NULL}
    BY <1>1, <1>2 DEF RingRecord
  <2> QED
    BY <1>4, <1>6, <2>1 DEF RingInv
<1>9. Contents # << >> /\ last' = Head(Contents)
  <2>1. 1 \in 1 .. q.count
    BY <1>1
  <2> QED
    BY <1>1, <1>7, <2>1
<1>10. Contents' = Tail(Contents)
  <2>1. Contents' = [i \in 1 .. (q.count - 1) |-> q.buffer[(h + i - 1) % Capacity]]
    BY <1>4 DEF Contents
  <2>2. Tail(Contents) = [i \in 1 .. (Len(Contents) - 1) |-> Contents[i + 1]]
    <3>1. Contents \in Seq(Item \cup {NULL}) /\ Contents # << >>
      BY <1>1, <1>9
    <3>2. ASSUME NEW s \in Seq(Item \cup {NULL}), s # << >>
          PROVE  Tail(s) = [i \in 1 .. (Len(s) - 1) |-> s[i + 1]]
      <4>1. /\ Tail(s) \in Seq(Item \cup {NULL}) /\ Len(Tail(s)) = Len(s) - 1
            /\ \A i \in 1 .. Len(Tail(s)) : Tail(s)[i] = s[i + 1]
        BY <3>2, HeadTailProperties
      <4>2. \A r \in Seq(Item \cup {NULL}) : r = [i \in 1 .. Len(r) |-> r[i]]
        OBVIOUS
      <4> QED
        BY <4>1, <4>2
    <3> QED
      BY <3>1, <3>2
  <2>3. \A i \in 1 .. (q.count - 1) : i \in 1 .. q.count /\ i + 1 \in 1 .. q.count
    <3>1. q.count \in Nat
      BY <1>1
    <3> QED
      BY <3>1
  <2>4. \A i \in 1 .. (q.count - 1) : q.buffer[(h + i - 1) % Capacity] = Contents[i + 1]
    BY <1>1, <1>5, <2>3
  <2> QED
    BY <1>1, <2>1, <2>2, <2>4
<1> QED
  BY <1>8, <1>9, <1>10

(* A move of an item is a step of the abstract queue.                      *)
LEMMA MoveRefines ==
    ASSUME RingInv, NEW dir \in Direction, NEW x, dir = "send" => x \in Item,
           Possible(dir), Move(dir, x)
    PROVE  RingInv' /\ Fifo!FifoNext
<1>1. CASE dir = "send"
  <2>1. /\ q.count < Capacity /\ x \in Item /\ q' = queue_copy_in(x) /\ last' = last
    BY <1>1 DEF Possible, Move
  <2>2. RingInv' /\ Contents' = Append(Contents, x)
    BY <2>1, CopyInAppends
  <2>3. Len(Contents) = q.count
    BY SlotIndex
  <2>4. Fifo!Send(x)
    BY <2>1, <2>2, <2>3 DEF Fifo!Send
  <2> QED
    BY <2>1, <2>2, <2>4 DEF Fifo!FifoNext
<1>2. CASE dir = "receive"
  <2>1. q.count > 0 /\ q' = queue_copy_out /\ last' = q.buffer[q.head]
    BY <1>2 DEF Possible, Move
  <2>2. /\ RingInv'
        /\ Contents # << >> /\ last' = Head(Contents) /\ Contents' = Tail(Contents)
    BY <2>1, CopyOutTakesHead
  <2> QED
    BY <2>2 DEF Fifo!FifoNext, Fifo!Receive
<1> QED
  BY <1>1, <1>2 DEF Direction

(* Every step of the system is one, or leaves the ring alone.              *)
LEMMA RingStep ==
    ASSUME RingInv, CallsInv, [QueueNext]_vars
    PROVE  RingInv' /\ [Fifo!FifoNext]_<<Contents, last>>
<1>1. CASE q' = q /\ last' = last
  BY <1>1 DEF RingInv, Contents
<1>2. ASSUME NEW t \in Task, Transfer(t)
      PROVE  RingInv' /\ Fifo!FifoNext
  <2>1. /\ pc[t] = "q_try" /\ Possible(op[t].dir) /\ Move(op[t].dir, op[t].item)
    BY <1>2 DEF Transfer
  <2>2. op[t].dir \in Direction /\ (op[t].dir = "send" => op[t].item \in Item)
    BY <2>1 DEF CallsInv
  <2> QED
    BY <2>1, <2>2, MoveRefines
<1>3. ASSUME NEW dir \in Direction, NEW x, dir = "send" => x \in Item, IsrMove(dir, x)
      PROVE  RingInv' /\ Fifo!FifoNext
  BY <1>3, MoveRefines DEF IsrMove
<1>4. ASSUME NEW t \in Task, QueueCall(t)
      PROVE  q' = q /\ last' = last
  BY <1>4 DEF QueueCall, queue_send, queue_try_send, queue_receive, queue_try_receive,
              queue_send_timeout, queue_receive_timeout, Enter
<1>5. ASSUME NEW t \in Task, Wait(t) \/ Check(t) \/ Wake(t) \/ WakeTrigger(t)
      PROVE  q' = q /\ last' = last
  BY <1>5 DEF Wait, Check, Wake, WakeTrigger
<1>6. (SchedNext /\ UNCHANGED queueVars) \/ UNCHANGED vars => q' = q /\ last' = last
  BY DEF vars, queueVars
<1>7. CASE \E t \in Task : QueueStep(t)
  BY <1>1, <1>2, <1>5, <1>7 DEF QueueStep
<1>8. CASE IsrMove("receive", NULL) \/ \E x \in Item : IsrMove("send", x)
  BY <1>3, <1>8 DEF Direction
<1> QED
  BY <1>1, <1>4, <1>6, <1>7, <1>8 DEF QueueNext
-----------------------------------------------------------------------------
(* The calls and the kernel.                                               *)

(* The program points of the calls and of the scheduler are distinct.      *)
LEMMA QueueLabels ==
    /\ SchedLabel \subseteq QueuePc /\ QueueLabel \subseteq QueuePc
    /\ "user" \in QueuePc /\ "user" \notin QueueLabel
    /\ SchedTriggers \subseteq QueueTriggers
    /\ "user" \notin QueueTriggers /\ "delay_wait" \notin QueueTriggers
    /\ {"q_try", "q_check", "q_wake"} \cap QueueTriggers = {}
    /\ \A l \in QueueLabel : l \notin SchedLabel
    /\ "q_trigger" \in QueueTriggers
    /\ {"q_try", "q_check", "q_wake", "q_trigger"} \subseteq QueuePc
BY DEF QueuePc, SchedLabel, QueueLabel, SchedTriggers, QueueTriggers

(* The parts of QueueBase, and what is known of a running task that is not *)
(* about to trigger a switch.                                              *)
LEMMA QueueFacts ==
    ASSUME QueueBase
    PROVE  /\ KernelInv(k) /\ KernelCore(k) /\ KernelTypeOK(k) /\ k.s_task_count = TASK_MAX
           /\ k.delay_ticks \in [Task -> Nat] /\ k.g_current_task \in Thread
           /\ pc \in [Task -> QueuePc] /\ SwitchAt(QueueTriggers)
           /\ op \in [Task -> OpRecord]
           /\ s_ticks \in Time /\ wakeAt \in [Task -> Time]
           /\ NULL \notin Task /\ Task \subseteq Thread
           /\ \A dir : OwnList(dir) \in WaitList /\ PeerList(dir) \in WaitList
           /\ \A t \in Task : Runs(t) /\ pc[t] \notin QueueTriggers =>
                 k.g_next_task = t /\ k.g_current_task = t /\ k.state[t] # "BLOCKED"
<1>1. /\ KernelInv(k) /\ KernelCore(k) /\ KernelTypeOK(k) /\ k.s_task_count = TASK_MAX
      /\ s_ticks \in Time /\ wakeAt \in [Task -> Time]
      /\ pc \in [Task -> QueuePc] /\ SwitchAt(QueueTriggers)
      /\ op \in [Task -> OpRecord]
  BY DEF QueueBase, SchedCore, KernelInv, KernelCore, CallsInv
<1>2. k.delay_ticks \in [Task -> Nat] /\ k.g_current_task \in Thread
  BY <1>1 DEF KernelCore, KernelTypeOK, HasThreads
<1>3. NULL \notin Task /\ Task \subseteq Thread
  BY KernelAssumption DEF Thread
<1>4. \A dir : OwnList(dir) \in WaitList /\ PeerList(dir) \in WaitList
  BY QueueAssumption DEF OwnList, PeerList
<1>5. \A t \in Task : Runs(t) /\ pc[t] \notin QueueTriggers =>
         k.g_next_task = t /\ k.g_current_task = t /\ k.state[t] # "BLOCKED"
  BY <1>1, RunnerIsNext DEF Runs
<1> QED
  BY <1>1, <1>2, <1>3, <1>4, <1>5

(* What is left to show for a step of task t in queue.c that sends t to    *)
(* label l with locals c.                                                  *)
CallStep(t, l, c) ==
    /\ KernelInv(k') /\ k'.s_task_count = k.s_task_count
    /\ s_ticks' = s_ticks /\ wakeAt' = wakeAt
    /\ pc' = [pc EXCEPT ![t] = l] /\ op' = [op EXCEPT ![t] = c]
    /\ k'.g_next_task # k'.g_current_task => k'.pendsv \/ l = "q_trigger"
    /\ k'.g_current_task = t
    /\ l \in QueuePc /\ c \in OpRecord
    /\ l \in {"q_try", "q_check"} => c.dir \in Direction /\ (c.dir = "send" => c.item \in Item)
    /\ l = "q_wake" => c.waiter \in Task
    /\ \A u \in Task : u # t /\ k'.state[u] = "BLOCKED" =>
          k.state[u] = "BLOCKED" /\ k'.delay_ticks[u] = k.delay_ticks[u]
    /\ l = "q_check" /\ k'.state[t] = "BLOCKED" =>
          k'.delay_ticks[t] # 0 /\ s_ticks + k'.delay_ticks[t] = c.deadline

(* A step of a call that keeps what CallStep lists keeps QueueBase.        *)
LEMMA CallStepBase ==
    ASSUME QueueBase, RingInv', NEW t \in Task, NEW l, NEW c, CallStep(t, l, c)
    PROVE  QueueBase'
<1>1. /\ pc \in [Task -> QueuePc] /\ op \in [Task -> OpRecord]
      /\ k.s_task_count = TASK_MAX /\ s_ticks \in Time /\ wakeAt \in [Task -> Time]
  BY QueueFacts
<1>2. /\ KernelInv(k') /\ k'.s_task_count = k.s_task_count
      /\ s_ticks' = s_ticks /\ wakeAt' = wakeAt
      /\ pc' = [pc EXCEPT ![t] = l] /\ op' = [op EXCEPT ![t] = c]
      /\ l \in QueuePc /\ c \in OpRecord
  BY DEF CallStep
<1>3. /\ pc' \in [Task -> QueuePc] /\ op' \in [Task -> OpRecord]
      /\ \A u \in Task : pc'[u] = IF u = t THEN l ELSE pc[u]
      /\ \A u \in Task : op'[u] = IF u = t THEN c ELSE op[u]
  BY <1>1, <1>2
<1>4. SchedCore'
  BY <1>1, <1>2 DEF SchedCore
<1>5. SwitchAt(QueueTriggers)'
  BY <1>3, QueueLabels DEF CallStep, SwitchAt
<1>6. CallsInv'
  BY <1>3 DEF CallStep, QueueBase, CallsInv
<1>7. CountsDown'
  <2> SUFFICES ASSUME NEW u \in Task, pc'[u] = "q_check", k'.state[u] = "BLOCKED"
               PROVE  k'.delay_ticks[u] # 0 /\ s_ticks + k'.delay_ticks[u] = op'[u].deadline
    BY <1>2 DEF CountsDown
  <2>1. CASE u = t
    BY <1>3, <2>1 DEF CallStep
  <2>2. CASE u # t
    BY <1>3, <2>2 DEF CallStep, QueueBase, CountsDown
  <2> QED
    BY <2>1, <2>2
<1> QED
  BY <1>3, <1>4, <1>5, <1>6, <1>7 DEF QueueBase

(* The reset of wait_list_head at the end of a timed call.                 *)
LEMMA FinishedKeeps ==
    ASSUME NEW K, KernelInv(K), NEW t \in Task, NEW R, R = Finished(K, t)
    PROVE  /\ KernelInv(R) /\ R.s_task_count = K.s_task_count /\ R.pendsv = K.pendsv
           /\ R.g_next_task = K.g_next_task /\ R.g_current_task = K.g_current_task
           /\ R.state = K.state /\ R.delay_ticks = K.delay_ticks
<1>1. KernelTypeOK(K)
  BY DEF KernelInv, KernelCore
<1>2. SameButWaits(K, R)
  <2>2. CASE op[t].mode = "timed"
    <3> DEFINE W == [K.wait_list_head EXCEPT ![t] = NULL]
    <3>1. W \in [Task -> WaitList \cup {NULL}]
      BY <1>1 DEF KernelTypeOK
    <3>2. R = [K EXCEPT !.wait_list_head = W]
      BY <2>2 DEF Finished
    <3> HIDE DEF W
    <3>3. KernelTypeOK(R)
      BY <1>1, <3>1, <3>2 DEF KernelTypeOK
    <3> QED
      BY <1>1, <3>2, <3>3 DEF SameButWaits, KernelTypeOK
  <2>3. CASE op[t].mode # "timed"
    BY <1>1, <2>3 DEF SameButWaits, Finished
  <2> QED
    BY <2>2, <2>3
<1> QED
  BY <1>2, WaitFieldsKept DEF SameButWaits

(* Arming the countdown.                                                   *)
LEMMA ArmKeeps ==
    ASSUME NEW K, KernelCore(K), NEW t \in Task, NEW h \in WaitList, NEW n \in Nat,
           NEW R, R = ArmTimeout(K, t, h, n)
    PROVE  /\ KernelCore(R) /\ R.s_task_count = K.s_task_count
           /\ R.g_next_task = K.g_next_task /\ R.g_current_task = K.g_current_task
           /\ R.state = K.state /\ R.waiters = K.waiters /\ R.priority = K.priority
           /\ R.late = K.late
           /\ R.delay_ticks = [K.delay_ticks EXCEPT ![t] = n]
<1>1. /\ KernelTypeOK(R) /\ R.s_task_count = K.s_task_count
      /\ R.g_next_task = K.g_next_task /\ R.g_current_task = K.g_current_task
      /\ R.state = K.state /\ R.waiters = K.waiters /\ R.priority = K.priority
      /\ R.late = K.late
      /\ R.delay_ticks = [K.delay_ticks EXCEPT ![t] = n]
  BY DEF KernelCore, KernelTypeOK, ArmTimeout
<1> QED
  BY <1>1 DEF KernelCore, HasThreads, OnlyNext, IdleAlive

(* The locals outside a call, and those of a call that only has to wake.   *)
LEMMA NoOpTyped ==
    /\ NoOp \in OpRecord
    /\ \A c \in OpRecord : \A w \in Task \cup {NULL} :
          LET d == [NoOp EXCEPT !.mode = c.mode, !.waiter = w]
          IN  d \in OpRecord /\ d.waiter = w
    /\ \A c \in OpRecord :
          LET d == [c EXCEPT !.waiter = NULL] IN d \in OpRecord
<1>1. 0 \in Time
  BY SchedulerAssumption DEF Time
<1> QED
  BY <1>1 DEF NoOp, OpRecord

(* The beginning of a call.                                                *)
LEMMA EnterBase ==
    ASSUME QueueBase, NEW t \in Task, NEW dir \in Direction, NEW x \in Item \cup {NULL},
           dir = "send" => x \in Item, NEW mode \in {"block", "timed", "try"},
           NEW d \in Time, Enter(t, dir, x, mode, d)
    PROVE  QueueBase'
<1> DEFINE c == [dir |-> dir, item |-> x, mode |-> mode, deadline |-> d, waiter |-> NULL]
<1>1. /\ k' = k /\ s_ticks' = s_ticks /\ wakeAt' = wakeAt /\ q' = q /\ last' = last
      /\ pc' = [pc EXCEPT ![t] = "q_try"] /\ op' = [op EXCEPT ![t] = c]
      /\ Runs(t) /\ pc[t] = "user"
  BY DEF Enter, Goto
<1>2. c \in OpRecord /\ c.dir = dir /\ c.item = x
  BY DEF OpRecord
<1> HIDE DEF c
<1>3. KernelInv(k) /\ k.g_next_task = t /\ k.g_current_task = t
  BY <1>1, QueueFacts, QueueLabels
<1>4. CallStep(t, "q_try", c)
  BY <1>1, <1>2, <1>3, QueueLabels DEF CallStep
<1>5. RingInv'
  BY <1>1 DEF QueueBase, RingInv
<1> QED
  BY <1>4, <1>5, CallStepBase

(* The critical section when the item can be moved.                        *)
LEMMA TransferBase ==
    ASSUME QueueBase, RingInv', NEW t \in Task, Transfer(t)
    PROVE  QueueBase'
<1> DEFINE h == PeerList(op[t].dir)
           w == FirstWaiter(k, h)
<1>1. /\ Runs(t) /\ pc[t] = "q_try" /\ s_ticks' = s_ticks /\ wakeAt' = wakeAt
      /\ IF w = NULL
         THEN Return(t) /\ k' = Finished(k, t)
         ELSE /\ k' = wq_pop(k, h)
              /\ op' = [op EXCEPT ![t] = [NoOp EXCEPT !.mode = op[t].mode, !.waiter = w]]
              /\ Goto(t, "q_wake")
  BY DEF Transfer
<1>2. /\ KernelInv(k) /\ KernelCore(k) /\ k.g_next_task = t /\ k.g_current_task = t
      /\ h \in WaitList /\ op[t] \in OpRecord /\ KernelTypeOK(k)
  BY <1>1, QueueFacts, QueueLabels
<1> HIDE DEF h
<1>3. CASE w = NULL
  <2>1. /\ k' = Finished(k, t) /\ pc' = [pc EXCEPT ![t] = "user"]
        /\ op' = [op EXCEPT ![t] = NoOp]
    BY <1>1, <1>3 DEF Return, Goto
  <2>2. /\ KernelInv(k') /\ k'.s_task_count = k.s_task_count /\ k'.pendsv = k.pendsv
        /\ k'.g_next_task = k.g_next_task /\ k'.g_current_task = k.g_current_task
        /\ k'.state = k.state /\ k'.delay_ticks = k.delay_ticks
    BY <1>2, <2>1, FinishedKeeps
  <2>3. CallStep(t, "user", NoOp)
    BY <1>1, <1>2, <2>1, <2>2, QueueLabels, NoOpTyped DEF CallStep
  <2> QED
    BY <2>3, CallStepBase
<1>4. CASE w # NULL
  <2> DEFINE c == [NoOp EXCEPT !.mode = op[t].mode, !.waiter = w]
  <2>1. /\ k' = wq_pop(k, h) /\ pc' = [pc EXCEPT ![t] = "q_wake"]
        /\ op' = [op EXCEPT ![t] = c]
    BY <1>1, <1>4 DEF Goto
  <2>2. LET R == wq_pop(k, h) IN
        /\ KernelCore(R)
        /\ R.g_current_task = k.g_current_task /\ R.s_task_count = k.s_task_count
        /\ R.pendsv = k.pendsv /\ R.g_next_task = k.g_next_task
        /\ R.state = k.state /\ R.late = k.late /\ R.priority = k.priority
        /\ FirstWaiter(k, h) \in Task \cup {NULL}
        /\ FirstWaiter(k, h) = NULL => R = k
    BY <1>2, PopCore
  <2>3. k'.delay_ticks = k.delay_ticks
    BY <1>2, <2>1 DEF wq_pop, KernelTypeOK
  <2>4. KernelInv(k')
    BY <1>2, <2>1, <2>2 DEF KernelInv, NextMostUrgent, Ready, Created
  <2>5. w \in Task
    BY <1>4, <2>2
  <2> HIDE DEF w
  <2>6. c \in OpRecord /\ c.waiter = w
    BY <1>2, <2>5, NoOpTyped
  <2> HIDE DEF c
  <2>7. CallStep(t, "q_wake", c)
    BY <1>1, <1>2, <2>1, <2>2, <2>3, <2>4, <2>5, <2>6, QueueLabels DEF CallStep
  <2> QED
    BY <2>7, CallStepBase
<1> QED
  BY <1>3, <1>4

(* The critical section when it cannot.                                    *)
LEMMA WaitBase ==
    ASSUME QueueBase, NEW t \in Task, Wait(t)
    PROVE  QueueBase'
<1> DEFINE h == OwnList(op[t].dir)
           n == Remaining(op[t].deadline, s_ticks)
<1>1. /\ Runs(t) /\ pc[t] = "q_try" /\ s_ticks' = s_ticks /\ wakeAt' = wakeAt
      /\ q' = q /\ last' = last
      /\ \/ Return(t) /\ k' = k
         \/ k' = BlockOn(k, t, h) /\ op' = op /\ pc' = pc
         \/ /\ ~DeadlinePassed(s_ticks, op[t].deadline)
            /\ k' = BlockOn(ArmTimeout(k, t, h, n), t, h)
            /\ Goto(t, "q_check")
            /\ op' = op
  BY DEF Wait
<1>2. /\ KernelInv(k) /\ KernelCore(k) /\ k.g_next_task = t /\ k.g_current_task = t
      /\ h \in WaitList /\ op[t] \in OpRecord /\ op \in [Task -> OpRecord]
      /\ pc \in [Task -> QueuePc] /\ s_ticks \in Time /\ Task \subseteq Thread
      /\ k.delay_ticks \in [Task -> Nat]
  BY <1>1, QueueFacts, QueueLabels
<1>3. op[t].dir \in Direction /\ (op[t].dir = "send" => op[t].item \in Item)
  BY <1>1 DEF QueueBase, CallsInv
<1>4. RingInv'
  BY <1>1 DEF QueueBase, RingInv
<1> HIDE DEF h
<1>5. CASE Return(t) /\ k' = k
  <2>1. pc' = [pc EXCEPT ![t] = "user"] /\ op' = [op EXCEPT ![t] = NoOp]
    BY <1>5 DEF Return, Goto
  <2>2. CallStep(t, "user", NoOp)
    BY <1>1, <1>2, <1>5, <2>1, QueueLabels, NoOpTyped DEF CallStep
  <2> QED
    BY <1>4, <2>2, CallStepBase
<1>6. CASE k' = BlockOn(k, t, h) /\ op' = op /\ pc' = pc
  <2>1. /\ KernelInv(k') /\ k'.pendsv
        /\ k'.priority = k.priority /\ k'.delay_ticks = k.delay_ticks
        /\ k'.wait_list_head = k.wait_list_head /\ k'.timed_out = k.timed_out
        /\ k'.g_current_task = k.g_current_task /\ k'.s_task_count = k.s_task_count
        /\ \A u \in Thread : k'.state[u] = "BLOCKED" <=> u = t \/ k.state[u] = "BLOCKED"
        /\ \A g \in WaitList : g # h => k'.waiters[g] = k.waiters[g]
        /\ ToSet(k'.waiters[h]) = ToSet(k.waiters[h]) \cup {t}
        /\ Once(k.waiters[h]) /\ t \notin ToSet(k.waiters[h]) => Once(k'.waiters[h])
        /\ Sorted(k.waiters[h], k.priority) => Sorted(k'.waiters[h], k.priority)
    <3>1. KernelCore(k) /\ h \in WaitList /\ k' = BlockOn(k, t, h)
      BY <1>2, <1>6
    <3> QED
      BY <3>1, BlockOnResult
  <2>2. pc' = [pc EXCEPT ![t] = "q_try"] /\ op' = [op EXCEPT ![t] = op[t]]
    BY <1>1, <1>2, <1>6
  <2> DEFINE c == op[t]
  <2>3. c \in OpRecord /\ c.dir \in Direction /\ (c.dir = "send" => c.item \in Item)
    BY <1>2, <1>3
  <2> HIDE DEF c
  <2>4. CallStep(t, "q_try", c)
    BY <1>1, <1>2, <2>1, <2>2, <2>3, QueueLabels DEF CallStep, c
  <2> QED
    BY <1>4, <2>4, CallStepBase
<1>7. CASE /\ ~DeadlinePassed(s_ticks, op[t].deadline)
           /\ k' = BlockOn(ArmTimeout(k, t, h, n), t, h)
           /\ Goto(t, "q_check")
           /\ op' = op
  <2>1. n \in Nat /\ n # 0 /\ s_ticks + n = op[t].deadline
    <3>1. op[t].deadline \in Time
      BY <1>2 DEF OpRecord
    <3> QED
      BY <1>2, <1>7, <3>1, SchedulerAssumption DEF DeadlinePassed, Remaining, Time
  <2> HIDE DEF n
  <2> DEFINE A == ArmTimeout(k, t, h, n)
  <2>2. /\ KernelCore(A) /\ A.s_task_count = k.s_task_count
        /\ A.g_next_task = k.g_next_task /\ A.g_current_task = k.g_current_task
        /\ A.state = k.state /\ A.waiters = k.waiters /\ A.priority = k.priority
        /\ A.late = k.late
        /\ A.delay_ticks = [k.delay_ticks EXCEPT ![t] = n]
    <3>1. KernelCore(k) /\ h \in WaitList /\ n \in Nat
      BY <1>2, <2>1
    <3> QED
      BY <3>1, ArmKeeps
  <2>3. k' = BlockOn(A, t, h)
    BY <1>7
  <2> HIDE DEF A
  <2>4. /\ KernelInv(k') /\ k'.pendsv
        /\ k'.priority = A.priority /\ k'.delay_ticks = A.delay_ticks
        /\ k'.wait_list_head = A.wait_list_head /\ k'.timed_out = A.timed_out
        /\ k'.g_current_task = A.g_current_task /\ k'.s_task_count = A.s_task_count
        /\ \A u \in Thread : k'.state[u] = "BLOCKED" <=> u = t \/ A.state[u] = "BLOCKED"
        /\ \A g \in WaitList : g # h => k'.waiters[g] = A.waiters[g]
        /\ ToSet(k'.waiters[h]) = ToSet(A.waiters[h]) \cup {t}
        /\ Once(A.waiters[h]) /\ t \notin ToSet(A.waiters[h]) => Once(k'.waiters[h])
        /\ Sorted(A.waiters[h], A.priority) => Sorted(k'.waiters[h], A.priority)
    <3>1. KernelCore(A) /\ h \in WaitList
      BY <1>2, <2>2
    <3> QED
      BY <2>3, <3>1, BlockOnResult
  <2>5. pc' = [pc EXCEPT ![t] = "q_check"] /\ op' = [op EXCEPT ![t] = op[t]]
    BY <1>2, <1>7 DEF Goto
  <2> DEFINE c == op[t]
  <2>6. /\ c \in OpRecord /\ c.dir \in Direction /\ (c.dir = "send" => c.item \in Item)
        /\ s_ticks + n = c.deadline
    BY <1>2, <1>3, <2>1
  <2> HIDE DEF c
  <2>7. \A u \in Task : k'.delay_ticks[u] = IF u = t THEN n ELSE k.delay_ticks[u]
    BY <1>2, <2>2, <2>4
  <2>8. \A u \in Task : u # t /\ k'.state[u] = "BLOCKED" => k.state[u] = "BLOCKED"
    BY <1>2, <2>2, <2>4
  <2>9. CallStep(t, "q_check", c)
    BY <1>1, <1>2, <2>1, <2>2, <2>4, <2>5, <2>6, <2>7, <2>8, QueueLabels DEF CallStep, c
  <2> QED
    BY <1>4, <2>9, CallStepBase
<1> QED
  BY <1>1, <1>5, <1>6, <1>7

(* A timed call after it has waited.                                       *)
LEMMA CheckBase ==
    ASSUME QueueBase, NEW t \in Task, Check(t)
    PROVE  QueueBase'
<1>1. /\ Runs(t) /\ pc[t] = "q_check" /\ s_ticks' = s_ticks /\ wakeAt' = wakeAt
      /\ q' = q /\ last' = last
      /\ \/ /\ k' = [k EXCEPT !.timed_out[t] = FALSE, !.wait_list_head[t] = NULL]
            /\ Return(t)
         \/ Goto(t, "q_try") /\ k' = k /\ op' = op
  BY DEF Check
<1>2. /\ KernelInv(k) /\ k.g_next_task = t /\ k.g_current_task = t
      /\ op \in [Task -> OpRecord] /\ op[t] \in OpRecord
  BY <1>1, QueueFacts, QueueLabels
<1>3. RingInv'
  BY <1>1 DEF QueueBase, RingInv
<1>4. CASE k' = [k EXCEPT !.timed_out[t] = FALSE, !.wait_list_head[t] = NULL] /\ Return(t)
  <2>1. /\ KernelInv(k') /\ k'.s_task_count = k.s_task_count /\ k'.pendsv = k.pendsv
        /\ k'.g_next_task = k.g_next_task /\ k'.g_current_task = k.g_current_task
        /\ k'.state = k.state /\ k'.delay_ticks = k.delay_ticks
    <3>1. KernelTypeOK(k)
      BY QueueFacts
    <3>2. SameButWaits(k, k')
      BY <1>4, <3>1 DEF SameButWaits, KernelTypeOK
    <3> QED
      BY <1>2, <3>2, WaitFieldsKept DEF SameButWaits
  <2>2. pc' = [pc EXCEPT ![t] = "user"] /\ op' = [op EXCEPT ![t] = NoOp]
    BY <1>4 DEF Return, Goto
  <2>3. CallStep(t, "user", NoOp)
    BY <1>1, <1>2, <2>1, <2>2, QueueLabels, NoOpTyped DEF CallStep
  <2> QED
    BY <1>3, <2>3, CallStepBase
<1>5. CASE Goto(t, "q_try") /\ k' = k /\ op' = op
  <2> DEFINE c == op[t]
  <2>1. c \in OpRecord /\ c.dir \in Direction /\ (c.dir = "send" => c.item \in Item)
    BY <1>1, <1>2 DEF QueueBase, CallsInv
  <2>2. pc' = [pc EXCEPT ![t] = "q_try"] /\ op' = [op EXCEPT ![t] = c]
    BY <1>2, <1>5 DEF Goto
  <2> HIDE DEF c
  <2>3. CallStep(t, "q_try", c)
    BY <1>1, <1>2, <1>5, <2>1, <2>2, QueueLabels DEF CallStep
  <2> QED
    BY <1>3, <2>3, CallStepBase
<1> QED
  BY <1>1, <1>4, <1>5

(* The wake-up of the waiter, in two steps.                                *)
LEMMA WakeBase ==
    ASSUME QueueBase, NEW t \in Task, Wake(t)
    PROVE  QueueBase'
<1> DEFINE c == [op[t] EXCEPT !.waiter = NULL]
           w == op[t].waiter
<1>1. /\ Runs(t) /\ pc[t] = "q_wake" /\ s_ticks' = s_ticks /\ wakeAt' = wakeAt
      /\ q' = q /\ last' = last /\ k' = WakeLocked(k, w)
      /\ pc' = [pc EXCEPT ![t] = "q_trigger"] /\ op' = [op EXCEPT ![t].waiter = NULL]
  BY DEF Wake, Goto
<1>2. /\ KernelInv(k) /\ KernelCore(k) /\ k.g_next_task = t /\ k.g_current_task = t
      /\ op \in [Task -> OpRecord] /\ op[t] \in OpRecord
  BY <1>1, QueueFacts, QueueLabels
<1>3. w \in Task
  BY <1>1 DEF QueueBase, CallsInv
<1>4. op' = [op EXCEPT ![t] = c] /\ c \in OpRecord
  BY <1>1, <1>2, NoOpTyped
<1> HIDE DEF c, w
<1>5. /\ KernelInv(k') /\ k'.pendsv = k.pendsv
      /\ k'.priority = k.priority
      /\ k'.s_task_count = k.s_task_count /\ k'.g_current_task = k.g_current_task
      /\ \A u \in Task : u # w => k'.delay_ticks[u] = k.delay_ticks[u]
      /\ \A u \in Task : k'.state[u] = "BLOCKED" <=> u # w /\ k.state[u] = "BLOCKED"
      /\ k'.wait_list_head = k.wait_list_head /\ k'.timed_out = k.timed_out
  <2>1. KernelCore(k) /\ w \in Task /\ k' = WakeLocked(k, w)
    BY <1>1, <1>2, <1>3
  <2> QED
    BY <2>1, WakeLockedRuns
<1>6. CallStep(t, "q_trigger", c)
  BY <1>1, <1>2, <1>4, <1>5, QueueLabels DEF CallStep
<1>7. RingInv'
  BY <1>1 DEF QueueBase, RingInv
<1> QED
  BY <1>6, <1>7, CallStepBase

(* The last step of a call that woke a waiter: trigger_pendsv if a switch  *)
(* is due, and the return.                                                 *)
LEMMA WakeTriggerBase ==
    ASSUME QueueBase, NEW t \in Task, WakeTrigger(t)
    PROVE  QueueBase'
<1> DEFINE T == TriggerIfSwitch(k)
<1>1. /\ Runs(t) /\ pc[t] = "q_trigger" /\ s_ticks' = s_ticks /\ wakeAt' = wakeAt
      /\ q' = q /\ last' = last /\ k' = Finished(T, t)
      /\ pc' = [pc EXCEPT ![t] = "user"] /\ op' = [op EXCEPT ![t] = NoOp]
  BY DEF WakeTrigger, Return, Goto
<1>2. KernelInv(k) /\ k.g_current_task = t
  BY <1>1, QueueFacts DEF Runs
<1>3. /\ KernelInv(T) /\ SameWaits(k, T) /\ T.state = k.state
      /\ T.g_next_task # T.g_current_task => T.pendsv
  BY <1>2, TriggerKeeps
<1> HIDE DEF T
<1>4. /\ KernelInv(k') /\ k'.s_task_count = T.s_task_count /\ k'.pendsv = T.pendsv
      /\ k'.g_next_task = T.g_next_task /\ k'.g_current_task = T.g_current_task
      /\ k'.state = T.state /\ k'.delay_ticks = T.delay_ticks
  BY <1>1, <1>3, FinishedKeeps
<1>5. CallStep(t, "user", NoOp)
  <2>1. /\ KernelInv(k') /\ k'.s_task_count = k.s_task_count /\ k'.g_current_task = t
        /\ k'.state = k.state /\ k'.delay_ticks = k.delay_ticks
        /\ k'.g_next_task # k'.g_current_task => k'.pendsv
    BY <1>2, <1>3, <1>4 DEF SameWaits
  <2> QED
    BY <1>1, <2>1, QueueLabels, NoOpTyped DEF CallStep
<1>6. RingInv'
  BY <1>1 DEF QueueBase, RingInv
<1> QED
  BY <1>5, <1>6, CallStepBase

(* One tick of the clock and of the countdowns.                            *)
LEMMA TickCountsDown ==
    ASSUME QueueBase, Tick, op' = op,
           \A u \in Task : pc'[u] = "q_check" => pc[u] = "q_check",
           LET C == CountDown(k, 1) IN
           \A u \in Task : k'.state[u] = "BLOCKED" =>
               C.state[u] = "BLOCKED" /\ k'.delay_ticks[u] = C.delay_ticks[u]
    PROVE  CountsDown'
<1> SUFFICES ASSUME NEW u \in Task, pc'[u] = "q_check", k'.state[u] = "BLOCKED"
             PROVE  k'.delay_ticks[u] # 0 /\ s_ticks' + k'.delay_ticks[u] = op[u].deadline
  BY DEF CountsDown
<1> DEFINE C == CountDown(k, 1)
<1>1. /\ KernelTypeOK(k) /\ k.s_task_count = TASK_MAX /\ k.delay_ticks \in [Task -> Nat]
      /\ s_ticks \in Time /\ op[u] \in OpRecord
  BY QueueFacts
<1>2. /\ IF u \in Expired(k, 1)
         THEN C.state[u] = "READY" /\ C.delay_ticks[u] = 0 /\ C.wait_list_head[u] = NULL
         ELSE /\ C.state[u] = k.state[u]
              /\ C.delay_ticks[u] =
                   IF u \in Created(k) /\ k.state[u] = "BLOCKED" /\ k.delay_ticks[u] > 1
                   THEN k.delay_ticks[u] - 1 ELSE k.delay_ticks[u]
              /\ C.wait_list_head[u] = k.wait_list_head[u]
              /\ C.timed_out[u] <=> k.timed_out[u]
  BY <1>1, CountDownWaits
<1>3. C.state[u] = "BLOCKED" /\ k'.delay_ticks[u] = C.delay_ticks[u]
  OBVIOUS
<1> HIDE DEF C
<1>4. u \notin Expired(k, 1) /\ k.state[u] = "BLOCKED"
  BY <1>2, <1>3
<1>5. u \in Created(k)
  BY <1>1, KernelAssumption DEF Created, Task
<1>6. k.delay_ticks[u] # 0 /\ s_ticks + k.delay_ticks[u] = op[u].deadline
  BY <1>4 DEF QueueBase, CountsDown
<1>7. k.delay_ticks[u] \in Nat /\ k.delay_ticks[u] > 1
  BY <1>1, <1>4, <1>5, <1>6 DEF Expired
<1>8. k'.delay_ticks[u] = k.delay_ticks[u] - 1
  BY <1>2, <1>3, <1>4, <1>5, <1>7
<1>9. s_ticks' = s_ticks + 1
  <2>1. TickModulus \in Nat /\ TickModulus > 0 /\ op[u].deadline < TickModulus /\ s_ticks \in Nat
        /\ op[u].deadline \in Nat
    BY <1>1, SchedulerAssumption DEF Time, OpRecord
  <2>2. s_ticks + 1 < TickModulus
    BY <1>6, <1>7, <2>1
  <2>3. s_ticks' = (s_ticks + 1) % TickModulus
    BY DEF Tick
  <2> QED
    BY <2>1, <2>2, <2>3
<1>10. s_ticks \in Nat
  BY <1>1, SchedulerAssumption DEF Time
<1> QED
  BY <1>6, <1>7, <1>8, <1>9, <1>10

(* The scheduler's own steps.                                              *)
LEMMA QueueSchedBase ==
    ASSUME QueueBase, [SchedNext]_schedVars, UNCHANGED queueVars
    PROVE  QueueBase'
<1>1. /\ SchedCore /\ SchedLabel \subseteq QueuePc /\ pc \in [Task -> QueuePc]
      /\ SchedTriggers \subseteq QueueTriggers
      /\ "user" \notin QueueTriggers /\ "delay_wait" \notin QueueTriggers
      /\ SwitchAt(QueueTriggers)
  BY QueueLabels DEF QueueBase
<1>2. /\ SchedCore'
      /\ pc' \in [Task -> QueuePc]
      /\ \A u \in Task : pc'[u] # pc[u] => {pc[u], pc'[u]} \subseteq SchedLabel
      /\ SwitchAt(QueueTriggers)'
      /\ \A u \in Task : k'.state[u] = "BLOCKED" => k.state[u] = "BLOCKED" \/ pc[u] = "user"
      /\ \/ /\ SysTick_Handler
            /\ SameWaits(CountDown(k, 1), k')
         \/ /\ k'.waiters = k.waiters
            /\ s_ticks' = s_ticks
            /\ \A u \in Task : pc[u] # "user" => k'.delay_ticks[u] = k.delay_ticks[u]
  BY <1>1, SchedSteps
<1>3. q' = q /\ last' = last /\ op' = op
  BY DEF queueVars
<1>4. \A u \in Task : pc'[u] \in QueueLabel => pc[u] = pc'[u]
  BY <1>2, QueueLabels
<1>5. RingInv'
  BY <1>3 DEF QueueBase, RingInv
<1>6. CallsInv'
  BY <1>3, <1>4 DEF QueueBase, CallsInv, QueueLabel
<1>7. CountsDown'
  <2>1. CASE SysTick_Handler /\ SameWaits(CountDown(k, 1), k')
    <3>1. Tick /\ \A u \in Task : pc'[u] = "q_check" => pc[u] = "q_check"
      BY <2>1 DEF SysTick_Handler
    <3>2. Task \subseteq Thread
      BY QueueFacts
    <3>3. LET C == CountDown(k, 1) IN
          \A u \in Task : k'.state[u] = "BLOCKED" =>
              C.state[u] = "BLOCKED" /\ k'.delay_ticks[u] = C.delay_ticks[u]
      BY <2>1, <3>2 DEF SameWaits
    <3> QED
      BY <1>3, <3>1, <3>3, TickCountsDown
  <2>2. CASE /\ s_ticks' = s_ticks
             /\ \A u \in Task : pc[u] # "user" => k'.delay_ticks[u] = k.delay_ticks[u]
    BY <1>2, <1>3, <1>4, <2>2, QueueLabels DEF QueueBase, CountsDown, QueueLabel
  <2> QED
    BY <1>2, <2>1, <2>2
<1> QED
  BY <1>2, <1>5, <1>6, <1>7 DEF QueueBase

(* The calls from the tick interrupt.                                      *)
LEMMA IsrBase ==
    ASSUME QueueBase, RingInv', NEW dir, NEW x, IsrMove(dir, x)
    PROVE  QueueBase'
<1> DEFINE r == sched_tick_n(k, 1)
           h == PeerList(dir)
           w == FirstWaiter(r, h)
           P == wq_pop(r, h)
           C == CountDown(k, 1)
<1>1. /\ Tick /\ pc' = pc /\ wakeAt' = wakeAt /\ op' = op
      /\ k' = IF w = NULL THEN r ELSE sched_wake_task(P, w)
  BY DEF IsrMove
<1>2. /\ KernelCore(k) /\ k.s_task_count = TASK_MAX /\ h \in WaitList /\ Task \subseteq Thread
      /\ s_ticks \in Time /\ wakeAt \in [Task -> Time] /\ KernelTypeOK(k)
  BY QueueFacts
<1>3. /\ KernelInv(r)
      /\ SameWaits(C, r)
      /\ r.g_current_task = k.g_current_task
      /\ r.g_next_task # r.g_current_task => r.pendsv
  BY <1>2, TickDecides
<1>4. C.s_task_count = k.s_task_count
  BY <1>2, CountDownWaits
<1>5. s_ticks' \in Time
  BY <1>1, <1>2, SchedulerAssumption DEF Tick, Time
<1> HIDE DEF r, h, C
<1>6. /\ KernelInv(k') /\ k'.s_task_count = k.s_task_count
      /\ k'.g_next_task # k'.g_current_task => k'.pendsv
      /\ \A u \in Task : k'.state[u] = "BLOCKED" =>
            C.state[u] = "BLOCKED" /\ k'.delay_ticks[u] = C.delay_ticks[u]
  <2>1. CASE w = NULL
    BY <1>1, <1>2, <1>3, <1>4, <2>1 DEF SameWaits
  <2>2. CASE w # NULL
    <3>1. /\ KernelCore(P)
          /\ P.g_current_task = r.g_current_task /\ P.s_task_count = r.s_task_count
          /\ P.pendsv = r.pendsv /\ P.g_next_task = r.g_next_task
          /\ P.state = r.state /\ P.late = r.late /\ P.priority = r.priority
          /\ FirstWaiter(r, h) \in Task \cup {NULL}
          /\ FirstWaiter(r, h) = NULL => P = r
      <4>1. KernelCore(r) /\ h \in WaitList
        BY <1>2, <1>3 DEF KernelInv
      <4> QED
        BY <4>1, PopCore
    <3>2. w \in Task
      BY <2>2, <3>1
    <3>3. P.delay_ticks = r.delay_ticks
      BY <1>3 DEF wq_pop, KernelInv, KernelCore, KernelTypeOK
    <3> DEFINE L == WakeLocked(P, w)
    <3>4. k' = TriggerIfSwitch(L)
      BY <1>1, <2>2 DEF sched_wake_task
    <3> HIDE DEF P, w
    <3>5. /\ KernelInv(L) /\ L.pendsv = P.pendsv
          /\ L.priority = P.priority
          /\ L.s_task_count = P.s_task_count /\ L.g_current_task = P.g_current_task
          /\ \A u \in Task : u # w => L.delay_ticks[u] = P.delay_ticks[u]
          /\ \A u \in Task : L.state[u] = "BLOCKED" <=> u # w /\ P.state[u] = "BLOCKED"
          /\ L.wait_list_head = P.wait_list_head /\ L.timed_out = P.timed_out
      BY <3>1, <3>2, WakeLockedRuns
    <3> HIDE DEF L
    <3>6. /\ KernelInv(k') /\ SameWaits(L, k') /\ k'.state = L.state
          /\ k'.g_next_task = L.g_next_task
          /\ k'.g_next_task # k'.g_current_task => k'.pendsv
      BY <3>4, <3>5, TriggerKeeps
    <3>7. k'.s_task_count = k.s_task_count
      BY <1>3, <1>4, <3>1, <3>5, <3>6 DEF SameWaits
    <3>8. ASSUME NEW u \in Task, k'.state[u] = "BLOCKED"
          PROVE  C.state[u] = "BLOCKED" /\ k'.delay_ticks[u] = C.delay_ticks[u]
      <4>1. u # w /\ P.state[u] = "BLOCKED" /\ L.delay_ticks[u] = P.delay_ticks[u]
        BY <3>5, <3>6, <3>8
      <4>2. k'.delay_ticks[u] = r.delay_ticks[u] /\ r.state[u] = "BLOCKED"
        BY <3>1, <3>3, <3>6, <4>1 DEF SameWaits
      <4> QED
        BY <1>2, <1>3, <4>2 DEF SameWaits
    <3> QED
      BY <3>6, <3>7, <3>8
  <2> QED
    BY <2>1, <2>2
<1>7. CountsDown'
  BY <1>1, <1>6, TickCountsDown DEF C
<1>8. SchedCore' /\ SwitchAt(QueueTriggers)'
  BY <1>1, <1>2, <1>5, <1>6 DEF SchedCore, SwitchAt
<1>9. CallsInv'
  BY <1>1 DEF QueueBase, CallsInv
<1> QED
  BY <1>1, <1>7, <1>8, <1>9 DEF QueueBase

(* The queue is empty and nobody is in a call at first.                    *)
LEMMA QueueInitBase ==
    ASSUME QueueInit
    PROVE  QueueBase /\ Fifo!FifoInit
<1>1. SchedInv
  BY InitCore DEF QueueInit
<1>2. /\ q = queue_init /\ last = NULL /\ op = [t \in Task |-> NoOp]
      /\ pc = [t \in Task |-> "user"]
  BY DEF QueueInit, SchedInit
<1>3. Capacity \in Nat /\ Capacity > 0
  BY QueueAssumption
<1>4. q \in RingRecord /\ q.count = 0 /\ q.head = 0 /\ q.tail = 0
  BY <1>2, <1>3 DEF queue_init, RingRecord
<1>5. RingInv
  <2>1. (0 + 0) % Capacity = 0
    BY <1>3
  <2> QED
    BY <1>2, <1>4, <2>1 DEF RingInv
<1>6. CallsInv /\ CountsDown
  BY <1>2, NoOpTyped DEF CallsInv, CountsDown
<1>7. pc \in [Task -> QueuePc] /\ SwitchAt(QueueTriggers)
  BY <1>1, <1>2, QueueLabels DEF SchedInv, SwitchAt
<1>8. Fifo!FifoInit
  <2>1. Contents \in Seq(Item \cup {NULL}) /\ Len(Contents) = 0
    BY <1>4, <1>5, SlotIndex
  <2> QED
    BY <1>2, <2>1 DEF Fifo!FifoInit
<1> QED
  BY <1>1, <1>5, <1>6, <1>7, <1>8 DEF QueueBase, SchedInv

(* Every step of the queue's callers.                                      *)
LEMMA QueueNextBase ==
    ASSUME QueueBase, [QueueNext]_vars
    PROVE  QueueBase' /\ [Fifo!FifoNext]_<<Contents, last>>
<1>1. RingInv' /\ [Fifo!FifoNext]_<<Contents, last>>
  BY RingStep DEF QueueBase
<1>2. CASE (SchedNext /\ UNCHANGED queueVars) \/ UNCHANGED vars
  <2>1. [SchedNext]_schedVars /\ UNCHANGED queueVars
    BY <1>2 DEF vars
  <2> QED
    BY <1>1, <2>1, QueueSchedBase
<1>3. ASSUME NEW t \in Task, QueueCall(t)
      PROVE  QueueBase'
  <2>1. /\ 0 \in Time /\ \A ms \in Timeout : Deadline(s_ticks, ms) \in Time
        /\ "send" \in Direction /\ "receive" \in Direction /\ "send" # "receive"
    <3>1. s_ticks \in Time
      BY QueueFacts
    <3> QED
      BY <3>1, SchedulerAssumption, QueueAssumption DEF Deadline, Time, Direction
  <2>2. ASSUME NEW x \in Item, queue_send(t, x) \/ queue_try_send(t, x)
        PROVE  QueueBase'
    BY <2>1, <2>2, EnterBase DEF queue_send, queue_try_send
  <2>3. ASSUME queue_receive(t) \/ queue_try_receive(t)
        PROVE  QueueBase'
    BY <2>1, <2>3, EnterBase DEF queue_receive, queue_try_receive
  <2>4. ASSUME NEW x \in Item, NEW ms \in Timeout, queue_send_timeout(t, x, ms)
        PROVE  QueueBase'
    BY <2>1, <2>4, EnterBase DEF queue_send_timeout
  <2>5. ASSUME NEW ms \in Timeout, queue_receive_timeout(t, ms)
        PROVE  QueueBase'
    BY <2>1, <2>5, EnterBase DEF queue_receive_timeout
  <2> QED
    BY <1>3, <2>2, <2>3, <2>4, <2>5 DEF QueueCall
<1>4. ASSUME NEW t \in Task, QueueStep(t)
      PROVE  QueueBase'
  BY <1>1, <1>4, TransferBase, WaitBase, CheckBase, WakeBase, WakeTriggerBase DEF QueueStep
<1>5. CASE IsrMove("receive", NULL) \/ \E x \in Item : IsrMove("send", x)
  BY <1>1, <1>5, IsrBase
<1> QED
  BY <1>1, <1>2, <1>3, <1>4, <1>5 DEF QueueNext

(* QueueBase is an invariant of the queue's specification.                 *)
THEOREM QueueInvariant == QueueSpec => []QueueBase
<1>1. QueueInit => QueueBase
  BY QueueInitBase
<1>2. QueueBase /\ [QueueNext]_vars => QueueBase'
  BY QueueNextBase
<1> QED
  BY <1>1, <1>2, PTL DEF QueueSpec

(* The ring, the calls under way and the kernel's memory have their types. *)
THEOREM QueueTypeCorrect == QueueSpec => []QueueTypeOK
<1>1. QueueBase => QueueTypeOK
  BY DEF QueueBase, QueueTypeOK, SchedCore, SchedTypeOK, KernelInv, KernelCore, RingInv,
         RingRecord, CallsInv, OpRecord, QueuePc
<1> QED
  BY <1>1, QueueInvariant, PTL

(* The ring buffer of queue.c implements the bounded FIFO: whatever tasks  *)
(* and interrupts do, every step of the system moves one item in at the    *)
(* end or out at the front of the abstract queue, or leaves it alone.      *)
THEOREM QueueImplementsFifo == QueueSpec => QueueIsFifo
<1>1. QueueInit => Fifo!FifoInit
  BY QueueInitBase
<1>2. QueueBase /\ [QueueNext]_vars => [Fifo!FifoNext]_<<Contents, last>>
  BY QueueNextBase
<1> QED
  BY <1>1, <1>2, QueueInvariant, PTL DEF QueueSpec, QueueIsFifo, Fifo!FifoSpec

(* The wait of a timed call ends at its deadline, also when the call wakes,*)
(* loses the race for the item and waits again.                            *)
THEOREM QueueTimeoutExact == QueueSpec => []QueueWaitEndsAtDeadline
<1>1. QueueBase => QueueWaitEndsAtDeadline
  BY DEF QueueBase, CountsDown, QueueWaitEndsAtDeadline
<1> QED
  BY <1>1, QueueInvariant, PTL

-----------------------------------------------------------------------------
(* Who waits, and who is on the way.                                       *)

(* A waiter that was taken off its list and whose timeout ends before the  *)
(* wake-up reaches it may run on, block again and then be woken by mistake *)
(* (sched_wake_task would cut the list behind it).  It cannot when it is   *)
(* less urgent than whoever is about to wake it.  So here only a task that *)
(* is less urgent than all others makes timed calls, or none does.         *)
LastOf(p) == \A t \in TimedCaller, u \in Task : u # t => p[u] < p[t]

TimedLast == \A p \in InitialPriority : LastOf(p)

(* A task is taken off its list by one caller at most, which is about to   *)
(* wake it; without a timeout it sleeps until then.                        *)
Wakers(K) ==
    /\ \A u \in Task : op[u].waiter # NULL => pc[u] = "q_wake"
    /\ \A u, v \in Task : op[u].waiter = op[v].waiter /\ op[u].waiter # NULL => u = v
    /\ \A t \in Task : Popped(t) => pc[t] \in {"q_try", "q_check"}
    /\ \A t \in Task : Popped(t) /\ pc[t] = "q_try" => K.state[t] = "BLOCKED"

(* Which calls block where, and with which countdown.                      *)
WaitModes(K) ==
    \A t \in Task :
        /\ pc[t] = "q_check" => op[t].mode = "timed"
        /\ pc[t] \in {"q_try", "q_check"} /\ op[t].mode = "timed" => t \in TimedCaller
        /\ pc[t] = "q_try" /\ K.state[t] = "BLOCKED" => op[t].mode = "block"
        /\ pc[t] \in {"q_wake", "q_trigger"} => K.state[t] # "BLOCKED"
        /\ pc[t] = "q_try" => K.delay_ticks[t] = 0
        /\ pc[t] = "q_check" /\ K.state[t] = "BLOCKED" =>
              K.wait_list_head[t] = OwnList(op[t].dir)
        /\ K.delay_ticks[t] # 0 => K.state[t] = "BLOCKED"

(* Every list of the kernel: the blocked callers of its direction whom     *)
(* nobody has taken off, each once, the most urgent first.                 *)
OnList(K, t, h) ==
    /\ K.state[t] = "BLOCKED" /\ pc[t] \in {"q_try", "q_check"}
    /\ OwnList(op[t].dir) = h /\ ~Popped(t)

ListsExact(K) ==
    \A h \in WaitList :
        /\ Once(K.waiters[h]) /\ Sorted(K.waiters[h], K.priority)
        /\ \A t \in Task : t \in ToSet(K.waiters[h]) <=> OnList(K, t, h)

(* How many items can be moved, and who is on the way to move one.         *)
Movable(dir) == IF dir = "send" THEN Capacity - q.count ELSE q.count

Mover(K, t, dir) ==
    /\ op[t].dir = dir /\ op[t].mode = "block" /\ pc[t] = "q_try"
    /\ Popped(t) \/ K.state[t] # "BLOCKED"

Movers(K, dir) == {t \in Task : Mover(K, t, dir)}

(* Behind a queue of waiters there is a task on its way for every item (or *)
(* free slot).  One for the first, as QueueNoLostWakeup says, is not       *)
(* inductive: it moves an item and may leave another.                      *)
MoversFor(K) ==
    \A dir \in Direction :
        K.waiters[OwnList(dir)] # << >> => Movable(dir) <= Cardinality(Movers(K, dir))

(* The inductive invariant, without and with the movers.                   *)
Queued == Decided(k) /\ LastOf(k.priority) /\ Wakers(k) /\ WaitModes(k) /\ ListsExact(k)

QueueInv == QueueBase /\ Queued /\ MoversFor(k)

(* The running task is as urgent as every task that is not blocked.        *)
LEMMA RunnerMostUrgent ==
    ASSUME QueueBase, Decided(k), NEW t \in Task, Runs(t), pc[t] \notin QueueTriggers,
           NEW u \in Task, k.state[u] # "BLOCKED"
    PROVE  k.priority[t] <= k.priority[u]
<1>1. /\ k.g_next_task = t
      /\ KernelInv(k) /\ KernelCore(k) /\ KernelTypeOK(k) /\ Task \subseteq Thread
      /\ k.s_task_count = TASK_MAX
  BY QueueFacts
<1>2. /\ k.state[t] = "RUNNING" /\ k.state[u] \in {"READY", "RUNNING"}
      /\ OnlyNext(k) /\ NextMostUrgent(k) /\ u \in Created(k) /\ k.late = {}
      /\ k.priority[t] \in 0 .. 255 /\ k.priority[u] \in 0 .. 255
  <2>1. k.state[u] \in TaskState /\ k.state[u] # "PAUSED"
    BY <1>1 DEF KernelTypeOK, Decided, NobodyPaused
  <2>2. k.priority \in [Task -> 0 .. 255]
    BY <1>1 DEF KernelTypeOK, Priority, NoPriority
  <2>3. OnlyNext(k) /\ NextMostUrgent(k) /\ u \in Created(k)
    BY <1>1 DEF KernelCore, KernelInv, Created, Task
  <2> QED
    BY <1>1, <2>1, <2>2, <2>3 DEF Decided, TaskState
<1>3. CASE k.state[u] = "RUNNING"
  <2>1. u = t
    BY <1>1, <1>2, <1>3 DEF OnlyNext
  <2> QED
    BY <1>2, <2>1
<1>4. CASE k.state[u] = "READY" /\ k.priority[u] < 255
  BY <1>1, <1>2, <1>4 DEF NextMostUrgent, Ready, NoPriority
<1>5. CASE k.priority[u] = 255
  BY <1>2, <1>5
<1> QED
  BY <1>2, <1>3, <1>4, <1>5

(* A task that was taken off its list does not run before it is woken.     *)
LEMMA PoppedSleeps ==
    ASSUME QueueBase, Queued, NEW t \in Task, Runs(t)
    PROVE  ~Popped(t)
<1> SUFFICES ASSUME NEW u \in Task, op[u].waiter = t
             PROVE  FALSE
  BY DEF Popped
<1>1. /\ pc[u] = "q_wake" /\ pc[t] \in {"q_try", "q_check"}
      /\ pc[t] = "q_try" => k.state[t] = "BLOCKED"
  <2>1. t # NULL /\ Popped(t)
    BY QueueFacts DEF Popped
  <2> QED
    BY <2>1 DEF Queued, Wakers
<1>2. pc[t] \notin QueueTriggers /\ u # t
  BY <1>1, QueueLabels
<1>3. pc[t] = "q_check"
  BY <1>1, <1>2, QueueFacts
<1>4. t \in TimedCaller /\ k.state[u] # "BLOCKED"
  BY <1>1, <1>3 DEF Queued, WaitModes
<1>5. k.priority[t] <= k.priority[u]
  BY <1>2, <1>4, RunnerMostUrgent DEF Queued
<1>6. k.priority[u] < k.priority[t]
  BY <1>2, <1>4 DEF Queued, LastOf
<1>7. k.priority[t] \in Int /\ k.priority[u] \in Int
  <2>1. k.priority \in [Task -> 0 .. 255]
    BY QueueFacts DEF KernelTypeOK, Priority, NoPriority
  <2> QED
    BY <2>1
<1> QED
  BY <1>5, <1>6, <1>7

(* A step of a caller that leaves every wait alone.                        *)
LeavesWaits(t, l, c) ==
    /\ pc' = [pc EXCEPT ![t] = l] /\ op' = [op EXCEPT ![t] = c]
    /\ k'.state = k.state /\ k'.delay_ticks = k.delay_ticks
    /\ k'.priority = k.priority /\ k'.waiters = k.waiters
    /\ \A u \in Task : u # t => k'.wait_list_head[u] = k.wait_list_head[u]
    /\ Decided(k')
    /\ l \in {"user", "q_try"} /\ c.waiter = NULL
    /\ l = "q_try" /\ c.mode = "timed" => t \in TimedCaller

(* The locals of the other tasks, and who is about to wake whom, when the  *)
(* caller neither takes a waiter off a list nor wakes one.                 *)
LEMMA OthersKept ==
    ASSUME QueueBase, NEW t \in Task, NEW l, NEW c,
           pc' = [pc EXCEPT ![t] = l], op' = [op EXCEPT ![t] = c],
           op[t].waiter = NULL, c.waiter = NULL
    PROVE  /\ \A u \in Task : pc'[u] = IF u = t THEN l ELSE pc[u]
           /\ \A u \in Task : op'[u] = IF u = t THEN c ELSE op[u]
           /\ \A u \in Task : op'[u].waiter = op[u].waiter
           /\ \A u \in Task : Popped(u)' <=> Popped(u)
<1>1. pc \in [Task -> QueuePc] /\ op \in [Task -> OpRecord]
  BY QueueFacts
<1>2. /\ \A u \in Task : pc'[u] = IF u = t THEN l ELSE pc[u]
      /\ \A u \in Task : op'[u] = IF u = t THEN c ELSE op[u]
  BY <1>1
<1>3. \A u \in Task : op'[u].waiter = op[u].waiter
  BY <1>2
<1> QED
  BY <1>2, <1>3 DEF Popped

(* Such a step keeps the lists exact.                                      *)
LEMMA LeavesQueued ==
    ASSUME QueueBase, Queued, NEW t \in Task, Runs(t), k.state[t] # "BLOCKED",
           pc[t] # "q_wake", NEW l, NEW c, LeavesWaits(t, l, c)
    PROVE  Queued'
<1>1. ~Popped(t) /\ op[t].waiter = NULL
  BY PoppedSleeps DEF Queued, Wakers
<1>2. /\ pc' = [pc EXCEPT ![t] = l] /\ op' = [op EXCEPT ![t] = c]
      /\ k'.state = k.state /\ k'.delay_ticks = k.delay_ticks
      /\ k'.priority = k.priority /\ k'.waiters = k.waiters
      /\ \A u \in Task : u # t => k'.wait_list_head[u] = k.wait_list_head[u]
      /\ Decided(k')
      /\ l \in {"user", "q_try"} /\ c.waiter = NULL
      /\ l = "q_try" /\ c.mode = "timed" => t \in TimedCaller
  BY DEF LeavesWaits
<1>3. /\ \A u \in Task : pc'[u] = IF u = t THEN l ELSE pc[u]
      /\ \A u \in Task : op'[u] = IF u = t THEN c ELSE op[u]
      /\ \A u \in Task : op'[u].waiter = op[u].waiter
      /\ \A u \in Task : Popped(u)' <=> Popped(u)
  BY <1>1, <1>2, OthersKept
<1>4. LastOf(k.priority)'
  BY <1>2 DEF Queued, LastOf
<1>5. Wakers(k)'
  <2>1. \A u \in Task : op'[u].waiter # NULL => pc'[u] = "q_wake"
    BY <1>1, <1>3 DEF Queued, Wakers
  <2>2. \A u, v \in Task : op'[u].waiter = op'[v].waiter /\ op'[u].waiter # NULL => u = v
    BY <1>3 DEF Queued, Wakers
  <2>3. \A u \in Task : Popped(u)' => u # t /\ Popped(u) /\ pc'[u] = pc[u]
    BY <1>1, <1>3
  <2> QED
    BY <1>2, <2>1, <2>2, <2>3 DEF Queued, Wakers
<1>6. WaitModes(k)'
  <2> SUFFICES ASSUME NEW u \in Task
               PROVE  /\ pc'[u] = "q_check" => op'[u].mode = "timed"
                      /\ pc'[u] \in {"q_try", "q_check"} /\ op'[u].mode = "timed" =>
                            u \in TimedCaller
                      /\ pc'[u] = "q_try" /\ k'.state[u] = "BLOCKED" => op'[u].mode = "block"
                      /\ pc'[u] \in {"q_wake", "q_trigger"} => k'.state[u] # "BLOCKED"
                      /\ pc'[u] = "q_try" => k'.delay_ticks[u] = 0
                      /\ pc'[u] = "q_check" /\ k'.state[u] = "BLOCKED" =>
                            k'.wait_list_head[u] = OwnList(op'[u].dir)
                      /\ k'.delay_ticks[u] # 0 => k'.state[u] = "BLOCKED"
    BY DEF WaitModes, OwnList
  <2>1. CASE u = t
    <3>1. k.delay_ticks[u] = 0
      BY <2>1 DEF Queued, WaitModes
    <3> QED
      BY <1>2, <1>3, <2>1, <3>1
  <2>2. CASE u # t
    BY <1>2, <1>3, <2>2 DEF Queued, WaitModes
  <2> QED
    BY <2>1, <2>2
<1>7. ListsExact(k)'
  <2>1. \A u \in Task, h \in WaitList : OnList(k, u, h)' <=> OnList(k, u, h)
    BY <1>2, <1>3 DEF OnList, OwnList
  <2> QED
    BY <1>2, <2>1 DEF Queued, ListsExact
<1> QED
  BY <1>2, <1>4, <1>5, <1>6, <1>7 DEF Queued

(* Sets of tasks can be counted.                                           *)
LEMMA TasksCounted ==
    ASSUME NEW S \in SUBSET Task
    PROVE  /\ IsFiniteSet(S) /\ Cardinality(S) \in Nat
           /\ \A T \in SUBSET S : Cardinality(T) \in Nat /\ Cardinality(T) <= Cardinality(S)
           /\ \A t : /\ t \in S => Cardinality(S \ {t}) = Cardinality(S) - 1
                     /\ t \notin S => /\ S \ {t} = S
                                      /\ Cardinality(S \cup {t}) = Cardinality(S) + 1
<1>1. IsFiniteSet(Task)
  BY KernelAssumption, FS_Interval DEF Task
<1>2. IsFiniteSet(S) /\ Cardinality(S) \in Nat
  BY <1>1, FS_Subset, FS_CardinalityType
<1>3. ASSUME NEW T \in SUBSET S
      PROVE  Cardinality(T) \in Nat /\ Cardinality(T) <= Cardinality(S)
  BY <1>2, FS_Subset, FS_CardinalityType
<1>4. ASSUME NEW t
      PROVE  /\ t \in S => Cardinality(S \ {t}) = Cardinality(S) - 1
             /\ t \notin S => S \ {t} = S /\ Cardinality(S \cup {t}) = Cardinality(S) + 1
  <2>1. /\ Cardinality(S \ {t}) = IF t \in S THEN Cardinality(S) - 1 ELSE Cardinality(S)
        /\ Cardinality(S \cup {t}) = IF t \in S THEN Cardinality(S) ELSE Cardinality(S) + 1
    BY <1>2, FS_RemoveElement, FS_AddElement
  <2>2. t \notin S => S \ {t} = S
    OBVIOUS
  <2> QED
    BY <2>1, <2>2
<1> QED
  BY <1>2, <1>3, <1>4

(* ... and the movers when the ring and the lists stay as they are.        *)
LEMMA MoversKept ==
    ASSUME QueueBase, MoversFor(k), q' = q,
           \A dir \in Direction : k'.waiters[OwnList(dir)] # << >> => k.waiters[OwnList(dir)] # << >>,
           \A dir \in Direction : \A u \in Task : Mover(k, u, dir) => Mover(k, u, dir)'
    PROVE  MoversFor(k)'
<1> SUFFICES ASSUME NEW dir \in Direction, k'.waiters[OwnList(dir)] # << >>
             PROVE  Movable(dir)' <= Cardinality(Movers(k, dir)')
  BY DEF MoversFor, OwnList, Movable, Movers
<1> DEFINE S == Movers(k, dir)
           R == Movers(k, dir)'
<1>1. S \in SUBSET R /\ R \in SUBSET Task
  BY DEF Movers
<1> HIDE DEF S, R
<1>2. /\ Cardinality(S) \in Nat /\ Cardinality(R) \in Nat
      /\ Cardinality(S) <= Cardinality(R)
  BY <1>1, TasksCounted
<1>3. Movable(dir) <= Cardinality(S) /\ Movable(dir)' = Movable(dir)
  BY DEF MoversFor, Movable, S
<1>4. Movable(dir) \in Int
  BY SlotIndex DEF QueueBase, Movable
<1>5. Movable(dir)' <= Cardinality(R)
  BY <1>2, <1>3, <1>4
<1> QED
  BY <1>5 DEF R

(* The reset of wait_list_head, which no decision depends on.              *)
LEMMA FinishedQuiet ==
    ASSUME NEW K, KernelTypeOK(K), Decided(K), NEW t \in Task, NEW R,
           \/ R = Finished(K, t)
           \/ R = [K EXCEPT !.timed_out[t] = FALSE, !.wait_list_head[t] = NULL]
    PROVE  /\ R.state = K.state /\ R.delay_ticks = K.delay_ticks
           /\ R.priority = K.priority /\ R.waiters = K.waiters
           /\ \A u \in Task : u # t => R.wait_list_head[u] = K.wait_list_head[u]
           /\ Decided(R)
<1>1. /\ R.state = K.state /\ R.delay_ticks = K.delay_ticks
      /\ R.priority = K.priority /\ R.waiters = K.waiters
      /\ \A u \in Task : u # t => R.wait_list_head[u] = K.wait_list_head[u]
      /\ R.late = K.late /\ R.g_next_task = K.g_next_task
  <2>1. CASE R = K
    BY <2>1
  <2>2. CASE R = [K EXCEPT !.wait_list_head[t] = NULL]
    BY <2>2 DEF KernelTypeOK
  <2>3. CASE R = [K EXCEPT !.timed_out[t] = FALSE, !.wait_list_head[t] = NULL]
    BY <2>3 DEF KernelTypeOK
  <2> QED
    BY <2>1, <2>2, <2>3 DEF Finished
<1> QED
  BY <1>1 DEF Decided, NobodyPaused

(* The beginning of a call.                                                *)
LEMMA EnterInv ==
    ASSUME QueueInv, NEW t \in Task, NEW dir \in Direction, NEW x \in Item \cup {NULL},
           dir = "send" => x \in Item, NEW mode \in {"block", "timed", "try"},
           mode = "timed" => t \in TimedCaller, NEW d \in Time, Enter(t, dir, x, mode, d)
    PROVE  QueueInv'
<1> DEFINE c == [dir |-> dir, item |-> x, mode |-> mode, deadline |-> d, waiter |-> NULL]
<1>0. QueueBase /\ Queued /\ MoversFor(k)
  BY DEF QueueInv
<1>1. /\ k' = k /\ q' = q
      /\ pc' = [pc EXCEPT ![t] = "q_try"] /\ op' = [op EXCEPT ![t] = c]
      /\ Runs(t) /\ pc[t] = "user"
  BY DEF Enter, Goto
<1>2. c.mode = mode /\ c.waiter = NULL
  OBVIOUS
<1> HIDE DEF c
<1>3. QueueBase'
  BY <1>0, EnterBase
<1>4. k.state[t] # "BLOCKED"
  BY <1>0, <1>1, QueueFacts, QueueLabels
<1>5. LeavesWaits(t, "q_try", c)
  BY <1>0, <1>1, <1>2 DEF LeavesWaits, Queued
<1>6. Queued'
  BY <1>0, <1>1, <1>4, <1>5, LeavesQueued
<1>7. op[t].waiter = NULL
  BY <1>0, <1>1 DEF Queued, Wakers
<1>8. /\ \A u \in Task : pc'[u] = IF u = t THEN "q_try" ELSE pc[u]
      /\ \A u \in Task : op'[u] = IF u = t THEN c ELSE op[u]
      /\ \A u \in Task : Popped(u)' <=> Popped(u)
  <2>1. pc \in [Task -> QueuePc] /\ op \in [Task -> OpRecord]
    BY <1>0, QueueFacts
  <2>2. /\ \A u \in Task : pc'[u] = IF u = t THEN "q_try" ELSE pc[u]
        /\ \A u \in Task : op'[u] = IF u = t THEN c ELSE op[u]
    BY <1>1, <2>1
  <2>3. \A u \in Task : op'[u].waiter = op[u].waiter
    BY <1>2, <1>7, <2>2
  <2>4. \A u \in Task : Popped(u)' <=> Popped(u)
    BY <2>3 DEF Popped
  <2> QED
    BY <2>2, <2>4
<1>9. MoversFor(k)'
  <2>1. \A e \in Direction : \A u \in Task : Mover(k, u, e) => Mover(k, u, e)'
    BY <1>1, <1>8 DEF Mover
  <2> QED
    BY <1>0, <1>1, <2>1, MoversKept
<1> QED
  BY <1>3, <1>6, <1>9 DEF QueueInv

(* A return of a caller that was not on its way to move an item.           *)
LEMMA ReturnInv ==
    ASSUME QueueInv, QueueBase', NEW t \in Task, Runs(t), Return(t), k.state[t] # "BLOCKED",
           pc[t] \in {"q_try", "q_check", "q_trigger"}, pc[t] = "q_try" => op[t].mode # "block",
           q' = q, k'.state = k.state, k'.delay_ticks = k.delay_ticks,
           k'.priority = k.priority, k'.waiters = k.waiters,
           \A u \in Task : u # t => k'.wait_list_head[u] = k.wait_list_head[u],
           Decided(k')
    PROVE  QueueInv'
<1>0. QueueBase /\ Queued /\ MoversFor(k)
  BY DEF QueueInv
<1>1. pc' = [pc EXCEPT ![t] = "user"] /\ op' = [op EXCEPT ![t] = NoOp] /\ NoOp.waiter = NULL
  BY DEF Return, Goto, NoOp
<1>2. LeavesWaits(t, "user", NoOp)
  BY <1>1 DEF LeavesWaits
<1>3. Queued'
  BY <1>0, <1>2, LeavesQueued
<1>4. op[t].waiter = NULL
  BY <1>0 DEF Queued, Wakers
<1>5. /\ \A u \in Task : pc'[u] = IF u = t THEN "user" ELSE pc[u]
      /\ \A u \in Task : op'[u] = IF u = t THEN NoOp ELSE op[u]
      /\ \A u \in Task : op'[u].waiter = op[u].waiter
      /\ \A u \in Task : Popped(u)' <=> Popped(u)
  <2>1. /\ QueueBase /\ op[t].waiter = NULL /\ NoOp.waiter = NULL
        /\ pc' = [pc EXCEPT ![t] = "user"] /\ op' = [op EXCEPT ![t] = NoOp]
    BY <1>0, <1>1, <1>4
  <2> QED
    BY <2>1, OthersKept
<1>6. \A dir \in Direction : \A u \in Task : Mover(k, u, dir) => Mover(k, u, dir)'
  <2> SUFFICES ASSUME NEW dir \in Direction, NEW u \in Task, Mover(k, u, dir)
               PROVE  Mover(k, u, dir)'
    OBVIOUS
  <2>1. u # t
    BY DEF Mover
  <2> QED
    BY <1>5, <2>1 DEF Mover
<1>7. MoversFor(k)'
  BY <1>0, <1>6, MoversKept
<1> QED
  BY <1>3, <1>7 DEF QueueInv

(* A timed call after it has waited.                                       *)
LEMMA CheckInv ==
    ASSUME QueueInv, NEW t \in Task, Check(t)
    PROVE  QueueInv'
<1>0. QueueBase /\ Queued /\ MoversFor(k) /\ KernelTypeOK(k) /\ Decided(k)
  BY QueueFacts DEF QueueInv, Queued
<1>1. /\ Runs(t) /\ pc[t] = "q_check" /\ q' = q
      /\ \/ /\ k' = [k EXCEPT !.timed_out[t] = FALSE, !.wait_list_head[t] = NULL]
            /\ Return(t)
         \/ Goto(t, "q_try") /\ k' = k /\ op' = op
  BY DEF Check
<1>2. QueueBase'
  BY <1>0, CheckBase
<1>3. k.state[t] # "BLOCKED"
  BY <1>0, <1>1, QueueFacts, QueueLabels
<1>4. CASE k' = [k EXCEPT !.timed_out[t] = FALSE, !.wait_list_head[t] = NULL] /\ Return(t)
  <2>1. /\ k'.state = k.state /\ k'.delay_ticks = k.delay_ticks
        /\ k'.priority = k.priority /\ k'.waiters = k.waiters
        /\ \A u \in Task : u # t => k'.wait_list_head[u] = k.wait_list_head[u]
        /\ Decided(k')
    <3>1. \/ k' = Finished(k, t)
          \/ k' = [k EXCEPT !.timed_out[t] = FALSE, !.wait_list_head[t] = NULL]
      BY <1>4
    <3>2. KernelTypeOK(k) /\ Decided(k)
      BY <1>0
    <3> QED
      BY <3>1, <3>2, FinishedQuiet
  <2> QED
    BY <1>1, <1>2, <1>3, <1>4, <2>1, ReturnInv
<1>5. CASE Goto(t, "q_try") /\ k' = k /\ op' = op
  <2> DEFINE c == op[t]
  <2>1. pc' = [pc EXCEPT ![t] = "q_try"] /\ op' = [op EXCEPT ![t] = c]
    <3>1. op \in [Task -> OpRecord]
      BY <1>0, QueueFacts
    <3> QED
      BY <1>5, <3>1 DEF Goto
  <2>2. c.waiter = NULL /\ t \in TimedCaller /\ c.mode = "timed"
    BY <1>0, <1>1 DEF Queued, Wakers, WaitModes
  <2>3. LeavesWaits(t, "q_try", c)
    BY <1>0, <1>5, <2>1, <2>2 DEF LeavesWaits
  <2>4. Queued'
    BY <1>0, <1>1, <1>3, <2>3, LeavesQueued
  <2>5. /\ \A u \in Task : pc'[u] = IF u = t THEN "q_try" ELSE pc[u]
        /\ \A u \in Task : Popped(u)' <=> Popped(u)
    BY <1>0, <2>1, <2>2, OthersKept
  <2>6. \A dir \in Direction : \A u \in Task : Mover(k, u, dir) => Mover(k, u, dir)'
    BY <1>5, <2>5 DEF Mover
  <2>7. MoversFor(k)'
    BY <1>0, <1>1, <1>5, <2>6, MoversKept
  <2> QED
    BY <1>2, <2>4, <2>7 DEF QueueInv
<1> QED
  BY <1>1, <1>4, <1>5

(* The last step of a call that woke a waiter.                             *)
LEMMA WakeTriggerInv ==
    ASSUME QueueInv, NEW t \in Task, WakeTrigger(t)
    PROVE  QueueInv'
<1> DEFINE T == TriggerIfSwitch(k)
<1>0. QueueBase /\ Queued /\ MoversFor(k) /\ KernelTypeOK(k) /\ Decided(k) /\ KernelInv(k)
  BY QueueFacts DEF QueueInv, Queued
<1>1. /\ Runs(t) /\ pc[t] = "q_trigger" /\ q' = q /\ k' = Finished(T, t) /\ Return(t)
  BY DEF WakeTrigger
<1>2. QueueBase'
  BY <1>0, WakeTriggerBase
<1>3. KernelInv(T) /\ SameWaits(k, T) /\ T.state = k.state
  BY <1>0, TriggerKeeps
<1>4. Decided(T)
  BY <1>0, TriggerDecided
<1>5. KernelTypeOK(T)
  BY <1>3 DEF KernelInv, KernelCore
<1> HIDE DEF T
<1>6. /\ k'.state = T.state /\ k'.delay_ticks = T.delay_ticks
      /\ k'.priority = T.priority /\ k'.waiters = T.waiters
      /\ \A u \in Task : u # t => k'.wait_list_head[u] = T.wait_list_head[u]
      /\ Decided(k')
  <2>1. \/ k' = Finished(T, t)
        \/ k' = [T EXCEPT !.timed_out[t] = FALSE, !.wait_list_head[t] = NULL]
    BY <1>1
  <2> QED
    BY <2>1, <1>4, <1>5, FinishedQuiet
<1>7. /\ k'.state = k.state /\ k'.delay_ticks = k.delay_ticks
      /\ k'.priority = k.priority /\ k'.waiters = k.waiters
      /\ \A u \in Task : u # t => k'.wait_list_head[u] = k.wait_list_head[u]
  BY <1>3, <1>6 DEF SameWaits
<1>8. k.state[t] # "BLOCKED"
  BY <1>0, <1>1 DEF Queued, WaitModes
<1> QED
  BY <1>1, <1>2, <1>6, <1>7, <1>8, ReturnInv

(* The caller t joins the list h and sleeps, going on at l.                *)
Sleeps(t, l, h) ==
    /\ pc' = [pc EXCEPT ![t] = l] /\ op' = op
    /\ Decided(k') /\ k'.priority = k.priority
    /\ \A u \in Task : k'.state[u] = "BLOCKED" <=> u = t \/ k.state[u] = "BLOCKED"
    /\ \A u \in Task : u # t => k'.delay_ticks[u] = k.delay_ticks[u]
    /\ \A u \in Task : u # t => k'.wait_list_head[u] = k.wait_list_head[u]
    /\ \A g \in WaitList : g # h => k'.waiters[g] = k.waiters[g]
    /\ ToSet(k'.waiters[h]) = ToSet(k.waiters[h]) \cup {t}
    /\ Once(k.waiters[h]) /\ t \notin ToSet(k.waiters[h]) => Once(k'.waiters[h])
    /\ Sorted(k.waiters[h], k.priority) => Sorted(k'.waiters[h], k.priority)
    /\ \/ l = "q_try" /\ op[t].mode = "block" /\ k'.delay_ticks[t] = k.delay_ticks[t]
       \/ l = "q_check" /\ op[t].mode = "timed" /\ k'.wait_list_head[t] = h

(* A caller that can move nothing joins the waiters of its direction; for  *)
(* the waiters of that direction there is nothing to be moved either.      *)
LEMMA SleepsInv ==
    ASSUME QueueInv, QueueBase', NEW t \in Task, Runs(t), pc[t] = "q_try",
           ~Possible(op[t].dir), q' = q, NEW l, Sleeps(t, l, OwnList(op[t].dir))
    PROVE  QueueInv'
<1> DEFINE h == OwnList(op[t].dir)
<1>0. QueueBase /\ Queued /\ MoversFor(k)
  BY DEF QueueInv
<1>1. /\ pc' = [pc EXCEPT ![t] = l] /\ op' = op
      /\ Decided(k') /\ k'.priority = k.priority
      /\ \A u \in Task : k'.state[u] = "BLOCKED" <=> u = t \/ k.state[u] = "BLOCKED"
      /\ \A u \in Task : u # t => k'.delay_ticks[u] = k.delay_ticks[u]
      /\ \A u \in Task : u # t => k'.wait_list_head[u] = k.wait_list_head[u]
      /\ \A g \in WaitList : g # h => k'.waiters[g] = k.waiters[g]
      /\ ToSet(k'.waiters[h]) = ToSet(k.waiters[h]) \cup {t}
      /\ Once(k.waiters[h]) /\ t \notin ToSet(k.waiters[h]) => Once(k'.waiters[h])
      /\ Sorted(k.waiters[h], k.priority) => Sorted(k'.waiters[h], k.priority)
  BY DEF Sleeps
<1>2. \/ l = "q_try" /\ op[t].mode = "block" /\ k'.delay_ticks[t] = k.delay_ticks[t]
      \/ l = "q_check" /\ op[t].mode = "timed" /\ k'.wait_list_head[t] = h
  BY DEF Sleeps
<1>3. /\ k.state[t] # "BLOCKED" /\ h \in WaitList /\ ~Popped(t) /\ op[t].dir \in Direction
  BY <1>0, PoppedSleeps, QueueFacts, QueueLabels DEF QueueBase, CallsInv
<1> HIDE DEF h
<1>4. /\ \A u \in Task : pc'[u] = IF u = t THEN l ELSE pc[u]
      /\ \A u \in Task : Popped(u)' <=> Popped(u)
      /\ l \in {"q_try", "q_check"}
  BY <1>0, <1>1, <1>2, QueueFacts DEF Popped
<1>5. LastOf(k.priority)'
  BY <1>0, <1>1 DEF Queued, LastOf
<1>6. Wakers(k)'
  <2>1. \A u \in Task : Popped(u)' => u # t /\ Popped(u) /\ pc'[u] = pc[u]
    BY <1>3, <1>4
  <2>2. \A u \in Task : op'[u].waiter # NULL => pc'[u] = "q_wake"
    BY <1>0, <1>1, <1>4 DEF Queued, Wakers
  <2> QED
    BY <1>0, <1>1, <2>1, <2>2 DEF Queued, Wakers
<1>7. WaitModes(k)'
  <2> SUFFICES ASSUME NEW u \in Task
               PROVE  /\ pc'[u] = "q_check" => op'[u].mode = "timed"
                      /\ pc'[u] \in {"q_try", "q_check"} /\ op'[u].mode = "timed" =>
                            u \in TimedCaller
                      /\ pc'[u] = "q_try" /\ k'.state[u] = "BLOCKED" => op'[u].mode = "block"
                      /\ pc'[u] \in {"q_wake", "q_trigger"} => k'.state[u] # "BLOCKED"
                      /\ pc'[u] = "q_try" => k'.delay_ticks[u] = 0
                      /\ pc'[u] = "q_check" /\ k'.state[u] = "BLOCKED" =>
                            k'.wait_list_head[u] = OwnList(op'[u].dir)
                      /\ k'.delay_ticks[u] # 0 => k'.state[u] = "BLOCKED"
    BY DEF WaitModes, OwnList
  <2>1. CASE u = t
    <3>1. k.delay_ticks[t] = 0 /\ (op[t].mode = "timed" => t \in TimedCaller)
      BY <1>0 DEF Queued, WaitModes
    <3> QED
      BY <1>1, <1>2, <1>4, <2>1, <3>1 DEF h
  <2>2. CASE u # t
    BY <1>0, <1>1, <1>4, <2>2 DEF Queued, WaitModes
  <2> QED
    BY <2>1, <2>2
<1>8. ListsExact(k)'
  <2>1. ASSUME NEW u \in Task, NEW g \in WaitList
        PROVE  OnList(k, u, g)' <=> (IF u = t THEN g = h ELSE OnList(k, u, g))
    BY <1>1, <1>3, <1>4 DEF OnList, OwnList, h
  <2> SUFFICES ASSUME NEW g \in WaitList
               PROVE  /\ Once(k'.waiters[g]) /\ Sorted(k'.waiters[g], k'.priority)
                      /\ \A u \in Task : u \in ToSet(k'.waiters[g]) <=> OnList(k, u, g)'
    BY DEF ListsExact
  <2>2. /\ Once(k.waiters[g]) /\ Sorted(k.waiters[g], k.priority)
        /\ \A u \in Task : u \in ToSet(k.waiters[g]) <=> OnList(k, u, g)
    BY <1>0 DEF Queued, ListsExact
  <2>3. t \notin ToSet(k.waiters[g])
    BY <1>3, <2>2 DEF OnList
  <2>4. CASE g = h
    BY <1>1, <2>1, <2>2, <2>3, <2>4
  <2>5. CASE g # h
    <3>1. k'.waiters[g] = k.waiters[g]
      BY <1>1, <2>5
    <3> QED
      BY <1>1, <2>1, <2>2, <2>3, <2>5, <3>1
  <2> QED
    BY <2>4, <2>5
<1>9. MoversFor(k)'
  <2> SUFFICES ASSUME NEW dir \in Direction, k'.waiters[OwnList(dir)] # << >>
               PROVE  Movable(dir)' <= Cardinality(Movers(k, dir)')
    BY DEF MoversFor, OwnList, Movable, Movers
  <2> DEFINE S == Movers(k, dir)
             R == Movers(k, dir)'
  <2>1. S \in SUBSET Task /\ R \in SUBSET Task
    BY DEF Movers
  <2>2. Cardinality(R) \in Nat
    BY <2>1, TasksCounted
  <2>3. CASE dir = op[t].dir
    <3>1. q.count \in Nat /\ Capacity \in Nat /\ q.count <= Capacity
      BY <1>0, SlotIndex DEF QueueBase
    <3>2. Movable(dir)' = 0
      BY <2>3, <3>1 DEF Movable, Possible, Direction
    <3> QED
      BY <2>2, <3>2
  <2>4. CASE dir # op[t].dir
    <3>1. OwnList(dir) \in WaitList /\ OwnList(dir) # h
      BY <1>3, <2>4, QueueAssumption DEF OwnList, h, Direction
    <3>2. k'.waiters[OwnList(dir)] = k.waiters[OwnList(dir)]
      BY <1>1, <3>1
    <3>3. R = S
      BY <1>1, <1>4, <2>4 DEF Movers, Mover
    <3>4. Movable(dir)' = Movable(dir)
      BY DEF Movable
    <3> QED
      BY <1>0, <3>2, <3>3, <3>4 DEF MoversFor
  <2> QED
    BY <2>3, <2>4
<1> QED
  BY <1>1, <1>5, <1>6, <1>7, <1>8, <1>9 DEF QueueInv, Queued

(* The critical section when the item cannot be moved.                     *)
LEMMA WaitInv ==
    ASSUME QueueInv, NEW t \in Task, Wait(t)
    PROVE  QueueInv'
<1> DEFINE h == OwnList(op[t].dir)
           n == Remaining(op[t].deadline, s_ticks)
<1>0. QueueBase /\ Queued /\ MoversFor(k) /\ Decided(k) /\ NobodyPaused(k)
  BY DEF QueueInv, Queued, Decided
<1>1. /\ Runs(t) /\ pc[t] = "q_try" /\ ~Possible(op[t].dir) /\ q' = q
      /\ \/ op[t].mode # "block" /\ Return(t) /\ k' = k
         \/ op[t].mode = "block" /\ k' = BlockOn(k, t, h) /\ op' = op /\ pc' = pc
         \/ /\ op[t].mode = "timed" /\ ~DeadlinePassed(s_ticks, op[t].deadline)
            /\ k' = BlockOn(ArmTimeout(k, t, h, n), t, h)
            /\ Goto(t, "q_check")
            /\ op' = op
  BY DEF Wait
<1>2. QueueBase'
  BY <1>0, WaitBase
<1>3. /\ KernelCore(k) /\ KernelTypeOK(k) /\ k.state[t] # "BLOCKED" /\ h \in WaitList
      /\ op[t] \in OpRecord /\ pc \in [Task -> QueuePc] /\ s_ticks \in Time
      /\ Task \subseteq Thread /\ k.delay_ticks \in [Task -> Nat]
  BY <1>0, <1>1, QueueFacts, QueueLabels
<1>4. CASE op[t].mode # "block" /\ Return(t) /\ k' = k
  BY <1>0, <1>1, <1>2, <1>3, <1>4, ReturnInv
<1> HIDE DEF h
<1>5. CASE op[t].mode = "block" /\ k' = BlockOn(k, t, h) /\ op' = op /\ pc' = pc
  <2>1. KernelCore(k) /\ h \in WaitList /\ k' = BlockOn(k, t, h) /\ NobodyPaused(k)
    BY <1>0, <1>3, <1>5
  <2>2. /\ KernelInv(k') /\ k'.pendsv
        /\ k'.priority = k.priority /\ k'.delay_ticks = k.delay_ticks
        /\ k'.wait_list_head = k.wait_list_head /\ k'.timed_out = k.timed_out
        /\ k'.g_current_task = k.g_current_task /\ k'.s_task_count = k.s_task_count
        /\ \A u \in Thread : k'.state[u] = "BLOCKED" <=> u = t \/ k.state[u] = "BLOCKED"
        /\ \A g \in WaitList : g # h => k'.waiters[g] = k.waiters[g]
        /\ ToSet(k'.waiters[h]) = ToSet(k.waiters[h]) \cup {t}
        /\ Once(k.waiters[h]) /\ t \notin ToSet(k.waiters[h]) => Once(k'.waiters[h])
        /\ Sorted(k.waiters[h], k.priority) => Sorted(k'.waiters[h], k.priority)
    BY <2>1, BlockOnResult
  <2>3. Decided(k')
    BY <2>1, BlockOnDecided
  <2>4. pc' = [pc EXCEPT ![t] = "q_try"]
    BY <1>1, <1>3, <1>5
  <2>5. Sleeps(t, "q_try", h)
    BY <1>3, <1>5, <2>2, <2>3, <2>4 DEF Sleeps
  <2> QED
    BY <1>1, <1>2, <2>5, SleepsInv DEF h
<1>6. CASE /\ op[t].mode = "timed" /\ ~DeadlinePassed(s_ticks, op[t].deadline)
           /\ k' = BlockOn(ArmTimeout(k, t, h, n), t, h)
           /\ Goto(t, "q_check")
           /\ op' = op
  <2>1. n \in Nat
    <3>1. op[t].deadline \in Time
      BY <1>3 DEF OpRecord
    <3> QED
      BY <1>3, <1>6, <3>1, SchedulerAssumption DEF DeadlinePassed, Remaining, Time
  <2> HIDE DEF n
  <2> DEFINE A == ArmTimeout(k, t, h, n)
  <2>2. /\ KernelCore(A) /\ A.s_task_count = k.s_task_count
        /\ A.g_next_task = k.g_next_task /\ A.g_current_task = k.g_current_task
        /\ A.state = k.state /\ A.waiters = k.waiters /\ A.priority = k.priority
        /\ A.late = k.late
        /\ A.delay_ticks = [k.delay_ticks EXCEPT ![t] = n]
    <3>1. KernelCore(k) /\ h \in WaitList /\ n \in Nat
      BY <1>3, <2>1
    <3> QED
      BY <3>1, ArmKeeps
  <2>3. /\ A.wait_list_head[t] = h
        /\ \A u \in Task : u # t => A.wait_list_head[u] = k.wait_list_head[u]
    BY <1>3 DEF ArmTimeout, KernelTypeOK
  <2>4. k' = BlockOn(A, t, h) /\ pc' = [pc EXCEPT ![t] = "q_check"]
    BY <1>6 DEF Goto
  <2>5. KernelCore(A) /\ NobodyPaused(A) /\ h \in WaitList
    BY <1>0, <1>3, <2>2 DEF NobodyPaused
  <2> HIDE DEF A
  <2>6. /\ KernelInv(k') /\ k'.pendsv
        /\ k'.priority = A.priority /\ k'.delay_ticks = A.delay_ticks
        /\ k'.wait_list_head = A.wait_list_head /\ k'.timed_out = A.timed_out
        /\ k'.g_current_task = A.g_current_task /\ k'.s_task_count = A.s_task_count
        /\ \A u \in Thread : k'.state[u] = "BLOCKED" <=> u = t \/ A.state[u] = "BLOCKED"
        /\ \A g \in WaitList : g # h => k'.waiters[g] = A.waiters[g]
        /\ ToSet(k'.waiters[h]) = ToSet(A.waiters[h]) \cup {t}
        /\ Once(A.waiters[h]) /\ t \notin ToSet(A.waiters[h]) => Once(k'.waiters[h])
        /\ Sorted(A.waiters[h], A.priority) => Sorted(k'.waiters[h], A.priority)
    BY <2>4, <2>5, BlockOnResult
  <2>7. Decided(k')
    BY <2>4, <2>5, BlockOnDecided
  <2>8. \A u \in Task : u # t => k'.delay_ticks[u] = k.delay_ticks[u]
    BY <1>3, <2>2, <2>6
  <2>9. Sleeps(t, "q_check", h)
    BY <1>3, <1>6, <2>2, <2>3, <2>4, <2>6, <2>7, <2>8 DEF Sleeps
  <2> QED
    BY <1>1, <1>2, <2>9, SleepsInv DEF h
<1> QED
  BY <1>1, <1>4, <1>5, <1>6

(* A move takes one from what can be moved in its direction and adds one   *)
(* to what can be moved in the other.                                      *)
LEMMA MoveCounts ==
    ASSUME RingInv, NEW dir \in Direction, NEW x, Possible(dir), Move(dir, x)
    PROVE  /\ Movable(dir) \in Int /\ Movable(dir)' = Movable(dir) - 1
           /\ \A e \in Direction : e # dir =>
                 Movable(e) \in Int /\ Movable(e)' = Movable(e) + 1
<1>1. /\ q.count \in Nat /\ Capacity \in Nat /\ q \in RingRecord
  BY SlotIndex DEF RingInv
<1>2. CASE dir = "send"
  <2>1. q' = queue_copy_in(x)
    BY <1>2 DEF Move
  <2>2. q'.count = q.count + 1
    BY <1>1, <2>1 DEF queue_copy_in, RingRecord
  <2> QED
    BY <1>1, <1>2, <2>2 DEF Movable, Direction
<1>3. CASE dir = "receive"
  <2>1. q' = queue_copy_out
    BY <1>3 DEF Move
  <2>2. q'.count = q.count - 1
    BY <1>1, <2>1 DEF queue_copy_out, RingRecord
  <2> QED
    BY <1>1, <1>3, <2>2 DEF Movable, Direction
<1> QED
  BY <1>2, <1>3 DEF Direction

(* The caller t moved an item and is on its way no more; behind the other  *)
(* direction's waiters, if any are left, w has come to be on its way.      *)
LEMMA MoveMovers ==
    ASSUME RingInv, NEW d \in Direction, NEW x, Possible(d), Move(d, x),
           NEW K, MoversFor(K), NEW t, NEW w,
           \A dir \in Direction :
              k'.waiters[OwnList(dir)] # << >> => K.waiters[OwnList(dir)] # << >>,
           \A u \in Task : u # t /\ Mover(K, u, d) => Mover(k, u, d)',
           \A e \in Direction : e # d =>
              /\ \A u \in Task : Mover(K, u, e) => Mover(k, u, e)'
              /\ k'.waiters[OwnList(e)] # << >> =>
                    w \in Task /\ ~Mover(K, w, e) /\ Mover(k, w, e)'
    PROVE  MoversFor(k)'
<1> SUFFICES ASSUME NEW dir \in Direction, k'.waiters[OwnList(dir)] # << >>
             PROVE  Movable(dir)' <= Cardinality(Movers(k, dir)')
  BY DEF MoversFor, OwnList, Movable, Movers
<1> DEFINE S == Movers(K, dir)
           R == Movers(k, dir)'
<1>1. S \in SUBSET Task /\ R \in SUBSET Task
  BY DEF Movers
<1>2. Movable(dir) <= Cardinality(S)
  BY DEF MoversFor
<1>3. CASE dir = d
  <2>1. Movable(dir) \in Int /\ Movable(dir)' = Movable(dir) - 1
    BY <1>3, MoveCounts
  <2>2. S \ {t} \in SUBSET R
    BY <1>3 DEF Movers
  <2> HIDE DEF S, R
  <2>3. Cardinality(S) \in Nat /\ Cardinality(R) \in Nat
    BY <1>1, TasksCounted
  <2>4. Cardinality(S \ {t}) \in Int /\ Cardinality(S \ {t}) >= Cardinality(S) - 1
    <3>1. /\ t \in S => Cardinality(S \ {t}) = Cardinality(S) - 1
          /\ t \notin S => S \ {t} = S
      BY <1>1, TasksCounted
    <3>2. CASE t \in S
      BY <2>3, <3>1, <3>2
    <3>3. CASE t \notin S
      <4>1. Cardinality(S \ {t}) = Cardinality(S)
        BY <3>1, <3>3
      <4> QED
        BY <2>3, <4>1
    <3> QED
      BY <3>2, <3>3
  <2>5. Cardinality(S \ {t}) <= Cardinality(R)
    BY <1>1, <2>2, TasksCounted
  <2>6. Movable(dir)' <= Cardinality(R)
    BY <1>2, <2>1, <2>3, <2>4, <2>5
  <2> QED
    BY <2>6 DEF R
<1>4. CASE dir # d
  <2>1. Movable(dir) \in Int /\ Movable(dir)' = Movable(dir) + 1
    BY <1>4, MoveCounts
  <2>2. w \notin S /\ S \cup {w} \in SUBSET R
    BY <1>4 DEF Movers
  <2> HIDE DEF S, R
  <2>3. Cardinality(S) \in Nat /\ Cardinality(R) \in Nat
    BY <1>1, TasksCounted
  <2>4. Cardinality(S \cup {w}) = Cardinality(S) + 1
    BY <1>1, <2>2, TasksCounted
  <2>5. Cardinality(S \cup {w}) <= Cardinality(R)
    BY <1>1, <2>2, TasksCounted
  <2>6. Movable(dir)' <= Cardinality(R)
    BY <1>2, <2>1, <2>3, <2>4, <2>5
  <2> QED
    BY <2>6 DEF R
<1> QED
  BY <1>3, <1>4

(* The waiter that wq_pop takes off, and what it leaves: nobody, when the  *)
(* waiter made a timed call, for that one comes last.                      *)
LEMMA PopWaiter ==
    ASSUME NEW K, KernelCore(K), ListsExact(K), WaitModes(K), LastOf(K.priority),
           NEW h \in WaitList, K.waiters[h] # << >>
    PROVE  LET P == wq_pop(K, h)
               w == FirstWaiter(K, h)
           IN
           /\ KernelCore(P)
           /\ w \in Task /\ w # NULL /\ OnList(K, w, h)
           /\ P.state = K.state /\ P.priority = K.priority /\ P.late = K.late
           /\ P.delay_ticks = K.delay_ticks /\ P.wait_list_head = K.wait_list_head
           /\ P.g_next_task = K.g_next_task
           /\ P.s_task_count = K.s_task_count /\ P.g_current_task = K.g_current_task
           /\ \A g \in WaitList : Once(P.waiters[g]) /\ Sorted(P.waiters[g], K.priority)
           /\ \A g \in WaitList, u \in Task :
                 u \in ToSet(P.waiters[g]) <=> OnList(K, u, g) /\ u # w
           /\ \A g \in WaitList : P.waiters[g] # << >> => K.waiters[g] # << >>
           /\ op[w].mode \in {"block", "timed"}
           /\ op[w].mode = "timed" => P.waiters[h] = << >>
           /\ op[w].mode = "block" => pc[w] = "q_try"
<1> DEFINE P == wq_pop(K, h)
           w == FirstWaiter(K, h)
           s == K.waiters[h]
<1>1. /\ \A g \in WaitList : Once(K.waiters[g]) /\ Sorted(K.waiters[g], K.priority)
      /\ \A g \in WaitList, u \in Task : u \in ToSet(K.waiters[g]) <=> OnList(K, u, g)
  BY DEF ListsExact
<1>2. /\ s \in Seq(Task) /\ K.priority \in [Task -> Priority]
  BY DEF KernelCore, KernelTypeOK
<1>3. /\ KernelCore(P)
      /\ w \in Task /\ w # NULL /\ w \in ToSet(K.waiters[h])
      /\ P = [K EXCEPT !.waiters = P.waiters]
      /\ P.state = K.state
      /\ P.priority = K.priority /\ P.delay_ticks = K.delay_ticks
      /\ P.wait_list_head = K.wait_list_head /\ P.timed_out = K.timed_out
      /\ P.s_task_count = K.s_task_count /\ P.g_current_task = K.g_current_task
      /\ P.pendsv = K.pendsv
      /\ P.waiters[h] \in Seq(Task)
      /\ SubList(P.waiters[h], K.waiters[h])
      /\ ToSet(P.waiters[h]) = ToSet(K.waiters[h]) \ {w}
      /\ \A g \in WaitList : g # h => P.waiters[g] = K.waiters[g]
  <2>1. Once(K.waiters[h])
    BY <1>1
  <2> QED
    BY <2>1, PopKeeps, Zenon
<1>4. P.late = K.late /\ P.g_next_task = K.g_next_task
  BY PopCore
<1>5. w = s[1] /\ P.waiters[h] = Tail(s)
  <2>1. w = Head(s)
    BY DEF FirstWaiter
  <2>2. P.waiters = [K.waiters EXCEPT ![h] = Tail(s)]
    BY DEF wq_pop
  <2>3. K.waiters = [g \in WaitList |-> K.waiters[g]]
    BY DEF KernelCore, KernelTypeOK
  <2>4. P.waiters[h] = Tail(s)
    BY <2>2, <2>3
  <2> HIDE DEF P, w, s
  <2>5. Head(s) = s[1]
    BY <1>2
  <2> QED
    BY <2>1, <2>4, <2>5
<1> HIDE DEF P, w
<1>6. OnList(K, w, h)
  BY <1>1, <1>3
<1>7. /\ op[w].mode \in {"block", "timed"}
      /\ op[w].mode = "timed" => w \in TimedCaller
      /\ op[w].mode = "block" => pc[w] = "q_try"
  <2>1. K.state[w] = "BLOCKED" /\ pc[w] \in {"q_try", "q_check"}
    BY <1>6 DEF OnList
  <2> QED
    BY <1>3, <2>1 DEF WaitModes
<1>8. ASSUME NEW g \in WaitList
      PROVE  /\ Once(P.waiters[g]) /\ Sorted(P.waiters[g], K.priority)
             /\ \A u \in Task : u \in ToSet(P.waiters[g]) <=> OnList(K, u, g) /\ u # w
             /\ P.waiters[g] # << >> => K.waiters[g] # << >>
  <2>1. CASE g = h
    <3>1. Once(P.waiters[h]) /\ Sorted(P.waiters[h], K.priority)
      BY <1>1, <1>2, <1>3, SubListKeeps
    <3>2. \A u \in Task : u \in ToSet(P.waiters[h]) <=> OnList(K, u, h) /\ u # w
      BY <1>1, <1>3
    <3> QED
      BY <2>1, <3>1, <3>2
  <2>2. CASE g # h
    <3>1. ~OnList(K, w, g)
      BY <1>6, <2>2 DEF OnList
    <3> QED
      BY <1>1, <1>3, <2>2, <3>1
  <2> QED
    BY <2>1, <2>2
<1>9. ASSUME op[w].mode = "timed", P.waiters[h] # << >>
      PROVE  FALSE
  <2>1. /\ 1 \in DOMAIN s /\ 2 \in DOMAIN s /\ s[1] \in Task /\ s[2] \in Task
    <3>1. Tail(s) # << >>
      BY <1>5, <1>9
    <3> HIDE DEF s
    <3>2. Len(s) \in Nat /\ DOMAIN s = 1 .. Len(s) /\ s \in Seq(Task)
      BY <1>2
    <3>3. Len(s) > 1
      BY <3>1, <3>2
    <3>4. 1 \in DOMAIN s /\ 2 \in DOMAIN s
      BY <3>2, <3>3
    <3> QED
      BY <3>2, <3>4
  <2>2. s[1] # s[2] /\ K.priority[s[1]] <= K.priority[s[2]]
    BY <1>1, <2>1 DEF Once, Sorted
  <2>3. K.priority[s[2]] < K.priority[s[1]]
    BY <1>5, <1>7, <1>9, <2>1, <2>2 DEF LastOf
  <2>4. K.priority[s[1]] \in Int /\ K.priority[s[2]] \in Int
    <3>1. K.priority[s[1]] \in Priority /\ K.priority[s[2]] \in Priority
      BY <1>2, <2>1
    <3>2. Priority \subseteq Int
      <4>1. 0 .. 255 \subseteq Int
        OBVIOUS
      <4> QED
        BY <4>1 DEF Priority, NoPriority
    <3> QED
      BY <3>1, <3>2
  <2> QED
    BY <2>2, <2>3, <2>4
<1>10. op[w].mode = "timed" => P.waiters[h] = << >>
  BY <1>9
<1>11. /\ KernelCore(P)
       /\ w \in Task /\ w # NULL /\ OnList(K, w, h)
       /\ P.state = K.state /\ P.priority = K.priority /\ P.late = K.late
       /\ P.delay_ticks = K.delay_ticks /\ P.wait_list_head = K.wait_list_head
       /\ P.g_next_task = K.g_next_task
       /\ P.s_task_count = K.s_task_count /\ P.g_current_task = K.g_current_task
  BY <1>3, <1>4, <1>6
<1> QED
  BY <1>7, <1>8, <1>10, <1>11 DEF P, w

(* PeerList is the other direction's list.                                 *)
LEMMA PeersList ==
    ASSUME NEW d \in Direction
    PROVE  /\ PeerList(d) \in WaitList
           /\ \A e \in Direction : OwnList(e) \in WaitList
           /\ \A e \in Direction : e # d <=> OwnList(e) = PeerList(d)
BY QueueAssumption DEF Direction, OwnList, PeerList

(* Nobody waits for what the caller has made possible: the call returns.   *)
LEMMA TransferAloneInv ==
    ASSUME QueueInv, QueueBase', NEW t \in Task, Transfer(t),
           k.waiters[PeerList(op[t].dir)] = << >>
    PROVE  QueueInv'
<1> DEFINE d == op[t].dir
<1>0. QueueBase /\ Queued /\ MoversFor(k) /\ KernelTypeOK(k) /\ Decided(k) /\ RingInv
  BY QueueFacts DEF QueueInv, Queued, QueueBase
<1>1. /\ Runs(t) /\ pc[t] = "q_try" /\ Possible(d) /\ Move(d, op[t].item)
      /\ Return(t) /\ k' = Finished(k, t)
  BY DEF Transfer, FirstWaiter
<1>2. k.state[t] # "BLOCKED" /\ d \in Direction
  BY <1>0, <1>1, QueueFacts, QueueLabels DEF QueueBase, CallsInv
<1>3. pc' = [pc EXCEPT ![t] = "user"] /\ op' = [op EXCEPT ![t] = NoOp] /\ NoOp.waiter = NULL
  BY <1>1 DEF Return, Goto, NoOp
<1>4. /\ k'.state = k.state /\ k'.delay_ticks = k.delay_ticks
      /\ k'.priority = k.priority /\ k'.waiters = k.waiters
      /\ \A u \in Task : u # t => k'.wait_list_head[u] = k.wait_list_head[u]
      /\ Decided(k')
  <2>1. \/ k' = Finished(k, t)
        \/ k' = [k EXCEPT !.timed_out[t] = FALSE, !.wait_list_head[t] = NULL]
    BY <1>1
  <2>2. KernelTypeOK(k) /\ Decided(k)
    BY <1>0
  <2> QED
    BY <2>1, <2>2, FinishedQuiet
<1>5. LeavesWaits(t, "user", NoOp)
  BY <1>3, <1>4 DEF LeavesWaits
<1>6. Queued'
  BY <1>0, <1>1, <1>2, <1>5, LeavesQueued
<1>7. op[t].waiter = NULL
  BY <1>0, <1>1 DEF Queued, Wakers
<1>8. /\ \A u \in Task : pc'[u] = IF u = t THEN "user" ELSE pc[u]
      /\ \A u \in Task : op'[u] = IF u = t THEN NoOp ELSE op[u]
      /\ \A u \in Task : op'[u].waiter = op[u].waiter
      /\ \A u \in Task : Popped(u)' <=> Popped(u)
  <2>1. /\ QueueBase /\ op[t].waiter = NULL /\ NoOp.waiter = NULL
        /\ pc' = [pc EXCEPT ![t] = "user"] /\ op' = [op EXCEPT ![t] = NoOp]
    BY <1>0, <1>3, <1>7
  <2> QED
    BY <2>1, OthersKept
<1>9. \A dir : \A u \in Task : u # t /\ Mover(k, u, dir) => Mover(k, u, dir)'
  BY <1>4, <1>8 DEF Mover
<1>10. \A e \in Direction : e # d =>
          /\ \A u \in Task : Mover(k, u, e) => Mover(k, u, e)'
          /\ k'.waiters[OwnList(e)] # << >> =>
                t \in Task /\ ~Mover(k, t, e) /\ Mover(k, t, e)'
  <2> SUFFICES ASSUME NEW e \in Direction, e # d
               PROVE  /\ \A u \in Task : Mover(k, u, e) => Mover(k, u, e)'
                      /\ k'.waiters[OwnList(e)] = << >>
    OBVIOUS
  <2>1. \A u \in Task : Mover(k, u, e) => u # t
    BY DEF Mover
  <2>2. k'.waiters[OwnList(e)] = << >>
    BY <1>2, <1>4, PeersList
  <2> QED
    BY <1>9, <2>1, <2>2
<1>11. MoversFor(k)'
  BY <1>0, <1>1, <1>2, <1>4, <1>9, <1>10, MoveMovers
<1> QED
  BY <1>6, <1>11 DEF QueueInv

(* The first waiter of the other direction is taken off its list.          *)
LEMMA TransferPopInv ==
    ASSUME QueueInv, QueueBase', NEW t \in Task, Transfer(t),
           NEW d \in Direction, d = op[t].dir, k.waiters[PeerList(d)] # << >>,
           NEW w \in Task, w = FirstWaiter(k, PeerList(d))
    PROVE  QueueInv'
<1> DEFINE h == PeerList(d)
           c == [NoOp EXCEPT !.mode = op[t].mode, !.waiter = w]
<1>0. /\ QueueBase /\ Queued /\ MoversFor(k) /\ RingInv /\ Decided(k) /\ LastOf(k.priority)
      /\ Wakers(k) /\ WaitModes(k) /\ ListsExact(k) /\ KernelCore(k)
  BY QueueFacts DEF QueueInv, Queued, QueueBase
<1>1. Runs(t) /\ pc[t] = "q_try" /\ Possible(d) /\ Move(d, op[t].item)
  BY DEF Transfer
<1>2. /\ k.state[t] # "BLOCKED" /\ d \in Direction /\ h \in WaitList /\ ~Popped(t)
      /\ op[t].waiter = NULL /\ op \in [Task -> OpRecord] /\ pc \in [Task -> QueuePc]
  BY <1>0, <1>1, PoppedSleeps, QueueFacts, QueueLabels DEF QueueBase, CallsInv, Wakers
<1> DEFINE P == wq_pop(k, h)
<1>3. /\ KernelCore(P)
      /\ w \in Task /\ w # NULL /\ OnList(k, w, h)
      /\ P.state = k.state /\ P.priority = k.priority /\ P.late = k.late
      /\ P.delay_ticks = k.delay_ticks /\ P.wait_list_head = k.wait_list_head
      /\ P.g_next_task = k.g_next_task
      /\ P.s_task_count = k.s_task_count /\ P.g_current_task = k.g_current_task
      /\ \A g \in WaitList : Once(P.waiters[g]) /\ Sorted(P.waiters[g], k.priority)
      /\ \A g \in WaitList, u \in Task :
            u \in ToSet(P.waiters[g]) <=> OnList(k, u, g) /\ u # w
      /\ \A g \in WaitList : P.waiters[g] # << >> => k.waiters[g] # << >>
      /\ op[w].mode \in {"block", "timed"}
      /\ op[w].mode = "timed" => P.waiters[h] = << >>
      /\ op[w].mode = "block" => pc[w] = "q_try"
  <2>1. KernelCore(k) /\ ListsExact(k) /\ WaitModes(k) /\ LastOf(k.priority) /\ h \in WaitList
    BY <1>0, <1>2
  <2> HIDE DEF h
  <2> QED
    BY <2>1, PopWaiter DEF h
<1>4. k' = P /\ op' = [op EXCEPT ![t] = c] /\ pc' = [pc EXCEPT ![t] = "q_wake"]
  BY <1>3 DEF Transfer, Goto
<1>5. c.waiter = w /\ c.dir = NULL
  BY DEF NoOp
<1> HIDE DEF P, c, h
<1>6. /\ \A u \in Task : pc'[u] = IF u = t THEN "q_wake" ELSE pc[u]
      /\ \A u \in Task : op'[u] = IF u = t THEN c ELSE op[u]
      /\ w # t /\ k.state[w] = "BLOCKED" /\ pc[w] \in {"q_try", "q_check"} /\ ~Popped(w)
      /\ OwnList(op[w].dir) = h
  BY <1>2, <1>3, <1>4 DEF OnList
<1>7. \A u \in Task : Popped(u)' <=> Popped(u) \/ u = w
  <2> SUFFICES ASSUME NEW u \in Task
               PROVE  Popped(u)' <=> Popped(u) \/ u = w
    OBVIOUS
  <2>1. u # NULL
    BY <1>0, QueueFacts
  <2> QED
    BY <1>2, <1>5, <1>6, <2>1 DEF Popped
<1>8. Decided(k') /\ LastOf(k.priority)'
  BY <1>0, <1>3, <1>4 DEF Decided, NobodyPaused, LastOf
<1>9. Wakers(k)'
  <2>1. \A u \in Task : op'[u].waiter # NULL => pc'[u] = "q_wake"
    BY <1>0, <1>6 DEF Wakers
  <2>2. ASSUME NEW u \in Task, NEW v \in Task, op'[u].waiter = op'[v].waiter,
               op'[u].waiter # NULL, u # v
        PROVE  FALSE
    <3>1. \A z \in Task : z # t => op[z].waiter # w
      BY <1>6 DEF Popped
    <3>2. u # t /\ v # t
      BY <1>5, <1>6, <2>2, <3>1
    <3> QED
      BY <1>0, <1>6, <2>2, <3>2 DEF Wakers
  <2>3. ASSUME NEW u \in Task, Popped(u)'
        PROVE  /\ pc'[u] \in {"q_try", "q_check"}
               /\ pc'[u] = "q_try" => k'.state[u] = "BLOCKED"
    <3>1. u # t
      BY <1>2, <1>6, <1>7, <2>3
    <3>2. CASE u = w
      BY <1>3, <1>4, <1>6, <3>2
    <3>3. CASE u # w
      BY <1>0, <1>3, <1>4, <1>6, <1>7, <2>3, <3>1, <3>3 DEF Wakers
    <3> QED
      BY <3>2, <3>3
  <2> QED
    BY <2>1, <2>2, <2>3 DEF Wakers
<1>10. WaitModes(k)'
  <2> SUFFICES ASSUME NEW u \in Task
               PROVE  /\ pc'[u] = "q_check" => op'[u].mode = "timed"
                      /\ pc'[u] \in {"q_try", "q_check"} /\ op'[u].mode = "timed" =>
                            u \in TimedCaller
                      /\ pc'[u] = "q_try" /\ k'.state[u] = "BLOCKED" => op'[u].mode = "block"
                      /\ pc'[u] \in {"q_wake", "q_trigger"} => k'.state[u] # "BLOCKED"
                      /\ pc'[u] = "q_try" => k'.delay_ticks[u] = 0
                      /\ pc'[u] = "q_check" /\ k'.state[u] = "BLOCKED" =>
                            k'.wait_list_head[u] = OwnList(op'[u].dir)
                      /\ k'.delay_ticks[u] # 0 => k'.state[u] = "BLOCKED"
    BY DEF WaitModes, OwnList
  <2>1. CASE u = t
    <3>1. k.delay_ticks[t] = 0
      BY <1>0, <1>1 DEF WaitModes
    <3> QED
      BY <1>2, <1>3, <1>4, <1>6, <2>1, <3>1
  <2>2. CASE u # t
    BY <1>0, <1>3, <1>4, <1>6, <2>2 DEF WaitModes
  <2> QED
    BY <2>1, <2>2
<1>11. ListsExact(k)'
  <2>1. ASSUME NEW u \in Task, NEW g \in WaitList
        PROVE  OnList(k, u, g)' <=> OnList(k, u, g) /\ u # w
    BY <1>2, <1>3, <1>4, <1>6, <1>7 DEF OnList, OwnList
  <2>2. ASSUME NEW g \in WaitList
        PROVE  /\ Once(k'.waiters[g]) /\ Sorted(k'.waiters[g], k'.priority)
               /\ \A u \in Task : u \in ToSet(k'.waiters[g]) <=> OnList(k, u, g)'
    BY <1>3, <1>4, <2>1
  <2> QED
    BY <2>2 DEF ListsExact
<1>12. MoversFor(k)'
  <2>1. \A dir \in Direction :
           k'.waiters[OwnList(dir)] # << >> => k.waiters[OwnList(dir)] # << >>
    BY <1>2, <1>3, <1>4, PeersList
  <2>2. \A dir : \A u \in Task : u # t /\ Mover(k, u, dir) => Mover(k, u, dir)'
    BY <1>3, <1>4, <1>6, <1>7 DEF Mover
  <2>3. ASSUME NEW e \in Direction, e # d
        PROVE  /\ \A u \in Task : Mover(k, u, e) => Mover(k, u, e)'
               /\ k'.waiters[OwnList(e)] # << >> =>
                     w \in Task /\ ~Mover(k, w, e) /\ Mover(k, w, e)'
    <3>1. \A u \in Task : Mover(k, u, e) => u # t
      BY <2>3 DEF Mover
    <3>2. OwnList(e) = h
      BY <1>2, <2>3, PeersList DEF h
    <3>3. ASSUME k'.waiters[OwnList(e)] # << >>
          PROVE  w \in Task /\ ~Mover(k, w, e) /\ Mover(k, w, e)'
      <4>1. op[w].mode = "block" /\ pc[w] = "q_try"
        BY <1>3, <1>4, <3>2, <3>3
      <4>2. op[w].dir = e
        <5>1. op[w].dir \in Direction
          BY <1>0, <1>3, <4>1 DEF QueueBase, CallsInv
        <5> QED
          BY <1>6, <3>2, <5>1, QueueAssumption DEF OwnList, Direction
      <4>3. ~Mover(k, w, e)
        BY <1>6 DEF Mover
      <4>4. Popped(w)' /\ op'[w] = op[w] /\ pc'[w] = pc[w]
        BY <1>3, <1>6, <1>7
      <4>5. Mover(k, w, e)'
        BY <4>1, <4>2, <4>4 DEF Mover
      <4> QED
        BY <1>3, <4>3, <4>5
    <3> QED
      BY <2>2, <3>1, <3>3
  <2> DEFINE x == op[t].item
  <2>4. RingInv /\ MoversFor(k) /\ d \in Direction /\ Possible(d) /\ Move(d, x)
    BY <1>0, <1>1, <1>2
  <2>5. \A u \in Task : u # t /\ Mover(k, u, d) => Mover(k, u, d)'
    BY <2>2
  <2> HIDE DEF x
  <2> QED
    BY <2>1, <2>3, <2>4, <2>5, MoveMovers
<1> QED
  BY <1>8, <1>9, <1>10, <1>11, <1>12 DEF QueueInv, Queued

(* The critical section when the item can be moved.                        *)
LEMMA TransferInv ==
    ASSUME QueueInv, RingInv', NEW t \in Task, Transfer(t)
    PROVE  QueueInv'
<1>1. QueueBase'
  BY TransferBase DEF QueueInv
<1>2. CASE k.waiters[PeerList(op[t].dir)] = << >>
  BY <1>1, <1>2, TransferAloneInv
<1>3. CASE k.waiters[PeerList(op[t].dir)] # << >>
  <2>1. PICK d \in Direction : d = op[t].dir
    BY DEF QueueInv, QueueBase, CallsInv, Transfer
  <2>2. PeerList(d) \in WaitList /\ KernelCore(k)
    BY PeersList, QueueFacts DEF QueueInv
  <2>3. FirstWaiter(k, PeerList(d)) \in Task
    BY <1>3, <2>1, <2>2 DEF FirstWaiter, KernelCore, KernelTypeOK
  <2>4. PICK w \in Task : w = FirstWaiter(k, PeerList(d))
    BY <2>3
  <2> QED
    BY <1>1, <1>3, <2>1, <2>4, TransferPopInv
<1> QED
  BY <1>2, <1>3

(* The critical section of sched_wake_task ends in a decision.             *)
LEMMA WakeLockedDecided ==
    ASSUME NEW K, KernelCore(K), NobodyPaused(K), NEW w \in Task,
           \A h \in WaitList : w \notin ToSet(K.waiters[h]), NEW R, R = WakeLocked(K, w)
    PROVE  Decided(R)
<1>1. Decided(sched_wake_task(K, w))
  BY WakeDecided
<1>2. KernelInv(R)
  BY WakeLockedRuns
<1>3. Decided(TriggerIfSwitch(R))
  BY <1>1 DEF sched_wake_task
<1>4. KernelTypeOK(R)
  BY <1>2 DEF KernelInv, KernelCore
<1>5. LET T == TriggerIfSwitch(R) IN
      T.state = R.state /\ T.late = R.late /\ T.g_next_task = R.g_next_task
  BY <1>4 DEF TriggerIfSwitch, trigger_pendsv, KernelTypeOK
<1> QED
  BY <1>3, <1>5 DEF Decided, NobodyPaused

(* The wake-up of a waiter that was taken off its list: it still sleeps    *)
(* there, or its timeout has ended, and it is on no list.                  *)
LEMMA WakeInv ==
    ASSUME QueueInv, NEW t \in Task, Wake(t)
    PROVE  QueueInv'
<1>0. /\ QueueBase /\ Queued /\ MoversFor(k) /\ Decided(k) /\ LastOf(k.priority)
      /\ Wakers(k) /\ WaitModes(k) /\ ListsExact(k) /\ KernelCore(k) /\ NobodyPaused(k)
  BY QueueFacts DEF QueueInv, Queued, Decided
<1>1. QueueBase'
  BY <1>0, WakeBase
<1>2. pc[t] = "q_wake" /\ op[t].waiter \in Task
  BY <1>0 DEF Wake, QueueBase, CallsInv
<1>3. PICK w \in Task : w = op[t].waiter
  BY <1>2
<1> DEFINE c == [op[t] EXCEPT !.waiter = NULL]
<1>4. /\ op \in [Task -> OpRecord] /\ pc \in [Task -> QueuePc]
      /\ k.delay_ticks \in [Task -> Nat] /\ Task \subseteq Thread /\ NULL \notin Task
  BY <1>0, QueueFacts
<1>5. /\ k' = WakeLocked(k, w) /\ q' = q
      /\ pc' = [pc EXCEPT ![t] = "q_trigger"] /\ op' = [op EXCEPT ![t] = c]
  BY <1>3, <1>4 DEF Wake, Goto
<1>6. c.waiter = NULL
  BY <1>4 DEF OpRecord
<1> HIDE DEF c
<1>7. /\ \A u \in Task : pc'[u] = IF u = t THEN "q_trigger" ELSE pc[u]
      /\ \A u \in Task : op'[u] = IF u = t THEN c ELSE op[u]
  BY <1>4, <1>5
<1>8. /\ Popped(w) /\ pc[w] \in {"q_try", "q_check"} /\ w # t
      /\ \A h \in WaitList : w \notin ToSet(k.waiters[h])
  <2>1. Popped(w)
    BY <1>3 DEF Popped
  <2>2. pc[w] \in {"q_try", "q_check"}
    BY <1>0, <2>1 DEF Wakers
  <2> QED
    BY <1>0, <1>2, <2>1, <2>2 DEF ListsExact, OnList
<1>9. /\ KernelInv(k') /\ k'.pendsv = k.pendsv
      /\ k'.priority = k.priority /\ k'.wait_list_head = k.wait_list_head
      /\ k'.timed_out = k.timed_out /\ k'.waiters = k.waiters
      /\ k'.s_task_count = k.s_task_count /\ k'.g_current_task = k.g_current_task
      /\ k'.delay_ticks = [k.delay_ticks EXCEPT ![w] = 0]
      /\ \A u \in Thread : k'.state[u] = "BLOCKED" <=> u # w /\ k.state[u] = "BLOCKED"
  <2>0. KernelCore(k) /\ \A h \in WaitList : w \notin ToSet(k.waiters[h])
    BY <1>0, <1>8
  <2>1. LET R == WakeLocked(k, w) IN
        /\ KernelInv(R) /\ R.pendsv = k.pendsv
        /\ R.priority = k.priority /\ R.wait_list_head = k.wait_list_head
        /\ R.timed_out = k.timed_out /\ R.waiters = k.waiters
        /\ R.s_task_count = k.s_task_count /\ R.g_current_task = k.g_current_task
        /\ R.delay_ticks = [k.delay_ticks EXCEPT ![w] = 0]
        /\ \A u \in Thread : R.state[u] = "BLOCKED" <=> u # w /\ k.state[u] = "BLOCKED"
    BY <2>0, WakeDecides, SMTT(20)
  <2> QED
    BY <1>5, <2>1
<1>10. Decided(k')
  <2>1. \A h \in WaitList : w \notin ToSet(k.waiters[h])
    BY <1>8
  <2> QED
    BY <1>0, <1>5, <2>1, WakeLockedDecided
<1>11. /\ \A u \in Task : k'.delay_ticks[u] = IF u = w THEN 0 ELSE k.delay_ticks[u]
       /\ \A u \in Task : k'.state[u] = "BLOCKED" <=> u # w /\ k.state[u] = "BLOCKED"
  BY <1>4, <1>9
<1>12. \A u \in Task : Popped(u)' <=> Popped(u) /\ u # w
  <2> SUFFICES ASSUME NEW u \in Task
               PROVE  Popped(u)' <=> Popped(u) /\ u # w
    OBVIOUS
  <2>1. CASE u = w
    <3>1. \A v \in Task : op[v].waiter = w => v = t
      BY <1>0, <1>3, <1>4 DEF Wakers
    <3> QED
      BY <1>4, <1>6, <1>7, <2>1, <3>1 DEF Popped
  <2>2. CASE u # w
    BY <1>3, <1>4, <1>6, <1>7, <2>2 DEF Popped
  <2> QED
    BY <2>1, <2>2
<1>13. LastOf(k.priority)'
  BY <1>0, <1>9 DEF LastOf
<1>14. Wakers(k)'
  <2>1. \A u \in Task : op'[u].waiter # NULL => u # t /\ op'[u] = op[u]
    BY <1>6, <1>7
  <2>2. \A u \in Task : op'[u].waiter # NULL => pc'[u] = "q_wake"
    BY <1>0, <1>7, <2>1 DEF Wakers
  <2>3. \A u, v \in Task : op'[u].waiter = op'[v].waiter /\ op'[u].waiter # NULL => u = v
    BY <1>0, <2>1 DEF Wakers
  <2>4. ASSUME NEW u \in Task, Popped(u)'
        PROVE  /\ pc'[u] \in {"q_try", "q_check"}
               /\ pc'[u] = "q_try" => k'.state[u] = "BLOCKED"
    <3>1. Popped(u) /\ u # w
      BY <1>12, <2>4
    <3>2. /\ pc[u] \in {"q_try", "q_check"}
          /\ pc[u] = "q_try" => k.state[u] = "BLOCKED"
      BY <1>0, <3>1 DEF Wakers
    <3> QED
      BY <1>2, <1>7, <1>11, <3>1, <3>2
  <2> QED
    BY <2>2, <2>3, <2>4 DEF Wakers
<1>15. WaitModes(k)'
  <2> SUFFICES ASSUME NEW u \in Task
               PROVE  /\ pc'[u] = "q_check" => op'[u].mode = "timed"
                      /\ pc'[u] \in {"q_try", "q_check"} /\ op'[u].mode = "timed" =>
                            u \in TimedCaller
                      /\ pc'[u] = "q_try" /\ k'.state[u] = "BLOCKED" => op'[u].mode = "block"
                      /\ pc'[u] \in {"q_wake", "q_trigger"} => k'.state[u] # "BLOCKED"
                      /\ pc'[u] = "q_try" => k'.delay_ticks[u] = 0
                      /\ pc'[u] = "q_check" /\ k'.state[u] = "BLOCKED" =>
                            k'.wait_list_head[u] = OwnList(op'[u].dir)
                      /\ k'.delay_ticks[u] # 0 => k'.state[u] = "BLOCKED"
    BY DEF WaitModes, OwnList
  <2>1. CASE u = t
    <3>1. k.delay_ticks[t] = 0 /\ k.state[t] # "BLOCKED"
      BY <1>0, <1>2 DEF WaitModes
    <3> QED
      BY <1>7, <1>8, <1>11, <2>1, <3>1
  <2>2. CASE u # t
    <3>1. op'[u] = op[u] /\ pc'[u] = pc[u]
      BY <1>7, <2>2
    <3> QED
      BY <1>0, <1>9, <1>11, <3>1 DEF WaitModes
  <2> QED
    BY <2>1, <2>2
<1>16. ListsExact(k)'
  <2>1. \A u \in Task, g \in WaitList : OnList(k, u, g)' <=> OnList(k, u, g)
    BY <1>2, <1>7, <1>8, <1>11, <1>12 DEF OnList, OwnList
  <2> QED
    BY <1>0, <1>9, <2>1 DEF ListsExact
<1>17. MoversFor(k)'
  <2>1. ASSUME NEW dir \in Direction, NEW u \in Task, Mover(k, u, dir)
        PROVE  Mover(k, u, dir)'
    <3>1. u # t
      BY <1>2, <2>1 DEF Mover
    <3>2. op'[u] = op[u] /\ pc'[u] = pc[u]
      BY <1>7, <3>1
    <3>3. Popped(u)' \/ k'.state[u] # "BLOCKED"
      BY <1>11, <1>12, <2>1 DEF Mover
    <3> QED
      BY <2>1, <3>2, <3>3 DEF Mover
  <2>2. \A dir \in Direction :
           k'.waiters[OwnList(dir)] # << >> => k.waiters[OwnList(dir)] # << >>
    BY <1>9
  <2> QED
    BY <1>0, <1>5, <2>1, <2>2, MoversKept
<1> QED
  BY <1>1, <1>10, <1>13, <1>14, <1>15, <1>16, <1>17 DEF QueueInv, Queued

(* The scheduler's own steps.                                              *)
LEMMA QueueSchedInv ==
    ASSUME QueueInv, Pausable = {}, [SchedNext]_schedVars, UNCHANGED queueVars
    PROVE  QueueInv'
<1>0. /\ QueueBase /\ Queued /\ MoversFor(k) /\ Decided(k) /\ LastOf(k.priority)
      /\ Wakers(k) /\ WaitModes(k) /\ ListsExact(k) /\ KernelTypeOK(k)
  BY QueueFacts DEF QueueInv, Queued
<1>1. q' = q /\ op' = op
  BY DEF queueVars
<1>2. QueueBase'
  BY <1>0, QueueSchedBase
<1>3. /\ SchedCore /\ SchedLabel \subseteq QueuePc /\ pc \in [Task -> QueuePc]
      /\ SchedTriggers \subseteq QueueTriggers
      /\ "user" \notin QueueTriggers /\ "delay_wait" \notin QueueTriggers
      /\ SwitchAt(QueueTriggers) /\ NoStrayDelay /\ NextRuns
  BY <1>0, QueueLabels DEF QueueBase, WaitModes, NoStrayDelay, NextRuns, Decided
<1>4. k'.priority = k.priority
  BY <1>3, SchedSteps
<1>5. /\ NoStrayDelay'
      /\ \A u \in Task : pc[u] \notin SchedLabel => StaysWaiting(u) \/ TimesOut(u)
      /\ \A h \in WaitList : /\ SubList(k'.waiters[h], k.waiters[h])
                             /\ ToSet(k'.waiters[h]) \subseteq ToSet(k.waiters[h])
      /\ \A u \in Task : pc[u] \in SchedLabel => pc'[u] \in SchedLabel
  BY <1>3, SchedWaiting
<1>6. Decided(k')
  <2>1. NextRuns' /\ k'.late \subseteq k.late
    BY <1>3, SchedRuns
  <2> QED
    BY <1>0, <2>1 DEF Decided, NextRuns
<1>7. \A u \in Task : Popped(u)' <=> Popped(u)
  BY <1>1 DEF Popped
<1>8. ASSUME NEW u \in Task
      PROVE  IF pc[u] \in SchedLabel THEN pc'[u] \in SchedLabel
             ELSE /\ pc'[u] = pc[u]
                  /\ StaysWaiting(u)
                     \/ (pc[u] = "q_check" /\ TimesOut(u))
  <2>1. CASE pc[u] \in SchedLabel
    BY <1>5, <2>1
  <2>2. CASE pc[u] \notin SchedLabel
    <3>1. StaysWaiting(u) \/ TimesOut(u)
      BY <1>5, <2>2
    <3>2. pc[u] \in QueueLabel
      BY <1>3, <2>2 DEF QueuePc
    <3>3. TimesOut(u) => pc[u] = "q_check"
      BY <1>0, <3>2 DEF TimesOut, WaitModes, QueueLabel
    <3> QED
      BY <2>2, <3>1, <3>3 DEF StaysWaiting, TimesOut
  <2> QED
    BY <2>1, <2>2
<1>9. \A u \in Task : pc'[u] \in QueueLabel => pc[u] = pc'[u] /\ pc[u] \notin SchedLabel
  BY <1>8, QueueLabels
<1>10. \A u \in Task : pc[u] = "q_try" => StaysWaiting(u)
  BY <1>8, QueueLabels DEF QueueLabel
<1>11. LastOf(k.priority)'
  BY <1>0, <1>4 DEF LastOf
<1>12. Wakers(k)'
  <2>1. ASSUME NEW u \in Task, pc[u] \in QueueLabel
        PROVE  pc'[u] = pc[u]
    BY <1>8, <2>1, QueueLabels
  <2>2. \A u \in Task : op'[u].waiter # NULL => pc'[u] = "q_wake"
    BY <1>0, <1>1, <2>1 DEF Wakers, QueueLabel
  <2>3. ASSUME NEW u \in Task, Popped(u)'
        PROVE  /\ pc'[u] \in {"q_try", "q_check"}
               /\ pc'[u] = "q_try" => k'.state[u] = "BLOCKED"
    <3>1. /\ pc[u] \in {"q_try", "q_check"}
          /\ pc[u] = "q_try" => k.state[u] = "BLOCKED"
      BY <1>0, <1>7, <2>3 DEF Wakers
    <3>2. pc'[u] = pc[u]
      BY <2>1, <3>1 DEF QueueLabel
    <3> QED
      BY <1>10, <3>1, <3>2 DEF StaysWaiting
  <2> QED
    BY <1>0, <1>1, <2>2, <2>3 DEF Wakers
<1>13. WaitModes(k)'
  <2> SUFFICES ASSUME NEW u \in Task
               PROVE  /\ pc'[u] = "q_check" => op'[u].mode = "timed"
                      /\ pc'[u] \in {"q_try", "q_check"} /\ op'[u].mode = "timed" =>
                            u \in TimedCaller
                      /\ pc'[u] = "q_try" /\ k'.state[u] = "BLOCKED" => op'[u].mode = "block"
                      /\ pc'[u] \in {"q_wake", "q_trigger"} => k'.state[u] # "BLOCKED"
                      /\ pc'[u] = "q_try" => k'.delay_ticks[u] = 0
                      /\ pc'[u] = "q_check" /\ k'.state[u] = "BLOCKED" =>
                            k'.wait_list_head[u] = OwnList(op'[u].dir)
                      /\ k'.delay_ticks[u] # 0 => k'.state[u] = "BLOCKED"
    BY DEF WaitModes, OwnList
  <2>1. k'.delay_ticks[u] # 0 => k'.state[u] = "BLOCKED"
    BY <1>5 DEF NoStrayDelay
  <2>2. CASE pc'[u] \in QueueLabel
    <3>1. pc'[u] = pc[u] /\ op'[u] = op[u] /\ (StaysWaiting(u) \/ TimesOut(u))
      BY <1>1, <1>5, <1>9, <2>2
    <3>2. pc[u] = "q_try" => StaysWaiting(u)
      BY <1>10
    <3>3. TimesOut(u) => k'.state[u] # "BLOCKED"
      BY DEF TimesOut
    <3> QED
      BY <1>0, <2>1, <3>1, <3>2, <3>3 DEF WaitModes, StaysWaiting
  <2>3. CASE pc'[u] \notin QueueLabel
    BY <2>1, <2>3 DEF QueueLabel
  <2> QED
    BY <2>2, <2>3
<1>14. ListsExact(k)'
  <2> SUFFICES ASSUME NEW h \in WaitList
               PROVE  /\ Once(k'.waiters[h]) /\ Sorted(k'.waiters[h], k'.priority)
                      /\ \A u \in Task : u \in ToSet(k'.waiters[h]) <=> OnList(k, u, h)'
    BY DEF ListsExact
  <2>1. /\ Once(k.waiters[h]) /\ Sorted(k.waiters[h], k.priority)
        /\ \A u \in Task : u \in ToSet(k.waiters[h]) <=> OnList(k, u, h)
    BY <1>0 DEF ListsExact
  <2>2. /\ k.waiters[h] \in Seq(Task) /\ k'.waiters[h] \in Seq(Task)
        /\ k.priority \in [Task -> Priority]
    BY <1>0, <1>2 DEF KernelTypeOK, QueueBase, SchedCore, KernelInv, KernelCore
  <2>3. Once(k'.waiters[h]) /\ Sorted(k'.waiters[h], k'.priority)
    BY <1>4, <1>5, <2>1, <2>2, SubListKeeps
  <2>4. ASSUME NEW u \in Task
        PROVE  u \in ToSet(k'.waiters[h]) <=> OnList(k, u, h)'
    <3>1. CASE pc[u] \in SchedLabel
      <4>1. pc[u] \notin {"q_try", "q_check"} /\ pc'[u] \notin {"q_try", "q_check"}
        BY <1>8, <3>1, QueueLabels DEF QueueLabel
      <4>2. ~OnList(k, u, h) /\ ~OnList(k, u, h)'
        BY <4>1 DEF OnList
      <4> QED
        BY <1>5, <2>1, <4>2
    <3>2. CASE StaysWaiting(u)
      <4>1. OnList(k, u, h)' <=> OnList(k, u, h)
        BY <1>1, <1>7, <3>2 DEF OnList, StaysWaiting, OwnList
      <4> QED
        BY <2>1, <3>2, <4>1 DEF StaysWaiting
    <3>3. CASE pc[u] = "q_check" /\ TimesOut(u)
      <4>1. ~OnList(k, u, h)'
        BY <3>3 DEF OnList, TimesOut
      <4>2. OnList(k, u, h) => k.wait_list_head[u] = h
        BY <1>0, <3>3 DEF OnList, WaitModes
      <4> QED
        BY <2>1, <3>3, <4>1, <4>2 DEF TimesOut
    <3> QED
      BY <1>8, <3>1, <3>2, <3>3
  <2> QED
    BY <2>3, <2>4
<1>15. MoversFor(k)'
  <2>1. ASSUME NEW dir \in Direction, NEW u \in Task, Mover(k, u, dir)
        PROVE  Mover(k, u, dir)'
    BY <1>1, <1>7, <1>10, <2>1 DEF Mover, StaysWaiting
  <2>2. ASSUME NEW dir \in Direction, k'.waiters[OwnList(dir)] # << >>
        PROVE  k.waiters[OwnList(dir)] # << >>
    <3>1. OwnList(dir) \in WaitList
      BY <1>0, QueueFacts
    <3> DEFINE h == OwnList(dir)
    <3>2. k'.waiters[h] \in Seq(Task)
      BY <1>2, <3>1 DEF KernelTypeOK, QueueBase, SchedCore, KernelInv, KernelCore
    <3>3. 1 \in DOMAIN k'.waiters[h]
      BY <2>2, <3>2
    <3>4. k'.waiters[h][1] \in ToSet(k.waiters[h])
      BY <1>5, <3>1, <3>3 DEF ToSet
    <3> QED
      BY <3>4 DEF ToSet
  <2> QED
    BY <1>0, <1>1, <2>1, <2>2, MoversKept
<1> QED
  BY <1>2, <1>6, <1>11, <1>12, <1>13, <1>14, <1>15 DEF QueueInv, Queued

(* The tick alone, on the way to a call from the interrupt.                *)
LEMMA TickQueued ==
    ASSUME QueueInv, NEW r, r = sched_tick_n(k, 1)
    PROVE  /\ KernelCore(r) /\ Decided(r) /\ LastOf(r.priority)
           /\ Wakers(r) /\ WaitModes(r) /\ ListsExact(r) /\ MoversFor(r)
<1> DEFINE C == CountDown(k, 1)
<1>0. /\ Decided(k) /\ NobodyPaused(k) /\ LastOf(k.priority) /\ Wakers(k) /\ WaitModes(k)
      /\ ListsExact(k) /\ MoversFor(k) /\ KernelCore(k) /\ KernelTypeOK(k)
      /\ k.s_task_count = TASK_MAX /\ Task \subseteq Thread
      /\ k.delay_ticks \in [Task -> Nat]
      /\ \A dir : OwnList(dir) \in WaitList
  BY QueueFacts DEF QueueInv, Queued, Decided
<1>1. /\ KernelInv(r)
      /\ SameWaits(C, r)
      /\ r.g_current_task = k.g_current_task
      /\ r.g_next_task # r.g_current_task => r.pendsv
  BY <1>0, TickDecides
<1>2. Decided(r)
  BY <1>0, TickDecided
<1>3. /\ C.s_task_count = k.s_task_count /\ C.priority = k.priority
      /\ C.g_current_task = k.g_current_task
      /\ \A t \in Task :
            IF t \in Expired(k, 1)
            THEN /\ C.state[t] = "READY" /\ C.delay_ticks[t] = 0
                 /\ C.wait_list_head[t] = NULL
            ELSE /\ C.state[t] = k.state[t]
                 /\ C.delay_ticks[t] =
                      IF t \in Created(k) /\ k.state[t] = "BLOCKED" /\ k.delay_ticks[t] > 1
                      THEN k.delay_ticks[t] - 1 ELSE k.delay_ticks[t]
                 /\ C.wait_list_head[t] = k.wait_list_head[t]
                 /\ C.timed_out[t] <=> k.timed_out[t]
      /\ \A h \in WaitList :
            /\ C.waiters[h] \in Seq(Task)
            /\ SubList(C.waiters[h], k.waiters[h])
            /\ ToSet(C.waiters[h]) =
                 ToSet(k.waiters[h]) \ {t \in Expired(k, 1) : k.wait_list_head[t] = h}
  BY <1>0, CountDownWaits
<1> HIDE DEF C
<1>4. /\ r.priority = k.priority /\ r.waiters = C.waiters
      /\ r.delay_ticks = C.delay_ticks /\ r.wait_list_head = C.wait_list_head
      /\ \A t \in Task : r.state[t] = "BLOCKED" <=> C.state[t] = "BLOCKED"
  BY <1>0, <1>1, <1>3 DEF SameWaits
<1>5. \A t \in Task : t \in Expired(k, 1) => k.state[t] = "BLOCKED" /\ k.delay_ticks[t] # 0
  BY DEF Expired
<1>6. ASSUME NEW t \in Task, t \in Expired(k, 1)
      PROVE  /\ r.state[t] # "BLOCKED" /\ r.delay_ticks[t] = 0
             /\ pc[t] # "q_try" /\ pc[t] # "q_wake" /\ pc[t] # "q_trigger"
  <2>1. C.state[t] = "READY" /\ C.delay_ticks[t] = 0
    BY <1>3, <1>6
  <2>2. pc[t] # "q_try" /\ pc[t] # "q_wake" /\ pc[t] # "q_trigger"
    BY <1>0, <1>5, <1>6 DEF WaitModes
  <2> QED
    BY <1>4, <2>1, <2>2
<1>7. ASSUME NEW t \in Task, t \notin Expired(k, 1)
      PROVE  /\ r.state[t] = "BLOCKED" <=> k.state[t] = "BLOCKED"
             /\ r.wait_list_head[t] = k.wait_list_head[t]
             /\ k.delay_ticks[t] = 0 => r.delay_ticks[t] = 0
  <2>1. k.delay_ticks[t] = 0 => r.delay_ticks[t] = 0
    <3> SUFFICES ASSUME k.delay_ticks[t] = 0
                 PROVE  r.delay_ticks[t] = 0
      OBVIOUS
    <3>1. ~(k.delay_ticks[t] > 1)
      OBVIOUS
    <3> QED
      BY <1>3, <1>4, <1>7, <3>1
  <2> QED
    BY <1>3, <1>4, <1>7, <2>1
<1>8. LastOf(r.priority)
  BY <1>0, <1>4
<1>9. Wakers(r)
  <2>1. \A t \in Task : Popped(t) /\ pc[t] = "q_try" => r.state[t] = "BLOCKED"
    BY <1>0, <1>6, <1>7 DEF Wakers
  <2> QED
    BY <1>0, <2>1 DEF Wakers
<1>10. WaitModes(r)
  <2> SUFFICES ASSUME NEW u \in Task
               PROVE  /\ pc[u] = "q_check" => op[u].mode = "timed"
                      /\ pc[u] \in {"q_try", "q_check"} /\ op[u].mode = "timed" =>
                            u \in TimedCaller
                      /\ pc[u] = "q_try" /\ r.state[u] = "BLOCKED" => op[u].mode = "block"
                      /\ pc[u] \in {"q_wake", "q_trigger"} => r.state[u] # "BLOCKED"
                      /\ pc[u] = "q_try" => r.delay_ticks[u] = 0
                      /\ pc[u] = "q_check" /\ r.state[u] = "BLOCKED" =>
                            r.wait_list_head[u] = OwnList(op[u].dir)
                      /\ r.delay_ticks[u] # 0 => r.state[u] = "BLOCKED"
    BY DEF WaitModes
  <2>1. CASE u \in Expired(k, 1)
    BY <1>0, <1>6, <2>1 DEF WaitModes
  <2>2. CASE u \notin Expired(k, 1)
    BY <1>0, <1>7, <2>2 DEF WaitModes
  <2> QED
    BY <2>1, <2>2
<1>11. ListsExact(r)
  <2> SUFFICES ASSUME NEW h \in WaitList
               PROVE  /\ Once(r.waiters[h]) /\ Sorted(r.waiters[h], r.priority)
                      /\ \A u \in Task : u \in ToSet(r.waiters[h]) <=> OnList(r, u, h)
    BY DEF ListsExact
  <2>1. /\ Once(k.waiters[h]) /\ Sorted(k.waiters[h], k.priority)
        /\ \A u \in Task : u \in ToSet(k.waiters[h]) <=> OnList(k, u, h)
    BY <1>0 DEF ListsExact
  <2>2. /\ k.waiters[h] \in Seq(Task) /\ r.waiters[h] \in Seq(Task)
        /\ k.priority \in [Task -> Priority] /\ SubList(r.waiters[h], k.waiters[h])
    BY <1>0, <1>3, <1>4 DEF KernelTypeOK
  <2>3. Once(r.waiters[h]) /\ Sorted(r.waiters[h], r.priority)
    BY <1>4, <2>1, <2>2, SubListKeeps
  <2>4. ASSUME NEW u \in Task
        PROVE  u \in ToSet(r.waiters[h]) <=> OnList(r, u, h)
    <3>1. u \in ToSet(r.waiters[h]) <=>
             OnList(k, u, h) /\ ~(u \in Expired(k, 1) /\ k.wait_list_head[u] = h)
      BY <1>3, <1>4, <2>1
    <3>2. CASE u \in Expired(k, 1)
      <4>1. OnList(k, u, h) => k.wait_list_head[u] = h
        BY <1>0, <1>6, <3>2 DEF OnList, WaitModes
      <4>2. ~OnList(r, u, h)
        BY <1>6, <3>2 DEF OnList
      <4> QED
        BY <3>1, <3>2, <4>1, <4>2
    <3>3. CASE u \notin Expired(k, 1)
      <4>1. OnList(r, u, h) <=> OnList(k, u, h)
        BY <1>7, <3>3 DEF OnList
      <4> QED
        BY <3>1, <3>3, <4>1
    <3> QED
      BY <3>2, <3>3
  <2> QED
    BY <2>3, <2>4
<1>12. MoversFor(r)
  <2> SUFFICES ASSUME NEW dir \in Direction, r.waiters[OwnList(dir)] # << >>
               PROVE  Movable(dir) <= Cardinality(Movers(r, dir))
    BY DEF MoversFor
  <2>1. Movers(r, dir) = Movers(k, dir)
    <3>1. \A u \in Task : Mover(r, u, dir) <=> Mover(k, u, dir)
      BY <1>6, <1>7 DEF Mover
    <3> QED
      BY <3>1 DEF Movers
  <2>2. k.waiters[OwnList(dir)] # << >>
    <3> DEFINE h == OwnList(dir)
    <3>1. h \in WaitList
      BY <1>0
    <3> HIDE DEF h
    <3>2. r.waiters[h] \in Seq(Task) /\ ToSet(r.waiters[h]) \subseteq ToSet(k.waiters[h])
      BY <1>3, <1>4, <3>1
    <3>3. r.waiters[h] # << >>
      BY DEF h
    <3>4. 1 \in DOMAIN r.waiters[h]
      BY <3>2, <3>3
    <3>5. r.waiters[h][1] \in ToSet(k.waiters[h])
      BY <3>2, <3>4 DEF ToSet
    <3> QED
      BY <3>5 DEF ToSet, h
  <2> QED
    BY <1>0, <2>1, <2>2 DEF MoversFor
<1>13. KernelCore(r)
  BY <1>1 DEF KernelInv
<1> QED
  BY <1>2, <1>8, <1>9, <1>10, <1>11, <1>12, <1>13

(* What is left to show of a step that changes neither calls nor labels.   *)
LEMMA CallsSame ==
    ASSUME QueueBase', pc' = pc, op' = op, Decided(k'), LastOf(k'.priority),
           Wakers(k'), WaitModes(k'), ListsExact(k'), MoversFor(k)'
    PROVE  QueueInv'
<1>1. \A u \in Task : Popped(u)' <=> Popped(u)
  BY DEF Popped
<1>2. Wakers(k)'
  BY <1>1 DEF Wakers
<1>3. WaitModes(k)'
  BY DEF WaitModes, OwnList
<1>4. ListsExact(k)'
  <2>1. \A u \in Task, h \in WaitList : OnList(k, u, h)' <=> OnList(k', u, h)
    BY <1>1 DEF OnList, OwnList
  <2> QED
    BY <2>1 DEF ListsExact
<1>5. LastOf(k.priority)'
  BY DEF LastOf
<1> QED
  BY <1>2, <1>3, <1>4, <1>5 DEF QueueInv, Queued

(* The calls from the tick interrupt, when nobody waits: only the tick ... *)
LEMMA IsrAloneInv ==
    ASSUME QueueInv, QueueBase', NEW d \in Direction, NEW x, IsrMove(d, x),
           NEW r, r = sched_tick_n(k, 1), r.waiters[PeerList(d)] = << >>
    PROVE  QueueInv'
<1>1. /\ k' = r /\ pc' = pc /\ op' = op /\ Possible(d) /\ Move(d, x)
  BY DEF IsrMove, FirstWaiter
<1>2. /\ KernelCore(r) /\ Decided(r) /\ LastOf(r.priority)
      /\ Wakers(r) /\ WaitModes(r) /\ ListsExact(r) /\ MoversFor(r)
  BY TickQueued
<1>3. \A e \in Direction, u \in Task : Mover(r, u, e) => Mover(k, u, e)'
  BY <1>1 DEF Mover, Popped
<1>4. MoversFor(k)'
  <2>1. RingInv
    BY DEF QueueInv, QueueBase
  <2>2. \A e \in Direction : e # d =>
           /\ \A u \in Task : Mover(r, u, e) => Mover(k, u, e)'
           /\ k'.waiters[OwnList(e)] # << >> => 0 \in Task /\ ~Mover(r, 0, e) /\ Mover(k, 0, e)'
    BY <1>1, <1>3, PeersList
  <2>3. \A dir \in Direction :
           k'.waiters[OwnList(dir)] # << >> => r.waiters[OwnList(dir)] # << >>
    BY <1>1
  <2>4. \A u \in Task : u # NULL /\ Mover(r, u, d) => Mover(k, u, d)'
    BY <1>3
  <2> QED
    BY <1>1, <1>2, <2>1, <2>2, <2>3, <2>4, MoveMovers
<1> QED
  BY <1>1, <1>2, <1>4, CallsSame

(* ... and otherwise the first waiter is taken off and woken at once.      *)
LEMMA IsrWakeInv ==
    ASSUME QueueInv, QueueBase', NEW d \in Direction, NEW x, IsrMove(d, x),
           NEW r, r = sched_tick_n(k, 1), r.waiters[PeerList(d)] # << >>,
           NEW w \in Task, w = FirstWaiter(r, PeerList(d))
    PROVE  QueueInv'
<1> DEFINE h == PeerList(d)
           P == wq_pop(r, h)
<1>1. /\ KernelCore(r) /\ Decided(r) /\ LastOf(r.priority)
      /\ Wakers(r) /\ WaitModes(r) /\ ListsExact(r) /\ MoversFor(r)
  BY TickQueued
<1>2. h \in WaitList /\ Task \subseteq Thread /\ w # NULL
  BY PeersList, QueueFacts DEF QueueInv
<1>3. /\ KernelCore(P)
      /\ w \in Task /\ w # NULL /\ OnList(r, w, h)
      /\ P.state = r.state /\ P.priority = r.priority /\ P.late = r.late
      /\ P.delay_ticks = r.delay_ticks /\ P.wait_list_head = r.wait_list_head
      /\ P.g_next_task = r.g_next_task
      /\ P.s_task_count = r.s_task_count /\ P.g_current_task = r.g_current_task
      /\ \A g \in WaitList : Once(P.waiters[g]) /\ Sorted(P.waiters[g], r.priority)
      /\ \A g \in WaitList, u \in Task :
            u \in ToSet(P.waiters[g]) <=> OnList(r, u, g) /\ u # w
      /\ \A g \in WaitList : P.waiters[g] # << >> => r.waiters[g] # << >>
      /\ op[w].mode \in {"block", "timed"}
      /\ op[w].mode = "timed" => P.waiters[h] = << >>
      /\ op[w].mode = "block" => pc[w] = "q_try"
  <2> HIDE DEF h
  <2> QED
    BY <1>1, <1>2, PopWaiter DEF h
<1>4. /\ k' = sched_wake_task(P, w) /\ pc' = pc /\ op' = op /\ Possible(d) /\ Move(d, x)
  BY <1>2 DEF IsrMove
<1> HIDE DEF P, h
<1>5. \A g \in WaitList : w \notin ToSet(P.waiters[g])
  BY <1>3
<1>6. /\ KernelInv(k') /\ (k'.g_next_task # k'.g_current_task => k'.pendsv)
      /\ k'.priority = P.priority /\ k'.wait_list_head = P.wait_list_head
      /\ k'.timed_out = P.timed_out /\ k'.waiters = P.waiters
      /\ k'.s_task_count = P.s_task_count /\ k'.g_current_task = P.g_current_task
      /\ k'.delay_ticks = [P.delay_ticks EXCEPT ![w] = 0]
      /\ \A u \in Thread : k'.state[u] = "BLOCKED" <=> u # w /\ P.state[u] = "BLOCKED"
  <2>1. LET R == sched_wake_task(P, w) IN
        /\ KernelInv(R) /\ (R.g_next_task # R.g_current_task => R.pendsv)
        /\ R.priority = P.priority /\ R.wait_list_head = P.wait_list_head
        /\ R.timed_out = P.timed_out /\ R.waiters = P.waiters
        /\ R.s_task_count = P.s_task_count /\ R.g_current_task = P.g_current_task
        /\ R.delay_ticks = [P.delay_ticks EXCEPT ![w] = 0]
        /\ \A u \in Thread : R.state[u] = "BLOCKED" <=> u # w /\ P.state[u] = "BLOCKED"
    BY <1>3, <1>5, WakeDecides
  <2> QED
    BY <1>4, <2>1
<1>7. Decided(k')
  <2>1. NobodyPaused(P)
    BY <1>1, <1>3 DEF Decided, NobodyPaused
  <2> QED
    BY <1>3, <1>4, <1>5, <2>1, WakeDecided
<1>8. /\ k'.priority = r.priority /\ k'.wait_list_head = r.wait_list_head
      /\ k'.waiters = P.waiters
      /\ \A u \in Task : k'.delay_ticks[u] = IF u = w THEN 0 ELSE r.delay_ticks[u]
      /\ \A u \in Task : k'.state[u] = "BLOCKED" <=> u # w /\ r.state[u] = "BLOCKED"
  <2>1. r.delay_ticks \in [Task -> Nat]
    BY <1>1 DEF KernelCore, KernelTypeOK
  <2> QED
    BY <1>2, <1>3, <1>6, <2>1
<1>9. /\ r.state[w] = "BLOCKED" /\ pc[w] \in {"q_try", "q_check"} /\ ~Popped(w)
      /\ OwnList(op[w].dir) = h
  BY <1>3 DEF OnList
<1>10. Wakers(k')
  <2>1. \A u \in Task : Popped(u) => u # w
    BY <1>9
  <2> QED
    BY <1>1, <1>8, <2>1 DEF Wakers
<1>11. WaitModes(k')
  <2> SUFFICES ASSUME NEW u \in Task
               PROVE  /\ pc[u] = "q_check" => op[u].mode = "timed"
                      /\ pc[u] \in {"q_try", "q_check"} /\ op[u].mode = "timed" =>
                            u \in TimedCaller
                      /\ pc[u] = "q_try" /\ k'.state[u] = "BLOCKED" => op[u].mode = "block"
                      /\ pc[u] \in {"q_wake", "q_trigger"} => k'.state[u] # "BLOCKED"
                      /\ pc[u] = "q_try" => k'.delay_ticks[u] = 0
                      /\ pc[u] = "q_check" /\ k'.state[u] = "BLOCKED" =>
                            k'.wait_list_head[u] = OwnList(op[u].dir)
                      /\ k'.delay_ticks[u] # 0 => k'.state[u] = "BLOCKED"
    BY DEF WaitModes
  <2> QED
    BY <1>1, <1>8 DEF WaitModes
<1>12. ListsExact(k')
  <2>1. \A u \in Task, g \in WaitList : OnList(k', u, g) <=> OnList(r, u, g) /\ u # w
    BY <1>8 DEF OnList
  <2> QED
    BY <1>3, <1>8, <2>1 DEF ListsExact
<1>13. MoversFor(k)'
  <2>1. RingInv
    BY DEF QueueInv, QueueBase
  <2>2. \A dir \in Direction :
           k'.waiters[OwnList(dir)] # << >> => r.waiters[OwnList(dir)] # << >>
    BY <1>3, <1>8, PeersList
  <2>3. \A e \in Direction, u \in Task : Mover(r, u, e) => Mover(k, u, e)'
    BY <1>4, <1>8 DEF Mover, Popped
  <2>4. ASSUME NEW e \in Direction, e # d, k'.waiters[OwnList(e)] # << >>
        PROVE  w \in Task /\ ~Mover(r, w, e) /\ Mover(k, w, e)'
    <3>1. OwnList(e) = h
      BY <2>4, PeersList DEF h
    <3>2. op[w].mode = "block" /\ pc[w] = "q_try"
      BY <1>3, <1>8, <2>4, <3>1
    <3>3. op[w].dir = e
      <4>1. op[w].dir \in Direction
        BY <3>2 DEF QueueInv, QueueBase, CallsInv
      <4> QED
        BY <1>9, <3>1, <4>1, QueueAssumption DEF OwnList, Direction
    <3>4. ~Mover(r, w, e)
      BY <1>9 DEF Mover
    <3>5. Mover(k, w, e)'
      BY <1>4, <1>8, <3>2, <3>3 DEF Mover
    <3> QED
      BY <3>4, <3>5
  <2>5. \A u \in Task : u # NULL /\ Mover(r, u, d) => Mover(k, u, d)'
    BY <2>3
  <2>6. \A e \in Direction : e # d =>
           /\ \A u \in Task : Mover(r, u, e) => Mover(k, u, e)'
           /\ k'.waiters[OwnList(e)] # << >> =>
                 w \in Task /\ ~Mover(r, w, e) /\ Mover(k, w, e)'
    BY <2>3, <2>4
  <2> QED
    BY <1>1, <1>4, <2>1, <2>2, <2>5, <2>6, MoveMovers
<1> QED
  BY <1>4, <1>7, <1>8, <1>1, <1>10, <1>11, <1>12, <1>13, CallsSame

(* The calls from the tick interrupt.                                      *)
LEMMA IsrInv ==
    ASSUME QueueInv, RingInv', NEW d \in Direction, NEW x, IsrMove(d, x)
    PROVE  QueueInv'
<1>1. QueueBase'
  BY IsrBase DEF QueueInv
<1>2. PICK r : r = sched_tick_n(k, 1)
  OBVIOUS
<1>3. CASE r.waiters[PeerList(d)] = << >>
  BY <1>1, <1>2, <1>3, IsrAloneInv
<1>4. CASE r.waiters[PeerList(d)] # << >>
  <2>1. KernelCore(r)
    BY <1>2, TickQueued
  <2>2. PeerList(d) \in WaitList
    BY PeersList
  <2>3. FirstWaiter(r, PeerList(d)) \in Task
    BY <1>4, <2>1, <2>2 DEF FirstWaiter, KernelCore, KernelTypeOK
  <2> QED
    BY <1>1, <1>2, <1>4, <2>3, IsrWakeInv
<1> QED
  BY <1>3, <1>4

(* Nobody is in a call at first.                                           *)
LEMMA QueueInitInv ==
    ASSUME TimedLast, QueueInit
    PROVE  QueueInv
<1>1. /\ k.waiters = [h \in WaitList |-> << >>]
      /\ k.delay_ticks = [t \in Task |-> 0]
      /\ \A t \in Thread : k.state[t] # "BLOCKED"
  BY InitCore DEF QueueInit
<1>2. /\ op = [t \in Task |-> NoOp] /\ pc = [t \in Task |-> "user"] /\ NoOp.waiter = NULL
  BY DEF QueueInit, SchedInit, NoOp
<1>3. QueueBase
  BY QueueInitBase
<1>4. PICK p \in InitialPriority : k = Started(TASK_MAX, p)
  BY DEF QueueInit, SchedInit
<1>5. k.priority = p /\ k.late = {}
  <2>1. k.priority = p
    BY <1>4, StartedInv, SchedulerAssumption
  <2>2. k.late = {}
    BY <1>4 DEF Started, StartRunning, StartNext, StartCurrent, sched_init
  <2> QED
    BY <2>1, <2>2
<1>6. Decided(k)
  BY <1>5, InitRuns DEF QueueInit, Decided, NextRuns
<1>7. LastOf(k.priority)
  BY <1>5 DEF TimedLast
<1>8. NULL \notin Task /\ \A t \in Task : ~Popped(t)
  <2>1. NULL \notin Task
    BY KernelAssumption DEF Thread
  <2> QED
    BY <1>2, <2>1 DEF Popped
<1>9. Wakers(k) /\ WaitModes(k)
  BY <1>1, <1>2, <1>8 DEF Wakers, WaitModes
<1>10. ListsExact(k)
  <2>1. \A h \in WaitList : k.waiters[h] = << >>
    BY <1>1
  <2>2. ToSet(<< >>) = {} /\ Once(<< >>) /\ Sorted(<< >>, k.priority)
    BY DEF ToSet, Once, Sorted
  <2>3. \A t \in Task, h \in WaitList : ~OnList(k, t, h)
    BY <1>2 DEF OnList
  <2> QED
    BY <2>1, <2>2, <2>3 DEF ListsExact
<1>11. MoversFor(k)
  BY <1>1, <1>3, QueueFacts DEF MoversFor
<1> QED
  BY <1>3, <1>6, <1>7, <1>9, <1>10, <1>11 DEF QueueInv, Queued

(* Every step of the system.                                               *)
LEMMA QueueNextInv ==
    ASSUME Pausable = {}, QueueInv, [QueueNext]_vars
    PROVE  QueueInv'
<1>0. QueueBase /\ RingInv /\ CallsInv
  BY DEF QueueInv, QueueBase
<1>1. RingInv'
  BY <1>0, RingStep
<1>2. CASE (SchedNext /\ UNCHANGED queueVars) \/ UNCHANGED vars
  <2>1. [SchedNext]_schedVars /\ UNCHANGED queueVars
    BY <1>2 DEF vars
  <2> QED
    BY <2>1, QueueSchedInv
<1>3. ASSUME NEW t \in Task, QueueCall(t)
      PROVE  QueueInv'
  <2>1. /\ 0 \in Time /\ \A ms \in Timeout : Deadline(s_ticks, ms) \in Time
        /\ "send" \in Direction /\ "receive" \in Direction /\ "send" # "receive"
    <3>1. s_ticks \in Time
      BY <1>0, QueueFacts
    <3> QED
      BY <3>1, SchedulerAssumption, QueueAssumption DEF Deadline, Time, Direction
  <2>2. ASSUME NEW x \in Item, queue_send(t, x) \/ queue_try_send(t, x)
        PROVE  QueueInv'
    BY <2>1, <2>2, EnterInv DEF queue_send, queue_try_send
  <2>3. ASSUME queue_receive(t) \/ queue_try_receive(t)
        PROVE  QueueInv'
    BY <2>1, <2>3, EnterInv DEF queue_receive, queue_try_receive
  <2>4. ASSUME NEW x \in Item, NEW ms \in Timeout, queue_send_timeout(t, x, ms), t \in TimedCaller
        PROVE  QueueInv'
    <3> DEFINE e == Deadline(s_ticks, ms)
    <3>1. Enter(t, "send", x, "timed", e) /\ e \in Time
      BY <2>1, <2>4 DEF queue_send_timeout
    <3> HIDE DEF e
    <3> QED
      BY <2>1, <2>4, <3>1, EnterInv
  <2>5. ASSUME NEW ms \in Timeout, queue_receive_timeout(t, ms), t \in TimedCaller
        PROVE  QueueInv'
    <3> DEFINE e == Deadline(s_ticks, ms)
    <3>1. Enter(t, "receive", NULL, "timed", e) /\ e \in Time
      BY <2>1, <2>5 DEF queue_receive_timeout
    <3> HIDE DEF e
    <3> QED
      BY <2>1, <2>5, <3>1, EnterInv
  <2> QED
    BY <1>3, <2>2, <2>3, <2>4, <2>5 DEF QueueCall
<1>4. ASSUME NEW t \in Task, QueueStep(t)
      PROVE  QueueInv'
  BY <1>1, <1>4, TransferInv, WaitInv, CheckInv, WakeInv, WakeTriggerInv DEF QueueStep
<1>5. CASE IsrMove("receive", NULL) \/ \E x \in Item : IsrMove("send", x)
  BY <1>1, <1>5, IsrInv DEF Direction
<1> QED
  BY <1>2, <1>3, <1>4, <1>5 DEF QueueNext

(* The inductive invariant holds in every reachable state when nobody is   *)
(* paused and the task that makes timed calls, if one does, is less urgent *)
(* than all others.                                                        *)
LEMMA QueueInvariantExact ==
    ASSUME Pausable = {}, TimedLast
    PROVE  QueueSpec => []QueueInv
<1>1. QueueInit => QueueInv
  BY QueueInitInv
<1>2. QueueInv /\ [QueueNext]_vars => QueueInv'
  BY QueueNextInv
<1> QED
  BY <1>1, <1>2, PTL DEF QueueSpec

(* Each wait list of queue.c holds exactly the blocked callers of its      *)
(* direction that nobody has taken off, each once and in order of urgency, *)
(* whatever tasks and the tick interrupt do between wq_pop and the         *)
(* sched_wake_task after the critical section.                             *)
THEOREM QueueListsExact ==
    ASSUME Pausable = {}, TimedLast
    PROVE  QueueSpec => []QueueWaitListExact
<1>1. ASSUME QueueInv
      PROVE  QueueWaitListExact
  <2>1. /\ QueueBase /\ ListsExact(k)
    BY <1>1 DEF QueueInv, Queued
  <2>2. QueueTypeOK
    BY <2>1 DEF QueueBase, QueueTypeOK, SchedCore, SchedTypeOK, KernelInv, KernelCore, RingInv,
                RingRecord, CallsInv, OpRecord, QueuePc
  <2>3. /\ \A h \in WaitList : Once(k.waiters[h]) /\ Sorted(k.waiters[h], k.priority)
        /\ \A h \in WaitList, t \in Task : t \in ToSet(k.waiters[h]) <=> OnList(k, t, h)
    BY <2>1 DEF ListsExact
  <2>4. \A h \in WaitList : k.waiters[h] \in Seq(Task)
    BY <2>1, QueueFacts DEF KernelTypeOK
  <2>5. LinkedOnce(k)
    <3> SUFFICES ASSUME NEW g \in WaitList, NEW h \in WaitList,
                        NEW i \in DOMAIN k.waiters[g], NEW j \in DOMAIN k.waiters[h],
                        k.waiters[g][i] = k.waiters[h][j]
                 PROVE  g = h /\ i = j
      BY DEF LinkedOnce
    <3> DEFINE t == k.waiters[g][i]
    <3>1. t \in Task /\ t \in ToSet(k.waiters[g]) /\ t \in ToSet(k.waiters[h])
      BY <2>4 DEF ToSet
    <3>2. OnList(k, t, g) /\ OnList(k, t, h)
      BY <2>3, <3>1
    <3>3. g = h
      BY <3>2 DEF OnList
    <3> QED
      BY <2>3, <3>3 DEF Once
  <2>6. ASSUME NEW dir \in Direction
        PROVE  LET s == k.waiters[OwnList(dir)]
               IN  /\ \A t \in Task : t \in ToSet(s) <=> Waiting(t, dir) /\ ~Popped(t)
                   /\ \A i, j \in DOMAIN s : i < j => k.priority[s[i]] <= k.priority[s[j]]
    <3>1. OwnList(dir) \in WaitList
      BY <2>1, QueueFacts
    <3>2. \A t \in Task : OnList(k, t, OwnList(dir)) <=> Waiting(t, dir) /\ ~Popped(t)
      <4>1. \A t \in Task : pc[t] \in {"q_try", "q_check"} =>
               (OwnList(op[t].dir) = OwnList(dir) <=> op[t].dir = dir)
        BY <2>1, QueueAssumption DEF QueueBase, CallsInv, OwnList, Direction
      <4> QED
        BY <4>1 DEF OnList, Waiting
    <3> QED
      BY <2>3, <3>1, <3>2 DEF Sorted
  <2> QED
    BY <2>2, <2>5, <2>6 DEF QueueWaitListExact
<1> QED
  BY <1>1, QueueInvariantExact, PTL

(* No sender sleeps behind a free slot and no receiver behind an item with *)
(* nobody on the way to it: a wake-up passed on outside the critical       *)
(* section is not lost.                                                    *)
THEOREM QueueWakesSomebody ==
    ASSUME Pausable = {}, TimedLast
    PROVE  QueueSpec => []QueueNoLostWakeup
<1>1. ASSUME QueueInv
      PROVE  QueueNoLostWakeup
  <2> SUFFICES ASSUME NEW dir \in Direction, Possible(dir), k.waiters[OwnList(dir)] # << >>
               PROVE  \E t \in Task :
                         /\ op[t].dir = dir /\ op[t].mode # "try"
                         /\ pc[t] \in {"q_try", "q_check"}
                         /\ Popped(t) \/ k.state[t] # "BLOCKED"
    BY DEF QueueNoLostWakeup
  <2> DEFINE S == Movers(k, dir)
  <2>1. Movable(dir) <= Cardinality(S)
    BY <1>1 DEF QueueInv, MoversFor
  <2>2. Movable(dir) \in Int /\ Movable(dir) > 0
    BY <1>1, SlotIndex DEF QueueInv, QueueBase, Possible, Movable, Direction
  <2>3. S # {}
    <3> SUFFICES ASSUME S = {} PROVE FALSE
      OBVIOUS
    <3>1. Cardinality({}) = 0
      BY FS_EmptySet
    <3> DEFINE n == Movable(dir)
    <3> HIDE DEF S, n
    <3>2. Cardinality(S) = 0
      BY <3>1
    <3>3. n <= Cardinality(S) /\ n \in Int /\ n > 0
      BY <2>1, <2>2 DEF n
    <3> QED
      BY <3>2, <3>3
  <2>4. PICK t \in Task : Mover(k, t, dir)
    BY <2>3 DEF Movers
  <2> QED
    BY <2>4 DEF Mover
<1> QED
  BY <1>1, QueueInvariantExact, PTL
=============================================================================
