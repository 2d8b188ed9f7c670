---------------------------- MODULE DriverProofs ----------------------------
(***************************************************************************)
(* Proofs about the CAN, UART, Ethernet and I2C drivers, for every ring    *)
(* size and every number of frames, characters and transfers.  The drivers *)
(* share no state with each other, so each has a specification of its own: *)
(* its part of the platform's initial state and its part of the next-state *)
(* relation.                                                               *)
(***************************************************************************)
EXTENDS Can, Uart, Eth, I2c, TLAPS, SequenceTheorems, FiniteSetTheorems

(* The CAN drivers of both boards, and their controllers.                  *)
CanSpec == CanInit /\ [][FlexcanNext \/ FdcanNext]_canVars
-----------------------------------------------------------------------------
(* FlexCAN, transmit.                                                      *)

(* Every element of a sequence of frames is below a bound.                 *)
Below(s, n) == \A i \in 1 .. Len(s) : s[i] < n
UpTo(s, n) == \A i \in 1 .. Len(s) : s[i] <= n

FlexTypeOK ==
    /\ mb \in [frame : Nat, iflag : BOOLEAN, busoff : BOOLEAN]
    /\ fx \in [step : {"out", "inactive", "iflag"}, frame : Nat]
    /\ fxLog \in [sent : Seq(Nat), reported : SUBSET Nat, aborted : SUBSET Nat, timedout : BOOLEAN]

(* The frame in the mailbox is later than every frame sent, and a call     *)
(* that still waits for the mailbox brings the latest of all.              *)
FlexOrder ==
    /\ mb.frame <= fx.frame
    /\ Increasing(fxLog.sent)
    /\ UpTo(fxLog.sent, fx.frame)
    /\ mb.frame # 0 => Below(fxLog.sent, mb.frame)
    /\ fx.step = "inactive" => mb.frame < fx.frame /\ Below(fxLog.sent, fx.frame)

(* Where a frame that was reported, or is about to be, can be.             *)
FlexWhere ==
    /\ fx.step # "out" => fx.frame # 0
    /\ fx.step = "iflag" => fx.frame = mb.frame \/ fx.frame \in SeqSet(fxLog.sent)
    /\ 0 \notin fxLog.reported
    /\ fxLog.reported \subseteq SeqSet(fxLog.sent) \cup {mb.frame} \cup fxLog.aborted

(* Until a call times out the flag and the mailbox speak of this call's    *)
(* frame alone.                                                            *)
FlexUntilTimeout ==
    ~fxLog.timedout =>
        /\ fxLog.reported \subseteq SeqSet(fxLog.sent)
        /\ fx.step # "iflag" => mb.frame = 0 /\ ~mb.iflag
        /\ fx.step = "iflag" => \/ mb.frame = fx.frame /\ ~mb.iflag
                                \/ mb.frame = 0 /\ fx.frame \in SeqSet(fxLog.sent)

FlexcanTxInv == FlexTypeOK /\ FlexOrder /\ FlexWhere /\ FlexUntilTimeout

(* What appending a later frame does to the frames sent.                   *)
LEMMA LaterFrame ==
    ASSUME NEW s \in Seq(Nat), NEW e \in Nat
    PROVE  /\ Append(s, e) \in Seq(Nat)
           /\ SeqSet(Append(s, e)) = SeqSet(s) \cup {e}
           /\ Increasing(s) /\ Below(s, e) => Increasing(Append(s, e))
           /\ \A n \in Nat : UpTo(s, n) /\ e <= n => UpTo(Append(s, e), n)
           /\ \A n \in Nat : Below(s, n) /\ e < n => Below(Append(s, e), n)
<1> DEFINE a == Append(s, e)
<1>1. /\ a \in Seq(Nat) /\ Len(a) = Len(s) + 1 /\ Len(s) \in Nat
      /\ a[Len(s) + 1] = e
      /\ \A i \in 1 .. Len(s) : a[i] = s[i] /\ s[i] \in Nat
  BY AppendProperties, ElementOfSeq, LenProperties
<1> HIDE DEF a
<1>2. SeqSet(a) = SeqSet(s) \cup {e}
  <2>1. \A i \in 1 .. Len(a) : i \in 1 .. Len(s) \/ i = Len(s) + 1
    BY <1>1
  <2>2. 1 .. Len(s) \subseteq 1 .. Len(a) /\ Len(s) + 1 \in 1 .. Len(a)
    BY <1>1
  <2> QED BY <1>1, <2>1, <2>2 DEF SeqSet
<1>3. Increasing(s) /\ Below(s, e) => Increasing(a)
  <2>1. SUFFICES ASSUME Increasing(s), Below(s, e), NEW i \in 1 .. Len(a) - 1
                 PROVE  a[i] < a[i + 1]
    BY DEF Increasing
  <2>2. CASE i = Len(s)
    BY <1>1, <2>1, <2>2 DEF Below
  <2>3. CASE i # Len(s)
    <3>1. i \in 1 .. Len(s) - 1 /\ i \in 1 .. Len(s) /\ i + 1 \in 1 .. Len(s)
      BY <1>1, <2>3
    <3> QED BY <1>1, <2>1, <3>1 DEF Increasing
  <2> QED BY <2>2, <2>3
<1>6. \A i \in 1 .. Len(a) : i \in 1 .. Len(s) \/ i = Len(s) + 1
  BY <1>1
<1>4. \A n \in Nat : UpTo(s, n) /\ e <= n => UpTo(a, n)
  BY <1>1, <1>6 DEF UpTo
<1>5. \A n \in Nat : Below(s, n) /\ e < n => Below(a, n)
  BY <1>1, <1>6 DEF Below
<1> QED BY <1>1, <1>2, <1>3, <1>4, <1>5 DEF a

(* At first nothing was sent and the mailbox is inactive.                  *)
LEMMA FlexcanTxInit == CanInit => FlexcanTxInv
<1> SUFFICES ASSUME CanInit PROVE FlexcanTxInv
  OBVIOUS
<1>1. FlexTypeOK
  BY DEF CanInit, FlexTypeOK
<1> QED BY <1>1 DEF CanInit, FlexcanTxInv, FlexOrder, FlexWhere, FlexUntilTimeout, Increasing, UpTo, Below

(* flexcan_transmit is entered: the recovery from bus-off may empty the    *)
(* mailbox, and the new frame is later than all others.                    *)
LEMMA CallFlexcanTx == FlexcanTxInv /\ CallFlexcan => FlexcanTxInv'
<1> SUFFICES ASSUME FlexcanTxInv, CallFlexcan PROVE FlexcanTxInv'
  OBVIOUS
<1> USE DEF FlexcanTxInv
<1>1. /\ fx.frame \in Nat /\ mb.frame \in Nat /\ fx'.step = "inactive" /\ fx'.frame = fx.frame + 1
      /\ fxLog'.sent = fxLog.sent /\ fxLog'.reported = fxLog.reported
      /\ fxLog'.timedout = fxLog.timedout
      /\ mb'.iflag = mb.iflag
      /\ fx' \in [step : {"out", "inactive", "iflag"}, frame : Nat]
      /\ fx.step = "out"
      /\ \/ mb' = mb /\ fxLog' = fxLog
         \/ mb'.frame = 0 /\ fxLog'.aborted = fxLog.aborted \cup ({mb.frame} \ {0})
  BY DEF CallFlexcan, FlexTypeOK
<1>2. FlexTypeOK'
  BY <1>1 DEF CallFlexcan, FlexTypeOK
<1>3. \A i \in 1 .. Len(fxLog.sent) : fxLog.sent[i] \in Nat
  BY ElementOfSeq DEF FlexTypeOK
<1>4. FlexOrder'
  BY <1>1, <1>3 DEF FlexOrder, UpTo, Below
<1>5. FlexWhere'
  BY <1>1 DEF FlexWhere
<1>6. FlexUntilTimeout'
  BY <1>1 DEF FlexUntilTimeout
<1> QED BY <1>2, <1>4, <1>5, <1>6

(* The mailbox is written when it is free, or the wait for it times out.   *)
LEMMA AwaitInactiveTx == FlexcanTxInv /\ AwaitInactive => FlexcanTxInv'
<1> SUFFICES ASSUME FlexcanTxInv, AwaitInactive PROVE FlexcanTxInv'
  OBVIOUS
<1> USE DEF FlexcanTxInv
<1>1. /\ fx.frame \in Nat /\ mb.frame \in Nat /\ fx'.frame = fx.frame /\ fx.step = "inactive"
      /\ fxLog'.sent = fxLog.sent /\ fxLog'.reported = fxLog.reported /\ fxLog'.aborted = fxLog.aborted
      /\ mb'.iflag = mb.iflag
      /\ \/ /\ mb.frame = 0 /\ mb'.frame = fx.frame /\ fx'.step = "iflag"
            /\ fxLog'.timedout = fxLog.timedout
         \/ mb.frame # 0 /\ mb' = mb /\ fx'.step = "out" /\ fxLog'.timedout
  BY DEF AwaitInactive, FlexcanGivesUp, Inactive, FlexTypeOK
<1>2. FlexTypeOK'
  <2>1. CASE /\ mb' = [mb EXCEPT !.frame = fx.frame]
             /\ fx' = [fx EXCEPT !.step = "iflag"] /\ fxLog' = fxLog
    BY <2>1 DEF FlexTypeOK
  <2>2. CASE FlexcanGivesUp
    <3>1. mb' \in [frame : Nat, iflag : BOOLEAN, busoff : BOOLEAN]
      BY <2>2 DEF FlexcanGivesUp, FlexTypeOK
    <3>2. fx' \in [step : {"out", "inactive", "iflag"}, frame : Nat]
      BY <2>2 DEF FlexcanGivesUp, FlexTypeOK
    <3>3. fxLog' \in [sent : Seq(Nat), reported : SUBSET Nat, aborted : SUBSET Nat, timedout : BOOLEAN]
      BY <2>2 DEF FlexcanGivesUp, FlexTypeOK
    <3> QED BY <3>1, <3>2, <3>3 DEF FlexTypeOK
  <2> QED BY <2>1, <2>2 DEF AwaitInactive
<1>4. FlexOrder'
  BY <1>1 DEF FlexOrder, UpTo, Below
<1>5. FlexWhere'
  BY <1>1 DEF FlexWhere
<1>6. FlexUntilTimeout'
  BY <1>1 DEF FlexUntilTimeout
<1> QED BY <1>2, <1>4, <1>5, <1>6

(* The flag is seen and the frame reported, or the wait times out.         *)
LEMMA AwaitFlagTx == FlexcanTxInv /\ AwaitFlag => FlexcanTxInv'
<1> SUFFICES ASSUME FlexcanTxInv, AwaitFlag PROVE FlexcanTxInv'
  OBVIOUS
<1> USE DEF FlexcanTxInv
<1>1. /\ fx.frame \in Nat /\ mb.frame \in Nat /\ fx'.frame = fx.frame /\ fx.step = "iflag"
      /\ fxLog'.sent = fxLog.sent /\ fxLog'.aborted = fxLog.aborted
      /\ mb'.frame = mb.frame /\ fx'.step = "out"
      /\ \/ /\ mb.iflag /\ ~mb'.iflag /\ fxLog'.reported = fxLog.reported \cup {fx.frame}
            /\ fxLog'.timedout = fxLog.timedout
         \/ ~mb.iflag /\ ~mb'.iflag /\ fxLog'.reported = fxLog.reported /\ fxLog'.timedout
  BY DEF AwaitFlag, ClearFlag, FlexcanGivesUp, FlexTypeOK
<1>2. FlexTypeOK'
  <2>1. /\ mb \in [frame : Nat, iflag : BOOLEAN, busoff : BOOLEAN]
        /\ mb' = mb \/ mb' = [mb EXCEPT !.iflag = FALSE]
        /\ fx' = [fx EXCEPT !.step = "out"]
    BY DEF AwaitFlag, ClearFlag, FlexcanGivesUp, FlexTypeOK
  <2>2. mb' \in [frame : Nat, iflag : BOOLEAN, busoff : BOOLEAN]
    BY <2>1
  <2>3. fx' \in [step : {"out", "inactive", "iflag"}, frame : Nat]
    BY <2>1 DEF FlexTypeOK
  <2>4. fxLog' = [fxLog EXCEPT !.reported = @ \cup {fx.frame}] \/ fxLog' = [fxLog EXCEPT !.timedout = TRUE]
    BY DEF AwaitFlag, FlexcanGivesUp
  <2>5. fxLog' \in [sent : Seq(Nat), reported : SUBSET Nat, aborted : SUBSET Nat, timedout : BOOLEAN]
    BY <2>4, <1>1 DEF FlexTypeOK
  <2> QED BY <2>2, <2>3, <2>5 DEF FlexTypeOK
<1>4. FlexOrder'
  BY <1>1 DEF FlexOrder, UpTo, Below
<1>5. FlexWhere'
  BY <1>1 DEF FlexWhere
<1>6. FlexUntilTimeout'
  BY <1>1 DEF FlexUntilTimeout
<1> QED BY <1>2, <1>4, <1>5, <1>6

(* The controller puts the frame of the mailbox on the bus.                *)
LEMMA FlexcanSendsTx == FlexcanTxInv /\ FlexcanSends => FlexcanTxInv'
<1> SUFFICES ASSUME FlexcanTxInv, FlexcanSends PROVE FlexcanTxInv'
  OBVIOUS
<1> USE DEF FlexcanTxInv
<1>1. /\ fx.frame \in Nat /\ mb.frame \in Nat /\ fx' = fx /\ mb.frame # 0 /\ fxLog.sent \in Seq(Nat)
      /\ fxLog'.sent = Append(fxLog.sent, mb.frame)
      /\ fxLog'.reported = fxLog.reported /\ fxLog'.aborted = fxLog.aborted
      /\ fxLog'.timedout = fxLog.timedout
      /\ mb'.frame = 0 /\ mb'.iflag
  BY DEF FlexcanSends, FlexTypeOK
<1>2. FlexTypeOK'
  BY <1>1, LaterFrame DEF FlexcanSends, FlexTypeOK
<1>3. /\ SeqSet(fxLog'.sent) = SeqSet(fxLog.sent) \cup {mb.frame}
      /\ Increasing(fxLog.sent) /\ Below(fxLog.sent, mb.frame) => Increasing(fxLog'.sent)
      /\ \A n \in Nat : UpTo(fxLog.sent, n) /\ mb.frame <= n => UpTo(fxLog'.sent, n)
      /\ \A n \in Nat : Below(fxLog.sent, n) /\ mb.frame < n => Below(fxLog'.sent, n)
  BY <1>1, LaterFrame
<1>4. FlexOrder'
  BY <1>1, <1>3 DEF FlexOrder
<1>5. FlexWhere'
  BY <1>1, <1>3 DEF FlexWhere
<1>6. FlexUntilTimeout'
  BY <1>1, <1>3 DEF FlexUntilTimeout
<1> QED BY <1>2, <1>4, <1>5, <1>6

(* Every step of the CAN drivers keeps the transmit invariant; only five   *)
(* of them touch its state.                                                *)
LEMMA FlexcanTxStep == FlexcanTxInv /\ [FlexcanNext \/ FdcanNext]_canVars => FlexcanTxInv'
<1> SUFFICES ASSUME FlexcanTxInv, [FlexcanNext \/ FdcanNext]_canVars PROVE FlexcanTxInv'
  OBVIOUS
<1>1. CASE CallFlexcan
  BY <1>1, CallFlexcanTx
<1>2. CASE AwaitInactive
  BY <1>2, AwaitInactiveTx
<1>3. CASE AwaitFlag
  BY <1>3, AwaitFlagTx
<1>4. CASE FlexcanSends
  BY <1>4, FlexcanSendsTx
<1>5. CASE BusChanges
  <2>1. /\ fx' = fx /\ fxLog' = fxLog /\ mb'.frame = mb.frame /\ mb'.iflag = mb.iflag
        /\ mb' \in [frame : Nat, iflag : BOOLEAN, busoff : BOOLEAN]
    BY <1>5 DEF BusChanges, FlexcanTxInv, FlexTypeOK
  <2> QED BY <2>1 DEF FlexcanTxInv, FlexTypeOK, FlexOrder, FlexWhere, FlexUntilTimeout
<1>6. CASE mb' = mb /\ fx' = fx /\ fxLog' = fxLog
  BY <1>6 DEF FlexcanTxInv, FlexTypeOK, FlexOrder, FlexWhere, FlexUntilTimeout
<1>7. \/ CallFlexcan \/ AwaitInactive \/ AwaitFlag \/ FlexcanSends \/ BusChanges
      \/ mb' = mb /\ fx' = fx /\ fxLog' = fxLog
  <2>1. CASE FdcanNext
    BY <2>1 DEF FdcanNext, fdcan_init, CallFdcan, PollFdcan, RequestFdcan, FdcanSends,
                FdcanArrives, fdcan_receive, flexVars
  <2>2. CASE FlexcanNext
    BY <2>2 DEF FlexcanNext, FlexcanArrives, ReadCs, ReadId, ReadData, ReadTimer, EndReceive
  <2>3. CASE UNCHANGED canVars
    BY <2>3 DEF canVars, flexVars
  <2> QED BY <2>1, <2>2, <2>3
<1> QED BY <1>1, <1>2, <1>3, <1>4, <1>5, <1>6, <1>7

(* drivers/k64f/flexcan.c, flexcan_transmit: over timeouts, completions    *)
(* that come late and recoveries from bus-off, frames leave in the order   *)
(* of the calls and none is overwritten; and until the first timeout a     *)
(* frame reported as sent was sent.                                        *)
THEOREM FlexcanTransmits == CanSpec => []FlexcanTransmitTrue
<1>1. CanInit => FlexcanTxInv
  BY FlexcanTxInit
<1>2. FlexcanTxInv /\ [FlexcanNext \/ FdcanNext]_canVars => FlexcanTxInv'
  BY FlexcanTxStep
<1>3. FlexcanTxInv => FlexcanTransmitTrue
  BY DEF FlexcanTxInv, FlexOrder, FlexWhere, FlexUntilTimeout, FlexcanTransmitTrue,
         FlexcanNoneLost, FlexcanResultTrue
<1> QED BY <1>1, <1>2, <1>3, PTL DEF CanSpec
-----------------------------------------------------------------------------
(* FlexCAN, receive.                                                       *)

FlexRxTypeOK ==
    /\ rxmb \in [frame : Nat, iflag : BOOLEAN, locked : BOOLEAN, outside : Nat]
    /\ fr \in [step : {"out", "id", "data", "timer", "flag"}, id : Nat, data : Nat]
    /\ frLog \in [came : Nat, returned : Seq(Nat \X Nat)]

(* The mailbox is locked exactly while ID and data are read, so that the   *)
(* parts read belong to the frame in it; a frame outside is newer.         *)
FlexRxParts ==
    /\ rxmb.locked <=> (fr.step \in {"id", "data", "timer"})
    /\ rxmb.frame <= frLog.came /\ rxmb.outside <= frLog.came
    /\ rxmb.outside # 0 => rxmb.locked /\ rxmb.frame < rxmb.outside
    /\ fr.step = "data" => fr.id = rxmb.frame
    /\ fr.step = "timer" => fr.id = rxmb.frame /\ fr.data = rxmb.frame
    /\ fr.step = "flag" => fr.id = fr.data /\ fr.data <= rxmb.frame

(* Every frame returned is older than the one bound n.                     *)
Older(n) == \A i \in 1 .. Len(frLog.returned) : frLog.returned[i][2] < n

(* The frame being read, and one whose flag is set, are newer than every   *)
(* frame returned.                                                         *)
FlexRxNewer ==
    /\ Older(frLog.came + 1)
    /\ fr.step = "out" /\ rxmb.iflag => Older(rxmb.frame)
    /\ fr.step \in {"id", "data", "timer"} => Older(rxmb.frame)
    /\ fr.step = "flag" => Older(fr.data)

(* The receive invariant, with FlexcanReceiveWhole as its last part.       *)
FlexcanRxInv == FlexRxTypeOK /\ FlexRxParts /\ FlexRxNewer /\ FlexcanReceiveWhole

(* A step that returns no frame keeps what is said of the returned ones.   *)
LEMMA RxArrives == FlexcanRxInv /\ FlexcanArrives => FlexcanRxInv'
<1> SUFFICES ASSUME FlexcanRxInv, FlexcanArrives PROVE FlexcanRxInv'
  OBVIOUS
<1> USE DEF FlexcanRxInv
<1>1. /\ fr' = fr /\ frLog'.came = frLog.came + 1 /\ frLog'.returned = frLog.returned
      /\ frLog.came \in Nat /\ rxmb.frame \in Nat /\ rxmb.outside \in Nat /\ fr.data \in Nat
      /\ fr.step \in {"out", "id", "data", "timer", "flag"}
      /\ rxmb'.locked = rxmb.locked
      /\ \/ /\ rxmb.locked /\ rxmb'.outside = frLog.came + 1 /\ rxmb'.frame = rxmb.frame
            /\ rxmb'.iflag = rxmb.iflag
         \/ ~rxmb.locked /\ rxmb'.frame = frLog.came + 1 /\ rxmb'.outside = rxmb.outside
  BY DEF FlexcanArrives, FlexRxTypeOK
<1>2. FlexRxTypeOK'
  <2>1. \/ rxmb' = [rxmb EXCEPT !.outside = frLog.came + 1]
        \/ rxmb' = [rxmb EXCEPT !.frame = frLog.came + 1, !.iflag = TRUE]
    BY DEF FlexcanArrives
  <2>2. rxmb' \in [frame : Nat, iflag : BOOLEAN, locked : BOOLEAN, outside : Nat]
    <3>1. frLog.came + 1 \in Nat /\ rxmb \in [frame : Nat, iflag : BOOLEAN, locked : BOOLEAN, outside : Nat]
      BY <1>1 DEF FlexRxTypeOK
    <3>2. [rxmb EXCEPT !.outside = frLog.came + 1] \in [frame : Nat, iflag : BOOLEAN, locked : BOOLEAN, outside : Nat]
      BY <3>1
    <3>3. [rxmb EXCEPT !.frame = frLog.came + 1, !.iflag = TRUE]
             \in [frame : Nat, iflag : BOOLEAN, locked : BOOLEAN, outside : Nat]
      BY <3>1
    <3> QED BY <2>1, <3>2, <3>3
  <2>3. frLog' \in [came : Nat, returned : Seq(Nat \X Nat)]
    BY DEF FlexcanArrives, FlexRxTypeOK
  <2> QED BY <1>1, <2>2, <2>3 DEF FlexRxTypeOK
<1>3. FlexRxParts'
  BY <1>1 DEF FlexRxParts
<1>4. \A i \in 1 .. Len(frLog.returned) : frLog.returned[i][2] \in Nat
  BY ElementOfSeq DEF FlexRxTypeOK
<1>5. FlexRxNewer'
  BY <1>1, <1>4 DEF FlexRxNewer, FlexRxParts, Older
<1>6. FlexcanReceiveWhole'
  BY <1>1 DEF FlexcanReceiveWhole
<1> QED BY <1>2, <1>3, <1>5, <1>6

(* The reads of CS, ID, data and TIMER.                                    *)
LEMMA RxReads ==
    FlexcanRxInv /\ (ReadCs \/ ReadId \/ ReadData \/ ReadTimer) => FlexcanRxInv'
<1> SUFFICES ASSUME FlexcanRxInv, ReadCs \/ ReadId \/ ReadData \/ ReadTimer PROVE FlexcanRxInv'
  OBVIOUS
<1> USE DEF FlexcanRxInv
<1>0. /\ frLog' = frLog /\ frLog.came \in Nat /\ rxmb.frame \in Nat /\ rxmb.outside \in Nat
      /\ rxmb \in [frame : Nat, iflag : BOOLEAN, locked : BOOLEAN, outside : Nat]
      /\ fr \in [step : {"out", "id", "data", "timer", "flag"}, id : Nat, data : Nat]
  BY DEF ReadCs, ReadId, ReadData, ReadTimer, FlexRxTypeOK
<1>1. FlexRxTypeOK'
  <2>1. \/ rxmb' = [rxmb EXCEPT !.locked = TRUE] \/ rxmb' = rxmb
        \/ rxmb' = [rxmb EXCEPT !.locked = FALSE]
        \/ rxmb' = [rxmb EXCEPT !.locked = FALSE, !.frame = rxmb.outside, !.iflag = TRUE, !.outside = 0]
    BY DEF ReadCs, ReadId, ReadData, ReadTimer
  <2>2. rxmb' \in [frame : Nat, iflag : BOOLEAN, locked : BOOLEAN, outside : Nat]
    <3>1. CASE rxmb' = rxmb
      BY <3>1, <1>0
    <3>2. CASE rxmb' = [rxmb EXCEPT !.locked = TRUE]
      BY <3>2, <1>0
    <3>3. CASE rxmb' = [rxmb EXCEPT !.locked = FALSE]
      BY <3>3, <1>0
    <3>4. CASE rxmb' = [rxmb EXCEPT !.locked = FALSE, !.frame = rxmb.outside, !.iflag = TRUE, !.outside = 0]
      BY <3>4, <1>0
    <3> QED BY <2>1, <3>1, <3>2, <3>3, <3>4
  <2>3. fr' \in [step : {"out", "id", "data", "timer", "flag"}, id : Nat, data : Nat]
    BY <1>0 DEF ReadCs, ReadId, ReadData, ReadTimer
  <2> QED BY <1>0, <2>2, <2>3 DEF FlexRxTypeOK
<1>2. FlexcanReceiveWhole'
  BY <1>0 DEF FlexcanReceiveWhole
<1>3. FlexRxParts' /\ FlexRxNewer'
  <2>1. CASE ReadCs
    BY <2>1, <1>0 DEF ReadCs, FlexRxParts, FlexRxNewer, Older
  <2>2. CASE ReadId
    BY <2>2, <1>0 DEF ReadId, FlexRxParts, FlexRxNewer, Older
  <2>3. CASE ReadData
    BY <2>3, <1>0 DEF ReadData, FlexRxParts, FlexRxNewer, Older
  <2>4. CASE ReadTimer
    <3>1. /\ fr.step = "timer" /\ fr'.step = "flag" /\ fr'.id = fr.id /\ fr'.data = fr.data
          /\ rxmb'.locked = FALSE /\ rxmb'.outside = 0
          /\ rxmb'.frame = IF rxmb.outside = 0 THEN rxmb.frame ELSE rxmb.outside
      BY <2>4, <1>0 DEF ReadTimer
    <3> QED BY <3>1, <1>0 DEF FlexRxParts, FlexRxNewer, Older
  <2> QED BY <2>1, <2>2, <2>3, <2>4
<1> QED BY <1>1, <1>2, <1>3

(* flexcan_receive returns: the frame is whole and newer than the others.  *)
LEMMA RxReturns == FlexcanRxInv /\ EndReceive => FlexcanRxInv'
<1> SUFFICES ASSUME FlexcanRxInv, EndReceive PROVE FlexcanRxInv'
  OBVIOUS
<1> USE DEF FlexcanRxInv
<1> DEFINE s == frLog.returned
           a == Append(s, <<fr.id, fr.data>>)
<1>0. /\ frLog'.came = frLog.came /\ frLog'.returned = a
      /\ s \in Seq(Nat \X Nat) /\ <<fr.id, fr.data>> \in Nat \X Nat
      /\ fr.step = "flag" /\ fr'.step = "out" /\ ~rxmb'.iflag
      /\ rxmb'.frame = rxmb.frame /\ rxmb'.locked = rxmb.locked /\ rxmb'.outside = rxmb.outside
      /\ frLog.came \in Nat /\ rxmb.frame \in Nat /\ fr.data \in Nat /\ fr.id \in Nat
  BY DEF EndReceive, FlexRxTypeOK
<1>1. /\ a \in Seq(Nat \X Nat) /\ Len(a) = Len(s) + 1 /\ Len(s) \in Nat
      /\ a[Len(s) + 1] = <<fr.id, fr.data>>
      /\ \A i \in 1 .. Len(s) : a[i] = s[i] /\ s[i][2] \in Nat
  <2> HIDE DEF s
  <2>1. Len(s) \in Nat /\ \A i \in 1 .. Len(s) : s[i] \in Nat \X Nat
    BY <1>0, ElementOfSeq, LenProperties
  <2>2. /\ a \in Seq(Nat \X Nat) /\ Len(a) = Len(s) + 1
        /\ a[Len(s) + 1] = <<fr.id, fr.data>> /\ \A i \in 1 .. Len(s) : a[i] = s[i]
    BY <1>0, AppendProperties
  <2> HIDE DEF a
  <2> QED BY <2>1, <2>2
<1> HIDE DEF a, s
<1>2. FlexRxTypeOK'
  BY <1>0, <1>1 DEF EndReceive, FlexRxTypeOK
<1>3. FlexRxParts'
  BY <1>0 DEF FlexRxParts
<1>4. \A i \in 1 .. Len(a) : i \in 1 .. Len(s) \/ i = Len(s) + 1
  BY <1>1
<1>5. fr.id = fr.data /\ fr.data <= rxmb.frame /\ rxmb.frame <= frLog.came
  BY <1>0 DEF FlexRxParts
<1>6. (\A i \in 1 .. Len(s) : s[i][2] < fr.data) /\ (\A i \in 1 .. Len(s) : s[i][2] < frLog.came + 1)
  BY <1>0 DEF FlexRxNewer, Older, s
<1>7. FlexRxNewer'
  <2>1. a[Len(s) + 1][2] = fr.data /\ fr.data < frLog.came + 1
    BY <1>0, <1>1, <1>5
  <2>2. \A i \in 1 .. Len(a) : a[i][2] < frLog.came + 1
    BY <1>1, <1>4, <1>6, <2>1
  <2> QED BY <1>0, <2>2 DEF FlexRxNewer, Older
<1>8. \A i \in 1 .. Len(a) : a[i][1] = a[i][2]
  <2>1. a[Len(s) + 1][1] = a[Len(s) + 1][2]
    BY <1>1, <1>5
  <2>2. \A i \in 1 .. Len(s) : s[i][1] = s[i][2]
    BY DEF FlexcanReceiveWhole, s
  <2> QED BY <1>1, <1>4, <2>1, <2>2
<1>9. Increasing([i \in 1 .. Len(a) |-> a[i][2]])
  <2>1. /\ Len([i \in 1 .. Len(a) |-> a[i][2]]) = Len(a)
        /\ Len([i \in 1 .. Len(s) |-> s[i][2]]) = Len(s)
    BY <1>1
  <2>2. \A i \in 1 .. Len(s) - 1 : s[i][2] < s[i + 1][2]
    <3>1. Increasing([i \in 1 .. Len(s) |-> s[i][2]])
      BY DEF FlexcanReceiveWhole, s
    <3>2. \A i \in 1 .. Len(s) - 1 : i \in 1 .. Len(s) /\ i + 1 \in 1 .. Len(s)
      BY <1>1
    <3> QED BY <3>1, <3>2, <2>1, <1>1 DEF Increasing
  <2>3. SUFFICES ASSUME NEW i \in 1 .. Len(a) - 1
                 PROVE  a[i][2] < a[i + 1][2]
    <3>1. \A i \in 1 .. Len(a) - 1 : i \in 1 .. Len(a) /\ i + 1 \in 1 .. Len(a)
      BY <1>1
    <3> QED BY <3>1, <2>1 DEF Increasing
  <2>4. CASE i = Len(s)
    <3>1. i \in 1 .. Len(s) /\ i + 1 = Len(s) + 1
      BY <1>1, <2>4
    <3> QED BY <1>1, <3>1, <1>6
  <2>5. CASE i # Len(s)
    <3>1. i \in 1 .. Len(s) - 1 /\ i \in 1 .. Len(s) /\ i + 1 \in 1 .. Len(s)
      BY <1>1, <2>5
    <3> QED BY <1>1, <2>2, <3>1
  <2> QED BY <2>4, <2>5
<1> QED BY <1>0, <1>2, <1>3, <1>7, <1>8, <1>9 DEF FlexcanReceiveWhole

(* Every step of the CAN drivers keeps the receive invariant.              *)
LEMMA FlexcanRxStep == FlexcanRxInv /\ [FlexcanNext \/ FdcanNext]_canVars => FlexcanRxInv'
<1> SUFFICES ASSUME FlexcanRxInv, [FlexcanNext \/ FdcanNext]_canVars PROVE FlexcanRxInv'
  OBVIOUS
<1>1. CASE FlexcanArrives
  BY <1>1, RxArrives
<1>2. CASE ReadCs \/ ReadId \/ ReadData \/ ReadTimer
  BY <1>2, RxReads
<1>3. CASE EndReceive
  BY <1>3, RxReturns
<1>4. CASE rxmb' = rxmb /\ fr' = fr /\ frLog' = frLog
  BY <1>4 DEF FlexcanRxInv, FlexRxTypeOK, FlexRxParts, FlexRxNewer, Older, FlexcanReceiveWhole
<1>5. \/ FlexcanArrives \/ (ReadCs \/ ReadId \/ ReadData \/ ReadTimer) \/ EndReceive
      \/ rxmb' = rxmb /\ fr' = fr /\ frLog' = frLog
  <2>1. CASE FdcanNext
    BY <2>1 DEF FdcanNext, fdcan_init, CallFdcan, PollFdcan, RequestFdcan, FdcanSends,
                FdcanArrives, fdcan_receive, flexVars
  <2>2. CASE FlexcanNext
    BY <2>2 DEF FlexcanNext, CallFlexcan, AwaitInactive, AwaitFlag, FlexcanSends, BusChanges
  <2>3. CASE UNCHANGED canVars
    BY <2>3 DEF canVars, flexVars
  <2> QED BY <2>1, <2>2, <2>3
<1> QED BY <1>1, <1>2, <1>3, <1>4, <1>5

(* The mailbox is empty at first and nothing was returned.                 *)
LEMMA FlexcanRxInit == CanInit => FlexcanRxInv
<1> SUFFICES ASSUME CanInit PROVE FlexcanRxInv
  OBVIOUS
<1>1. FlexRxTypeOK
  BY DEF CanInit, FlexRxTypeOK
<1>2. frLog.returned = <<>> /\ Len(frLog.returned) = 0
  BY DEF CanInit
<1>3. FlexcanReceiveWhole
  BY <1>2 DEF FlexcanReceiveWhole, Increasing
<1>4. FlexRxParts /\ FlexRxNewer
  BY <1>2 DEF CanInit, FlexRxParts, FlexRxNewer, Older
<1> QED BY <1>1, <1>3, <1>4 DEF FlexcanRxInv
-----------------------------------------------------------------------------
(* FDCAN, receive.                                                         *)

(* What the FIFO holds, as a sequence.                                     *)
InFifo == IF fd.fifo = 0 THEN <<>> ELSE <<fd.fifo>>

FdcanTypeOK ==
    /\ fd \in [state : {"off", "up", "failed"}, pending : Nat, fifo : Nat]
    /\ fdt \in [step : {"out", "poll", "write"}, frame : Nat, t : Int]
    /\ fdr \in [step : {"out", "ack"}, frame : Nat]
    /\ fdLog \in [accepted : Seq(Nat), sent : Seq(Nat), kept : Seq(Nat), came : Nat, returned : Seq(Nat)]

(* The frames the FIFO took are those returned and the one it holds, and   *)
(* between its read and its acknowledgement the element stays the same.    *)
FdcanFifoKept ==
    /\ fdLog.kept = fdLog.returned \o InFifo
    /\ fdr.step = "ack" => fdr.frame = fd.fifo /\ fd.fifo # 0

FdcanRxInv == FdcanTypeOK /\ FdcanFifoKept

(* Every step of the FDCAN driver and its controller keeps the types.      *)
LEMMA FdcanTyped == FdcanTypeOK /\ FdcanNext => FdcanTypeOK'
<1> SUFFICES ASSUME FdcanTypeOK, FdcanNext PROVE FdcanTypeOK'
  OBVIOUS
<1> USE DEF FdcanTypeOK
<1>0. \A s \in Seq(Nat), n \in Nat : Append(s, n) \in Seq(Nat)
  BY AppendProperties
<1>1. ASSUME NEW answers \in BOOLEAN, fdcan_init(answers) PROVE FdcanTypeOK'
  BY <1>1 DEF fdcan_init
<1>2. CASE CallFdcan
  BY <1>2, CanAssumption DEF CallFdcan
<1>3. CASE PollFdcan
  <2>1. \/ fdt' = [fdt EXCEPT !.step = "out"] \/ fdt' = [fdt EXCEPT !.step = "write"]
        \/ fdt' = [fdt EXCEPT !.step = "write", !.t = -1] \/ fdt' = [fdt EXCEPT !.t = @ - 1]
    BY <1>3 DEF PollFdcan
  <2>2. fdt' \in [step : {"out", "poll", "write"}, frame : Nat, t : Int]
    <3> HIDE DEF FdcanTypeOK
    <3>0. /\ fdt \in [step : {"out", "poll", "write"}, frame : Nat, t : Int]
          /\ fdt.t - 1 \in Int /\ -1 \in Int
      BY DEF FdcanTypeOK
    <3>1. CASE fdt' = [fdt EXCEPT !.step = "out"] \/ fdt' = [fdt EXCEPT !.step = "write"]
      BY <3>0, <3>1
    <3>2. CASE fdt' = [fdt EXCEPT !.step = "write", !.t = -1]
      BY <3>0, <3>2
    <3>3. CASE fdt' = [fdt EXCEPT !.t = @ - 1]
      BY <3>0, <3>3
    <3> QED BY <2>1, <3>1, <3>2, <3>3
  <2>3. fd' = fd /\ fdr' = fdr /\ fdLog' = fdLog
    BY <1>3 DEF PollFdcan
  <2> QED BY <2>2, <2>3
<1>4. CASE RequestFdcan
  BY <1>4, <1>0 DEF RequestFdcan
<1>5. CASE FdcanSends
  BY <1>5, <1>0 DEF FdcanSends
<1>6. CASE FdcanArrives
  <2>1. fdLog.came + 1 \in Nat /\ Append(fdLog.kept, fdLog.came + 1) \in Seq(Nat)
    BY <1>0
  <2>2. /\ fdt' = fdt /\ fdr' = fdr
        /\ fd' = fd \/ fd' = [fd EXCEPT !.fifo = fdLog.came + 1]
        /\ \/ fdLog' = [fdLog EXCEPT !.came = @ + 1, !.kept = Append(@, fdLog.came + 1)]
           \/ fdLog' = [fdLog EXCEPT !.came = @ + 1]
    BY <1>6 DEF FdcanArrives
  <2>3. fd' \in [state : {"off", "up", "failed"}, pending : Nat, fifo : Nat]
    BY <2>1, <2>2
  <2>4. fdLog' \in [accepted : Seq(Nat), sent : Seq(Nat), kept : Seq(Nat), came : Nat, returned : Seq(Nat)]
    BY <2>1, <2>2
  <2> QED BY <2>2, <2>3, <2>4
<1>7. CASE fdcan_receive
  <2>1. CASE fdr' = [step |-> "ack", frame |-> fd.fifo] /\ UNCHANGED <<fd, fdLog>>
    BY <1>7, <2>1 DEF fdcan_receive
  <2>2. CASE /\ fdr' = [step |-> "out", frame |-> 0] /\ fd' = [fd EXCEPT !.fifo = 0]
             /\ fdLog' = [fdLog EXCEPT !.returned = Append(@, fdr.frame)]
    <3>1. fdr' \in [step : {"out", "ack"}, frame : Nat] /\ fdt' = fdt
      BY <1>7, <2>2 DEF fdcan_receive
    <3>2. fd' \in [state : {"off", "up", "failed"}, pending : Nat, fifo : Nat]
      BY <2>2
    <3>3. Append(fdLog.returned, fdr.frame) \in Seq(Nat)
      BY <1>0
    <3>4. fdLog' \in [accepted : Seq(Nat), sent : Seq(Nat), kept : Seq(Nat), came : Nat, returned : Seq(Nat)]
      BY <2>2, <3>3
    <3> QED BY <3>1, <3>2, <3>4
  <2> QED BY <1>7, <2>1, <2>2 DEF fdcan_receive
<1> QED BY <1>1, <1>2, <1>3, <1>4, <1>5, <1>6, <1>7 DEF FdcanNext

(* Every step of the FDCAN driver keeps the account of its receive FIFO.   *)
LEMMA FdcanKept == FdcanRxInv /\ FdcanNext => FdcanFifoKept'
<1> SUFFICES ASSUME FdcanTypeOK, FdcanFifoKept, FdcanNext PROVE FdcanFifoKept'
  BY DEF FdcanRxInv
<1>0. /\ fd.fifo \in Nat /\ fdLog.came \in Nat /\ fdLog.kept \in Seq(Nat) /\ fdLog.returned \in Seq(Nat)
      /\ fdr.step \in {"out", "ack"}
  BY DEF FdcanTypeOK
<1>1. \A s \in Seq(Nat), n \in Nat : s \o <<>> = s /\ s \o <<n>> = Append(s, n)
  OBVIOUS
<1>2. CASE fdLog'.kept = fdLog.kept /\ fdLog'.returned = fdLog.returned /\ fd'.fifo = fd.fifo /\ fdr' = fdr
  BY <1>2 DEF FdcanFifoKept, InFifo
<1>3. ASSUME NEW answers \in BOOLEAN, fdcan_init(answers) PROVE FdcanFifoKept'
  <2>1. fdLog' = fdLog /\ fd'.fifo = fd.fifo /\ fdr' = fdr
    BY <1>3 DEF fdcan_init, FdcanTypeOK
  <2> QED BY <2>1, <1>2
<1>4. CASE CallFdcan \/ PollFdcan
  BY <1>4, <1>2 DEF CallFdcan, PollFdcan
<1>5. CASE RequestFdcan \/ FdcanSends
  <2>1. /\ fdLog'.kept = fdLog.kept /\ fdLog'.returned = fdLog.returned
        /\ fd'.fifo = fd.fifo /\ fdr' = fdr
    BY <1>5 DEF RequestFdcan, FdcanSends, FdcanTypeOK
  <2> QED BY <2>1, <1>2
<1>6. CASE FdcanArrives
  <2>1. CASE fd.fifo # 0
    <3>1. fdLog'.kept = fdLog.kept /\ fdLog'.returned = fdLog.returned /\ fd' = fd /\ fdr' = fdr
      BY <1>6, <2>1 DEF FdcanArrives, FdcanTypeOK
    <3> QED BY <3>1, <1>2
  <2>2. CASE fd.fifo = 0
    <3>1. /\ fdLog'.kept = Append(fdLog.kept, fdLog.came + 1) /\ fdLog'.returned = fdLog.returned
          /\ fd'.fifo = fdLog.came + 1 /\ fdr' = fdr
      BY <1>6, <2>2 DEF FdcanArrives, FdcanTypeOK
    <3>2. fdLog.kept = fdLog.returned
      BY <1>0, <1>1, <2>2 DEF FdcanFifoKept, InFifo
    <3>3. fd'.fifo # 0 /\ InFifo' = <<fdLog.came + 1>>
      BY <3>1, <1>0 DEF InFifo
    <3>4. fdr.step # "ack"
      BY <2>2 DEF FdcanFifoKept
    <3>6. fdLog.came + 1 \in Nat
      BY <1>0
    <3>7. fdLog.returned \o <<fdLog.came + 1>> = Append(fdLog.returned, fdLog.came + 1)
      BY <3>6, <1>0, <1>1
    <3>5. fdLog'.kept = fdLog'.returned \o InFifo'
      BY <3>1, <3>2, <3>3, <3>7
    <3> QED BY <3>1, <3>4, <3>5 DEF FdcanFifoKept
  <2> QED BY <2>1, <2>2
<1>7. CASE fdcan_receive
  <2>1. CASE fdr.step = "out"
    <3>1. fdr'.frame = fd.fifo /\ fd.fifo # 0 /\ fd' = fd /\ fdLog' = fdLog
      BY <1>7, <2>1 DEF fdcan_receive
    <3> QED BY <3>1 DEF FdcanFifoKept, InFifo
  <2>2. CASE fdr.step = "ack"
    <3>0. /\ fdr' = [step |-> "out", frame |-> 0] /\ fd' = [fd EXCEPT !.fifo = 0]
          /\ fdLog' = [fdLog EXCEPT !.returned = Append(@, fdr.frame)]
          /\ fdr.frame = fd.fifo
      BY <1>7, <2>2 DEF fdcan_receive, FdcanFifoKept
    <3>1. /\ fdLog'.kept = fdLog.kept /\ fdLog'.returned = Append(fdLog.returned, fd.fifo)
          /\ fd'.fifo = 0 /\ fdr'.step = "out"
      BY <3>0 DEF FdcanTypeOK
    <3>2. fdLog.kept = Append(fdLog.returned, fd.fifo)
      BY <1>0, <1>1, <2>2 DEF FdcanFifoKept, InFifo
    <3>3. InFifo' = <<>>
      BY <3>1 DEF InFifo
    <3> QED BY <3>1, <3>2, <3>3, <1>0, <1>1 DEF FdcanFifoKept
  <2> QED BY <2>1, <2>2, <1>0
<1> QED BY <1>3, <1>4, <1>5, <1>6, <1>7 DEF FdcanNext

(* Every step of the CAN drivers keeps the FDCAN receive invariant.        *)
LEMMA FdcanRxStep == FdcanRxInv /\ [FlexcanNext \/ FdcanNext]_canVars => FdcanRxInv'
<1> SUFFICES ASSUME FdcanRxInv, [FlexcanNext \/ FdcanNext]_canVars PROVE FdcanRxInv'
  OBVIOUS
<1>1. CASE FdcanNext
  BY <1>1, FdcanTyped, FdcanKept DEF FdcanRxInv
<1>2. CASE UNCHANGED fdcanVars
  BY <1>2 DEF FdcanRxInv, FdcanTypeOK, FdcanFifoKept, InFifo, fdcanVars
<1>3. CASE FlexcanNext
  <2>1. UNCHANGED fdcanVars
    BY <1>3 DEF FlexcanNext, CallFlexcan, AwaitInactive, AwaitFlag, FlexcanSends, BusChanges,
                FlexcanArrives, ReadCs, ReadId, ReadData, ReadTimer, EndReceive
  <2> QED BY <2>1, <1>2
<1>4. CASE UNCHANGED canVars
  BY <1>4, <1>2 DEF canVars
<1> QED BY <1>1, <1>3, <1>4

(* The FIFO is empty at first.                                             *)
LEMMA FdcanRxInit == CanInit => FdcanRxInv
BY DEF CanInit, FdcanRxInv, FdcanTypeOK, FdcanFifoKept, InFifo

(* The FDCAN invariant says what FdcanReceiveFifo says.                    *)
LEMMA FdcanFifo == FdcanRxInv => FdcanReceiveFifo
<1> SUFFICES ASSUME FdcanRxInv PROVE FdcanReceiveFifo
  OBVIOUS
<1>1. /\ fdLog.returned \in Seq(Nat) /\ fd.fifo \in Nat /\ InFifo \in Seq(Nat)
      /\ fdLog.kept = fdLog.returned \o InFifo
  BY DEF FdcanRxInv, FdcanTypeOK, FdcanFifoKept, InFifo
<1>2. \A s, r \in Seq(Nat) : SubSeq(s \o r, 1, Len(s)) = s
  OBVIOUS
<1> QED BY <1>1, <1>2 DEF FdcanReceiveFifo, InFifo

(* flexcan_receive and fdcan_receive: both return the frames that arrived, *)
(* whole, in order and none twice, whenever the next frame comes in.  For  *)
(* FlexCAN this rests on the order of the reads, CS first and TIMER last;  *)
(* for FDCAN on the acknowledgement after the read.                        *)
THEOREM CanReceives == CanSpec => []CanReceiveWhole
<1>1. CanInit => FlexcanRxInv /\ FdcanRxInv
  BY FlexcanRxInit, FdcanRxInit
<1>2. FlexcanRxInv /\ FdcanRxInv /\ [FlexcanNext \/ FdcanNext]_canVars => (FlexcanRxInv /\ FdcanRxInv)'
  BY FlexcanRxStep, FdcanRxStep
<1>3. FlexcanRxInv /\ FdcanRxInv => CanReceiveWhole
  BY FdcanFifo DEF FlexcanRxInv, CanReceiveWhole
<1> QED BY <1>1, <1>2, <1>3, PTL DEF CanSpec
-----------------------------------------------------------------------------
(* Rings with a head and a tail index, one slot of which stays free.       *)

(* What lies between tail and head, oldest first.                          *)
RingSeq(buf, head, tail, n) == [i \in 1 .. (head - tail) % n |-> buf[(tail + i - 1) % n]]

(* An index that wraps once, upwards or downwards.                         *)
LEMMA Wrap ==
    ASSUME NEW n \in Nat, n > 0
    PROVE  /\ \A a \in 0 .. (n - 1) : a % n = a
           /\ \A a \in n .. (2 * n - 1) : a % n = a - n
           /\ \A a \in (-n) .. (-1) : a % n = a + n
<1>1. \A a \in 0 .. (n - 1) : a % n = a
  OBVIOUS
<1>2. ASSUME NEW a \in n .. (2 * n - 1) PROVE a % n = a - n
  <2>1. a - n \in 0 .. (n - 1) /\ a = n * 1 + (a - n)
    BY <1>2
  <2> QED BY <2>1
<1>3. ASSUME NEW a \in (-n) .. (-1) PROVE a % n = a + n
  <2>1. a + n \in 0 .. (n - 1) /\ a = n * (-1) + (a + n)
    BY <1>3
  <2> QED BY <2>1
<1> QED BY <1>1, <1>2, <1>3

(* The slots a ring uses, and its contents as a sequence.                  *)
RingSays(S, n, buf, h, t) ==
    /\ (h - t) % n = IF t <= h THEN h - t ELSE h - t + n
    /\ (h - t) % n \in 0 .. (n - 1)
    /\ \A i \in 1 .. n : /\ (t + i - 1) % n = IF t + i - 1 < n THEN t + i - 1 ELSE t + i - 1 - n
                         /\ (t + i - 1) % n \in 0 .. (n - 1)
    /\ (h + 1) % n = IF h + 1 < n THEN h + 1 ELSE 0
    /\ (h + 1) % n \in 0 .. (n - 1)
    /\ RingSeq(buf, h, t, n) \in Seq(S)
    /\ Len(RingSeq(buf, h, t, n)) = (h - t) % n
    /\ \A i \in 1 .. (h - t) % n : RingSeq(buf, h, t, n)[i] = buf[(t + i - 1) % n]

(* A ring with any indices is like this.                                   *)
LEMMA RingFacts ==
    ASSUME NEW S, NEW n \in Nat, n > 1, NEW buf \in [0 .. (n - 1) -> S],
           NEW h \in 0 .. (n - 1), NEW t \in 0 .. (n - 1)
    PROVE  RingSays(S, n, buf, h, t)
<1>0. /\ \A a \in 0 .. (n - 1) : a % n = a
      /\ \A a \in n .. (2 * n - 1) : a % n = a - n
      /\ \A a \in (-n) .. (-1) : a % n = a + n
  BY Wrap
<1>1. (h - t) % n = IF t <= h THEN h - t ELSE h - t + n
  <2>1. CASE t <= h
    <3>1. h - t \in 0 .. (n - 1)
      BY <2>1
    <3> QED BY <3>1, <2>1, <1>0
  <2>2. CASE ~(t <= h)
    <3>1. h - t \in (-n) .. (-1)
      BY <2>2
    <3> QED BY <3>1, <2>2, <1>0
  <2> QED BY <2>1, <2>2
<1>2. (h - t) % n \in 0 .. (n - 1)
  BY <1>1
<1>3. ASSUME NEW i \in 1 .. n
      PROVE  /\ (t + i - 1) % n = IF t + i - 1 < n THEN t + i - 1 ELSE t + i - 1 - n
             /\ (t + i - 1) % n \in 0 .. (n - 1)
  <2>1. CASE t + i - 1 < n
    <3>1. t + i - 1 \in 0 .. (n - 1)
      BY <2>1
    <3> QED BY <3>1, <2>1, <1>0
  <2>2. CASE ~(t + i - 1 < n)
    <3>1. t + i - 1 \in n .. (2 * n - 1) /\ t + i - 1 - n \in 0 .. (n - 1)
      BY <2>2
    <3> QED BY <3>1, <2>2, <1>0
  <2> QED BY <2>1, <2>2
<1>4. (h + 1) % n = IF h + 1 < n THEN h + 1 ELSE 0
  <2>1. CASE h + 1 < n
    <3>1. h + 1 \in 0 .. (n - 1)
      BY <2>1
    <3> QED BY <3>1, <2>1, <1>0
  <2>2. CASE ~(h + 1 < n)
    <3>1. h + 1 \in n .. (2 * n - 1) /\ h + 1 = n
      BY <2>2
    <3> QED BY <3>1, <2>2, <1>0
  <2> QED BY <2>1, <2>2
<1>5. (h + 1) % n \in 0 .. (n - 1)
  BY <1>4
<1> DEFINE d == (h - t) % n
<1>6. d \in Nat /\ \A i \in 1 .. d : i \in 1 .. n /\ buf[(t + i - 1) % n] \in S
  <2>1. d \in Nat /\ d < n
    BY <1>2
  <2>2. \A i \in 1 .. d : i \in 1 .. n
    BY <2>1
  <2>3. \A i \in 1 .. d : (t + i - 1) % n \in 0 .. (n - 1)
    BY <2>2, <1>3
  <2> QED BY <2>1, <2>2, <2>3
<1>7. /\ RingSeq(buf, h, t, n) \in [1 .. d -> S]
      /\ \A i \in 1 .. d : RingSeq(buf, h, t, n)[i] = buf[(t + i - 1) % n]
  BY <1>6 DEF RingSeq
<1> HIDE DEF d
<1>8. RingSeq(buf, h, t, n) \in Seq(S) /\ Len(RingSeq(buf, h, t, n)) = d
  BY <1>6, <1>7
<1> QED BY <1>1, <1>2, <1>3, <1>4, <1>5, <1>7, <1>8 DEF d, RingSays

(* A character stored in the free slot at the head is not in the ring yet. *)
LEMMA RingStore ==
    ASSUME NEW S, NEW n \in Nat, n > 1, NEW buf \in [0 .. (n - 1) -> S],
           NEW h \in 0 .. (n - 1), NEW t \in 0 .. (n - 1), NEW b,
           \A i \in 0 .. (n - 1) : i # h => b[i] = buf[i]
    PROVE  RingSeq(b, h, t, n) = RingSeq(buf, h, t, n)
<1> DEFINE d == (h - t) % n
           sl(i) == (t + i - 1) % n
<1>1. /\ d = IF t <= h THEN h - t ELSE h - t + n
      /\ \A i \in 1 .. n : sl(i) = IF t + i - 1 < n THEN t + i - 1 ELSE t + i - 1 - n
      /\ \A i \in 1 .. n : sl(i) \in 0 .. (n - 1)
  <2>1. RingSays(S, n, buf, h, t)
    BY RingFacts
  <2> QED BY <2>1 DEF RingSays
<1> HIDE DEF d, sl
<1>2. ASSUME NEW i \in 1 .. d PROVE i \in 1 .. n /\ sl(i) # h
  <2>1. d \in Nat /\ d < n
    BY <1>1
  <2>2. i \in 1 .. n
    BY <2>1
  <2>3. sl(i) = IF t + i - 1 < n THEN t + i - 1 ELSE t + i - 1 - n
    BY <1>1, <2>2
  <2> QED BY <1>1, <2>1, <2>2, <2>3
<1>3. \A i \in 1 .. d : b[sl(i)] = buf[sl(i)]
  BY <1>1, <1>2
<1> QED BY <1>3 DEF RingSeq, d, sl

(* Moving the head over that slot appends its character.                   *)
LEMMA RingPush ==
    ASSUME NEW S, NEW n \in Nat, n > 1, NEW buf \in [0 .. (n - 1) -> S],
           NEW h \in 0 .. (n - 1), NEW t \in 0 .. (n - 1), (h + 1) % n # t
    PROVE  RingSeq(buf, (h + 1) % n, t, n) = Append(RingSeq(buf, h, t, n), buf[h])
<1> DEFINE nx == (h + 1) % n
           d == (h - t) % n
           e == (nx - t) % n
           r == RingSeq(buf, h, t, n)
           r1 == RingSeq(buf, nx, t, n)
           sl(i) == (t + i - 1) % n
<1>1. /\ d = IF t <= h THEN h - t ELSE h - t + n
      /\ nx = IF h + 1 < n THEN h + 1 ELSE 0
      /\ nx \in 0 .. (n - 1)
      /\ \A i \in 1 .. n : sl(i) = IF t + i - 1 < n THEN t + i - 1 ELSE t + i - 1 - n
      /\ r \in Seq(S) /\ Len(r) = d
      /\ \A i \in 1 .. d : r[i] = buf[sl(i)]
  <2>1. RingSays(S, n, buf, h, t)
    BY RingFacts
  <2> QED BY <2>1 DEF RingSays
<1> HIDE DEF nx
<1>2. /\ e = IF t <= nx THEN nx - t ELSE nx - t + n
      /\ r1 \in Seq(S) /\ Len(r1) = e
      /\ \A i \in 1 .. e : r1[i] = buf[sl(i)]
  <2>1. RingSays(S, n, buf, nx, t)
    BY <1>1, RingFacts
  <2> QED BY <2>1 DEF RingSays
<1> HIDE DEF d, e, r, r1, sl
<1>3. d \in Nat /\ d + 1 <= n /\ e = d + 1
  <2>1. /\ d = IF t <= h THEN h - t ELSE h - t + n
        /\ nx = IF h + 1 < n THEN h + 1 ELSE 0
        /\ nx # t
        /\ e = IF t <= nx THEN nx - t ELSE nx - t + n
    BY <1>1, <1>2 DEF nx
  <2> QED BY <2>1
<1>4. sl(d + 1) = h
  <2>1. d + 1 \in 1 .. n
    BY <1>3
  <2>2. sl(d + 1) = IF t + (d + 1) - 1 < n THEN t + (d + 1) - 1 ELSE t + (d + 1) - 1 - n
    BY <2>1, <1>1
  <2> QED BY <2>2, <1>1, <1>3
<1> DEFINE a == Append(r, buf[h])
<1>5. /\ a \in Seq(S) /\ Len(a) = d + 1 /\ a[d + 1] = buf[h]
      /\ \A i \in 1 .. d : a[i] = r[i]
  <2>1. buf[h] \in S /\ r \in Seq(S) /\ Len(r) = d
    BY <1>1
  <2>2. /\ a \in Seq(S) /\ Len(a) = Len(r) + 1 /\ a[Len(r) + 1] = buf[h]
        /\ \A i \in 1 .. Len(r) : a[i] = r[i]
    BY <2>1, AppendProperties
  <2> HIDE DEF a
  <2> QED BY <2>1, <2>2
<1> HIDE DEF a
<1>6. \A i \in 1 .. e : i \in 1 .. d \/ i = d + 1
  BY <1>3
<1>7. \A i \in 1 .. e : r1[i] = a[i]
  BY <1>1, <1>2, <1>4, <1>5, <1>6
<1>8. r1 = a
  BY <1>2, <1>3, <1>5, <1>7, SeqEqual
<1> QED BY <1>8 DEF r1, a, nx, r

(* Moving the tail takes the oldest character out.                         *)
LEMMA RingPop ==
    ASSUME NEW S, NEW n \in Nat, n > 1, NEW buf \in [0 .. (n - 1) -> S],
           NEW h \in 0 .. (n - 1), NEW t \in 0 .. (n - 1), h # t, NEW s \in Seq(S)
    PROVE  s \o RingSeq(buf, h, t, n) = Append(s, buf[t]) \o RingSeq(buf, h, (t + 1) % n, n)
<1> DEFINE nt == (t + 1) % n
           d == (h - t) % n
           e == (h - nt) % n
           r == RingSeq(buf, h, t, n)
           r1 == RingSeq(buf, h, nt, n)
           sl(i) == (t + i - 1) % n
           s1(i) == (nt + i - 1) % n
<1>1. /\ d = IF t <= h THEN h - t ELSE h - t + n
      /\ \A i \in 1 .. n : sl(i) = IF t + i - 1 < n THEN t + i - 1 ELSE t + i - 1 - n
      /\ r \in Seq(S) /\ Len(r) = d
      /\ \A i \in 1 .. d : r[i] = buf[sl(i)]
  <2>1. RingSays(S, n, buf, h, t)
    BY RingFacts
  <2> QED BY <2>1 DEF RingSays
<1>2. nt = (IF t + 1 < n THEN t + 1 ELSE 0) /\ nt \in 0 .. (n - 1)
  <2>1. RingSays(S, n, buf, t, t)
    BY RingFacts
  <2> QED BY <2>1 DEF RingSays
<1> HIDE DEF nt
<1>3. /\ e = IF nt <= h THEN h - nt ELSE h - nt + n
      /\ \A i \in 1 .. n : s1(i) = IF nt + i - 1 < n THEN nt + i - 1 ELSE nt + i - 1 - n
      /\ r1 \in Seq(S) /\ Len(r1) = e
      /\ \A i \in 1 .. e : r1[i] = buf[s1(i)]
  <2>1. RingSays(S, n, buf, h, nt)
    BY <1>2, RingFacts
  <2> QED BY <2>1 DEF RingSays
<1> HIDE DEF d, e, r, r1, sl, s1
<1>4. e \in Nat /\ d = e + 1 /\ d < n
  <2>1. /\ d = IF t <= h THEN h - t ELSE h - t + n
        /\ nt = IF t + 1 < n THEN t + 1 ELSE 0
        /\ e = IF nt <= h THEN h - nt ELSE h - nt + n
    BY <1>1, <1>2, <1>3
  <2> QED BY <2>1
<1>5. sl(1) = t
  <2>1. sl(1) = IF t + 1 - 1 < n THEN t + 1 - 1 ELSE t + 1 - 1 - n
    BY <1>1
  <2> QED BY <2>1
<1>6. ASSUME NEW i \in 1 .. e PROVE s1(i) = sl(i + 1)
  <2>1. i \in 1 .. n /\ i + 1 \in 1 .. n
    BY <1>4
  <2>2. /\ s1(i) = IF nt + i - 1 < n THEN nt + i - 1 ELSE nt + i - 1 - n
        /\ sl(i + 1) = IF t + (i + 1) - 1 < n THEN t + (i + 1) - 1 ELSE t + (i + 1) - 1 - n
    BY <1>1, <1>3, <2>1
  <2> QED BY <2>1, <2>2, <1>2
<1>7. r = <<buf[t]>> \o r1
  <2>1. buf[t] \in S /\ <<buf[t]>> \in Seq(S) /\ Len(<<buf[t]>>) = 1 /\ <<buf[t]>>[1] = buf[t]
    OBVIOUS
  <2> DEFINE u == <<buf[t]>>
             v == u \o r1
  <2>2. /\ v \in Seq(S) /\ Len(v) = 1 + e
        /\ \A i \in 1 .. (1 + e) : v[i] = IF i <= 1 THEN u[i] ELSE r1[i - 1]
    BY <2>1, <1>3, ConcatProperties
  <2> HIDE DEF v
  <2>3. ASSUME NEW i \in 1 .. Len(r) PROVE r[i] = v[i]
    <3>0. i \in 1 .. (1 + e) /\ i \in 1 .. d /\ r[i] = buf[sl(i)]
      BY <1>1, <1>4
    <3>1. CASE i = 1
      BY <3>0, <3>1, <2>1, <2>2, <1>5
    <3>2. CASE i # 1
      <4>1. i - 1 \in 1 .. e /\ (i - 1) + 1 = i /\ ~(i <= 1)
        BY <3>0, <3>2, <1>4
      <4>2. r1[i - 1] = buf[s1(i - 1)] /\ s1(i - 1) = sl((i - 1) + 1)
        BY <4>1, <1>3, <1>6
      <4> QED BY <4>1, <4>2, <3>0, <2>2
    <3> QED BY <3>1, <3>2
  <2>4. r \in Seq(S) /\ v \in Seq(S) /\ Len(r) = Len(v)
    BY <1>1, <1>4, <2>2
  <2>5. r = v
    BY <2>3, <2>4, SeqEqual
  <2> QED BY <2>5 DEF v
<1>8. s \o (<<buf[t]>> \o r1) = (s \o <<buf[t]>>) \o r1
  <2> DEFINE u == <<buf[t]>>
  <2>1. s \in Seq(S) /\ u \in Seq(S) /\ r1 \in Seq(S)
    BY <1>3
  <2> HIDE DEF u
  <2>2. (s \o u) \o r1 = s \o (u \o r1)
    BY <2>1, ConcatAssociative, SMTT(20)
  <2> QED BY <2>2 DEF u
<1>9. Append(s, buf[t]) = s \o <<buf[t]>>
  OBVIOUS
<1> QED BY <1>7, <1>8, <1>9 DEF r, r1, nt
-----------------------------------------------------------------------------
(* UART, K64F: transmit.                                                   *)

(* The drivers of both boards, and their interrupt and shift registers.    *)
UartSpec == UartInit /\ [][RingNext \/ UsartNext]_uartVars

TxSlot == 0 .. (UART_TX_BUF_SIZE - 1)
RxSlot == 0 .. (UART_RX_BUF_SIZE - 1)

PutterRecord == [step : {"out", "full", "head", "tie"}, next : TxSlot, c : Nat]

TxTypeOK ==
    /\ tx \in [buf : [TxSlot -> Nat], head : TxSlot, tail : TxSlot, tie : BOOLEAN]
    /\ putter \in [Printer -> PutterRecord]
    /\ put \in Seq(Nat) /\ sent \in Seq(Nat)

(* Tasks that take turns: one at most is in uart_putc, its next_head is    *)
(* that of the ring, and once it has seen room for its character there     *)
(* stays room, whatever the interrupt does.                                *)
TxTurns ==
    /\ \A p, r \in Printer : putter[p].step # "out" /\ putter[r].step # "out" => p = r
    /\ \A p \in Printer :
          /\ putter[p].step \in {"full", "head"} => putter[p].next = (tx.head + 1) % UART_TX_BUF_SIZE
          /\ putter[p].step = "head" => putter[p].next # tx.tail /\ tx.buf[tx.head] = putter[p].c

TxFifo == put = sent \o RingSeq(tx.buf, tx.head, tx.tail, UART_TX_BUF_SIZE)

(* Whoever moved the head has yet to enable the interrupt, or has.         *)
TxTie == tx.head # tx.tail => tx.tie \/ \E p \in Printer : putter[p].step = "tie"

TxInv == TxTypeOK /\ (serial => TxTurns /\ TxFifo) /\ TxTie

(* The sizes of the rings.                                                 *)
LEMMA RingSizes ==
    /\ UART_TX_BUF_SIZE \in Nat /\ UART_TX_BUF_SIZE > 1
    /\ UART_RX_BUF_SIZE \in Nat /\ UART_RX_BUF_SIZE > 1
BY UartAssumption

(* The next index of a ring is one of its indices.                         *)
LEMMA NextSlot ==
    ASSUME NEW n \in Nat, n > 1, NEW h \in 0 .. (n - 1)
    PROVE  (h + 1) % n \in 0 .. (n - 1)
<1>1. /\ \A a \in 0 .. (n - 1) : a % n = a
      /\ \A a \in n .. (2 * n - 1) : a % n = a - n
      /\ \A a \in (-n) .. (-1) : a % n = a + n
  BY Wrap
<1>2. CASE h + 1 < n
  <2>1. h + 1 \in 0 .. (n - 1)
    BY <1>2
  <2> QED BY <2>1, <1>1
<1>3. CASE h + 1 = n
  <2>1. h + 1 \in n .. (2 * n - 1) /\ h + 1 - n \in 0 .. (n - 1)
    BY <1>3
  <2> QED BY <2>1, <1>1
<1> QED BY <1>2, <1>3

(* What is appended to the second of two sequences is appended to both.    *)
LEMMA AppendLast ==
    ASSUME NEW s \in Seq(Nat), NEW r \in Seq(Nat), NEW x \in Nat
    PROVE  Append(s \o r, x) = s \o Append(r, x)
<1>1. s \o r \in Seq(Nat) /\ <<x>> \in Seq(Nat)
  BY ConcatProperties
<1>2. Append(s \o r, x) = (s \o r) \o <<x>> /\ Append(r, x) = r \o <<x>>
  BY <1>1, AppendIsConcat
<1>3. (s \o r) \o <<x>> = s \o (r \o <<x>>)
  BY <1>1, ConcatAssociative
<1> QED BY <1>2, <1>3

(* uart_putc is entered: with turns, nobody else is in it.                 *)
LEMMA TxEnters == ASSUME NEW p \in Printer, TxInv, EnterPutc(p) PROVE TxInv'
<1> DEFINE e == [step |-> "full", next |-> (tx.head + 1) % UART_TX_BUF_SIZE,
                 c |-> 1 + Len(put) + Cardinality(Putting)]
<1>0. TxTypeOK /\ TxTie /\ (serial => TxTurns /\ TxFifo)
  BY DEF TxInv
<1>1. /\ putter[p].step = "out" /\ putter' = [putter EXCEPT ![p] = e]
      /\ tx' = tx /\ serial' = serial /\ put' = put /\ sent' = sent
      /\ serial => Putting = {}
  BY DEF EnterPutc
<1>2. e \in PutterRecord
  <2>1. (tx.head + 1) % UART_TX_BUF_SIZE \in TxSlot
    BY <1>0, RingSizes, NextSlot DEF TxTypeOK, TxSlot
  <2>2. Cardinality(Putting) \in Nat
    <3>1. Putting \subseteq Printer
      BY DEF Putting
    <3> QED BY <3>1, UartAssumption, FS_Subset, FS_CardinalityType
  <2>3. Len(put) \in Nat
    BY <1>0 DEF TxTypeOK
  <2> QED BY <2>1, <2>2, <2>3 DEF PutterRecord
<1>3. e.step = "full" /\ e.next = (tx.head + 1) % UART_TX_BUF_SIZE
  OBVIOUS
<1> HIDE DEF e
<1>4. TxTypeOK'
  BY <1>0, <1>1, <1>2 DEF TxTypeOK
<1>5. putter \in [Printer -> PutterRecord] /\ putter'[p] = e /\ \A r \in Printer : r # p => putter'[r] = putter[r]
  BY <1>0, <1>1 DEF TxTypeOK
<1>6. ASSUME serial PROVE TxTurns' /\ TxFifo'
  <2>1. \A r \in Printer : putter[r].step = "out"
    BY <1>1, <1>6 DEF Putting
  <2>2. TxTurns'
    BY <1>1, <1>3, <1>5, <2>1 DEF TxTurns
  <2> QED BY <1>0, <1>1, <1>6, <2>2 DEF TxFifo
<1>7. TxTie'
  BY <1>0, <1>1, <1>5 DEF TxTie
<1> QED BY <1>1, <1>4, <1>6, <1>7 DEF TxInv

(* The three steps of uart_putc: the character is stored in the free slot, *)
(* the head moves over it, the interrupt is enabled.                       *)
LEMMA TxPuts == ASSUME NEW p \in Printer, TxInv, uart_putc(p) PROVE TxInv'
<1>0. /\ TxTypeOK /\ TxTie /\ (serial => TxTurns /\ TxFifo)
      /\ tx \in [buf : [TxSlot -> Nat], head : TxSlot, tail : TxSlot, tie : BOOLEAN]
      /\ putter \in [Printer -> PutterRecord] /\ putter[p] \in PutterRecord
      /\ tx.buf \in [TxSlot -> Nat] /\ tx.head \in TxSlot /\ tx.tail \in TxSlot
      /\ put \in Seq(Nat) /\ sent \in Seq(Nat)
  BY DEF TxInv, TxTypeOK
<1>1. serial' = serial /\ sent' = sent
  BY DEF uart_putc
<1>7. /\ tx.buf \in [0 .. (UART_TX_BUF_SIZE - 1) -> Nat]
      /\ tx.head \in 0 .. (UART_TX_BUF_SIZE - 1) /\ tx.tail \in 0 .. (UART_TX_BUF_SIZE - 1)
      /\ UART_TX_BUF_SIZE \in Nat /\ UART_TX_BUF_SIZE > 1
  BY <1>0, RingSizes DEF TxSlot
<1>2. putter[p].next \in TxSlot /\ putter[p].c \in Nat
  BY <1>0 DEF PutterRecord
<1>3. ASSUME NEW g \in {"out", "full", "head", "tie"}, PutcGoto(p, g)
      PROVE  /\ putter' \in [Printer -> PutterRecord]
             /\ putter'[p].step = g /\ putter'[p].next = putter[p].next /\ putter'[p].c = putter[p].c
             /\ \A r \in Printer : r # p => putter'[r] = putter[r]
  <2> DEFINE e == [putter[p] EXCEPT !.step = g]
  <2>1. e \in PutterRecord /\ e.step = g /\ e.next = putter[p].next /\ e.c = putter[p].c
    BY <1>0 DEF PutterRecord
  <2>2. putter' = [putter EXCEPT ![p] = e]
    BY <1>3 DEF PutcGoto
  <2> HIDE DEF e
  <2> QED BY <1>0, <2>1, <2>2
<1>4. CASE putter[p].step = "full" /\ Room(p) /\ PutcStore(p) /\ PutcGoto(p, "head")
  <2> DEFINE b == [tx.buf EXCEPT ![tx.head] = putter[p].c]
  <2>1. tx' = [tx EXCEPT !.buf = b] /\ put' = put
    BY <1>4 DEF PutcStore
  <2>2. b \in [TxSlot -> Nat] /\ b[tx.head] = putter[p].c
    BY <1>0, <1>2
  <2>9. \A i \in 0 .. (UART_TX_BUF_SIZE - 1) : i # tx.head => b[i] = tx.buf[i]
    BY <1>7
  <2> HIDE DEF b
  <2>3. RingSeq(b, tx.head, tx.tail, UART_TX_BUF_SIZE)
        = RingSeq(tx.buf, tx.head, tx.tail, UART_TX_BUF_SIZE)
    BY <1>7, <2>9, RingStore, ZenonT(20)
  <2>4. /\ tx' \in [buf : [TxSlot -> Nat], head : TxSlot, tail : TxSlot, tie : BOOLEAN]
        /\ tx'.buf = b /\ tx'.head = tx.head /\ tx'.tail = tx.tail /\ tx'.tie = tx.tie
    BY <1>0, <2>1, <2>2
  <2>5. /\ putter' \in [Printer -> PutterRecord]
        /\ putter'[p].step = "head" /\ putter'[p].next = putter[p].next /\ putter'[p].c = putter[p].c
        /\ \A r \in Printer : r # p => putter'[r] = putter[r]
    BY <1>3, <1>4
  <2>6. TxTypeOK'
    BY <1>0, <1>1, <2>1, <2>4, <2>5 DEF TxTypeOK
  <2>7. ASSUME serial PROVE TxTurns' /\ TxFifo'
    <3>1. TxTurns /\ TxFifo /\ putter[p].next # tx.tail /\ putter[p].step = "full"
      BY <1>0, <1>4, <2>7 DEF Room
    <3>2. \A r \in Printer : r # p => putter[r].step = "out" /\ putter'[r].step = "out"
      BY <3>1, <2>5 DEF TxTurns
    <3>3. putter[p].next = (tx.head + 1) % UART_TX_BUF_SIZE
      BY <3>1 DEF TxTurns
    <3>4. TxTurns'
      BY <3>1, <3>2, <3>3, <2>2, <2>4, <2>5 DEF TxTurns
    <3> QED BY <3>1, <3>4, <1>1, <2>1, <2>3, <2>4 DEF TxFifo
  <2>8. TxTie'
    BY <1>0, <1>4, <2>4, <2>5 DEF TxTie
  <2> QED BY <1>1, <2>6, <2>7, <2>8 DEF TxInv
<1>5. CASE putter[p].step = "head" /\ PutcHead(p) /\ PutcGoto(p, "tie")
  <2>1. tx' = [tx EXCEPT !.head = putter[p].next] /\ put' = Append(put, putter[p].c)
    BY <1>5 DEF PutcHead
  <2>2. /\ tx' \in [buf : [TxSlot -> Nat], head : TxSlot, tail : TxSlot, tie : BOOLEAN]
        /\ tx'.buf = tx.buf /\ tx'.head = putter[p].next /\ tx'.tail = tx.tail /\ tx'.tie = tx.tie
    BY <1>0, <1>2, <2>1
  <2>3. /\ putter' \in [Printer -> PutterRecord]
        /\ putter'[p].step = "tie" /\ putter'[p].next = putter[p].next /\ putter'[p].c = putter[p].c
        /\ \A r \in Printer : r # p => putter'[r] = putter[r]
    BY <1>3, <1>5
  <2>4. put' \in Seq(Nat)
    BY <1>0, <1>2, <2>1, AppendProperties
  <2>5. TxTypeOK'
    BY <1>0, <1>1, <2>2, <2>3, <2>4 DEF TxTypeOK
  <2>6. ASSUME serial PROVE TxTurns' /\ TxFifo'
    <3>1. TxTurns /\ TxFifo /\ putter[p].step = "head"
      BY <1>0, <1>5, <2>6
    <3>2. \A r \in Printer : r # p => putter[r].step = "out" /\ putter'[r].step = "out"
      BY <3>1, <2>3 DEF TxTurns
    <3>3. /\ putter[p].next = (tx.head + 1) % UART_TX_BUF_SIZE
          /\ putter[p].next # tx.tail /\ tx.buf[tx.head] = putter[p].c
      BY <3>1 DEF TxTurns
    <3>4. TxTurns'
      BY <3>2, <2>3 DEF TxTurns
    <3> DEFINE R == RingSeq(tx.buf, tx.head, tx.tail, UART_TX_BUF_SIZE)
    <3>5. RingSeq(tx.buf, putter[p].next, tx.tail, UART_TX_BUF_SIZE) = Append(R, putter[p].c)
      <4>1. RingSeq(tx.buf, (tx.head + 1) % UART_TX_BUF_SIZE, tx.tail, UART_TX_BUF_SIZE)
            = Append(R, tx.buf[tx.head])
        <5>1. (tx.head + 1) % UART_TX_BUF_SIZE # tx.tail
          BY <3>3
        <5> QED BY <1>7, <5>1, RingPush
      <4> QED BY <3>3, <4>1
    <3>6. R \in Seq(Nat)
      <4>1. RingSays(Nat, UART_TX_BUF_SIZE, tx.buf, tx.head, tx.tail)
        BY <1>7, RingFacts
      <4> QED BY <4>1 DEF RingSays
    <3> HIDE DEF R
    <3>7. Append(sent \o R, putter[p].c) = sent \o Append(R, putter[p].c)
      <4>1. sent \in Seq(Nat) /\ putter[p].c \in Nat
        BY <1>0, <1>2
      <4> QED BY <3>6, <4>1, AppendLast
    <3>8. put = sent \o R
      BY <3>1 DEF TxFifo, R
    <3> QED BY <3>4, <3>5, <3>7, <3>8, <1>1, <2>1, <2>2 DEF TxFifo
  <2>7. TxTie'
    BY <2>3 DEF TxTie
  <2> QED BY <1>1, <2>5, <2>6, <2>7 DEF TxInv
<1>6. CASE putter[p].step = "tie" /\ PutcTie /\ PutcGoto(p, "out")
  <2>1. tx' = [tx EXCEPT !.tie = TRUE] /\ put' = put
    BY <1>6 DEF PutcTie
  <2>2. /\ tx' \in [buf : [TxSlot -> Nat], head : TxSlot, tail : TxSlot, tie : BOOLEAN]
        /\ tx'.buf = tx.buf /\ tx'.head = tx.head /\ tx'.tail = tx.tail /\ tx'.tie
    BY <1>0, <2>1
  <2>3. /\ putter' \in [Printer -> PutterRecord]
        /\ putter'[p].step = "out" /\ putter'[p].next = putter[p].next /\ putter'[p].c = putter[p].c
        /\ \A r \in Printer : r # p => putter'[r] = putter[r]
    BY <1>3, <1>6
  <2>4. TxTypeOK'
    BY <1>0, <1>1, <2>1, <2>2, <2>3 DEF TxTypeOK
  <2>5. ASSUME serial PROVE TxTurns' /\ TxFifo'
    <3>1. TxTurns /\ TxFifo
      BY <1>0, <2>5
    <3>2. \A r \in Printer : putter'[r].step = "out"
      BY <3>1, <1>6, <2>3 DEF TxTurns
    <3>3. TxTurns'
      BY <3>2 DEF TxTurns
    <3> QED BY <3>1, <3>3, <1>1, <2>1, <2>2 DEF TxFifo
  <2>6. TxTie'
    BY <2>2 DEF TxTie
  <2> QED BY <1>1, <2>4, <2>5, <2>6 DEF TxInv
<1> QED BY <1>4, <1>5, <1>6 DEF uart_putc

(* The transmit half of the interrupt takes the oldest character, or, when *)
(* there is none, disables itself.                                         *)
LEMMA TxDrains ==
    ASSUME NEW tdre \in BOOLEAN, TxInv, TransmitHalf(tdre),
           putter' = putter, serial' = serial, put' = put
    PROVE  TxInv'
<1>0. /\ TxTypeOK /\ TxTie /\ (serial => TxTurns /\ TxFifo)
      /\ tx \in [buf : [TxSlot -> Nat], head : TxSlot, tail : TxSlot, tie : BOOLEAN]
      /\ tx.buf \in [TxSlot -> Nat] /\ tx.head \in TxSlot /\ tx.tail \in TxSlot
      /\ put \in Seq(Nat) /\ sent \in Seq(Nat)
  BY DEF TxInv, TxTypeOK
<1>4. /\ tx.buf \in [0 .. (UART_TX_BUF_SIZE - 1) -> Nat]
      /\ tx.head \in 0 .. (UART_TX_BUF_SIZE - 1) /\ tx.tail \in 0 .. (UART_TX_BUF_SIZE - 1)
      /\ UART_TX_BUF_SIZE \in Nat /\ UART_TX_BUF_SIZE > 1
  BY <1>0, RingSizes DEF TxSlot
<1>1. CASE tdre /\ tx.tail # tx.head
  <2> DEFINE n == (tx.tail + 1) % UART_TX_BUF_SIZE
  <2>1. sent' = Append(sent, tx.buf[tx.tail]) /\ tx' = [tx EXCEPT !.tail = n]
    BY <1>1 DEF TransmitHalf
  <2>2. n \in TxSlot /\ tx.buf[tx.tail] \in Nat
    BY <1>0, RingSizes, NextSlot DEF TxSlot
  <2>3. sent \o RingSeq(tx.buf, tx.head, tx.tail, UART_TX_BUF_SIZE)
        = Append(sent, tx.buf[tx.tail]) \o RingSeq(tx.buf, tx.head, n, UART_TX_BUF_SIZE)
    <3>1. sent \in Seq(Nat) /\ tx.head # tx.tail
      BY <1>0, <1>1
    <3> QED BY <3>1, <1>4, RingPop, ZenonT(20)
  <2>4. (tx.head + 1) % UART_TX_BUF_SIZE # n
    <3>1. /\ \A a \in TxSlot : (a + 1) % UART_TX_BUF_SIZE
                                = IF a + 1 < UART_TX_BUF_SIZE THEN a + 1 ELSE 0
      <4>1. ASSUME NEW a \in TxSlot
            PROVE  (a + 1) % UART_TX_BUF_SIZE = IF a + 1 < UART_TX_BUF_SIZE THEN a + 1 ELSE 0
        <5>1. RingSays(Nat, UART_TX_BUF_SIZE, tx.buf, a, a)
          <6>1. a \in 0 .. (UART_TX_BUF_SIZE - 1)
            BY DEF TxSlot
          <6> QED BY <6>1, <1>4, RingFacts
        <5> QED BY <5>1 DEF RingSays
      <4> QED BY <4>1
    <3>2. /\ n = IF tx.tail + 1 < UART_TX_BUF_SIZE THEN tx.tail + 1 ELSE 0
          /\ (tx.head + 1) % UART_TX_BUF_SIZE = IF tx.head + 1 < UART_TX_BUF_SIZE THEN tx.head + 1 ELSE 0
      BY <1>0, <3>1
    <3> DEFINE N == UART_TX_BUF_SIZE
               h == tx.head
               t == tx.tail
               x == (h + 1) % N
    <3>3. /\ N \in Nat /\ h \in 0 .. (N - 1) /\ t \in 0 .. (N - 1) /\ h # t
          /\ n = (IF t + 1 < N THEN t + 1 ELSE 0) /\ x = IF h + 1 < N THEN h + 1 ELSE 0
      BY <1>1, <1>4, <3>2
    <3> HIDE DEF n, x, h, t, N
    <3>4. x # n
      BY <3>3
    <3> QED BY <3>4 DEF x, h, t, N
  <2> HIDE DEF n
  <2>5. /\ tx' \in [buf : [TxSlot -> Nat], head : TxSlot, tail : TxSlot, tie : BOOLEAN]
        /\ tx'.buf = tx.buf /\ tx'.head = tx.head /\ tx'.tail = n /\ tx'.tie = tx.tie
    BY <1>0, <2>1, <2>2
  <2>6. TxTypeOK'
    BY <1>0, <2>1, <2>2, <2>5, AppendProperties DEF TxTypeOK
  <2>7. ASSUME serial PROVE TxTurns' /\ TxFifo'
    <3>1. TxTurns /\ TxFifo
      BY <1>0, <2>7
    <3>2. TxTurns'
      BY <3>1, <2>4, <2>5 DEF TxTurns
    <3>3. TxFifo'
      BY <3>1, <2>1, <2>3, <2>5 DEF TxFifo
    <3> QED BY <3>2, <3>3
  <2>8. TxTie'
    BY <1>0, <1>1, <2>5 DEF TxTie
  <2> QED BY <2>6, <2>7, <2>8 DEF TxInv
<1>2. CASE tdre /\ tx.tail = tx.head
  <2>1. tx' = [tx EXCEPT !.tie = FALSE] /\ sent' = sent
    BY <1>2 DEF TransmitHalf
  <2>2. /\ tx' \in [buf : [TxSlot -> Nat], head : TxSlot, tail : TxSlot, tie : BOOLEAN]
        /\ tx'.buf = tx.buf /\ tx'.head = tx.head /\ tx'.tail = tx.tail
    BY <1>0, <2>1
  <2>3. TxTypeOK'
    BY <1>0, <2>1, <2>2 DEF TxTypeOK
  <2>4. ASSUME serial PROVE TxTurns' /\ TxFifo'
    BY <1>0, <2>1, <2>2, <2>4 DEF TxTurns, TxFifo
  <2>5. TxTie'
    BY <1>2, <2>2 DEF TxTie
  <2> QED BY <2>3, <2>4, <2>5 DEF TxInv
<1>3. CASE ~tdre
  <2>1. tx' = tx /\ sent' = sent
    BY <1>3 DEF TransmitHalf
  <2> QED BY <2>1 DEF TxInv, TxTypeOK, TxTurns, TxFifo, TxTie
<1> QED BY <1>1, <1>2, <1>3
-----------------------------------------------------------------------------
(* UART, K64F: receive.                                                    *)

RxTypeOK ==
    /\ rx \in [buf : [RxSlot -> Nat], head : RxSlot, tail : RxSlot, count : Nat]
    /\ getting \in Nat /\ kept \in Seq(Nat) /\ got \in Seq(Nat)

RxFifo == kept = got \o RingSeq(rx.buf, rx.head, rx.tail, UART_RX_BUF_SIZE)

(* Between its two steps uart_getc holds the oldest character, whose slot  *)
(* the interrupt does not reuse.                                           *)
RxHeld == getting # 0 => rx.head # rx.tail /\ getting = rx.buf[rx.tail]

RxInv == RxTypeOK /\ RxFifo /\ RxHeld

(* The receive half of the interrupt stores the character, or drops it.    *)
LEMMA RxStores ==
    ASSUME NEW rdrf \in BOOLEAN, RxInv, ReceiveHalf(rdrf), getting' = getting, got' = got
    PROVE  RxInv'
<1>0. /\ RxTypeOK /\ RxFifo /\ RxHeld
      /\ rx \in [buf : [RxSlot -> Nat], head : RxSlot, tail : RxSlot, count : Nat]
      /\ rx.buf \in [RxSlot -> Nat] /\ rx.head \in RxSlot /\ rx.tail \in RxSlot
      /\ kept \in Seq(Nat) /\ got \in Seq(Nat)
  BY DEF RxInv, RxTypeOK
<1> DEFINE n == (rx.head + 1) % UART_RX_BUF_SIZE
           c == rx.count + 1
           b == [rx.buf EXCEPT ![rx.head] = c]
<1>1. c \in Nat
  BY <1>0
<1>2. /\ rx.buf \in [0 .. (UART_RX_BUF_SIZE - 1) -> Nat]
      /\ rx.head \in 0 .. (UART_RX_BUF_SIZE - 1) /\ rx.tail \in 0 .. (UART_RX_BUF_SIZE - 1)
      /\ UART_RX_BUF_SIZE \in Nat /\ UART_RX_BUF_SIZE > 1
  BY <1>0, RingSizes DEF RxSlot
<1>3. n \in RxSlot
  BY <1>2, NextSlot DEF RxSlot
<1>4. CASE rdrf /\ n # rx.tail
  <2>1. /\ rx' = [rx EXCEPT !.buf[rx.head] = c, !.head = n, !.count = c]
        /\ kept' = Append(kept, c)
    BY <1>4 DEF ReceiveHalf
  <2>2. rx' = [rx EXCEPT !.buf = b, !.head = n, !.count = c]
    BY <2>1
  <2> HIDE DEF c
  <2>3. b \in [RxSlot -> Nat] /\ b[rx.head] = c /\ \A i \in RxSlot : i # rx.head => b[i] = rx.buf[i]
    BY <1>0, <1>1
  <2> HIDE DEF b
  <2>4. b \in [0 .. (UART_RX_BUF_SIZE - 1) -> Nat]
    BY <2>3 DEF RxSlot
  <2>5. RingSeq(b, rx.head, rx.tail, UART_RX_BUF_SIZE)
        = RingSeq(rx.buf, rx.head, rx.tail, UART_RX_BUF_SIZE)
    <3>1. \A i \in 0 .. (UART_RX_BUF_SIZE - 1) : i # rx.head => b[i] = rx.buf[i]
      BY <2>3 DEF RxSlot
    <3> QED BY <1>2, <3>1, RingStore, ZenonT(20)
  <2> DEFINE R == RingSeq(b, rx.head, rx.tail, UART_RX_BUF_SIZE)
  <2>6. RingSeq(b, n, rx.tail, UART_RX_BUF_SIZE) = Append(R, b[rx.head])
    BY <1>2, <1>4, <2>4, RingPush
  <2>7. R \in Seq(Nat)
    <3>1. RingSays(Nat, UART_RX_BUF_SIZE, b, rx.head, rx.tail)
      BY <1>2, <2>4, RingFacts
    <3> QED BY <3>1 DEF RingSays
  <2> HIDE DEF n
  <2>8. /\ rx' \in [buf : [RxSlot -> Nat], head : RxSlot, tail : RxSlot, count : Nat]
        /\ rx'.buf = b /\ rx'.head = n /\ rx'.tail = rx.tail
    BY <1>0, <1>1, <1>3, <2>2, <2>3
  <2>9. kept = got \o R
    BY <1>0, <2>5 DEF RxFifo
  <2> HIDE DEF R
  <2>10. RxTypeOK'
    BY <1>0, <1>1, <2>1, <2>8, AppendProperties DEF RxTypeOK
  <2>11. RxFifo'
    <3>1. got \in Seq(Nat) /\ c \in Nat
      BY <1>0, <1>1
    <3>2. Append(got \o R, c) = got \o Append(R, c)
      BY <3>1, <2>7, AppendLast
    <3> QED BY <3>2, <2>1, <2>3, <2>6, <2>8, <2>9 DEF RxFifo
  <2>12. RxHeld'
    <3>1. getting # 0 => rx.tail # rx.head /\ b[rx.tail] = rx.buf[rx.tail]
      BY <1>0, <2>3 DEF RxHeld
    <3> QED BY <1>0, <1>4, <2>8, <3>1 DEF RxHeld
  <2> QED BY <2>10, <2>11, <2>12 DEF RxInv
<1>5. CASE rdrf /\ n = rx.tail
  <2>1. rx' = [rx EXCEPT !.count = c] /\ kept' = kept
    BY <1>5 DEF ReceiveHalf
  <2>2. /\ rx' \in [buf : [RxSlot -> Nat], head : RxSlot, tail : RxSlot, count : Nat]
        /\ rx'.buf = rx.buf /\ rx'.head = rx.head /\ rx'.tail = rx.tail
    BY <1>0, <1>1, <2>1
  <2> QED BY <1>0, <2>1, <2>2 DEF RxInv, RxTypeOK, RxFifo, RxHeld
<1>6. CASE ~rdrf
  <2>1. rx' = rx /\ kept' = kept
    BY <1>6 DEF ReceiveHalf
  <2> QED BY <1>0, <2>1 DEF RxInv, RxTypeOK, RxFifo, RxHeld
<1> QED BY <1>4, <1>5, <1>6

(* uart_getc reads the oldest character, then releases its slot.           *)
LEMMA RxGets == RxInv /\ uart_getc => RxInv'
<1> SUFFICES ASSUME RxInv, uart_getc PROVE RxInv'
  OBVIOUS
<1>0. /\ RxTypeOK /\ RxFifo /\ RxHeld
      /\ rx \in [buf : [RxSlot -> Nat], head : RxSlot, tail : RxSlot, count : Nat]
      /\ rx.buf \in [RxSlot -> Nat] /\ rx.head \in RxSlot /\ rx.tail \in RxSlot
      /\ kept \in Seq(Nat) /\ got \in Seq(Nat) /\ kept' = kept
  BY DEF RxInv, RxTypeOK, uart_getc
<1>1. CASE getting = 0
  <2>1. getting' = rx.buf[rx.tail] /\ rx.head # rx.tail /\ rx' = rx /\ got' = got
    BY <1>1 DEF uart_getc
  <2> QED BY <1>0, <2>1 DEF RxInv, RxTypeOK, RxFifo, RxHeld
<1>2. CASE getting # 0
  <2> DEFINE n == (rx.tail + 1) % UART_RX_BUF_SIZE
  <2>1. got' = Append(got, getting) /\ getting' = 0 /\ rx' = [rx EXCEPT !.tail = n]
    BY <1>2 DEF uart_getc
  <2>2. getting = rx.buf[rx.tail] /\ rx.head # rx.tail
    BY <1>0, <1>2 DEF RxHeld
  <2>3. /\ rx.buf \in [0 .. (UART_RX_BUF_SIZE - 1) -> Nat]
        /\ rx.head \in 0 .. (UART_RX_BUF_SIZE - 1) /\ rx.tail \in 0 .. (UART_RX_BUF_SIZE - 1)
        /\ UART_RX_BUF_SIZE \in Nat /\ UART_RX_BUF_SIZE > 1 /\ got \in Seq(Nat)
    BY <1>0, RingSizes DEF RxSlot
  <2>4. n \in RxSlot /\ getting \in Nat
    BY <1>0, <2>3, NextSlot DEF RxSlot, RxTypeOK
  <2>5. got \o RingSeq(rx.buf, rx.head, rx.tail, UART_RX_BUF_SIZE)
        = Append(got, rx.buf[rx.tail]) \o RingSeq(rx.buf, rx.head, n, UART_RX_BUF_SIZE)
    BY <2>2, <2>3, RingPop
  <2> HIDE DEF n
  <2>6. /\ rx' \in [buf : [RxSlot -> Nat], head : RxSlot, tail : RxSlot, count : Nat]
        /\ rx'.buf = rx.buf /\ rx'.head = rx.head /\ rx'.tail = n
    BY <1>0, <2>1, <2>4
  <2>7. RxTypeOK'
    BY <1>0, <2>1, <2>4, <2>6, AppendProperties DEF RxTypeOK
  <2>8. RxFifo'
    BY <1>0, <2>1, <2>2, <2>5, <2>6 DEF RxFifo
  <2> QED BY <2>1, <2>7, <2>8 DEF RxInv, RxHeld
<1> QED BY <1>1, <1>2
-----------------------------------------------------------------------------
(* UART, STM32H753ZI.                                                      *)

PrintRecord == [step : {"out", "poll", "write", "end"}, left : Nat, locked : BOOLEAN]

UsartTypeOK ==
    /\ usart \in [txe : BOOLEAN, holder : Printer \cup {Nobody}, line : Seq(Printer \X Nat),
                  lost : BOOLEAN, raw : BOOLEAN]
    /\ print \in [Printer -> PrintRecord]
    /\ \A p \in Printer : print[p].step \in {"poll", "write"} => print[p].left >= 1

(* The characters on the line count down within each string.               *)
LineWhole(l) ==
    \A i \in 1 .. Len(l) - 1 : l[i][2] > 1 => l[i + 1] = <<l[i][1], l[i][2] - 1>>

(* While only uart_puts is used: whoever prints holds the mutex; TXE stays *)
(* set between its poll and the write; and an unfinished string at the end *)
(* of the line is that of a task that will go on with it.                  *)
PutsLocked ==
    /\ \A p \in Printer : /\ print[p].step # "out" => usart.holder = p
                          /\ print[p].step = "write" => usart.txe
    /\ ~usart.lost
    /\ LineWhole(usart.line)
    /\ usart.line # <<>> /\ usart.line[Len(usart.line)][2] > 1 =>
          \E p \in Printer : /\ print[p].step \in {"poll", "write"}
                             /\ usart.line[Len(usart.line)] = <<p, print[p].left + 1>>

UsartInv == UsartTypeOK /\ (~usart.raw => PutsLocked)

(* A string is entered: with the mutex, when nobody prints.                *)
LEMMA UsartEnters ==
    ASSUME NEW p \in Printer, UsartInv, EnterPuts(p) \/ EnterPrintf(p)
    PROVE  UsartInv'
<1> DEFINE e(b) == [step |-> "poll", left |-> StringLength, locked |-> b]
<1>0. /\ usart \in [txe : BOOLEAN, holder : Printer \cup {Nobody}, line : Seq(Printer \X Nat),
                    lost : BOOLEAN, raw : BOOLEAN]
      /\ print \in [Printer -> PrintRecord] /\ (~usart.raw => PutsLocked)
      /\ \A r \in Printer : print[r].step \in {"poll", "write"} => print[r].left >= 1
  BY DEF UsartInv, UsartTypeOK
<1>1. \A b \in BOOLEAN : e(b) \in PrintRecord /\ e(b).step = "poll" /\ e(b).left = StringLength
  BY UartAssumption DEF PrintRecord
<1>4. StringLength \in Nat /\ StringLength >= 1
  BY UartAssumption
<1> HIDE DEF e
<1>2. CASE EnterPuts(p)
  <2>1. /\ print' = [print EXCEPT ![p] = e(TRUE)] /\ usart.holder = Nobody
        /\ usart' = [usart EXCEPT !.holder = p]
    BY <1>2 DEF EnterPuts, TakeMutex, e
  <2>2. /\ print' \in [Printer -> PrintRecord]
        /\ print'[p] = e(TRUE) /\ \A r \in Printer : r # p => print'[r] = print[r]
    BY <1>0, <1>1, <2>1
  <2>3. /\ usart' \in [txe : BOOLEAN, holder : Printer \cup {Nobody}, line : Seq(Printer \X Nat),
                       lost : BOOLEAN, raw : BOOLEAN]
        /\ usart'.holder = p /\ usart'.line = usart.line /\ usart'.lost = usart.lost
        /\ usart'.raw = usart.raw /\ usart'.txe = usart.txe
    BY <1>0, <2>1
  <2>4. ASSUME ~usart.raw PROVE PutsLocked'
    <3>1. \A r \in Printer : print[r].step = "out"
      BY <1>0, <2>1, <2>4, UartAssumption DEF PutsLocked
    <3>2. print'[p].step = "poll"
      BY <1>1, <2>2
    <3>3. \A r \in Printer : r # p => print'[r].step = "out"
      BY <3>1, <2>2
    <3>4. ~(usart.line # <<>> /\ usart.line[Len(usart.line)][2] > 1)
      BY <1>0, <2>4, <3>1 DEF PutsLocked
    <3> QED BY <1>0, <2>3, <2>4, <3>2, <3>3, <3>4 DEF PutsLocked
  <2>5. \A r \in Printer : print'[r].step \in {"poll", "write"} => print'[r].left >= 1
    <3>1. print'[p].left >= 1
      BY <1>1, <1>4, <2>2
    <3> QED BY <1>0, <2>2, <3>1
  <2> QED BY <2>2, <2>3, <2>4, <2>5 DEF UsartInv, UsartTypeOK
<1>3. CASE EnterPrintf(p)
  <2>1. print' = [print EXCEPT ![p] = e(FALSE)] /\ usart' = [usart EXCEPT !.raw = TRUE]
    BY <1>3 DEF EnterPrintf, e
  <2>2. print' \in [Printer -> PrintRecord]
    BY <1>0, <1>1, <2>1
  <2>4. \A r \in Printer : print'[r].step \in {"poll", "write"} => print'[r].left >= 1
    <3>1. print'[p] = e(FALSE) /\ \A r \in Printer : r # p => print'[r] = print[r]
      BY <1>0, <2>1
    <3>2. print'[p].left >= 1
      BY <1>1, <1>4, <3>1
    <3> QED BY <1>0, <3>1, <3>2
  <2>3. /\ usart' \in [txe : BOOLEAN, holder : Printer \cup {Nobody}, line : Seq(Printer \X Nat),
                       lost : BOOLEAN, raw : BOOLEAN]
        /\ usart'.raw
    BY <1>0, <2>1
  <2> QED BY <2>2, <2>3, <2>4 DEF UsartInv, UsartTypeOK
<1> QED BY <1>2, <1>3

(* uart_putc: the poll, and the write to TDR.                              *)
LEMMA UsartWrites ==
    ASSUME NEW p \in Printer, UsartInv, PollTxe(p) \/ WriteTdr(p)
    PROVE  UsartInv'
<1>0. /\ usart \in [txe : BOOLEAN, holder : Printer \cup {Nobody}, line : Seq(Printer \X Nat),
                    lost : BOOLEAN, raw : BOOLEAN]
      /\ print \in [Printer -> PrintRecord] /\ (~usart.raw => PutsLocked)
      /\ \A r \in Printer : print[r].step \in {"poll", "write"} => print[r].left >= 1
      /\ print[p] \in PrintRecord
  BY DEF UsartInv, UsartTypeOK
<1>1. CASE PollTxe(p)
  <2> DEFINE e == [print[p] EXCEPT !.step = "write"]
  <2>1. print' = [print EXCEPT ![p] = e] /\ usart' = usart /\ usart.txe /\ print[p].step = "poll"
    BY <1>1 DEF PollTxe
  <2>2. e \in PrintRecord /\ e.step = "write" /\ e.left = print[p].left
    BY <1>0 DEF PrintRecord
  <2> HIDE DEF e
  <2>3. /\ print' \in [Printer -> PrintRecord]
        /\ print'[p] = e /\ \A r \in Printer : r # p => print'[r] = print[r]
    BY <1>0, <2>1, <2>2
  <2>4. \A r \in Printer : /\ print'[r].left = print[r].left
                           /\ print'[r].step # "out" <=> print[r].step # "out"
                           /\ print'[r].step \in {"poll", "write"} <=> print[r].step \in {"poll", "write"}
    BY <2>1, <2>2, <2>3
  <2>5. ASSUME ~usart.raw PROVE PutsLocked'
    BY <1>0, <2>1, <2>4, <2>5 DEF PutsLocked
  <2>6. \A r \in Printer : print'[r].step \in {"poll", "write"} => print'[r].left >= 1
    BY <1>0, <2>4
  <2> QED BY <1>0, <2>1, <2>3, <2>5, <2>6 DEF UsartInv, UsartTypeOK
<1>2. CASE WriteTdr(p)
  <2> DEFINE c == print[p].left
             x == <<p, c>>
             s == usart.line
             a == Append(s, x)
             g == IF c = 1 THEN "end" ELSE "poll"
             e == [print[p] EXCEPT !.left = c - 1, !.step = g]
  <2>1. /\ print[p].step = "write" /\ c \in Nat /\ s \in Seq(Printer \X Nat)
        /\ x \in Printer \X Nat
    BY <1>0, <1>2 DEF WriteTdr, PrintRecord
  <2>2. /\ usart' = [usart EXCEPT !.txe = FALSE, !.lost = usart.lost \/ ~usart.txe, !.line = a]
        /\ print' = [print EXCEPT ![p] = e]
    BY <1>2 DEF WriteTdr
  <2>3. /\ a \in Seq(Printer \X Nat) /\ Len(a) = Len(s) + 1 /\ Len(s) \in Nat /\ a # <<>>
        /\ a[Len(s) + 1] = x /\ \A i \in 1 .. Len(s) : a[i] = s[i]
    BY <2>1, AppendProperties, LenProperties
  <2> HIDE DEF a
  <2>4. /\ usart' \in [txe : BOOLEAN, holder : Printer \cup {Nobody}, line : Seq(Printer \X Nat),
                       lost : BOOLEAN, raw : BOOLEAN]
        /\ usart'.holder = usart.holder /\ usart'.line = a /\ usart'.raw = usart.raw
        /\ usart'.lost = (usart.lost \/ ~usart.txe)
    BY <1>0, <2>2, <2>3
  <2>5. c >= 1
    BY <1>0, <2>1
  <2>6. e \in PrintRecord /\ e.step = g /\ e.left = c - 1
    <3>1. c - 1 \in Nat /\ g \in {"out", "poll", "write", "end"}
      BY <2>1, <2>5
    <3> HIDE DEF c, g
    <3> QED BY <1>0, <3>1 DEF PrintRecord
  <2> HIDE DEF e
  <2>7. /\ print' \in [Printer -> PrintRecord]
        /\ print'[p] = e /\ \A r \in Printer : r # p => print'[r] = print[r]
    BY <1>0, <2>2, <2>6
  <2>8. g = "poll" => c - 1 >= 1
    BY <2>1, <2>5
  <2>9. \A r \in Printer : print'[r].step \in {"poll", "write"} => print'[r].left >= 1
    BY <1>0, <2>6, <2>7, <2>8
  <2>10. ASSUME ~usart.raw PROVE PutsLocked'
    <3>1. PutsLocked /\ usart.holder = p /\ usart.txe /\ ~usart.lost
      BY <1>0, <2>1, <2>10 DEF PutsLocked
    <3>2. \A r \in Printer : r # p => print[r].step = "out" /\ print'[r].step = "out"
      BY <3>1, <2>7 DEF PutsLocked
    <3>3. ~usart'.lost
      BY <3>1, <2>4
    <3>4. \A r \in Printer : /\ print'[r].step # "out" => usart'.holder = r
                             /\ print'[r].step = "write" => usart'.txe
      BY <3>1, <3>2, <2>4, <2>6, <2>7
    <3>5. s # <<>> /\ s[Len(s)][2] > 1 => s[Len(s)] = <<p, c + 1>>
      BY <3>1, <3>2 DEF PutsLocked
    <3>6. LineWhole(a)
      <4>1. SUFFICES ASSUME NEW i \in 1 .. Len(a) - 1, a[i][2] > 1
                     PROVE  a[i + 1] = <<a[i][1], a[i][2] - 1>>
        BY DEF LineWhole
      <4>2. i \in 1 .. Len(s) /\ a[i] = s[i]
        BY <2>3
      <4>3. CASE i = Len(s)
        <5>1. s # <<>> /\ s[i] = <<p, c + 1>>
          BY <2>3, <4>1, <4>2, <4>3, <3>5
        <5>2. s[i][1] = p /\ s[i][2] = c + 1 /\ (c + 1) - 1 = c
          BY <5>1, <2>1
        <5> QED BY <5>2, <4>2, <4>3, <2>3
      <4>4. CASE i # Len(s)
        <5>1. i \in 1 .. Len(s) - 1 /\ i + 1 \in 1 .. Len(s)
          BY <4>2, <4>4, <2>3
        <5>2. a[i + 1] = s[i + 1] /\ LineWhole(s)
          BY <5>1, <2>3, <3>1 DEF PutsLocked
        <5> QED BY <5>1, <5>2, <4>1, <4>2 DEF LineWhole
      <4> QED BY <4>3, <4>4
    <3>7. ASSUME a[Len(a)][2] > 1
          PROVE  \E r \in Printer : /\ print'[r].step \in {"poll", "write"}
                                    /\ a[Len(a)] = <<r, print'[r].left + 1>>
      <4>1. a[Len(a)] = <<p, c>>
        BY <2>3
      <4>2. c > 1
        BY <3>7, <4>1
      <4>3. print'[p].step = "poll" /\ print'[p].left + 1 = c
        <5>1. c # 1 /\ (c - 1) + 1 = c /\ c \in Nat
          BY <4>2, <2>1
        <5>2. g = "poll"
          BY <5>1
        <5> HIDE DEF c, g
        <5> QED BY <5>1, <5>2, <2>6, <2>7
      <4> QED BY <4>1, <4>3
    <3> QED BY <3>3, <3>4, <3>6, <3>7, <2>4 DEF PutsLocked
  <2> QED BY <2>4, <2>7, <2>9, <2>10 DEF UsartInv, UsartTypeOK
<1> QED BY <1>1, <1>2

(* The string ends and the mutex is given back; the shift register frees   *)
(* TDR.                                                                    *)
LEMMA UsartEnds ==
    ASSUME UsartInv, TxEmpty \/ \E p \in Printer : EndPrint(p)
    PROVE  UsartInv'
<1>0. /\ usart \in [txe : BOOLEAN, holder : Printer \cup {Nobody}, line : Seq(Printer \X Nat),
                    lost : BOOLEAN, raw : BOOLEAN]
      /\ print \in [Printer -> PrintRecord] /\ (~usart.raw => PutsLocked)
      /\ \A r \in Printer : print[r].step \in {"poll", "write"} => print[r].left >= 1
  BY DEF UsartInv, UsartTypeOK
<1>1. CASE TxEmpty
  <2>1. usart' = [usart EXCEPT !.txe = TRUE] /\ print' = print
    BY <1>1 DEF TxEmpty
  <2>2. /\ usart' \in [txe : BOOLEAN, holder : Printer \cup {Nobody}, line : Seq(Printer \X Nat),
                       lost : BOOLEAN, raw : BOOLEAN]
        /\ usart'.holder = usart.holder /\ usart'.line = usart.line /\ usart'.raw = usart.raw
        /\ usart'.lost = usart.lost /\ usart'.txe
    BY <1>0, <2>1
  <2>3. ~usart.raw => PutsLocked'
    BY <1>0, <2>1, <2>2 DEF PutsLocked
  <2> QED BY <1>0, <2>1, <2>2, <2>3 DEF UsartInv, UsartTypeOK
<1>2. ASSUME NEW p \in Printer, EndPrint(p) PROVE UsartInv'
  <2> DEFINE e == [print[p] EXCEPT !.step = "out", !.locked = FALSE]
  <2>1. /\ print[p].step = "end" /\ print' = [print EXCEPT ![p] = e]
        /\ usart' = usart \/ usart' = [usart EXCEPT !.holder = Nobody]
    BY <1>2 DEF EndPrint
  <2>2. e \in PrintRecord /\ e.step = "out"
    BY <1>0 DEF PrintRecord
  <2> HIDE DEF e
  <2>3. /\ print' \in [Printer -> PrintRecord]
        /\ print'[p] = e /\ \A r \in Printer : r # p => print'[r] = print[r]
    BY <1>0, <2>1, <2>2
  <2>4. /\ usart' \in [txe : BOOLEAN, holder : Printer \cup {Nobody}, line : Seq(Printer \X Nat),
                       lost : BOOLEAN, raw : BOOLEAN]
        /\ usart'.line = usart.line /\ usart'.raw = usart.raw
        /\ usart'.lost = usart.lost /\ usart'.txe = usart.txe
    <3>1. CASE usart' = usart
      BY <1>0, <3>1
    <3>2. CASE usart' = [usart EXCEPT !.holder = Nobody]
      BY <1>0, <3>2
    <3> QED BY <2>1, <3>1, <3>2
  <2>5. \A r \in Printer : print'[r].step \in {"poll", "write"} =>
                              r # p /\ print'[r] = print[r]
    BY <2>2, <2>3
  <2>6. ASSUME ~usart.raw PROVE PutsLocked'
    <3>1. PutsLocked /\ usart.holder = p
      BY <1>0, <2>1, <2>6 DEF PutsLocked
    <3>2. \A r \in Printer : print'[r].step = "out"
      BY <3>1, <2>2, <2>3 DEF PutsLocked
    <3>3. ~(usart.line # <<>> /\ usart.line[Len(usart.line)][2] > 1)
      BY <3>1, <2>1 DEF PutsLocked
    <3> QED BY <3>1, <3>2, <3>3, <2>4 DEF PutsLocked
  <2> QED BY <1>0, <2>3, <2>4, <2>5, <2>6 DEF UsartInv, UsartTypeOK
<1> QED BY <1>1, <1>2
-----------------------------------------------------------------------------
(* The UART drivers together.                                              *)

UartInv == TxInv /\ RxInv /\ UsartInv

(* Rings and line are empty at first.                                      *)
LEMMA UartInitInv == UartInit => UartInv
<1> SUFFICES ASSUME UartInit PROVE UartInv
  OBVIOUS
<1>0. 0 \in TxSlot /\ 0 \in RxSlot
  BY RingSizes DEF TxSlot, RxSlot
<1>1. /\ tx.buf \in [TxSlot -> Nat] /\ tx.head = 0 /\ tx.tail = 0 /\ tx.tie = FALSE
      /\ tx = [buf |-> tx.buf, head |-> 0, tail |-> 0, tie |-> FALSE]
  BY DEF UartInit, TxSlot
<1>2. /\ rx.buf \in [RxSlot -> Nat] /\ rx.head = 0 /\ rx.tail = 0
      /\ rx = [buf |-> rx.buf, head |-> 0, tail |-> 0, count |-> 0]
  BY DEF UartInit, RxSlot
<1>3. TxTypeOK
  <2>1. putter \in [Printer -> PutterRecord]
    BY <1>0 DEF UartInit, PutterRecord
  <2>2. put \in Seq(Nat) /\ sent \in Seq(Nat)
    BY DEF UartInit
  <2> QED BY <1>0, <1>1, <2>1, <2>2 DEF TxTypeOK
<1>4. RxTypeOK
  BY <1>0, <1>2 DEF UartInit, RxTypeOK
<1>5. /\ RingSeq(tx.buf, 0, 0, UART_TX_BUF_SIZE) = <<>>
      /\ RingSeq(rx.buf, 0, 0, UART_RX_BUF_SIZE) = <<>>
  <2>1. (0 - 0) % UART_TX_BUF_SIZE = 0 /\ (0 - 0) % UART_RX_BUF_SIZE = 0
    BY RingSizes
  <2> QED BY <2>1 DEF RingSeq
<1>6. \A p \in Printer : putter[p].step = "out"
  BY DEF UartInit
<1>7. TxTurns /\ TxTie
  BY <1>1, <1>6 DEF TxTurns, TxTie
<1>8. TxFifo /\ RxFifo /\ RxHeld
  BY <1>1, <1>2, <1>5 DEF UartInit, TxFifo, RxFifo, RxHeld
<1>9. UsartInv
  <2>1. /\ print \in [Printer -> PrintRecord]
        /\ \A p \in Printer : print[p].step = "out"
    BY DEF UartInit, PrintRecord
  <2>2. /\ usart \in [txe : BOOLEAN, holder : Printer \cup {Nobody}, line : Seq(Printer \X Nat),
                      lost : BOOLEAN, raw : BOOLEAN]
        /\ usart.line = <<>> /\ usart.lost = FALSE
    BY DEF UartInit
  <2>3. LineWhole(usart.line)
    BY <2>2 DEF LineWhole
  <2> QED BY <2>1, <2>2, <2>3 DEF UsartInv, UsartTypeOK, PutsLocked
<1> QED BY <1>3, <1>4, <1>7, <1>8, <1>9 DEF UartInv, TxInv, RxInv

(* Every step of the UART drivers keeps the invariant.                     *)
LEMMA UartNextInv == UartInv /\ [RingNext \/ UsartNext]_uartVars => UartInv'
<1> SUFFICES ASSUME UartInv, [RingNext \/ UsartNext]_uartVars PROVE UartInv'
  OBVIOUS
<1>0. TxInv /\ RxInv /\ UsartInv
  BY DEF UartInv
<1>1. ASSUME tx' = tx, putter' = putter, serial' = serial, put' = put, sent' = sent PROVE TxInv'
  BY <1>0, <1>1 DEF TxInv, TxTypeOK, TxTurns, TxFifo, TxTie
<1>2. ASSUME rx' = rx, getting' = getting, kept' = kept, got' = got PROVE RxInv'
  BY <1>0, <1>2 DEF RxInv, RxTypeOK, RxFifo, RxHeld
<1>3. ASSUME usart' = usart, print' = print PROVE UsartInv'
  BY <1>0, <1>3 DEF UsartInv, UsartTypeOK, PutsLocked
<1>4. CASE uart_getc
  <2>1. /\ tx' = tx /\ putter' = putter /\ serial' = serial /\ put' = put /\ sent' = sent
        /\ usart' = usart /\ print' = print
    BY <1>4 DEF uart_getc, usartVars
  <2>2. RxInv'
    BY <1>0, <1>4, RxGets
  <2> QED BY <2>1, <2>2, <1>1, <1>3 DEF UartInv
<1>5. ASSUME NEW tdre \in BOOLEAN, NEW rdrf \in BOOLEAN, UART0_RX_TX_IRQHandler(tdre, rdrf)
      PROVE  UartInv'
  <2>1. /\ TransmitHalf(tdre) /\ ReceiveHalf(rdrf) /\ putter' = putter /\ serial' = serial
        /\ put' = put /\ getting' = getting /\ got' = got /\ usart' = usart /\ print' = print
    BY <1>5 DEF UART0_RX_TX_IRQHandler, usartVars
  <2>2. TxInv'
    BY <1>0, <2>1, TxDrains
  <2>3. RxInv'
    BY <1>0, <2>1, RxStores
  <2> QED BY <2>1, <2>2, <2>3, <1>3 DEF UartInv
<1>6. ASSUME NEW p \in Printer, EnterPutc(p) \/ uart_putc(p) PROVE UartInv'
  <2>1. /\ rx' = rx /\ getting' = getting /\ kept' = kept /\ got' = got
        /\ usart' = usart /\ print' = print
    BY <1>6 DEF EnterPutc, uart_putc, usartVars
  <2>2. TxInv'
    BY <1>0, <1>6, TxEnters, TxPuts
  <2> QED BY <2>1, <2>2, <1>2, <1>3 DEF UartInv
<1>7. CASE UsartNext
  <2>1. /\ tx' = tx /\ putter' = putter /\ serial' = serial /\ put' = put /\ sent' = sent
        /\ rx' = rx /\ getting' = getting /\ kept' = kept /\ got' = got
    BY <1>7 DEF UsartNext, TxEmpty, EnterPuts, EnterPrintf, PollTxe, WriteTdr, EndPrint, ringVars
  <2>2. UsartInv'
    BY <1>0, <1>7, UsartEnters, UsartWrites, UsartEnds DEF UsartNext
  <2> QED BY <2>1, <2>2, <1>1, <1>2 DEF UartInv
<1>8. CASE UNCHANGED uartVars
  <2>1. /\ tx' = tx /\ putter' = putter /\ serial' = serial /\ put' = put /\ sent' = sent
        /\ rx' = rx /\ getting' = getting /\ kept' = kept /\ got' = got
        /\ usart' = usart /\ print' = print
    BY <1>8 DEF uartVars, ringVars, usartVars
  <2> QED BY <2>1, <1>1, <1>2, <1>3 DEF UartInv
<1> QED BY <1>4, <1>5, <1>6, <1>7, <1>8 DEF RingNext

(* drivers/k64f/uart.c and drivers/stm32h753zi/uart.c, for rings of every  *)
(* size and any number of tasks: tasks that take turns lose, repeat and    *)
(* reorder nothing whenever the interrupt comes; output never stalls, even *)
(* without turns; uart_getc returns the characters taken in, once and in   *)
(* order; and strings that uart_puts prints under its mutex are not mixed  *)
(* and lose no character.                                                  *)
THEOREM UartDrivers == UartSpec => []UartLosesNothing
<1>1. UartInit => UartInv
  BY UartInitInv
<1>2. UartInv /\ [RingNext \/ UsartNext]_uartVars => UartInv'
  BY UartNextInv
<1>3. UartInv => UartLosesNothing
  <2> SUFFICES ASSUME UartInv PROVE UartLosesNothing
    OBVIOUS
  <2>1. UartTransmitFifo
    BY DEF UartInv, TxInv, TxFifo, UartTransmitFifo, InRing, RingSeq
  <2>2. UartNotStalled
    BY DEF UartInv, TxInv, TxTie, UartNotStalled, Putting
  <2>3. UartReceiveFifo
    <3> DEFINE R == RingSeq(rx.buf, rx.head, rx.tail, UART_RX_BUF_SIZE)
    <3>1. kept = got \o R /\ got \in Seq(Nat)
      BY DEF UartInv, RxInv, RxFifo, RxTypeOK
    <3>2. R \in Seq(Nat)
      <4>1. /\ rx.buf \in [0 .. (UART_RX_BUF_SIZE - 1) -> Nat]
            /\ rx.head \in 0 .. (UART_RX_BUF_SIZE - 1) /\ rx.tail \in 0 .. (UART_RX_BUF_SIZE - 1)
        BY DEF UartInv, RxInv, RxTypeOK, RxSlot
      <4>2. RingSays(Nat, UART_RX_BUF_SIZE, rx.buf, rx.head, rx.tail)
        BY <4>1, RingSizes, RingFacts
      <4> QED BY <4>2 DEF RingSays
    <3>3. R = InRing(rx, UART_RX_BUF_SIZE)
      BY DEF InRing, RingSeq
    <3> HIDE DEF R
    <3>4. \A s, r \in Seq(Nat) : SubSeq(s \o r, 1, Len(s)) = s
      OBVIOUS
    <3> QED BY <3>1, <3>2, <3>3, <3>4 DEF UartReceiveFifo
  <2>4. UartPutsWhole
    BY DEF UartInv, UsartInv, PutsLocked, LineWhole, UartPutsWhole
  <2> QED BY <2>1, <2>2, <2>3, <2>4 DEF UartLosesNothing
<1> QED BY <1>1, <1>2, <1>3, PTL DEF UartSpec
-----------------------------------------------------------------------------
(* Rings of descriptors, all of which may be in use.                       *)

(* In a ring of n slots the m from d on are full and the others are not; e *)
(* is the slot after them; and they hold the last m elements of s, whose   *)
(* first elements, base of them, have left the ring.                       *)
DescRing(F, buf, d, e, m, s, base, n) ==
    /\ m \in 0 .. n /\ d \in 0 .. (n - 1) /\ e \in 0 .. (n - 1)
    /\ e = (d + m) % n
    /\ \A i \in 0 .. (n - 1) : (d + i) % n \in F <=> i < m
    /\ Len(s) = base + m
    /\ \A i \in 0 .. (m - 1) : s[base + i + 1] = buf[(d + i) % n]

(* Steps along a ring wrap once.                                           *)
LEMMA DescIndex ==
    ASSUME NEW n \in Nat, n > 0, NEW d \in 0 .. (n - 1), NEW i \in 0 .. n
    PROVE  /\ (d + i) % n = IF d + i < n THEN d + i ELSE d + i - n
           /\ (d + i) % n \in 0 .. (n - 1)
<1>1. /\ \A a \in 0 .. (n - 1) : a % n = a
      /\ \A a \in n .. (2 * n - 1) : a % n = a - n
      /\ \A a \in (-n) .. (-1) : a % n = a + n
  BY Wrap
<1>2. CASE d + i < n
  <2>1. d + i \in 0 .. (n - 1)
    BY <1>2
  <2> QED BY <2>1, <1>1, <1>2
<1>3. CASE ~(d + i < n)
  <2>1. d + i \in n .. (2 * n - 1) /\ d + i - n \in 0 .. (n - 1)
    BY <1>3
  <2> QED BY <2>1, <1>1, <1>3
<1> QED BY <1>2, <1>3

(* Changing the slot after the full ones changes none of them.             *)
LEMMA DescStore ==
    ASSUME NEW n \in Nat, n > 0, NEW F, NEW buf, NEW buf1, NEW d, NEW e, NEW m, NEW s, NEW base \in Nat,
           DescRing(F, buf, d, e, m, s, base, n), e \notin F,
           \A j \in 0 .. (n - 1) : j # e => buf1[j] = buf[j]
    PROVE  m < n /\ DescRing(F, buf1, d, e, m, s, base, n)
<1> USE DEF DescRing
<1>1. m \in Nat /\ m <= n /\ d \in 0 .. (n - 1)
  OBVIOUS
<1>2. m < n
  <2>1. SUFFICES ASSUME m = n PROVE FALSE
    BY <1>1
  <2>2. 0 \in 0 .. (n - 1) /\ 0 \in 0 .. n /\ n \in 0 .. n /\ d + 0 = d
    BY <1>1
  <2>3. (d + 0) % n \in F
    BY <2>1, <2>2
  <2>4. /\ (d + 0) % n = IF d + 0 < n THEN d + 0 ELSE d + 0 - n
        /\ (d + n) % n = IF d + n < n THEN d + n ELSE d + n - n
    BY <1>1, <2>2, DescIndex
  <2>5. e = d /\ (d + 0) % n = d
    BY <1>1, <2>1, <2>4
  <2> QED BY <2>3, <2>5
<1>3. ASSUME NEW i \in 0 .. (m - 1) PROVE buf1[(d + i) % n] = buf[(d + i) % n]
  <2>1. i \in 0 .. (n - 1) /\ i < m /\ i \in 0 .. n
    BY <1>1
  <2>2. (d + i) % n \in F /\ (d + i) % n \in 0 .. (n - 1)
    BY <1>1, <2>1, DescIndex
  <2> QED BY <2>2
<1> QED BY <1>2, <1>3

(* Filling that slot appends its element.                                  *)
LEMMA DescProduce ==
    ASSUME NEW n \in Nat, n > 0, NEW F, NEW buf, NEW d, NEW e, NEW m, NEW s, NEW s1, NEW base \in Nat,
           DescRing(F, buf, d, e, m, s, base, n), e \notin F,
           Len(s1) = Len(s) + 1, s1[Len(s) + 1] = buf[e],
           \A i \in 1 .. Len(s) : s1[i] = s[i]
    PROVE  /\ (e + 1) % n \in 0 .. (n - 1)
           /\ m + 1 \in 0 .. n
           /\ DescRing(F \cup {e}, buf, d, (e + 1) % n, m + 1, s1, base, n)
<1>0. /\ m \in 0 .. n /\ d \in 0 .. (n - 1) /\ e \in 0 .. (n - 1) /\ e = (d + m) % n
      /\ Len(s) = base + m
  BY DEF DescRing
<1>1. m < n
  BY DescStore
<1>2. e = IF d + m < n THEN d + m ELSE d + m - n
  BY <1>0, DescIndex
<1>3. m + 1 \in 0 .. n /\ 1 \in 0 .. n
  BY <1>0, <1>1
<1>4. /\ (e + 1) % n = IF e + 1 < n THEN e + 1 ELSE e + 1 - n
      /\ (e + 1) % n \in 0 .. (n - 1)
  BY <1>0, <1>3, DescIndex
<1>5. (d + (m + 1)) % n = IF d + (m + 1) < n THEN d + (m + 1) ELSE d + (m + 1) - n
  BY <1>0, <1>3, DescIndex
<1>6. (e + 1) % n = (d + (m + 1)) % n
  BY <1>0, <1>1, <1>2, <1>4, <1>5
<1>7. ASSUME NEW i \in 0 .. (n - 1) PROVE (d + i) % n \in F \cup {e} <=> i < m + 1
  <2>1. (d + i) % n \in F <=> i < m
    BY DEF DescRing
  <2>2. (d + i) % n = IF d + i < n THEN d + i ELSE d + i - n
    <3>1. i \in 0 .. n
      OBVIOUS
    <3> QED BY <1>0, <3>1, DescIndex
  <2>3. (d + i) % n = e <=> i = m
    BY <1>0, <1>1, <1>2, <2>2
  <2>4. i < m + 1 <=> (i < m \/ i = m)
    BY <1>0
  <2> QED BY <2>1, <2>3, <2>4
<1>8. ASSUME NEW i \in 0 .. ((m + 1) - 1) PROVE s1[base + i + 1] = buf[(d + i) % n]
  <2>1. CASE i = m
    <3>1. base + i + 1 = Len(s) + 1
      BY <1>0, <2>1
    <3> QED BY <3>1, <2>1, <1>0
  <2>2. CASE i # m
    <3>1. i \in 0 .. (m - 1) /\ base + i + 1 \in 1 .. Len(s)
      BY <1>0, <2>2
    <3>2. s[base + i + 1] = buf[(d + i) % n]
      BY <3>1 DEF DescRing
    <3> QED BY <3>1, <3>2
  <2> QED BY <2>1, <2>2
<1>9. Len(s1) = base + (m + 1)
  BY <1>0
<1> QED BY <1>0, <1>3, <1>4, <1>6, <1>7, <1>8, <1>9 DEF DescRing

(* Emptying the first full slot moves its element to those that have left. *)
LEMMA DescConsume ==
    ASSUME NEW n \in Nat, n > 0, NEW F, NEW buf, NEW d, NEW e, NEW m, NEW s, NEW base \in Nat,
           DescRing(F, buf, d, e, m, s, base, n), d \in F
    PROVE  /\ s[base + 1] = buf[d] /\ base + 1 <= Len(s)
           /\ (d + 1) % n \in 0 .. (n - 1)
           /\ m - 1 \in 0 .. n
           /\ DescRing(F \ {d}, buf, (d + 1) % n, e, m - 1, s, base + 1, n)
<1>0. /\ m \in 0 .. n /\ d \in 0 .. (n - 1) /\ e \in 0 .. (n - 1) /\ e = (d + m) % n
      /\ Len(s) = base + m
  BY DEF DescRing
<1>1. (d + 0) % n = d /\ 0 \in 0 .. (n - 1)
  <2>1. 0 \in 0 .. n
    OBVIOUS
  <2>2. (d + 0) % n = IF d + 0 < n THEN d + 0 ELSE d + 0 - n
    BY <1>0, <2>1, DescIndex
  <2> QED BY <1>0, <2>2
<1>2. m > 0
  BY <1>0, <1>1 DEF DescRing
<1>3. s[base + 1] = buf[d]
  <2>1. 0 \in 0 .. (m - 1) /\ base + 0 + 1 = base + 1
    BY <1>0, <1>2
  <2>2. s[base + 0 + 1] = buf[(d + 0) % n]
    BY <2>1 DEF DescRing
  <2> QED BY <1>1, <2>1, <2>2
<1> DEFINE c == (d + 1) % n
<1>4. c = (IF d + 1 < n THEN d + 1 ELSE d + 1 - n) /\ c \in 0 .. (n - 1)
  <2>1. 1 \in 0 .. n
    OBVIOUS
  <2> QED BY <1>0, <2>1, DescIndex
<1> HIDE DEF c
<1>5. e = IF d + m < n THEN d + m ELSE d + m - n
  BY <1>0, DescIndex
<1>6. m - 1 \in 0 .. n
  BY <1>0, <1>2
<1>7. (c + (m - 1)) % n = IF c + (m - 1) < n THEN c + (m - 1) ELSE c + (m - 1) - n
  BY <1>4, <1>6, DescIndex
<1>8. e = (c + (m - 1)) % n
  BY <1>0, <1>2, <1>4, <1>5, <1>7
<1>9. ASSUME NEW i \in 0 .. (n - 1)
      PROVE  /\ (c + i) % n = IF i = n - 1 THEN d ELSE (d + (i + 1)) % n
             /\ (c + i) % n = d => i = n - 1
  <2>1. i \in 0 .. n /\ i + 1 \in 0 .. n
    OBVIOUS
  <2>2. (c + i) % n = IF c + i < n THEN c + i ELSE c + i - n
    BY <1>4, <2>1, DescIndex
  <2>3. (d + (i + 1)) % n = IF d + (i + 1) < n THEN d + (i + 1) ELSE d + (i + 1) - n
    BY <1>0, <2>1, DescIndex
  <2> QED BY <1>0, <1>4, <2>2, <2>3
<1>10. ASSUME NEW i \in 0 .. (n - 1) PROVE (c + i) % n \in F \ {d} <=> i < m - 1
  <2>1. CASE i = n - 1
    <3>1. (c + i) % n = d /\ ~(i < m - 1)
      BY <1>0, <1>9, <2>1
    <3> QED BY <3>1
  <2>2. CASE i # n - 1
    <3>1. (c + i) % n = (d + (i + 1)) % n /\ (c + i) % n # d
      BY <1>9, <2>2
    <3>2. i + 1 \in 0 .. (n - 1) /\ (i + 1 < m <=> i < m - 1)
      BY <1>0, <2>2
    <3>3. (d + (i + 1)) % n \in F <=> i + 1 < m
      BY <3>2 DEF DescRing
    <3> QED BY <3>1, <3>2, <3>3
  <2> QED BY <2>1, <2>2
<1>11. ASSUME NEW i \in 0 .. ((m - 1) - 1) PROVE s[(base + 1) + i + 1] = buf[(c + i) % n]
  <2>1. i + 1 \in 0 .. (m - 1) /\ i \in 0 .. (n - 1) /\ i # n - 1 /\ base + (i + 1) + 1 = (base + 1) + i + 1
    BY <1>0
  <2>2. (c + i) % n = (d + (i + 1)) % n
    BY <1>9, <2>1
  <2>3. s[base + (i + 1) + 1] = buf[(d + (i + 1)) % n]
    BY <2>1 DEF DescRing
  <2> QED BY <2>1, <2>2, <2>3
<1>12. Len(s) = (base + 1) + (m - 1) /\ base + 1 <= Len(s)
  BY <1>0, <1>2
<1>13. DescRing(F \ {d}, buf, c, e, m - 1, s, base + 1, n)
  BY <1>0, <1>4, <1>6, <1>8, <1>10, <1>11, <1>12 DEF DescRing
<1> QED BY <1>3, <1>4, <1>6, <1>12, <1>13 DEF c
-----------------------------------------------------------------------------
(* The Ethernet driver.                                                    *)

EthSpec == EthInit /\ [][EthNext]_ethVars

FrameRecord == [id : Nat, len : Nat]

EthTypeOK ==
    /\ eth \in {"off", "up", "failed"}
    /\ txr \in [own : [TxIndex -> BOOLEAN], buf : [TxIndex -> FrameRecord], index : TxIndex, dma : TxIndex]
    /\ rxr \in [own : [RxIndex -> BOOLEAN], buf : [RxIndex -> FrameRecord], index : RxIndex, dma : RxIndex]
    /\ send \in [step : {"out", "poll", "copy", "give"}, frame : FrameRecord]
    /\ recv \in [step : {"out", "back"}, frame : FrameRecord]
    /\ asked \in Nat /\ arrived \in Nat
    /\ accepted \in Seq(FrameRecord) /\ wired \in Seq(FrameRecord)
    /\ stored \in Seq(FrameRecord) /\ taken \in Seq(FrameRecord)

(* Before eth_init nothing has happened.                                   *)
EthIdle ==
    /\ txr.index = 0 /\ rxr.index = 0 /\ send.step = "out" /\ recv.step = "out"
    /\ accepted = <<>> /\ wired = <<>> /\ stored = <<>> /\ taken = <<>>

(* Descriptors that hold a frame to be sent, and received frames.          *)
TxFull == {i \in TxIndex : txr.own[i]}
RxFull == {i \in RxIndex : ~rxr.own[i]}

(* The transmit ring: the driver produces at s_tx_index, the DMA consumes; *)
(* from the end of its poll to the hand-over the slot is the driver's.     *)
TxDesc ==
    /\ \E m \in 0 .. ETH_NUM_TX_DESC :
          DescRing(TxFull, txr.buf, txr.dma, txr.index, m, accepted, Len(wired), ETH_NUM_TX_DESC)
    /\ \A i \in 1 .. Len(wired) : accepted[i] = wired[i]
    /\ send.step \in {"copy", "give"} => txr.index \notin TxFull
    /\ send.step = "give" => txr.buf[txr.index] = send.frame

(* A frame that eth_receive cut to the caller's buffer.                    *)
CutOf(f, g) == f.id = g.id /\ f.len <= g.len

(* The receive ring: the DMA produces, the driver consumes at s_rx_index;  *)
(* while eth_receive copies, the slot stays the driver's.                  *)
RxDesc ==
    /\ \E m \in 0 .. ETH_NUM_RX_DESC :
          DescRing(RxFull, rxr.buf, rxr.index, rxr.dma, m, stored, Len(taken), ETH_NUM_RX_DESC)
    /\ \A i \in 1 .. Len(taken) : CutOf(taken[i], stored[i])
    /\ recv.step = "back" => rxr.index \in RxFull /\ CutOf(recv.frame, rxr.buf[rxr.index])

EthInv == EthTypeOK /\ (eth = "off" => EthIdle) /\ (eth = "up" => TxDesc /\ RxDesc)

(* The sizes of the rings.                                                 *)
LEMMA DescSizes ==
    /\ ETH_NUM_TX_DESC \in Nat /\ ETH_NUM_TX_DESC > 0 /\ 0 \in TxIndex
    /\ ETH_NUM_RX_DESC \in Nat /\ ETH_NUM_RX_DESC > 0 /\ 0 \in RxIndex
BY EthAssumption DEF TxIndex, RxIndex

(* An empty ring.                                                          *)
LEMMA DescEmpty ==
    ASSUME NEW n \in Nat, n > 0, NEW buf
    PROVE  DescRing({}, buf, 0, 0, 0, <<>>, 0, n)
<1>1. (0 + 0) % n = 0 /\ 0 \in 0 .. (n - 1) /\ 0 \in 0 .. n /\ 0 .. (0 - 1) = {}
  OBVIOUS
<1> QED BY <1>1 DEF DescRing

(* eth_init gives the receive descriptors to the DMA and keeps the others. *)
LEMMA EthInits == ASSUME NEW resets \in BOOLEAN, EthInv, eth_init(resets) PROVE EthInv'
<1>0. EthTypeOK /\ EthIdle /\ eth = "off"
  BY DEF EthInv, eth_init
<1>1. /\ send' = send /\ recv' = recv /\ asked' = asked /\ arrived' = arrived /\ accepted' = accepted
      /\ wired' = wired /\ stored' = stored /\ taken' = taken
  BY DEF eth_init
<1>2. CASE ~resets
  <2>1. eth' = "failed" /\ txr' = txr /\ rxr' = rxr
    BY <1>2 DEF eth_init
  <2> QED BY <1>0, <1>1, <2>1 DEF EthInv, EthTypeOK
<1>3. CASE resets
  <2> DEFINE a == [i \in TxIndex |-> FALSE]
             b == [i \in RxIndex |-> TRUE]
  <2>1. eth' = "up" /\ txr' = [txr EXCEPT !.own = a, !.dma = 0] /\ rxr' = [rxr EXCEPT !.own = b, !.dma = 0]
    BY <1>3 DEF eth_init
  <2>2. /\ a \in [TxIndex -> BOOLEAN] /\ \A i \in TxIndex : ~a[i]
        /\ b \in [RxIndex -> BOOLEAN] /\ \A i \in RxIndex : b[i]
    OBVIOUS
  <2> HIDE DEF a, b
  <2>3. /\ txr' \in [own : [TxIndex -> BOOLEAN], buf : [TxIndex -> FrameRecord], index : TxIndex, dma : TxIndex]
        /\ txr'.own = a /\ txr'.dma = 0 /\ txr'.index = txr.index /\ txr'.buf = txr.buf
    BY <1>0, <2>1, <2>2, DescSizes DEF EthTypeOK
  <2>4. /\ rxr' \in [own : [RxIndex -> BOOLEAN], buf : [RxIndex -> FrameRecord], index : RxIndex, dma : RxIndex]
        /\ rxr'.own = b /\ rxr'.dma = 0 /\ rxr'.index = rxr.index /\ rxr'.buf = rxr.buf
    BY <1>0, <2>1, <2>2, DescSizes DEF EthTypeOK
  <2>5. TxFull' = {} /\ RxFull' = {}
    BY <2>2, <2>3, <2>4 DEF TxFull, RxFull
  <2>6. /\ DescRing({}, txr.buf, 0, 0, 0, <<>>, 0, ETH_NUM_TX_DESC)
        /\ DescRing({}, rxr.buf, 0, 0, 0, <<>>, 0, ETH_NUM_RX_DESC)
        /\ 0 \in 0 .. ETH_NUM_TX_DESC /\ 0 \in 0 .. ETH_NUM_RX_DESC /\ Len(<<>>) = 0
    BY DescSizes, DescEmpty
  <2>7. TxDesc'
    BY <1>0, <1>1, <2>3, <2>5, <2>6 DEF EthIdle, TxDesc
  <2>8. RxDesc'
    BY <1>0, <1>1, <2>4, <2>5, <2>6 DEF EthIdle, RxDesc
  <2>9. EthTypeOK'
    BY <1>0, <1>1, <2>1, <2>3, <2>4 DEF EthTypeOK
  <2> QED BY <2>1, <2>7, <2>8, <2>9 DEF EthInv
<1> QED BY <1>2, <1>3

(* eth_transmit up to the end of its poll.                                 *)
LEMMA EthCalls ==
    ASSUME EthInv, (\E len \in FrameSizes : CallTransmit(len)) \/ PollDescriptor
    PROVE  EthInv'
<1>0. /\ EthTypeOK /\ (eth = "off" => EthIdle) /\ (eth = "up" => TxDesc /\ RxDesc)
      /\ send \in [step : {"out", "poll", "copy", "give"}, frame : FrameRecord]
  BY DEF EthInv, EthTypeOK
<1>1. /\ eth' = eth /\ txr' = txr /\ rxr' = rxr /\ recv' = recv /\ arrived' = arrived
      /\ accepted' = accepted /\ wired' = wired /\ stored' = stored /\ taken' = taken
      /\ TxFull' = TxFull /\ RxFull' = RxFull
  BY DEF CallTransmit, PollDescriptor, TxFull, RxFull
<1>2. ASSUME send' \in [step : {"out", "poll", "copy", "give"}, frame : FrameRecord], asked' \in Nat,
             send'.step \notin {"copy", "give"} \/ (send'.step = "copy" /\ txr.index \notin TxFull),
             eth = "off" => send' = send
      PROVE  EthInv'
  <2>1. EthTypeOK'
    BY <1>0, <1>1, <1>2 DEF EthTypeOK
  <2>2. eth = "off" => EthIdle'
    BY <1>0, <1>1, <1>2 DEF EthIdle
  <2>3. eth = "up" => TxDesc'
    BY <1>0, <1>1, <1>2 DEF TxDesc
  <2>4. eth = "up" => RxDesc'
    BY <1>0, <1>1 DEF RxDesc
  <2> QED BY <1>1, <2>1, <2>2, <2>3, <2>4 DEF EthInv
<1>3. ASSUME NEW len \in FrameSizes, CallTransmit(len) PROVE EthInv'
  <2>1. /\ eth # "off" /\ asked' = asked + 1 /\ asked \in Nat /\ send.step = "out" /\ len \in Nat
        /\ send' = send \/ send' = [step |-> "poll", frame |-> [id |-> asked + 1, len |-> len]]
    BY <1>0, <1>3, EthAssumption DEF CallTransmit, Frame, EthTypeOK
  <2>2. [id |-> asked + 1, len |-> len] \in FrameRecord
    BY <2>1 DEF FrameRecord
  <2>3. /\ send' \in [step : {"out", "poll", "copy", "give"}, frame : FrameRecord]
        /\ send'.step \in {"out", "poll"}
    BY <1>0, <2>1, <2>2
  <2> QED BY <1>2, <2>1, <2>3
<1>4. CASE PollDescriptor
  <2>1. /\ send.step = "poll" /\ asked' = asked
        /\ \/ TxFree /\ send' = [send EXCEPT !.step = "copy"]
           \/ send' = [send EXCEPT !.step = "out"]
    BY <1>4 DEF PollDescriptor
  <2>2. TxFree => txr.index \notin TxFull
    BY DEF TxFree, TxFull
  <2>3. /\ send' \in [step : {"out", "poll", "copy", "give"}, frame : FrameRecord]
        /\ send'.step = "out" \/ (send'.step = "copy" /\ TxFree)
    BY <1>0, <2>1
  <2>4. asked \in Nat /\ eth # "off"
    BY <1>0, <2>1 DEF EthTypeOK, EthIdle
  <2> QED BY <1>2, <2>1, <2>2, <2>3, <2>4
<1> QED BY <1>3, <1>4

(* memcpy into the buffer of the free descriptor.                          *)
LEMMA EthCopies == EthInv /\ CopyOut => EthInv'
<1> SUFFICES ASSUME EthInv, CopyOut PROVE EthInv'
  OBVIOUS
<1> DEFINE b == [txr.buf EXCEPT ![txr.index] = send.frame]
<1>0. /\ EthTypeOK /\ eth # "off" /\ (eth = "up" => TxDesc /\ RxDesc) /\ send.step = "copy"
      /\ send \in [step : {"out", "poll", "copy", "give"}, frame : FrameRecord]
      /\ txr \in [own : [TxIndex -> BOOLEAN], buf : [TxIndex -> FrameRecord], index : TxIndex, dma : TxIndex]
      /\ txr.index \in TxIndex /\ wired \in Seq(FrameRecord) /\ Len(wired) \in Nat
  BY DEF EthInv, EthTypeOK, CopyOut, EthIdle
<1>1. /\ eth' = eth /\ rxr' = rxr /\ recv' = recv /\ asked' = asked /\ arrived' = arrived
      /\ accepted' = accepted /\ wired' = wired /\ stored' = stored /\ taken' = taken
      /\ txr' = [txr EXCEPT !.buf = b] /\ send' = [send EXCEPT !.step = "give"]
  BY DEF CopyOut
<1>2. /\ b \in [TxIndex -> FrameRecord] /\ b[txr.index] = send.frame
      /\ \A j \in TxIndex : j # txr.index => b[j] = txr.buf[j]
  BY <1>0
<1> HIDE DEF b
<1>3. /\ txr' \in [own : [TxIndex -> BOOLEAN], buf : [TxIndex -> FrameRecord], index : TxIndex, dma : TxIndex]
      /\ txr'.own = txr.own /\ txr'.dma = txr.dma /\ txr'.index = txr.index /\ txr'.buf = b
      /\ send' \in [step : {"out", "poll", "copy", "give"}, frame : FrameRecord]
      /\ send'.step = "give" /\ send'.frame = send.frame
  BY <1>0, <1>1, <1>2
<1>4. TxFull' = TxFull /\ RxFull' = RxFull
  BY <1>1, <1>3 DEF TxFull, RxFull
<1>5. EthTypeOK'
  BY <1>0, <1>1, <1>3 DEF EthTypeOK
<1>6. ASSUME eth = "up" PROVE TxDesc'
  <2>1. TxDesc /\ txr.index \notin TxFull
    BY <1>0, <1>6 DEF TxDesc
  <2>2. PICK m \in 0 .. ETH_NUM_TX_DESC :
           DescRing(TxFull, txr.buf, txr.dma, txr.index, m, accepted, Len(wired), ETH_NUM_TX_DESC)
    BY <2>1 DEF TxDesc
  <2>3. \A j \in 0 .. (ETH_NUM_TX_DESC - 1) : j # txr.index => b[j] = txr.buf[j]
    BY <1>2 DEF TxIndex
  <2>4. DescRing(TxFull, b, txr.dma, txr.index, m, accepted, Len(wired), ETH_NUM_TX_DESC)
    BY <1>0, <2>1, <2>2, <2>3, DescSizes, DescStore
  <2> QED BY <1>1, <1>2, <1>3, <1>4, <2>1, <2>4 DEF TxDesc
<1>7. eth = "up" => RxDesc'
  BY <1>0, <1>1, <1>4 DEF RxDesc
<1> QED BY <1>0, <1>1, <1>5, <1>6, <1>7 DEF EthInv

(* The descriptor is handed to the DMA: its frame is accepted.             *)
LEMMA EthGives == EthInv /\ GiveToDma => EthInv'
<1> SUFFICES ASSUME EthInv, GiveToDma PROVE EthInv'
  OBVIOUS
<1> DEFINE a == [txr.own EXCEPT ![txr.index] = TRUE]
<1>0. /\ EthTypeOK /\ eth # "off" /\ (eth = "up" => TxDesc /\ RxDesc) /\ send.step = "give"
      /\ send \in [step : {"out", "poll", "copy", "give"}, frame : FrameRecord] /\ send.frame \in FrameRecord
      /\ txr \in [own : [TxIndex -> BOOLEAN], buf : [TxIndex -> FrameRecord], index : TxIndex, dma : TxIndex]
      /\ txr.index \in TxIndex /\ wired \in Seq(FrameRecord) /\ Len(wired) \in Nat
      /\ accepted \in Seq(FrameRecord)
  BY DEF EthInv, EthTypeOK, GiveToDma, EthIdle
<1>1. /\ eth' = eth /\ rxr' = rxr /\ recv' = recv /\ asked' = asked /\ arrived' = arrived
      /\ wired' = wired /\ stored' = stored /\ taken' = taken
      /\ txr' = [txr EXCEPT !.own = a, !.index = NextTx]
      /\ accepted' = Append(accepted, send.frame) /\ send' = [send EXCEPT !.step = "out"]
  BY DEF GiveToDma
<1>2. /\ a \in [TxIndex -> BOOLEAN] /\ a[txr.index] = TRUE
      /\ \A j \in TxIndex : j # txr.index => a[j] = txr.own[j]
  BY <1>0
<1>3. NextTx = (txr.index + 1) % ETH_NUM_TX_DESC /\ NextTx \in TxIndex
  <2>1. txr.index \in 0 .. (ETH_NUM_TX_DESC - 1) /\ 1 \in 0 .. ETH_NUM_TX_DESC
    BY <1>0, DescSizes DEF TxIndex
  <2>2. (txr.index + 1) % ETH_NUM_TX_DESC \in 0 .. (ETH_NUM_TX_DESC - 1)
    BY <2>1, DescSizes, DescIndex
  <2> QED BY <2>2 DEF NextTx, TxIndex
<1> HIDE DEF a
<1>4. /\ txr' \in [own : [TxIndex -> BOOLEAN], buf : [TxIndex -> FrameRecord], index : TxIndex, dma : TxIndex]
      /\ txr'.own = a /\ txr'.dma = txr.dma /\ txr'.index = NextTx /\ txr'.buf = txr.buf
      /\ send' \in [step : {"out", "poll", "copy", "give"}, frame : FrameRecord]
      /\ send'.step = "out"
  BY <1>0, <1>1, <1>2, <1>3
<1>5. TxFull' = TxFull \cup {txr.index} /\ RxFull' = RxFull
  BY <1>0, <1>1, <1>2, <1>4 DEF TxFull, RxFull
<1>6. /\ accepted' \in Seq(FrameRecord) /\ Len(accepted') = Len(accepted) + 1
      /\ accepted'[Len(accepted) + 1] = send.frame /\ Len(accepted) \in Nat
      /\ \A i \in 1 .. Len(accepted) : accepted'[i] = accepted[i]
  BY <1>0, <1>1, AppendProperties, LenProperties
<1>7. EthTypeOK'
  BY <1>0, <1>1, <1>4, <1>6 DEF EthTypeOK
<1>8. ASSUME eth = "up" PROVE TxDesc'
  <2>1. TxDesc /\ txr.index \notin TxFull /\ txr.buf[txr.index] = send.frame
    BY <1>0, <1>8 DEF TxDesc
  <2>2. PICK m \in 0 .. ETH_NUM_TX_DESC :
           DescRing(TxFull, txr.buf, txr.dma, txr.index, m, accepted, Len(wired), ETH_NUM_TX_DESC)
    BY <2>1 DEF TxDesc
  <2>3. accepted'[Len(accepted) + 1] = txr.buf[txr.index] /\ Len(accepted') = Len(accepted) + 1
    BY <2>1, <1>6
  <2>7. /\ Len(wired) \in Nat /\ txr.index \notin TxFull
        /\ \A i \in 1 .. Len(accepted) : accepted'[i] = accepted[i]
    BY <1>0, <1>6, <2>1
  <2>8. ETH_NUM_TX_DESC \in Nat /\ ETH_NUM_TX_DESC > 0
    BY DescSizes
  <2>4. /\ (txr.index + 1) % ETH_NUM_TX_DESC \in 0 .. (ETH_NUM_TX_DESC - 1)
        /\ m + 1 \in 0 .. ETH_NUM_TX_DESC
        /\ DescRing(TxFull \cup {txr.index}, txr.buf, txr.dma, (txr.index + 1) % ETH_NUM_TX_DESC,
                    m + 1, accepted', Len(wired), ETH_NUM_TX_DESC)
    BY <2>2, <2>3, <2>7, <2>8, DescProduce
  <2>5. DescRing(TxFull', txr'.buf, txr'.dma, txr'.index, m + 1, accepted', Len(wired'), ETH_NUM_TX_DESC)
    BY <1>1, <1>3, <1>4, <1>5, <2>4
  <2>6. \A i \in 1 .. Len(wired') : accepted'[i] = wired'[i]
    <3>1. Len(accepted) = Len(wired) + m
      BY <2>2 DEF DescRing
    <3>2. \A i \in 1 .. Len(wired) : i \in 1 .. Len(accepted)
      BY <3>1, <1>0
    <3>3. \A i \in 1 .. Len(wired) : accepted[i] = wired[i]
      BY <2>1 DEF TxDesc
    <3> QED BY <3>2, <3>3, <1>1, <1>6
  <2> QED BY <1>4, <2>4, <2>5, <2>6 DEF TxDesc
<1>9. eth = "up" => RxDesc'
  BY <1>0, <1>1, <1>5 DEF RxDesc
<1> QED BY <1>0, <1>1, <1>7, <1>8, <1>9 DEF EthInv

(* The DMA engine sends the oldest frame.                                  *)
LEMMA EthSends == EthInv /\ DmaTransmits => EthInv'
<1> SUFFICES ASSUME EthInv, DmaTransmits PROVE EthInv'
  OBVIOUS
<1> DEFINE a == [txr.own EXCEPT ![txr.dma] = FALSE]
           c == (txr.dma + 1) % ETH_NUM_TX_DESC
           x == txr.buf[txr.dma]
<1>0. /\ EthTypeOK /\ eth = "up" /\ TxDesc /\ RxDesc /\ txr.own[txr.dma]
      /\ txr \in [own : [TxIndex -> BOOLEAN], buf : [TxIndex -> FrameRecord], index : TxIndex, dma : TxIndex]
      /\ txr.index \in TxIndex /\ txr.dma \in TxIndex /\ wired \in Seq(FrameRecord) /\ Len(wired) \in Nat
      /\ x \in FrameRecord
  BY DEF EthInv, EthTypeOK, DmaTransmits
<1>1. /\ eth' = eth /\ rxr' = rxr /\ recv' = recv /\ send' = send /\ asked' = asked /\ arrived' = arrived
      /\ accepted' = accepted /\ stored' = stored /\ taken' = taken
      /\ txr' = [txr EXCEPT !.own = a, !.dma = c]
      /\ wired' = Append(wired, x)
  BY DEF DmaTransmits
<1>2. /\ a \in [TxIndex -> BOOLEAN] /\ a[txr.dma] = FALSE
      /\ \A j \in TxIndex : j # txr.dma => a[j] = txr.own[j]
  BY <1>0
<1>3. c \in TxIndex
  <2>1. txr.dma \in 0 .. (ETH_NUM_TX_DESC - 1) /\ 1 \in 0 .. ETH_NUM_TX_DESC
    BY <1>0, DescSizes DEF TxIndex
  <2>2. c \in 0 .. (ETH_NUM_TX_DESC - 1)
    BY <2>1, DescSizes, DescIndex
  <2> QED BY <2>2 DEF TxIndex
<1>6. PICK m \in 0 .. ETH_NUM_TX_DESC :
         DescRing(TxFull, txr.buf, txr.dma, txr.index, m, accepted, Len(wired), ETH_NUM_TX_DESC)
  BY <1>0 DEF TxDesc
<1>7. txr.dma \in TxFull
  BY <1>0 DEF TxFull
<1>13. Len(wired) \in Nat /\ ETH_NUM_TX_DESC \in Nat /\ ETH_NUM_TX_DESC > 0
  BY <1>0, DescSizes
<1>8. /\ accepted[Len(wired) + 1] = txr.buf[txr.dma] /\ Len(wired) + 1 <= Len(accepted)
      /\ (txr.dma + 1) % ETH_NUM_TX_DESC \in 0 .. (ETH_NUM_TX_DESC - 1)
      /\ m - 1 \in 0 .. ETH_NUM_TX_DESC
      /\ DescRing(TxFull \ {txr.dma}, txr.buf, (txr.dma + 1) % ETH_NUM_TX_DESC, txr.index, m - 1,
                  accepted, Len(wired) + 1, ETH_NUM_TX_DESC)
  BY <1>6, <1>7, <1>13, DescConsume
<1> HIDE DEF a, c
<1>4. /\ txr' \in [own : [TxIndex -> BOOLEAN], buf : [TxIndex -> FrameRecord], index : TxIndex, dma : TxIndex]
      /\ txr'.own = a /\ txr'.dma = c /\ txr'.index = txr.index /\ txr'.buf = txr.buf
  BY <1>0, <1>1, <1>2, <1>3
<1>5. TxFull' = TxFull \ {txr.dma} /\ RxFull' = RxFull
  BY <1>0, <1>1, <1>2, <1>4 DEF TxFull, RxFull
<1>9. /\ wired' \in Seq(FrameRecord) /\ Len(wired') = Len(wired) + 1
      /\ wired'[Len(wired) + 1] = x
      /\ \A i \in 1 .. Len(wired) : wired'[i] = wired[i]
  BY <1>0, <1>1, AppendProperties
<1>10. EthTypeOK'
  BY <1>0, <1>1, <1>4, <1>9 DEF EthTypeOK
<1>11. TxDesc'
  <2>1. DescRing(TxFull', txr'.buf, txr'.dma, txr'.index, m - 1, accepted', Len(wired'), ETH_NUM_TX_DESC)
    BY <1>1, <1>4, <1>5, <1>8, <1>9 DEF c
  <2>2. \A i \in 1 .. Len(wired') : i \in 1 .. Len(wired) \/ i = Len(wired) + 1
    BY <1>0, <1>9
  <2>3. \A i \in 1 .. Len(wired') : accepted'[i] = wired'[i]
    BY <1>0, <1>1, <1>8, <1>9, <2>2 DEF TxDesc
  <2>4. send'.step \in {"copy", "give"} => txr'.index \notin TxFull'
    BY <1>0, <1>1, <1>4, <1>5 DEF TxDesc
  <2>5. send'.step = "give" => txr'.buf[txr'.index] = send'.frame
    BY <1>0, <1>1, <1>4 DEF TxDesc
  <2> QED BY <1>8, <2>1, <2>3, <2>4, <2>5 DEF TxDesc
<1>12. RxDesc'
  BY <1>0, <1>1, <1>5 DEF RxDesc
<1> QED BY <1>0, <1>1, <1>10, <1>11, <1>12 DEF EthInv

(* eth_receive copies the frame, or what fits of it.                       *)
LEMMA EthReads == ASSUME NEW max_len \in FrameSizes, EthInv, CopyIn(max_len) PROVE EthInv'
<1> DEFINE g == rxr.buf[rxr.index]
           f == Frame(g.id, IF g.len > max_len THEN max_len ELSE g.len)
<1>0. /\ EthTypeOK /\ eth # "off" /\ (eth = "up" => TxDesc /\ RxDesc) /\ ~rxr.own[rxr.index]
      /\ rxr.index \in RxIndex /\ g \in FrameRecord /\ max_len \in Nat
  BY EthAssumption DEF EthInv, EthTypeOK, CopyIn, RxReady
<1>1. /\ eth' = eth /\ txr' = txr /\ rxr' = rxr /\ send' = send /\ asked' = asked /\ arrived' = arrived
      /\ accepted' = accepted /\ wired' = wired /\ stored' = stored /\ taken' = taken
      /\ recv' = [step |-> "back", frame |-> f]
      /\ TxFull' = TxFull /\ RxFull' = RxFull
  BY DEF CopyIn, TxFull, RxFull
<1> HIDE DEF g
<1>2. f \in FrameRecord /\ CutOf(f, g)
  BY <1>0 DEF FrameRecord, Frame, CutOf
<1> HIDE DEF f
<1>3. EthTypeOK'
  BY <1>0, <1>1, <1>2 DEF EthTypeOK
<1>4. eth = "up" => TxDesc'
  BY <1>0, <1>1 DEF TxDesc
<1>5. eth = "up" => RxDesc'
  <2>1. rxr.index \in RxFull
    BY <1>0 DEF RxFull
  <2>2. recv'.frame = f /\ CutOf(recv'.frame, rxr.buf[rxr.index])
    BY <1>1, <1>2 DEF g
  <2> QED BY <1>0, <1>1, <2>1, <2>2 DEF RxDesc
<1> QED BY <1>0, <1>1, <1>3, <1>4, <1>5 DEF EthInv

(* The descriptor is given back: the frame is returned.                    *)
LEMMA EthReturns == EthInv /\ HandBack => EthInv'
<1> SUFFICES ASSUME EthInv, HandBack PROVE EthInv'
  OBVIOUS
<1> DEFINE a == [rxr.own EXCEPT ![rxr.index] = TRUE]
           c == (rxr.index + 1) % ETH_NUM_RX_DESC
           x == recv.frame
<1>0. /\ EthTypeOK /\ eth # "off" /\ (eth = "up" => TxDesc /\ RxDesc) /\ recv.step = "back"
      /\ rxr \in [own : [RxIndex -> BOOLEAN], buf : [RxIndex -> FrameRecord], index : RxIndex, dma : RxIndex]
      /\ rxr.index \in RxIndex /\ rxr.dma \in RxIndex /\ taken \in Seq(FrameRecord) /\ Len(taken) \in Nat
      /\ recv \in [step : {"out", "back"}, frame : FrameRecord] /\ x \in FrameRecord
  BY DEF EthInv, EthTypeOK, HandBack, EthIdle
<1>1. /\ eth' = eth /\ txr' = txr /\ send' = send /\ asked' = asked /\ arrived' = arrived
      /\ accepted' = accepted /\ wired' = wired /\ stored' = stored
      /\ rxr' = [rxr EXCEPT !.own = a, !.index = c]
      /\ taken' = Append(taken, x) /\ recv' = [recv EXCEPT !.step = "out"]
  BY DEF HandBack
<1>2. /\ a \in [RxIndex -> BOOLEAN] /\ a[rxr.index] = TRUE
      /\ \A j \in RxIndex : j # rxr.index => a[j] = rxr.own[j]
  BY <1>0
<1>3. c \in RxIndex
  <2>1. rxr.index \in 0 .. (ETH_NUM_RX_DESC - 1) /\ 1 \in 0 .. ETH_NUM_RX_DESC
    BY <1>0, DescSizes DEF RxIndex
  <2>2. c \in 0 .. (ETH_NUM_RX_DESC - 1)
    BY <2>1, DescSizes, DescIndex
  <2> QED BY <2>2 DEF RxIndex
<1>4. /\ taken' \in Seq(FrameRecord) /\ Len(taken') = Len(taken) + 1
      /\ taken'[Len(taken) + 1] = x
      /\ \A i \in 1 .. Len(taken) : taken'[i] = taken[i]
  BY <1>0, <1>1, AppendProperties
<1> HIDE DEF a
<1>5. /\ rxr' \in [own : [RxIndex -> BOOLEAN], buf : [RxIndex -> FrameRecord], index : RxIndex, dma : RxIndex]
      /\ rxr'.own = a /\ rxr'.dma = rxr.dma /\ rxr'.index = c /\ rxr'.buf = rxr.buf
      /\ recv' \in [step : {"out", "back"}, frame : FrameRecord] /\ recv'.step = "out"
  <2> HIDE DEF c
  <2> QED BY <1>0, <1>1, <1>2, <1>3
<1>6. RxFull' = RxFull \ {rxr.index} /\ TxFull' = TxFull
  BY <1>0, <1>1, <1>2, <1>5 DEF TxFull, RxFull
<1>7. EthTypeOK'
  BY <1>0, <1>1, <1>4, <1>5 DEF EthTypeOK
<1>8. ASSUME eth = "up" PROVE RxDesc'
  <2>1. RxDesc /\ rxr.index \in RxFull /\ CutOf(x, rxr.buf[rxr.index])
    BY <1>0, <1>8 DEF RxDesc
  <2>2. PICK m \in 0 .. ETH_NUM_RX_DESC :
           DescRing(RxFull, rxr.buf, rxr.index, rxr.dma, m, stored, Len(taken), ETH_NUM_RX_DESC)
    BY <2>1 DEF RxDesc
  <2>8. Len(taken) \in Nat /\ rxr.index \in RxFull /\ ETH_NUM_RX_DESC \in Nat /\ ETH_NUM_RX_DESC > 0
    BY <1>0, <2>1, DescSizes
  <2>3. /\ stored[Len(taken) + 1] = rxr.buf[rxr.index] /\ Len(taken) + 1 <= Len(stored)
        /\ (rxr.index + 1) % ETH_NUM_RX_DESC \in 0 .. (ETH_NUM_RX_DESC - 1)
        /\ m - 1 \in 0 .. ETH_NUM_RX_DESC
        /\ DescRing(RxFull \ {rxr.index}, rxr.buf, (rxr.index + 1) % ETH_NUM_RX_DESC, rxr.dma, m - 1,
                    stored, Len(taken) + 1, ETH_NUM_RX_DESC)
    BY <2>2, <2>8, DescConsume
  <2>4. DescRing(RxFull', rxr'.buf, rxr'.index, rxr'.dma, m - 1, stored', Len(taken'), ETH_NUM_RX_DESC)
    BY <1>1, <1>4, <1>5, <1>6, <2>3
  <2>5. \A i \in 1 .. Len(taken') : i \in 1 .. Len(taken) \/ i = Len(taken) + 1
    BY <1>0, <1>4
  <2>6. \A i \in 1 .. Len(taken) : CutOf(taken[i], stored[i])
    BY <2>1 DEF RxDesc
  <2>7. \A i \in 1 .. Len(taken') : CutOf(taken'[i], stored'[i])
    BY <1>1, <1>4, <2>1, <2>3, <2>5, <2>6
  <2> QED BY <1>5, <2>3, <2>4, <2>7 DEF RxDesc
<1>9. eth = "up" => TxDesc'
  BY <1>0, <1>1, <1>6 DEF TxDesc
<1> QED BY <1>0, <1>1, <1>7, <1>8, <1>9 DEF EthInv

(* The DMA engine stores a frame, or loses it.                             *)
LEMMA EthStores == ASSUME NEW len \in FrameSizes, EthInv, DmaReceives(len) PROVE EthInv'
<1> DEFINE f == Frame(arrived + 1, len)
<1>0. /\ EthTypeOK /\ eth = "up" /\ TxDesc /\ RxDesc
      /\ rxr \in [own : [RxIndex -> BOOLEAN], buf : [RxIndex -> FrameRecord], index : RxIndex, dma : RxIndex]
      /\ rxr.index \in RxIndex /\ rxr.dma \in RxIndex /\ taken \in Seq(FrameRecord) /\ Len(taken) \in Nat
      /\ stored \in Seq(FrameRecord) /\ arrived \in Nat /\ len \in Nat
  BY EthAssumption DEF EthInv, EthTypeOK, DmaReceives
<1>1. /\ eth' = eth /\ txr' = txr /\ send' = send /\ recv' = recv /\ asked' = asked /\ arrived' = arrived + 1
      /\ accepted' = accepted /\ wired' = wired /\ taken' = taken /\ TxFull' = TxFull
  BY DEF DmaReceives, TxFull
<1>2. f \in FrameRecord
  BY <1>0 DEF Frame, FrameRecord
<1>3. TxDesc'
  BY <1>0, <1>1 DEF TxDesc
<1>4. CASE ~rxr.own[rxr.dma]
  <2>1. rxr' = rxr /\ stored' = stored /\ RxFull' = RxFull
    BY <1>4 DEF DmaReceives, RxFull
  <2>2. EthTypeOK'
    BY <1>0, <1>1, <2>1 DEF EthTypeOK
  <2>3. RxDesc'
    BY <1>0, <1>1, <2>1 DEF RxDesc
  <2> QED BY <1>0, <1>1, <1>3, <2>2, <2>3 DEF EthInv
<1>5. CASE rxr.own[rxr.dma]
  <2> DEFINE a == [rxr.own EXCEPT ![rxr.dma] = FALSE]
             b == [rxr.buf EXCEPT ![rxr.dma] = f]
             c == (rxr.dma + 1) % ETH_NUM_RX_DESC
  <2>1. rxr' = [rxr EXCEPT !.own = a, !.buf = b, !.dma = c] /\ stored' = Append(stored, f)
    BY <1>5 DEF DmaReceives
  <2> HIDE DEF f
  <2>2. /\ a \in [RxIndex -> BOOLEAN] /\ a[rxr.dma] = FALSE
        /\ \A j \in RxIndex : j # rxr.dma => a[j] = rxr.own[j]
        /\ b \in [RxIndex -> FrameRecord] /\ b[rxr.dma] = f
        /\ \A j \in RxIndex : j # rxr.dma => b[j] = rxr.buf[j]
    BY <1>0, <1>2
  <2>3. c \in RxIndex
    <3>1. rxr.dma \in 0 .. (ETH_NUM_RX_DESC - 1) /\ 1 \in 0 .. ETH_NUM_RX_DESC
      BY <1>0, DescSizes DEF RxIndex
    <3>2. c \in 0 .. (ETH_NUM_RX_DESC - 1)
      BY <3>1, DescSizes, DescIndex
    <3> QED BY <3>2 DEF RxIndex
  <2> HIDE DEF a, b
  <2>4. /\ rxr' \in [own : [RxIndex -> BOOLEAN], buf : [RxIndex -> FrameRecord], index : RxIndex, dma : RxIndex]
        /\ rxr'.own = a /\ rxr'.dma = c /\ rxr'.index = rxr.index /\ rxr'.buf = b
    <3> HIDE DEF c
    <3> QED BY <1>0, <2>1, <2>2, <2>3
  <2>5. RxFull' = RxFull \cup {rxr.dma} /\ rxr.dma \notin RxFull
    BY <1>0, <1>5, <2>2, <2>4 DEF RxFull
  <2>6. /\ stored' \in Seq(FrameRecord) /\ Len(stored') = Len(stored) + 1 /\ Len(stored) \in Nat
        /\ stored'[Len(stored) + 1] = f
        /\ \A i \in 1 .. Len(stored) : stored'[i] = stored[i]
    BY <1>0, <1>2, <2>1, AppendProperties, LenProperties
  <2>7. EthTypeOK'
    BY <1>0, <1>1, <2>4, <2>6 DEF EthTypeOK
  <2>8. PICK m \in 0 .. ETH_NUM_RX_DESC :
           DescRing(RxFull, rxr.buf, rxr.index, rxr.dma, m, stored, Len(taken), ETH_NUM_RX_DESC)
    BY <1>0 DEF RxDesc
  <2>9. \A j \in 0 .. (ETH_NUM_RX_DESC - 1) : j # rxr.dma => b[j] = rxr.buf[j]
    BY <2>2 DEF RxIndex
  <2>10. DescRing(RxFull, b, rxr.index, rxr.dma, m, stored, Len(taken), ETH_NUM_RX_DESC)
    BY <1>0, <2>5, <2>8, <2>9, DescSizes, DescStore
  <2>11. stored'[Len(stored) + 1] = b[rxr.dma] /\ Len(stored') = Len(stored) + 1
    BY <2>2, <2>6
  <2>16. /\ Len(taken) \in Nat /\ rxr.dma \notin RxFull
         /\ \A i \in 1 .. Len(stored) : stored'[i] = stored[i]
         /\ ETH_NUM_RX_DESC \in Nat /\ ETH_NUM_RX_DESC > 0
    BY <1>0, <2>5, <2>6, DescSizes
  <2>12. /\ (rxr.dma + 1) % ETH_NUM_RX_DESC \in 0 .. (ETH_NUM_RX_DESC - 1)
         /\ m + 1 \in 0 .. ETH_NUM_RX_DESC
         /\ DescRing(RxFull \cup {rxr.dma}, b, rxr.index, (rxr.dma + 1) % ETH_NUM_RX_DESC, m + 1,
                     stored', Len(taken), ETH_NUM_RX_DESC)
    BY <2>10, <2>11, <2>16, DescProduce
  <2>13. DescRing(RxFull', rxr'.buf, rxr'.index, rxr'.dma, m + 1, stored', Len(taken'), ETH_NUM_RX_DESC)
    BY <1>1, <2>4, <2>5, <2>12
  <2>14. \A i \in 1 .. Len(taken') : CutOf(taken'[i], stored'[i])
    <3>1. Len(stored) = Len(taken) + m
      BY <2>8 DEF DescRing
    <3>2. \A i \in 1 .. Len(taken) : i \in 1 .. Len(stored)
      BY <3>1, <1>0
    <3>3. \A i \in 1 .. Len(taken) : CutOf(taken[i], stored[i])
      BY <1>0 DEF RxDesc
    <3> QED BY <3>2, <3>3, <1>1, <2>6
  <2>15. recv'.step = "back" => rxr'.index \in RxFull' /\ CutOf(recv'.frame, rxr'.buf[rxr'.index])
    <3>1. recv.step = "back" => rxr.index \in RxFull /\ CutOf(recv.frame, rxr.buf[rxr.index])
      BY <1>0 DEF RxDesc
    <3>2. rxr.index \in RxFull => b[rxr.index] = rxr.buf[rxr.index]
      BY <1>0, <2>2, <2>5
    <3> QED BY <3>1, <3>2, <1>1, <2>4, <2>5
  <2> QED BY <1>0, <1>1, <1>3, <2>7, <2>12, <2>13, <2>14, <2>15 DEF EthInv, RxDesc
<1> QED BY <1>4, <1>5

(* Every step of the driver and the DMA engine keeps the invariant.        *)
LEMMA EthNextInv == EthInv /\ [EthNext]_ethVars => EthInv'
<1> SUFFICES ASSUME EthInv, [EthNext]_ethVars PROVE EthInv'
  OBVIOUS
<1>1. ASSUME NEW resets \in BOOLEAN, eth_init(resets) PROVE EthInv'
  BY <1>1, EthInits
<1>2. ASSUME NEW len \in FrameSizes, CallTransmit(len) PROVE EthInv'
  BY <1>2, EthCalls
<1>3. ASSUME NEW len \in FrameSizes, CopyIn(len) PROVE EthInv'
  BY <1>3, EthReads
<1>4. ASSUME NEW len \in FrameSizes, DmaReceives(len) PROVE EthInv'
  BY <1>4, EthStores
<1>5. CASE PollDescriptor
  BY <1>5, EthCalls
<1>6. CASE CopyOut
  BY <1>6, EthCopies
<1>7. CASE GiveToDma
  BY <1>7, EthGives
<1>8. CASE HandBack
  BY <1>8, EthReturns
<1>9. CASE DmaTransmits
  BY <1>9, EthSends
<1>10. CASE UNCHANGED ethVars
  <2>1. /\ eth' = eth /\ txr' = txr /\ rxr' = rxr /\ send' = send /\ recv' = recv /\ asked' = asked
        /\ arrived' = arrived /\ accepted' = accepted /\ wired' = wired /\ stored' = stored /\ taken' = taken
        /\ TxFull' = TxFull /\ RxFull' = RxFull
    BY <1>10 DEF ethVars, TxFull, RxFull
  <2>2. EthTypeOK'
    BY <2>1 DEF EthInv, EthTypeOK
  <2>3. eth = "off" => EthIdle'
    BY <2>1 DEF EthInv, EthIdle
  <2>4. eth = "up" => TxDesc' /\ RxDesc'
    BY <2>1 DEF EthInv, TxDesc, RxDesc
  <2> QED BY <2>1, <2>2, <2>3, <2>4 DEF EthInv
<1> QED BY <1>1, <1>2, <1>3, <1>4, <1>5, <1>6, <1>7, <1>8, <1>9, <1>10 DEF EthNext

(* Before eth_init the OWN bits are arbitrary; nothing relies on them.     *)
LEMMA EthInitInv == EthInit => EthInv
<1> SUFFICES ASSUME EthInit PROVE EthInv
  OBVIOUS
<1>1. NoFrame \in FrameRecord
  BY DEF NoFrame, Frame, FrameRecord
<1>2. PICK own \in BOOLEAN :
        /\ txr = [own |-> [i \in TxIndex |-> own], buf |-> [i \in TxIndex |-> NoFrame], index |-> 0, dma |-> 0]
        /\ rxr = [own |-> [i \in RxIndex |-> own], buf |-> [i \in RxIndex |-> NoFrame], index |-> 0, dma |-> 0]
  BY DEF EthInit
<1>3. EthTypeOK
  BY <1>1, <1>2, DescSizes DEF EthInit, EthTypeOK
<1> QED BY <1>2, <1>3 DEF EthInit, EthInv, EthIdle

(* How far a ring runs: the first place not in F, n when there is none.    *)
LEMMA RunIs ==
    ASSUME NEW n \in Nat, n > 0, NEW d \in 0 .. (n - 1), NEW F, NEW m \in 0 .. n,
           \A i \in 0 .. (n - 1) : (d + i) % n \in F <=> i < m,
           NEW stops, \A i : i \in stops <=> i \in 0 .. (n - 1) /\ (d + i) % n \notin F
    PROVE  (IF stops = {} THEN n ELSE CHOOSE i \in stops : \A j \in stops : i <= j) = m
<1>1. \A i : i \in stops <=> i \in 0 .. (n - 1) /\ ~(i < m)
  OBVIOUS
<1>2. CASE m = n
  <2>1. stops = {}
    BY <1>1, <1>2
  <2> QED BY <1>2, <2>1
<1>3. CASE m # n
  <2>1. m \in stops
    BY <1>1, <1>3
  <2>2. \A j \in stops : m <= j
    BY <1>1
  <2>3. \A i \in stops : (\A j \in stops : i <= j) => i = m
    <3>1. \A i \in stops : i \in Nat
      BY <1>1
    <3> QED BY <2>1, <2>2, <3>1
  <2>4. (CHOOSE i \in stops : \A j \in stops : i <= j) = m
    BY <2>1, <2>2, <2>3
  <2> QED BY <2>1, <2>4
<1> QED BY <1>2, <1>3

(* The frames in a ring, by the definition of the properties.              *)
LEMMA FramesAre ==
    ASSUME NEW n \in Nat, n > 0, NEW r, r.buf \in [0 .. (n - 1) -> FrameRecord],
           NEW d \in 0 .. (n - 1), NEW m \in 0 .. n
    PROVE  LET w == FramesFrom(r, d, m, n) IN
           /\ w \in Seq(FrameRecord) /\ Len(w) = m
           /\ \A i \in 1 .. m : w[i] = r.buf[(d + (i - 1)) % n]
<1> DEFINE w == FramesFrom(r, d, m, n)
<1>1. ASSUME NEW i \in 1 .. m
      PROVE  d + i - 1 = d + (i - 1) /\ r.buf[(d + (i - 1)) % n] \in FrameRecord
  <2>1. i - 1 \in 0 .. n /\ d + i - 1 = d + (i - 1)
    OBVIOUS
  <2>2. (d + (i - 1)) % n \in 0 .. (n - 1)
    BY <2>1, DescIndex
  <2> QED BY <2>1, <2>2
<1>2. w \in [1 .. m -> FrameRecord] /\ \A i \in 1 .. m : w[i] = r.buf[(d + (i - 1)) % n]
  BY <1>1 DEF FramesFrom
<1> HIDE DEF w
<1>3. m \in Nat
  OBVIOUS
<1>4. w \in Seq(FrameRecord) /\ Len(w) = m
  BY <1>2, <1>3
<1> QED BY <1>2, <1>4 DEF w

(* The transmit part of the invariant is what EthTransmitFifo says.        *)
LEMMA EthTransmits == EthInv => EthTransmitFifo
<1> SUFFICES ASSUME EthInv, eth = "up"
             PROVE  accepted = wired \o FramesFrom(txr, txr.dma,
                       RunFrom(txr.dma, ETH_NUM_TX_DESC, LAMBDA i : txr.own[i]), ETH_NUM_TX_DESC)
  BY DEF EthTransmitFifo
<1> DEFINE n == ETH_NUM_TX_DESC
           d == txr.dma
<1>1. /\ TxDesc /\ n \in Nat /\ n > 0 /\ d \in 0 .. (n - 1) /\ txr.buf \in [0 .. (n - 1) -> FrameRecord]
      /\ accepted \in Seq(FrameRecord) /\ wired \in Seq(FrameRecord) /\ Len(wired) \in Nat
  BY DescSizes DEF EthInv, EthTypeOK, TxIndex
<1>2. PICK m \in 0 .. n : DescRing(TxFull, txr.buf, d, txr.index, m, accepted, Len(wired), n)
  BY <1>1 DEF TxDesc
<1>3. \A i \in 0 .. (n - 1) : (d + i) % n \in TxFull <=> i < m
  BY <1>2 DEF DescRing
<1>4. \A j \in 0 .. (n - 1) : j \in TxFull <=> txr.own[j]
  BY DEF TxFull, TxIndex
<1> DEFINE stops == {i \in 0 .. n - 1 : ~(txr.own[(d + i) % n])}
           run   == IF stops = {} THEN n ELSE CHOOSE i \in stops : \A j \in stops : i <= j
<1>5. run = m
  <2>1. \A i \in 0 .. (n - 1) : (d + i) % n \in 0 .. (n - 1)
    <3>1. \A i \in 0 .. (n - 1) : i \in 0 .. n
      BY <1>1
    <3> QED BY <1>1, <3>1, DescIndex
  <2>2. \A i : i \in stops <=> i \in 0 .. (n - 1) /\ (d + i) % n \notin TxFull
    BY <2>1, <1>4
  <2>3. n \in Nat /\ n > 0 /\ d \in 0 .. (n - 1) /\ m \in 0 .. n
    BY <1>1
  <2> HIDE DEF stops, n, d
  <2> QED BY <2>3, <1>3, <2>2, RunIs, ZenonT(60)
<1> DEFINE w == FramesFrom(txr, d, m, n)
<1>6. /\ w \in Seq(FrameRecord) /\ Len(w) = m
      /\ \A i \in 1 .. m : w[i] = txr.buf[(d + (i - 1)) % n]
  BY <1>1, FramesAre
<1>7. accepted = wired \o w
  <2> HIDE DEF w, d, n
  <2> DEFINE v == wired \o w
  <2>1. /\ v \in Seq(FrameRecord) /\ Len(v) = Len(wired) + m
        /\ \A i \in 1 .. Len(wired) + m : v[i] = IF i <= Len(wired) THEN wired[i] ELSE w[i - Len(wired)]
    BY <1>1, <1>6, ConcatProperties
  <2> HIDE DEF v
  <2>2. /\ Len(accepted) = Len(wired) + m
        /\ \A i \in 0 .. (m - 1) : accepted[Len(wired) + i + 1] = txr.buf[(d + i) % n]
        /\ \A i \in 1 .. Len(wired) : accepted[i] = wired[i]
    BY <1>1, <1>2 DEF DescRing, TxDesc
  <2>3. ASSUME NEW i \in 1 .. Len(accepted) PROVE accepted[i] = v[i]
    <3>1. CASE i <= Len(wired)
      BY <3>1, <2>1, <2>2, <1>1
    <3>2. CASE ~(i <= Len(wired))
      <4> DEFINE j == i - Len(wired)
      <4>1. /\ j \in 1 .. m /\ j - 1 \in 0 .. (m - 1) /\ Len(wired) + (j - 1) + 1 = i
            /\ i \in 1 .. Len(wired) + m
        BY <3>2, <2>2, <1>1
      <4>2. v[i] = w[j]
        BY <3>2, <4>1, <2>1
      <4> HIDE DEF j
      <4>3. w[j] = txr.buf[(d + (j - 1)) % n] /\ accepted[Len(wired) + (j - 1) + 1] = txr.buf[(d + (j - 1)) % n]
        BY <4>1, <1>6, <2>2
      <4> QED BY <4>1, <4>2, <4>3
    <3> QED BY <3>1, <3>2
  <2>4. Len(accepted) = Len(v)
    BY <2>1, <2>2
  <2>5. accepted = v
    BY <1>1, <2>1, <2>3, <2>4, SeqEqual
  <2> QED BY <2>5 DEF v
<1>8. accepted = wired \o FramesFrom(txr, d, run, n)
  <2> HIDE DEF run, d, n
  <2> QED BY <1>5, <1>7
<1> QED BY <1>8 DEF RunFrom

(* The receive part of the invariant is what EthReceiveFifo says.          *)
LEMMA EthReceives == EthInv => EthReceiveFifo
<1> SUFFICES ASSUME EthInv, eth = "up"
             PROVE  LET w == FramesFrom(rxr, rxr.index,
                               RunFrom(rxr.index, ETH_NUM_RX_DESC, LAMBDA i : ~rxr.own[i]), ETH_NUM_RX_DESC)
                    IN  /\ Len(stored) = Len(taken) + Len(w)
                        /\ \A i \in 1 .. Len(taken) : taken[i].id = stored[i].id /\ taken[i].len <= stored[i].len
                        /\ \A i \in 1 .. Len(w) : w[i] = stored[Len(taken) + i]
  BY DEF EthReceiveFifo
<1> DEFINE n == ETH_NUM_RX_DESC
           d == rxr.index
<1>1. /\ RxDesc /\ n \in Nat /\ n > 0 /\ d \in 0 .. (n - 1) /\ rxr.buf \in [0 .. (n - 1) -> FrameRecord]
      /\ Len(taken) \in Nat
  BY DescSizes DEF EthInv, EthTypeOK, RxIndex
<1>2. PICK m \in 0 .. n : DescRing(RxFull, rxr.buf, d, rxr.dma, m, stored, Len(taken), n)
  BY <1>1 DEF RxDesc
<1>3. \A i \in 0 .. (n - 1) : (d + i) % n \in RxFull <=> i < m
  BY <1>2 DEF DescRing
<1>4. \A j \in 0 .. (n - 1) : j \in RxFull <=> ~rxr.own[j]
  BY DEF RxFull, RxIndex
<1> DEFINE stops == {i \in 0 .. n - 1 : ~(~rxr.own[(d + i) % n])}
           run   == IF stops = {} THEN n ELSE CHOOSE i \in stops : \A j \in stops : i <= j
<1>5. run = m
  <2>1. \A i \in 0 .. (n - 1) : (d + i) % n \in 0 .. (n - 1)
    <3>1. \A i \in 0 .. (n - 1) : i \in 0 .. n
      BY <1>1
    <3> QED BY <1>1, <3>1, DescIndex
  <2>2. \A i : i \in stops <=> i \in 0 .. (n - 1) /\ (d + i) % n \notin RxFull
    BY <2>1, <1>4
  <2>3. n \in Nat /\ n > 0 /\ d \in 0 .. (n - 1) /\ m \in 0 .. n
    BY <1>1
  <2> HIDE DEF stops, n, d
  <2> QED BY <2>3, <1>3, <2>2, RunIs, ZenonT(60)
<1> DEFINE w == FramesFrom(rxr, d, m, n)
<1>6. /\ w \in Seq(FrameRecord) /\ Len(w) = m
      /\ \A i \in 1 .. m : w[i] = rxr.buf[(d + (i - 1)) % n]
  BY <1>1, FramesAre
<1>7. /\ Len(stored) = Len(taken) + m
      /\ \A i \in 0 .. (m - 1) : stored[Len(taken) + i + 1] = rxr.buf[(d + i) % n]
      /\ \A i \in 1 .. Len(taken) : CutOf(taken[i], stored[i])
  BY <1>1, <1>2 DEF DescRing, RxDesc
<1>8. ASSUME NEW i \in 1 .. m PROVE w[i] = stored[Len(taken) + i]
  <2>1. i - 1 \in 0 .. (m - 1) /\ Len(taken) + (i - 1) + 1 = Len(taken) + i
    BY <1>1
  <2> QED BY <1>6, <1>7, <2>1
<1> HIDE DEF w
<1>9. /\ Len(stored) = Len(taken) + Len(w)
      /\ \A i \in 1 .. Len(taken) : taken[i].id = stored[i].id /\ taken[i].len <= stored[i].len
      /\ \A i \in 1 .. Len(w) : w[i] = stored[Len(taken) + i]
  BY <1>6, <1>7, <1>8 DEF CutOf
<1>10. w = FramesFrom(rxr, d, run, n)
  <2> HIDE DEF run, d, n
  <2> QED BY <1>5 DEF w
<1> QED BY <1>9, <1>10 DEF RunFrom

(* drivers/network/stm32h753zi/eth.c, for rings of every size: every frame *)
(* eth_transmit accepted is sent once, in order and unchanged, or waits in *)
(* the ring; every frame the DMA stored is returned once and in order, cut *)
(* at most to the caller's buffer.  No buffer changes hands before its     *)
(* OWN bit says so, and there is no lock.                                  *)
THEOREM EthRings == EthSpec => []EthRingsFifo
<1>1. EthInit => EthInv
  BY EthInitInv
<1>2. EthInv /\ [EthNext]_ethVars => EthInv'
  BY EthNextInv
<1>3. EthInv => EthRingsFifo
  BY EthTransmits, EthReceives DEF EthRingsFifo
<1> QED BY <1>1, <1>2, <1>3, PTL DEF EthSpec
-----------------------------------------------------------------------------
(* The I2C bus and the sensor drivers.                                     *)

(* One caller at a time of the sensor drivers.                             *)
I2cSpec == I2cInit /\ [][I2cNext]_i2cVars

(* The registers and the values written to them.                           *)
Symbol ==
    {"WHO_AM_I", "PWR_MGMT_1", "CONFIG", "GYRO_CONFIG", "ACCEL_CONFIG", "ACCEL_XOUT_H",
     "CHIP_ID", "CALIB_START", "CTRL_MEAS", "DATA_START", "0x00", "0x03", "0x57"}

Symbols == Seq(Symbol)

Transfer ==
    {Read(d, reg, len) : d \in Device, reg \in Symbol, len \in Nat \ {0}}
      \cup {Write(d, reg, val) : d \in Device, reg \in Symbol, val \in Symbol}
ByteRead == [addr : Device, reg : Symbols, at : Nat, transfer : Nat]
Answer == Seq(ByteRead)
Transfers == Seq(Transfer)
Controller ==
    [phase : {"idle", "address", "write", "read", "held", "stuck"}, addr : Device \cup {""},
     rd : BOOLEAN, nbytes : Int, autoend : BOOLEAN, first : BOOLEAN, txdr : Symbols,
     rxdr : Answer, nackf : BOOLEAN, stopf : BOOLEAN, transfer : Nat]
SensorState == [pointer : Symbols, at : Nat, settings : SUBSET Symbols, genuine : BOOLEAN]
Call ==
    [fn : {"", "init", "read", "zero"}, dev : Device \cup {""}, todo : Transfers,
     step : {"out", "write", "bytes", "nack", "read", "data", "ok", "return", "fail"}, i : Nat,
     buf : Answer]
Averaging == [left : Nat, sum : Nat, got : Nat, seen : SUBSET Nat]

I2cTypeOK ==
    /\ i2c1 \in Controller /\ sensor \in [Device -> SensorState] /\ drv \in Call /\ zero \in Averaging
    /\ s_reference_pressure \in Nat
    /\ bus = [calls |-> bus.calls, ready |-> bus.ready, read |-> bus.read, samples |-> bus.samples]
    /\ bus.calls \in Nat /\ bus.ready \subseteq Device /\ bus.samples \subseteq Nat

(* The first k bytes of transfer x's answer to a read.                     *)
Byte(tr, at, x) == [addr |-> tr.addr, reg |-> tr.data, at |-> at, transfer |-> x]
Bytes(tr, k, x) == [n \in 1..k |-> Byte(tr, n - 1, x)]

Transferring == drv.step \in {"write", "bytes", "nack", "read", "data", "ok"}

(* The transfers left to do.                                               *)
InCall ==
    /\ Transferring => drv.todo # <<>>
    /\ \A n \in 1 .. Len(drv.todo) : drv.todo[n].addr = drv.dev
    /\ drv.step = "out" <=> drv.fn = ""
    /\ drv.fn # "" => drv.dev \in Device
    /\ drv.fn = "zero" => drv.dev = "bmp280"
    /\ drv.step = "return" => drv.todo = <<>>
    /\ drv.step = "read" => This.len > 0
    /\ drv.step = "data" => This.len > 0

(* What the sensor has got of a write in progress.                         *)
Pointed(tr) == sensor[tr.addr].pointer = <<tr.data[1]>> /\ sensor[tr.addr].at = 0
Delivered(tr) == Pointed(tr) /\ (tr.len = 0 => tr.data \in sensor[tr.addr].settings)

Writing ==
    drv.step = "bytes" =>
      LET tr == This  out == Len(tr.data) - i2c1.nbytes IN
      /\ drv.i <= Len(tr.data)
      /\ i2c1.phase # "read"
      /\ drv.i > 0 => ~i2c1.nackf
      /\ i2c1.phase = "address" =>
           drv.i = 0 /\ i2c1.nbytes = Len(tr.data) /\ i2c1.autoend /\ i2c1.first
      /\ i2c1.phase = "write" =>
           /\ i2c1.autoend /\ i2c1.nbytes > 0 /\ out >= 0
           /\ i2c1.first <=> out = 0
           /\ out > 0 => Pointed(tr)
           /\ IF i2c1.txdr = <<>> THEN drv.i = out ELSE drv.i = out + 1 /\ i2c1.txdr = <<tr.data[drv.i]>>
      /\ i2c1.phase \in {"address", "write"} => i2c1.addr = tr.addr /\ ~i2c1.rd
      /\ i2c1.phase = "idle" => i2c1.nackf \/ (drv.i = Len(tr.data) /\ Delivered(tr))

(* What the caller has got of a read in progress.                          *)
Reading ==
    drv.step = "data" =>
      LET tr == This  had == Len(drv.buf) + Len(i2c1.rxdr) IN
      /\ sensor[tr.addr].pointer = tr.data
      /\ drv.buf = Bytes(tr, Len(drv.buf), i2c1.transfer) /\ Len(drv.buf) <= tr.len
      /\ i2c1.rxdr # <<>> => i2c1.rxdr = <<Byte(tr, Len(drv.buf), i2c1.transfer)>> /\ had <= tr.len
      /\ i2c1.phase \notin {"write", "held"}
      /\ i2c1.phase \in {"address", "read"} =>
           /\ i2c1.addr = tr.addr /\ i2c1.rd /\ i2c1.autoend
           /\ sensor[tr.addr].at = had /\ i2c1.nbytes = tr.len - had /\ i2c1.nbytes > 0
      /\ i2c1.phase = "address" => drv.buf = <<>> /\ i2c1.rxdr = <<>>
      /\ i2c1.stopf /\ ~i2c1.nackf => had = tr.len

(* Whatever a failed call has left behind.                                 *)
Leftover ==
    /\ i2c1.phase = "address" /\ i2c1.autoend => i2c1.nbytes > 0
    /\ i2c1.phase \in {"idle", "address", "read"} => i2c1.txdr = <<>>
    /\ i2c1.stopf /\ ~i2c1.nackf => i2c1.phase = "idle" /\ ((drv.step = "bytes" /\ drv.i > 0) \/ drv.step = "data")
    /\ drv.step # "data" =>
         i2c1.rxdr = <<>> /\ i2c1.phase # "read" /\ (i2c1.phase = "address" => ~i2c1.rd)
    /\ drv.step # "bytes" /\ i2c1.phase = "write" => i2c1.txdr = <<>>

(* A transfer that has succeeded.                                          *)
Succeeded ==
    /\ drv.step = "read" => sensor[This.addr].pointer = This.data /\ sensor[This.addr].at = 0
    /\ drv.step = "ok" => IF This.len = 0 THEN This.data \in sensor[This.addr].settings
                          ELSE drv.buf = Bytes(This, This.len, i2c1.transfer)

(* An init function has checked and set what it has not got left to do.    *)
Initialising ==
    drv.fn = "init" /\ drv.step # "fail" =>
      LET left == {drv.todo[n] : n \in 1 .. Len(drv.todo)}  d == drv.dev IN
      /\ \A n \in DOMAIN InitOf(d) :
            InitOf(d)[n].len = 0 => InitOf(d)[n] \in left \/ InitOf(d)[n].data \in sensor[d].settings
      /\ sensor[d].genuine \/ \E tr \in left : tr.data[1] \in IdRegister

(* The sum of the samples lies between the least and the greatest.         *)
Summed ==
    IF zero.got = 0 THEN zero.sum = 0
    ELSE \E lo, hi \in zero.seen : zero.got * lo <= zero.sum /\ zero.sum <= zero.got * hi

I2cInv ==
    /\ I2cTypeOK /\ InCall /\ Writing /\ Reading /\ Leftover /\ Succeeded /\ Initialising /\ Summed
    /\ SensorResultTrue
-----------------------------------------------------------------------------
(* A transfer writes the register, and the value if it reads nothing.      *)
LEMMA TransferForm ==
    ASSUME NEW tr \in Transfer
    PROVE  /\ tr.addr \in Device /\ tr.len \in Nat /\ tr.data \in Symbols
           /\ tr.len > 0 => Len(tr.data) = 1 /\ tr.data = <<tr.data[1]>>
           /\ tr.len = 0 => Len(tr.data) = 2 /\ tr.data = <<tr.data[1]>> \o <<tr.data[2]>>
           /\ \A n \in 1 .. Len(tr.data) : tr.data[n] \in Symbol
<1>1. CASE \E d \in Device, reg \in Symbol, len \in Nat \ {0} : tr = Read(d, reg, len)
  <2>1. PICK d \in Device, reg \in Symbol, len \in Nat \ {0} : tr = Read(d, reg, len)
    BY <1>1
  <2>2. tr.addr = d /\ tr.len = len /\ tr.data = <<reg>>
    BY <2>1 DEF Read
  <2> QED BY <2>2 DEF Symbols
<1>2. CASE \E d \in Device, reg \in Symbol, val \in Symbol : tr = Write(d, reg, val)
  <2>1. PICK d \in Device, reg \in Symbol, val \in Symbol : tr = Write(d, reg, val)
    BY <1>2
  <2>2. tr.addr = d /\ tr.len = 0 /\ tr.data = <<reg, val>>
    BY <2>1 DEF Write
  <2> DEFINE two == <<reg>> \o <<val>>
  <2>3. two \in Seq(Symbol) /\ Len(two) = 2 /\ two[1] = reg /\ two[2] = val
    OBVIOUS
  <2>4. tr.data \in Seq(Symbol) /\ Len(tr.data) = 2 /\ tr.data[1] = reg /\ tr.data[2] = val
    BY <2>2
  <2> HIDE DEF two
  <2>5. tr.data = two
    BY <2>3, <2>4, SeqEqual
  <2> QED BY <2>2, <2>4, <2>5 DEF two, Symbols
<1> QED BY <1>1, <1>2 DEF Transfer

(* The calls that the applications make.                                   *)
LEMMA CallsForm ==
    ASSUME NEW d \in Device
    PROVE  /\ InitOf(d) \in Transfers /\ InitOf(d) # <<>>
           /\ \A n \in DOMAIN InitOf(d) : InitOf(d)[n].addr = d
           /\ \E n \in DOMAIN InitOf(d) : InitOf(d)[n].data[1] \in IdRegister
           /\ mpu6050_read \in Transfers /\ bmp280_read \in Transfers
           /\ mpu6050_read # <<>> /\ bmp280_read # <<>>
           /\ \A n \in DOMAIN mpu6050_read : mpu6050_read[n].addr = "mpu6050"
           /\ \A n \in DOMAIN bmp280_read : bmp280_read[n].addr = "bmp280"
<1>1. \A e \in Device, reg \in Symbol, len \in Nat \ {0} : Read(e, reg, len) \in Transfer /\ Read(e, reg, len).addr = e
  BY DEF Transfer, Read
<1>2. \A e \in Device, reg, val \in Symbol : Write(e, reg, val) \in Transfer /\ Write(e, reg, val).addr = e
  BY DEF Transfer, Write
<1>3. Read("mpu6050", "WHO_AM_I", 1).data[1] \in IdRegister /\ Read("bmp280", "CHIP_ID", 1).data[1] \in IdRegister
  BY DEF Read, IdRegister
<1>4. BurstLength \in Nat \ {0} /\ Device = {"mpu6050", "bmp280"}
  BY I2cAssumption DEF Device
<1> HIDE DEF Read, Write, Transfer
<1> DEFINE m1 == Read("mpu6050", "WHO_AM_I", 1)  m2 == Write("mpu6050", "PWR_MGMT_1", "0x00")
           m3 == Write("mpu6050", "CONFIG", "0x03")  m4 == Write("mpu6050", "GYRO_CONFIG", "0x00")
           m5 == Write("mpu6050", "ACCEL_CONFIG", "0x00")
           m6 == Read("mpu6050", "ACCEL_XOUT_H", BurstLength)
           b1 == Read("bmp280", "CHIP_ID", 1)  b2 == Read("bmp280", "CALIB_START", BurstLength)
           b3 == Write("bmp280", "CTRL_MEAS", "0x57")  b4 == Write("bmp280", "CONFIG", "0x00")
           b5 == Read("bmp280", "DATA_START", BurstLength)
<1>5. /\ {m1, m2, m3, m4, m5, m6, b1, b2, b3, b4, b5} \subseteq Transfer
      /\ \A x \in {m1, m2, m3, m4, m5, m6} : x.addr = "mpu6050"
      /\ \A x \in {b1, b2, b3, b4, b5} : x.addr = "bmp280"
  <2>1. m1 \in Transfer /\ m6 \in Transfer /\ b1 \in Transfer /\ b2 \in Transfer /\ b5 \in Transfer
        /\ m1.addr = "mpu6050" /\ m6.addr = "mpu6050" /\ b1.addr = "bmp280" /\ b2.addr = "bmp280" /\ b5.addr = "bmp280"
    BY <1>1, <1>4 DEF Symbol
  <2>2. m2 \in Transfer /\ m3 \in Transfer /\ m4 \in Transfer /\ m5 \in Transfer
        /\ m2.addr = "mpu6050" /\ m3.addr = "mpu6050" /\ m4.addr = "mpu6050" /\ m5.addr = "mpu6050"
    BY <1>2, <1>4 DEF Symbol
  <2>3. b3 \in Transfer /\ b4 \in Transfer /\ b3.addr = "bmp280" /\ b4.addr = "bmp280"
    BY <1>2, <1>4 DEF Symbol
  <2> HIDE DEF m1, m2, m3, m4, m5, m6, b1, b2, b3, b4, b5
  <2> QED BY <2>1, <2>2, <2>3
<1>6. /\ mpu6050_init = <<m1, m2, m3, m4, m5>> /\ bmp280_init = <<b1, b2, b3, b4>>
      /\ mpu6050_read = <<m6>> /\ bmp280_read = <<b5>>
      /\ m1.data[1] \in IdRegister /\ b1.data[1] \in IdRegister
  BY <1>3 DEF mpu6050_init, bmp280_init, mpu6050_read, bmp280_read
<1> HIDE DEF m1, m2, m3, m4, m5, m6, b1, b2, b3, b4, b5
<1>7. /\ mpu6050_init \in Seq(Transfer) /\ mpu6050_init # <<>> /\ 1 \in DOMAIN mpu6050_init
      /\ \A n \in DOMAIN mpu6050_init : mpu6050_init[n].addr = "mpu6050"
      /\ mpu6050_init[1].data[1] \in IdRegister
  BY <1>5, <1>6
<1>8. /\ bmp280_init \in Seq(Transfer) /\ bmp280_init # <<>> /\ 1 \in DOMAIN bmp280_init
      /\ \A n \in DOMAIN bmp280_init : bmp280_init[n].addr = "bmp280"
      /\ bmp280_init[1].data[1] \in IdRegister
  BY <1>5, <1>6
<1>9. /\ mpu6050_read \in Seq(Transfer) /\ bmp280_read \in Seq(Transfer)
      /\ mpu6050_read # <<>> /\ bmp280_read # <<>>
      /\ \A n \in DOMAIN mpu6050_read : mpu6050_read[n].addr = "mpu6050"
      /\ \A n \in DOMAIN bmp280_read : bmp280_read[n].addr = "bmp280"
  BY <1>5, <1>6
<1>10. InitOf(d) = IF d = "mpu6050" THEN mpu6050_init ELSE bmp280_init
  BY DEF InitOf
<1> QED BY <1>4, <1>7, <1>8, <1>9, <1>10 DEF Transfers

LEMMA I2cInitInv == I2cInit => I2cInv
<1> SUFFICES ASSUME I2cInit PROVE I2cInv
  OBVIOUS
<1>0. <<>> \in Symbols /\ <<>> \in Answer /\ <<>> \in Transfers
  BY DEF Symbols, Answer, Transfers
<1>1. I2cTypeOK
  <2>1. i2c1 \in Controller
    <3>1. 0 \in Int /\ 0 \in Nat /\ "" \in Device \cup {""}
      OBVIOUS
    <3> QED BY <1>0, <3>1, Zenon DEF I2cInit, Controller
  <2>2. sensor \in [Device -> SensorState]
    <3> DEFINE S == [pointer : {<<>>}, at : {0}, settings : {{}}, genuine : BOOLEAN]
    <3>1. S \subseteq SensorState
      BY <1>0 DEF SensorState
    <3>2. sensor \in [Device -> S]
      BY DEF I2cInit
    <3> HIDE DEF S
    <3> QED BY <3>1, <3>2
  <2>3. drv \in Call
    BY <1>0 DEF I2cInit, Call, NoCall
  <2>4. zero \in Averaging /\ s_reference_pressure \in Nat
    BY I2cAssumption DEF I2cInit, Averaging
  <2>5. /\ bus = [calls |-> bus.calls, ready |-> bus.ready, read |-> bus.read, samples |-> bus.samples]
        /\ bus.calls \in Nat /\ bus.ready \subseteq Device /\ bus.samples \subseteq Nat
    BY I2cAssumption DEF I2cInit
  <2> QED BY <2>1, <2>2, <2>3, <2>4, <2>5 DEF I2cTypeOK
<1>2. drv.step = "out" /\ drv.fn = "" /\ drv.todo = <<>> /\ zero.got = 0 /\ zero.sum = 0
  BY DEF I2cInit, NoCall
<1>3. InCall /\ Writing /\ Reading /\ Succeeded /\ Initialising /\ Summed
  <2>1. Writing /\ Reading
    BY <1>2 DEF Writing, Reading
  <2>2. InCall
    <3>1. ~Transferring /\ drv.step \notin {"return", "read", "data"}
      BY <1>2 DEF Transferring
    <3>2. \A n \in 1 .. Len(drv.todo) : FALSE
      <4>1. drv.todo = <<>>
        BY <1>2
      <4>2. Len(<<>>) = 0
        OBVIOUS
      <4>3. \A n \in 1 .. 0 : FALSE
        OBVIOUS
      <4> QED BY <4>1, <4>2, <4>3, Zenon
    <3> QED BY <1>2, <3>1, <3>2 DEF InCall
  <2>3. Succeeded /\ Initialising /\ Summed
    BY <1>2 DEF Succeeded, Initialising, Summed
  <2> QED BY <2>1, <2>2, <2>3
<1>4. i2c1.phase = "idle" /\ ~i2c1.stopf /\ i2c1.rxdr = <<>> /\ i2c1.txdr = <<>>
  BY DEF I2cInit
<1>7. Leftover
  BY <1>4 DEF Leftover
<1>8. I2cReadTrue
  <2>1. bus.read.buf = <<>> /\ bus.read.of.len = 0
    BY DEF I2cInit, NoRead, Read
  <2> QED BY <2>1 DEF I2cReadTrue
<1>5. SensorConfigured
  BY DEF I2cInit, SensorConfigured
<1>6. ReferenceMeasured
  <2>1. s_reference_pressure = StandardPressure /\ bus.samples = {StandardPressure} /\ StandardPressure \in Nat
    BY I2cAssumption DEF I2cInit
  <2> QED BY <2>1 DEF ReferenceMeasured
<1> QED BY <1>1, <1>3, <1>5, <1>6, <1>7, <1>8 DEF I2cInv, SensorResultTrue
-----------------------------------------------------------------------------
(* What a step of a transfer need not look at: the calls, the results and  *)
(* the samples do not change, and the sensors forget nothing.              *)
LEMMA TransferStep ==
    ASSUME I2cInv, i2c1' \in Controller, sensor' \in [Device -> SensorState], drv' \in Call,
           \A d \in Device : /\ sensor[d].settings \subseteq sensor'[d].settings
                             /\ sensor'[d].genuine = sensor[d].genuine,
           drv'.todo = drv.todo, drv'.dev = drv.dev, drv'.fn = drv.fn,
           \/ drv'.step = drv.step
           \/ Transferring /\ drv'.step \in {"bytes", "nack", "read", "data", "ok", "fail"},
           drv'.step \in {"read", "data"} => This.len > 0,
           UNCHANGED <<zero, s_reference_pressure, bus>>,
           Writing', Reading', Leftover', Succeeded'
    PROVE  I2cInv'
<1>1. I2cTypeOK /\ InCall /\ Initialising /\ Summed /\ I2cReadTrue /\ SensorConfigured /\ ReferenceMeasured
  BY DEF I2cInv, SensorResultTrue
<1>2. I2cTypeOK'
  BY <1>1 DEF I2cTypeOK
<1>3. InCall'
  BY <1>1 DEF InCall, Transferring, This
<1>4. Initialising'
  <2> SUFFICES ASSUME drv.fn = "init", drv'.step # "fail" PROVE Initialising'
    BY DEF Initialising
  <2>1. drv.step # "fail" /\ drv.dev \in Device
    BY <1>1 DEF InCall, Transferring
  <2> QED BY <1>1, <2>1 DEF Initialising
<1>5. Summed' /\ I2cReadTrue' /\ ReferenceMeasured'
  BY <1>1 DEF Summed, I2cReadTrue, ReferenceMeasured
<1>6. SensorConfigured'
  BY <1>1 DEF SensorConfigured, I2cTypeOK
<1> QED BY <1>2, <1>3, <1>4, <1>5, <1>6 DEF I2cInv, SensorResultTrue

(* The transfer in progress.                                               *)
LEMMA ThisForm ==
    ASSUME drv \in Call, InCall, Transferring
    PROVE  /\ This \in Transfer /\ This.addr = drv.dev /\ This.addr \in Device
           /\ This.len \in Nat /\ This.data \in Seq(Symbol) /\ Len(This.data) \in {1, 2}
           /\ This.len > 0 => Len(This.data) = 1 /\ This.data = <<This.data[1]>>
           /\ This.len = 0 => Len(This.data) = 2 /\ This.data = <<This.data[1]>> \o <<This.data[2]>>
           /\ \A n \in 1 .. Len(This.data) : This.data[n] \in Symbol
<1>1. drv.todo \in Seq(Transfer)
  BY DEF Call, Transfers
<1>2. drv.todo # <<>>
  BY DEF InCall
<1>3. This = drv.todo[1] /\ 1 \in 1 .. Len(drv.todo) /\ This \in Transfer
  BY <1>1, <1>2 DEF This
<1>4. This.addr = drv.dev
  BY <1>3 DEF InCall
<1> QED BY <1>3, <1>4, TransferForm DEF Symbols

(* The sensor stops answering.                                             *)
LEMMA StuckInv == I2cInv /\ Stuck => I2cInv'
<1> SUFFICES ASSUME I2cInv, Stuck PROVE I2cInv'
  OBVIOUS
<1>1. i2c1 \in Controller /\ drv \in Call /\ sensor \in [Device -> SensorState] /\ InCall
  BY DEF I2cInv, I2cTypeOK
<1>2. i2c1' = [i2c1 EXCEPT !.phase = "stuck"] /\ UNCHANGED <<sensor, drv, zero, s_reference_pressure, bus>>
  BY DEF Stuck
<1>3. /\ i2c1' \in Controller /\ i2c1'.phase = "stuck" /\ i2c1'.nackf = i2c1.nackf /\ i2c1'.stopf = i2c1.stopf
      /\ i2c1'.txdr = i2c1.txdr /\ i2c1'.rxdr = i2c1.rxdr /\ i2c1'.transfer = i2c1.transfer
  BY <1>1, <1>2 DEF Controller
<1>4. Writing' /\ Reading' /\ Leftover' /\ Succeeded'
  <2>1. Leftover /\ Writing /\ Reading /\ Succeeded /\ i2c1.phase # "idle"
    BY DEF I2cInv, Stuck, Answering
  <2>2. Writing'
    BY <1>2, <1>3, <2>1 DEF Writing, This
  <2>3. Reading'
    BY <1>2, <1>3, <2>1 DEF Reading, This
  <2>4. Leftover'
    BY <1>2, <1>3, <2>1 DEF Leftover
  <2>5. Succeeded'
    BY <1>2, <1>3, <2>1 DEF Succeeded, This
  <2> QED BY <2>2, <2>3, <2>4, <2>5
<1> QED BY <1>1, <1>2, <1>3, <1>4, TransferStep DEF InCall

(* What the controller does after an acknowledge or a byte.                *)
LEMMA ProgressForm ==
    ASSUME NEW c \in Controller
    PROVE  /\ Progress(c) \in Controller
           /\ Progress(c).addr = c.addr /\ Progress(c).rd = c.rd /\ Progress(c).nbytes = c.nbytes
           /\ Progress(c).autoend = c.autoend /\ Progress(c).first = c.first
           /\ Progress(c).txdr = c.txdr /\ Progress(c).rxdr = c.rxdr
           /\ Progress(c).nackf = c.nackf /\ Progress(c).transfer = c.transfer
           /\ c.nbytes > 0 => Progress(c).phase = c.phase /\ Progress(c).stopf = c.stopf
           /\ c.nbytes = 0 /\ c.autoend => Progress(c).phase = "idle" /\ Progress(c).stopf
           /\ ~(c.nbytes > 0) /\ ~(c.nbytes = 0 /\ c.autoend) =>
                Progress(c).phase = "held" /\ Progress(c).stopf = c.stopf
<1> DEFINE p == Progress(c)
<1>0. c.nbytes \in Int
  BY DEF Controller
<1>1. CASE c.nbytes > 0
  <2>1. p = c
    BY <1>0, <1>1 DEF Progress
  <2> HIDE DEF p
  <2> QED BY <1>0, <1>1, <2>1 DEF p
<1>2. CASE c.nbytes = 0 /\ c.autoend
  <2>1. p = [c EXCEPT !.phase = "idle", !.stopf = TRUE]
    BY <1>2 DEF Progress
  <2> HIDE DEF p
  <2>2. /\ p \in Controller /\ p.addr = c.addr /\ p.rd = c.rd /\ p.nbytes = c.nbytes
        /\ p.autoend = c.autoend /\ p.first = c.first /\ p.txdr = c.txdr /\ p.rxdr = c.rxdr
        /\ p.nackf = c.nackf /\ p.transfer = c.transfer /\ p.phase = "idle" /\ p.stopf
    BY <2>1 DEF Controller
  <2> QED BY <1>2, <2>2 DEF p
<1>3. CASE ~(c.nbytes > 0) /\ ~(c.nbytes = 0 /\ c.autoend)
  <2>1. p = [c EXCEPT !.phase = "held"]
    BY <1>3 DEF Progress
  <2> HIDE DEF p
  <2>2. /\ p \in Controller /\ p.addr = c.addr /\ p.rd = c.rd /\ p.nbytes = c.nbytes
        /\ p.autoend = c.autoend /\ p.first = c.first /\ p.txdr = c.txdr /\ p.rxdr = c.rxdr
        /\ p.nackf = c.nackf /\ p.transfer = c.transfer /\ p.phase = "held" /\ p.stopf = c.stopf
    BY <2>1 DEF Controller
  <2> QED BY <1>3, <2>2 DEF p
<1> QED BY <1>1, <1>2, <1>3

(* The address is acknowledged, or not.                                    *)
LEMMA AddressedInv == I2cInv /\ Addressed => I2cInv'
<1> SUFFICES ASSUME I2cInv, Addressed PROVE I2cInv'
  OBVIOUS
<1>1. i2c1 \in Controller /\ drv \in Call /\ sensor \in [Device -> SensorState] /\ InCall
  BY DEF I2cInv, I2cTypeOK
<1>2. i2c1.phase = "address" /\ UNCHANGED <<sensor, drv, zero, s_reference_pressure, bus>>
  BY DEF Addressed
<1>3. Leftover /\ Writing /\ Reading /\ Succeeded
  BY DEF I2cInv
<1>4. i2c1'.transfer = i2c1.transfer => Succeeded'
  BY <1>2, <1>3 DEF Succeeded, This
<1>5. CASE i2c1' = [i2c1 EXCEPT !.phase = "idle", !.nackf = TRUE, !.stopf = TRUE]
  <2>1. /\ i2c1' \in Controller /\ i2c1'.phase = "idle" /\ i2c1'.nackf /\ i2c1'.stopf
        /\ i2c1'.txdr = i2c1.txdr /\ i2c1'.rxdr = i2c1.rxdr /\ i2c1'.transfer = i2c1.transfer
        /\ i2c1'.nbytes = i2c1.nbytes
    BY <1>1, <1>5 DEF Controller
  <2>2. Writing'
    BY <1>2, <1>3, <2>1 DEF Writing, This
  <2>3. Reading'
    BY <1>2, <1>3, <2>1 DEF Reading, This
  <2>4. Leftover'
    BY <1>2, <1>3, <2>1 DEF Leftover
  <2> QED BY <1>1, <1>2, <1>3, <1>4, <2>1, <2>2, <2>3, <2>4, TransferStep DEF InCall
<1>6. CASE i2c1' = Progress([i2c1 EXCEPT !.phase = IF i2c1.rd THEN "read" ELSE "write"])
  <2> DEFINE c == [i2c1 EXCEPT !.phase = IF i2c1.rd THEN "read" ELSE "write"]
  <2>1. /\ c \in Controller /\ c.phase = (IF i2c1.rd THEN "read" ELSE "write") /\ c.rd = i2c1.rd
        /\ c.nackf = i2c1.nackf /\ c.stopf = i2c1.stopf /\ c.addr = i2c1.addr
        /\ c.txdr = i2c1.txdr /\ c.rxdr = i2c1.rxdr /\ c.transfer = i2c1.transfer
        /\ c.nbytes = i2c1.nbytes /\ c.autoend = i2c1.autoend /\ c.first = i2c1.first
    BY <1>1 DEF Controller
  <2>2. i2c1' = Progress(c)
    BY <1>6
  <2> HIDE DEF c
  <2>3. ~(c.nbytes = 0 /\ c.autoend)
    BY <1>2, <1>3, <2>1 DEF Leftover
  <2>4. /\ i2c1' \in Controller /\ i2c1'.rd = i2c1.rd
        /\ i2c1'.nackf = i2c1.nackf /\ i2c1'.stopf = i2c1.stopf /\ i2c1'.addr = i2c1.addr
        /\ i2c1'.txdr = i2c1.txdr /\ i2c1'.rxdr = i2c1.rxdr /\ i2c1'.transfer = i2c1.transfer
        /\ i2c1'.nbytes = i2c1.nbytes /\ i2c1'.autoend = i2c1.autoend /\ i2c1'.first = i2c1.first
        /\ i2c1'.phase = IF i2c1.nbytes > 0 THEN IF i2c1.rd THEN "read" ELSE "write" ELSE "held"
    BY <2>1, <2>2, <2>3, ProgressForm
  <2>5. i2c1.txdr = <<>> /\ (i2c1.rd => drv.step = "data") /\ i2c1'.phase \in {"read", "write", "held"}
    BY <1>2, <1>3, <2>4 DEF Leftover
  <2>6. Writing'
    <3> SUFFICES ASSUME drv.step = "bytes" PROVE Writing'
      BY <1>2 DEF Writing
    <3>1. ~i2c1.rd /\ drv.i = 0 /\ i2c1.nbytes = Len(This.data) /\ i2c1.autoend /\ i2c1.first /\ i2c1.addr = This.addr
      BY <1>2, <1>3 DEF Writing
    <3>2. Len(This.data) > 0
      BY <1>1, ThisForm DEF Transferring
    <3> QED BY <1>2, <1>3, <2>4, <2>5, <3>1, <3>2 DEF Writing, This
  <2>7. Reading'
    <3> SUFFICES ASSUME drv.step = "data" PROVE Reading'
      BY <1>2 DEF Reading
    <3>1. i2c1.rd /\ i2c1.nbytes > 0
      BY <1>2, <1>3 DEF Reading
    <3> QED BY <1>2, <1>3, <2>4, <3>1 DEF Reading, This
  <2>8. Leftover'
    BY <1>2, <1>3, <2>4, <2>5 DEF Leftover
  <2> QED BY <1>1, <1>2, <1>3, <1>4, <2>4, <2>6, <2>7, <2>8, TransferStep DEF InCall
<1> QED BY <1>5, <1>6 DEF Addressed

(* The sensor takes a byte.                                                *)
LEMMA WrittenInv == I2cInv /\ Written => I2cInv'
<1> SUFFICES ASSUME I2cInv, Written PROVE I2cInv'
  OBVIOUS
<1> DEFINE tr == This
           c == [i2c1 EXCEPT !.txdr = <<>>, !.nbytes = @ - 1, !.first = FALSE]
           out == Len(tr.data) - i2c1.nbytes
<1>1. i2c1 \in Controller /\ drv \in Call /\ sensor \in [Device -> SensorState] /\ InCall
  BY DEF I2cInv, I2cTypeOK
<1>2. /\ i2c1.phase = "write" /\ i2c1.txdr # <<>> /\ i2c1' = Progress(c)
      /\ UNCHANGED <<drv, zero, s_reference_pressure, bus>>
  BY DEF Written
<1>3. Leftover /\ Writing /\ Reading /\ Succeeded
  BY DEF I2cInv
<1>4. drv.step = "bytes"
  BY <1>2, <1>3 DEF Leftover
<1>6. /\ tr.addr \in Device /\ tr.len \in Nat /\ Len(tr.data) \in {1, 2}
      /\ tr.len > 0 => Len(tr.data) = 1
      /\ tr.len = 0 => Len(tr.data) = 2 /\ tr.data = <<tr.data[1]>> \o <<tr.data[2]>>
      /\ i2c1.nbytes \in Int /\ i2c1.txdr \in Symbols /\ i2c1.nbytes - 1 \in Int /\ drv.i \in Nat
  <2>1. i2c1.nbytes \in Int /\ i2c1.txdr \in Symbols /\ drv.i \in Nat
    BY <1>1 DEF Controller, Call
  <2> QED BY <1>1, <1>4, <2>1, ThisForm DEF Transferring
<1>5. /\ i2c1.autoend /\ i2c1.nbytes > 0 /\ out >= 0 /\ (i2c1.first <=> out = 0)
      /\ out > 0 => Pointed(tr)
      /\ drv.i = out + 1 /\ i2c1.txdr = <<tr.data[drv.i]>> /\ i2c1.addr = tr.addr /\ ~i2c1.nackf /\ ~i2c1.rd
      /\ ~i2c1.stopf /\ i2c1.rxdr = <<>>
  <2>1. /\ i2c1.autoend /\ i2c1.nbytes > 0 /\ out >= 0 /\ (i2c1.first <=> out = 0)
        /\ out > 0 => Pointed(tr)
        /\ drv.i = out + 1 /\ i2c1.txdr = <<tr.data[drv.i]>> /\ i2c1.addr = tr.addr /\ ~i2c1.rd
        /\ drv.i > 0 => ~i2c1.nackf
    BY <1>2, <1>3, <1>4 DEF Writing
  <2>2. ~i2c1.nackf
    BY <1>6, <2>1
  <2>3. ~i2c1.stopf /\ i2c1.rxdr = <<>>
    BY <1>2, <1>3, <1>4, <2>2 DEF Leftover
  <2> QED BY <2>1, <2>2, <2>3
<1> HIDE DEF tr
<1>7. /\ c \in Controller /\ c.phase = "write" /\ c.txdr = <<>> /\ c.nbytes = i2c1.nbytes - 1 /\ ~c.first
      /\ c.addr = i2c1.addr /\ ~c.rd /\ c.autoend /\ c.rxdr = <<>> /\ ~c.nackf /\ ~c.stopf
  <2>1. <<>> \in Symbols
    BY DEF Symbols
  <2>2. /\ c \in Controller /\ c.phase = i2c1.phase /\ c.txdr = <<>> /\ c.nbytes = i2c1.nbytes - 1 /\ c.first = FALSE
        /\ c.addr = i2c1.addr /\ c.rd = i2c1.rd /\ c.autoend = i2c1.autoend /\ c.rxdr = i2c1.rxdr
        /\ c.nackf = i2c1.nackf /\ c.stopf = i2c1.stopf
    BY <1>1, <1>6, <2>1 DEF Controller
  <2> HIDE DEF c
  <2> QED BY <1>2, <1>5, <2>2
<1> HIDE DEF c
<1>8. /\ i2c1' \in Controller /\ i2c1'.txdr = <<>> /\ i2c1'.nbytes = i2c1.nbytes - 1 /\ ~i2c1'.first
      /\ i2c1'.addr = tr.addr /\ ~i2c1'.rd /\ i2c1'.autoend /\ i2c1'.rxdr = <<>> /\ ~i2c1'.nackf
      /\ i2c1.nbytes > 1 => i2c1'.phase = "write" /\ ~i2c1'.stopf
      /\ i2c1.nbytes = 1 => i2c1'.phase = "idle"
  <2>1. i2c1.nbytes > 1 => c.nbytes > 0
    BY <1>6, <1>7
  <2>2. i2c1.nbytes = 1 => c.nbytes = 0
    BY <1>6, <1>7
  <2> QED BY <1>2, <1>5, <1>7, <2>1, <2>2, ProgressForm
<1> DEFINE d == i2c1.addr
           first == [sensor[d] EXCEPT !.pointer = i2c1.txdr, !.at = 0]
           second == [sensor[d] EXCEPT !.settings = @ \cup {sensor[d].pointer \o i2c1.txdr}]
           new == IF i2c1.first THEN first ELSE second
<1>9. sensor' = [sensor EXCEPT ![d] = new]
  BY DEF Written, Took
<1>17. tr.addr = d
  BY <1>5
<1>10. /\ sensor[d] \in SensorState /\ sensor[d].pointer \o i2c1.txdr \in Symbols
  <2>1. sensor[d] \in SensorState
    BY <1>1, <1>6, <1>17
  <2>2. sensor[d].pointer \in Symbols
    BY <2>1 DEF SensorState
  <2> QED BY <1>6, <2>1, <2>2, ConcatProperties DEF Symbols
<1>11. /\ first \in SensorState /\ first.pointer = i2c1.txdr /\ first.at = 0
       /\ first.settings = sensor[d].settings /\ first.genuine = sensor[d].genuine
  BY <1>6, <1>10 DEF SensorState
<1>12. /\ second \in SensorState /\ second.pointer = sensor[d].pointer /\ second.at = sensor[d].at
       /\ second.settings = sensor[d].settings \cup {sensor[d].pointer \o i2c1.txdr}
       /\ second.genuine = sensor[d].genuine
  BY <1>10 DEF SensorState
<1> HIDE DEF first, second, d
<1>13. /\ sensor' \in [Device -> SensorState] /\ sensor'[d] = new
       /\ \A e \in Device : e # d => sensor'[e] = sensor[e]
  BY <1>1, <1>6, <1>9, <1>11, <1>12, <1>17
<1>14. \A e \in Device : sensor[e].settings \subseteq sensor'[e].settings /\ sensor'[e].genuine = sensor[e].genuine
  BY <1>11, <1>12, <1>13
<1>15. CASE i2c1.first
  <2>1. out = 0 /\ drv.i = 1 /\ sensor'[d].pointer = <<tr.data[1]>> /\ sensor'[d].at = 0
    BY <1>5, <1>11, <1>13, <1>15
  <2>2. Writing'
    <3>1. tr = This' /\ drv'.step = "bytes" /\ drv'.i = 1
      BY <1>2, <1>4, <2>1 DEF tr, This
    <3>2. i2c1.nbytes = Len(tr.data)
      BY <1>6, <1>7, <2>1
    <3>3. Len(tr.data) = 1 => i2c1'.phase = "idle" /\ tr.len # 0
      BY <1>6, <1>8, <3>2
    <3>4. Len(tr.data) = 2 => i2c1'.phase = "write" /\ Len(tr.data) - i2c1'.nbytes = 1 /\ i2c1'.nbytes > 0
      BY <1>6, <1>8, <3>2
    <3> QED BY <1>6, <1>8, <1>17, <2>1, <3>1, <3>3, <3>4 DEF Writing, Pointed, Delivered
  <2>3. Leftover' /\ Reading' /\ Succeeded'
    <3>1. Reading' /\ Succeeded'
      BY <1>2, <1>4 DEF Reading, Succeeded
    <3>2. i2c1'.phase \in {"write", "idle"} /\ (i2c1'.phase = "write" => ~i2c1'.stopf)
      <4>1. \A L \in {1, 2}, n \in Int : L - n = 0 => n = 1 \/ n > 1
        OBVIOUS
      <4>2. i2c1.nbytes = 1 \/ i2c1.nbytes > 1
        BY <1>6, <2>1, <4>1
      <4> QED BY <1>8, <4>2
    <3>3. Leftover'
      BY <1>2, <1>4, <1>8, <2>1, <3>2 DEF Leftover
    <3> QED BY <3>1, <3>3
  <2> QED BY <1>1, <1>2, <1>4, <1>8, <1>13, <1>14, <2>2, <2>3, TransferStep
<1>16. CASE ~i2c1.first
  <2>1. out = 1 /\ drv.i = 2 /\ Len(tr.data) = 2 /\ i2c1.nbytes = 1 /\ tr.len = 0 /\ Pointed(tr)
    <3>1. Len(tr.data) = 1 \/ Len(tr.data) = 2
      BY <1>6
    <3>2. out # 0 /\ out >= 0 /\ i2c1.nbytes > 0
      BY <1>5, <1>16
    <3>3. Len(tr.data) = 2 /\ i2c1.nbytes = 1
      <4>1. \A L \in {1, 2}, n \in Int : L - n # 0 /\ L - n >= 0 /\ n > 0 => L = 2 /\ n = 1
        OBVIOUS
      <4> QED BY <1>6, <3>2, <4>1
    <3>4. out = 1
      BY <3>3
    <3> HIDE DEF out
    <3>5. drv.i = 2 /\ Pointed(tr)
      BY <1>5, <3>4
    <3> QED BY <1>6, <3>3, <3>4, <3>5
  <2>2. sensor[d].pointer \o i2c1.txdr = tr.data
    BY <1>5, <1>6, <1>17, <2>1 DEF Pointed
  <2>3. sensor'[d].pointer = <<tr.data[1]>> /\ sensor'[d].at = 0 /\ tr.data \in sensor'[d].settings
    BY <1>12, <1>13, <1>16, <1>17, <2>1, <2>2 DEF Pointed
  <2>4. Writing'
    <3>1. tr = This' /\ drv'.step = "bytes" /\ drv'.i = 2
      BY <1>2, <1>4, <2>1 DEF tr, This
    <3>2. i2c1'.phase = "idle" /\ ~i2c1'.nackf
      BY <1>8, <2>1
    <3>3. drv'.i = Len(tr.data) /\ drv'.i <= Len(tr.data)
      BY <2>1, <3>1
    <3> QED BY <1>17, <2>3, <3>1, <3>2, <3>3 DEF Writing, Pointed, Delivered
  <2>5. Leftover' /\ Reading' /\ Succeeded'
    BY <1>2, <1>4, <1>5, <1>6, <1>7, <1>8, <2>1 DEF Leftover, Reading, Succeeded
  <2> QED BY <1>1, <1>2, <1>4, <1>8, <1>13, <1>14, <2>4, <2>5, TransferStep
<1> QED BY <1>15, <1>16

(* The sensor sends a byte.                                                *)
LEMMA ReadOutInv == I2cInv /\ ReadOut => I2cInv'
<1> SUFFICES ASSUME I2cInv, ReadOut PROVE I2cInv'
  OBVIOUS
<1> DEFINE tr == This
           had == Len(drv.buf)
           byte == Byte(tr, had, i2c1.transfer)
           c == [i2c1 EXCEPT !.rxdr = <<byte>>, !.nbytes = @ - 1]
<1>1. i2c1 \in Controller /\ drv \in Call /\ sensor \in [Device -> SensorState] /\ InCall
  BY DEF I2cInv, I2cTypeOK
<1>2. i2c1.phase = "read" /\ i2c1.rxdr = <<>> /\ UNCHANGED <<drv, zero, s_reference_pressure, bus>>
  BY DEF ReadOut, RXNE
<1>3. Leftover /\ Writing /\ Reading /\ Succeeded
  BY DEF I2cInv
<1>4. drv.step = "data" /\ This.len > 0
  BY <1>1, <1>2, <1>3 DEF Leftover, InCall
<1>5. had \in Nat /\ Len(i2c1.rxdr) = 0 /\ i2c1.nbytes - 1 \in Int
  <2>1. drv.buf \in Seq(ByteRead) /\ i2c1.nbytes \in Int
    BY <1>1 DEF Call, Answer, Controller
  <2> QED BY <1>2, <2>1
<1>6. /\ sensor[tr.addr].pointer = tr.data /\ drv.buf = Bytes(tr, had, i2c1.transfer) /\ had <= tr.len
      /\ i2c1.addr = tr.addr /\ i2c1.rd /\ i2c1.autoend
      /\ sensor[tr.addr].at = had /\ i2c1.nbytes = tr.len - had /\ i2c1.nbytes > 0
      /\ ~(i2c1.stopf /\ ~i2c1.nackf)
  BY <1>2, <1>3, <1>4, <1>5 DEF Reading, Leftover
<1>7. tr.addr \in Device /\ tr.len \in Nat /\ tr.data \in Symbols
  BY <1>1, <1>4, ThisForm DEF Transferring, Symbols
<1>8. /\ i2c1' = Progress(c) /\ sensor' = [sensor EXCEPT ![tr.addr].at = @ + 1]
  BY <1>6 DEF ReadOut, Byte
<1> HIDE DEF tr
<1>9. byte \in ByteRead /\ <<byte>> \in Answer /\ Len(<<byte>>) = 1 /\ <<byte>> # <<>>
  <2>1. byte \in ByteRead
    BY <1>1, <1>5, <1>7 DEF ByteRead, Byte, Controller
  <2> HIDE DEF byte
  <2> QED BY <2>1 DEF Answer
<1> HIDE DEF byte, had
<1>10. /\ c \in Controller /\ c.phase = "read" /\ c.rxdr = <<byte>> /\ c.nbytes = i2c1.nbytes - 1
       /\ c.addr = tr.addr /\ c.rd /\ c.autoend /\ c.nackf = i2c1.nackf /\ c.stopf = i2c1.stopf
       /\ c.transfer = i2c1.transfer /\ c.txdr = i2c1.txdr
  <2>1. /\ c \in Controller /\ c.phase = i2c1.phase /\ c.rxdr = <<byte>> /\ c.nbytes = i2c1.nbytes - 1
        /\ c.addr = i2c1.addr /\ c.rd = i2c1.rd /\ c.autoend = i2c1.autoend /\ c.nackf = i2c1.nackf
        /\ c.stopf = i2c1.stopf /\ c.transfer = i2c1.transfer /\ c.txdr = i2c1.txdr
    BY <1>1, <1>5, <1>9 DEF Controller
  <2> HIDE DEF c
  <2> QED BY <1>2, <1>6, <2>1
<1> HIDE DEF c
<1>11. /\ i2c1' \in Controller /\ i2c1'.rxdr = <<byte>> /\ i2c1'.nbytes = tr.len - (had + 1)
       /\ i2c1'.addr = tr.addr /\ i2c1'.rd /\ i2c1'.autoend /\ i2c1'.nackf = i2c1.nackf
       /\ i2c1'.transfer = i2c1.transfer
       /\ i2c1.nbytes > 1 => i2c1'.phase = "read" /\ i2c1'.stopf = i2c1.stopf
       /\ i2c1.nbytes = 1 => i2c1'.phase = "idle" /\ had + 1 = tr.len
       /\ i2c1'.txdr = i2c1.txdr
  BY <1>5, <1>6, <1>7, <1>8, <1>10, ProgressForm
<1> DEFINE d == tr.addr
           new == [sensor[d] EXCEPT !.at = @ + 1]
<1>12. /\ new \in SensorState /\ new.at = had + 1 /\ new.pointer = tr.data
       /\ new.settings = sensor[d].settings /\ new.genuine = sensor[d].genuine
  BY <1>1, <1>5, <1>6, <1>7 DEF SensorState
<1> HIDE DEF new
<1>13. sensor' = [sensor EXCEPT ![d] = new]
  BY <1>8 DEF new
<1>14. /\ sensor' \in [Device -> SensorState] /\ sensor'[d] = new
       /\ \A e \in Device : e # d => sensor'[e] = sensor[e]
  BY <1>1, <1>7, <1>12, <1>13
<1>15. \A e \in Device : sensor[e].settings \subseteq sensor'[e].settings /\ sensor'[e].genuine = sensor[e].genuine
  BY <1>12, <1>14
<1>16. Reading'
  <2>1. tr = This' /\ Len(drv'.buf) = had /\ drv'.buf = drv.buf /\ Len(i2c1'.rxdr) = 1
    BY <1>2, <1>9, <1>11 DEF tr, This, had
  <2>2. i2c1.nbytes > 1 \/ i2c1.nbytes = 1
    BY <1>5, <1>6, <1>7
  <2>3. Len(drv'.buf) + Len(i2c1'.rxdr) = had + 1 /\ had + 1 <= tr.len
    BY <1>5, <1>6, <1>7, <2>1
  <2>4. i2c1'.phase \in {"read", "idle"}
    BY <1>11, <2>2
  <2>5. i2c1'.phase = "read" => i2c1'.nbytes > 0 /\ ~(i2c1'.stopf /\ ~i2c1'.nackf)
    BY <1>5, <1>6, <1>7, <1>11, <2>2
  <2>6. i2c1'.phase = "idle" => had + 1 = tr.len
    BY <1>11, <2>2
  <2> QED BY <1>6, <1>7, <1>11, <1>12, <1>14, <2>1, <2>3, <2>4, <2>5, <2>6 DEF Reading, byte
<1>17. Leftover'
  <2>1. i2c1.nbytes > 1 \/ i2c1.nbytes = 1
    BY <1>5, <1>6, <1>7
  <2>2. i2c1'.txdr = <<>> /\ i2c1'.phase \in {"read", "idle"}
    BY <1>2, <1>3, <1>11, <2>1 DEF Leftover
  <2> QED BY <1>2, <1>3, <1>4, <1>6, <1>11, <2>1, <2>2 DEF Leftover
<1>18. Writing' /\ Succeeded'
  BY <1>2, <1>4 DEF Writing, Succeeded
<1> QED BY <1>1, <1>2, <1>4, <1>11, <1>14, <1>15, <1>16, <1>17, <1>18, TransferStep

-----------------------------------------------------------------------------
(* A call gives up: only what it leaves behind matters.                    *)
LEMMA FailInv ==
    ASSUME I2cInv, Transferring, Fail, i2c1' \in Controller, Leftover',
           UNCHANGED <<sensor, zero, s_reference_pressure, bus>>
    PROVE  I2cInv'
<1>1. drv \in Call /\ sensor \in [Device -> SensorState]
  BY DEF I2cInv, I2cTypeOK
<1>2. drv' = [drv EXCEPT !.step = "fail", !.i = 0]
  BY DEF Fail, StepTo
<1>3. /\ drv' \in Call /\ drv'.step = "fail" /\ drv'.todo = drv.todo /\ drv'.dev = drv.dev
      /\ drv'.fn = drv.fn
  BY <1>1, <1>2 DEF Call
<1>4. Writing' /\ Reading' /\ Succeeded'
  BY <1>3 DEF Writing, Reading, Succeeded
<1> QED BY <1>1, <1>3, <1>4, TransferStep

(* CR2 zeroed.                                                             *)
LEMMA ZeroedForm ==
    ASSUME NEW c \in Controller
    PROVE  /\ Zeroed(c) \in Controller /\ Zeroed(c).phase = c.phase /\ ~Zeroed(c).autoend
           /\ Zeroed(c).txdr = c.txdr /\ Zeroed(c).rxdr = c.rxdr /\ Zeroed(c).rd = c.rd
           /\ Zeroed(c).nackf = c.nackf /\ Zeroed(c).stopf = c.stopf /\ Zeroed(c).transfer = c.transfer
<1> DEFINE z == Zeroed(c)
<1>1. z = [c EXCEPT !.nbytes = 0, !.autoend = FALSE] /\ 0 \in Int
  BY DEF Zeroed
<1> HIDE DEF z
<1>2. /\ z \in Controller /\ z.phase = c.phase /\ ~z.autoend /\ z.txdr = c.txdr /\ z.rxdr = c.rxdr
      /\ z.rd = c.rd /\ z.nackf = c.nackf /\ z.stopf = c.stopf /\ z.transfer = c.transfer
  BY <1>1 DEF Controller
<1> QED BY <1>2 DEF z

(* i2c_write waits for BUSY and starts.                                    *)
LEMMA WriteStartInv == I2cInv /\ WriteStart => I2cInv'
<1> SUFFICES ASSUME I2cInv, WriteStart PROVE I2cInv'
  OBVIOUS
<1>1. i2c1 \in Controller /\ drv \in Call /\ sensor \in [Device -> SensorState] /\ InCall /\ Leftover
  BY DEF I2cInv, I2cTypeOK
<1>2. drv.step = "write" /\ Transferring /\ UNCHANGED <<sensor, zero, s_reference_pressure, bus>>
  BY DEF WriteStart, Transferring
<1>3. This.addr \in Device /\ Len(This.data) \in {1, 2}
  BY <1>1, <1>2, ThisForm
<1>4. CASE ~BUSY /\ i2c1' = Start(This.addr, FALSE, Len(This.data)) /\ StepTo("bytes")
  <2>1. /\ i2c1' \in Controller /\ i2c1'.phase = "address" /\ i2c1'.addr = This.addr /\ ~i2c1'.rd
        /\ i2c1'.nbytes = Len(This.data) /\ i2c1'.autoend /\ i2c1'.first /\ i2c1'.txdr = i2c1.txdr
        /\ i2c1'.rxdr = i2c1.rxdr /\ i2c1'.nackf = i2c1.nackf /\ i2c1'.stopf = i2c1.stopf
    <3> DEFINE x == i2c1.transfer + 1
               n == Len(This.data)
    <3>1. x \in Nat /\ n \in Int
      <4>1. i2c1.transfer \in Nat
        BY <1>1 DEF Controller
      <4> QED BY <1>3, <4>1
    <3>2. i2c1' = [i2c1 EXCEPT !.phase = "address", !.addr = This.addr, !.rd = FALSE, !.nbytes = n,
                               !.autoend = TRUE, !.first = TRUE, !.transfer = x]
      BY <1>4 DEF Start
    <3> HIDE DEF x, n
    <3>3. /\ i2c1' \in Controller /\ i2c1'.phase = "address" /\ i2c1'.addr = This.addr /\ i2c1'.rd = FALSE
          /\ i2c1'.nbytes = n /\ i2c1'.autoend /\ i2c1'.first /\ i2c1'.txdr = i2c1.txdr
          /\ i2c1'.rxdr = i2c1.rxdr /\ i2c1'.nackf = i2c1.nackf /\ i2c1'.stopf = i2c1.stopf
      BY <1>1, <1>3, <3>1, <3>2 DEF Controller
    <3> QED BY <3>3 DEF n
  <2>2. drv' = [drv EXCEPT !.step = "bytes", !.i = 0]
    BY <1>4 DEF StepTo
  <2>3. /\ drv' \in Call /\ drv'.step = "bytes" /\ drv'.i = 0 /\ drv'.todo = drv.todo /\ drv'.dev = drv.dev
        /\ drv'.fn = drv.fn
    BY <1>1, <2>2 DEF Call
  <2>4. This' = This
    BY <2>3 DEF This
  <2>5. i2c1.phase = "idle" /\ i2c1.txdr = <<>> /\ i2c1.rxdr = <<>> /\ (i2c1.stopf => i2c1.nackf)
    BY <1>1, <1>2, <1>4 DEF BUSY, Leftover
  <2>6. Leftover'
    <3>1. \A n \in {1, 2} : n > 0
      OBVIOUS
    <3>2. i2c1'.nbytes > 0
      BY <1>3, <2>1, <3>1, Zenon
    <3> QED BY <2>1, <2>3, <2>5, <3>2 DEF Leftover
  <2>7. Writing'
    BY <1>3, <2>1, <2>3, <2>4 DEF Writing
  <2>8. Reading' /\ Succeeded'
    BY <2>3 DEF Reading, Succeeded
  <2> QED BY <1>1, <1>2, <2>1, <2>3, <2>6, <2>7, <2>8, TransferStep
<1>5. CASE Fail /\ UNCHANGED i2c1
  <2>1. drv'.step = "fail"
    BY <1>1, <1>5 DEF Fail, StepTo, Call
  <2>2. Leftover'
    BY <1>1, <1>2, <1>5, <2>1 DEF Leftover
  <2> QED BY <1>1, <1>2, <1>5, <2>2, FailInv
<1> QED BY <1>4, <1>5 DEF WriteStart

(* A byte is put into TXDR, or the wait for it ends.                       *)
LEMMA WriteByteInv == I2cInv /\ WriteByte => I2cInv'
<1> SUFFICES ASSUME I2cInv, WriteByte PROVE I2cInv'
  OBVIOUS
<1>1. /\ i2c1 \in Controller /\ drv \in Call /\ sensor \in [Device -> SensorState] /\ InCall
      /\ Leftover /\ Writing
  BY DEF I2cInv, I2cTypeOK
<1>2. /\ drv.step = "bytes" /\ Transferring /\ drv.i < Len(This.data) /\ drv.i \in Nat
      /\ UNCHANGED <<sensor, zero, s_reference_pressure, bus>>
  BY <1>1 DEF WriteByte, Transferring, Call
<1>3. /\ Len(This.data) \in {1, 2} /\ \A n \in 1 .. Len(This.data) : This.data[n] \in Symbol
  BY <1>1, <1>2, ThisForm
<1>4. i2c1.nackf /\ i2c1.phase = "write" => i2c1.txdr = <<>>
  <2> SUFFICES ASSUME i2c1.nackf, i2c1.phase = "write", i2c1.txdr # <<>> PROVE FALSE
    OBVIOUS
  <2> DEFINE out == Len(This.data) - i2c1.nbytes
  <2>1. ~(drv.i > 0) /\ out >= 0 /\ drv.i = out + 1
    BY <1>1, <1>2 DEF Writing
  <2>2. out \in Int
    <3>1. i2c1.nbytes \in Int
      BY <1>1 DEF Controller
    <3> QED BY <1>3, <3>1
  <2> HIDE DEF out
  <2> QED BY <1>2, <2>1, <2>2
<1>5. i2c1.rxdr = <<>> /\ i2c1.phase # "read" /\ (i2c1.phase = "address" => ~i2c1.rd)
  BY <1>1, <1>2 DEF Leftover
<1>6. CASE i2c1.nackf /\ StepTo("nack") /\ UNCHANGED i2c1
  <2>1. drv' = [drv EXCEPT !.step = "nack", !.i = 0]
    BY <1>6 DEF StepTo
  <2>2. /\ drv' \in Call /\ drv'.step = "nack" /\ drv'.todo = drv.todo /\ drv'.dev = drv.dev
        /\ drv'.fn = drv.fn
    BY <1>1, <2>1 DEF Call
  <2>3. Leftover'
    BY <1>1, <1>4, <1>5, <1>6, <2>2 DEF Leftover
  <2>4. Writing' /\ Reading' /\ Succeeded'
    BY <2>2 DEF Writing, Reading, Succeeded
  <2> QED BY <1>1, <1>2, <1>6, <2>2, <2>3, <2>4, TransferStep
<1>7. CASE /\ ~i2c1.nackf /\ (TXIS \/ RunsOut)
           /\ i2c1' = [i2c1 EXCEPT !.txdr = <<This.data[drv.i + 1]>>]
           /\ drv' = [drv EXCEPT !.i = @ + 1]
  <2> DEFINE byte == <<This.data[drv.i + 1]>>
  <2>1. byte \in Symbols /\ byte # <<>>
    <3>1. drv.i + 1 \in 1 .. Len(This.data)
      BY <1>2, <1>3
    <3> QED BY <1>3, <3>1 DEF Symbols
  <2>2. /\ i2c1' \in Controller /\ i2c1'.txdr = byte /\ i2c1'.phase = i2c1.phase /\ i2c1'.nbytes = i2c1.nbytes
        /\ i2c1'.addr = i2c1.addr /\ i2c1'.rd = i2c1.rd /\ i2c1'.autoend = i2c1.autoend
        /\ i2c1'.first = i2c1.first /\ i2c1'.rxdr = i2c1.rxdr /\ i2c1'.nackf = i2c1.nackf
        /\ i2c1'.stopf = i2c1.stopf
    <3> HIDE DEF byte
    <3>1. i2c1' = [i2c1 EXCEPT !.txdr = byte]
      BY <1>7 DEF byte
    <3> QED BY <1>1, <2>1, <3>1 DEF Controller
  <2>3. drv.i + 1 \in Nat
    BY <1>2
  <2>4. /\ drv' \in Call /\ drv'.step = "bytes" /\ drv'.i = drv.i + 1 /\ drv'.todo = drv.todo
        /\ drv'.dev = drv.dev /\ drv'.fn = drv.fn
    BY <1>1, <1>2, <1>7, <2>3 DEF Call
  <2>5. This' = This
    BY <2>4 DEF This
  <2>6. i2c1.phase \notin {"idle", "address"} /\ (i2c1.phase = "write" => i2c1.txdr = <<>>)
    BY <1>1, <1>2, <1>3, <1>7 DEF TXIS, RunsOut, Answering, Writing
  <2>7. ~i2c1.stopf
    BY <1>1, <1>7, <2>6 DEF Leftover
  <2>8. Leftover'
    BY <1>5, <2>2, <2>4, <2>6, <2>7 DEF Leftover
  <2>9. Writing'
    <3>1. drv'.i <= Len(This.data) /\ drv'.i > 0
      BY <1>2, <1>3, <2>4
    <3>2. i2c1.phase = "write" =>
            LET out == Len(This.data) - i2c1.nbytes IN
            /\ i2c1.autoend /\ i2c1.nbytes > 0 /\ out >= 0
            /\ i2c1.first <=> out = 0
            /\ out > 0 => Pointed(This)
            /\ drv.i = out
            /\ i2c1.addr = This.addr /\ ~i2c1.rd
      BY <1>1, <1>2, <2>6 DEF Writing
    <3>3. Pointed(This)' = Pointed(This)
      BY <1>2, <2>5 DEF Pointed
    <3> HIDE DEF byte
    <3>4. byte = <<This.data[drv'.i]>>
      BY <2>4 DEF byte
    <3> QED BY <1>5, <1>7, <2>1, <2>2, <2>4, <2>5, <2>6, <3>1, <3>2, <3>3, <3>4 DEF Writing
  <2>10. Reading' /\ Succeeded'
    BY <2>4 DEF Reading, Succeeded
  <2> QED BY <1>1, <1>2, <2>2, <2>4, <2>8, <2>9, <2>10, TransferStep
<1>8. CASE (i2c1.nackf \/ TXIS) /\ i2c1' = Zeroed(i2c1) /\ Fail
  <2>1. drv'.step = "fail"
    BY <1>1, <1>8 DEF Fail, StepTo, Call
  <2>2. /\ i2c1' \in Controller /\ i2c1'.phase = i2c1.phase /\ ~i2c1'.autoend /\ i2c1'.txdr = i2c1.txdr
        /\ i2c1'.rxdr = i2c1.rxdr /\ i2c1'.rd = i2c1.rd /\ i2c1'.nackf = i2c1.nackf /\ i2c1'.stopf = i2c1.stopf
    BY <1>1, <1>8, ZeroedForm
  <2>3. i2c1.phase = "write" => i2c1.txdr = <<>>
    BY <1>4, <1>8 DEF TXIS
  <2>4. i2c1.stopf => i2c1.nackf
    BY <1>1, <1>8 DEF Leftover, TXIS
  <2>5. Leftover'
    BY <1>1, <1>5, <2>1, <2>2, <2>3, <2>4 DEF Leftover
  <2> QED BY <1>2, <1>8, <2>2, <2>5, FailInv
<1> QED BY <1>6, <1>7, <1>8 DEF WriteByte

(* i2c_write after NACKF.                                                  *)
LEMMA WriteNackInv == I2cInv /\ WriteNack => I2cInv'
<1> SUFFICES ASSUME I2cInv, WriteNack PROVE I2cInv'
  OBVIOUS
<1> DEFINE c == [i2c1 EXCEPT !.nackf = FALSE, !.stopf = FALSE]
<1>1. i2c1 \in Controller /\ drv \in Call /\ Leftover
  BY DEF I2cInv, I2cTypeOK
<1>2. /\ drv.step = "nack" /\ Transferring /\ i2c1' = Zeroed(c) /\ Fail
      /\ UNCHANGED <<sensor, zero, s_reference_pressure, bus>>
  BY DEF WriteNack, Transferring
<1>3. /\ c \in Controller /\ c.phase = i2c1.phase /\ c.stopf = FALSE /\ c.txdr = i2c1.txdr
      /\ c.rxdr = i2c1.rxdr /\ c.rd = i2c1.rd
  BY <1>1 DEF Controller
<1> HIDE DEF c
<1>4. /\ i2c1' \in Controller /\ i2c1'.phase = i2c1.phase /\ ~i2c1'.autoend /\ i2c1'.txdr = i2c1.txdr
      /\ i2c1'.rxdr = i2c1.rxdr /\ i2c1'.rd = i2c1.rd /\ ~i2c1'.stopf
  BY <1>2, <1>3, ZeroedForm
<1>5. drv'.step = "fail"
  BY <1>1, <1>2 DEF Fail, StepTo, Call
<1>6. Leftover'
  BY <1>1, <1>2, <1>4, <1>5 DEF Leftover
<1> QED BY <1>2, <1>4, <1>6, FailInv

(* i2c_write has written all and waits for STOPF.                          *)
LEMMA WriteStopInv == I2cInv /\ WriteStop => I2cInv'
<1> SUFFICES ASSUME I2cInv, WriteStop PROVE I2cInv'
  OBVIOUS
<1>1. /\ i2c1 \in Controller /\ drv \in Call /\ sensor \in [Device -> SensorState] /\ InCall
      /\ Leftover /\ Writing
  BY DEF I2cInv, I2cTypeOK
<1>2. /\ drv.step = "bytes" /\ Transferring /\ drv.i = Len(This.data)
      /\ UNCHANGED <<sensor, zero, s_reference_pressure, bus>>
  BY DEF WriteStop, Transferring
<1>3. /\ This.len \in Nat /\ Len(This.data) \in {1, 2}
      /\ This.len > 0 => This.data = <<This.data[1]>>
  BY <1>1, <1>2, ThisForm
<1>4. drv.i > 0 /\ ~i2c1.nackf /\ i2c1.rxdr = <<>> /\ i2c1.phase # "read" /\ (i2c1.phase = "address" => ~i2c1.rd)
  <2>1. \A n \in {1, 2} : n > 0
    OBVIOUS
  <2>2. drv.i > 0
    BY <1>2, <1>3, <2>1, Zenon
  <2> QED BY <1>1, <1>2, <2>2 DEF Leftover, Writing
<1>5. CASE /\ i2c1.stopf /\ i2c1' = Zeroed([i2c1 EXCEPT !.stopf = FALSE])
           /\ StepTo(IF This.len > 0 THEN "read" ELSE "ok")
  <2> DEFINE c == [i2c1 EXCEPT !.stopf = FALSE]
             next == IF This.len > 0 THEN "read" ELSE "ok"
  <2>1. i2c1.phase = "idle" /\ i2c1.txdr = <<>>
    BY <1>1, <1>4, <1>5 DEF Leftover
  <2>2. /\ c \in Controller /\ c.phase = i2c1.phase /\ c.stopf = FALSE /\ c.txdr = i2c1.txdr
        /\ c.rxdr = i2c1.rxdr
    BY <1>1 DEF Controller
  <2>3. i2c1' = Zeroed(c) /\ drv' = [drv EXCEPT !.step = next, !.i = 0]
    BY <1>5 DEF StepTo
  <2> HIDE DEF c
  <2>4. /\ i2c1' \in Controller /\ i2c1'.phase = "idle" /\ i2c1'.txdr = <<>>
        /\ i2c1'.rxdr = <<>> /\ ~i2c1'.stopf
    BY <1>4, <2>1, <2>2, <2>3, ZeroedForm
  <2>5. /\ drv' \in Call /\ drv'.step = next /\ drv'.todo = drv.todo /\ drv'.dev = drv.dev
        /\ drv'.fn = drv.fn
    BY <1>1, <2>3 DEF Call
  <2>6. This' = This /\ next \in {"read", "ok"} /\ (next = "read" <=> This.len > 0)
    BY <2>5 DEF This
  <2> HIDE DEF next
  <2>7. Delivered(This)
    BY <1>1, <1>2, <1>4, <2>1 DEF Writing
  <2>8. Succeeded'
    BY <1>2, <1>3, <2>5, <2>6, <2>7 DEF Succeeded, Delivered, Pointed
  <2>9. Leftover'
    BY <2>4, <2>5, <2>6 DEF Leftover
  <2>10. Writing' /\ Reading'
    BY <2>5, <2>6 DEF Writing, Reading
  <2> QED BY <1>1, <1>2, <2>4, <2>5, <2>6, <2>8, <2>9, <2>10, TransferStep
<1>6. CASE ~i2c1.stopf /\ RunsOut /\ i2c1' = Zeroed(i2c1) /\ Fail
  <2>1. drv'.step = "fail"
    BY <1>1, <1>6 DEF Fail, StepTo, Call
  <2>2. /\ i2c1' \in Controller /\ i2c1'.phase = i2c1.phase /\ ~i2c1'.autoend /\ i2c1'.txdr = i2c1.txdr
        /\ i2c1'.rxdr = i2c1.rxdr /\ i2c1'.rd = i2c1.rd /\ ~i2c1'.stopf
    BY <1>1, <1>6, ZeroedForm
  <2>3. i2c1.phase = "write" => i2c1.txdr = <<>>
    BY <1>6 DEF RunsOut, Answering
  <2>4. Leftover'
    BY <1>1, <1>4, <2>1, <2>2, <2>3 DEF Leftover
  <2> QED BY <1>2, <1>6, <2>2, <2>4, FailInv
<1> QED BY <1>5, <1>6 DEF WriteStop

(* Nothing has been read yet.                                              *)
LEMMA NoBytes ==
    ASSUME NEW tr, NEW x
    PROVE  Bytes(tr, 0, x) = <<>>
BY DEF Bytes

(* One byte more has been read.                                            *)
LEMMA OneMoreByte ==
    ASSUME NEW tr, NEW x, NEW k \in Nat, NEW buf \in Seq(ByteRead), buf = Bytes(tr, k, x), Len(buf) = k,
           Byte(tr, k, x) \in ByteRead
    PROVE  /\ buf \o <<Byte(tr, k, x)>> = Bytes(tr, k + 1, x)
           /\ buf \o <<Byte(tr, k, x)>> \in Seq(ByteRead)
           /\ Len(buf \o <<Byte(tr, k, x)>>) = k + 1
<1> DEFINE b == Byte(tr, k, x)
           new == buf \o <<b>>
           all == Bytes(tr, k + 1, x)
<1>1. b \in ByteRead
  OBVIOUS
<1> HIDE DEF b
<1>2. new \in Seq(ByteRead) /\ Len(new) = k + 1
  BY <1>1
<1>3. \A n \in 1 .. k + 1 : new[n] = IF n <= k THEN buf[n] ELSE b
  BY <1>1
<1>4. \A n \in 1 .. k : buf[n] = Byte(tr, n - 1, x)
  BY DEF Bytes
<1> HIDE DEF new
<1>5. \A n \in 1 .. k + 1 : new[n] = Byte(tr, n - 1, x)
  <2> SUFFICES ASSUME NEW n \in 1 .. k + 1 PROVE new[n] = Byte(tr, n - 1, x)
    OBVIOUS
  <2>1. CASE n <= k
    BY <1>3, <1>4, <2>1
  <2>2. CASE n = k + 1
    <3>1. n - 1 = k
      BY <2>2
    <3> QED BY <1>3, <2>2, <3>1 DEF b
  <2> QED BY <2>1, <2>2
<1>6. new = [n \in 1 .. k + 1 |-> new[n]]
  BY <1>2
<1>7. new = all
  BY <1>5, <1>6 DEF Bytes
<1> QED BY <1>2, <1>7 DEF new, b

(* i2c_read starts its second transfer.                                    *)
LEMMA ReadStartInv == I2cInv /\ ReadStart => I2cInv'
<1> SUFFICES ASSUME I2cInv, ReadStart PROVE I2cInv'
  OBVIOUS
<1>1. /\ i2c1 \in Controller /\ drv \in Call /\ sensor \in [Device -> SensorState] /\ InCall
      /\ Leftover /\ Succeeded
  BY DEF I2cInv, I2cTypeOK
<1>2. /\ drv.step = "read" /\ Transferring /\ This.len > 0
      /\ UNCHANGED <<sensor, zero, s_reference_pressure, bus>>
  BY <1>1 DEF ReadStart, Transferring, InCall
<1>3. This.addr \in Device /\ This.len \in Nat
  BY <1>1, <1>2, ThisForm
<1>4. CASE /\ ~BUSY /\ i2c1' = Start(This.addr, TRUE, This.len)
           /\ drv' = [drv EXCEPT !.step = "data", !.buf = <<>>]
  <2>1. /\ i2c1' \in Controller /\ i2c1'.phase = "address" /\ i2c1'.addr = This.addr /\ i2c1'.rd
        /\ i2c1'.nbytes = This.len /\ i2c1'.autoend /\ i2c1'.txdr = i2c1.txdr
        /\ i2c1'.rxdr = i2c1.rxdr /\ i2c1'.nackf = i2c1.nackf /\ i2c1'.stopf = i2c1.stopf
    <3> DEFINE x == i2c1.transfer + 1
               n == This.len
    <3>1. x \in Nat /\ n \in Int
      <4>1. i2c1.transfer \in Nat
        BY <1>1 DEF Controller
      <4> QED BY <1>3, <4>1
    <3>2. i2c1' = [i2c1 EXCEPT !.phase = "address", !.addr = This.addr, !.rd = TRUE, !.nbytes = n,
                               !.autoend = TRUE, !.first = TRUE, !.transfer = x]
      BY <1>4 DEF Start
    <3> HIDE DEF x, n
    <3>3. /\ i2c1' \in Controller /\ i2c1'.phase = "address" /\ i2c1'.addr = This.addr /\ i2c1'.rd = TRUE
          /\ i2c1'.nbytes = n /\ i2c1'.autoend /\ i2c1'.first /\ i2c1'.txdr = i2c1.txdr
          /\ i2c1'.rxdr = i2c1.rxdr /\ i2c1'.nackf = i2c1.nackf /\ i2c1'.stopf = i2c1.stopf
      BY <1>1, <1>3, <3>1, <3>2 DEF Controller
    <3> QED BY <3>3 DEF n
  <2>2. /\ drv' \in Call /\ drv'.step = "data" /\ drv'.buf = <<>> /\ drv'.todo = drv.todo
        /\ drv'.dev = drv.dev /\ drv'.fn = drv.fn
    <3>1. <<>> \in Answer
      BY DEF Answer
    <3> QED BY <1>1, <1>4, <3>1 DEF Call
  <2>3. This' = This
    BY <2>2 DEF This
  <2>4. i2c1.phase = "idle" /\ i2c1.txdr = <<>> /\ i2c1.rxdr = <<>> /\ (i2c1.stopf => i2c1.nackf)
    BY <1>1, <1>2, <1>4 DEF BUSY, Leftover
  <2>5. Leftover'
    BY <1>2, <2>1, <2>2, <2>4 DEF Leftover
  <2>6. Reading'
    <3>1. Len(drv'.buf) = 0 /\ Len(i2c1'.rxdr) = 0 /\ drv'.buf = Bytes(This, 0, i2c1'.transfer)
      BY <2>1, <2>2, <2>4, NoBytes
    <3>2. sensor'[This.addr].pointer = This.data /\ sensor'[This.addr].at = 0
      BY <1>1, <1>2 DEF Succeeded
    <3> QED BY <1>2, <1>3, <2>1, <2>2, <2>3, <2>4, <3>1, <3>2 DEF Reading
  <2>7. Writing' /\ Succeeded'
    BY <2>2 DEF Writing, Succeeded
  <2> QED BY <1>1, <1>2, <2>1, <2>2, <2>5, <2>6, <2>7, TransferStep
<1>5. CASE Fail /\ UNCHANGED i2c1
  <2>1. drv'.step = "fail"
    BY <1>1, <1>5 DEF Fail, StepTo, Call
  <2>2. Leftover'
    BY <1>1, <1>2, <1>5, <2>1 DEF Leftover
  <2> QED BY <1>1, <1>2, <1>5, <2>2, FailInv
<1> QED BY <1>4, <1>5 DEF ReadStart

(* A byte is taken from RXDR, or the wait for it ends.                     *)
LEMMA ReadByteInv == I2cInv /\ ReadByte => I2cInv'
<1> SUFFICES ASSUME I2cInv, ReadByte PROVE I2cInv'
  OBVIOUS
<1>1. /\ i2c1 \in Controller /\ drv \in Call /\ sensor \in [Device -> SensorState] /\ InCall
      /\ Leftover /\ Reading
  BY DEF I2cInv, I2cTypeOK
<1>2. /\ drv.step = "data" /\ Transferring /\ Len(drv.buf) < This.len
      /\ UNCHANGED <<sensor, zero, s_reference_pressure, bus>>
  BY DEF ReadByte, Transferring
<1>3. /\ This.addr \in Device /\ This.len \in Nat /\ This.data \in Symbols /\ This.len > 0
  BY <1>1, <1>2, ThisForm DEF Symbols, InCall
<1>4. drv.buf \in Seq(ByteRead) /\ i2c1.rxdr \in Seq(ByteRead) /\ i2c1.transfer \in Nat /\ i2c1.nbytes \in Int
  BY <1>1 DEF Call, Controller, Answer
<1>5. Len(drv.buf) \in Nat
  BY <1>4
<1>6. CASE RXNE /\ i2c1' = [i2c1 EXCEPT !.rxdr = <<>>] /\ drv' = [drv EXCEPT !.buf = @ \o i2c1.rxdr]
  <2> DEFINE k == Len(drv.buf)
             byte == Byte(This, k, i2c1.transfer)
             buf == drv.buf \o <<byte>>
  <2>1. /\ i2c1.rxdr = <<byte>> /\ k + Len(i2c1.rxdr) <= This.len /\ drv.buf = Bytes(This, k, i2c1.transfer)
        /\ i2c1.phase # "address"
    BY <1>1, <1>2, <1>6 DEF Reading, RXNE
  <2>2. byte \in ByteRead
    BY <1>3, <1>4, <1>5 DEF Byte, ByteRead
  <2>3. buf = Bytes(This, k + 1, i2c1.transfer) /\ buf \in Seq(ByteRead) /\ Len(buf) = k + 1
    BY <1>4, <1>5, <2>1, <2>2, OneMoreByte
  <2>4. drv' = [drv EXCEPT !.buf = buf] /\ Len(i2c1.rxdr) = 1
    BY <1>6, <2>1
  <2> HIDE DEF byte, buf, k
  <2>5. /\ drv' \in Call /\ drv'.step = "data" /\ drv'.buf = buf /\ drv'.todo = drv.todo
        /\ drv'.dev = drv.dev /\ drv'.fn = drv.fn
    BY <1>1, <1>2, <2>3, <2>4 DEF Call, Answer
  <2>6. /\ i2c1' \in Controller /\ i2c1'.phase = i2c1.phase /\ i2c1'.rxdr = <<>> /\ i2c1'.txdr = i2c1.txdr
        /\ i2c1'.addr = i2c1.addr /\ i2c1'.rd = i2c1.rd /\ i2c1'.nbytes = i2c1.nbytes
        /\ i2c1'.autoend = i2c1.autoend /\ i2c1'.nackf = i2c1.nackf /\ i2c1'.stopf = i2c1.stopf
        /\ i2c1'.transfer = i2c1.transfer
    <3>1. <<>> \in Answer
      BY DEF Answer
    <3> QED BY <1>1, <1>6, <3>1 DEF Controller
  <2>7. This' = This
    BY <2>5 DEF This
  <2>8. Leftover'
    BY <1>1, <1>2, <2>5, <2>6 DEF Leftover
  <2>9. Reading'
    <3>1. Len(drv'.buf) = k + 1 /\ Len(i2c1'.rxdr) = 0 /\ k + 1 <= This.len /\ k \in Nat
      BY <1>5, <2>1, <2>3, <2>4, <2>5, <2>6 DEF k
    <3>2. /\ sensor[This.addr].pointer = This.data
          /\ i2c1.phase \notin {"write", "held"}
          /\ i2c1.phase = "read" =>
               /\ i2c1.addr = This.addr /\ i2c1.rd /\ i2c1.autoend
               /\ sensor[This.addr].at = k + 1 /\ i2c1.nbytes = This.len - (k + 1) /\ i2c1.nbytes > 0
          /\ i2c1.stopf /\ ~i2c1.nackf => k + 1 = This.len
      BY <1>1, <1>2, <2>1, <2>4 DEF Reading, k
    <3>3. Len(drv'.buf) + Len(i2c1'.rxdr) = k + 1
      BY <3>1
    <3> QED BY <1>2, <2>1, <2>3, <2>5, <2>6, <2>7, <3>1, <3>2, <3>3 DEF Reading
  <2>10. Writing' /\ Succeeded'
    BY <2>5 DEF Writing, Succeeded
  <2> QED BY <1>1, <1>2, <1>3, <2>5, <2>6, <2>8, <2>9, <2>10, TransferStep
<1>7. CASE ~RXNE /\ RunsOut /\ Fail /\ UNCHANGED i2c1
  <2>1. drv'.step = "fail"
    BY <1>1, <1>7 DEF Fail, StepTo, Call
  <2>2. i2c1.rxdr = <<>> /\ i2c1.phase \notin {"address", "read", "write"}
    BY <1>1, <1>2, <1>7 DEF RXNE, RunsOut, Answering, Reading
  <2>3. ~(i2c1.stopf /\ ~i2c1.nackf)
    <3>1. Len(i2c1.rxdr) = 0
      BY <2>2
    <3>2. Len(drv.buf) + Len(i2c1.rxdr) # This.len
      BY <1>2, <1>3, <1>5, <3>1
    <3> QED BY <1>1, <1>2, <3>2 DEF Reading
  <2>4. Leftover'
    BY <1>1, <1>7, <2>1, <2>2, <2>3 DEF Leftover
  <2> QED BY <1>1, <1>2, <1>7, <2>4, FailInv
<1> QED BY <1>6, <1>7 DEF ReadByte

(* i2c_read has all bytes and waits for STOPF.                             *)
LEMMA ReadStopInv == I2cInv /\ ReadStop => I2cInv'
<1> SUFFICES ASSUME I2cInv, ReadStop PROVE I2cInv'
  OBVIOUS
<1>1. /\ i2c1 \in Controller /\ drv \in Call /\ sensor \in [Device -> SensorState] /\ InCall
      /\ Leftover /\ Reading
  BY DEF I2cInv, I2cTypeOK
<1>2. /\ drv.step = "data" /\ Transferring /\ Len(drv.buf) = This.len
      /\ UNCHANGED <<sensor, zero, s_reference_pressure, bus>>
  BY DEF ReadStop, Transferring
<1>3. This.len \in Nat /\ This.len > 0
  BY <1>1, <1>2, ThisForm DEF InCall
<1>4. i2c1.rxdr \in Seq(ByteRead) /\ i2c1.nbytes \in Int
  BY <1>1 DEF Controller, Answer
<1>5. i2c1.rxdr = <<>>
  <2> SUFFICES ASSUME i2c1.rxdr # <<>> PROVE FALSE
    OBVIOUS
  <2>1. Len(i2c1.rxdr) > 0 /\ Len(i2c1.rxdr) \in Nat
    BY <1>4
  <2>2. Len(drv.buf) + Len(i2c1.rxdr) <= This.len
    BY <1>1, <1>2 DEF Reading
  <2> QED BY <1>2, <1>3, <2>1, <2>2
<1>6. Len(i2c1.rxdr) = 0
  BY <1>5
<1>7. i2c1.phase \notin {"address", "read", "write"}
  <2>1. i2c1.phase \in {"address", "read"} => i2c1.nbytes = This.len - (Len(drv.buf) + Len(i2c1.rxdr)) /\ i2c1.nbytes > 0
    BY <1>1, <1>2 DEF Reading
  <2>2. i2c1.phase # "write"
    BY <1>1, <1>2 DEF Reading
  <2> QED BY <1>2, <1>3, <1>6, <2>1, <2>2
<1>8. CASE i2c1.stopf /\ i2c1' = Zeroed([i2c1 EXCEPT !.stopf = FALSE]) /\ StepTo("ok")
  <2> DEFINE c == [i2c1 EXCEPT !.stopf = FALSE]
  <2>1. /\ c \in Controller /\ c.phase = i2c1.phase /\ c.stopf = FALSE /\ c.txdr = i2c1.txdr
        /\ c.rxdr = i2c1.rxdr /\ c.transfer = i2c1.transfer
    BY <1>1 DEF Controller
  <2>2. i2c1' = Zeroed(c) /\ drv' = [drv EXCEPT !.step = "ok", !.i = 0]
    BY <1>8 DEF StepTo
  <2> HIDE DEF c
  <2>3. /\ i2c1' \in Controller /\ i2c1'.phase = i2c1.phase /\ i2c1'.txdr = i2c1.txdr
        /\ i2c1'.rxdr = <<>> /\ ~i2c1'.stopf /\ i2c1'.transfer = i2c1.transfer
    BY <1>5, <2>1, <2>2, ZeroedForm
  <2>4. /\ drv' \in Call /\ drv'.step = "ok" /\ drv'.buf = drv.buf /\ drv'.todo = drv.todo
        /\ drv'.dev = drv.dev /\ drv'.fn = drv.fn
    BY <1>1, <2>2 DEF Call
  <2>5. This' = This
    BY <2>4 DEF This
  <2>6. drv.buf = Bytes(This, This.len, i2c1.transfer)
    BY <1>1, <1>2 DEF Reading
  <2>7. Succeeded'
    BY <1>3, <2>3, <2>4, <2>5, <2>6 DEF Succeeded
  <2>8. Leftover'
    BY <1>1, <1>7, <2>3, <2>4 DEF Leftover
  <2>9. Writing' /\ Reading'
    BY <2>4 DEF Writing, Reading
  <2> QED BY <1>1, <1>2, <2>3, <2>4, <2>7, <2>8, <2>9, TransferStep
<1>9. CASE ~i2c1.stopf /\ RunsOut /\ Fail /\ UNCHANGED i2c1
  <2>1. drv'.step = "fail"
    BY <1>1, <1>9 DEF Fail, StepTo, Call
  <2>2. Leftover'
    BY <1>1, <1>5, <1>7, <1>9, <2>1 DEF Leftover
  <2> QED BY <1>1, <1>2, <1>9, <2>2, FailInv
<1> QED BY <1>8, <1>9 DEF ReadStop

-----------------------------------------------------------------------------
(* Between two transfers the controller is left alone.                     *)
LEMMA BetweenTransfers ==
    ASSUME I2cInv, UNCHANGED <<i2c1, sensor>>, drv.step \notin {"data", "bytes"},
           drv'.step \in {"out", "write", "return", "fail"}
    PROVE  Writing' /\ Reading' /\ Leftover' /\ Succeeded'
<1>1. Leftover
  BY DEF I2cInv
<1>2. Leftover'
  BY <1>1 DEF Leftover
<1> QED BY <1>2 DEF Writing, Reading, Succeeded

(* A bus record with other contents.                                       *)
LEMMA BusForm ==
    ASSUME I2cTypeOK, NEW b,
           \/ \E calls \in Nat, ready \in SUBSET Device : b = [bus EXCEPT !.calls = calls, !.ready = ready]
           \/ \E ready \in SUBSET Device : b = [bus EXCEPT !.ready = ready]
           \/ \E read : b = [bus EXCEPT !.read = read]
           \/ \E samples \in SUBSET Nat : b = [bus EXCEPT !.samples = samples]
    PROVE  /\ b = [calls |-> b.calls, ready |-> b.ready, read |-> b.read, samples |-> b.samples]
           /\ b.calls \in Nat /\ b.ready \subseteq Device /\ b.samples \subseteq Nat
<1>1. /\ bus = [calls |-> bus.calls, ready |-> bus.ready, read |-> bus.read, samples |-> bus.samples]
      /\ bus.calls \in Nat /\ bus.ready \subseteq Device /\ bus.samples \subseteq Nat
  BY DEF I2cTypeOK
<1>2. CASE \E calls \in Nat, ready \in SUBSET Device : b = [bus EXCEPT !.calls = calls, !.ready = ready]
  BY <1>1, <1>2
<1>3. CASE \E ready \in SUBSET Device : b = [bus EXCEPT !.ready = ready]
  BY <1>1, <1>3
<1>4. CASE \E read : b = [bus EXCEPT !.read = read]
  BY <1>1, <1>4
<1>5. CASE \E samples \in SUBSET Nat : b = [bus EXCEPT !.samples = samples]
  BY <1>1, <1>5
<1> QED BY <1>2, <1>3, <1>4, <1>5

(* A call begins: nothing of an init function has been done.               *)
LEMMA EnterInv ==
    ASSUME I2cInv, NEW fn \in {"init", "read", "zero"}, NEW d \in Device, NEW todo \in Transfers,
           Enter(fn, d, todo), todo # <<>>, \A n \in DOMAIN todo : todo[n].addr = d,
           fn = "init" => todo = InitOf(d), fn = "zero" => d = "bmp280",
           zero' \in Averaging, Summed'
    PROVE  I2cInv'
<1>1. I2cTypeOK /\ InCall /\ I2cReadTrue /\ SensorConfigured /\ ReferenceMeasured /\ drv \in Call
  BY DEF I2cInv, SensorResultTrue, I2cTypeOK
<1> DEFINE ready == IF fn = "init" THEN bus.ready \ {d} ELSE bus.ready
<1>2. /\ drv.step = "out" /\ drv' = [drv EXCEPT !.fn = fn, !.dev = d, !.todo = todo, !.step = "write"]
      /\ bus' = [bus EXCEPT !.calls = bus.calls + 1, !.ready = ready]
      /\ UNCHANGED <<i2c1, sensor, s_reference_pressure>>
  BY DEF Enter
<1>3. bus.calls + 1 \in Nat /\ ready \in SUBSET Device /\ ready \subseteq bus.ready
  BY <1>1 DEF I2cTypeOK
<1> HIDE DEF ready
<1>4. /\ drv' \in Call /\ drv'.fn = fn /\ drv'.dev = d /\ drv'.todo = todo /\ drv'.step = "write"
  BY <1>1, <1>2 DEF Call
<1>5. /\ bus' = [calls |-> bus'.calls, ready |-> bus'.ready, read |-> bus'.read, samples |-> bus'.samples]
      /\ bus'.calls \in Nat /\ bus'.ready \subseteq Device /\ bus'.samples \subseteq Nat
  BY <1>1, <1>2, <1>3, BusForm
<1>6. bus'.ready \subseteq bus.ready /\ bus'.read = bus.read /\ bus'.samples = bus.samples
  BY <1>1, <1>2, <1>3 DEF I2cTypeOK
<1>7. I2cTypeOK'
  BY <1>1, <1>2, <1>4, <1>5 DEF I2cTypeOK
<1>8. InCall'
  <2>1. DOMAIN todo = 1 .. Len(todo)
    BY DEF Transfers
  <2> QED BY <1>4, <2>1 DEF InCall
<1>9. Writing' /\ Reading' /\ Leftover' /\ Succeeded'
  BY <1>2, <1>4, BetweenTransfers
<1>10. Initialising'
  <2> SUFFICES ASSUME fn = "init" PROVE Initialising'
    BY <1>4 DEF Initialising
  <2>1. todo = InitOf(d) /\ DOMAIN todo = 1 .. Len(todo)
    BY DEF Transfers
  <2>2. \A n \in DOMAIN InitOf(d) : InitOf(d)[n] \in {todo[m] : m \in 1 .. Len(todo)}
    BY <2>1
  <2>3. \E tr \in {todo[m] : m \in 1 .. Len(todo)} : tr.data[1] \in IdRegister
    BY <2>2, CallsForm
  <2> QED BY <1>4, <2>2, <2>3 DEF Initialising
<1>11. I2cReadTrue' /\ ReferenceMeasured' /\ SensorConfigured'
  BY <1>1, <1>2, <1>6 DEF I2cReadTrue, ReferenceMeasured, SensorConfigured
<1> QED BY <1>7, <1>8, <1>9, <1>10, <1>11 DEF I2cInv, SensorResultTrue

(* The calls of the applications.                                          *)
LEMMA CallsInv ==
    ASSUME I2cInv, \/ \E d \in Device : CallInit(d) \/ CallRead(d)
                   \/ \E n \in ZeroSamples : bmp280_zero_altitude(n)
    PROVE  I2cInv'
<1>0. zero \in Averaging /\ Summed /\ Device = {"mpu6050", "bmp280"}
  BY DEF I2cInv, I2cTypeOK, Device
<1>1. zero' = zero => zero' \in Averaging /\ Summed'
  BY <1>0 DEF Summed
<1>2. ASSUME NEW d \in Device, CallInit(d) PROVE I2cInv'
  <2>1. Enter("init", d, InitOf(d)) /\ zero' = zero
    BY <1>2 DEF CallInit
  <2>2. InitOf(d) \in Transfers /\ InitOf(d) # <<>> /\ \A n \in DOMAIN InitOf(d) : InitOf(d)[n].addr = d
    BY CallsForm
  <2> QED BY <1>1, <2>1, <2>2, EnterInv
<1>3. ASSUME NEW d \in Device, CallRead(d) PROVE I2cInv'
  <2> DEFINE todo == IF d = "mpu6050" THEN mpu6050_read ELSE bmp280_read
  <2>1. Enter("read", d, todo) /\ zero' = zero
    BY <1>3 DEF CallRead
  <2>2. todo \in Transfers /\ todo # <<>> /\ \A n \in DOMAIN todo : todo[n].addr = d
    BY <1>0, CallsForm
  <2> HIDE DEF todo
  <2> QED BY <1>1, <2>1, <2>2, EnterInv
<1>4. ASSUME NEW n \in ZeroSamples, bmp280_zero_altitude(n) PROVE I2cInv'
  <2> DEFINE left == IF n = 0 THEN 1 ELSE n
  <2>1. /\ Enter("zero", "bmp280", bmp280_read)
        /\ zero' = [left |-> left, sum |-> 0, got |-> 0, seen |-> {}]
    BY <1>4 DEF bmp280_zero_altitude
  <2>2. left \in Nat
    BY I2cAssumption
  <2> HIDE DEF left
  <2>3. zero' \in Averaging /\ Summed'
    BY <2>1, <2>2 DEF Averaging, Summed
  <2>4. bmp280_read \in Transfers /\ bmp280_read # <<>> /\ \A m \in DOMAIN bmp280_read : bmp280_read[m].addr = "bmp280"
    BY <1>0, CallsForm
  <2> QED BY <1>0, <2>1, <2>3, <2>4, EnterInv
<1> QED BY <1>2, <1>3, <1>4

(* A transfer has succeeded and the next begins, or the chip is wrong.     *)
LEMMA NextTransferInv == I2cInv /\ NextTransfer => I2cInv'
<1> SUFFICES ASSUME I2cInv, NextTransfer PROVE I2cInv'
  OBVIOUS
<1> DEFINE tr == This
           new == [of |-> tr, buf |-> drv.buf, transfer |-> i2c1.transfer]
           read == IF tr.len = 0 THEN bus.read ELSE new
<1>1. /\ I2cTypeOK /\ InCall /\ Initialising /\ Succeeded /\ Summed
      /\ I2cReadTrue /\ SensorConfigured /\ ReferenceMeasured /\ drv \in Call
  BY DEF I2cInv, SensorResultTrue, I2cTypeOK
<1>2. /\ drv.step = "ok" /\ Transferring /\ bus' = [bus EXCEPT !.read = read]
      /\ UNCHANGED <<i2c1, sensor, zero, s_reference_pressure>>
  BY DEF NextTransfer, Transferring
<1>3. /\ tr \in Transfer /\ tr.addr = drv.dev /\ tr.addr \in Device /\ tr.len \in Nat
  BY <1>1, <1>2, ThisForm
<1>4. drv.todo \in Seq(Transfer) /\ drv.todo # <<>> /\ tr = drv.todo[1]
  <2>1. drv.todo \in Seq(Transfer) /\ drv.todo # <<>>
    BY <1>1, <1>2 DEF Call, Transfers, InCall
  <2> QED BY <2>1 DEF This
<1>5. IF tr.len = 0 THEN tr.data \in sensor[tr.addr].settings ELSE drv.buf = Bytes(tr, tr.len, i2c1.transfer)
  BY <1>1, <1>2 DEF Succeeded
<1>6. /\ bus' = [calls |-> bus'.calls, ready |-> bus'.ready, read |-> bus'.read, samples |-> bus'.samples]
      /\ bus'.calls \in Nat /\ bus'.ready \subseteq Device /\ bus'.samples \subseteq Nat
  BY <1>1, <1>2, BusForm
<1>7. bus'.ready = bus.ready /\ bus'.read = read /\ bus'.samples = bus.samples
  <2> HIDE DEF read
  <2> QED BY <1>1, <1>2 DEF I2cTypeOK
<1>8. I2cReadTrue'
  <2>1. CASE tr.len = 0
    BY <1>1, <1>7, <2>1 DEF I2cReadTrue
  <2>2. CASE tr.len # 0
    <3>1. bus'.read = new /\ drv.buf = Bytes(tr, tr.len, i2c1.transfer)
      BY <1>5, <1>7, <2>2
    <3>2. new.of = tr /\ new.buf = drv.buf /\ new.transfer = i2c1.transfer
      OBVIOUS
    <3> HIDE DEF new, read, tr
    <3> QED BY <3>1, <3>2 DEF I2cReadTrue, Bytes, Byte
  <2> QED BY <2>1, <2>2
<1>9. SensorConfigured' /\ ReferenceMeasured' /\ Summed'
  BY <1>1, <1>2, <1>7 DEF SensorConfigured, ReferenceMeasured, Summed
<1>10. CASE WrongChip
  <2>1. drv' = [drv EXCEPT !.step = "fail", !.i = 0]
    BY <1>10 DEF NextTransfer, StepTo
  <2>2. /\ drv' \in Call /\ drv'.step = "fail" /\ drv'.todo = drv.todo /\ drv'.dev = drv.dev /\ drv'.fn = drv.fn
    BY <1>1, <2>1 DEF Call
  <2>3. I2cTypeOK'
    BY <1>1, <1>2, <1>6, <2>2 DEF I2cTypeOK
  <2>4. InCall' /\ Initialising'
    BY <1>1, <1>2, <2>2 DEF InCall, Initialising, Transferring
  <2>5. Writing' /\ Reading' /\ Leftover' /\ Succeeded'
    BY <1>2, <2>2, BetweenTransfers
  <2> QED BY <1>8, <1>9, <2>3, <2>4, <2>5 DEF I2cInv, SensorResultTrue
<1>11. CASE ~WrongChip
  <2> DEFINE rest == Tail(drv.todo)
             next == IF Len(drv.todo) > 1 THEN "write" ELSE "return"
  <2>1. drv' = [drv EXCEPT !.todo = rest, !.i = 0, !.step = next]
    BY <1>11 DEF NextTransfer
  <2>2. /\ rest \in Seq(Transfer) /\ Len(rest) = Len(drv.todo) - 1 /\ Len(drv.todo) \in Nat \ {0}
        /\ \A n \in 1 .. Len(rest) : rest[n] = drv.todo[n + 1]
    BY <1>4
  <2>3. Len(drv.todo) > 1 => rest # <<>>
    <3>1. Len(drv.todo) > 1 => Len(rest) # 0
      <4>1. \A n \in Nat : n > 1 => n - 1 # 0
        OBVIOUS
      <4> HIDE DEF rest
      <4>2. Len(drv.todo) \in Nat
        BY <2>2
      <4> QED BY <2>2, <4>1, <4>2
    <3>2. Len(<<>>) = 0
      OBVIOUS
    <3> HIDE DEF rest
    <3> QED BY <3>1, <3>2
  <2>4. ~(Len(drv.todo) > 1) => rest = <<>>
    BY <2>2
  <2>5. next \in {"write", "return"} /\ (next = "write" => rest # <<>>) /\ (next = "return" => rest = <<>>)
    BY <2>3, <2>4
  <2> HIDE DEF rest, next
  <2>6. rest \in Transfers
    BY <2>2 DEF Transfers
  <2>7. /\ drv' \in Call /\ drv'.step = next /\ drv'.todo = rest /\ drv'.dev = drv.dev /\ drv'.fn = drv.fn
    BY <1>1, <2>1, <2>5, <2>6 DEF Call
  <2>8. I2cTypeOK'
    BY <1>1, <1>2, <1>6, <2>7 DEF I2cTypeOK
  <2>9. \A n \in 1 .. Len(rest) : n + 1 \in 1 .. Len(drv.todo)
    BY <2>2
  <2>10. InCall'
    <3>1. \A n \in 1 .. Len(rest) : rest[n].addr = drv.dev
      BY <1>1, <2>2, <2>9 DEF InCall
    <3>2. drv.fn # "" /\ drv.dev \in Device /\ (drv.fn = "zero" => drv.dev = "bmp280")
      BY <1>1, <1>2 DEF InCall
    <3> QED BY <2>5, <2>7, <3>1, <3>2 DEF InCall, Transferring
  <2>11. Writing' /\ Reading' /\ Leftover' /\ Succeeded'
    BY <1>2, <2>5, <2>7, BetweenTransfers
  <2>12. Initialising'
    <3> SUFFICES ASSUME drv.fn = "init" PROVE Initialising'
      BY <2>7 DEF Initialising
    <3> DEFINE left == {drv.todo[n] : n \in 1 .. Len(drv.todo)}
               left2 == {rest[n] : n \in 1 .. Len(rest)}
               d == drv.dev
    <3>1. /\ \A n \in DOMAIN InitOf(d) :
                InitOf(d)[n].len = 0 => InitOf(d)[n] \in left \/ InitOf(d)[n].data \in sensor[d].settings
          /\ sensor[d].genuine \/ \E x \in left : x.data[1] \in IdRegister
      BY <1>1, <1>2 DEF Initialising
    <3>2. \A x \in left : x = tr \/ x \in left2
      <4> SUFFICES ASSUME NEW n \in 1 .. Len(drv.todo), n # 1 PROVE drv.todo[n] \in left2
        BY <1>4
      <4>1. n - 1 \in 1 .. Len(rest) /\ (n - 1) + 1 = n
        BY <2>2
      <4>2. rest[n - 1] = drv.todo[n]
        BY <2>2, <4>1
      <4> QED BY <4>1, <4>2
    <3>3. tr.data[1] \in IdRegister => sensor[d].genuine
      BY <1>3, <1>11 DEF WrongChip
    <3>4. tr.len = 0 => tr.data \in sensor[d].settings
      BY <1>3, <1>5
    <3> HIDE DEF left, left2
    <3>5. /\ \A n \in DOMAIN InitOf(d) :
                InitOf(d)[n].len = 0 => InitOf(d)[n] \in left2 \/ InitOf(d)[n].data \in sensor[d].settings
          /\ sensor[d].genuine \/ \E x \in left2 : x.data[1] \in IdRegister
      BY <3>1, <3>2, <3>3, <3>4
    <3> QED BY <1>2, <2>7, <3>5 DEF Initialising, left2
  <2> QED BY <1>8, <1>9, <2>8, <2>10, <2>11, <2>12 DEF I2cInv, SensorResultTrue
<1> QED BY <1>10, <1>11

(* A sensor function returns.                                              *)
LEMMA SensorReturnInv == I2cInv /\ SensorReturn => I2cInv'
<1> SUFFICES ASSUME I2cInv, SensorReturn PROVE I2cInv'
  OBVIOUS
<1>1. /\ I2cTypeOK /\ InCall /\ Initialising /\ Summed
      /\ I2cReadTrue /\ SensorConfigured /\ ReferenceMeasured /\ drv \in Call
  BY DEF I2cInv, SensorResultTrue, I2cTypeOK
<1>2. /\ drv.step \in {"return", "fail"} /\ drv' = NoCall
      /\ UNCHANGED <<i2c1, sensor, zero, s_reference_pressure>>
  BY DEF SensorReturn
<1>3. /\ drv' \in Call /\ drv'.step = "out" /\ drv'.fn = "" /\ drv'.todo = <<>>
  <2>1. <<>> \in Transfers /\ <<>> \in Answer
    BY DEF Transfers, Answer
  <2> QED BY <1>2, <2>1 DEF Call, NoCall
<1>4. InCall' /\ Initialising'
  <2>1. drv'.todo = <<>> /\ Len(<<>>) = 0
    BY <1>3
  <2>2. \A n \in 1 .. Len(drv'.todo) : FALSE
    BY <2>1
  <2> QED BY <1>3, <2>2 DEF InCall, Initialising, Transferring
<1>5. Writing' /\ Reading' /\ Leftover' /\ Succeeded'
  BY <1>2, <1>3, BetweenTransfers
<1>6. /\ bus' = [calls |-> bus'.calls, ready |-> bus'.ready, read |-> bus'.read, samples |-> bus'.samples]
      /\ bus'.calls \in Nat /\ bus'.ready \subseteq Device /\ bus'.samples \subseteq Nat
      /\ bus'.read = bus.read /\ bus'.samples = bus.samples
      /\ SensorConfigured'
  <2>1. CASE drv.fn = "init" /\ drv.step = "return"
    <3> DEFINE ready == bus.ready \cup {drv.dev}
    <3>1. bus' = [bus EXCEPT !.ready = ready]
      BY <2>1 DEF SensorReturn
    <3>2. drv.dev \in Device /\ ready \in SUBSET Device
      BY <1>1, <2>1 DEF InCall, I2cTypeOK
    <3>3. /\ sensor[drv.dev].genuine
          /\ \A n \in DOMAIN InitOf(drv.dev) :
               InitOf(drv.dev)[n].len = 0 => InitOf(drv.dev)[n].data \in sensor[drv.dev].settings
      <4>1. drv.todo = <<>>
        BY <1>1, <2>1 DEF InCall
      <4>2. Len(drv.todo) = 0
        BY <4>1
      <4>3. {drv.todo[n] : n \in 1 .. Len(drv.todo)} = {}
        BY <4>2
      <4> QED BY <1>1, <2>1, <4>3 DEF Initialising
    <3> HIDE DEF ready
    <3>4. /\ bus' = [calls |-> bus'.calls, ready |-> bus'.ready, read |-> bus'.read, samples |-> bus'.samples]
          /\ bus'.calls \in Nat /\ bus'.ready \subseteq Device /\ bus'.samples \subseteq Nat
      BY <1>1, <3>1, <3>2, BusForm
    <3>5. bus'.ready = ready /\ bus'.read = bus.read /\ bus'.samples = bus.samples
      BY <1>1, <3>1 DEF I2cTypeOK
    <3>6. SensorConfigured'
      BY <1>1, <1>2, <3>3, <3>5 DEF SensorConfigured, ready
    <3> QED BY <3>4, <3>5, <3>6
  <2>2. CASE ~(drv.fn = "init" /\ drv.step = "return")
    <3>1. bus' = bus
      BY <2>2 DEF SensorReturn
    <3> QED BY <1>1, <1>2, <3>1 DEF I2cTypeOK, SensorConfigured
  <2> QED BY <2>1, <2>2
<1>7. I2cTypeOK'
  BY <1>1, <1>2, <1>3, <1>6 DEF I2cTypeOK
<1>8. I2cReadTrue' /\ ReferenceMeasured' /\ Summed'
  BY <1>1, <1>2, <1>6 DEF I2cReadTrue, ReferenceMeasured, Summed
<1> QED BY <1>4, <1>5, <1>6, <1>7, <1>8 DEF I2cInv, SensorResultTrue

(* A sample of bmp280_zero_altitude, or a failed read.                     *)
LEMMA TakeSampleInv == I2cInv /\ TakeSample => I2cInv'
<1> SUFFICES ASSUME I2cInv, TakeSample PROVE I2cInv'
  OBVIOUS
<1>1. /\ I2cTypeOK /\ InCall /\ Initialising /\ Summed
      /\ I2cReadTrue /\ SensorConfigured /\ ReferenceMeasured /\ drv \in Call /\ zero \in Averaging
  BY DEF I2cInv, SensorResultTrue, I2cTypeOK
<1>2. /\ drv.fn = "zero" /\ drv.step \in {"return", "fail"} /\ zero.left > 0
      /\ UNCHANGED <<i2c1, sensor, s_reference_pressure, bus>>
  BY DEF TakeSample
<1>3. /\ zero.left \in Nat /\ zero.sum \in Nat /\ zero.got \in Nat /\ zero.seen \subseteq Nat
  BY <1>1 DEF Averaging
<1>4. PICK p \in Pressure : zero' = Added(drv.step = "return", p)
  BY DEF TakeSample
<1>5. zero' \in Averaging /\ Summed'
  <2>1. CASE drv.step = "return"
    <3> DEFINE left == zero.left - 1
               had == zero.got + 1
               sum == zero.sum + p
               seen == zero.seen \cup {p}
    <3>1. zero' = [left |-> left, got |-> had, sum |-> sum, seen |-> seen]
      BY <1>4, <2>1 DEF Added
    <3>2. p \in Nat /\ left \in Nat /\ had \in Nat /\ had # 0 /\ sum \in Nat /\ seen \subseteq Nat
      BY <1>2, <1>3, I2cAssumption
    <3>3. \E lo, hi \in seen : had * lo <= sum /\ sum <= had * hi
      <4>1. CASE zero.got = 0
        <5>1. had = 1 /\ sum = p
          BY <1>1, <3>2, <4>1 DEF Summed
        <5>2. had * p <= sum /\ sum <= had * p /\ p \in seen
          BY <3>2, <5>1
        <5> QED BY <5>2
      <4>2. CASE zero.got # 0
        <5>1. PICK lo, hi \in zero.seen : zero.got * lo <= zero.sum /\ zero.sum <= zero.got * hi
          BY <1>1, <4>2 DEF Summed
        <5> DEFINE low == IF p < lo THEN p ELSE lo
                   high == IF p > hi THEN p ELSE hi
        <5>2. lo \in Nat /\ hi \in Nat /\ low \in seen /\ high \in seen /\ low \in Nat /\ high \in Nat
              /\ low <= lo /\ low <= p /\ hi <= high /\ p <= high
          BY <1>3, <3>2, <5>1
        <5> HIDE DEF low, high
        <5>3. \A g, x, y \in Nat : x <= y => g * x <= g * y
          <6> SUFFICES ASSUME NEW g \in Nat, NEW x \in Nat, NEW y \in Nat, x <= y PROVE g * x <= g * y
            OBVIOUS
          <6>1. PICK z \in Nat : y = x + z
            BY y - x \in Nat
          <6>2. g * y = g * x + g * z /\ g * z \in Nat /\ g * x \in Nat
            BY <6>1
          <6> QED BY <6>2
        <5>4. zero.got * low <= zero.got * lo /\ zero.got * hi <= zero.got * high
          BY <1>3, <5>2, <5>3
        <5>5. had * low = zero.got * low + low /\ had * high = zero.got * high + high
          BY <1>3, <5>2
        <5>6. /\ zero.got * low \in Nat /\ zero.got * lo \in Nat /\ zero.got * hi \in Nat /\ zero.got * high \in Nat
          BY <1>3, <5>2
        <5>7. had * low <= sum /\ sum <= had * high
          <6> DEFINE a == zero.got * low  b == zero.got * lo  c == zero.got * hi  e == zero.got * high
          <6>1. /\ a \in Nat /\ b \in Nat /\ c \in Nat /\ e \in Nat /\ a <= b /\ c <= e
                /\ b <= zero.sum /\ zero.sum <= c /\ had * low = a + low /\ had * high = e + high
            BY <5>1, <5>4, <5>5, <5>6
          <6> HIDE DEF a, b, c, e, had
          <6> QED BY <1>3, <3>2, <5>2, <6>1
        <5> QED BY <5>2, <5>7
      <4> QED BY <4>1, <4>2
    <3> HIDE DEF left, had, sum, seen
    <3>4. zero'.left = left /\ zero'.got = had /\ zero'.sum = sum /\ zero'.seen = seen /\ zero' \in Averaging
      BY <3>1, <3>2 DEF Averaging
    <3> QED BY <3>2, <3>3, <3>4 DEF Summed
  <2>2. CASE drv.step # "return"
    <3> DEFINE left == zero.left - 1
    <3>1. zero' = [zero EXCEPT !.left = left]
      BY <1>4, <2>2 DEF Added
    <3>2. left \in Nat
      BY <1>2, <1>3
    <3> HIDE DEF left
    <3>3. zero' \in Averaging /\ zero'.got = zero.got /\ zero'.sum = zero.sum /\ zero'.seen = zero.seen
      BY <1>1, <3>1, <3>2 DEF Averaging
    <3> QED BY <1>1, <3>3 DEF Summed
  <2> QED BY <2>1, <2>2
<1>6. /\ drv' \in Call /\ drv'.fn = "zero" /\ drv'.dev = drv.dev
      /\ (drv'.step = "write" /\ drv'.todo = bmp280_read) \/ (drv'.step = "return" /\ drv'.todo = <<>>)
  <2>1. bmp280_read \in Transfers /\ <<>> \in Transfers
    BY CallsForm DEF Transfers, Device
  <2> QED BY <1>1, <1>2, <2>1 DEF TakeSample, Call
<1>7. InCall'
  <2>1. drv.dev = "bmp280"
    BY <1>1, <1>2 DEF InCall
  <2>2. bmp280_read # <<>> /\ \A n \in 1 .. Len(bmp280_read) : bmp280_read[n].addr = "bmp280"
    <3>1. "bmp280" \in Device
      BY DEF Device
    <3>2. bmp280_read \in Seq(Transfer) /\ bmp280_read # <<>> /\ \A n \in DOMAIN bmp280_read : bmp280_read[n].addr = "bmp280"
      BY <3>1, CallsForm DEF Transfers
    <3>3. DOMAIN bmp280_read = 1 .. Len(bmp280_read)
      BY <3>2
    <3> QED BY <3>2, <3>3
  <2>3. "bmp280" \in Device
    BY DEF Device
  <2>4. CASE drv'.step = "write"
    BY <1>6, <2>1, <2>2, <2>3, <2>4 DEF InCall, Transferring
  <2>5. CASE drv'.step = "return"
    <3>1. drv'.todo = <<>> /\ Len(<<>>) = 0
      BY <1>6, <2>5
    <3>2. \A n \in 1 .. Len(drv'.todo) : FALSE
      BY <3>1
    <3> QED BY <1>6, <2>1, <2>3, <2>5, <3>1, <3>2 DEF InCall, Transferring
  <2> QED BY <1>6, <2>4, <2>5
<1>8. Writing' /\ Reading' /\ Leftover' /\ Succeeded'
  BY <1>2, <1>6, BetweenTransfers
<1>9. Initialising' /\ I2cReadTrue' /\ ReferenceMeasured' /\ SensorConfigured'
  BY <1>1, <1>2, <1>6 DEF Initialising, I2cReadTrue, ReferenceMeasured, SensorConfigured
<1>10. I2cTypeOK'
  BY <1>1, <1>2, <1>5, <1>6 DEF I2cTypeOK
<1> QED BY <1>5, <1>7, <1>8, <1>9, <1>10 DEF I2cInv, SensorResultTrue

(* The average of samples lies between two of them.                        *)
LEMMA AverageBetween ==
    ASSUME NEW sum \in Nat, NEW had \in Nat \ {0}, NEW lo \in Nat, NEW hi \in Nat,
           had * lo <= sum, sum <= had * hi
    PROVE  lo <= sum \div had /\ sum \div had <= hi /\ sum \div had \in Nat
<1> DEFINE q == sum \div had
           r == sum % had
<1>1. q \in Int /\ r \in 0 .. had - 1 /\ sum = had * q + r
  OBVIOUS
<1> HIDE DEF q, r
<1>2. ASSUME q < lo PROVE FALSE
  <2>1. PICK z \in Nat : lo = q + 1 + z
    BY <1>1, <1>2, lo - q - 1 \in Nat
  <2>2. had * lo = had * q + had + had * z /\ had * z \in Nat /\ had * q \in Int
    BY <1>1, <2>1
  <2> QED BY <1>1, <2>2
<1>3. ASSUME q > hi PROVE FALSE
  <2>1. PICK z \in Nat : q = hi + 1 + z
    BY <1>1, <1>3, q - hi - 1 \in Nat
  <2>2. had * q = had * hi + had + had * z /\ had * z \in Nat /\ had * hi \in Nat
    BY <2>1
  <2> QED BY <1>1, <2>2
<1> QED BY <1>1, <1>2, <1>3 DEF q

(* The reference becomes the average.                                      *)
LEMMA SetReferenceInv == I2cInv /\ SetReference => I2cInv'
<1> SUFFICES ASSUME I2cInv, SetReference PROVE I2cInv'
  OBVIOUS
<1>1. /\ I2cTypeOK /\ InCall /\ Summed
      /\ I2cReadTrue /\ SensorConfigured /\ ReferenceMeasured /\ drv \in Call /\ zero \in Averaging
  BY DEF I2cInv, SensorResultTrue, I2cTypeOK
<1>2. drv.step = "return" /\ drv' = NoCall /\ UNCHANGED <<i2c1, sensor, zero>>
  BY DEF SetReference
<1>3. /\ drv' \in Call /\ drv'.step = "out" /\ drv'.fn = "" /\ drv'.todo = <<>>
  <2>1. <<>> \in Transfers /\ <<>> \in Answer
    BY DEF Transfers, Answer
  <2> QED BY <1>2, <2>1 DEF Call, NoCall
<1>4. InCall' /\ Initialising'
  <2>1. drv'.todo = <<>> /\ Len(<<>>) = 0
    BY <1>3
  <2>2. \A n \in 1 .. Len(drv'.todo) : FALSE
    BY <2>1
  <2> QED BY <1>3, <2>2 DEF InCall, Initialising, Transferring
<1>5. Writing' /\ Reading' /\ Leftover' /\ Succeeded'
  BY <1>2, <1>3, BetweenTransfers
<1>6. CASE zero.got = 0
  <2>1. UNCHANGED <<s_reference_pressure, bus>>
    BY <1>6 DEF SetReference
  <2>2. I2cTypeOK'
    BY <1>1, <1>2, <1>3, <2>1 DEF I2cTypeOK
  <2>3. Summed' /\ I2cReadTrue' /\ ReferenceMeasured' /\ SensorConfigured'
    BY <1>1, <1>2, <2>1 DEF Summed, I2cReadTrue, ReferenceMeasured, SensorConfigured
  <2> QED BY <1>4, <1>5, <2>2, <2>3 DEF I2cInv, SensorResultTrue
<1>7. CASE zero.got # 0
  <2>1. s_reference_pressure' = zero.sum \div zero.got /\ bus' = [bus EXCEPT !.samples = zero.seen]
    BY <1>7 DEF SetReference
  <2>2. zero.sum \in Nat /\ zero.got \in Nat \ {0} /\ zero.seen \in SUBSET Nat
    BY <1>1, <1>7 DEF Averaging
  <2>3. PICK lo, hi \in zero.seen : zero.got * lo <= zero.sum /\ zero.sum <= zero.got * hi
    BY <1>1, <1>7 DEF Summed
  <2>4. lo <= s_reference_pressure' /\ s_reference_pressure' <= hi /\ s_reference_pressure' \in Nat
    <3>1. lo \in Nat /\ hi \in Nat
      BY <2>2
    <3> QED BY <2>1, <2>2, <2>3, <3>1, AverageBetween
  <2>5. /\ bus' = [calls |-> bus'.calls, ready |-> bus'.ready, read |-> bus'.read, samples |-> bus'.samples]
        /\ bus'.calls \in Nat /\ bus'.ready \subseteq Device /\ bus'.samples \subseteq Nat
    BY <1>1, <2>1, <2>2, BusForm
  <2>6. bus'.ready = bus.ready /\ bus'.read = bus.read /\ bus'.samples = zero.seen
    BY <1>1, <2>1 DEF I2cTypeOK
  <2>7. I2cTypeOK'
    BY <1>1, <1>2, <1>3, <2>4, <2>5 DEF I2cTypeOK
  <2>8. ReferenceMeasured'
    BY <2>4, <2>6 DEF ReferenceMeasured
  <2>9. Summed' /\ I2cReadTrue' /\ SensorConfigured'
    BY <1>1, <1>2, <2>6 DEF Summed, I2cReadTrue, SensorConfigured
  <2> QED BY <1>4, <1>5, <2>7, <2>8, <2>9 DEF I2cInv, SensorResultTrue
<1> QED BY <1>6, <1>7

(* A result 0 of the I2C and sensor functions can be believed, for any     *)
(* length of a burst, any samples and any number of calls: the bytes read  *)
(* are those of the register asked for, in order and from this transfer,   *)
(* whatever an earlier failure has left in the controller; a sensor that   *)
(* is ready is the right chip with all its settings; and the altitude      *)
(* reference lies between pressures that were measured.                    *)
THEOREM SensorResultsTrue == I2cSpec => []SensorResultTrue
<1>1. I2cInit => I2cInv
  BY I2cInitInv
<1>2. I2cInv /\ [I2cNext]_i2cVars => I2cInv'
  <2> SUFFICES ASSUME I2cInv, [I2cNext]_i2cVars PROVE I2cInv'
    OBVIOUS
  <2>1. CASE UNCHANGED i2cVars
    <3>1. /\ i2c1' = i2c1 /\ sensor' = sensor /\ drv' = drv /\ zero' = zero
          /\ s_reference_pressure' = s_reference_pressure /\ bus' = bus
      BY <2>1 DEF i2cVars
    <3>2. I2cTypeOK' /\ InCall' /\ Summed'
      BY <3>1 DEF I2cInv, I2cTypeOK, InCall, Summed, Transferring, This
    <3>3. Writing' /\ Reading'
      BY <3>1 DEF I2cInv, Writing, Reading, This, Pointed, Delivered
    <3>4. Leftover' /\ Succeeded' /\ Initialising'
      BY <3>1 DEF I2cInv, Leftover, Succeeded, Initialising, This
    <3>5. SensorResultTrue'
      BY <3>1 DEF I2cInv, SensorResultTrue, I2cReadTrue, SensorConfigured, ReferenceMeasured
    <3> QED BY <3>2, <3>3, <3>4, <3>5 DEF I2cInv
  <2>2. CASE ControllerNext
    BY <2>2, StuckInv, AddressedInv, WrittenInv, ReadOutInv DEF ControllerNext
  <2>3. CASE WriteStart \/ WriteByte \/ WriteNack \/ WriteStop
    BY <2>3, WriteStartInv, WriteByteInv, WriteNackInv, WriteStopInv
  <2>4. CASE ReadStart \/ ReadByte \/ ReadStop
    BY <2>4, ReadStartInv, ReadByteInv, ReadStopInv
  <2>5. CASE NextTransfer \/ SensorReturn \/ TakeSample \/ SetReference
    BY <2>5, NextTransferInv, SensorReturnInv, TakeSampleInv, SetReferenceInv
  <2> QED BY <2>1, <2>2, <2>3, <2>4, <2>5, CallsInv DEF I2cNext
<1>3. I2cInv => SensorResultTrue
  BY DEF I2cInv
<1> QED BY <1>1, <1>2, <1>3, PTL DEF I2cSpec
=============================================================================
