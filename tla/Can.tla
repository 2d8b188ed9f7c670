-------------------------------- MODULE Can ---------------------------------
(***************************************************************************)
(* The CAN drivers of both boards; one task transmits, one receives.  The  *)
(* controllers and the bus are external.  A frame is the number of the     *)
(* call or arrival that brought it.                                        *)
(*                                                                         *)
(* K64F, drivers/k64f/flexcan.c: a transmit and a receive mailbox, each    *)
(* with a flag in IFLAG1.  Reading a full mailbox's CS locks it; a frame   *)
(* that arrives meanwhile waits outside until TIMER is read.               *)
(*                                                                         *)
(* STM32H753ZI, drivers/stm32h753zi/fdcan.c: one transmit buffer and a     *)
(* receive FIFO of one element.  TXFQS bit 21 is taken to be set while the *)
(* buffer's request is pending.                                            *)
(***************************************************************************)
EXTENDS Integers, Sequences

CONSTANTS
    FDCAN_TIMEOUT,  \* polls before fdcan_transmit gives up
    MaxCan          \* bound: frames in each direction

ASSUME CanAssumption == FDCAN_TIMEOUT \in Nat \ {0} /\ MaxCan \in Nat

VARIABLES
    mb,       \* FlexCAN: transmit mailbox (0: INACTIVE), its IFLAG1 bit, bus-off
    fx,       \* flexcan_transmit: its step, its frame, how many calls were made
    fxLog,    \* auxiliary: frames sent, reported sent, aborted; whether a call timed out
    rxmb,     \* FlexCAN: receive mailbox, its IFLAG1 bit, its lock, the frame outside
    fr,       \* flexcan_receive: its step and the parts of the frame read so far
    frLog,    \* auxiliary: frames that arrived and that were returned
    fd,       \* FDCAN: the controller's state, its pending frame, its receive FIFO
    fdt,      \* fdcan_transmit: its step, its frame, t
    fdr,      \* fdcan_receive: its step and what it read
    fdLog     \* auxiliary: frames accepted, sent, kept by the FIFO, arrived, returned

flexVars == <<mb, fx, fxLog, rxmb, fr, frLog>>
fdcanVars == <<fd, fdt, fdr, fdLog>>
canVars == <<flexVars, fdcanVars>>

CanInit ==
    /\ mb = [frame |-> 0, iflag |-> FALSE, busoff |-> FALSE]
    /\ fx = [step |-> "out", frame |-> 0]
    /\ fxLog = [sent |-> <<>>, reported |-> {}, aborted |-> {}, timedout |-> FALSE]
    /\ rxmb = [frame |-> 0, iflag |-> FALSE, locked |-> FALSE, outside |-> 0]
    /\ fr = [step |-> "out", id |-> 0, data |-> 0]
    /\ frLog = [came |-> 0, returned |-> <<>>]
    /\ fd = [state |-> "off", pending |-> 0, fifo |-> 0]
    /\ fdt = [step |-> "out", frame |-> 0, t |-> 0]
    /\ fdr = [step |-> "out", frame |-> 0]
    /\ fdLog = [accepted |-> <<>>, sent |-> <<>>, kept |-> <<>>, came |-> 0, returned |-> <<>>]
-----------------------------------------------------------------------------
(* flexcan_transmit after flexcan_recover_from_busoff: a controller that   *)
(* is off the bus is frozen and its mailbox made INACTIVE.                 *)
CallFlexcan ==
    /\ fx.step = "out" /\ fx.frame < MaxCan
    /\ fx' = [step |-> "inactive", frame |-> fx.frame + 1]
    /\ IF mb.busoff
       THEN /\ mb' = [mb EXCEPT !.frame = 0]
            /\ fxLog' = [fxLog EXCEPT !.aborted = @ \cup ({mb.frame} \ {0})]
       ELSE UNCHANGED <<mb, fxLog>>
    /\ UNCHANGED <<rxmb, fr, frLog, fdcanVars>>

(* A poll loop ran out: the call returns -1.  The loop that sees its flag  *)
(* at the very last poll counts as one the flag came too late for.         *)
FlexcanGivesUp ==
    /\ fx' = [fx EXCEPT !.step = "out"]
    /\ fxLog' = [fxLog EXCEPT !.timedout = TRUE]
    /\ mb' = mb

(* The mailbox is written once it is INACTIVE.                             *)
Inactive == mb.frame = 0

AwaitInactive ==
    /\ fx.step = "inactive"
    /\ \/ /\ Inactive /\ mb' = [mb EXCEPT !.frame = fx.frame]
          /\ fx' = [fx EXCEPT !.step = "iflag"] /\ UNCHANGED fxLog
       \/ mb.frame # 0 /\ FlexcanGivesUp
    /\ UNCHANGED <<rxmb, fr, frLog, fdcanVars>>

(* The flag is cleared again.  Mutant: it is left set.                     *)
MutClearFlag == mb' = mb

ClearFlag == mb' = [mb EXCEPT !.iflag = FALSE]

AwaitFlag ==
    /\ fx.step = "iflag"
    /\ \/ /\ mb.iflag /\ ClearFlag
          /\ fx' = [fx EXCEPT !.step = "out"]
          /\ fxLog' = [fxLog EXCEPT !.reported = @ \cup {fx.frame}]
       \/ ~mb.iflag /\ FlexcanGivesUp
    /\ UNCHANGED <<rxmb, fr, frLog, fdcanVars>>

(* The controller and the bus.                                             *)
FlexcanSends ==
    /\ mb.frame # 0 /\ ~mb.busoff
    /\ mb' = [mb EXCEPT !.frame = 0, !.iflag = TRUE]
    /\ fxLog' = [fxLog EXCEPT !.sent = Append(@, mb.frame)]
    /\ UNCHANGED <<fx, rxmb, fr, frLog, fdcanVars>>

BusChanges ==
    /\ mb' = [mb EXCEPT !.busoff = ~@]
    /\ UNCHANGED <<fx, fxLog, rxmb, fr, frLog, fdcanVars>>

FlexcanArrives ==
    /\ frLog.came < MaxCan
    /\ frLog' = [frLog EXCEPT !.came = @ + 1]
    /\ rxmb' = IF rxmb.locked THEN [rxmb EXCEPT !.outside = frLog.came + 1]
               ELSE [rxmb EXCEPT !.frame = frLog.came + 1, !.iflag = TRUE]
    /\ UNCHANGED <<mb, fx, fxLog, fr, fdcanVars>>
-----------------------------------------------------------------------------
(* flexcan_receive: CS, which locks the mailbox, then ID and data, then    *)
(* TIMER, which lets the waiting frame in, then the flag.                  *)
ReadCs ==
    /\ fr.step = "out" /\ rxmb.iflag
    /\ rxmb' = [rxmb EXCEPT !.locked = TRUE]
    /\ fr' = [fr EXCEPT !.step = "id"]
    /\ UNCHANGED <<mb, fx, fxLog, frLog, fdcanVars>>

(* Mutant: TIMER is read before the data.                                  *)
MutUnlockEarly ==
    /\ fr.step = "id"
    /\ fr' = [fr EXCEPT !.step = "data", !.id = rxmb.frame]
    /\ rxmb' = [rxmb EXCEPT !.locked = FALSE, !.outside = 0,
                            !.frame = IF rxmb.outside # 0 THEN rxmb.outside ELSE @]
    /\ UNCHANGED <<mb, fx, fxLog, frLog, fdcanVars>>

ReadId ==
    /\ fr.step = "id" /\ fr' = [fr EXCEPT !.step = "data", !.id = rxmb.frame]
    /\ UNCHANGED <<mb, fx, fxLog, rxmb, frLog, fdcanVars>>

ReadData ==
    /\ fr.step = "data" /\ fr' = [fr EXCEPT !.step = "timer", !.data = rxmb.frame]
    /\ UNCHANGED <<mb, fx, fxLog, rxmb, frLog, fdcanVars>>

ReadTimer ==
    /\ fr.step = "timer" /\ fr' = [fr EXCEPT !.step = "flag"]
    /\ rxmb' = IF rxmb.outside = 0 THEN [rxmb EXCEPT !.locked = FALSE]
               ELSE [rxmb EXCEPT !.locked = FALSE, !.frame = rxmb.outside, !.iflag = TRUE, !.outside = 0]
    /\ UNCHANGED <<mb, fx, fxLog, frLog, fdcanVars>>

EndReceive ==
    /\ fr.step = "flag" /\ fr' = [fr EXCEPT !.step = "out"]
    /\ rxmb' = [rxmb EXCEPT !.iflag = FALSE]
    /\ frLog' = [frLog EXCEPT !.returned = Append(@, <<fr.id, fr.data>>)]
    /\ UNCHANGED <<mb, fx, fxLog, fdcanVars>>

FlexcanNext ==
    \/ CallFlexcan \/ AwaitInactive \/ AwaitFlag \/ FlexcanSends \/ BusChanges
    \/ FlexcanArrives \/ ReadCs \/ ReadId \/ ReadData \/ ReadTimer \/ EndReceive
-----------------------------------------------------------------------------
(* fdcan_init, which leaves silently when the controller does not enter    *)
(* its initialisation mode.                                                *)
fdcan_init(answers) ==
    /\ fd.state = "off"
    /\ fd' = [fd EXCEPT !.state = IF answers THEN "up" ELSE "failed"]
    /\ UNCHANGED <<flexVars, fdt, fdr, fdLog>>

(* The application transmits only once the controller is up.               *)
CallFdcan ==
    /\ fd.state = "up" /\ fdt.step = "out" /\ fdt.frame < MaxCan
    /\ fdt' = [step |-> "poll", frame |-> fdt.frame + 1, t |-> FDCAN_TIMEOUT]
    /\ UNCHANGED <<flexVars, fd, fdr, fdLog>>

(* while (full && t--) {}: each poll of a full buffer costs one; the poll  *)
(* that finds t = 0 ends the loop and leaves t wrapped to 2^32 - 1, here   *)
(* -1, and then `if (!t) return -1` lets the call go on.                   *)
PollFdcan ==
    /\ fdt.step = "poll"
    /\ fdt' = CASE fd.pending = 0 /\ fdt.t = 0 -> [fdt EXCEPT !.step = "out"]
                [] fd.pending = 0 /\ fdt.t # 0 -> [fdt EXCEPT !.step = "write"]
                [] fd.pending # 0 /\ fdt.t = 0 -> [fdt EXCEPT !.step = "write", !.t = -1]
                [] OTHER -> [fdt EXCEPT !.t = @ - 1]
    /\ UNCHANGED <<flexVars, fd, fdr, fdLog>>

(* The message RAM is written and TXBAR requests the transmission.         *)
RequestFdcan ==
    /\ fdt.step = "write" /\ fdt' = [fdt EXCEPT !.step = "out"]
    /\ fd' = [fd EXCEPT !.pending = fdt.frame]
    /\ fdLog' = [fdLog EXCEPT !.accepted = Append(@, fdt.frame)]
    /\ UNCHANGED <<flexVars, fdr>>

FdcanSends ==
    /\ fd.pending # 0 /\ fd' = [fd EXCEPT !.pending = 0]
    /\ fdLog' = [fdLog EXCEPT !.sent = Append(@, fd.pending)]
    /\ UNCHANGED <<flexVars, fdt, fdr>>

(* A frame that finds the FIFO full is lost.                               *)
FdcanArrives ==
    /\ fd.state = "up" /\ fdLog.came < MaxCan
    /\ IF fd.fifo = 0
       THEN /\ fd' = [fd EXCEPT !.fifo = fdLog.came + 1]
            /\ fdLog' = [fdLog EXCEPT !.came = @ + 1, !.kept = Append(@, fdLog.came + 1)]
       ELSE fdLog' = [fdLog EXCEPT !.came = @ + 1] /\ UNCHANGED fd
    /\ UNCHANGED <<flexVars, fdt, fdr>>

(* fdcan_receive: the element is read, then acknowledged, which frees it.  *)
fdcan_receive ==
    /\ \/ /\ fdr.step = "out" /\ fd.fifo # 0
          /\ fdr' = [step |-> "ack", frame |-> fd.fifo] /\ UNCHANGED <<fd, fdLog>>
       \/ /\ fdr.step = "ack" /\ fdr' = [step |-> "out", frame |-> 0]
          /\ fd' = [fd EXCEPT !.fifo = 0]
          /\ fdLog' = [fdLog EXCEPT !.returned = Append(@, fdr.frame)]
    /\ UNCHANGED <<flexVars, fdt>>

FdcanNext ==
    \/ \E answers \in BOOLEAN : fdcan_init(answers)
    \/ CallFdcan \/ PollFdcan \/ RequestFdcan \/ FdcanSends
    \/ FdcanArrives \/ fdcan_receive
-----------------------------------------------------------------------------
(* Properties.                                                             *)

SeqSet(s) == {s[i] : i \in 1 .. Len(s)}
Increasing(s) == \A i \in 1 .. Len(s) - 1 : s[i] < s[i + 1]

(* Frames leave in the order of the calls and once each, and a frame       *)
(* reported as sent is on the bus, still in the mailbox, or was taken out  *)
(* by the recovery from bus-off: timeouts and their late completions never *)
(* make one frame overwrite another.                                       *)
FlexcanNoneLost ==
    /\ Increasing(fxLog.sent)
    /\ fxLog.reported \subseteq SeqSet(fxLog.sent) \cup {mb.frame} \cup fxLog.aborted

(* Until the first call that times out, a frame reported as sent was sent. *)
FlexcanResultTrue == ~fxLog.timedout => fxLog.reported \subseteq SeqSet(fxLog.sent)

(* flexcan_receive never returns the ID of one frame with the data of      *)
(* another, never an old frame after a new one, and none twice, whenever   *)
(* the next frames arrive.                                                 *)
FlexcanReceiveWhole ==
    /\ \A i \in 1 .. Len(frLog.returned) : frLog.returned[i][1] = frLog.returned[i][2]
    /\ Increasing([i \in 1 .. Len(frLog.returned) |-> frLog.returned[i][2]])

(* fdcan_receive returns the frames the FIFO took, once each and in order. *)
FdcanReceiveFifo ==
    /\ fdLog.returned = SubSeq(fdLog.kept, 1, Len(fdLog.returned))
    /\ fdr.step = "out" => fdLog.kept = fdLog.returned \o (IF fd.fifo = 0 THEN <<>> ELSE <<fd.fifo>>)

(* A call that cannot get the transmit buffer reports its timeout, so that *)
(* every accepted frame is sent or still waits.                            *)
FdcanTimeoutReported ==
    SeqSet(fdLog.accepted) \subseteq SeqSet(fdLog.sent) \cup {fd.pending}

(* flexcan_transmit neither loses a frame it has accepted nor claims more  *)
(* than it knows, over timeouts, late completions and bus-off recovery.    *)
FlexcanTransmitTrue == FlexcanNoneLost /\ FlexcanResultTrue

(* Both receive functions return frames that arrived, whole, in order and  *)
(* none twice, whenever the next frame comes in.                           *)
CanReceiveWhole == FlexcanReceiveWhole /\ FdcanReceiveFifo
=============================================================================
