-------------------------------- MODULE Eth ---------------------------------
(***************************************************************************)
(* The Ethernet driver, drivers/network/stm32h753zi/eth.c: a transmit and  *)
(* a receive ring of descriptors whose OWN bit says whether the DMA or the *)
(* driver may touch the buffer behind them.  One task transmits and one    *)
(* receives; neither ring has a lock.  The DMA engine is external: it      *)
(* walks both rings in order and stops at a descriptor it does not own.    *)
(* Register, pin and MPU programming is left out, and every buffer is      *)
(* taken to be non-cacheable.                                              *)
(***************************************************************************)
EXTENDS Integers, Sequences

CONSTANTS
    ETH_NUM_TX_DESC, ETH_NUM_RX_DESC, ETH_BUF_SIZE,
    FrameSizes,  \* lengths callers and the wire use
    MaxFrames    \* bound: frames in each direction

ASSUME EthAssumption ==
    /\ {ETH_NUM_TX_DESC, ETH_NUM_RX_DESC, ETH_BUF_SIZE} \subseteq Nat \ {0}
    /\ FrameSizes \subseteq Nat /\ MaxFrames \in Nat

VARIABLES
    eth,     \* "off", "up", or "failed" when the DMA reset timed out
    txr,     \* s_tx_desc with s_tx_buf, s_tx_index, and the DMA's place
    rxr,     \* s_rx_desc with s_rx_buf, s_rx_index, and the DMA's place
    send,    \* the call of eth_transmit under way
    recv,    \* the call of eth_receive under way
    asked, arrived,   \* auxiliary: frames offered and frames on the wire
    accepted, wired,  \* auxiliary: frames eth_transmit took, frames the DMA sent
    stored, taken     \* auxiliary: frames the DMA stored, frames eth_receive gave

ethVars == <<eth, txr, rxr, send, recv, asked, arrived, accepted, wired, stored, taken>>

TxIndex == 0 .. ETH_NUM_TX_DESC - 1
RxIndex == 0 .. ETH_NUM_RX_DESC - 1
Frame(id, len) == [id |-> id, len |-> len]
NoFrame == Frame(0, 0)

(* .axi_bss is not cleared at start-up: the OWN bits are arbitrary.        *)
EthInit ==
    /\ eth = "off"
    /\ \E own \in BOOLEAN :
          /\ txr = [own |-> [i \in TxIndex |-> own], buf |-> [i \in TxIndex |-> NoFrame], index |-> 0, dma |-> 0]
          /\ rxr = [own |-> [i \in RxIndex |-> own], buf |-> [i \in RxIndex |-> NoFrame], index |-> 0, dma |-> 0]
    /\ send = [step |-> "out", frame |-> NoFrame]
    /\ recv = [step |-> "out", frame |-> NoFrame]
    /\ asked = 0 /\ arrived = 0
    /\ accepted = <<>> /\ wired = <<>> /\ stored = <<>> /\ taken = <<>>
-----------------------------------------------------------------------------
(* eth_init, called once before the first frame.  It returns nothing: when *)
(* the DMA's software reset times out the rings stay as they were.         *)
eth_init(resets) ==
    /\ eth = "off"
    /\ IF resets
       THEN /\ eth' = "up"
            /\ txr' = [txr EXCEPT !.own = [i \in TxIndex |-> FALSE], !.dma = 0]
            /\ rxr' = [rxr EXCEPT !.own = [i \in RxIndex |-> TRUE], !.dma = 0]
       ELSE eth' = "failed" /\ UNCHANGED <<txr, rxr>>
    /\ UNCHANGED <<send, recv, asked, arrived, accepted, wired, stored, taken>>

(* eth_transmit is called; a frame longer than a buffer is refused.        *)
CallTransmit(len) ==
    /\ eth # "off" /\ send.step = "out" /\ asked < MaxFrames
    /\ asked' = asked + 1
    /\ send' = IF len > ETH_BUF_SIZE THEN send ELSE [step |-> "poll", frame |-> Frame(asked + 1, len)]
    /\ UNCHANGED <<eth, txr, rxr, recv, arrived, accepted, wired, stored, taken>>

(* The descriptor is the driver's.  Mutant: it is not waited for.          *)
MutTxFree == TRUE

TxFree == ~txr.own[txr.index]

(* The polling loop: it ends with the descriptor, or times out with -1.    *)
PollDescriptor ==
    /\ send.step = "poll"
    /\ \/ TxFree /\ send' = [send EXCEPT !.step = "copy"]
       \/ ~TxFree /\ send' = [send EXCEPT !.step = "out"]
    /\ UNCHANGED <<eth, txr, rxr, recv, asked, arrived, accepted, wired, stored, taken>>

(* memcpy into the buffer.                                                 *)
CopyOut ==
    /\ send.step = "copy"
    /\ txr' = [txr EXCEPT !.buf[txr.index] = send.frame]
    /\ send' = [send EXCEPT !.step = "give"]
    /\ UNCHANGED <<eth, rxr, recv, asked, arrived, accepted, wired, stored, taken>>

NextTx == (txr.index + 1) % ETH_NUM_TX_DESC

(* des0 to des3 with OWN, the tail pointer, s_tx_index and the result 0.   *)
GiveToDma ==
    /\ send.step = "give"
    /\ txr' = [txr EXCEPT !.own[txr.index] = TRUE, !.index = NextTx]
    /\ accepted' = Append(accepted, send.frame)
    /\ send' = [send EXCEPT !.step = "out"]
    /\ UNCHANGED <<eth, rxr, recv, asked, arrived, wired, stored, taken>>
-----------------------------------------------------------------------------
(* eth_receive.  CopyIn fails with -1 while the DMA owns the descriptor;   *)
(* the buffer is copied, at most max_len of it, before it is given back.   *)
RxReady == recv.step = "out" /\ eth # "off" /\ ~rxr.own[rxr.index] /\ Len(taken) < MaxFrames

CopyIn(max_len) ==
    LET got == rxr.buf[rxr.index] IN
    /\ RxReady
    /\ recv' = [step |-> "back", frame |-> Frame(got.id, IF got.len > max_len THEN max_len ELSE got.len)]
    /\ UNCHANGED <<eth, txr, rxr, send, asked, arrived, accepted, wired, stored, taken>>

HandBack ==
    /\ recv.step = "back"
    /\ rxr' = [rxr EXCEPT !.own[rxr.index] = TRUE, !.index = (@ + 1) % ETH_NUM_RX_DESC]
    /\ taken' = Append(taken, recv.frame)
    /\ recv' = [recv EXCEPT !.step = "out"]
    /\ UNCHANGED <<eth, txr, send, asked, arrived, accepted, wired, stored>>
-----------------------------------------------------------------------------
(* The DMA engine.                                                         *)
DmaTransmits ==
    /\ eth = "up" /\ txr.own[txr.dma]
    /\ wired' = Append(wired, txr.buf[txr.dma])
    /\ txr' = [txr EXCEPT !.own[txr.dma] = FALSE, !.dma = (@ + 1) % ETH_NUM_TX_DESC]
    /\ UNCHANGED <<eth, rxr, send, recv, asked, arrived, accepted, stored, taken>>

(* A frame that finds no descriptor is lost.                               *)
DmaReceives(len) ==
    /\ eth = "up" /\ arrived < MaxFrames /\ len <= ETH_BUF_SIZE
    /\ arrived' = arrived + 1
    /\ IF rxr.own[rxr.dma]
       THEN /\ rxr' = [rxr EXCEPT !.own[rxr.dma] = FALSE, !.buf[rxr.dma] = Frame(arrived + 1, len),
                                  !.dma = (@ + 1) % ETH_NUM_RX_DESC]
            /\ stored' = Append(stored, Frame(arrived + 1, len))
       ELSE UNCHANGED <<rxr, stored>>
    /\ UNCHANGED <<eth, txr, send, recv, asked, accepted, wired, taken>>

EthNext ==
    \/ \E resets \in BOOLEAN : eth_init(resets)
    \/ \E len \in FrameSizes : CallTransmit(len) \/ CopyIn(len) \/ DmaReceives(len)
    \/ PollDescriptor \/ CopyOut \/ GiveToDma \/ HandBack \/ DmaTransmits
-----------------------------------------------------------------------------
(* Properties.                                                             *)

(* How far a ring runs from a place on while a condition holds.            *)
RunFrom(place, size, Holds(_)) ==
    LET stops == {n \in 0 .. size - 1 : ~Holds((place + n) % size)}
    IN  IF stops = {} THEN size ELSE CHOOSE n \in stops : \A m \in stops : n <= m

(* Frames of a ring, count of them from a place on.                        *)
FramesFrom(ring, place, count, size) ==
    [i \in 1 .. count |-> ring.buf[(place + i - 1) % size]]

(* Every frame eth_transmit accepted is sent once, whole and in order, or  *)
(* waits intact in the ring: no buffer changes while the DMA owns it.      *)
EthTransmitFifo ==
    eth = "up" =>
        accepted = wired \o FramesFrom(txr, txr.dma,
                              RunFrom(txr.dma, ETH_NUM_TX_DESC, LAMBDA i : txr.own[i]), ETH_NUM_TX_DESC)

(* Every frame the DMA stored is returned once, in order and unmixed, or   *)
(* waits in the ring; only its length may be cut to the caller's buffer.   *)
EthReceiveFifo ==
    eth = "up" =>
        LET waiting == FramesFrom(rxr, rxr.index,
                          RunFrom(rxr.index, ETH_NUM_RX_DESC, LAMBDA i : ~rxr.own[i]), ETH_NUM_RX_DESC)
        IN  /\ Len(stored) = Len(taken) + Len(waiting)
            /\ \A i \in 1 .. Len(taken) : taken[i].id = stored[i].id /\ taken[i].len <= stored[i].len
            /\ \A i \in 1 .. Len(waiting) : waiting[i] = stored[Len(taken) + i]

(* Both rings hand every frame over once, in order and intact, whatever    *)
(* the interleaving of driver and DMA engine.                              *)
EthRingsFifo == EthTransmitFifo /\ EthReceiveFifo
=============================================================================
