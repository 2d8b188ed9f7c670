-------------------------------- MODULE Uart --------------------------------
(***************************************************************************)
(* The UART drivers of both boards.                                        *)
(*                                                                         *)
(* K64F (drivers/k64f/uart.c): a transmit ring that tasks fill and the     *)
(* interrupt drains, and a receive ring the other way round; no lock.      *)
(*                                                                         *)
(* STM32H753ZI (drivers/stm32h753zi/uart.c): characters are polled out;    *)
(* uart_puts holds a mutex over the string, uart_printf and uart_putc do   *)
(* not.  What the formatting functions compute is left out: a call prints  *)
(* some characters.                                                        *)
(***************************************************************************)
EXTENDS Integers, Sequences, FiniteSets

CONSTANTS
    Printer,            \* tasks that print
    Nobody,             \* no task: the mutex is free
    UART_TX_BUF_SIZE, UART_RX_BUF_SIZE,
    MaxChars,           \* bound: characters in each direction
    StringLength        \* characters of one uart_puts or uart_printf

ASSUME UartAssumption ==
    /\ UART_TX_BUF_SIZE \in Nat \ {0, 1} /\ UART_RX_BUF_SIZE \in Nat \ {0, 1}
    /\ IsFiniteSet(Printer) /\ Nobody \notin Printer
    /\ MaxChars \in Nat /\ StringLength \in Nat \ {0}

VARIABLES
    tx,      \* s_tx_buf, s_tx_head, s_tx_tail and C2.TIE
    putter,  \* where a task is in uart_putc, its next_head and character
    serial,  \* whether the tasks take turns, as the tests' print lock makes them
    put, sent,  \* auxiliary: characters stored, and those given to the UART
    rx,      \* s_rx_buf, s_rx_head, s_rx_tail
    getting, \* uart_getc has read its character and not yet moved s_rx_tail
    kept, got,  \* auxiliary: characters the ring took, and those uart_getc returned
    usart,   \* STM32: TXE, the holder of s_uart_mutex, the line, a lost character
    print    \* STM32: what a task prints and where it is

ringVars == <<tx, putter, serial, put, sent, rx, getting, kept, got>>
usartVars == <<usart, print>>
uartVars == <<ringVars, usartVars>>

UartInit ==
    /\ tx = [buf |-> [i \in 0 .. UART_TX_BUF_SIZE - 1 |-> 0], head |-> 0, tail |-> 0, tie |-> FALSE]
    /\ putter = [p \in Printer |-> [step |-> "out", next |-> 0, c |-> 0]]
    /\ serial \in BOOLEAN /\ put = <<>> /\ sent = <<>>
    /\ rx = [buf |-> [i \in 0 .. UART_RX_BUF_SIZE - 1 |-> 0], head |-> 0, tail |-> 0, count |-> 0]
    /\ getting = 0 /\ kept = <<>> /\ got = <<>>
    /\ usart = [txe |-> TRUE, holder |-> Nobody, line |-> <<>>, lost |-> FALSE, raw |-> FALSE]
    /\ print = [p \in Printer |-> [step |-> "out", left |-> 0, locked |-> FALSE]]
-----------------------------------------------------------------------------
(* K64F, transmit.                                                         *)
Putting == {p \in Printer : putter[p].step # "out"}

(* uart_putc called by uart_puts, uart_put_uint and uart_printf.           *)
EnterPutc(p) ==
    /\ putter[p].step = "out" /\ Len(put) + Cardinality(Putting) < MaxChars
    /\ serial => Putting = {}
    /\ putter' = [putter EXCEPT ![p] = [step |-> "full", next |-> (tx.head + 1) % UART_TX_BUF_SIZE,
                                        c |-> 1 + Len(put) + Cardinality(Putting)]]
    /\ UNCHANGED <<tx, serial, put, sent, rx, getting, kept, got, usartVars>>

(* Room for the character; while the ring is full uart_putc spins.         *)
Room(p) == putter[p].next # tx.tail

PutcGoto(p, step) == putter' = [putter EXCEPT ![p].step = step]
PutcStore(p) == tx' = [tx EXCEPT !.buf[tx.head] = putter[p].c] /\ put' = put
PutcHead(p) == tx' = [tx EXCEPT !.head = putter[p].next] /\ put' = Append(put, putter[p].c)
PutcTie == tx' = [tx EXCEPT !.tie = TRUE] /\ put' = put

(* Mutant: the interrupt is enabled before the character is visible.       *)
MutTieFirst(p) ==
    /\ \/ putter[p].step = "full" /\ Room(p) /\ PutcStore(p) /\ PutcGoto(p, "tie")
       \/ putter[p].step = "tie" /\ PutcTie /\ PutcGoto(p, "head")
       \/ putter[p].step = "head" /\ PutcHead(p) /\ PutcGoto(p, "out")
    /\ UNCHANGED <<serial, sent, rx, getting, kept, got, usartVars>>

uart_putc(p) ==
    /\ \/ putter[p].step = "full" /\ Room(p) /\ PutcStore(p) /\ PutcGoto(p, "head")
       \/ putter[p].step = "head" /\ PutcHead(p) /\ PutcGoto(p, "tie")
       \/ putter[p].step = "tie" /\ PutcTie /\ PutcGoto(p, "out")
    /\ UNCHANGED <<serial, sent, rx, getting, kept, got, usartVars>>

(* UART0_RX_TX_IRQHandler.  Either enabled source enters it, and each half *)
(* looks at its own status flag only: a received character also drains the *)
(* transmit ring.  A received character is dropped when its ring is full.  *)
TransmitHalf(tdre) ==
    CASE tdre /\ tx.tail # tx.head ->
            /\ sent' = Append(sent, tx.buf[tx.tail])
            /\ tx' = [tx EXCEPT !.tail = (tx.tail + 1) % UART_TX_BUF_SIZE]
      [] tdre /\ tx.tail = tx.head -> tx' = [tx EXCEPT !.tie = FALSE] /\ UNCHANGED sent
      [] OTHER -> UNCHANGED <<tx, sent>>

ReceiveHalf(rdrf) ==
    LET next == (rx.head + 1) % UART_RX_BUF_SIZE
        came == rx.count + 1
    IN  CASE rdrf /\ next # rx.tail ->
                /\ rx' = [rx EXCEPT !.buf[rx.head] = came, !.head = next, !.count = came]
                /\ kept' = Append(kept, came)
          [] rdrf /\ next = rx.tail -> rx' = [rx EXCEPT !.count = came] /\ UNCHANGED kept
          [] OTHER -> UNCHANGED <<rx, kept>>

UART0_RX_TX_IRQHandler(tdre, rdrf) ==
    /\ (tdre /\ tx.tie) \/ rdrf
    /\ rdrf => rx.count < MaxChars
    /\ TransmitHalf(tdre) /\ ReceiveHalf(rdrf)
    /\ Len(sent') <= MaxChars
    /\ UNCHANGED <<putter, serial, put, getting, got, usartVars>>

uart_getc ==
    /\ \/ /\ getting = 0 /\ rx.head # rx.tail
          /\ getting' = rx.buf[rx.tail] /\ UNCHANGED <<rx, got>>
       \/ /\ getting # 0 /\ got' = Append(got, getting) /\ getting' = 0
          /\ rx' = [rx EXCEPT !.tail = (rx.tail + 1) % UART_RX_BUF_SIZE]
    /\ UNCHANGED <<tx, putter, serial, put, sent, kept, usartVars>>

RingNext ==
    \/ uart_getc
    \/ \E tdre, rdrf \in BOOLEAN : UART0_RX_TX_IRQHandler(tdre, rdrf)
    \/ \E p \in Printer : EnterPutc(p) \/ uart_putc(p)
-----------------------------------------------------------------------------
(* STM32H753ZI.                                                            *)

(* mutex_lock(&s_uart_mutex), see Mutex.                                   *)
TakeMutex(p) == usart.holder = Nobody /\ usart' = [usart EXCEPT !.holder = p]

EnterPuts(p) ==
    /\ print[p].step = "out" /\ Len(usart.line) + StringLength <= MaxChars
    /\ TakeMutex(p)
    /\ print' = [print EXCEPT ![p] = [step |-> "poll", left |-> StringLength, locked |-> TRUE]]
    /\ UNCHANGED ringVars

(* uart_printf, whose locking is commented out.                            *)
EnterPrintf(p) ==
    /\ print[p].step = "out" /\ Len(usart.line) + StringLength <= MaxChars
    /\ usart' = [usart EXCEPT !.raw = TRUE]
    /\ print' = [print EXCEPT ![p] = [step |-> "poll", left |-> StringLength, locked |-> FALSE]]
    /\ UNCHANGED ringVars

(* uart_putc of the STM32: it waits for TXE, then writes TDR.              *)
PollTxe(p) ==
    /\ print[p].step = "poll" /\ usart.txe
    /\ print' = [print EXCEPT ![p].step = "write"]
    /\ UNCHANGED <<ringVars, usart>>

WriteTdr(p) ==
    /\ print[p].step = "write"
    /\ usart' = [usart EXCEPT !.txe = FALSE, !.lost = usart.lost \/ ~usart.txe,
                              !.line = Append(@, <<p, print[p].left>>)]
    /\ print' = [print EXCEPT ![p].left = @ - 1, ![p].step = IF print[p].left = 1 THEN "end" ELSE "poll"]
    /\ UNCHANGED ringVars

EndPrint(p) ==
    /\ print[p].step = "end"
    /\ print' = [print EXCEPT ![p].step = "out", ![p].locked = FALSE]
    /\ usart' = IF print[p].locked /\ usart.holder = p THEN [usart EXCEPT !.holder = Nobody] ELSE usart
    /\ UNCHANGED ringVars

(* The shift register takes the character.                                 *)
TxEmpty ==
    /\ ~usart.txe /\ usart' = [usart EXCEPT !.txe = TRUE]
    /\ UNCHANGED <<ringVars, print>>

UsartNext ==
    \/ TxEmpty
    \/ \E p \in Printer : EnterPuts(p) \/ EnterPrintf(p) \/ PollTxe(p) \/ WriteTdr(p) \/ EndPrint(p)
-----------------------------------------------------------------------------
(* Properties.                                                             *)

(* The characters between tail and head of a ring, oldest first.           *)
InRing(r, size) ==
    [i \in 1 .. (r.head - r.tail) % size |-> r.buf[(r.tail + i - 1) % size]]

(* Tasks that take turns lose, repeat and reorder nothing, whenever the    *)
(* interrupt comes: what was stored is what was sent and what still waits. *)
UartTransmitFifo == serial => put = sent \o InRing(tx, UART_TX_BUF_SIZE)

(* Output never stalls: characters that wait while no task is in uart_putc *)
(* have the interrupt enabled that will fetch them, even if the tasks do   *)
(* not take turns.                                                         *)
UartNotStalled == tx.head # tx.tail /\ Putting = {} => tx.tie

(* uart_getc returns the characters the ring took, in order and once each, *)
(* although the interrupt stores between its read and its release.         *)
UartReceiveFifo ==
    /\ got = SubSeq(kept, 1, Len(got))
    /\ getting = 0 => kept = got \o InRing(rx, UART_RX_BUF_SIZE)

(* As long as nobody has called uart_printf, no character of a uart_puts   *)
(* is lost and no two strings are mixed.                                   *)
UartPutsWhole ==
    ~usart.raw =>
        /\ ~usart.lost
        /\ \A i \in 1 .. Len(usart.line) - 1 :
              usart.line[i][2] > 1 => usart.line[i + 1] = <<usart.line[i][1], usart.line[i][2] - 1>>

(* The drivers lose, repeat, mix and hold back no character that their     *)
(* locking rules protect, in either direction.                             *)
UartLosesNothing ==
    /\ UartTransmitFifo /\ UartNotStalled /\ UartReceiveFifo
    /\ UartPutsWhole
=============================================================================
