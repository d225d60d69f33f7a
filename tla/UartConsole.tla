---------------------------- MODULE UartConsole ----------------------------
(***************************************************************************)
(* The two UARTs, app/driver/uart.c.  What UART0 receives is taken from    *)
(* its FIFO by an interrupt handler and put into a ring, for which nothing *)
(* of this application asks; bytes go on arriving while the handler runs.  *)
(* UART1 prints: uart1_write_char is what os_printf writes with.           *)
(***************************************************************************)
EXTENDS Integers, Sequences, SequencesExt

CONSTANTS RX_BUFF_SIZE,  \* the ring, 256 bytes
          RxFifo,        \* the FIFO of the hardware, 128 bytes
          TrigLvl,       \* how many of them make it interrupt
          TxFree         \* bytes the transmit FIFO has room for, up to 126

ASSUME UartAssumption == /\ RX_BUFF_SIZE \in Nat \ {0} /\ RxFifo \in Nat
                         /\ TrigLvl \in 1..RxFifo
                         /\ TxFree \in Nat \ {0}

Char == {"a", "CR", "LF"}

VARIABLES
    rxfifo, int_full,       \* UART0: its FIFO, and RXFIFO_FULL's bit
    handling,               \* uart0_rx_intr_handler runs
    pRcvMsgBuff, pWritePos, BuffState,
    txcount,                \* UART1: how many bytes its FIFO holds
    todo,                   \* what is left of the uart1_write_char under way
    \* history
    arrived,                \* what arrived last: RX_BUFF_SIZE + RxFifo bytes
    printed, wire           \* the last two characters asked for, and sent

rxVars == <<rxfifo, int_full, handling, pRcvMsgBuff, pWritePos, BuffState, arrived>>
txVars == <<txcount, todo, printed, wire>>
uartVars == <<rxVars, txVars>>

UartTypeOK ==
    /\ rxfifo \in Seq(Char) /\ Len(rxfifo) <= RxFifo
    /\ int_full \in BOOLEAN /\ handling \in BOOLEAN
    /\ pRcvMsgBuff \in [0..RX_BUFF_SIZE-1 -> Char \cup {"zero"}]
    /\ pWritePos \in 0..RX_BUFF_SIZE-1
    /\ BuffState \in {"EMPTY", "WRITE_OVER"}
    /\ txcount \in 0..TxFree /\ todo \in Seq(Char)
    /\ arrived \in Seq(Char) /\ printed \in Seq(Char) /\ wire \in Seq(Char)

LastOf(s, n) == SubSeq(s, IF Len(s) > n THEN Len(s) - n + 1 ELSE 1, Len(s))

\* uart_config of each: FIFOs and interrupts cleared
UartConfig == rxfifo = <<>> /\ int_full = FALSE /\ txcount = 0

\* uart_init
UartInit ==
    /\ UartConfig
    /\ handling = FALSE
    /\ pRcvMsgBuff = [i \in 0..RX_BUFF_SIZE-1 |-> "zero"] /\ pWritePos = 0
    /\ BuffState = "EMPTY"
    /\ todo = <<>>
    /\ arrived = <<>> /\ printed = <<>> /\ wire = <<>>

-----------------------------------------------------------------------------
(* UART0 *)

\* A byte for which the FIFO has no room is lost.  To the handler a line feed is as
\* any other byte.
Arrive(c) ==
    /\ c # "LF" /\ Len(rxfifo) < RxFifo
    /\ rxfifo' = Append(rxfifo, c)
    /\ int_full' = (int_full \/ Len(rxfifo') >= TrigLvl)
    /\ arrived' = LastOf(Append(arrived, c), RX_BUFF_SIZE + RxFifo)
    /\ UNCHANGED <<handling, pRcvMsgBuff, pWritePos, BuffState, txVars>>

\* uart0_rx_intr_handler clears the interrupt ...
RxEnter ==
    /\ ~handling /\ int_full
    /\ int_full' = FALSE
    /\ handling' = TRUE
    /\ UNCHANGED <<rxfifo, pRcvMsgBuff, pWritePos, BuffState, arrived, txVars>>

\* Mutant: the position wraps a byte late.
WrappedLate(pos) == IF pos = RX_BUFF_SIZE THEN 1 % RX_BUFF_SIZE ELSE pos

\* Mutant: it wraps behind the end.
WrappedBehind(pos) == IF pos > RX_BUFF_SIZE THEN 0 ELSE pos

Wrapped(pos) == IF pos = RX_BUFF_SIZE THEN 0 ELSE pos

\* ... and takes bytes ...
RxTake ==
    /\ handling /\ rxfifo # <<>>
    /\ pRcvMsgBuff' = [pRcvMsgBuff EXCEPT ![pWritePos] = Head(rxfifo)]
    /\ BuffState' = IF Head(rxfifo) = "CR" THEN "WRITE_OVER" ELSE BuffState
    /\ pWritePos' = Wrapped(pWritePos + 1)
    /\ rxfifo' = Tail(rxfifo)
    /\ UNCHANGED <<int_full, handling, arrived, txVars>>

\* Mutant: whether there are more or not.
RxLeaveAny ==
    /\ handling
    /\ handling' = FALSE
    /\ UNCHANGED <<rxfifo, int_full, pRcvMsgBuff, pWritePos, BuffState, arrived, txVars>>

\* ... until there are none.
RxLeave ==
    /\ handling /\ rxfifo = <<>>
    /\ handling' = FALSE
    /\ UNCHANGED <<rxfifo, int_full, pRcvMsgBuff, pWritePos, BuffState, arrived, txVars>>

-----------------------------------------------------------------------------
(* UART1 *)

\* Mutant: a carriage return is sent, too.
SentForAll(c) == IF c = "LF" THEN <<"CR", "LF">> ELSE <<c>>

SentFor(c) == CASE c = "LF" -> <<"CR", "LF">> [] c = "CR" -> <<>> [] OTHER -> <<c>>

\* uart1_write_char
Write(c) ==
    /\ todo = <<>>
    /\ todo' = SentFor(c)
    /\ printed' = LastOf(Append(printed, c), 2)
    /\ UNCHANGED <<rxVars, txcount, wire>>

\* uart1_tx_one_char, after its wait for room
TxOne ==
    /\ todo # <<>> /\ txcount < TxFree
    /\ txcount' = txcount + 1
    /\ wire' = LastOf(Append(wire, Head(todo)), 2)
    /\ todo' = Tail(todo)
    /\ UNCHANGED <<rxVars, printed>>

\* The hardware sends.
TxSend == /\ txcount > 0
          /\ txcount' = txcount - 1
          /\ UNCHANGED <<rxVars, todo, printed, wire>>

UartNext == \/ \E c \in Char : Arrive(c) \/ Write(c)
            \/ RxEnter \/ RxTake \/ RxLeave
            \/ TxOne \/ TxSend

UartSpec == UartInit /\ [][UartNext]_uartVars

-----------------------------------------------------------------------------
(* Properties *)

\* The ring holds the last bytes that arrived and left the FIFO, in their order,
\* over every wrap of pWritePos (which minds no reader) and however bytes arrive
\* between the steps of the handler.
RingHoldsLast ==
    LET taken == SubSeq(arrived, 1, Len(arrived) - Len(rxfifo)) IN
    \A k \in 1..RX_BUFF_SIZE :
        k <= Len(taken) =>
            pRcvMsgBuff[(pWritePos - k) % RX_BUFF_SIZE] = taken[Len(taken) - k + 1]

\* Bytes that reach the trigger level while the handler runs, or just as it ends,
\* are not left in the FIFO without an interrupt.
NoneLeftWaiting == Len(rxfifo) >= TrigLvl => int_full \/ handling

\* A line ends in one CR and LF, whether the text has LF or CR LF; and when all of
\* it was sent, the line end that was asked for was.
LineEnds ==
    /\ Len(wire) = 2 => (wire[2] = "LF" <=> wire[1] = "CR")
    /\ todo = <<>> /\ printed # <<>> /\ Last(printed) # "CR" => Last(wire) = Last(printed)

\* Neither end loses or invents a byte it need not.
UartKept == RingHoldsLast /\ NoneLeftWaiting /\ LineEnds
=============================================================================
