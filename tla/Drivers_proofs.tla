--------------------------- MODULE Drivers_proofs ----------------------------
(***************************************************************************)
(* Proofs about the drivers, and about them together.                      *)
(*                                                                         *)
(* KeyDriver: for every debounce time and every longer time of a long      *)
(* press, the driver is in step with the key again, and a press is one.    *)
(*                                                                         *)
(* UartConsole: for every size of the ring and of the FIFOs, the ring has  *)
(* the newest bytes in their order, RingInv, and none of what is to be     *)
(* sent is left waiting or changes its place, SendInv.                     *)
(*                                                                         *)
(* SpiLink: whatever is sent, what is on the wire is what was asked for;   *)
(* and but for a call that crossed the slave's handler, the slave has what *)
(* was written and the line tells it, SlaveAgrees.                         *)
(*                                                                         *)
(* The proofs of the I2C master are in I2cMaster_proofs, those of pulse    *)
(* width modulation in PwmDriver_proofs.  At the end all hold of the       *)
(* drivers together.                                                       *)
(***************************************************************************)
EXTENDS MCDrivers, I2cMaster_proofs, PwmDriver_proofs, SequenceTheorems, TLAPS

-----------------------------------------------------------------------------
(* The key driver                                                          *)

\* How the interrupt's mode, key_level and the timers go together, however the
\* key moves.
ModeInv ==
    /\ status => intr # "DISABLE" /\ pc = "idle"
    /\ intr = "NEGEDGE" => key_level = 1
    /\ intr = "POSEDGE" => key_level = 0
    /\ pc # "idle" => intr = "DISABLE" /\ key_50ms = Off
    /\ pc \in {"up", "down"} => key_level = 0
    /\ key_50ms # Off => intr = "DISABLE" /\ key_level = 0
    /\ pc = "idle" /\ intr = "DISABLE" => key_50ms # Off
    /\ key_level = 1 => key_5s = Off

\* What the driver knows of the key, at each point of its handlers.
KnowInv ==
    lost # "now" =>
        /\ status => (intr = "NEGEDGE" <=> input = 0)
        /\ pc = "handler" => (key_level = 1 <=> input = 0)
        /\ pc = "up" => input = 1
        /\ pc = "down" => input = 0
        /\ ~status /\ pc = "idle" =>
              /\ input = 1 => key_level = 1 \/ key_50ms # Off
              /\ input = 0 => key_level = 0

\* While key_5s runs, a key that is up is up no longer than key_50ms allows.
LongInv ==
    /\ LongPressIsOne
    /\ lost = "never" =>
        /\ key_5s # Off /\ input = 1 /\ (status \/ pc = "handler") => upFor = 0
        /\ key_5s # Off /\ input = 1 /\ pc = "idle" /\ ~status /\ ~fired =>
              key_50ms # Off /\ upFor + key_50ms <= Debounce

\* A press that the driver saw begin is about to arm key_5s, or has and key_5s
\* and the key's time down make up the long press, or it was long enough.
CleanInv ==
    clean /\ input = 0 =>
        /\ lost # "now"
        /\ \/ status /\ intr = "NEGEDGE" /\ lowFor = 0
           \/ pc = "handler" /\ key_level = 1 /\ lowFor = 0
           \/ ~status /\ pc # "handler" /\ key_5s # Off /\ key_5s + lowFor = Long
           \/ fired

KeyInv == TypeOK /\ ModeInv /\ KnowInv

PressInv == KeyInv /\ LongInv /\ CleanInv /\ (input = 1 => lowFor = 0)

-----------------------------------------------------------------------------
LEMMA TimesFacts == Debounce \in Nat /\ Debounce > 0 /\ Long \in Nat /\ Long > Debounce
BY KeyAssumption

LEMMA TypeStep == TypeOK /\ [Next]_vars => TypeOK'
<1> SUFFICES ASSUME TypeOK, [Next]_vars PROVE TypeOK'
    OBVIOUS
<1> USE DEF TypeOK, Off
<1>1. CASE UNCHANGED vars
    BY <1>1 DEF vars, timers, history
<1>2. CASE Press \/ Release \/ Glitch
  <2>1. Edge /\ lost' \in {"never", "now", "was"}
    BY <1>2 DEF Press, Release, Glitch
  <2>2. status' \in BOOLEAN
    BY <2>1, Zenon DEF Edge
  <2>3. clean' \in BOOLEAN
    BY <1>2, Zenon DEF Press, Release, Glitch
  <2> QED
    BY <2>1, <2>2, <2>3, TimesFacts DEF Edge, timers
<1>3. CASE Tick
  <2>1. key_5s' \in {Off} \cup 0..Long /\ key_50ms' \in {Off} \cup 0..Debounce
    BY <1>3, TimesFacts DEF Tick, Left
  <2>2. upFor' \in 0..Debounce+1 /\ lowFor' \in 0..Long+1
    BY <1>3, TimesFacts DEF Tick, Upto
  <2>3. released' \in BOOLEAN
    BY <1>3, Zenon DEF Tick
  <2> QED
    BY <1>3, <2>1, <2>2, <2>3 DEF Tick
<1>4. CASE HandlerEnter \/ HandlerLeave
  <2>1. status' \in BOOLEAN /\ released' \in BOOLEAN
    BY <1>4, Zenon DEF HandlerEnter, HandlerLeave, history
  <2> QED
    BY <1>4, <2>1, TimesFacts DEF HandlerEnter, HandlerLeave, timers, history
<1>5. CASE Cb50msEnter \/ Cb50msUp \/ Cb50msDown
    BY <1>5 DEF Cb50msEnter, Cb50msUp, Cb50msDown, timers, history
<1>6. CASE Cb5s
  <2>1. fired' \in BOOLEAN
    BY <1>6, Zenon DEF Cb5s
  <2> QED
    BY <1>6, <2>1 DEF Cb5s, history
<1>7. CASE Reboot
  <2>1. status' \in BOOLEAN /\ fired' \in BOOLEAN /\ released' \in BOOLEAN /\ clean' \in BOOLEAN
    BY <1>7, Zenon DEF Reboot
  <2>2. upFor' \in 0..Debounce+1 /\ lowFor' \in 0..Long+1
    BY <1>7, TimesFacts DEF Reboot
  <2> QED
    BY <1>7, <2>1, <2>2 DEF Reboot
<1> QED
    BY <1>1, <1>2, <1>3, <1>4, <1>5, <1>6, <1>7 DEF Next, Driver

\* When the key moves in quiet, exactly the edge the mode is for is latched.
LEMMA QuietEdge ==
    ASSUME Quiet, Edge
    PROVE  status' <=> intr = IF input = 1 THEN "NEGEDGE" ELSE "POSEDGE"
BY Zenon DEF Quiet, Edge

LEMMA GStep == KeyInv /\ [Next]_vars => KeyInv'
<1> SUFFICES ASSUME KeyInv, [Next]_vars PROVE KeyInv'
    OBVIOUS
<1>0. TypeOK'
    BY TypeStep DEF KeyInv
<1> USE <1>0 DEF KeyInv, TypeOK, ModeInv, KnowInv, Off
<1>1. CASE UNCHANGED vars
    BY <1>1 DEF vars, timers, history
<1>2. CASE Press
  <2>1. status' <=> intr = "NEGEDGE"
    BY <1>2, QuietEdge, Zenon DEF Press
  <2> QED
    BY <1>2, <2>1 DEF Press, Quiet, Edge, timers
<1>3. CASE Release
  <2>1. status' <=> intr = "POSEDGE"
    BY <1>3, QuietEdge DEF Release
  <2> QED
    BY <1>3, <2>1 DEF Release, Quiet, Edge, timers
<1>4. CASE Glitch
    BY <1>4 DEF Glitch, Edge, timers
<1>5. CASE Tick
    BY <1>5 DEF Tick, Quiet, Left
<1>6. CASE HandlerEnter
    BY <1>6 DEF HandlerEnter, timers, history
<1>7. CASE HandlerLeave
    BY <1>7, TimesFacts DEF HandlerLeave
<1>8. CASE Cb50msEnter \/ Cb50msUp \/ Cb50msDown
    BY <1>8 DEF Cb50msEnter, Cb50msUp, Cb50msDown, timers, history
<1>9. CASE Cb5s
    BY <1>9 DEF Cb5s, history
<1>10. CASE Reboot
    BY <1>10 DEF Reboot
<1> QED
    BY <1>1, <1>2, <1>3, <1>4, <1>5, <1>6, <1>7, <1>8, <1>9, <1>10 DEF Next, Driver

LEMMA LongStep == KeyInv /\ LongInv /\ [Next]_vars => LongInv'
<1> SUFFICES ASSUME KeyInv, LongInv, [Next]_vars PROVE LongInv'
    OBVIOUS
<1> USE DEF KeyInv, TypeOK, ModeInv, KnowInv, LongInv, LongPressIsOne, Off
<1>1. CASE UNCHANGED vars
    BY <1>1 DEF vars, timers, history
<1>2. CASE Press \/ Release
  <2>1. Quiet /\ Edge /\ (lost' = "never" => lost = "never")
    BY <1>2 DEF Press, Release
  <2>2. status' <=> intr = IF input = 1 THEN "NEGEDGE" ELSE "POSEDGE"
    BY <2>1, QuietEdge, Zenon
  <2> QED
    BY <2>1, <2>2, TimesFacts DEF Quiet, Edge, timers
<1>9. CASE Glitch
    BY <1>9 DEF Glitch
<1>3. CASE Tick
    BY <1>3, TimesFacts DEF Tick, Quiet, Left, Upto
<1>4. CASE HandlerEnter
    BY <1>4 DEF HandlerEnter, timers, history
<1>5. CASE HandlerLeave
    BY <1>5, TimesFacts DEF HandlerLeave
<1>6. CASE Cb50msEnter \/ Cb50msUp \/ Cb50msDown
    BY <1>6 DEF Cb50msEnter, Cb50msUp, Cb50msDown, timers, history
<1>7. CASE Cb5s
    BY <1>7 DEF Cb5s, history
<1>8. CASE Reboot
    BY <1>8 DEF Reboot
<1> QED
    BY <1>1, <1>2, <1>3, <1>4, <1>5, <1>6, <1>7, <1>8, <1>9 DEF Next, Driver

LEMMA CleanStep ==
    KeyInv /\ CleanInv /\ (input = 1 => lowFor = 0) /\ [Next]_vars
        => CleanInv' /\ (input = 1 => lowFor = 0)'
<1> SUFFICES ASSUME KeyInv, CleanInv, input = 1 => lowFor = 0, [Next]_vars
             PROVE  CleanInv' /\ (input = 1 => lowFor = 0)'
    OBVIOUS
<1> USE DEF KeyInv, TypeOK, ModeInv, KnowInv, CleanInv, Off
<1>1. CASE UNCHANGED vars
    BY <1>1 DEF vars, timers, history
<1>2. CASE Press
  <2>1. status' <=> intr = "NEGEDGE"
    BY <1>2, QuietEdge, Zenon DEF Press
  <2>2. clean' => key_level = 1
    BY <1>2, Zenon DEF Press
  <2>3. lost' # "now" /\ lowFor' = 0
    BY <1>2 DEF Press, Edge
  <2> QED
    BY <1>2, <2>1, <2>2, <2>3 DEF Press, Quiet, Edge, timers
<1>3. CASE Release
    BY <1>3 DEF Release, Edge
<1>4. CASE Glitch
    BY <1>4 DEF Glitch, Edge
<1>5. CASE Tick
    BY <1>5, TimesFacts DEF Tick, Quiet, Left, Upto
<1>6. CASE HandlerEnter
    BY <1>6 DEF HandlerEnter, timers, history
<1>7. CASE HandlerLeave
    BY <1>7, TimesFacts DEF HandlerLeave
<1>8. CASE Cb50msEnter \/ Cb50msUp \/ Cb50msDown
    BY <1>8 DEF Cb50msEnter, Cb50msUp, Cb50msDown, timers, history
<1>9. CASE Cb5s
  <2>1. input = 0 => fired'
    BY <1>9, Zenon DEF Cb5s
  <2> QED
    BY <1>9, <2>1 DEF Cb5s, history
<1>10. CASE Reboot
    BY <1>10 DEF Reboot
<1> QED
    BY <1>1, <1>2, <1>3, <1>4, <1>5, <1>6, <1>7, <1>8, <1>9, <1>10 DEF Next, Driver

LEMMA KeyInit == Init => PressInv
<1> SUFFICES ASSUME Init PROVE PressInv
    OBVIOUS
<1>1. status \in BOOLEAN /\ fired \in BOOLEAN /\ released \in BOOLEAN /\ clean \in BOOLEAN
    BY Zenon DEF Init
<1>2. TypeOK
    BY <1>1, TimesFacts DEF Init, TypeOK
<1> QED
    BY <1>2 DEF Init, PressInv, KeyInv, ModeInv, KnowInv, LongInv, LongPressIsOne, CleanInv

-----------------------------------------------------------------------------
\* The strengthening is inductive.
THEOREM KeyInvariance == Spec => []PressInv
<1>1. PressInv /\ [Next]_vars => PressInv'
    BY GStep, LongStep, CleanStep DEF PressInv
<1> QED
    BY <1>1, KeyInit, PTL DEF Spec

\* The variables of key.c and of the history keep their types.
THEOREM KeyTypeCorrect == Spec => []TypeOK
<1>1. PressInv => TypeOK
    BY DEF PressInv, KeyInv
<1> QED
    BY <1>1, KeyInvariance, PTL

\* key_level and the timers of key.c tell where the key is, and after a missed
\* edge one press suffices for it.
THEOREM InStepAgain == Spec => []Resynchronises
<1>1. PressInv => Resynchronises
    BY DEF PressInv, KeyInv, KnowInv, Resynchronises, InStep, Quiet
<1> QED
    BY <1>1, KeyInvariance, PTL

\* Short presses never add up to a long one: key_50ms_cb disarms key_5s.
THEOREM OnePress == Spec => []LongPressIsOne
<1>1. PressInv => LongPressIsOne
    BY DEF PressInv, LongInv
<1> QED
    BY <1>1, KeyInvariance, PTL

\* A press that the driver saw begin calls long_press in time (key_5s_cb).
THEOREM InTime == Spec => []PressFires
<1>1. PressInv => PressFires
  <2> SUFFICES ASSUME PressInv, clean, lowFor > Long PROVE fired
    BY DEF PressFires
  <2> QED
    BY TimesFacts DEF PressInv, KeyInv, TypeOK, CleanInv, Off
<1> QED
    BY <1>1, KeyInvariance, PTL

-----------------------------------------------------------------------------
(* UART                                                                    *)

\* What waits in the FIFO arrived last.
FifoIsNewest ==
    /\ Len(rxfifo) <= Len(arrived)
    /\ \A i \in 1..Len(rxfifo) : rxfifo[i] = arrived[Len(arrived) - Len(rxfifo) + i]

\* The place in the ring that was written k bytes ago
Back(pos, k) == IF k <= pos THEN pos - k ELSE pos - k + RX_BUFF_SIZE

RingInv ==
    \A k \in 1..RX_BUFF_SIZE :
        k <= Len(arrived) - Len(rxfifo) =>
            pRcvMsgBuff[Back(pWritePos, k)] = arrived[Len(arrived) - Len(rxfifo) - k + 1]

\* The wire ends in a carriage return just while its line feed is still to be sent,
\* and what is still to be sent ends in what was printed last.
SendInv ==
    /\ Len(wire) <= 2 /\ Len(printed) <= 2
    /\ todo \in {<<>>, <<"a">>, <<"LF">>, <<"CR", "LF">>}
    /\ wire # <<>> /\ wire[Len(wire)] = "CR" <=> todo = <<"LF">>
    /\ Len(wire) = 2 => (wire[2] = "LF" <=> wire[1] = "CR")
    /\ todo # <<>> => printed # <<>> /\ printed[Len(printed)] = todo[Len(todo)]
    /\ todo = <<>> /\ printed # <<>> /\ printed[Len(printed)] # "CR" =>
          wire # <<>> /\ wire[Len(wire)] = printed[Len(printed)]

UartInv == /\ UartTypeOK /\ NoneLeftWaiting
           /\ Len(arrived) <= RX_BUFF_SIZE + RxFifo
           /\ FifoIsNewest /\ RingInv /\ SendInv

LEMMA UartBounds == /\ RX_BUFF_SIZE \in Nat /\ RX_BUFF_SIZE > 0 /\ RxFifo \in Nat
                    /\ TrigLvl \in Nat /\ TrigLvl > 0 /\ TxFree \in Nat
BY UartAssumption

\* The last n of a sequence and one more: it, and before it what was there.
Pushed(t, s, e, n) ==
    /\ t \in Seq(Char)
    /\ Len(t) = IF Len(s) < n THEN Len(s) + 1 ELSE n
    /\ t[Len(t)] = e
    /\ \A i \in 1..Len(t) - 1 : t[i] = s[Len(s) - Len(t) + 1 + i]

LEMMA LastOfAppend ==
    ASSUME NEW s \in Seq(Char), NEW e \in Char, NEW n \in Nat, n > 0, Len(s) <= n
    PROVE  Pushed(LastOf(Append(s, e), n), s, e, n)
<1> DEFINE t == LastOf(Append(s, e), n)
           a == Append(s, e)
           m == IF Len(a) > n THEN Len(a) - n + 1 ELSE 1
<1>1. /\ a \in Seq(Char) /\ Len(a) = Len(s) + 1 /\ Len(s) \in Nat
      /\ a[Len(s) + 1] = e /\ \A i \in 1..Len(s) : a[i] = s[i]
    BY AppendProperties, LenProperties
<1>2. t = SubSeq(a, m, Len(a))
    BY DEF LastOf, t
<1>3. m = IF Len(s) < n THEN 1 ELSE 2
    BY <1>1
<1> HIDE DEF a, m, t
<1>4. m \in Int /\ Len(a) \in Int /\ m <= Len(a) /\ \A i \in m..Len(a) : a[i] \in Char
    <2>1. \A i \in 1..Len(a) : a[i] \in Char
        BY <1>1, ElementOfSeq
    <2> QED BY <1>1, <1>3, <2>1
<1>5. /\ t \in Seq(Char) /\ Len(t) = Len(a) - m + 1
      /\ \A i \in 1..Len(a) - m + 1 : t[i] = a[m + i - 1]
    BY <1>2, <1>4, SubSeqProperties
<1>6. Len(t) = IF Len(s) < n THEN Len(s) + 1 ELSE n
    BY <1>1, <1>3, <1>5
<1>7. t[Len(t)] = e
    <2>1. t[Len(t)] = a[m + Len(t) - 1]
        BY <1>1, <1>3, <1>5
    <2> QED BY <1>1, <1>3, <1>5, <2>1
<1>8. ASSUME NEW i \in 1..Len(t) - 1 PROVE t[i] = s[Len(s) - Len(t) + 1 + i]
    <2>1. i \in 1..Len(a) - m + 1 /\ m + i - 1 \in 1..Len(s) /\ m + i - 1 = Len(s) - Len(t) + 1 + i
        BY <1>1, <1>3, <1>6
    <2>2. t[i] = a[m + i - 1] /\ a[m + i - 1] = s[m + i - 1]
        BY <1>1, <1>5, <2>1
    <2> QED BY <2>1, <2>2
<1> QED BY <1>5, <1>6, <1>7, <1>8 DEF Pushed, t

LEMMA UartInitInv == UartInit => UartInv
<1> SUFFICES ASSUME UartInit PROVE UartInv
    OBVIOUS
<1> USE UartBounds, EmptySeq DEF UartInit, UartConfig
<1>1. Len(rxfifo) = 0 /\ Len(arrived) = 0 /\ Len(wire) = 0 /\ Len(printed) = 0
    BY EmptySeq
<1>2. UartTypeOK
    <2>1. pRcvMsgBuff \in [0..RX_BUFF_SIZE-1 -> Char \cup {"zero"}] /\ pWritePos \in 0..RX_BUFF_SIZE-1
        OBVIOUS
    <2>2. handling \in BOOLEAN /\ int_full \in BOOLEAN
        BY Zenon
    <2>3. rxfifo \in Seq(Char) /\ todo \in Seq(Char) /\ arrived \in Seq(Char)
          /\ printed \in Seq(Char) /\ wire \in Seq(Char)
        BY EmptySeq
    <2>4. BuffState \in {"EMPTY", "WRITE_OVER"} /\ txcount \in 0..TxFree
        OBVIOUS
    <2> QED BY <1>1, <2>1, <2>2, <2>3, <2>4 DEF UartTypeOK
<1>3. NoneLeftWaiting /\ FifoIsNewest /\ RingInv
    BY <1>1 DEF NoneLeftWaiting, FifoIsNewest, RingInv
<1>4. SendInv
    BY <1>1 DEF SendInv
<1> QED BY <1>1, <1>2, <1>3, <1>4 DEF UartInv

\* A byte arrives: it is the newest in the FIFO, and the ring stays behind it.
LEMMA ArriveStep ==
    ASSUME UartInv, NEW c \in Char, Arrive(c)
    PROVE  UartInv'
<1> DEFINE most == RX_BUFF_SIZE + RxFifo
           la == Len(arrived)
           lf == Len(rxfifo)
<1>1. /\ rxfifo \in Seq(Char) /\ arrived \in Seq(Char) /\ lf \in Nat /\ la \in Nat
      /\ lf <= la /\ la <= most /\ lf < RxFifo /\ most \in Nat /\ most > 0
    BY LenProperties, UartBounds DEF UartInv, UartTypeOK, FifoIsNewest, Arrive
<1>2. /\ rxfifo' \in Seq(Char) /\ Len(rxfifo') = lf + 1
      /\ rxfifo'[lf + 1] = c /\ \A i \in 1..lf : rxfifo'[i] = rxfifo[i]
    BY <1>1, AppendProperties DEF Arrive
<1>3. arrived' = LastOf(Append(arrived, c), most)
    BY DEF Arrive
<1> HIDE DEF la, lf, most
<1>4. /\ arrived' \in Seq(Char)
      /\ Len(arrived') = IF la < most THEN la + 1 ELSE most
      /\ arrived'[Len(arrived')] = c
      /\ \A i \in 1..Len(arrived') - 1 : arrived'[i] = arrived[la - Len(arrived') + 1 + i]
    <2>1. arrived \in Seq(Char) /\ most \in Nat /\ most > 0 /\ Len(arrived) <= most
        BY <1>1 DEF la
    <2>2. Pushed(LastOf(Append(arrived, c), most), arrived, c, most)
        BY <2>1, LastOfAppend, Zenon
    <2> QED BY <1>3, <2>2, Zenon DEF Pushed, la
<1>5. UNCHANGED <<handling, pRcvMsgBuff, pWritePos, BuffState, txVars>>
    BY DEF Arrive
<1>6. UartTypeOK'
    <2>1. int_full' \in BOOLEAN
        BY DEF Arrive, UartInv, UartTypeOK
    <2>2. Len(rxfifo') <= RxFifo
        BY <1>1, <1>2, UartBounds
    <2> QED BY <1>2, <1>4, <1>5, <2>1, <2>2 DEF UartInv, UartTypeOK, txVars
<1>7. NoneLeftWaiting'
    <2>1. int_full' = (int_full \/ Len(rxfifo') >= TrigLvl)
        BY DEF Arrive
    <2> QED BY <2>1 DEF NoneLeftWaiting
<1>8. Len(arrived') <= RX_BUFF_SIZE + RxFifo
    BY <1>1, <1>4 DEF most
<1>9. FifoIsNewest'
    <2>1. Len(rxfifo') <= Len(arrived')
        BY <1>1, <1>2, <1>4, UartBounds DEF most
    <2>2. ASSUME NEW i \in 1..Len(rxfifo')
          PROVE  rxfifo'[i] = arrived'[Len(arrived') - Len(rxfifo') + i]
        <3>1. CASE i = lf + 1
            BY <1>1, <1>2, <1>4, <3>1
        <3>2. CASE i \in 1..lf
            <4> DEFINE j == Len(arrived') - Len(rxfifo') + i
            <4>1. j \in 1..Len(arrived') - 1 /\ la - Len(arrived') + 1 + j = la - lf + i
                BY <1>1, <1>2, <1>4, <2>1, <3>2
            <4>2. arrived'[j] = arrived[la - lf + i]
                BY <1>4, <4>1
            <4>3. rxfifo[i] = arrived[la - lf + i]
                BY <3>2 DEF UartInv, FifoIsNewest, la, lf
            <4> QED BY <1>2, <3>2, <4>2, <4>3
        <3> QED BY <1>1, <1>2, <2>2, <3>1, <3>2
    <2> QED BY <2>1, <2>2 DEF FifoIsNewest
<1>10. RingInv'
    <2> SUFFICES ASSUME NEW k \in 1..RX_BUFF_SIZE, k <= Len(arrived') - Len(rxfifo')
                 PROVE  pRcvMsgBuff[Back(pWritePos, k)]
                            = arrived'[Len(arrived') - Len(rxfifo') - k + 1]
        BY <1>5 DEF RingInv, Back
    <2> DEFINE j == Len(arrived') - Len(rxfifo') - k + 1
    <2>1. k <= la - lf /\ j \in 1..Len(arrived') - 1 /\ la - Len(arrived') + 1 + j = la - lf - k + 1
        <3>1. k \in Nat /\ k >= 1 /\ Len(rxfifo') = lf + 1 /\ Len(arrived') \in {la, la + 1}
              /\ Len(arrived') <= la + 1
            BY <1>1, <1>2, <1>4, UartBounds
        <3> QED BY <1>1, <3>1
    <2>2. arrived'[j] = arrived[la - lf - k + 1]
        BY <1>4, <2>1
    <2>3. pRcvMsgBuff[Back(pWritePos, k)] = arrived[la - lf - k + 1]
        BY <2>1 DEF UartInv, RingInv, la, lf
    <2> QED BY <2>2, <2>3
<1>11. SendInv'
    BY <1>5 DEF UartInv, SendInv, txVars
<1> QED BY <1>6, <1>7, <1>8, <1>9, <1>10, <1>11 DEF UartInv

\* A byte moves from the FIFO to the ring, over the oldest there.
LEMMA RxTakeStep ==
    ASSUME UartInv, RxTake
    PROVE  UartInv'
<1> DEFINE la == Len(arrived)
           lf == Len(rxfifo)
<1>1. /\ rxfifo \in Seq(Char) /\ lf \in Nat /\ la \in Nat /\ lf <= la /\ lf <= RxFifo /\ lf > 0
      /\ pWritePos \in 0..RX_BUFF_SIZE-1
      /\ pRcvMsgBuff \in [0..RX_BUFF_SIZE-1 -> Char \cup {"zero"}]
    BY LenProperties, EmptySeq, UartBounds DEF UartInv, UartTypeOK, FifoIsNewest, RxTake
<1>2. /\ Head(rxfifo) \in Char /\ rxfifo' \in Seq(Char) /\ Len(rxfifo') = lf - 1
      /\ \A i \in 1..lf - 1 : rxfifo'[i] = rxfifo[i + 1]
      /\ Head(rxfifo) = rxfifo[1]
    BY <1>1, HeadTailProperties DEF RxTake
<1>3. /\ pRcvMsgBuff' = [pRcvMsgBuff EXCEPT ![pWritePos] = Head(rxfifo)]
      /\ pWritePos' = IF pWritePos + 1 = RX_BUFF_SIZE THEN 0 ELSE pWritePos + 1
      /\ handling
      /\ UNCHANGED <<int_full, handling, arrived, txVars>>
    BY DEF RxTake, Wrapped
<1> HIDE DEF la, lf
<1>4. UartTypeOK'
    <2>1. pWritePos' \in 0..RX_BUFF_SIZE-1
        BY <1>1, <1>3, UartBounds
    <2>2. pRcvMsgBuff' \in [0..RX_BUFF_SIZE-1 -> Char \cup {"zero"}]
        BY <1>1, <1>2, <1>3
    <2>3. BuffState' \in {"EMPTY", "WRITE_OVER"}
        BY DEF RxTake, UartInv, UartTypeOK
    <2>4. Len(rxfifo') <= RxFifo
        BY <1>1, <1>2, UartBounds
    <2> QED BY <1>2, <1>3, <2>1, <2>2, <2>3, <2>4 DEF UartInv, UartTypeOK, txVars
<1>5. FifoIsNewest'
    <2>1. ASSUME NEW i \in 1..Len(rxfifo')
          PROVE  rxfifo'[i] = arrived[la - Len(rxfifo') + i]
        <3>1. i + 1 \in 1..lf /\ i \in 1..lf - 1 /\ la - lf + (i + 1) = la - Len(rxfifo') + i
            BY <1>1, <1>2
        <3>2. rxfifo[i + 1] = arrived[la - lf + (i + 1)]
            BY <3>1 DEF UartInv, FifoIsNewest, la, lf
        <3> QED BY <1>2, <3>1, <3>2
    <2> QED BY <1>1, <1>2, <1>3, <2>1 DEF FifoIsNewest, la
<1>6. RingInv'
    <2> SUFFICES ASSUME NEW k \in 1..RX_BUFF_SIZE, k <= la - Len(rxfifo')
                 PROVE  pRcvMsgBuff'[Back(pWritePos', k)] = arrived[la - Len(rxfifo') - k + 1]
        BY <1>3 DEF RingInv, Back, la
    <2>1. CASE k = 1
        <3>1. Back(pWritePos', k) = pWritePos
            BY <1>1, <1>3, <2>1, UartBounds DEF Back
        <3>2. pRcvMsgBuff'[pWritePos] = rxfifo[1]
            BY <1>1, <1>2, <1>3
        <3>3. rxfifo[1] = arrived[la - lf + 1]
            BY <1>1 DEF UartInv, FifoIsNewest, la, lf
        <3>4. la - Len(rxfifo') - k + 1 = la - lf + 1
            BY <1>1, <1>2, <2>1
        <3> QED BY <3>1, <3>2, <3>3, <3>4
    <2>2. CASE k > 1
        <3>1. /\ Back(pWritePos', k) = Back(pWritePos, k - 1)
              /\ Back(pWritePos, k - 1) \in 0..RX_BUFF_SIZE-1 /\ Back(pWritePos, k - 1) # pWritePos
            BY <1>1, <1>3, <2>2, UartBounds DEF Back
        <3>2. pRcvMsgBuff'[Back(pWritePos', k)] = pRcvMsgBuff[Back(pWritePos, k - 1)]
            BY <1>1, <1>3, <3>1
        <3>3. k - 1 \in 1..RX_BUFF_SIZE /\ k - 1 <= la - lf
              /\ la - Len(rxfifo') - k + 1 = la - lf - (k - 1) + 1
            BY <1>1, <1>2, <2>2, UartBounds
        <3>4. pRcvMsgBuff[Back(pWritePos, k - 1)] = arrived[la - lf - (k - 1) + 1]
            BY <3>3 DEF UartInv, RingInv, la, lf
        <3> QED BY <3>2, <3>3, <3>4
    <2> QED BY <2>1, <2>2
<1>7. NoneLeftWaiting' /\ SendInv' /\ Len(arrived') <= RX_BUFF_SIZE + RxFifo
    BY <1>3 DEF UartInv, NoneLeftWaiting, SendInv, txVars
<1> QED BY <1>4, <1>5, <1>6, <1>7 DEF UartInv

LEMMA WriteStep ==
    ASSUME UartInv, NEW c \in Char, Write(c)
    PROVE  UartInv'
<1>1. /\ todo = <<>> /\ todo' = SentFor(c)
      /\ printed' = LastOf(Append(printed, c), 2)
      /\ UNCHANGED <<rxVars, txcount, wire>>
    BY DEF Write
<1>2. /\ printed \in Seq(Char) /\ Len(printed) <= 2 /\ Len(printed) \in Nat
      /\ wire # <<>> => wire[Len(wire)] # "CR"
    BY <1>1, LenProperties DEF UartInv, UartTypeOK, SendInv
<1>3. /\ printed' \in Seq(Char) /\ Len(printed') = IF Len(printed) < 2 THEN Len(printed) + 1 ELSE 2
      /\ printed'[Len(printed')] = c
    <2>1. 2 \in Nat /\ 2 > 0
        OBVIOUS
    <2>2. printed \in Seq(Char) /\ Len(printed) <= 2
        BY <1>2
    <2>3. Pushed(LastOf(Append(printed, c), 2), printed, c, 2)
        BY <2>1, <2>2, LastOfAppend, Zenon
    <2> QED BY <1>1, <2>3, Zenon DEF Pushed
<1>4. Len(printed') \in 1..2 /\ printed' # <<>>
    BY <1>2, <1>3, EmptySeq
<1>5. /\ todo' \in Seq(Char)
      /\ todo' \in {<<>>, <<"a">>, <<"LF">>, <<"CR", "LF">>} /\ todo' # <<"LF">>
      /\ todo' # <<>> => todo'[Len(todo')] = c
      /\ todo' = <<>> => c = "CR"
    <2>1. CASE c = "a"
        <3>1. todo' = <<"a">>
            BY <1>1, <2>1 DEF SentFor
        <3> QED BY <2>1, <3>1 DEF Char
    <2>2. CASE c = "LF"
        <3>1. todo' = <<"CR", "LF">>
            BY <1>1, <2>2 DEF SentFor
        <3> QED BY <2>2, <3>1 DEF Char
    <2>3. CASE c = "CR"
        <3>1. todo' = <<>>
            BY <1>1, <2>3 DEF SentFor
        <3>2. <<>> \in Seq(Char)
            BY EmptySeq
        <3> QED BY <2>3, <3>1, <3>2
    <2> QED BY <2>1, <2>2, <2>3 DEF Char
<1>6. UartTypeOK'
    BY <1>1, <1>3, <1>5 DEF UartInv, UartTypeOK, rxVars
<1>7. NoneLeftWaiting' /\ FifoIsNewest' /\ RingInv' /\ Len(arrived') <= RX_BUFF_SIZE + RxFifo
    BY <1>1 DEF UartInv, NoneLeftWaiting, FifoIsNewest, RingInv, Back, rxVars
<1>8. SendInv'
    BY <1>1, <1>2, <1>3, <1>4, <1>5 DEF UartInv, SendInv
<1> QED BY <1>6, <1>7, <1>8 DEF UartInv

LEMMA TxOneStep ==
    ASSUME UartInv, TxOne
    PROVE  UartInv'
<1> DEFINE c == Head(todo)
<1>1. /\ todo # <<>> /\ todo' = Tail(todo)
      /\ wire' = LastOf(Append(wire, c), 2)
      /\ txcount < TxFree /\ txcount' = txcount + 1
      /\ UNCHANGED <<rxVars, printed>>
    BY DEF TxOne
<1>2. /\ wire \in Seq(Char) /\ Len(wire) <= 2 /\ Len(wire) \in Nat /\ printed # <<>>
      /\ todo \in {<<"a">>, <<"LF">>, <<"CR", "LF">>}
      /\ wire # <<>> /\ wire[Len(wire)] = "CR" <=> todo = <<"LF">>
    BY <1>1, LenProperties DEF UartInv, UartTypeOK, SendInv
<1>3. /\ c \in Char /\ todo' \in Seq(Char) /\ todo' \in {<<>>, <<"LF">>}
      /\ c = "LF" <=> todo = <<"LF">>
      /\ c = "CR" <=> todo' = <<"LF">>
      /\ todo' = <<>> => c = todo[Len(todo)]
      /\ todo' # <<>> => todo'[Len(todo')] = todo[Len(todo)]
    <2>1. CASE todo = <<"a">>
        BY <1>1, <2>1 DEF Char
    <2>2. CASE todo = <<"LF">>
        BY <1>1, <2>2 DEF Char
    <2>3. CASE todo = <<"CR", "LF">>
        BY <1>1, <2>3 DEF Char
    <2> QED BY <1>2, <2>1, <2>2, <2>3
<1> HIDE DEF c
<1>4. /\ wire' \in Seq(Char) /\ Len(wire') = IF Len(wire) < 2 THEN Len(wire) + 1 ELSE 2
      /\ wire'[Len(wire')] = c
      /\ \A i \in 1..Len(wire') - 1 : wire'[i] = wire[Len(wire) - Len(wire') + 1 + i]
    <2>1. 2 \in Nat /\ 2 > 0
        OBVIOUS
    <2>2. wire \in Seq(Char) /\ Len(wire) <= 2 /\ c \in Char
        BY <1>2, <1>3
    <2>3. Pushed(LastOf(Append(wire, c), 2), wire, c, 2)
        BY <2>1, <2>2, LastOfAppend, Zenon
    <2> QED BY <1>1, <2>3, Zenon DEF Pushed
<1>5. /\ Len(wire') \in 1..2 /\ wire' # <<>>
      /\ Len(wire') = 2 => wire # <<>> /\ wire'[1] = wire[Len(wire)] /\ wire'[2] = c
    <2>1. Len(wire') \in 1..2 /\ wire' # <<>>
        BY <1>2, <1>4, EmptySeq
    <2>2. ASSUME Len(wire') = 2
          PROVE  wire # <<>> /\ wire'[1] = wire[Len(wire)] /\ wire'[2] = c
        <3>1. 1 \in 1..Len(wire') - 1 /\ Len(wire) - Len(wire') + 1 + 1 = Len(wire) /\ Len(wire) > 0
            <4>1. CASE Len(wire) < 2
                BY <1>2, <1>4, <2>2, <4>1
            <4>2. CASE ~(Len(wire) < 2)
                BY <1>2, <2>2, <4>2
            <4> QED BY <4>1, <4>2
        <3>2. wire'[1] = wire[Len(wire)]
            BY <1>4, <3>1
        <3> QED BY <1>4, <2>2, <3>1, <3>2, EmptySeq
    <2> QED BY <2>1, <2>2
<1>6. UartTypeOK'
    <2>1. txcount' \in 0..TxFree
        BY <1>1, UartBounds DEF UartInv, UartTypeOK
    <2> QED BY <1>1, <1>3, <1>4, <2>1 DEF UartInv, UartTypeOK, rxVars
<1>7. NoneLeftWaiting' /\ FifoIsNewest' /\ RingInv' /\ Len(arrived') <= RX_BUFF_SIZE + RxFifo
    BY <1>1 DEF UartInv, NoneLeftWaiting, FifoIsNewest, RingInv, Back, rxVars
<1>8. SendInv'
    <2>1. Len(wire') <= 2 /\ Len(printed') <= 2
        <3>1. Len(printed) <= 2 /\ printed' = printed
            BY <1>1 DEF UartInv, SendInv
        <3>2. Len(wire') <= 2
            <4>1. \A m \in 1..2 : m <= 2
                OBVIOUS
            <4> QED BY <1>5, <4>1, Zenon
        <3> QED BY <3>1, <3>2, Zenon
    <2>2. wire' # <<>> /\ wire'[Len(wire')] = "CR" <=> todo' = <<"LF">>
        BY <1>3, <1>4, <1>5
    <2>3. Len(wire') = 2 => (wire'[2] = "LF" <=> wire'[1] = "CR")
        BY <1>2, <1>3, <1>5
    <2>4. printed'[Len(printed')] = todo[Len(todo)] /\ printed' # <<>>
        BY <1>1, <1>2 DEF UartInv, SendInv
    <2> QED BY <1>3, <1>4, <1>5, <2>1, <2>2, <2>3, <2>4 DEF SendInv
<1> QED BY <1>6, <1>7, <1>8 DEF UartInv

LEMMA UartStep == UartInv /\ [UartNext]_uartVars => UartInv'
<1> SUFFICES ASSUME UartInv, [UartNext]_uartVars PROVE UartInv'
    OBVIOUS
<1>1. ASSUME UNCHANGED <<rxfifo, pRcvMsgBuff, pWritePos, BuffState, arrived, todo, printed, wire>>
      PROVE  FifoIsNewest' /\ RingInv' /\ SendInv' /\ Len(arrived') <= RX_BUFF_SIZE + RxFifo
    BY <1>1 DEF UartInv, FifoIsNewest, RingInv, Back, SendInv
<1>2. CASE RxEnter
    BY <1>1, <1>2 DEF RxEnter, UartInv, UartTypeOK, NoneLeftWaiting, txVars
<1>3. CASE RxLeave
    <2>1. Len(rxfifo') = 0 /\ UNCHANGED <<rxfifo, int_full, pRcvMsgBuff, pWritePos, BuffState, arrived, txVars>>
          /\ handling' \in BOOLEAN
        BY <1>3, EmptySeq DEF RxLeave
    <2>2. NoneLeftWaiting'
        BY <2>1, UartBounds DEF NoneLeftWaiting
    <2> QED BY <1>1, <2>1, <2>2 DEF UartInv, UartTypeOK, txVars
<1>4. CASE TxSend
    BY <1>1, <1>4, UartBounds DEF TxSend, UartInv, UartTypeOK, NoneLeftWaiting, rxVars
<1>5. CASE UNCHANGED uartVars
    BY <1>1, <1>5 DEF UartInv, UartTypeOK, NoneLeftWaiting, uartVars, rxVars, txVars
<1> QED BY <1>2, <1>3, <1>4, <1>5, ArriveStep, WriteStep, RxTakeStep, TxOneStep DEF UartNext

LEMMA UartInvariance == UartSpec => []UartInv
BY UartInitInv, UartStep, PTL DEF UartSpec

-----------------------------------------------------------------------------
LEMMA ModuloBack ==
    ASSUME NEW pos \in 0..RX_BUFF_SIZE-1, NEW k \in 1..RX_BUFF_SIZE
    PROVE  (pos - k) % RX_BUFF_SIZE = Back(pos, k)
BY UartBounds DEF Back

LEMMA UartMeans ==
    ASSUME UartInv
    PROVE  UartKept
<1> DEFINE taken == SubSeq(arrived, 1, Len(arrived) - Len(rxfifo))
<1>1. /\ arrived \in Seq(Char) /\ rxfifo \in Seq(Char)
      /\ Len(arrived) \in Nat /\ Len(rxfifo) \in Nat /\ Len(rxfifo) <= Len(arrived)
    BY LenProperties DEF UartInv, UartTypeOK, FifoIsNewest
<1>2. /\ Len(taken) = Len(arrived) - Len(rxfifo)
      /\ \A i \in 1..Len(taken) : taken[i] = arrived[i]
    <2> DEFINE n == Len(arrived) - Len(rxfifo)
    <2>1. n \in Int /\ 1 \in Int /\ \A i \in 1..n : arrived[i] \in Char
        BY <1>1, ElementOfSeq
    <2> HIDE DEF n
    <2>2. Len(SubSeq(arrived, 1, n)) = (IF 1 <= n THEN n - 1 + 1 ELSE 0)
          /\ \A i \in 1..n - 1 + 1 : SubSeq(arrived, 1, n)[i] = arrived[1 + i - 1]
        BY <2>1, SubSeqProperties
    <2>3. n >= 0
        BY <1>1 DEF n
    <2> QED BY <2>1, <2>2, <2>3 DEF n
<1> HIDE DEF taken
<1>3. RingHoldsLast
    <2>1. ASSUME NEW k \in 1..RX_BUFF_SIZE, k <= Len(taken)
          PROVE  pRcvMsgBuff[(pWritePos - k) % RX_BUFF_SIZE] = taken[Len(taken) - k + 1]
        <3>1. (pWritePos - k) % RX_BUFF_SIZE = Back(pWritePos, k)
            BY ModuloBack DEF UartInv, UartTypeOK
        <3>2. pRcvMsgBuff[Back(pWritePos, k)] = arrived[Len(arrived) - Len(rxfifo) - k + 1]
            BY <1>2, <2>1 DEF UartInv, RingInv
        <3>3. Len(taken) - k + 1 \in 1..Len(taken)
            BY <1>1, <1>2, <2>1, UartBounds
        <3> QED BY <1>2, <3>1, <3>2, <3>3
    <2> QED BY <2>1 DEF RingHoldsLast, taken
<1>4. LineEnds
    BY DEF UartInv, SendInv, LineEnds, Last
<1> QED BY <1>3, <1>4 DEF UartKept, UartInv

\* The ring holds the bytes that came last, none is left in the FIFO without an
\* interrupt, and lines end on the wire as they were printed.
THEOREM UartKeeps == UartSpec => []UartKept
BY UartMeans, UartInvariance, PTL


\* Whatever arrives and is printed, pWritePos stays in the ring.
THEOREM UartTypeCorrect == UartSpec => []UartTypeOK
<1>1. UartInv => UartTypeOK
    BY DEF UartInv
<1> QED BY <1>1, UartInvariance, PTL

-----------------------------------------------------------------------------
(* The SPI driver                                                          *)


\* A call for the slave, made or under way, and a slave that is busy with the one
\* before exclude each other; and what the handler has read is what it clears.
OneAtATime ==
    /\ step = "wait" /\ request.kind \in {"write", "read"} => ~SlaveBusy
    /\ spi_usr /\ sending.kind \in {"write", "read"} => slv = {} /\ isr = "out"
    /\ isr = "clear" => slv = regvalue
    /\ isr \in {"write", "copy", "read"} => slv = {}

\* Where the byte last written is: in the master's buffer, in the slave's, or taken.
OnTheWire == spi_usr /\ sending.kind = "write"

Arrived == "WR" \in slv \/ isr \in {"write", "copy"}

WrittenInv ==
    /\ OnTheWire => sending.data = written
    /\ Arrived => w_in = written
    /\ ~OnTheWire /\ ~Arrived => spi_data = written

\* Whether what was prepared is read, and GPIO2 does not tell so yet.
ReadNotTold == "RD" \in slv \/ (isr \notin {"out", "clear"} /\ "RD" \in regvalue)

LineInv ==
    /\ gpio2 = 1 => miso = "out"
    /\ step = "wait" /\ request.kind = "read" => gpio2 = 1
    /\ spi_usr /\ sending.kind = "read" => gpio2 = 1
    /\ ReadNotTold => gpio2 = 1 /\ ~unread
    /\ ~ReadNotTold /\ miso = "out" => (gpio2 = 1 <=> unread)
    /\ miso = "fill" => ~unread
    /\ miso = "raise" => unread

SlaveAgrees == OneAtATime /\ WrittenInv /\ LineInv

\* Only nine bits of a display are more than a byte.
CallInv == /\ request.kind # "lcd" => request.data < 256
           /\ sending.kind # "lcd" => sending.data < 256

\* spi_byte_read_espslave stays until its transfer is over.
ReadWaits == spi_usr /\ sending.kind = "read" => step = "reply"

\* No initialisation met the write under way.
UnspoiledWrite == spi_usr /\ sending.kind = "write" => ~spoiled

SpiInv ==
    /\ SpiTypeOK /\ CallInv /\ ReadWaits /\ FrameIsAsked
    /\ crossed \/ (SlaveAgrees /\ UnspoiledWrite)

-----------------------------------------------------------------------------
(* The command of a transfer                                               *)

LEMMA Halved ==
    ASSUME NEW data \in 0..511
    PROVE  data \div 2 \in 0..255 /\ data % 2 \in {0, 1} /\ data = 2 * (data \div 2) + (data % 2)
OBVIOUS

LEMMA WordIs == \A c \in Int : c \in Word <=> 0 <= c /\ c <= 65535
BY DEF Word

LEMMA NineBits ==
    ASSUME NEW upper \in 0..255, NEW low \in {0, 1}
    PROVE  /\ upper + 32768 * low \in Word
           /\ (upper + 32768 * low) % 256 = upper
           /\ (upper + 32768 * low) \div 32768 = low
<1>0. upper \in Int /\ 0 <= upper /\ upper <= 255
    OBVIOUS
<1>1. CASE low = 0
    <2>1. upper + 32768 * low = upper
        BY <1>0, <1>1
    <2>2. upper \in Word
        BY <1>0, WordIs
    <2>3. upper % 256 = upper /\ upper \div 32768 = 0
        BY <1>0
    <2> QED BY <1>1, <2>1, <2>2, <2>3
<1>2. CASE low = 1
    <2> DEFINE command == upper + 32768
    <2>1. upper + 32768 * low = command
        BY <1>0, <1>2
    <2>2. command \in Int /\ 0 <= command /\ command <= 65535
        BY <1>0
    <2>3. command % 256 = upper /\ command \div 32768 = 1
        BY <1>0
    <2> HIDE DEF command
    <2>4. command \in Word
        BY <2>2, WordIs
    <2> QED BY <1>2, <2>1, <2>3, <2>4
<1> QED BY <1>1, <1>2

\* The command has the 16 bits of its register, and spi_lcd_9bit_write's is taken
\* for the nine bits it was given.
LEMMA CommandFacts ==
    ASSUME NEW kind \in Kind, NEW data \in 0..511, kind # "lcd" => data < 256
    PROVE  /\ Command(kind, data) \in Word
           /\ kind = "byte" => Command(kind, data) = data
           /\ kind = "write" => Command(kind, data) = 4
           /\ kind = "read" => Command(kind, data) = 6
           /\ kind = "lcd" => 2 * (Command(kind, data) % 256) + (Command(kind, data) \div 32768) = data
<1>1. CASE kind = "lcd"
    <2> DEFINE upper == data \div 2
               low == data % 2
    <2>1. upper \in 0..255 /\ low \in {0, 1} /\ data = 2 * upper + low
        BY Halved
    <2>2. Command(kind, data) = upper + 32768 * low
        BY <1>1 DEF Command
    <2> HIDE DEF upper, low
    <2>3. Command(kind, data) \in Word
          /\ Command(kind, data) % 256 = upper /\ Command(kind, data) \div 32768 = low
        BY <2>1, <2>2, NineBits
    <2>4. 2 * (Command(kind, data) % 256) + (Command(kind, data) \div 32768) = data
        BY <2>1, <2>3
    <2> QED BY <1>1, <2>3, <2>4
<1>2. CASE kind # "lcd"
    <2>1. Command(kind, data) \in {data, 4, 6}
        BY <1>2 DEF Command, Kind
    <2>2. \A c \in {data, 4, 6} : c \in Word
        BY <1>2, WordIs
    <2>3. Command(kind, data) \in Word
        BY <2>1, <2>2
    <2>4. /\ kind = "byte" => Command(kind, data) = data
          /\ kind = "write" => Command(kind, data) = 4
          /\ kind = "read" => Command(kind, data) = 6
        BY DEF Command
    <2> QED BY <1>2, <2>3, <2>4
<1> QED BY <1>1, <1>2

-----------------------------------------------------------------------------
(* The invariant                                                           *)

LEMMA SpiInitInv == SpiInit => SpiInv
<1> SUFFICES ASSUME SpiInit PROVE SpiInv
    OBVIOUS
<1> USE DEF SpiInit, MasterInit, SlaveInit, GpioInit
<1>1. user2 \in Word /\ request \in [kind : Kind, data : 0..511] /\ sending = request
    <2>1. 0 \in Word
        BY WordIs
    <2> QED BY <2>1 DEF Kind
<1>2. SpiTypeOK
    <2>1. user \subseteq {"MOSI", "MISO"} /\ slv \subseteq {"WR", "RD"}
          /\ regvalue \subseteq {"WR", "RD"}
        OBVIOUS
    <2>2. spi_usr \in BOOLEAN /\ unread \in BOOLEAN /\ crossed \in BOOLEAN /\ spoiled \in BOOLEAN
        BY Zenon
    <2>3. /\ w0 \in 0..255 /\ temp \in 0..255 /\ w_in \in 0..255 /\ w_out \in 0..255
          /\ spi_data \in 0..255 /\ written \in 0..255
          /\ gpio0 \in {0, 1} /\ gpio2 \in {0, 1}
        OBVIOUS
    <2>4. /\ step \in {"wait", "reply", "returned"}
          /\ isr \in {"out", "clear", "write", "copy", "read"}
          /\ miso \in {"out", "fill", "raise"}
        OBVIOUS
    <2> QED BY <1>1, <2>1, <2>2, <2>3, <2>4 DEF SpiTypeOK
<1>3. CallInv /\ ReadWaits /\ FrameIsAsked
    BY DEF CallInv, ReadWaits, FrameIsAsked
<1>4. OneAtATime
    BY DEF OneAtATime, SlaveBusy
<1>5. WrittenInv
    BY DEF WrittenInv, OnTheWire, Arrived
<1>6. LineInv
    BY DEF LineInv, ReadNotTold
<1> QED BY <1>2, <1>3, <1>4, <1>5, <1>6 DEF SpiInv, SlaveAgrees, UnspoiledWrite

\* The types, and the registers of the transfer under way
FrameInv == SpiTypeOK /\ CallInv /\ ReadWaits /\ FrameIsAsked

LEMMA FrameKept ==
    ASSUME FrameIsAsked, UNCHANGED <<user, user2, w0, spi_usr, sending, spoiled>>
    PROVE  FrameIsAsked'
<1>1. Carried' = Carried
    BY DEF Carried
<1> QED BY <1>1 DEF FrameIsAsked

LEMMA SpiCallFrame ==
    ASSUME FrameInv, SpiCall
    PROVE  FrameInv'
<1>1. request' \in [kind : Kind, data : 0..511] /\ (request'.kind # "lcd" => request'.data < 256)
    BY SpiAssumption DEF SpiCall
<1>2. step' = "wait" /\ crossed' \in BOOLEAN
    BY DEF SpiCall
<1>3. SpiTypeOK'
    BY <1>1, <1>2 DEF FrameInv, SpiTypeOK, SpiCall, slaveVars, handlerVars
<1>4. CallInv'
    BY <1>1 DEF FrameInv, CallInv, SpiCall
<1>5. FrameIsAsked'
    BY FrameKept DEF FrameInv, SpiCall
<1>6. ReadWaits'
    BY DEF FrameInv, ReadWaits, SpiCall
<1> QED BY <1>3, <1>4, <1>5, <1>6 DEF FrameInv

LEMMA TransferFrame ==
    ASSUME FrameInv, Transfer
    PROVE  FrameInv'
<1> DEFINE kind == request.kind
           data == request.data
<1>1. kind \in Kind /\ data \in 0..511 /\ (kind # "lcd" => data < 256)
      /\ request = [kind |-> kind, data |-> data]
    <2>1. request \in [kind : Kind, data : 0..511]
        BY DEF FrameInv, SpiTypeOK
    <2>2. kind # "lcd" => data < 256
        BY DEF FrameInv, CallInv
    <2> QED BY <2>1, <2>2
<1>2. sending' = request /\ user2' = Command(kind, data) /\ user' = Phases(kind) /\ request' = request
    <2>1. sending' = request /\ request' = request
        BY DEF Transfer
    <2>2. user2' = Command(request.kind, request.data) /\ user' = Phases(request.kind)
        BY Zenon DEF Transfer
    <2> QED BY <2>1, <2>2
<1> HIDE DEF kind, data
<1>3. user2' \in Word
      /\ (kind = "byte" => user2' = data)
      /\ (kind = "write" => user2' = 4)
      /\ (kind = "read" => user2' = 6)
      /\ (kind = "lcd" => 2 * (user2' % 256) + (user2' \div 32768) = data)
    BY <1>1, <1>2, CommandFacts
<1>4. user' \subseteq {"MOSI", "MISO"}
      /\ (kind = "byte" => user' = {})
      /\ (kind = "write" => user' = {"MOSI"})
      /\ (kind = "read" => user' = {"MISO"})
    BY <1>1, <1>2 DEF Phases, Kind, FrameInv, SpiTypeOK
<1>5. w0' \in 0..255 /\ written' \in 0..255 /\ (kind = "write" => w0' = data)
    BY <1>1 DEF Transfer, FrameInv, SpiTypeOK, kind, data
<1>6. SpiTypeOK'
    <2>1. spoiled' \in BOOLEAN /\ spi_usr' \in BOOLEAN /\ crossed' \in BOOLEAN
        BY DEF Transfer, FrameInv, SpiTypeOK
    <2> QED
        BY <1>2, <1>3, <1>4, <1>5, <2>1 DEF FrameInv, SpiTypeOK, Transfer, slaveVars, handlerVars
<1>7. CallInv'
    BY <1>2 DEF FrameInv, CallInv
<1>8. FrameIsAsked'
    <2>1. sending'.kind = kind /\ sending'.data = data
        BY <1>2 DEF kind, data
    <2>2. kind = "byte" => user' = {} /\ Carried' = sending'.data
        BY <2>1, <1>3, <1>4 DEF Carried
    <2>3. kind = "lcd" => Carried' = sending'.data
        BY <2>1, <1>3 DEF Carried
    <2>4. kind = "write" => user' = {"MOSI"} /\ user2' = 4 /\ w0' = sending'.data
        BY <2>1, <1>3, <1>4, <1>5
    <2>5. kind = "read" => user' = {"MISO"} /\ user2' = 6
        BY <1>3, <1>4
    <2> QED BY <1>1, <2>1, <2>2, <2>3, <2>4, <2>5 DEF FrameIsAsked, Kind
<1>9. ReadWaits'
    BY DEF Transfer, ReadWaits
<1> QED BY <1>6, <1>7, <1>8, <1>9 DEF FrameInv

LEMMA TransferredFrame ==
    ASSUME FrameInv, Transferred
    PROVE  FrameInv'
<1>1. /\ w0' \in {w0, w_out} /\ w_in' \in {w_in, w0}
      /\ slv' \in {slv, slv \cup {"WR"}, slv \cup {"RD"}}
      /\ unread' \in {unread, FALSE}
    BY DEF Transferred
<1>2. UNCHANGED <<user, user2, request, sending, step, temp, spoiled, w_out, miso, gpio2,
                  handlerVars, written, crossed>> /\ spi_usr' = FALSE
    BY DEF Transferred
<1>3. SpiTypeOK'
    <2>1. w0' \in 0..255 /\ w_in' \in 0..255
        BY <1>1 DEF FrameInv, SpiTypeOK
    <2>2. slv' \subseteq {"WR", "RD"}
        BY <1>1 DEF FrameInv, SpiTypeOK
    <2>3. unread' \in BOOLEAN /\ spi_usr' \in BOOLEAN
        BY <1>1, <1>2 DEF FrameInv, SpiTypeOK
    <2> QED BY <1>2, <2>1, <2>2, <2>3 DEF FrameInv, SpiTypeOK, handlerVars
<1>4. CallInv' /\ ReadWaits' /\ FrameIsAsked'
    BY <1>2 DEF FrameInv, CallInv, ReadWaits, FrameIsAsked
<1> QED BY <1>3, <1>4 DEF FrameInv

\* What the slave does touches no register of the master.
Slaves == \/ IsrEnter \/ IsrClear \/ IsrWrite \/ IsrCopy \/ IsrRead
          \/ MisoEnter \/ MisoFill \/ MisoRaise

LEMMA SlaveKeepsMaster == Slaves => UNCHANGED <<masterVars, written, crossed>>
BY DEF Slaves, IsrEnter, IsrClear, IsrWrite, IsrCopy, IsrRead, MisoEnter, MisoFill, MisoRaise

LEMMA SlaveFrame ==
    ASSUME FrameInv, Slaves
    PROVE  FrameInv'
<1>1. SpiTypeOK'
    <2> USE DEF FrameInv, SpiTypeOK, masterVars, slaveVars, handlerVars
    <2>1. CASE IsrEnter
        BY <2>1 DEF IsrEnter
    <2>2. CASE IsrClear
        BY <2>2 DEF IsrClear
    <2>3. CASE IsrWrite
        BY <2>3 DEF IsrWrite
    <2>4. CASE IsrCopy
        BY <2>4 DEF IsrCopy
    <2>5. CASE IsrRead
        BY <2>5 DEF IsrRead
    <2>6. CASE MisoEnter
        BY <2>6 DEF MisoEnter
    <2>7. CASE MisoFill
        BY <2>7, SpiAssumption DEF MisoFill
    <2>8. CASE MisoRaise
        BY <2>8 DEF MisoRaise
    <2> QED BY <2>1, <2>2, <2>3, <2>4, <2>5, <2>6, <2>7, <2>8 DEF Slaves
<1>2. CallInv' /\ ReadWaits' /\ FrameIsAsked'
    BY SlaveKeepsMaster, FrameKept DEF FrameInv, CallInv, ReadWaits, masterVars
<1> QED BY <1>1, <1>2 DEF FrameInv


LEMMA FrameStep == FrameInv /\ [SpiNext]_spiVars => FrameInv'
<1> SUFFICES ASSUME FrameInv, [SpiNext]_spiVars PROVE FrameInv'
    OBVIOUS
<1>1. CASE Reply
    <2>1. temp' = w0 /\ step' = "returned"
          /\ UNCHANGED <<user, user2, w0, spi_usr, request, sending, spoiled, slaveVars, written,
                         crossed>>
        BY <1>1 DEF Reply
    <2>2. SpiTypeOK'
        BY <2>1 DEF FrameInv, SpiTypeOK, slaveVars, handlerVars
    <2>3. ReadWaits'
        BY <1>1, <2>1 DEF Reply, Available, ReadWaits
    <2> QED BY <2>1, <2>2, <2>3, FrameKept DEF FrameInv, CallInv
<1>2. CASE Reinit
    <2>1. /\ user' \in {user, user \cup {"MOSI"}} /\ spoiled' = spi_usr
          /\ crossed' = (crossed \/ (spi_usr /\ sending.kind = "write"))
          /\ UNCHANGED <<user2, w0, spi_usr, request, sending, step, temp, slaveVars, written>>
        BY <1>2 DEF Reinit
    <2>2. user' \subseteq {"MOSI", "MISO"}
        BY <2>1 DEF FrameInv, SpiTypeOK
    <2>3. spoiled' \in BOOLEAN /\ crossed' \in BOOLEAN
        BY <2>1 DEF FrameInv, SpiTypeOK
    <2>4. SpiTypeOK'
        BY <2>1, <2>2, <2>3 DEF FrameInv, SpiTypeOK, slaveVars, handlerVars
    <2>5. CallInv'
        BY <2>1 DEF FrameInv, CallInv
    <2>6. FrameIsAsked'
        <3>1. ~(spi_usr /\ sending.kind = "read")
            BY <1>2 DEF FrameInv, ReadWaits, Reinit
        <3>2. Carried' = Carried
            BY <2>1 DEF Carried
        <3>3. sending.kind \in Kind
            BY DEF FrameInv, SpiTypeOK
        <3> QED BY <2>1, <3>1, <3>2, <3>3 DEF FrameInv, FrameIsAsked, Kind
    <2>7. ReadWaits'
        BY <2>1 DEF FrameInv, ReadWaits
    <2> QED BY <2>4, <2>5, <2>6, <2>7 DEF FrameInv
<1>3. CASE UNCHANGED spiVars
    <2>1. UNCHANGED <<masterVars, slaveVars, written, crossed>>
        BY <1>3 DEF spiVars
    <2>2. SpiTypeOK'
        BY <2>1 DEF FrameInv, SpiTypeOK, masterVars, slaveVars, handlerVars
    <2> QED BY <2>1, <2>2, FrameKept DEF FrameInv, CallInv, ReadWaits, masterVars
<1> QED BY <1>1, <1>2, <1>3, SpiCallFrame, TransferFrame, TransferredFrame, SlaveFrame
        DEF SpiNext, Slaves

-----------------------------------------------------------------------------
(* The slave in step with the master                                       *)

\* The values its steps tell apart
StepType == /\ spi_usr \in BOOLEAN /\ unread \in BOOLEAN /\ crossed \in BOOLEAN
            /\ slv \subseteq {"WR", "RD"} /\ regvalue \subseteq {"WR", "RD"}
            /\ isr \in {"out", "clear", "write", "copy", "read"}
            /\ miso \in {"out", "fill", "raise"}
            /\ gpio2 \in {0, 1}
            /\ request.kind \in Kind /\ sending.kind \in Kind

LEMMA StepTypes == SpiTypeOK => StepType
BY DEF SpiTypeOK, StepType

LEMMA CallInStep ==
    ASSUME StepType, SpiCall, SlaveAgrees, ~crossed'
    PROVE  SlaveAgrees'
<1>1. PICK kind \in Kind, data \in Sent :
          /\ kind = "read" => gpio2 = 1
          /\ request' = [kind |-> kind, data |-> data]
    BY DEF SpiCall
<1>2. request'.kind = kind
    BY <1>1
<1>3. kind \in {"write", "read"} => ~SlaveBusy
    BY <1>2 DEF SpiCall
<1>4. step' = "wait" /\ UNCHANGED <<spi_usr, sending, slaveVars, written>>
    BY DEF SpiCall
<1>5. OneAtATime'
    BY <1>2, <1>3, <1>4 DEF SlaveAgrees, OneAtATime, SlaveBusy, slaveVars, handlerVars
<1>6. WrittenInv'
    BY <1>4 DEF SlaveAgrees, WrittenInv, OnTheWire, Arrived, slaveVars, handlerVars
<1>7. LineInv'
    BY <1>1, <1>2, <1>4 DEF SlaveAgrees, LineInv, ReadNotTold, slaveVars, handlerVars
<1> QED BY <1>5, <1>6, <1>7 DEF SlaveAgrees

LEMMA TransferInStep ==
    ASSUME StepType, Transfer, SlaveAgrees
    PROVE  SlaveAgrees'
<1>1. /\ step = "wait" /\ ~spi_usr /\ spi_usr'
      /\ sending' = request /\ request' = request
      /\ step' \in {"reply", "returned"}
      /\ IF request.kind = "write" THEN written' = request.data ELSE written' = written
      /\ UNCHANGED slaveVars
    BY DEF Transfer, Available
<1>2. OneAtATime'
    BY <1>1 DEF SlaveAgrees, OneAtATime, SlaveBusy, slaveVars, handlerVars
<1>3. WrittenInv'
    BY <1>1 DEF SlaveAgrees, OneAtATime, SlaveBusy, WrittenInv, OnTheWire, Arrived, slaveVars, handlerVars
<1>4. LineInv'
    BY <1>1 DEF SlaveAgrees, LineInv, ReadNotTold, slaveVars, handlerVars
<1> QED BY <1>2, <1>3, <1>4 DEF SlaveAgrees

\* The byte of a write reaches the slave, and a read takes what was prepared.
LEMMA TransferredInStep ==
    ASSUME FrameInv, StepType, Transferred, SlaveAgrees, UnspoiledWrite
    PROVE  SlaveAgrees'
<1> DEFINE writes == sending.kind = "write"
           reads == sending.kind = "read"
<1>1. spi_usr /\ ~spi_usr'
      /\ UNCHANGED <<request, sending, step, miso, gpio2, handlerVars, written>>
    BY DEF Transferred
<1>2. /\ writes => w_in' = w0 /\ slv' = slv \cup {"WR"} /\ unread' = unread
      /\ reads => slv' = slv \cup {"RD"} /\ unread' = FALSE /\ w_in' = w_in
      /\ ~writes /\ ~reads => UNCHANGED <<w_in, slv, unread>>
    BY <1>1 DEF FrameInv, FrameIsAsked, Transferred, UnspoiledWrite
<1>3. writes => w0 = sending.data
    BY <1>1 DEF FrameInv, FrameIsAsked
<1>4. OneAtATime'
    BY <1>1, <1>2 DEF SlaveAgrees, OneAtATime, SlaveBusy, handlerVars, StepType, Kind
<1>5. WrittenInv'
    BY <1>1, <1>2, <1>3 DEF SlaveAgrees, OneAtATime, WrittenInv, OnTheWire, Arrived, handlerVars
<1>6. LineInv'
    BY <1>1, <1>2 DEF SlaveAgrees, OneAtATime, LineInv, ReadNotTold, handlerVars
<1> QED BY <1>4, <1>5, <1>6 DEF SlaveAgrees

LEMMA SlaveInStepStep ==
    ASSUME StepType, Slaves, SlaveAgrees
    PROVE  SlaveAgrees'
<1>1. UNCHANGED <<spi_usr, request, sending, step, written>>
    BY SlaveKeepsMaster DEF masterVars
<1> USE DEF SlaveAgrees, StepType, handlerVars
<1>2. CASE IsrEnter
    <2> USE <1>1, <1>2 DEF IsrEnter
    <2>1. OneAtATime'
        BY DEF OneAtATime, SlaveBusy
    <2>2. WrittenInv'
        BY DEF WrittenInv, OnTheWire, Arrived
    <2>3. LineInv'
        BY DEF LineInv, ReadNotTold
    <2> QED BY <2>1, <2>2, <2>3
<1>3. CASE IsrClear
    <2> USE <1>1, <1>3 DEF IsrClear
    <2>1. OneAtATime'
        BY DEF OneAtATime, SlaveBusy
    <2>2. WrittenInv'
        BY DEF OneAtATime, WrittenInv, OnTheWire, Arrived
    <2>3. LineInv'
        BY DEF OneAtATime, LineInv, ReadNotTold
    <2> QED BY <2>1, <2>2, <2>3
<1>4. CASE IsrWrite
    <2> USE <1>1, <1>4 DEF IsrWrite
    <2>1. OneAtATime'
        BY DEF OneAtATime, SlaveBusy
    <2>2. WrittenInv'
        BY DEF WrittenInv, OnTheWire, Arrived
    <2>3. LineInv'
        BY DEF LineInv, ReadNotTold
    <2> QED BY <2>1, <2>2, <2>3
<1>5. CASE IsrCopy
    <2> USE <1>1, <1>5 DEF IsrCopy
    <2>1. OneAtATime'
        BY DEF OneAtATime, SlaveBusy
    <2>2. WrittenInv'
        BY DEF OneAtATime, WrittenInv, OnTheWire, Arrived
    <2>3. LineInv'
        BY DEF LineInv, ReadNotTold
    <2> QED BY <2>1, <2>2, <2>3
<1>6. CASE IsrRead
    <2> USE <1>1, <1>6 DEF IsrRead
    <2>1. OneAtATime'
        BY DEF OneAtATime, SlaveBusy
    <2>2. WrittenInv'
        BY DEF WrittenInv, OnTheWire, Arrived
    <2>3. LineInv'
        BY DEF OneAtATime, SlaveBusy, LineInv, ReadNotTold
    <2> QED BY <2>1, <2>2, <2>3
<1>7. CASE MisoEnter \/ MisoFill \/ MisoRaise
    <2>1. UNCHANGED <<slv, w_in, handlerVars>> /\ isr = "out"
        BY <1>7 DEF MisoEnter, MisoFill, MisoRaise
    <2>2. OneAtATime'
        BY <1>1, <2>1 DEF OneAtATime, SlaveBusy
    <2>3. WrittenInv'
        BY <1>1, <2>1 DEF WrittenInv, OnTheWire, Arrived
    <2>4. LineInv'
        BY <1>1, <1>7, <2>1 DEF MisoEnter, MisoFill, MisoRaise, LineInv, ReadNotTold
    <2> QED BY <2>2, <2>3, <2>4
<1> QED BY <1>2, <1>3, <1>4, <1>5, <1>6, <1>7 DEF Slaves

LEMMA QuietInStep ==
    ASSUME SlaveAgrees, Reply \/ Reinit \/ UNCHANGED spiVars
    PROVE  SlaveAgrees'
<1>1. /\ UNCHANGED <<spi_usr, request, sending, slaveVars, written>>
      /\ step' = step \/ step' = "returned"
    BY DEF Reply, Reinit, spiVars, masterVars
<1>2. OneAtATime'
    BY <1>1 DEF SlaveAgrees, OneAtATime, SlaveBusy, slaveVars, handlerVars
<1>3. WrittenInv'
    BY <1>1 DEF SlaveAgrees, WrittenInv, OnTheWire, Arrived, slaveVars, handlerVars
<1>4. LineInv'
    BY <1>1 DEF SlaveAgrees, LineInv, ReadNotTold, slaveVars, handlerVars
<1> QED BY <1>2, <1>3, <1>4 DEF SlaveAgrees

LEMMA CrossedStays == [SpiNext]_spiVars /\ crossed => crossed'
BY SlaveKeepsMaster DEF SpiNext, Slaves, SpiCall, Transfer, Reply, Reinit, Transferred, spiVars

LEMMA UnspoiledStep ==
    ASSUME [SpiNext]_spiVars, UnspoiledWrite, StepType, ~crossed'
    PROVE  UnspoiledWrite'
<1>1. CASE Transfer \/ Transferred
    BY <1>1 DEF Transfer, Transferred, UnspoiledWrite
<1>2. CASE Reinit
    <2>1. ~(spi_usr /\ sending.kind = "write") /\ UNCHANGED <<spi_usr, sending>>
        BY <1>2 DEF Reinit
    <2> QED BY <2>1 DEF UnspoiledWrite
<1>3. CASE SpiCall \/ Reply \/ Slaves \/ UNCHANGED spiVars
    <2>1. UNCHANGED <<spi_usr, sending, spoiled>>
        BY <1>3, SlaveKeepsMaster DEF SpiCall, Reply, spiVars, masterVars
    <2> QED BY <2>1 DEF UnspoiledWrite
<1> QED BY <1>1, <1>2, <1>3 DEF SpiNext, Slaves

LEMMA SpiStep == SpiInv /\ [SpiNext]_spiVars => SpiInv'
<1> SUFFICES ASSUME SpiInv, [SpiNext]_spiVars PROVE SpiInv'
    OBVIOUS
<1>1. FrameInv /\ FrameInv' /\ StepType
    BY FrameStep, StepTypes DEF SpiInv, FrameInv
<1>2. ASSUME ~crossed' PROVE SlaveAgrees' /\ UnspoiledWrite'
    <2>1. SlaveAgrees /\ UnspoiledWrite
        BY <1>2, CrossedStays DEF SpiInv
    <2>2. UnspoiledWrite'
        BY <1>1, <1>2, <2>1, UnspoiledStep
    <2>3. SlaveAgrees'
        BY <1>1, <1>2, <2>1, CallInStep, TransferInStep, TransferredInStep, SlaveInStepStep,
           QuietInStep DEF SpiNext, Slaves
    <2> QED BY <2>2, <2>3
<1> QED BY <1>1, <1>2 DEF SpiInv, FrameInv

LEMMA SpiInvariance == SpiSpec => []SpiInv
BY SpiInitInv, SpiStep, PTL DEF SpiSpec

-----------------------------------------------------------------------------
\* SPI_USER2 keeps its 16 bits and each buffer its bytes.
THEOREM SpiTypeCorrect == SpiSpec => []SpiTypeOK
<1>1. SpiInv => SpiTypeOK
    BY DEF SpiInv
<1> QED BY <1>1, SpiInvariance, PTL

\* Every transfer puts on the wire what its call asked for, whatever the calls
\* before have left in SPI_USER, SPI_USER2 and SPI_W0.
THEOREM FrameRight == SpiSpec => []FrameIsAsked
<1>1. SpiInv => FrameIsAsked
    BY DEF SpiInv
<1> QED BY <1>1, SpiInvariance, PTL

LEMMA InStepMeans ==
    ASSUME SpiInv
    PROVE  SlaveInStep
<1>1. CASE crossed
    BY <1>1 DEF SlaveInStep, WrittenIsTaken, LineTellsUnread
<1>2. CASE SlaveAgrees
    BY <1>2 DEF SlaveAgrees, WrittenInv, LineInv, OnTheWire, Arrived, ReadNotTold,
                SlaveInStep, WrittenIsTaken, LineTellsUnread, SlaveBusy
<1> QED BY <1>1, <1>2 DEF SpiInv

\* The handler has the byte last written, and GPIO2 tells of what is prepared and
\* not read, once it is through.
THEOREM SlaveKeepsUp == SpiSpec => []SlaveInStep
BY InStepMeans, SpiInvariance, PTL

\* No call that sends changes a register of a transfer under way, and the
\* initialisations at most its phases.
THEOREM HoldsRegisters == SpiSpec => RegistersHeld
<1> DEFINE RegistersStay == UNCHANGED <<user2, w0>> /\ (~spoiled' => UNCHANGED user)
<1>1. [SpiNext]_spiVars => [spi_usr /\ spi_usr' => RegistersStay]_spiVars
    <2> SUFFICES ASSUME SpiNext, spi_usr, spi_usr' PROVE RegistersStay
        OBVIOUS
    <2>1. CASE Reinit
        BY <2>1 DEF Reinit
    <2>2. CASE ~Reinit
        BY <2>2, SlaveKeepsMaster
           DEF SpiNext, Slaves, masterVars, SpiCall, Transfer, Available, Reply, Transferred
    <2> QED BY <2>1, <2>2
<1> QED BY <1>1, PTL DEF SpiSpec, RegistersHeld

-----------------------------------------------------------------------------
(* The drivers together                                                    *)

driverVars == <<driver, vars, pwmVars, i2cVars, spiVars, uartVars>>

\* A step is one of the driver that runs, and the others stay.
LEMMA DriverStep ==
    [DriversNext]_driverVars =>
        /\ [Next]_vars /\ [PwmNext]_pwmVars /\ [I2cNext]_i2cVars
        /\ [SpiNext]_spiVars /\ [UartNext]_uartVars
BY DEF DriversNext, driverVars

\* The drivers together are each driver as it was specified alone.
LEMMA DriversAlone == DriversSpec => Spec /\ PwmSpec /\ I2cSpec /\ SpiSpec /\ UartSpec
<1>1. DriversInit => Init /\ PwmInit /\ I2cInit /\ SpiInit /\ UartInit
    BY DEF DriversInit
<1> QED
    BY <1>1, DriverStep, PTL
       DEF DriversSpec, driverVars, Spec, PwmSpec, I2cSpec, SpiSpec, UartSpec

\* Whatever the drivers do, their variables keep the types their files declare:
\* pwm.c's tables and 16-bit times, the registers of spi.c, the ring of uart.c.
THEOREM DriversTypeCorrect == DriversSpec => []DriversTypeOK
<1>1. TypeOK /\ PwmTypeOK /\ I2cTypeOK /\ SpiTypeOK /\ UartTypeOK => DriversTypeOK
    BY DEF DriversTypeOK
<1> QED
    BY <1>1, DriversAlone, KeyTypeCorrect, PwmTypeCorrect, I2cTypeCorrect, SpiTypeCorrect,
       UartTypeCorrect, PTL

\* What the drivers promise they promise together: the key's presses, the bytes on
\* the I2C bus, the frames of the SPI, the ring and the lines of the UART.
THEOREM DriversKeep ==
    DriversSpec => []( /\ Resynchronises /\ LongPressIsOne /\ PressFires
                       /\ TransferKept /\ FrameIsAsked /\ SlaveInStep /\ UartKept)
BY DriversAlone, InStepAgain, OnePress, InTime, TransferKeeps, FrameRight, SlaveKeepsUp, UartKeeps,
   PTL

\* And no step of theirs does what it may not: no bit on the I2C bus is a start or
\* a stop, no call that sends changes the registers of an SPI transfer, and no
\* period of the PWM ends with a pin that was high longer or shorter than its duty.
THEOREM DriversAct == DriversSpec => BitsAreNoConditions /\ RegistersHeld /\ PlayedRightly
BY DriversAlone, NoConditions, HoldsRegisters, PwmPlaysRightly, PTL
=============================================================================
