----------------------- MODULE SamplingCycle_proofs ------------------------
(***************************************************************************)
(* Proofs about the duty cycle, for every number of measurements a batch   *)
(* has and every set of values a measurement can have.                     *)
(***************************************************************************)
EXTENDS SamplingCycle, TLAPS

\* The first k entries of data[] are the last k measurements recorded.
Holds(data, k) == \A i \in 0..k-1 : data[i] = last[N - k + i]

\* What RTC memory and its copy in RAM hold, at each point of data_func.
MemInv ==
    /\ rtc.magic => Holds(rtc.data, rtc.cnt)
    /\ pc = "flushed" => sensor_data.magic /\ sensor_data.cnt = 0
    /\ pc = "measured" => /\ sensor_data.magic
                          /\ sensor_data.cnt \in 1..N
                          /\ Holds(sensor_data.data, sensor_data.cnt - 1)
    /\ pc \in {"recorded", "ready", "upload"} => sensor_data = rtc /\ rtc.magic
    /\ pc = "upload" => sensor_data.cnt = N
    /\ pc = "config" => ~rtc.magic

\* The option for the next wake, and the radio of this boot, by the progress of
\* the cycle: the boot that finds N - 1 measurements has the radio.
RadioInv ==
    /\ ~rtc.magic => option = "DEFAULT"
    /\ pc = "boot" /\ (~rtc.magic \/ rtc.cnt = N - 1) => radio
    /\ pc \in {"measured", "recorded", "ready"} /\ sensor_data.cnt = N => radio
    /\ pc = "ready" /\ sensor_data.cnt = N - 1 => option = "NORMAL"
    /\ pc = "asleep" /\ rtc.magic /\ rtc.cnt = N - 1 => option = "NORMAL"
    /\ pc \in {"upload", "config"} => radio

\* The measurements of the cycle in progress are in no batch yet.
UnsentInv ==
    /\ rtc.magic /\ rtc.cnt < N => unsent >= rtc.cnt
    /\ pc = "measured" => unsent >= sensor_data.cnt - 1
    /\ pc \in {"recorded", "ready"} => unsent >= sensor_data.cnt

IInv == TypeOK /\ MemInv /\ RadioInv /\ UnsentInv

-----------------------------------------------------------------------------
LEMMA NFacts == /\ N \in Nat /\ N >= 2
                /\ MaxCnt \in Nat /\ MaxCnt > N
BY SamplingAssumption

\* Shift keeps the window a window.
LEMMA ShiftType ==
    ASSUME NEW w \in [Index -> Sample], NEW v \in Sample
    PROVE  Shift(w, v) \in [Index -> Sample]
BY NFacts DEF Shift, Index

\* The window after recording data[k - 1] = v on top of k - 1 measurements.
LEMMA ShiftHolds ==
    ASSUME TypeOK, NEW data \in [Index -> Sample], NEW k \in 1..N,
           Holds(data, k - 1), last' = Shift(last, data[k - 1])
    PROVE  \A i \in 0..k-1 : data[i] = last'[N - k + i]
<1> SUFFICES ASSUME NEW i \in 0..k-1 PROVE data[i] = last'[N - k + i]
    OBVIOUS
<1>1. N - k + i \in Index
    BY NFacts DEF Index
<1>2. CASE i = k - 1
    BY <1>1, <1>2, NFacts DEF Shift
<1>3. CASE i # k - 1
  <2>1. i \in 0..(k - 1)-1 /\ N - k + i # N - 1
    BY <1>3, NFacts
  <2>2. data[i] = last[N - (k - 1) + i]
    BY <2>1 DEF Holds
  <2>3. last'[N - k + i] = last[N - k + i + 1]
    BY <1>1, <2>1 DEF Shift
  <2>4. N - (k - 1) + i = N - k + i + 1
    BY NFacts
  <2> QED
    BY <2>2, <2>3, <2>4
<1> QED
    BY <1>2, <1>3

\* The initial states: no power, random RTC memory.
LEMMA InitIInv == Init => IInv
<1> SUFFICES ASSUME Init PROVE IInv
    OBVIOUS
<1>1. rtc \in RtcMem /\ ~rtc.magic
    BY DEF Init, RandomRtc
<1>2. TypeOK
  <2>1. active \in BOOLEAN /\ radio \in BOOLEAN
    BY DEF Init
  <2> QED
    BY <1>1, <2>1, NFacts DEF Init, TypeOK, InRange, Running
<1>3. MemInv /\ RadioInv /\ UnsentInv
    BY <1>1 DEF Init, MemInv, RadioInv, UnsentInv
<1> QED
    BY <1>2, <1>3 DEF IInv

\* Power, sleep and resets.
LEMMA ResetIInv ==
    ASSUME IInv, PowerOn \/ PowerLoss \/ Wake \/ Reset \/ LongPress
    PROVE  IInv'
<1> USE NFacts DEF IInv
<1>1. CASE PowerOn
    BY <1>1 DEF PowerOn, TypeOK, InRange, Running, MemInv, RadioInv, UnsentInv, Holds
<1>2. CASE PowerLoss
  <2>1. rtc' \in RtcMem /\ ~rtc'.magic /\ pc' = "off" /\ option' = "DEFAULT" /\ unsent' = 0
        /\ UNCHANGED <<sensor_data, active, radio, last>>
    BY <1>2 DEF PowerLoss, RandomRtc
  <2> QED
    BY <2>1 DEF TypeOK, InRange, Running, MemInv, RadioInv, UnsentInv
<1>3. CASE Wake
    BY <1>3 DEF Wake, TypeOK, InRange, Running, MemInv, RadioInv, UnsentInv, Holds
<1>4. ASSUME Reboot, active' \in BOOLEAN PROVE IInv'
    BY <1>4 DEF Reboot, TypeOK, InRange, Running, MemInv, RadioInv, UnsentInv, Holds
<1>5. CASE LongPress
    BY <1>5 DEF LongPress, TypeOK, InRange, Running, MemInv, RadioInv, UnsentInv, Holds
<1> QED
    BY <1>1, <1>2, <1>3, <1>4, <1>5 DEF Reset, TypeOK

\* The steps of data_func up to the write to RTC memory.
LEMMA MeasureIInv ==
    ASSUME IInv, EnterConfig \/ Flush \/ Measure
    PROVE  IInv'
<1> USE NFacts DEF IInv
<1>1. CASE EnterConfig
  <2>1. ~rtc.magic /\ radio
    BY <1>1 DEF EnterConfig, NoCycle, TypeOK, InRange, RtcMem, MemInv, RadioInv
  <2>2. TypeOK'
    BY <1>1 DEF EnterConfig, TypeOK, InRange, Running
  <2> QED
    BY <1>1, <2>1, <2>2 DEF EnterConfig, MemInv, RadioInv, UnsentInv
<1>2. CASE Flush
  <2>1. sensor_data' \in RtcMem /\ sensor_data'.magic /\ sensor_data'.cnt = 0
    BY <1>2 DEF Flush, InCycle, TypeOK, InRange, RtcMem
  <2> QED
    BY <1>2, <2>1 DEF Flush, TypeOK, InRange, Running, MemInv, RadioInv, UnsentInv, Holds
<1>3. CASE Measure
  <2>1. rtc.magic /\ rtc.cnt \in 0..N /\ Slot(rtc) \in Index
    BY <1>3 DEF Measure, NoCycle, TypeOK, InRange, RtcMem, MemInv, Slot, Index
  <2>2. PICK v \in Sample :
            sensor_data' = InCycle(Slot(rtc) + 1, [rtc.data EXCEPT ![Slot(rtc)] = v])
    BY <1>3 DEF Measure
  <2>3. /\ sensor_data' \in RtcMem
        /\ sensor_data'.magic
        /\ sensor_data'.cnt = Slot(rtc) + 1
        /\ sensor_data'.data = [rtc.data EXCEPT ![Slot(rtc)] = v]
    BY <2>1, <2>2 DEF InCycle, TypeOK, InRange, RtcMem, Index
  <2>4. \A i \in 0..Slot(rtc)-1 : sensor_data'.data[i] = last[N - Slot(rtc) + i]
    <3> SUFFICES ASSUME NEW i \in 0..Slot(rtc)-1
                 PROVE  sensor_data'.data[i] = last[N - Slot(rtc) + i]
        OBVIOUS
    <3>1. Slot(rtc) = rtc.cnt /\ i \in Index /\ i # Slot(rtc)
        BY <2>1 DEF Slot, Index
    <3>2. rtc.data[i] = last[N - rtc.cnt + i]
        BY <2>1, <3>1 DEF MemInv, Holds
    <3> QED
        BY <2>3, <3>1, <3>2 DEF TypeOK, InRange, RtcMem
  <2>5. pc' = "measured" /\ UNCHANGED <<rtc, active, option, radio, last, unsent>>
    BY <1>3 DEF Measure
  <2>6. TypeOK'
    <3>1. sensor_data'.cnt <= N
        BY <2>1, <2>3 DEF Index
    <3> QED
        BY <2>3, <2>5, <3>1 DEF TypeOK, InRange, Running
  <2>7. MemInv'
    <3>1. sensor_data'.cnt \in 1..N /\ (sensor_data'.cnt) - 1 = Slot(rtc)
        BY <2>1, <2>3 DEF Index
    <3>2. (Holds(sensor_data.data, sensor_data.cnt - 1))'
        BY <2>4, <2>5, <3>1 DEF Holds
    <3>3. rtc' = rtc /\ last' = last
        BY <2>5
    <3> QED
        BY <2>3, <2>5, <3>1, <3>2, <3>3 DEF MemInv, Holds
  <2>8. RadioInv'
    <3>1. sensor_data'.cnt = N => rtc.cnt = N - 1
        BY <2>1, <2>3 DEF Slot
    <3> QED
        BY <1>3, <2>1, <2>5, <3>1 DEF Measure, RadioInv
  <2>9. UnsentInv'
    BY <2>1, <2>3, <2>5 DEF UnsentInv, Slot, TypeOK
  <2> QED
    BY <2>6, <2>7, <2>8, <2>9
<1> QED
    BY <1>1, <1>2, <1>3

\* The write to RTC memory.
LEMMA RecordIInv ==
    ASSUME IInv, Record
    PROVE  IInv'
<1> USE NFacts DEF IInv
<1>1. /\ rtc' = sensor_data
      /\ pc' = "recorded"
      /\ UNCHANGED <<sensor_data, active, option, radio>>
      /\ sensor_data \in RtcMem
      /\ sensor_data.magic
    BY DEF Record, MemInv, TypeOK
<1>2. CASE pc = "flushed"
  <2>1. sensor_data.cnt = 0 /\ last' = last /\ unsent' = unsent
    BY <1>2 DEF Record, MemInv
  <2> QED
    BY <1>1, <2>1 DEF TypeOK, InRange, Running, MemInv, RadioInv, UnsentInv, Holds
<1>3. CASE pc = "measured"
  <2> DEFINE k == sensor_data.cnt
  <2>1. /\ k \in 1..N
        /\ Holds(sensor_data.data, k - 1)
        /\ sensor_data.data \in [Index -> Sample]
        /\ sensor_data.data[k - 1] \in Sample
    BY <1>1, <1>3 DEF MemInv, RtcMem, Index
  <2>2. last' = Shift(last, sensor_data.data[k - 1])
    BY <1>3 DEF Record
  <2>3. \A i \in 0..k-1 : sensor_data.data[i] = last'[N - k + i]
    BY <2>1, <2>2, ShiftHolds
  <2>4. unsent' \in 0..N+1 /\ unsent' >= k
    BY <1>3, <2>1 DEF Record, TypeOK, UnsentInv
  <2>5. TypeOK'
    BY <1>1, <2>1, <2>2, <2>4, ShiftType DEF TypeOK, InRange, Running
  <2>6. MemInv'
    <3>1. (Holds(rtc.data, rtc.cnt))'
        BY <1>1, <2>3 DEF Holds
    <3> QED
        BY <1>1, <2>1, <3>1 DEF MemInv
  <2>7. RadioInv' /\ UnsentInv'
    BY <1>1, <1>3, <2>1, <2>4 DEF RadioInv, UnsentInv
  <2> QED
    BY <2>5, <2>6, <2>7
<1> QED
    BY <1>2, <1>3 DEF Record

\* The rest of data_func, and what follows it.
LEMMA RestIInv ==
    ASSUME IInv, SetOption \/ Sleep \/ Upload \/ UploadEnds \/ Activated \/ ConfigSleep
           \/ TokenPosted
    PROVE  IInv'
<1> USE NFacts DEF IInv
<1>1. CASE SetOption
    BY <1>1 DEF SetOption, TypeOK, InRange, Running, MemInv, RadioInv, UnsentInv, Holds
<1>2. CASE Sleep
    BY <1>2 DEF Sleep, TypeOK, InRange, Running, MemInv, RadioInv, UnsentInv, Holds
<1>3. CASE Upload
  <2>1. sensor_data = rtc /\ rtc.magic /\ rtc.cnt = N
    BY <1>3 DEF Upload, MemInv
  <2> QED
    BY <1>3, <2>1 DEF Upload, TypeOK, InRange, Running, MemInv, RadioInv, UnsentInv, Holds
<1>4. CASE UploadEnds
    BY <1>4 DEF UploadEnds, TypeOK, InRange, Running, MemInv, RadioInv, UnsentInv, Holds
<1>5. CASE Activated
    BY <1>5 DEF Activated, TypeOK, InRange, Running, MemInv, RadioInv, UnsentInv, Holds
<1>6. CASE ConfigSleep
    BY <1>6 DEF ConfigSleep, TypeOK, InRange, Running, MemInv, RadioInv, UnsentInv, Holds
<1>7. CASE TokenPosted
    BY <1>7 DEF TokenPosted, TypeOK, InRange, Running, MemInv, RadioInv, UnsentInv, Holds
<1> QED
    BY <1>1, <1>2, <1>3, <1>4, <1>5, <1>6, <1>7

\* Every step preserves the invariant.
LEMMA NextIInv == IInv /\ [Next]_vars => IInv'
<1> SUFFICES ASSUME IInv, [Next]_vars PROVE IInv'
    OBVIOUS
<1>1. CASE UNCHANGED vars
    BY <1>1 DEF vars, IInv, TypeOK, MemInv, RadioInv, UnsentInv, Holds
<1> QED
    BY <1>1, ResetIInv, MeasureIInv, RecordIInv, RestIInv DEF Next, DataFunc, Disturbance

\* The invariant holds in every reachable state.
THEOREM Invariance == Spec => []IInv
BY InitIInv, NextIInv, PTL DEF Spec

\* data_func keeps the count and the data in range.
THEOREM TypeCorrect == Spec => []TypeOK
<1>1. IInv => TypeOK
    BY DEF IInv
<1> QED
    BY Invariance, <1>1, PTL

\* An upload always has the radio it needs.
THEOREM RadioOn == Spec => []UploadHasRadio
<1>1. IInv => UploadHasRadio
    BY DEF IInv, RadioInv, UploadHasRadio
<1> QED
    BY Invariance, <1>1, PTL

\* A count of N says that the whole array is the window of the last N.
LEMMA FullIsLast == IInv => BatchIsLastN
<1> SUFFICES ASSUME IInv, pc = "upload" PROVE sensor_data.data = last
  BY DEF BatchIsLastN
<1>1. sensor_data = rtc /\ rtc.magic /\ rtc.cnt = N /\ Holds(rtc.data, N)
  BY DEF IInv, MemInv
<1>2. \A i \in Index : rtc.data[i] = last[i]
  <2> SUFFICES ASSUME NEW i \in Index PROVE rtc.data[i] = last[i]
      OBVIOUS
  <2>1. rtc.data[i] = last[N - N + i]
      BY <1>1 DEF Holds, Index
  <2>2. N - N + i = i
      BY NFacts DEF Index
  <2> QED
      BY <2>1, <2>2
<1>3. rtc.data \in [Index -> Sample] /\ last \in [Index -> Sample]
  BY DEF IInv, TypeOK, InRange, RtcMem
<1> QED
  BY <1>1, <1>2, <1>3

\* A batch is the last N measurements, in order.
THEOREM BatchInOrder == Spec => []BatchIsLastN
BY Invariance, FullIsLast, PTL

\* No measurement is in two batches.
THEOREM NoOverlap == Spec => BatchesDisjoint
<1>1. IInv /\ [Next]_vars => [pc # "upload" /\ pc' = "upload" => unsent >= N]_vars
  <2> SUFFICES ASSUME IInv, Next, pc # "upload", pc' = "upload" PROVE unsent >= N
    BY DEF vars
  <2>1. ~(PowerOn \/ Wake \/ Disturbance)
    BY DEF PowerOn, Wake, Disturbance, PowerLoss, Reset, LongPress, Reboot
  <2>2. ~(EnterConfig \/ Flush \/ Measure \/ Record \/ SetOption \/ Sleep)
    BY DEF EnterConfig, Flush, Measure, Record, SetOption, Sleep
  <2>3. ~(UploadEnds \/ Activated \/ ConfigSleep \/ TokenPosted)
    BY DEF UploadEnds, Activated, ConfigSleep, TokenPosted
  <2>4. Upload
    BY <2>1, <2>2, <2>3 DEF Next, DataFunc
  <2> QED
    BY <2>4 DEF Upload, IInv, UnsentInv
<1> QED
    BY Invariance, <1>1, PTL DEF Spec, BatchesDisjoint
=============================================================================
