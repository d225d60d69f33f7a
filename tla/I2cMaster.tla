----------------------------- MODULE I2cMaster -----------------------------
(***************************************************************************)
(* The I2C master in software, app/driver/i2c_master.c: each call is a     *)
(* sequence of levels put on SDA and SCL, half a clock at a time.  The bus *)
(* is open drain, and the slave on it follows the I2C standard.  The       *)
(* program may be reset between any two half clocks; the slave is not.     *)
(*                                                                         *)
(* Nothing in this application calls the driver.  The calls are made in    *)
(* the order in which the standard has them in a transfer.                 *)
(***************************************************************************)
EXTENDS Integers, Sequences

CONSTANTS Byte,     \* bound: the bytes that are written and read
          Pulses    \* the clocks i2c_master_init gives, 28

\* The clocks are enough for the rest of a byte and a whole one, and are one more
\* than bytes with their acks take.
ASSUME I2cAssumption == /\ Byte \subseteq 0..255
                        /\ Pulses \in Nat /\ Pulses >= 18 /\ Pulses % 9 = 1

VARIABLES
    lastSDA, lastSCL,  \* m_nLastSDA, m_nLastSCL: what the master puts out
    wave,     \* what the call under way has still to put out, and where it reads
    call,     \* the call under way, or the last one
    retVal,   \* what it has read
    wrdata,   \* the last byte it was given to write
    slave,    \* the other end; see Slave
    eighth    \* history: the slave was at the eighth bit of a byte it receives
              \* when the program was reset

i2cVars == <<lastSDA, lastSCL, wave, call, retVal, wrdata, slave, eighth>>

Level == {0, 1}

Call == {"init", "start", "writeByte", "getAck", "readByte", "setAck", "nack", "stop"}

\* What the slave does, how many bits of a frame of nine it has seen, the byte
\* it receives or sends, the level it lets SDA have, and whether it was called
\* since the last start condition it saw.
Slave == [mode : {"idle", "receive", "send"}, bits : 0..9, byte : 0..255,
          out : Level, addressed : BOOLEAN]

\* Levels to put out, and whether SDA is read then
Half == [sda : Level, scl : Level, get : BOOLEAN]

I2cTypeOK ==
    /\ lastSDA \in Level /\ lastSCL \in Level
    /\ wave \in Seq(Half)
    /\ call \in Call
    /\ retVal \in 0..255
    /\ wrdata \in 0..255
    /\ slave \in Slave
    /\ eighth \in BOOLEAN

Put(sda, scl) == [sda |-> sda, scl |-> scl, get |-> FALSE]

Read == [sda |-> 1, scl |-> 1, get |-> TRUE]

-----------------------------------------------------------------------------
(* The calls: what each puts out, from the levels it finds *)

Repeated(n, halves) ==
    [i \in 1..n * Len(halves) |-> halves[((i - 1) % Len(halves)) + 1]]

StopWave(scl) == <<Put(0, scl), Put(0, 1), Put(1, 1)>>

\* Mutant: too few clocks for a byte to end in.
InitWaveShort ==
    <<Put(1, 0), Put(0, 0), Put(1, 0)>>
    \o Repeated(Pulses \div 4, <<Put(1, 0), Put(1, 1)>>) \o StopWave(1)

InitWave ==
    <<Put(1, 0), Put(0, 0), Put(1, 0)>>
    \o Repeated(Pulses, <<Put(1, 0), Put(1, 1)>>) \o StopWave(1)

StartWave == <<Put(1, lastSCL), Put(1, 1), Put(0, 1)>>

\* Mutant: SDA keeps its level.
SetAckWaveHeld(level) ==
    <<Put(lastSDA, 0), Put(lastSDA, 1), Put(level, 1), Put(level, 0), Put(1, 0)>>

SetAckWave(level) ==
    <<Put(lastSDA, 0), Put(level, 0), Put(level, 1), Put(level, 0), Put(1, 0)>>

\* Mutant: SDA is not let go.
GetAckWaveHeld == <<Put(lastSDA, 0), Put(lastSDA, 1), [Read EXCEPT !.sda = lastSDA], Put(1, 0)>>

GetAckWave == <<Put(lastSDA, 0), Put(1, 0), Read, Put(1, 0)>>

\* Mutant: the last bit is left.
ReadByteWaveSeven ==
    <<Put(lastSDA, 0)>> \o Repeated(7, <<Put(1, 0), Read>>) \o <<Put(1, 0)>>

ReadByteWave == <<Put(lastSDA, 0)>> \o Repeated(8, <<Put(1, 0), Read>>) \o <<Put(1, 0)>>

Bit(byte, i) == (byte \div 2^i) % 2

\* Mutant: the lowest bit first.
WriteByteWaveLsb(byte) ==
    <<Put(lastSDA, 0)>>
    \o [i \in 1..24 |-> Put(Bit(byte, (i - 1) \div 3), IF i % 3 = 2 THEN 1 ELSE 0)]

\* Each bit is put out for three halves, SCL being high at the second.
WriteByteWave(byte) ==
    <<Put(lastSDA, 0)>>
    \o [i \in 1..24 |-> Put(Bit(byte, (24 - i) \div 3), IF i % 3 = 2 THEN 1 ELSE 0)]

-----------------------------------------------------------------------------
(* The slave, which sees the bus go from levels <<sda, scl>> to others *)

Started == [mode |-> "receive", bits |-> 0, byte |-> 0, out |-> 1, addressed |-> FALSE]

Stopped == [Started EXCEPT !.mode = "idle"]

\* SCL rises: a bit is taken; the ninth of a byte it sends is the master's ack.
Taken(sda) ==
    CASE slave.mode = "receive" /\ slave.bits < 8 ->
             [slave EXCEPT !.bits = @ + 1, !.byte = (2 * @ + sda) % 256]
      [] slave.mode = "send" /\ slave.bits = 8 /\ sda = 1 -> Stopped
      [] slave.mode = "idle" -> slave
      [] OTHER -> [slave EXCEPT !.bits = @ + 1]

\* SCL falls: the next bit, or the ack.  The byte after a start is an address;
\* its last bit tells the direction.
Given(ack, next) ==
    CASE slave.mode = "receive" /\ slave.bits = 8 -> [slave EXCEPT !.out = ack]
      [] slave.mode = "receive" /\ slave.bits = 9 ->
             IF slave.out = 1 THEN Stopped
             ELSE IF slave.addressed \/ slave.byte % 2 = 0
             THEN [Started EXCEPT !.addressed = TRUE]
             ELSE [mode |-> "send", bits |-> 0, byte |-> next, out |-> Bit(next, 7),
                   addressed |-> TRUE]
      [] slave.mode = "send" /\ slave.bits < 8 ->
             [slave EXCEPT !.out = Bit(slave.byte, 7 - slave.bits)]
      [] slave.mode = "send" /\ slave.bits = 8 -> [slave EXCEPT !.out = 1]
      [] slave.mode = "send" /\ slave.bits = 9 ->
             [slave EXCEPT !.bits = 0, !.byte = next, !.out = Bit(next, 7)]
      [] OTHER -> slave

Wired(sda) == IF sda = 1 /\ slave.out = 1 THEN 1 ELSE 0

\* SDA moves while SCL is high.
Condition(sda, scl) == lastSCL = 1 /\ scl = 1 /\ Wired(sda) # Wired(lastSDA)

React(sda, scl) ==
    \E ack \in Level, next \in Byte :
        slave' = IF Condition(sda, scl)
                 THEN IF Wired(sda) = 0 THEN Started ELSE Stopped
                 ELSE IF lastSCL = 0 /\ scl = 1 THEN Taken(Wired(sda))
                 ELSE IF lastSCL = 1 /\ scl = 0 THEN Given(ack, next)
                 ELSE slave

-----------------------------------------------------------------------------

\* i2c_master_gpio_init, at power-up
I2cInit == /\ lastSDA = 1 /\ lastSCL = 1
           /\ wave = InitWave /\ call = "init"
           /\ retVal = 0 /\ wrdata = 0
           /\ slave = Stopped /\ eighth = FALSE

\* i2c_master_setDC, and i2c_master_getDC where the call reads
HalfClock ==
    /\ wave # <<>>
    /\ LET half == Head(wave) IN
       /\ lastSDA' = half.sda /\ lastSCL' = half.scl
       /\ React(half.sda, half.scl)
       /\ retVal' = IF half.get THEN 2 * retVal + Wired(half.sda) ELSE retVal
    /\ wave' = Tail(wave)
    /\ UNCHANGED <<call, wrdata, eighth>>

\* Mutant: the bits of the last byte are kept.
DoKeeps(name, before, halves) ==
    /\ wave = <<>>
    /\ call \in before
    /\ call' = name
    /\ wave' = halves
    /\ UNCHANGED <<retVal, lastSDA, lastSCL, slave>>

\* A call after one of the calls before it
Do(name, before, halves) ==
    /\ wave = <<>>
    /\ call \in before
    /\ call' = name
    /\ wave' = halves
    /\ retVal' = 0
    /\ UNCHANGED <<lastSDA, lastSCL, slave>>

Acked == call = "getAck" /\ retVal = 0

Reading == slave.mode = "send"   \* as the master knows from the address it wrote

I2cStart == /\ Do("start", {"init", "stop", "getAck", "nack"}, StartWave)
            /\ ~Reading
            /\ eighth' = (eighth /\ call = "init")
            /\ UNCHANGED wrdata

WriteByte(byte) == /\ Do("writeByte", {"start", "getAck"}, WriteByteWave(byte))
                   /\ call = "getAck" => Acked /\ ~Reading
                   /\ wrdata' = byte
                   /\ UNCHANGED eighth

GetAck == Do("getAck", {"writeByte"}, GetAckWave) /\ UNCHANGED <<wrdata, eighth>>

ReadByte == /\ Do("readByte", {"getAck", "setAck"}, ReadByteWave)
            /\ call = "getAck" => Acked /\ Reading
            /\ UNCHANGED <<wrdata, eighth>>

SendAck == Do("setAck", {"readByte"}, SetAckWave(0)) /\ UNCHANGED <<wrdata, eighth>>

SendNack == Do("nack", {"readByte"}, SetAckWave(1)) /\ UNCHANGED <<wrdata, eighth>>

\* A transfer that reads ends with a byte that is not acknowledged.
I2cStop == /\ Do("stop", {"getAck", "nack"}, StopWave(lastSCL))
           /\ ~Reading
           /\ UNCHANGED <<wrdata, eighth>>

\* The slave has seen seven bits, and will have the eighth from SCL's rise, or
\* has just seen it.
AtEighth == slave.mode = "receive" /\ slave.bits = 7 + lastSCL

\* The program is reset, and i2c_master_gpio_init raises SDA and SCL, in either
\* order.
I2cReset ==
    /\ call' = "init"
    /\ \E first \in {Put(1, lastSCL), Put(lastSDA, 1)} :
           wave' = <<first, Put(1, 1)>> \o InitWave
    /\ eighth' = AtEighth
    /\ UNCHANGED <<lastSDA, lastSCL, retVal, wrdata, slave>>

I2cNext == \/ HalfClock
           \/ I2cStart \/ (\E byte \in Byte : WriteByte(byte)) \/ GetAck
           \/ ReadByte \/ SendAck \/ SendNack
           \/ I2cStop
           \/ I2cReset

I2cSpec == I2cInit /\ [][I2cNext]_i2cVars

-----------------------------------------------------------------------------
(* Properties *)

\* SDA moves while SCL is high only in the calls that mean to start or stop, and
\* when the bus is set up: no byte, ack or read ends a transfer by accident,
\* whatever level the call before has left.
BitsAreNoConditions ==
    [][wave # <<>> /\ Condition(lastSDA', lastSCL') => call \in {"init", "start", "stop"}]_i2cVars

\* A byte written is the byte the slave has, when it is to be acknowledged.
WrittenArrives ==
    call = "writeByte" /\ wave = <<>> =>
        slave.mode = "receive" /\ slave.bits = 8 /\ slave.byte = wrdata

\* A byte read is the one the slave sent.
ReadIsSent ==
    call = "readByte" /\ wave = <<>> =>
        slave.mode = "send" /\ slave.bits = 8 /\ slave.byte = retVal

\* An ack the master has seen is one the slave gave.
AckIsGiven == Acked /\ wave = <<>> => slave.addressed

\* Wherever a transfer is cut off by a reset, i2c_master_init frees the bus, so
\* that the next start is seen - but when it was at the eighth bit of a byte: 28
\* clocks are one more than three bytes with their acks, and the slave holds SDA
\* for another ack when i2c_master_stop raises it.
InitFreesBus ==
    call = "start" /\ wave = <<>> /\ ~eighth => slave = Started

\* What goes over the bus arrives, in both directions, after a reset too.
TransferKept == WrittenArrives /\ ReadIsSent /\ AckIsGiven /\ InitFreesBus
=============================================================================
