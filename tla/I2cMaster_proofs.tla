-------------------------- MODULE I2cMaster_proofs --------------------------
(***************************************************************************)
(* Proofs about the I2C master, for every set of bytes and every number of *)
(* clocks that is one more than bytes with their acks take.                *)
(*                                                                         *)
(* The inductive invariant I2cInv says what the call under way has still   *)
(* to put out, WaveInv, when the slave holds SDA, OutInv, and for each     *)
(* call how far master and slave are in the byte, I2cCallInv: the bits that   *)
(* one has of it are the upper bits of what the other has.  ClearsInv is   *)
(* the one that counts: the bits that the slave is still to see before the *)
(* clocks of i2c_master_init are over.                                     *)
(***************************************************************************)
EXTENDS I2cMaster, SequenceTheorems, TLAPS

-----------------------------------------------------------------------------
(* The inductive invariant                                                 *)

\* What a call puts out when r halves are still to come after it
HalfOk(name, byte, r, h) ==
    /\ h.get <=> \/ name = "getAck" /\ r = 1
                 \/ name = "readByte" /\ r \in 1..16 /\ r % 2 = 1
    /\ name = "init" =>
           /\ r <= 2 * Pulses + 7
           /\ r = 0 => h = Put(1, 1)
           /\ r \in {1, 2} => h = Put(0, 1)
           /\ r \in 3..2 * Pulses + 2 => h = Put(1, r % 2)
           /\ r \in 2 * Pulses + 3..2 * Pulses + 5 => h.scl = 0
           /\ r = 2 * Pulses + 6 => h = Put(1, 1)
    /\ name = "start" => /\ r <= 2
                         /\ r = 0 => h = Put(0, 1)
                         /\ r = 1 => h = Put(1, 1)
    /\ name = "stop" => /\ r <= 2
                        /\ r = 0 => h = Put(1, 1)
                        /\ r = 1 => h = Put(0, 1)
                        /\ r = 2 => h = Put(0, 0)
    /\ name = "writeByte" => /\ r <= 24
                             /\ r <= 23 => h = Put(Bit(byte, r \div 3), IF r % 3 = 1 THEN 1 ELSE 0)
                             /\ r = 24 => h.scl = 0
    /\ name = "getAck" => /\ r <= 3
                          /\ r \in {0, 2} => h = Put(1, 0)
                          /\ r = 1 => h = Read
                          /\ r = 3 => h.scl = 0
    /\ name = "readByte" => /\ r <= 17
                            /\ r <= 16 => h = IF r % 2 = 1 THEN Read ELSE Put(1, 0)
                            /\ r = 17 => h.scl = 0
    /\ name \in {"setAck", "nack"} =>
           /\ r <= 4
           /\ r = 0 => h = Put(1, 0)
           /\ r \in {1, 3} => h.scl = 0
           /\ r = 2 => h = Put(IF name = "nack" THEN 1 ELSE 0, 1)
           /\ r = 4 => h.scl = 0

ToCome == Len(wave)

WaveInv ==
    /\ \A i \in 1..ToCome : HalfOk(call, wrdata, ToCome - i, wave[i])
    /\ call = "start" /\ ToCome = 3 => wave[1] = Put(1, lastSCL)
    /\ call = "init" /\ ToCome = 2 * Pulses + 8 => wave[1] \in {Put(1, lastSCL), Put(lastSDA, 1)}

\* The slave holds SDA for an ack only, or for a bit it sends.
OutInv ==
    /\ slave.mode = "idle" => slave.out = 1 /\ slave.bits = 0
    /\ slave.bits = 9 => lastSCL = 1
    /\ slave.mode = "receive" /\ slave.out = 0 => slave.bits = 9 \/ (slave.bits = 8 /\ lastSCL = 0)
    /\ slave.mode = "send" /\ slave.bits = 8 /\ lastSCL = 0 => slave.out = 1

\* It holds SDA for the ack of a byte that followed its address.
Held == /\ slave.mode = "receive" /\ slave.addressed
        /\ slave.bits = 9 /\ slave.out = 0

\* It is ready for a byte, or sends its first bit.
Ready == /\ slave.mode = "receive" /\ slave.bits = 0
         /\ slave.byte = 0 /\ slave.out = 1

Offers == /\ slave.mode = "send" /\ slave.bits = 0
          /\ slave.out = Bit(slave.byte, 7)

\* Clocks of i2c_master_init that are still to come
Clocks == IF ToCome > 2 * Pulses + 2 THEN Pulses ELSE (ToCome - 2) \div 2

\* After a reset the slave's place in its byte tells where it is when the clocks
\* end: at an ack just if it was at the eighth bit.  A byte it sends ends before.
ClearsInv ==
    /\ ToCome <= 2 * Pulses + 8
    /\ ToCome >= 2 * Pulses + 6 /\ slave.mode = "receive" /\ ~eighth => slave.bits # 7 + lastSCL
    /\ ToCome = 2 * Pulses + 6 => lastSDA = 1 /\ lastSCL = 1
    /\ ToCome \in 3..2 * Pulses + 5 =>
           /\ lastSCL = IF ToCome <= 2 * Pulses + 2 THEN ToCome % 2 ELSE 0
           /\ ToCome <= 2 * Pulses + 2 => lastSDA = 1
           /\ slave.mode = "receive" /\ ~eighth => (slave.bits + Clocks) % 9 # 0
           /\ slave.mode = "receive" /\ ~slave.addressed => slave.bits + Clocks >= Pulses
           /\ slave.mode = "send" => slave.bits <= 8 /\ slave.bits + Clocks >= 9
    /\ ToCome \in {1, 2} => /\ lastSDA = 0 /\ lastSCL = 1
                            /\ slave = Started \/ (eighth /\ Held)
    /\ ToCome = 0 => /\ lastSDA = 1 /\ lastSCL = 1
                     /\ slave = Stopped \/ (eighth /\ Held)

StartInv ==
    /\ ToCome <= 3
    /\ ToCome > 0 => /\ lastSDA = 1
                     /\ slave.out = 1 \/ (eighth /\ Held /\ lastSCL = 1)
    /\ ToCome <= 1 => lastSCL = 1
    /\ ToCome = 0 => /\ lastSDA = 0
                     /\ slave = Started \/ (eighth /\ Held)

StopInv ==
    /\ ToCome <= 3
    /\ ToCome > 0 => slave.out = 1
    /\ ToCome \in {2, 3} => lastSCL = 0
    /\ ToCome = 1 => lastSDA = 0 /\ lastSCL = 1
    /\ ToCome = 0 => lastSDA = 1 /\ lastSCL = 1 /\ slave = Stopped

\* The bits of a byte that the slave has are the upper ones of it.
WriteInv ==
    /\ ToCome <= 25
    /\ ToCome = 25 => \/ lastSCL = 1 /\ (slave = Started \/ Held)
                      \/ lastSCL = 0 /\ Ready
    /\ ToCome <= 24 => /\ lastSCL = IF ToCome % 3 = 1 THEN 1 ELSE 0
                       /\ slave.mode = "receive" /\ slave.bits = (25 - ToCome) \div 3
                       /\ slave.byte = wrdata \div 2^(8 - slave.bits)
                       /\ slave.bits < 8 => slave.out = 1

GetAckInv ==
    /\ ToCome <= 4
    /\ ToCome >= 2 => /\ lastSCL = 0 /\ retVal = 0
                      /\ slave.mode = "receive" /\ slave.bits = 8
    /\ ToCome = 1 => /\ lastSCL = 1 /\ retVal = slave.out
                     /\ slave.mode = "receive" /\ slave.bits = 9
    /\ ToCome = 0 => /\ lastSDA = 1 /\ lastSCL = 0
                     /\ retVal \in Level
                     /\ retVal = 1 => slave = Stopped
                     /\ retVal = 0 => slave.addressed /\ (Ready \/ Offers)

\* The bits of a byte that the master has are the upper ones of it.
ReadInv ==
    /\ ToCome <= 18
    /\ ToCome >= 17 => lastSCL = 0 /\ slave.bits = 0
    /\ ToCome <= 16 => /\ lastSCL = ToCome % 2
                       /\ slave.bits = (17 - ToCome) \div 2
    /\ slave.mode = "send"
    /\ retVal = slave.byte \div 2^(8 - slave.bits)
    /\ lastSCL = 0 => slave.out = IF slave.bits = 8 THEN 1 ELSE Bit(slave.byte, 7 - slave.bits)
    /\ ToCome = 0 => lastSDA = 1

SetAckInv ==
    /\ ToCome <= 5
    /\ ToCome >= 3 => lastSCL = 0 /\ slave.mode = "send" /\ slave.bits = 8
    /\ ToCome = 2 => lastSCL = 1 /\ slave.mode = "send" /\ slave.bits = 9
    /\ ToCome <= 1 => lastSCL = 0 /\ Offers
    /\ retVal = 0

NackInv ==
    /\ ToCome <= 5
    /\ ToCome >= 3 => lastSCL = 0 /\ slave.mode = "send" /\ slave.bits = 8
    /\ ToCome <= 2 => lastSCL = (IF ToCome = 2 THEN 1 ELSE 0) /\ slave = Stopped
    /\ ToCome = 0 => lastSDA = 1
    /\ retVal = 0

I2cCallInv ==
    /\ call = "init" => ClearsInv
    /\ call = "start" => StartInv
    /\ call = "stop" => StopInv
    /\ call = "writeByte" => WriteInv
    /\ call = "getAck" => GetAckInv
    /\ call = "readByte" => ReadInv
    /\ call = "setAck" => SetAckInv
    /\ call = "nack" => NackInv

I2cInv == I2cTypeOK /\ WaveInv /\ OutInv /\ I2cCallInv

-----------------------------------------------------------------------------
(* The slave                                                               *)

LEMMA I2cBounds == /\ \A b \in Byte : b \in 0..255
                   /\ Pulses \in Nat /\ Pulses >= 18 /\ Pulses % 9 = 1
BY I2cAssumption

LEMMA Powers == /\ 2^0 = 1 /\ 2^1 = 2 /\ 2^2 = 4 /\ 2^3 = 8 /\ 2^4 = 16
                /\ 2^5 = 32 /\ 2^6 = 64 /\ 2^7 = 128 /\ 2^8 = 256
OBVIOUS

LEMMA BitLevel ==
    ASSUME NEW byte \in 0..255, NEW i \in 0..7
    PROVE  Bit(byte, i) \in Level
<1>1. i = 0 \/ i = 1 \/ i = 2 \/ i = 3 \/ i = 4 \/ i = 5 \/ i = 6 \/ i = 7
    OBVIOUS
<1> QED BY <1>1, Powers DEF Bit, Level

\* One more of the upper bits
\* The first j bits of a byte, and the next one shifted in behind them
ShiftsIn(byte, j) ==
    /\ 2 * (byte \div 2^(8 - j)) + Bit(byte, 7 - j) = byte \div 2^(7 - j)
    /\ byte \div 2^(7 - j) \in 0..255
    /\ byte \div 2^(8 - j) \in 0..127

LEMMA ShiftIn ==
    ASSUME NEW byte \in 0..255, NEW j \in 0..7
    PROVE  ShiftsIn(byte, j)
<1> USE DEF ShiftsIn
<1>1. CASE j = 0
    BY <1>1, Powers DEF Bit
<1>2. CASE j = 1
    BY <1>2, Powers DEF Bit
<1>3. CASE j = 2
    BY <1>3, Powers DEF Bit
<1>4. CASE j = 3
    BY <1>4, Powers DEF Bit
<1>5. CASE j = 4
    BY <1>5, Powers DEF Bit
<1>6. CASE j = 5
    BY <1>6, Powers DEF Bit
<1>7. CASE j = 6
    BY <1>7, Powers DEF Bit
<1>8. CASE j = 7
    BY <1>8, Powers DEF Bit
<1> QED BY <1>1, <1>2, <1>3, <1>4, <1>5, <1>6, <1>7, <1>8

LEMMA SlaveFields ==
    ASSUME slave \in Slave
    PROVE  /\ slave.mode \in {"idle", "receive", "send"} /\ slave.bits \in 0..9
           /\ slave.byte \in 0..255 /\ slave.out \in Level /\ slave.addressed \in BOOLEAN
BY DEF Slave

LEMMA StartedStopped ==
    /\ Started \in Slave /\ Stopped \in Slave
    /\ Started.mode = "receive" /\ Started.bits = 0 /\ Started.byte = 0 /\ Started.out = 1
    /\ Stopped.mode = "idle" /\ Stopped.bits = 0 /\ Stopped.out = 1
<1>1. /\ Started \in Slave
      /\ Started.mode = "receive" /\ Started.bits = 0 /\ Started.byte = 0 /\ Started.out = 1
    BY DEF Started, Slave, Level
<1>3. Stopped \in Slave
    BY <1>1 DEF Stopped, Slave
<1>4. Stopped.mode = "idle" /\ Stopped.bits = 0 /\ Stopped.out = 1
    BY <1>1 DEF Stopped, Slave
<1> QED BY <1>1, <1>3, <1>4

LEMMA TakenReceive ==
    ASSUME slave \in Slave, NEW sda \in Level, slave.mode = "receive", slave.bits < 9
    PROVE  /\ Taken(sda) \in Slave
           /\ Taken(sda).mode = "receive" /\ Taken(sda).bits = slave.bits + 1
           /\ Taken(sda).byte = IF slave.bits < 8 THEN (2 * slave.byte + sda) % 256 ELSE slave.byte
           /\ Taken(sda).out = slave.out /\ Taken(sda).addressed = slave.addressed
<1>1. CASE slave.bits < 8
    <2>1. Taken(sda) = [slave EXCEPT !.bits = @ + 1, !.byte = (2 * @ + sda) % 256]
        BY <1>1 DEF Taken
    <2>2. slave.bits + 1 \in 0..9 /\ (2 * slave.byte + sda) % 256 \in 0..255
        BY <1>1, SlaveFields DEF Level
    <2>3. Taken(sda) \in Slave
        <3> DEFINE more == [slave EXCEPT !.bits = @ + 1]
        <3>1. more \in Slave
            BY <2>2 DEF Slave
        <3> DEFINE byte == (2 * slave.byte + sda) % 256
        <3>2. Taken(sda) = [more EXCEPT !.byte = byte]
            BY <2>1 DEF Slave
        <3>3. byte \in 0..255
            BY <2>2
        <3> HIDE DEF byte, more
        <3> QED BY <3>1, <3>2, <3>3 DEF Slave
    <2>4. /\ Taken(sda).mode = slave.mode /\ Taken(sda).out = slave.out
          /\ Taken(sda).addressed = slave.addressed
        BY <2>1 DEF Slave
    <2>5. Taken(sda).bits = slave.bits + 1 /\ Taken(sda).byte = (2 * slave.byte + sda) % 256
        BY <2>1 DEF Slave
    <2> QED BY <1>1, <2>3, <2>4, <2>5
<1>2. CASE ~ slave.bits < 8
    <2>1. Taken(sda) = [slave EXCEPT !.bits = @ + 1]
        BY <1>2 DEF Taken
    <2>2. slave.bits + 1 \in 0..9
        BY <1>2, SlaveFields
    <2> QED BY <1>2, <2>1, <2>2 DEF Slave
<1> QED BY <1>1, <1>2

LEMMA TakenSend ==
    ASSUME slave \in Slave, NEW sda \in Level, slave.mode = "send", slave.bits < 9
    PROVE  /\ slave.bits = 8 /\ sda = 1 => Taken(sda) = Stopped
           /\ slave.bits < 8 \/ sda = 0 =>
                  /\ Taken(sda) \in Slave
                  /\ Taken(sda).mode = "send" /\ Taken(sda).bits = slave.bits + 1
                  /\ Taken(sda).byte = slave.byte
                  /\ Taken(sda).out = slave.out /\ Taken(sda).addressed = slave.addressed
<1>1. CASE slave.bits = 8 /\ sda = 1
    BY <1>1 DEF Taken
<1>2. CASE ~(slave.bits = 8 /\ sda = 1)
    <2>1. Taken(sda) = [slave EXCEPT !.bits = @ + 1]
        BY <1>2 DEF Taken
    <2>2. slave.bits + 1 \in 0..9
        BY SlaveFields
    <2> QED BY <1>2, <2>1, <2>2 DEF Slave
<1> QED BY <1>1, <1>2

LEMMA TakenIdle ==
    ASSUME slave.mode = "idle", NEW sda
    PROVE  Taken(sda) = slave
BY DEF Taken

LEMMA GivenReceive ==
    ASSUME slave \in Slave, NEW ack \in Level, NEW next \in Byte, slave.mode = "receive"
    PROVE  /\ slave.bits < 8 => Given(ack, next) = slave
           /\ slave.bits = 8 =>
                  /\ Given(ack, next) \in Slave
                  /\ Given(ack, next).mode = "receive" /\ Given(ack, next).bits = 8
                  /\ Given(ack, next).byte = slave.byte /\ Given(ack, next).out = ack
                  /\ Given(ack, next).addressed = slave.addressed
           /\ slave.bits = 9 /\ slave.out = 1 => Given(ack, next) = Stopped
           /\ slave.bits = 9 /\ slave.out = 0 =>
                  /\ Given(ack, next) \in Slave
                  /\ Given(ack, next).addressed
                  /\ Given(ack, next).bits = 0
                  /\ \/ /\ Given(ack, next).mode = "receive" /\ Given(ack, next).byte = 0
                        /\ Given(ack, next).out = 1
                     \/ /\ ~slave.addressed
                        /\ Given(ack, next).mode = "send" /\ Given(ack, next).byte = next
                        /\ Given(ack, next).out = Bit(next, 7)
<1>0. slave.bits \in 0..9
    BY SlaveFields
<1>1. CASE slave.bits < 8
    <2>1. slave.bits # 8 /\ slave.bits # 9
        BY <1>0, <1>1
    <2>2. Given(ack, next) = slave
        BY <2>1 DEF Given
    <2> QED BY <2>1, <2>2
<1>2. CASE slave.bits = 8
    <2>1. Given(ack, next) = [slave EXCEPT !.out = ack]
        BY <1>2 DEF Given
    <2> QED BY <1>2, <2>1 DEF Slave
<1>3. CASE slave.bits = 9 /\ slave.out = 1
    BY <1>3 DEF Given
<1>4. CASE slave.bits = 9 /\ slave.out = 0
    <2>1. CASE slave.addressed \/ slave.byte % 2 = 0
        <3>1. Given(ack, next) = [Started EXCEPT !.addressed = TRUE]
            BY <1>4, <2>1 DEF Given
        <3>2. Given(ack, next) = [mode |-> "receive", bits |-> 0, byte |-> 0, out |-> 1,
                                  addressed |-> TRUE]
            BY <3>1 DEF Started
        <3>3. Given(ack, next) \in Slave
            BY <3>2 DEF Slave, Level
        <3>4. /\ Given(ack, next).addressed /\ Given(ack, next).bits = 0
              /\ Given(ack, next).mode = "receive" /\ Given(ack, next).byte = 0
              /\ Given(ack, next).out = 1
            BY <3>2
        <3> QED BY <1>4, <3>3, <3>4
    <2>2. CASE ~(slave.addressed \/ slave.byte % 2 = 0)
        <3>1. Given(ack, next) = [mode |-> "send", bits |-> 0, byte |-> next,
                                  out |-> Bit(next, 7), addressed |-> TRUE]
            BY <1>4, <2>2 DEF Given
        <3>2. next \in 0..255 /\ Bit(next, 7) \in Level
            BY I2cBounds, BitLevel
        <3> QED BY <1>4, <2>2, <3>1, <3>2 DEF Slave
    <2> QED BY <2>1, <2>2
<1> QED BY <1>1, <1>2, <1>3, <1>4, SlaveFields DEF Level

LEMMA GivenSend ==
    ASSUME slave \in Slave, NEW ack \in Level, NEW next \in Byte, slave.mode = "send"
    PROVE  /\ Given(ack, next) \in Slave /\ Given(ack, next).mode = "send"
           /\ slave.bits <= 8 => /\ Given(ack, next).bits = slave.bits
                                 /\ Given(ack, next).byte = slave.byte
                                 /\ Given(ack, next).out = IF slave.bits = 8 THEN 1
                                                           ELSE Bit(slave.byte, 7 - slave.bits)
           /\ slave.bits = 9 => /\ Given(ack, next).bits = 0
                                /\ Given(ack, next).byte = next
                                /\ Given(ack, next).out = Bit(next, 7)
<1>1. CASE slave.bits < 8
    <2>1. Given(ack, next) = [slave EXCEPT !.out = Bit(slave.byte, 7 - slave.bits)]
        BY <1>1 DEF Given
    <2>2. Bit(slave.byte, 7 - slave.bits) \in Level
        BY <1>1, BitLevel, SlaveFields
    <2> QED BY <1>1, <2>1, <2>2 DEF Slave
<1>2. CASE slave.bits = 8
    <2>1. Given(ack, next) = [slave EXCEPT !.out = 1]
        BY <1>2 DEF Given
    <2> QED BY <1>2, <2>1 DEF Slave, Level
<1>3. CASE slave.bits = 9
    <2>1. Given(ack, next) = [slave EXCEPT !.bits = 0, !.byte = next, !.out = Bit(next, 7)]
        BY <1>3 DEF Given
    <2>2. next \in 0..255 /\ Bit(next, 7) \in Level
        BY I2cBounds, BitLevel
    <2>3. Given(ack, next) \in Slave
        <3>1. Given(ack, next) = [mode |-> slave.mode, bits |-> 0, byte |-> next,
                                  out |-> Bit(next, 7), addressed |-> slave.addressed]
            BY <2>1 DEF Slave
        <3> QED BY <2>2, <3>1, SlaveFields DEF Slave
    <2>4. /\ Given(ack, next).mode = "send" /\ Given(ack, next).bits = 0
          /\ Given(ack, next).byte = next /\ Given(ack, next).out = Bit(next, 7)
        BY <2>1 DEF Slave
    <2> QED BY <1>3, <2>3, <2>4
<1> QED BY <1>1, <1>2, <1>3, SlaveFields

LEMMA GivenIdle ==
    ASSUME slave.mode = "idle", NEW ack, NEW next
    PROVE  Given(ack, next) = slave
BY DEF Given

-----------------------------------------------------------------------------
(* The bus                                                                 *)

LEMMA WiredLevel ==
    ASSUME slave \in Slave, NEW sda \in Level
    PROVE  /\ Wired(sda) \in Level
           /\ Wired(1) = slave.out
           /\ slave.out = 1 => Wired(sda) = sda
           /\ slave.out = 0 => Wired(sda) = 0
BY SlaveFields DEF Wired, Level

LEMMA ReactCases ==
    ASSUME NEW sda, NEW scl, React(sda, scl)
    PROVE  /\ lastSCL = 0 /\ scl = 0 => slave' = slave
           /\ lastSCL = 0 /\ scl = 1 => slave' = Taken(Wired(sda))
           /\ lastSCL = 1 /\ scl = 0 => \E ack \in Level, next \in Byte : slave' = Given(ack, next)
           /\ lastSCL = 1 /\ scl = 1 =>
                  slave' = IF Wired(sda) = Wired(lastSDA) THEN slave
                           ELSE IF Wired(sda) = 0 THEN Started ELSE Stopped
<1>1. PICK ack \in Level, next \in Byte :
          slave' = IF Condition(sda, scl)
                   THEN IF Wired(sda) = 0 THEN Started ELSE Stopped
                   ELSE IF lastSCL = 0 /\ scl = 1 THEN Taken(Wired(sda))
                   ELSE IF lastSCL = 1 /\ scl = 0 THEN Given(ack, next)
                   ELSE slave
    BY DEF React
<1>2. CASE lastSCL = 0 /\ scl = 0
    BY <1>1, <1>2 DEF Condition
<1>3. CASE lastSCL = 0 /\ scl = 1
    BY <1>1, <1>3 DEF Condition
<1>4. CASE lastSCL = 1 /\ scl = 0
    BY <1>1, <1>4 DEF Condition
<1>5. CASE lastSCL = 1 /\ scl = 1
    BY <1>1, <1>5 DEF Condition
<1> QED BY <1>2, <1>3, <1>4, <1>5

\* However the bus moves, the slave keeps to the standard.
LEMMA ReactKeeps ==
    ASSUME slave \in Slave, lastSCL \in Level, NEW sda \in Level, NEW scl \in Level,
           OutInv, React(sda, scl), lastSCL' = scl
    PROVE  slave' \in Slave /\ OutInv'
<1>0. /\ slave.mode \in {"idle", "receive", "send"} /\ slave.bits \in 0..9
      /\ slave.byte \in 0..255 /\ slave.out \in Level
    BY SlaveFields
<1>1. CASE lastSCL = 0 /\ scl = 0
    <2>1. slave' = slave
        BY <1>1, ReactCases
    <2> QED BY <1>1, <2>1 DEF OutInv
<1>2. CASE lastSCL = 0 /\ scl = 1
    <2>1. slave' = Taken(Wired(sda)) /\ slave.bits < 9
        BY <1>0, <1>2, ReactCases DEF OutInv
    <2>2. Wired(sda) \in Level
        BY WiredLevel
    <2>3. CASE slave.mode = "idle"
        <3>1. slave' = slave
            BY <2>1, <2>3, TakenIdle
        <3> QED BY <1>2, <2>3, <3>1 DEF OutInv
    <2>4. CASE slave.mode = "receive"
        <3>1. /\ slave' \in Slave /\ slave'.mode = "receive"
              /\ slave'.bits = slave.bits + 1 /\ slave'.out = slave.out
            BY <2>1, <2>2, <2>4, TakenReceive
        <3>2. slave.out = 0 => slave.bits = 8
            BY <2>1, <2>4 DEF OutInv
        <3> QED BY <1>0, <1>2, <3>1, <3>2 DEF OutInv
    <2>5. CASE slave.mode = "send"
        <3>1. slave' = Stopped \/ (slave' \in Slave /\ slave'.mode = "send")
            BY <1>0, <2>1, <2>2, <2>5, TakenSend DEF Level
        <3> QED BY <1>2, <3>1, StartedStopped DEF OutInv
    <2> QED BY <1>0, <2>3, <2>4, <2>5
<1>3. CASE lastSCL = 1 /\ scl = 0
    <2>1. PICK ack \in Level, next \in Byte : slave' = Given(ack, next)
        BY <1>3, ReactCases
    <2>3. CASE slave.mode = "idle"
        <3>1. slave' = slave
            BY <2>1, <2>3, GivenIdle
        <3>2. slave.bits = 0 /\ slave.out = 1
            BY <1>0, <2>3 DEF OutInv
        <3> QED BY <1>3, <2>3, <3>1, <3>2 DEF OutInv
    <2>4. CASE slave.mode = "receive"
        <3>1. CASE slave.bits < 8
            <4>1. slave' = slave /\ slave.out = 1
                BY <1>0, <2>1, <2>4, <3>1, GivenReceive DEF OutInv, Level
            <4> QED BY <1>0, <2>4, <3>1, <4>1 DEF OutInv
        <3>2. CASE slave.bits = 8
            <4>1. slave' \in Slave /\ slave'.mode = "receive" /\ slave'.bits = 8
                BY <2>1, <2>4, <3>2, GivenReceive
            <4> QED BY <1>3, <4>1 DEF OutInv
        <3>3. CASE slave.bits = 9 /\ slave.out = 1
            <4>1. slave' = Stopped
                BY <2>1, <2>4, <3>3, GivenReceive
            <4> QED BY <4>1, StartedStopped DEF OutInv
        <3>4. CASE slave.bits = 9 /\ slave.out = 0
            <4>1. /\ slave' \in Slave /\ slave'.bits = 0
                  /\ \/ slave'.mode = "receive" /\ slave'.out = 1
                     \/ slave'.mode = "send"
                BY <2>1, <2>4, <3>4, GivenReceive
            <4> QED BY <4>1 DEF OutInv
        <3> QED BY <1>0, <3>1, <3>2, <3>3, <3>4 DEF Level
    <2>5. CASE slave.mode = "send"
        <3>1. slave' \in Slave /\ slave'.mode = "send"
            BY <2>1, <2>5, GivenSend
        <3>2. CASE slave.bits <= 8
            <4>1. slave'.bits = slave.bits /\ (slave.bits = 8 => slave'.out = 1)
                BY <2>1, <2>5, <3>2, GivenSend
            <4> QED BY <1>0, <3>1, <3>2, <4>1 DEF OutInv
        <3>3. CASE slave.bits = 9
            <4>1. slave'.bits = 0
                BY <2>1, <2>5, <3>3, GivenSend
            <4> QED BY <3>1, <4>1 DEF OutInv
        <3> QED BY <1>0, <3>2, <3>3
    <2> QED BY <1>0, <2>3, <2>4, <2>5
<1>4. CASE lastSCL = 1 /\ scl = 1
    <2>1. slave' = slave \/ slave' = Started \/ slave' = Stopped
        BY <1>4, ReactCases
    <2>2. CASE slave' = slave
        BY <1>4, <2>2 DEF OutInv
    <2>3. CASE slave' = Started \/ slave' = Stopped
        BY <2>3, StartedStopped DEF OutInv
    <2> QED BY <2>1, <2>2, <2>3
<1> QED BY <1>1, <1>2, <1>3, <1>4 DEF Level

-----------------------------------------------------------------------------
(* What is put out                                                         *)

LEMMA Puts ==
    /\ \A sda \in Level, scl \in Level :
           /\ Put(sda, scl) \in Half
           /\ Put(sda, scl).sda = sda /\ Put(sda, scl).scl = scl /\ ~Put(sda, scl).get
    /\ Read \in Half /\ Read.sda = 1 /\ Read.scl = 1 /\ Read.get
BY DEF Put, Read, Half, Level

\* A half clock puts out what is next and leaves the rest.
LEMMA HalfFacts ==
    ASSUME I2cTypeOK, WaveInv, HalfClock
    PROVE  /\ ToCome \in Nat /\ ToCome > 0 /\ ToCome' = ToCome - 1
           /\ Head(wave) = wave[1] /\ Head(wave) \in Half
           /\ HalfOk(call, wrdata, ToCome - 1, Head(wave))
           /\ lastSDA' = Head(wave).sda /\ lastSCL' = Head(wave).scl
           /\ lastSDA' \in Level /\ lastSCL' \in Level
           /\ React(lastSDA', lastSCL')
           /\ retVal' = IF Head(wave).get THEN 2 * retVal + Wired(lastSDA') ELSE retVal
           /\ call' = call /\ wrdata' = wrdata /\ eighth' = eighth
           /\ wave' \in Seq(Half)
           /\ \A i \in 1..ToCome' : HalfOk(call', wrdata', ToCome' - i, wave'[i])
<1>1. wave \in Seq(Half) /\ wave # <<>> /\ wave' = Tail(wave)
    BY DEF I2cTypeOK, HalfClock
<1>2. /\ Tail(wave) \in Seq(Half) /\ Len(Tail(wave)) = Len(wave) - 1
      /\ \A i \in 1..Len(Tail(wave)) : Tail(wave)[i] = wave[i + 1]
      /\ Head(wave) = wave[1] /\ Head(wave) \in Half
      /\ Len(wave) \in Nat /\ Len(wave) > 0
    BY <1>1, HeadTailProperties, EmptySeq, LenProperties
<1>3. ToCome \in Nat /\ ToCome > 0 /\ ToCome' = ToCome - 1
    BY <1>1, <1>2 DEF ToCome
<1>4. HalfOk(call, wrdata, ToCome - 1, Head(wave))
    BY <1>2, <1>3 DEF WaveInv
<1>5. /\ lastSDA' = Head(wave).sda /\ lastSCL' = Head(wave).scl
      /\ React(lastSDA', lastSCL')
      /\ retVal' = IF Head(wave).get THEN 2 * retVal + Wired(lastSDA') ELSE retVal
      /\ call' = call /\ wrdata' = wrdata /\ eighth' = eighth
    BY DEF HalfClock
<1>6. lastSDA' \in Level /\ lastSCL' \in Level
    BY <1>2, <1>5 DEF Half
<1>7. ASSUME NEW i \in 1..ToCome' PROVE HalfOk(call', wrdata', ToCome' - i, wave'[i])
    <2>1. wave'[i] = wave[i + 1] /\ i + 1 \in 1..ToCome /\ ToCome' - i = ToCome - (i + 1)
        BY <1>1, <1>2, <1>3 DEF ToCome
    <2>2. HalfOk(call, wrdata, ToCome - (i + 1), wave[i + 1])
        BY <2>1 DEF WaveInv
    <2> QED BY <1>5, <2>1, <2>2
<1> QED BY <1>1, <1>2, <1>3, <1>4, <1>5, <1>6, <1>7

-----------------------------------------------------------------------------
(* Half a clock of each call                                               *)

LEMMA TakenOut ==
    ASSUME slave \in Slave, slave.bits < 9, slave.out = 1, NEW sda \in Level
    PROVE  Taken(sda).out = 1
<1>1. slave.mode \in {"idle", "receive", "send"} /\ slave.bits \in 0..9
    BY SlaveFields
<1>2. CASE slave.mode = "idle"
    BY <1>2, TakenIdle
<1>3. CASE slave.mode = "receive"
    BY <1>3, TakenReceive
<1>4. CASE slave.mode = "send"
    BY <1>1, <1>4, TakenSend, StartedStopped DEF Level
<1> QED BY <1>1, <1>2, <1>3, <1>4

\* What half a clock makes of the bus and of the slave
LEMMA HalfMoves ==
    ASSUME I2cTypeOK, WaveInv, OutInv, HalfClock
    PROVE  /\ slave' \in Slave /\ OutInv'
           /\ lastSCL = 0 /\ lastSCL' = 0 => slave' = slave
           /\ lastSCL = 0 /\ lastSCL' = 1 => slave.bits < 9 /\ slave' = Taken(Wired(lastSDA'))
           /\ lastSCL = 1 /\ lastSCL' = 0 =>
                  \E ack \in Level, next \in Byte : slave' = Given(ack, next)
           /\ lastSCL = 1 /\ lastSCL' = 1 =>
                  slave' = IF Wired(lastSDA') = Wired(lastSDA) THEN slave
                           ELSE IF Wired(lastSDA') = 0 THEN Started ELSE Stopped
           /\ Wired(lastSDA') \in Level
<1>1. /\ lastSDA' \in Level /\ lastSCL' \in Level /\ React(lastSDA', lastSCL')
      /\ slave \in Slave /\ lastSCL \in Level
    BY HalfFacts DEF I2cTypeOK
<1>2. slave' \in Slave /\ OutInv'
    BY <1>1, ReactKeeps
<1>3. lastSCL = 0 => slave.bits < 9
    BY <1>1, SlaveFields DEF OutInv
<1>4. Wired(lastSDA') \in Level
    BY <1>1, WiredLevel
<1>5. /\ lastSCL = 0 /\ lastSCL' = 0 => slave' = slave
      /\ lastSCL = 0 /\ lastSCL' = 1 => slave' = Taken(Wired(lastSDA'))
      /\ lastSCL = 1 /\ lastSCL' = 0 => \E ack \in Level, next \in Byte : slave' = Given(ack, next)
      /\ lastSCL = 1 /\ lastSCL' = 1 =>
             slave' = IF Wired(lastSDA') = Wired(lastSDA) THEN slave
                      ELSE IF Wired(lastSDA') = 0 THEN Started ELSE Stopped
    BY <1>1, ReactCases
<1> QED BY <1>2, <1>3, <1>4, <1>5

LEMMA StartHalf ==
    ASSUME I2cInv, HalfClock, call = "start"
    PROVE  StartInv' /\ retVal' = retVal
<1>1. /\ ToCome \in Nat /\ ToCome > 0 /\ ToCome' = ToCome - 1
      /\ Head(wave) = wave[1] /\ Head(wave) \in Half
      /\ HalfOk(call, wrdata, ToCome - 1, Head(wave))
      /\ lastSDA' = Head(wave).sda /\ lastSCL' = Head(wave).scl
      /\ retVal' = IF Head(wave).get THEN 2 * retVal + Wired(lastSDA') ELSE retVal
      /\ eighth' = eighth
    BY HalfFacts DEF I2cInv
<1>2. /\ slave' \in Slave
      /\ lastSCL = 0 /\ lastSCL' = 0 => slave' = slave
      /\ lastSCL = 0 /\ lastSCL' = 1 => slave.bits < 9 /\ slave' = Taken(Wired(lastSDA'))
      /\ lastSCL = 1 /\ lastSCL' = 1 =>
             slave' = IF Wired(lastSDA') = Wired(lastSDA) THEN slave
                      ELSE IF Wired(lastSDA') = 0 THEN Started ELSE Stopped
      /\ Wired(lastSDA') \in Level
    BY HalfMoves DEF I2cInv
<1>3. /\ slave \in Slave /\ lastSCL \in Level
      /\ StartInv
    BY DEF I2cInv, I2cTypeOK, I2cCallInv
<1>4. retVal' = retVal
    BY <1>1 DEF HalfOk
<1>5. ToCome \in 1..3
    BY <1>1, <1>3 DEF StartInv
<1>6. Wired(1) = slave.out /\ slave.out \in Level /\ Wired(0) = 0
    BY <1>3, WiredLevel, SlaveFields DEF Level, Wired
<1>7. CASE ToCome = 3
    <2>1. Head(wave) = Put(1, lastSCL)
        BY <1>1, <1>7 DEF I2cInv, WaveInv
    <2>2. lastSDA' = 1 /\ lastSCL' = lastSCL /\ lastSDA = 1
        BY <1>1, <1>3, <1>7, <2>1, Puts DEF StartInv, Level
    <2>3. slave' = slave
        BY <1>2, <1>3, <2>2 DEF Level
    <2> QED BY <1>1, <1>3, <1>4, <1>7, <2>2, <2>3 DEF StartInv, Held
<1>8. CASE ToCome = 2
    <2>1. Head(wave) = Put(1, 1)
        BY <1>1, <1>8 DEF HalfOk
    <2>2. lastSDA' = 1 /\ lastSCL' = 1 /\ lastSDA = 1
        BY <1>1, <1>3, <1>8, <2>1, Puts DEF StartInv, Level
    <2>3. CASE lastSCL = 1
        <3>1. slave' = slave
            BY <1>2, <2>2, <2>3
        <3> QED BY <1>1, <1>3, <1>4, <1>8, <2>2, <2>3, <3>1 DEF StartInv, Held
    <2>4. CASE lastSCL = 0
        <3>1. slave.out = 1 /\ slave.bits < 9
            BY <1>2, <1>3, <1>8, <2>2, <2>4 DEF StartInv
        <3>3. slave' = Taken(Wired(lastSDA'))
            BY <1>2, <2>2, <2>4
        <3>4. Taken(Wired(lastSDA')).out = 1
            BY <1>2, <1>3, <3>1, TakenOut
        <3>2. slave'.out = 1
            BY <3>3, <3>4
        <3> QED BY <1>1, <1>4, <1>8, <2>2, <3>2 DEF StartInv
    <2> QED BY <1>3, <2>3, <2>4 DEF Level
<1>9. CASE ToCome = 1
    <2>1. Head(wave) = Put(0, 1)
        BY <1>1, <1>9 DEF HalfOk
    <2>2. lastSDA' = 0 /\ lastSCL' = 1 /\ lastSDA = 1 /\ lastSCL = 1
        BY <1>1, <1>3, <1>9, <2>1, Puts DEF StartInv, Level
    <2>3. slave' = IF slave.out = 0 THEN slave ELSE Started
        BY <1>2, <1>6, <2>2
    <2>4. slave.out = 1 \/ (eighth /\ Held /\ slave.out = 0)
        BY <1>3, <1>9 DEF StartInv, Held
    <2>5. slave' = Started \/ (eighth' /\ Held')
        <3>1. CASE slave.out = 1
            BY <2>3, <3>1
        <3>2. CASE eighth /\ Held /\ slave.out = 0
            BY <1>1, <2>3, <3>2 DEF Held
        <3> QED BY <2>4, <3>1, <3>2
    <2> QED BY <1>1, <1>4, <1>9, <2>2, <2>5, StartedStopped DEF StartInv, Started
<1> QED BY <1>5, <1>7, <1>8, <1>9

LEMMA StopHalf ==
    ASSUME I2cInv, HalfClock, call = "stop"
    PROVE  StopInv' /\ retVal' = retVal
<1>1. /\ ToCome \in Nat /\ ToCome > 0 /\ ToCome' = ToCome - 1
      /\ HalfOk(call, wrdata, ToCome - 1, Head(wave))
      /\ lastSDA' = Head(wave).sda /\ lastSCL' = Head(wave).scl
      /\ retVal' = IF Head(wave).get THEN 2 * retVal + Wired(lastSDA') ELSE retVal
    BY HalfFacts DEF I2cInv
<1>2. /\ slave' \in Slave
      /\ lastSCL = 0 /\ lastSCL' = 0 => slave' = slave
      /\ lastSCL = 0 /\ lastSCL' = 1 => slave.bits < 9 /\ slave' = Taken(Wired(lastSDA'))
      /\ lastSCL = 1 /\ lastSCL' = 1 =>
             slave' = IF Wired(lastSDA') = Wired(lastSDA) THEN slave
                      ELSE IF Wired(lastSDA') = 0 THEN Started ELSE Stopped
      /\ Wired(lastSDA') \in Level
    BY HalfMoves DEF I2cInv
<1>3. /\ slave \in Slave /\ StopInv
    BY DEF I2cInv, I2cTypeOK, I2cCallInv
<1>4. retVal' = retVal
    BY <1>1 DEF HalfOk
<1>5. ToCome \in 1..3
    BY <1>1, <1>3 DEF StopInv
<1>6. Wired(1) = slave.out /\ Wired(0) = 0
    BY <1>3, WiredLevel DEF Level, Wired
<1>7. CASE ToCome = 3
    <2>1. Head(wave) = Put(0, 0)
        BY <1>1, <1>7 DEF HalfOk
    <2>2. lastSCL' = 0 /\ slave' = slave
        BY <1>1, <1>2, <1>3, <1>7, <2>1, Puts DEF StopInv, Level
    <2> QED BY <1>1, <1>3, <1>4, <1>7, <2>2 DEF StopInv
<1>8. CASE ToCome = 2
    <2>1. Head(wave) = Put(0, 1)
        BY <1>1, <1>8 DEF HalfOk
    <2>2. lastSDA' = 0 /\ lastSCL' = 1 /\ lastSCL = 0
        BY <1>1, <1>3, <1>8, <2>1, Puts DEF StopInv, Level
    <2>3. slave'.out = 1
        BY <1>2, <1>3, <1>8, <2>2, TakenOut DEF StopInv
    <2> QED BY <1>1, <1>4, <1>8, <2>2, <2>3 DEF StopInv
<1>9. CASE ToCome = 1
    <2>1. Head(wave) = Put(1, 1)
        BY <1>1, <1>9 DEF HalfOk
    <2>2. lastSDA' = 1 /\ lastSCL' = 1 /\ lastSDA = 0 /\ lastSCL = 1 /\ slave.out = 1
        BY <1>1, <1>3, <1>9, <2>1, Puts DEF StopInv, Level
    <2>3. slave' = Stopped
        BY <1>2, <1>6, <2>2
    <2> QED BY <1>1, <1>4, <1>9, <2>2, <2>3 DEF StopInv, Stopped, Started
<1> QED BY <1>5, <1>7, <1>8, <1>9

LEMMA WriteHalf ==
    ASSUME I2cInv, HalfClock, call = "writeByte"
    PROVE  WriteInv' /\ retVal' = retVal
<1>1. /\ ToCome \in Nat /\ ToCome > 0 /\ ToCome' = ToCome - 1
      /\ Head(wave) \in Half
      /\ HalfOk(call, wrdata, ToCome - 1, Head(wave))
      /\ lastSDA' = Head(wave).sda /\ lastSCL' = Head(wave).scl
      /\ lastSDA' \in Level /\ lastSCL' \in Level
      /\ retVal' = IF Head(wave).get THEN 2 * retVal + Wired(lastSDA') ELSE retVal
      /\ wrdata' = wrdata
    BY HalfFacts DEF I2cInv
<1>2. /\ lastSCL = 0 /\ lastSCL' = 0 => slave' = slave
      /\ lastSCL = 0 /\ lastSCL' = 1 => slave' = Taken(Wired(lastSDA'))
      /\ lastSCL = 1 /\ lastSCL' = 0 =>
             \E ack \in Level, next \in Byte : slave' = Given(ack, next)
      /\ Wired(lastSDA') \in Level
    BY HalfMoves DEF I2cInv
<1>3. /\ slave \in Slave /\ lastSCL \in Level /\ wrdata \in 0..255
      /\ WriteInv
    BY DEF I2cInv, I2cTypeOK, I2cCallInv
<1>4. retVal' = retVal
    BY <1>1 DEF HalfOk
<1>5. ToCome \in 1..25
    BY <1>1, <1>3 DEF WriteInv
<1>6. CASE ToCome = 25
    <2>1. lastSCL' = 0
        BY <1>1, <1>6 DEF HalfOk
    <2>3. slave'.mode = "receive" /\ slave'.bits = 0 /\ slave'.byte = 0 /\ slave'.out = 1
        <3>1. CASE lastSCL = 0 /\ Ready
            BY <1>2, <2>1, <3>1 DEF Ready
        <3>2. CASE lastSCL = 1 /\ slave = Started
            <4>1. PICK ack \in Level, next \in Byte : slave' = Given(ack, next)
                BY <1>2, <2>1, <3>2
            <4>2. Given(ack, next) = slave
                BY <1>3, <3>2, GivenReceive, StartedStopped
            <4> QED BY <3>2, <4>1, <4>2, StartedStopped
        <3>3. CASE lastSCL = 1 /\ Held
            <4>1. PICK ack \in Level, next \in Byte : slave' = Given(ack, next)
                BY <1>2, <2>1, <3>3
            <4> QED BY <1>3, <3>3, <4>1, GivenReceive DEF Held
        <3> QED BY <1>3, <1>6, <3>1, <3>2, <3>3 DEF WriteInv
    <2>4. slave'.byte = wrdata' \div 2^(8 - slave'.bits)
        <3>1. wrdata \div 256 = 0
            BY <1>3
        <3> QED BY <1>1, <2>3, <3>1, Powers
    <2>5. ToCome' = 24 /\ 24 % 3 = 0 /\ (25 - 24) \div 3 = 0
        BY <1>1, <1>6
    <2> QED BY <1>4, <2>1, <2>3, <2>4, <2>5 DEF WriteInv
<1>7. CASE ToCome <= 24
    <2> DEFINE r == ToCome - 1
    <2>1. /\ lastSCL = IF ToCome % 3 = 1 THEN 1 ELSE 0
          /\ slave.mode = "receive" /\ slave.bits = (25 - ToCome) \div 3
          /\ slave.byte = wrdata \div 2^(8 - slave.bits)
          /\ slave.bits < 8 => slave.out = 1
        BY <1>3, <1>7 DEF WriteInv
    <2>2. /\ r \in 0..23 /\ ToCome = r + 1 /\ ToCome' = r
          /\ Head(wave) = Put(Bit(wrdata, r \div 3), IF r % 3 = 1 THEN 1 ELSE 0)
        BY <1>1, <1>5, <1>7 DEF HalfOk
    <2> HIDE DEF r
    <2>3. /\ lastSDA' = Bit(wrdata, r \div 3) /\ Bit(wrdata, r \div 3) \in Level
          /\ lastSCL' = IF r % 3 = 1 THEN 1 ELSE 0
        <3>1. r \div 3 \in 0..7
            BY <2>2
        <3>2. Bit(wrdata, r \div 3) \in Level
            BY <1>3, <3>1, BitLevel
        <3>3. (IF r % 3 = 1 THEN 1 ELSE 0) \in Level
            BY DEF Level
        <3> QED BY <1>1, <2>2, <3>2, <3>3, Puts
    <2>4. CASE r % 3 = 1
        <3>1. /\ (r + 1) % 3 = 2 /\ (25 - (r + 1)) \div 3 \in 0..7
              /\ (25 - r) \div 3 = (25 - (r + 1)) \div 3 + 1
              /\ r \div 3 = 7 - (25 - (r + 1)) \div 3
            BY <2>2, <2>4
        <3> DEFINE j == slave.bits
        <3>2. /\ lastSCL = 0 /\ lastSCL' = 1 /\ j \in 0..7 /\ (25 - r) \div 3 = j + 1
              /\ r \div 3 = 7 - j
            BY <2>1, <2>2, <2>3, <2>4, <3>1
        <3>3. slave.out = 1 /\ Wired(lastSDA') = Bit(wrdata, 7 - j)
            BY <1>1, <1>3, <2>1, <2>3, <3>2, WiredLevel
        <3>4. /\ slave'.mode = "receive" /\ slave'.bits = j + 1 /\ slave'.out = 1
              /\ slave'.byte = (2 * slave.byte + Bit(wrdata, 7 - j)) % 256
            <4> DEFINE level == Wired(lastSDA')
            <4>1. slave' = Taken(level) /\ level \in Level /\ slave.bits < 9
                BY <1>2, <3>2
            <4> HIDE DEF level
            <4>2. /\ Taken(level).mode = "receive" /\ Taken(level).bits = slave.bits + 1
                  /\ Taken(level).byte = (2 * slave.byte + level) % 256
                  /\ Taken(level).out = slave.out
                BY <1>3, <2>1, <3>2, <4>1, TakenReceive
            <4> QED BY <3>3, <4>1, <4>2 DEF level
        <3>5. slave'.byte = wrdata' \div 2^(8 - slave'.bits)
            <4>0. ShiftsIn(wrdata, j)
                <5>1. wrdata \in 0..255 /\ j \in 0..7
                    BY <1>3, <3>2
                <5> QED BY <5>1, ShiftIn, Zenon
            <4>1. 2 * slave.byte + Bit(wrdata, 7 - j) = wrdata \div 2^(7 - j)
                BY <2>1, <4>0, Zenon DEF ShiftsIn
            <4>2. wrdata \div 2^(7 - j) \in 0..255
                BY <4>0, Zenon DEF ShiftsIn
            <4>3. (wrdata \div 2^(7 - j)) % 256 = wrdata \div 2^(7 - j)
                BY <4>2
            <4>4. 8 - (j + 1) = 7 - j
                BY <3>2
            <4> QED BY <1>1, <3>4, <4>1, <4>3, <4>4
        <3> QED BY <1>4, <2>2, <2>4, <3>2, <3>4, <3>5 DEF WriteInv
    <2>5. CASE r % 3 = 0
        <3>1. /\ (r + 1) % 3 = 1 /\ (25 - (r + 1)) \div 3 \in 1..8
              /\ (25 - r) \div 3 = (25 - (r + 1)) \div 3
            BY <2>2, <2>5
        <3>2. lastSCL = 1 /\ lastSCL' = 0 /\ slave.bits \in 1..8 /\ (25 - r) \div 3 = slave.bits
            BY <2>1, <2>2, <2>3, <2>5, <3>1
        <3>3. PICK ack \in Level, next \in Byte : slave' = Given(ack, next)
            BY <1>2, <3>2
        <3>4. /\ slave'.mode = "receive" /\ slave'.bits = slave.bits /\ slave'.byte = slave.byte
              /\ slave.bits < 8 => slave'.out = 1
            BY <1>3, <2>1, <3>2, <3>3, GivenReceive
        <3>5. slave'.byte = wrdata' \div 2^(8 - slave'.bits)
            BY <1>1, <2>1, <3>4
        <3> QED BY <1>4, <2>2, <2>3, <2>5, <3>2, <3>4, <3>5 DEF WriteInv
    <2>6. CASE r % 3 = 2
        <3>1. (r + 1) % 3 = 0 /\ (25 - r) \div 3 = (25 - (r + 1)) \div 3
            BY <2>2, <2>6
        <3>2. lastSCL = 0 /\ lastSCL' = 0 /\ (25 - r) \div 3 = slave.bits
            BY <2>1, <2>2, <2>3, <2>6, <3>1
        <3>3. slave' = slave
            BY <1>2, <3>2
        <3>4. slave'.byte = wrdata' \div 2^(8 - slave'.bits)
            BY <1>1, <2>1, <3>3
        <3> QED BY <1>4, <2>1, <2>2, <2>6, <3>2, <3>3, <3>4 DEF WriteInv
    <2> QED BY <2>2, <2>4, <2>5, <2>6
<1> QED BY <1>5, <1>6, <1>7

LEMMA GetAckHalf ==
    ASSUME I2cInv, HalfClock, call = "getAck"
    PROVE  GetAckInv' /\ retVal' \in Level
<1>1. /\ ToCome \in Nat /\ ToCome > 0 /\ ToCome' = ToCome - 1
      /\ HalfOk(call, wrdata, ToCome - 1, Head(wave))
      /\ lastSDA' = Head(wave).sda /\ lastSCL' = Head(wave).scl
      /\ retVal' = IF Head(wave).get THEN 2 * retVal + Wired(lastSDA') ELSE retVal
    BY HalfFacts DEF I2cInv
<1>2. /\ lastSCL = 0 /\ lastSCL' = 0 => slave' = slave
      /\ lastSCL = 0 /\ lastSCL' = 1 => slave' = Taken(Wired(lastSDA'))
      /\ lastSCL = 1 /\ lastSCL' = 0 =>
             \E ack \in Level, next \in Byte : slave' = Given(ack, next)
      /\ Wired(lastSDA') \in Level
    BY HalfMoves DEF I2cInv
<1>3. slave \in Slave /\ slave.out \in Level /\ GetAckInv
    BY SlaveFields DEF I2cInv, I2cTypeOK, I2cCallInv
<1>4. ToCome \in 1..4
    BY <1>1, <1>3 DEF GetAckInv
<1>5. Wired(1) = slave.out
    BY <1>3, WiredLevel DEF Level
<1>6. CASE ToCome \in {3, 4}
    <2>1. Head(wave).scl = 0 /\ ~Head(wave).get
        BY <1>1, <1>6, Puts DEF HalfOk, Level
    <2>2. lastSCL' = 0 /\ slave' = slave /\ retVal' = retVal
        BY <1>1, <1>2, <1>3, <1>6, <2>1 DEF GetAckInv
    <2> QED BY <1>1, <1>3, <1>6, <2>2 DEF GetAckInv, Level
<1>7. CASE ToCome = 2
    <2>1. Head(wave) = Read
        BY <1>1, <1>7 DEF HalfOk
    <2>2. /\ lastSDA' = 1 /\ lastSCL' = 1 /\ retVal' = slave.out
          /\ slave.mode = "receive" /\ slave.bits = 8 /\ lastSCL = 0
        BY <1>1, <1>3, <1>5, <1>7, <2>1, Puts DEF GetAckInv, Level
    <2>3. slave' = Taken(slave.out)
        BY <1>2, <1>5, <2>2
    <2>4. /\ Taken(slave.out).mode = "receive" /\ Taken(slave.out).bits = 9
          /\ Taken(slave.out).out = slave.out
        BY <1>3, <2>2, TakenReceive
    <2> QED BY <1>1, <1>3, <1>7, <2>2, <2>3, <2>4 DEF GetAckInv
<1>8. CASE ToCome = 1
    <2>1. Head(wave) = Put(1, 0)
        BY <1>1, <1>8 DEF HalfOk
    <2>2. /\ lastSDA' = 1 /\ lastSCL' = 0 /\ retVal' = retVal
          /\ slave.mode = "receive" /\ slave.bits = 9 /\ lastSCL = 1 /\ retVal = slave.out
        BY <1>1, <1>3, <1>8, <2>1, Puts DEF GetAckInv, Level
    <2>3. PICK ack \in Level, next \in Byte : slave' = Given(ack, next)
        BY <1>2, <2>2
    <2>4. slave.out = 1 => slave' = Stopped
        BY <1>3, <2>2, <2>3, GivenReceive
    <2>5. ASSUME slave.out = 0 PROVE slave'.addressed /\ (Ready' \/ Offers')
        BY <1>3, <2>2, <2>3, <2>5, GivenReceive DEF Ready, Offers
    <2> QED BY <1>1, <1>3, <1>8, <2>2, <2>4, <2>5 DEF GetAckInv, Level
<1> QED BY <1>4, <1>6, <1>7, <1>8

LEMMA ReadHalf ==
    ASSUME I2cInv, HalfClock, call = "readByte"
    PROVE  ReadInv' /\ retVal' \in 0..255
<1>1. /\ ToCome \in Nat /\ ToCome > 0 /\ ToCome' = ToCome - 1
      /\ HalfOk(call, wrdata, ToCome - 1, Head(wave))
      /\ lastSDA' = Head(wave).sda /\ lastSCL' = Head(wave).scl
      /\ retVal' = IF Head(wave).get THEN 2 * retVal + Wired(lastSDA') ELSE retVal
    BY HalfFacts DEF I2cInv
<1>2. /\ lastSCL = 0 /\ lastSCL' = 0 => slave' = slave
      /\ lastSCL = 0 /\ lastSCL' = 1 => slave' = Taken(Wired(lastSDA'))
      /\ lastSCL = 1 /\ lastSCL' = 0 =>
             \E ack \in Level, next \in Byte : slave' = Given(ack, next)
      /\ Wired(lastSDA') \in Level
    BY HalfMoves DEF I2cInv
<1>3. /\ slave \in Slave /\ slave.out \in Level /\ slave.byte \in 0..255 /\ slave.bits \in 0..9
      /\ lastSCL \in Level /\ retVal \in 0..255 /\ ReadInv
    BY SlaveFields DEF I2cInv, I2cTypeOK, I2cCallInv
<1>4. ToCome \in 1..18 /\ slave.mode = "send"
    BY <1>1, <1>3 DEF ReadInv
<1>5. Wired(1) = slave.out
    BY <1>3, WiredLevel DEF Level
<1>6. CASE ToCome = 18
    <2>1. Head(wave).scl = 0 /\ ~Head(wave).get
        BY <1>1, <1>6 DEF HalfOk
    <2>2. lastSCL' = 0 /\ slave' = slave /\ retVal' = retVal
        BY <1>1, <1>2, <1>3, <1>6, <2>1 DEF ReadInv
    <2> QED BY <1>1, <1>3, <1>6, <2>2 DEF ReadInv
<1> DEFINE r == ToCome - 1
<1> DEFINE j == slave.bits
<1>7. CASE ToCome <= 17 /\ r % 2 = 1
    <2>1. Head(wave) = Read /\ r \in 1..16 /\ ToCome = r + 1 /\ ToCome' = r
        BY <1>1, <1>4, <1>7 DEF HalfOk
    <2>2. (r + 1) % 2 = 0 /\ r <= 15
        BY <1>7, <2>1
    <2>3. /\ lastSCL = 0 /\ j \in 0..7 /\ (17 - r) \div 2 = j + 1
        <3>1. CASE r = 16
            BY <1>7, <3>1
        <3>2. CASE r # 16
            <4>1. r + 1 <= 16
                BY <2>1, <3>2
            <4>2. lastSCL = 0 /\ slave.bits = (17 - (r + 1)) \div 2
                BY <1>3, <2>1, <2>2, <4>1 DEF ReadInv
            <4> HIDE DEF r
            <4> QED BY <1>7, <2>1, <2>2, <4>2
        <3> QED BY <3>1, <3>2
    <2>4. /\ lastSDA' = 1 /\ lastSCL' = 1 /\ retVal' = 2 * retVal + slave.out
        BY <1>1, <1>5, <2>1, Puts DEF Level
    <2>5. slave.out = Bit(slave.byte, 7 - j)
        BY <1>3, <2>3 DEF ReadInv
    <2>6. /\ slave'.mode = "send" /\ slave'.bits = j + 1 /\ slave'.byte = slave.byte
        <3>1. slave' = Taken(slave.out)
            BY <1>2, <1>5, <2>3, <2>4
        <3>2. /\ Taken(slave.out).mode = "send" /\ Taken(slave.out).bits = slave.bits + 1
              /\ Taken(slave.out).byte = slave.byte
            <4> DEFINE level == slave.out
            <4>1. level \in Level /\ slave.bits < 8 /\ slave.bits < 9
                BY <1>3, <2>3
            <4> HIDE DEF level
            <4>2. /\ Taken(level).mode = "send" /\ Taken(level).bits = slave.bits + 1
                  /\ Taken(level).byte = slave.byte
                BY <1>3, <1>4, <4>1, TakenSend
            <4> QED BY <4>2 DEF level
        <3> QED BY <3>1, <3>2
    <2>7. retVal' = slave.byte \div 2^(7 - j) /\ retVal' \in 0..255
        <3>1. retVal = slave.byte \div 2^(8 - j)
            BY <1>3 DEF ReadInv
        <3>0. ShiftsIn(slave.byte, j)
            <4>1. slave.byte \in 0..255 /\ j \in 0..7
                BY <1>3, <2>3
            <4> QED BY <4>1, ShiftIn, Zenon
        <3>2. 2 * (slave.byte \div 2^(8 - j)) + Bit(slave.byte, 7 - j) = slave.byte \div 2^(7 - j)
            BY <3>0, Zenon DEF ShiftsIn
        <3>3. slave.byte \div 2^(7 - j) \in 0..255
            BY <3>0, Zenon DEF ShiftsIn
        <3> QED BY <2>4, <2>5, <3>1, <3>2, <3>3
    <2>8. 8 - (j + 1) = 7 - j
        BY <2>3
    <2>9. retVal' = slave'.byte \div 2^(8 - slave'.bits)
        BY <2>6, <2>7, <2>8
    <2> HIDE DEF r, j
    <2> QED BY <1>7, <2>1, <2>2, <2>3, <2>4, <2>6, <2>7, <2>9 DEF ReadInv
<1>8. CASE ToCome <= 17 /\ r % 2 = 0
    <2>1. Head(wave) = Put(1, 0) /\ r \in 0..16 /\ ToCome = r + 1 /\ ToCome' = r
        BY <1>1, <1>4, <1>8 DEF HalfOk
    <2>2. lastSDA' = 1 /\ lastSCL' = 0 /\ retVal' = retVal
        BY <1>1, <2>1, Puts DEF Level
    <2>3. CASE r = 16
        <3>1. lastSCL = 0 /\ j = 0
            BY <1>3, <2>1, <2>3 DEF ReadInv
        <3>2. slave' = slave
            BY <1>2, <2>2, <3>1
        <3>3. ToCome' = 16 /\ 16 % 2 = 0 /\ (17 - 16) \div 2 = 0
            BY <2>1, <2>3
        <3>4. /\ retVal' = slave'.byte \div 2^(8 - slave'.bits)
              /\ slave'.out = IF slave'.bits = 8 THEN 1 ELSE Bit(slave'.byte, 7 - slave'.bits)
            BY <1>3, <2>2, <3>1, <3>2 DEF ReadInv
        <3> HIDE DEF r
        <3> QED BY <1>3, <1>4, <2>2, <3>1, <3>2, <3>3, <3>4 DEF ReadInv
    <2>4. CASE r # 16
        <3>1. (r + 1) % 2 = 1 /\ r + 1 <= 16
            BY <1>8, <2>1, <2>4
        <3>2. lastSCL = 1 /\ j = (17 - (r + 1)) \div 2
            BY <1>3, <2>1, <3>1 DEF ReadInv
        <3>3. j \in 1..8 /\ (17 - r) \div 2 = j
            <4> HIDE DEF r
            <4> QED BY <1>8, <2>1, <2>4, <3>2
        <3>4. PICK ack \in Level, next \in Byte : slave' = Given(ack, next)
            BY <1>2, <2>2, <3>2
        <3>5. /\ slave'.mode = "send" /\ slave'.bits = j /\ slave'.byte = slave.byte
              /\ slave'.out = IF j = 8 THEN 1 ELSE Bit(slave.byte, 7 - j)
            BY <1>3, <1>4, <3>3, <3>4, GivenSend
        <3>6. retVal' = slave'.byte \div 2^(8 - slave'.bits)
            BY <1>3, <2>2, <3>5 DEF ReadInv
        <3> HIDE DEF r, j
        <3> QED BY <1>3, <1>8, <2>1, <2>2, <2>4, <3>3, <3>5, <3>6 DEF ReadInv
    <2> QED BY <2>3, <2>4
<1> QED BY <1>4, <1>6, <1>7, <1>8

LEMMA SetAckHalf ==
    ASSUME I2cInv, HalfClock, call = "setAck"
    PROVE  SetAckInv' /\ retVal' = retVal
<1>1. /\ ToCome \in Nat /\ ToCome > 0 /\ ToCome' = ToCome - 1
      /\ HalfOk(call, wrdata, ToCome - 1, Head(wave))
      /\ lastSDA' = Head(wave).sda /\ lastSCL' = Head(wave).scl
      /\ retVal' = IF Head(wave).get THEN 2 * retVal + Wired(lastSDA') ELSE retVal
    BY HalfFacts DEF I2cInv
<1>2. /\ lastSCL = 0 /\ lastSCL' = 0 => slave' = slave
      /\ lastSCL = 0 /\ lastSCL' = 1 => slave' = Taken(Wired(lastSDA'))
      /\ lastSCL = 1 /\ lastSCL' = 0 =>
             \E ack \in Level, next \in Byte : slave' = Given(ack, next)
      /\ Wired(lastSDA') \in Level
    BY HalfMoves DEF I2cInv
<1>3. slave \in Slave /\ slave.out \in Level /\ SetAckInv
    BY SlaveFields DEF I2cInv, I2cTypeOK, I2cCallInv
<1>4. ToCome \in 1..5
    BY <1>1, <1>3 DEF SetAckInv
<1>5. retVal' = retVal
    BY <1>1 DEF HalfOk
<1>6. CASE ToCome \in {4, 5}
    <2>1. Head(wave).scl = 0
        BY <1>1, <1>6 DEF HalfOk
    <2>2. lastSCL' = 0 /\ slave' = slave
        BY <1>1, <1>2, <1>3, <1>6, <2>1 DEF SetAckInv
    <2> QED BY <1>1, <1>3, <1>5, <1>6, <2>2 DEF SetAckInv
<1>7. CASE ToCome = 3
    <2>1. Head(wave) = Put(0, 1)
        BY <1>1, <1>7 DEF HalfOk
    <2>2. lastSDA' = 0 /\ lastSCL' = 1 /\ lastSCL = 0 /\ slave.mode = "send" /\ slave.bits = 8
        BY <1>1, <1>3, <1>7, <2>1, Puts DEF SetAckInv, Level
    <2>3. slave' = Taken(0)
        BY <1>2, <2>2 DEF Wired
    <2>4. Taken(0).mode = "send" /\ Taken(0).bits = 9
        BY <1>3, <2>2, TakenSend DEF Level
    <2> QED BY <1>1, <1>3, <1>5, <1>7, <2>2, <2>3, <2>4 DEF SetAckInv
<1>8. CASE ToCome = 2
    <2>1. lastSCL' = 0 /\ lastSCL = 1 /\ slave.mode = "send" /\ slave.bits = 9
        BY <1>1, <1>3, <1>8 DEF HalfOk, SetAckInv
    <2>2. PICK ack \in Level, next \in Byte : slave' = Given(ack, next)
        BY <1>2, <2>1
    <2>3. /\ slave'.mode = "send" /\ slave'.bits = 0
          /\ slave'.byte = next /\ slave'.out = Bit(next, 7)
        BY <1>3, <2>1, <2>2, GivenSend
    <2> QED BY <1>1, <1>3, <1>5, <1>8, <2>1, <2>3 DEF SetAckInv, Offers
<1>9. CASE ToCome = 1
    <2>1. Head(wave) = Put(1, 0)
        BY <1>1, <1>9 DEF HalfOk
    <2>2. lastSCL' = 0 /\ slave' = slave
        BY <1>1, <1>2, <1>3, <1>9, <2>1, Puts DEF SetAckInv, Level
    <2> QED BY <1>1, <1>3, <1>5, <1>9, <2>2 DEF SetAckInv, Offers
<1> QED BY <1>4, <1>6, <1>7, <1>8, <1>9

LEMMA NackHalf ==
    ASSUME I2cInv, HalfClock, call = "nack"
    PROVE  NackInv' /\ retVal' = retVal
<1>1. /\ ToCome \in Nat /\ ToCome > 0 /\ ToCome' = ToCome - 1
      /\ HalfOk(call, wrdata, ToCome - 1, Head(wave))
      /\ lastSDA' = Head(wave).sda /\ lastSCL' = Head(wave).scl
      /\ retVal' = IF Head(wave).get THEN 2 * retVal + Wired(lastSDA') ELSE retVal
    BY HalfFacts DEF I2cInv
<1>2. /\ lastSCL = 0 /\ lastSCL' = 0 => slave' = slave
      /\ lastSCL = 0 /\ lastSCL' = 1 => slave' = Taken(Wired(lastSDA'))
      /\ lastSCL = 1 /\ lastSCL' = 0 =>
             \E ack \in Level, next \in Byte : slave' = Given(ack, next)
      /\ Wired(lastSDA') \in Level
    BY HalfMoves DEF I2cInv
<1>3. slave \in Slave /\ NackInv /\ OutInv
    BY DEF I2cInv, I2cTypeOK, I2cCallInv
<1>4. ToCome \in 1..5
    BY <1>1, <1>3 DEF NackInv
<1>5. retVal' = retVal
    BY <1>1 DEF HalfOk
<1>6. CASE ToCome \in {4, 5}
    <2>1. Head(wave).scl = 0
        BY <1>1, <1>6 DEF HalfOk
    <2>2. lastSCL' = 0 /\ slave' = slave
        BY <1>1, <1>2, <1>3, <1>6, <2>1 DEF NackInv
    <2> QED BY <1>1, <1>3, <1>5, <1>6, <2>2 DEF NackInv
<1>7. CASE ToCome = 3
    <2>1. Head(wave) = Put(1, 1)
        BY <1>1, <1>7 DEF HalfOk
    <2>2. lastSDA' = 1 /\ lastSCL' = 1 /\ lastSCL = 0 /\ slave.mode = "send" /\ slave.bits = 8
        BY <1>1, <1>3, <1>7, <2>1, Puts DEF NackInv, Level
    <2>3. slave.out = 1
        BY <1>3, <2>2 DEF OutInv
    <2>4. slave' = Taken(1)
        BY <1>2, <2>2, <2>3 DEF Wired
    <2>5. Taken(1) = Stopped
        BY <1>3, <2>2, TakenSend DEF Level
    <2> QED BY <1>1, <1>3, <1>5, <1>7, <2>2, <2>4, <2>5 DEF NackInv
<1>8. CASE ToCome = 2
    <2>1. lastSCL' = 0 /\ lastSCL = 1 /\ slave = Stopped
        BY <1>1, <1>3, <1>8 DEF HalfOk, NackInv
    <2>2. PICK ack \in Level, next \in Byte : slave' = Given(ack, next)
        BY <1>2, <2>1
    <2>3. slave' = slave
        BY <2>1, <2>2, GivenIdle, StartedStopped
    <2> QED BY <1>1, <1>3, <1>5, <1>8, <2>1, <2>3 DEF NackInv, Stopped, Started
<1>9. CASE ToCome = 1
    <2>1. Head(wave) = Put(1, 0)
        BY <1>1, <1>9 DEF HalfOk
    <2>2. lastSDA' = 1 /\ lastSCL' = 0 /\ slave' = slave
        BY <1>1, <1>2, <1>3, <1>9, <2>1, Puts DEF NackInv, Level
    <2> QED BY <1>1, <1>3, <1>5, <1>9, <2>2 DEF NackInv, Stopped, Started
<1> QED BY <1>4, <1>6, <1>7, <1>8, <1>9

\* Until the clocks begin, a slave that was not at the eighth bit does not get there.
LEMMA NotEighth ==
    ASSUME I2cInv, HalfClock, lastSCL = 1 => lastSCL' = 1, lastSDA' = 1 \/ lastSDA' = lastSDA,
           slave.mode = "receive" => slave.bits # 7 + lastSCL,
           (lastSCL = 0 /\ lastSCL' = 0) \/ lastSCL' = 1
    PROVE  slave'.mode = "receive" => slave'.bits # 7 + lastSCL'
<1>1. /\ lastSCL = 0 /\ lastSCL' = 0 => slave' = slave
      /\ lastSCL = 0 /\ lastSCL' = 1 => slave.bits < 9 /\ slave' = Taken(Wired(lastSDA'))
      /\ lastSCL = 1 /\ lastSCL' = 1 =>
             slave' = IF Wired(lastSDA') = Wired(lastSDA) THEN slave
                      ELSE IF Wired(lastSDA') = 0 THEN Started ELSE Stopped
      /\ Wired(lastSDA') \in Level
    BY HalfMoves DEF I2cInv
<1>2. /\ slave \in Slave /\ lastSCL \in Level
      /\ slave.mode \in {"idle", "receive", "send"} /\ slave.bits \in 0..9
    BY SlaveFields DEF I2cInv, I2cTypeOK
<1>3. CASE lastSCL = 0 /\ lastSCL' = 0
    BY <1>1, <1>3
<1>4. CASE lastSCL = 1 /\ lastSCL' = 1
    BY <1>1, <1>4, StartedStopped
<1>5. CASE lastSCL = 0 /\ lastSCL' = 1
    <2> DEFINE level == Wired(lastSDA')
    <2>1. slave' = Taken(level) /\ level \in Level /\ slave.bits < 9
        BY <1>1, <1>5
    <2> HIDE DEF level
    <2>2. CASE slave.mode = "idle"
        BY <2>1, <2>2, TakenIdle
    <2>3. CASE slave.mode = "receive"
        <3>1. Taken(level).bits = slave.bits + 1
            BY <1>2, <2>1, <2>3, TakenReceive
        <3>2. slave.bits # 7
            BY <1>5, <2>3
        <3> QED BY <1>2, <1>5, <2>1, <3>1, <3>2
    <2>4. CASE slave.mode = "send"
        <3>1. Taken(level) = Stopped \/ Taken(level).mode = "send"
            BY <1>2, <2>1, <2>4, TakenSend DEF Level
        <3> QED BY <2>1, <3>1, StartedStopped
    <2> QED BY <1>2, <2>2, <2>3, <2>4
<1> QED BY <1>2, <1>3, <1>4, <1>5 DEF Level

LEMMA ClearsHalf ==
    ASSUME I2cInv, HalfClock, call = "init"
    PROVE  ClearsInv' /\ retVal' = retVal
<1> DEFINE t == ToCome
<1> DEFINE pulses == 2 * Pulses
<1>1. /\ t \in Nat /\ t > 0 /\ ToCome' = t - 1
      /\ Head(wave) = wave[1] /\ Head(wave) \in Half
      /\ HalfOk(call, wrdata, t - 1, Head(wave))
      /\ lastSDA' = Head(wave).sda /\ lastSCL' = Head(wave).scl
      /\ retVal' = IF Head(wave).get THEN 2 * retVal + Wired(lastSDA') ELSE retVal
      /\ eighth' = eighth
    BY HalfFacts DEF I2cInv
<1>2. /\ slave' \in Slave
      /\ lastSCL = 0 /\ lastSCL' = 0 => slave' = slave
      /\ lastSCL = 0 /\ lastSCL' = 1 => slave.bits < 9 /\ slave' = Taken(Wired(lastSDA'))
      /\ lastSCL = 1 /\ lastSCL' = 0 =>
             \E ack \in Level, next \in Byte : slave' = Given(ack, next)
      /\ lastSCL = 1 /\ lastSCL' = 1 =>
             slave' = IF Wired(lastSDA') = Wired(lastSDA) THEN slave
                      ELSE IF Wired(lastSDA') = 0 THEN Started ELSE Stopped
      /\ Wired(lastSDA') \in Level
    BY HalfMoves DEF I2cInv
<1>3. /\ slave \in Slave /\ lastSCL \in Level /\ lastSDA \in Level /\ ClearsInv /\ OutInv
      /\ slave.mode \in {"idle", "receive", "send"} /\ slave.bits \in 0..9
      /\ slave.out \in Level
    BY SlaveFields DEF I2cInv, I2cTypeOK, I2cCallInv
<1>4. retVal' = retVal
    BY <1>1 DEF HalfOk
<1>5. pulses \in Nat /\ pulses = 2 * Pulses /\ pulses >= 36 /\ Pulses \in Nat /\ Pulses >= 18
    BY I2cBounds
<1>6. t \in 1..pulses + 8
    BY <1>1, <1>3 DEF ClearsInv
<1>7. Wired(1) = slave.out /\ Wired(0) = 0
    BY <1>3, WiredLevel DEF Level, Wired
<1>8. CASE t \in {pulses + 7, pulses + 8}
    <2>1. \/ lastSDA' = 1 /\ lastSCL' = lastSCL
          \/ (lastSDA' = lastSDA \/ lastSDA' = 1) /\ lastSCL' = 1
        <3>1. CASE t = pulses + 8
            <4>1. Head(wave) \in {Put(1, lastSCL), Put(lastSDA, 1)}
                BY <1>1, <3>1 DEF I2cInv, WaveInv
            <4> QED BY <1>1, <1>3, <4>1, Puts DEF Level
        <3>2. CASE t = pulses + 7
            <4>1. Head(wave) = Put(1, 1)
                BY <1>1, <1>5, <3>2 DEF HalfOk
            <4> QED BY <1>1, <4>1, Puts DEF Level
        <3> QED BY <1>8, <3>1, <3>2
    <2>2. t = pulses + 7 => lastSDA' = 1 /\ lastSCL' = 1
        <3>1. t = pulses + 7 => Head(wave) = Put(1, 1)
            BY <1>1, <1>5 DEF HalfOk
        <3> QED BY <1>1, <3>1, Puts DEF Level
    <2>3. slave'.mode = "receive" /\ ~eighth => slave'.bits # 7 + lastSCL'
        <3>1. ~eighth => (slave.mode = "receive" => slave.bits # 7 + lastSCL)
            BY <1>3, <1>5, <1>8 DEF ClearsInv
        <3>2. /\ lastSCL = 1 => lastSCL' = 1
              /\ lastSDA' = 1 \/ lastSDA' = lastSDA
              /\ (lastSCL = 0 /\ lastSCL' = 0) \/ lastSCL' = 1
            BY <1>3, <2>1 DEF Level
        <3> QED BY <3>1, <3>2, NotEighth
    <2> HIDE DEF t, pulses
    <2>4. ToCome' \in {pulses + 6, pulses + 7} /\ (ToCome' = pulses + 6 => t = pulses + 7)
        BY <1>1, <1>5, <1>8
    <2> QED BY <1>1, <1>4, <1>5, <2>2, <2>3, <2>4 DEF ClearsInv
<1>9. CASE t = pulses + 6
    <2>1. lastSCL' = 0 /\ lastSCL = 1 /\ ToCome' = pulses + 5
        BY <1>1, <1>3, <1>5, <1>9 DEF HalfOk, ClearsInv
    <2>2. PICK ack \in Level, next \in Byte : slave' = Given(ack, next)
        BY <1>2, <2>1
    <2>3. slave.mode = "receive" /\ ~eighth => slave.bits # 8
        BY <1>3, <1>9, <2>1 DEF ClearsInv
    <2>4. /\ slave'.bits \in 0..9
          /\ slave'.mode = "receive" /\ ~eighth => slave'.bits # 8
          /\ slave'.mode = "send" => slave'.bits <= 8
          /\ slave'.mode = "receive" => slave'.bits <= 8
        <3>1. CASE slave.mode = "idle"
            BY <1>3, <2>2, <3>1, GivenIdle
        <3>2. CASE slave.mode = "send"
            BY <1>3, <2>2, <3>2, GivenSend
        <3>3. CASE slave.mode = "receive"
            <4>1. CASE slave.bits < 8
                BY <1>3, <2>2, <3>3, <4>1, GivenReceive
            <4>2. CASE slave.bits = 8
                BY <1>3, <2>2, <2>3, <3>3, <4>2, GivenReceive
            <4>3. CASE slave.bits = 9
                BY <1>3, <2>2, <3>3, <4>3, GivenReceive, StartedStopped DEF Level
            <4> QED BY <1>3, <4>1, <4>2, <4>3
        <3> QED BY <1>3, <3>1, <3>2, <3>3
    <2>5. Clocks' = Pulses
        BY <1>5, <2>1 DEF Clocks
    <2>6. slave'.mode = "receive" /\ ~eighth' => (slave'.bits + Pulses) % 9 # 0
        <3>1. Pulses % 9 = 1
            BY I2cBounds
        <3>2. ASSUME NEW b \in 0..7 PROVE (b + Pulses) % 9 # 0
            BY <1>5, <3>1
        <3> QED BY <1>1, <2>4, <3>2
    <2>7. slave'.mode = "send" => slave'.bits + Clocks' >= 9
        BY <1>5, <2>4, <2>5
    <2>8. slave'.bits + Clocks' >= Pulses
        BY <1>5, <2>4, <2>5
    <2> HIDE DEF t
    <2>9. /\ ToCome' <= pulses + 8 /\ ~(ToCome' >= pulses + 6) /\ ToCome' # pulses + 6
          /\ ~(ToCome' <= pulses + 2) /\ ToCome' \notin {1, 2} /\ ToCome' # 0
        BY <1>5, <2>1
    <2> HIDE DEF pulses
    <2> QED BY <1>4, <1>5, <2>1, <2>4, <2>5, <2>6, <2>7, <2>8, <2>9 DEF ClearsInv
<1>10. CASE t \in pulses + 3..pulses + 5
    <2>1. lastSCL' = 0 /\ lastSCL = 0 /\ (t = pulses + 3 => lastSDA' = 1)
        <3>1. lastSCL = 0
            BY <1>3, <1>5, <1>10 DEF ClearsInv
        <3>2. CASE t = pulses + 3
            <4>1. Head(wave) = Put(1, (t - 1) % 2) /\ (t - 1) % 2 = 0
                BY <1>1, <1>5, <3>2 DEF HalfOk
            <4> QED BY <1>1, <3>1, <4>1, Puts DEF Level
        <3>3. CASE t \in {pulses + 4, pulses + 5}
            BY <1>1, <1>5, <3>1, <3>3 DEF HalfOk
        <3> QED BY <1>5, <1>10, <3>2, <3>3
    <2>2. slave' = slave
        BY <1>2, <2>1
    <2>3. Clocks = Pulses /\ Clocks' = Pulses
        BY <1>1, <1>5, <1>10 DEF Clocks
    <2>4. /\ slave.mode = "receive" /\ ~eighth => (slave.bits + Clocks) % 9 # 0
          /\ slave.mode = "receive" /\ ~slave.addressed => slave.bits + Clocks >= Pulses
          /\ slave.mode = "send" => slave.bits <= 8 /\ slave.bits + Clocks >= 9
        BY <1>3, <1>5, <1>10 DEF ClearsInv
    <2> HIDE DEF t
    <2>5. /\ ToCome' <= pulses + 8 /\ ~(ToCome' >= pulses + 6) /\ ToCome' # pulses + 6
          /\ ToCome' <= pulses + 2 => ToCome' = pulses + 2 /\ t = pulses + 3
          /\ ToCome' \notin {1, 2} /\ ToCome' # 0
        BY <1>1, <1>5, <1>10
    <2>6. (pulses + 2) % 2 = 0
        BY <1>5
    <2> HIDE DEF pulses
    <2> QED BY <1>1, <1>4, <1>5, <2>1, <2>2, <2>3, <2>4, <2>5, <2>6 DEF ClearsInv
<1> DEFINE r == t - 1
<1>11. CASE t \in 4..pulses + 2
    <2>1. /\ r \in 3..pulses + 1 /\ t = r + 1 /\ ToCome' = r
          /\ Head(wave) = Put(1, r % 2) /\ r % 2 \in Level
        BY <1>1, <1>5, <1>11 DEF HalfOk, Level
    <2>2. lastSDA' = 1 /\ lastSCL' = r % 2
        BY <1>1, <2>1, Puts DEF Level
    <2>3. /\ lastSCL = (r + 1) % 2
          /\ slave.mode = "receive" /\ ~eighth => (slave.bits + Clocks) % 9 # 0
          /\ slave.mode = "receive" /\ ~slave.addressed => slave.bits + Clocks >= Pulses
          /\ slave.mode = "send" => slave.bits <= 8 /\ slave.bits + Clocks >= 9
        BY <1>3, <1>5, <1>11, <2>1 DEF ClearsInv
    <2>4. Clocks = (r - 1) \div 2 /\ Clocks' = (r - 2) \div 2
        BY <1>1, <1>5, <2>1 DEF Clocks
    <2>5. Clocks \in Nat /\ Clocks' \in Nat
        BY <2>1, <2>4
    <2>6. /\ slave'.mode = "receive" /\ ~eighth => (slave'.bits + Clocks') % 9 # 0
          /\ slave'.mode = "receive" /\ ~slave'.addressed => slave'.bits + Clocks' >= Pulses
          /\ slave'.mode = "send" => slave'.bits <= 8 /\ slave'.bits + Clocks' >= 9
        <3>1. CASE r % 2 = 1
            <4>1. (r + 1) % 2 = 0 /\ (r - 1) \div 2 = ((r - 2) \div 2) + 1
                <5>1. r \in Nat /\ r >= 3 /\ r % 2 = 1
                    BY <1>5, <2>1, <3>1
                <5> HIDE DEF r
                <5> QED BY <5>1
            <4>2. lastSCL = 0 /\ lastSCL' = 1 /\ Clocks = Clocks' + 1
                BY <2>2, <2>3, <2>4, <3>1, <4>1
            <4>3. slave.bits < 9 /\ slave' = Taken(slave.out)
                BY <1>2, <1>7, <2>2, <4>2
            <4>4. CASE slave.mode = "idle"
                BY <4>3, <4>4, TakenIdle
            <4>5. CASE slave.mode = "receive"
                <5>1. /\ slave'.mode = "receive" /\ slave'.bits = slave.bits + 1
                      /\ slave'.addressed = slave.addressed
                    BY <1>3, <4>3, <4>5, TakenReceive
                <5>2. slave'.bits + Clocks' = slave.bits + Clocks
                    BY <1>3, <2>5, <4>2, <5>1
                <5> QED BY <2>3, <4>5, <5>1, <5>2
            <4>6. CASE slave.mode = "send" /\ slave.bits = 8
                <5>1. slave.out = 1
                    BY <1>3, <4>2, <4>6 DEF OutInv
                <5>2. slave' = Stopped
                    BY <1>3, <4>3, <4>6, <5>1, TakenSend
                <5> QED BY <5>2, StartedStopped
            <4>7. CASE slave.mode = "send" /\ slave.bits < 8
                <5>1. slave'.mode = "send" /\ slave'.bits = slave.bits + 1
                    BY <1>3, <4>3, <4>7, TakenSend
                <5> QED BY <1>3, <2>3, <2>5, <4>2, <4>7, <5>1
            <4> QED BY <1>3, <4>3, <4>4, <4>5, <4>6, <4>7
        <3>2. CASE r % 2 = 0
            <4>1. (r + 1) % 2 = 1 /\ (r - 1) \div 2 = (r - 2) \div 2
                BY <2>1, <3>2
            <4>2. lastSCL = 1 /\ lastSCL' = 0 /\ Clocks' = Clocks
                BY <2>2, <2>3, <2>4, <3>2, <4>1
            <4>3. PICK ack \in Level, next \in Byte : slave' = Given(ack, next)
                BY <1>2, <4>2
            <4>4. CASE slave.mode = "idle"
                BY <4>3, <4>4, GivenIdle
            <4>5. CASE slave.mode = "send"
                <5>1. slave'.bits = slave.bits
                    BY <1>3, <2>3, <4>3, <4>5, GivenSend
                <5>2. slave'.mode = "send"
                    BY <1>3, <4>3, <4>5, GivenSend
                <5> QED BY <2>3, <4>2, <4>5, <5>1, <5>2
            <4>6. CASE slave.mode = "receive" /\ slave.bits < 8
                <5>1. slave' = slave
                    BY <1>3, <4>3, <4>6, GivenReceive
                <5> QED BY <2>3, <4>2, <4>6, <5>1
            <4>7. CASE slave.mode = "receive" /\ slave.bits = 8
                <5>1. /\ slave'.mode = "receive" /\ slave'.bits = slave.bits
                      /\ slave'.addressed = slave.addressed
                    BY <1>3, <4>3, <4>7, GivenReceive
                <5> QED BY <2>3, <4>2, <4>7, <5>1
            <4>8. CASE slave.mode = "receive" /\ slave.bits = 9 /\ slave.out = 1
                <5>1. slave' = Stopped
                    BY <1>3, <4>3, <4>8, GivenReceive
                <5> QED BY <5>1, StartedStopped
            <4>9. CASE slave.mode = "receive" /\ slave.bits = 9 /\ slave.out = 0
                <5>1. /\ slave'.addressed /\ slave'.bits = 0
                      /\ slave'.mode = "send" => ~slave.addressed
                    BY <1>3, <4>3, <4>9, GivenReceive
                <5>2. ~eighth => (0 + Clocks') % 9 # 0
                    BY <2>3, <2>5, <4>2, <4>9
                <5>3. ~slave.addressed => 0 + Clocks' >= 9
                    BY <1>5, <2>3, <2>5, <4>2, <4>9
                <5> QED BY <5>1, <5>2, <5>3
            <4> QED BY <1>3, <4>4, <4>5, <4>6, <4>7, <4>8, <4>9 DEF Level
        <3> QED BY <2>1, <3>1, <3>2
    <2> HIDE DEF t, r
    <2>7. /\ ToCome' <= pulses + 8 /\ ~(ToCome' >= pulses + 6) /\ ToCome' # pulses + 6
          /\ ToCome' <= pulses + 2 /\ ToCome' \notin {1, 2} /\ ToCome' # 0
        BY <1>5, <2>1
    <2> HIDE DEF pulses
    <2> QED BY <1>1, <1>4, <1>5, <2>1, <2>2, <2>6, <2>7 DEF ClearsInv
<1>12. CASE t = 3
    <2>1. Head(wave) = Put(0, 1)
        BY <1>1, <1>5, <1>12 DEF HalfOk
    <2>2. /\ lastSDA' = 0 /\ lastSCL' = 1 /\ lastSCL = 1 /\ lastSDA = 1
          /\ slave.mode = "receive" /\ ~eighth => (slave.bits + Clocks) % 9 # 0
          /\ slave.mode = "receive" /\ ~slave.addressed => slave.bits + Clocks >= Pulses
          /\ slave.mode = "send" => slave.bits <= 8 /\ slave.bits + Clocks >= 9
        BY <1>1, <1>3, <1>5, <1>12, <2>1, Puts DEF ClearsInv, Level
    <2>3. Clocks = 0
        BY <1>5, <1>12 DEF Clocks
    <2>4. CASE slave.out = 1
        BY <1>1, <1>2, <1>4, <1>5, <1>7, <1>12, <2>2, <2>4 DEF ClearsInv
    <2>5. CASE slave.out = 0
        <3>1. slave.mode = "receive" /\ slave.bits = 9
            BY <1>3, <2>2, <2>3, <2>5 DEF OutInv
        <3>2. eighth /\ slave.addressed
            BY <1>5, <2>2, <2>3, <3>1
        <3>3. slave' = slave /\ Held
            BY <1>2, <1>7, <2>2, <2>5, <3>1, <3>2 DEF Held
        <3> QED BY <1>1, <1>4, <1>5, <1>12, <2>2, <3>2, <3>3 DEF ClearsInv, Held
    <2> QED BY <1>3, <2>4, <2>5 DEF Level
<1>13. CASE t = 2
    <2>1. Head(wave) = Put(0, 1)
        BY <1>1, <1>5, <1>13 DEF HalfOk
    <2>2. lastSDA' = 0 /\ lastSCL' = 1 /\ lastSCL = 1 /\ lastSDA = 0
        BY <1>1, <1>3, <1>13, <2>1, Puts DEF ClearsInv, Level
    <2>3. slave' = slave
        BY <1>2, <2>2
    <2> QED BY <1>1, <1>3, <1>4, <1>5, <1>13, <2>2, <2>3 DEF ClearsInv, Held
<1>14. CASE t = 1
    <2>1. Head(wave) = Put(1, 1)
        BY <1>1, <1>5, <1>14 DEF HalfOk
    <2>2. lastSDA' = 1 /\ lastSCL' = 1 /\ lastSCL = 1 /\ lastSDA = 0
        BY <1>1, <1>3, <1>14, <2>1, Puts DEF ClearsInv, Level
    <2>3. slave = Started \/ (eighth /\ Held)
        BY <1>3, <1>14 DEF ClearsInv
    <2>4. slave' = IF slave.out = 0 THEN slave ELSE Stopped
        BY <1>2, <1>3, <1>7, <2>2 DEF Level
    <2>5. slave' = Stopped \/ (eighth' /\ Held')
        <3>1. CASE slave = Started
            BY <2>4, <3>1, StartedStopped
        <3>2. CASE eighth /\ Held
            BY <1>1, <2>4, <3>2 DEF Held
        <3> QED BY <2>3, <3>1, <3>2
    <2> QED BY <1>1, <1>4, <1>5, <1>14, <2>2, <2>5 DEF ClearsInv
<1>15. \/ t \in {pulses + 7, pulses + 8} \/ t = pulses + 6 \/ t \in pulses + 3..pulses + 5
       \/ t \in 4..pulses + 2 \/ t \in {1, 2, 3}
    <2> HIDE DEF t, pulses
    <2> QED BY <1>5, <1>6
<1> HIDE DEF t, pulses
<1> QED BY <1>8, <1>9, <1>10, <1>11, <1>12, <1>13, <1>14, <1>15

\* Half a clock keeps the invariant, whatever the call.
LEMMA HalfKeeps ==
    ASSUME I2cInv, HalfClock
    PROVE  I2cInv'
<1>1. /\ ToCome \in Nat /\ ToCome > 0 /\ ToCome' = ToCome - 1
      /\ lastSDA' \in Level /\ lastSCL' \in Level
      /\ call' = call /\ wrdata' = wrdata /\ eighth' = eighth
      /\ wave' \in Seq(Half)
      /\ \A i \in 1..ToCome' : HalfOk(call', wrdata', ToCome' - i, wave'[i])
    BY HalfFacts DEF I2cInv
<1>2. slave' \in Slave /\ OutInv'
    BY HalfMoves DEF I2cInv
<1>3. call \in Call /\ wrdata \in 0..255 /\ retVal \in 0..255 /\ eighth \in BOOLEAN /\ I2cCallInv
    BY DEF I2cInv, I2cTypeOK
<1>4. I2cCallInv' /\ retVal' \in 0..255
    <2>1. CASE call = "init"
        BY <1>1, <1>3, <2>1, ClearsHalf DEF I2cCallInv
    <2>2. CASE call = "start"
        BY <1>1, <1>3, <2>2, StartHalf DEF I2cCallInv
    <2>3. CASE call = "writeByte"
        BY <1>1, <1>3, <2>3, WriteHalf DEF I2cCallInv
    <2>4. CASE call = "getAck"
        BY <1>1, <1>3, <2>4, GetAckHalf DEF I2cCallInv, Level
    <2>5. CASE call = "readByte"
        BY <1>1, <1>3, <2>5, ReadHalf DEF I2cCallInv
    <2>6. CASE call = "setAck"
        BY <1>1, <1>3, <2>6, SetAckHalf DEF I2cCallInv
    <2>7. CASE call = "nack"
        BY <1>1, <1>3, <2>7, NackHalf DEF I2cCallInv
    <2>8. CASE call = "stop"
        BY <1>1, <1>3, <2>8, StopHalf DEF I2cCallInv
    <2> QED BY <1>3, <2>1, <2>2, <2>3, <2>4, <2>5, <2>6, <2>7, <2>8 DEF Call
<1>5. I2cTypeOK'
    BY <1>1, <1>2, <1>3, <1>4 DEF I2cTypeOK
<1>6. WaveInv'
    <2>1. call = "start" => ToCome <= 3
        BY <1>3 DEF I2cCallInv, StartInv
    <2>2. call = "init" => ToCome <= 2 * Pulses + 8
        BY <1>3 DEF I2cCallInv, ClearsInv
    <2>3. call' = "start" => ToCome' # 3
        BY <1>1, <2>1
    <2>4. call' = "init" => ToCome' # 2 * Pulses + 8
        BY <1>1, <2>2, I2cBounds
    <2> QED BY <1>1, <2>3, <2>4 DEF WaveInv
<1> QED BY <1>2, <1>4, <1>5, <1>6 DEF I2cInv

\* In a call that moves a bit SCL is not high twice in a row.
LEMMA ClockFalls ==
    ASSUME I2cInv, HalfClock, call \notin {"init", "start", "stop"}
    PROVE  lastSCL = 0 \/ lastSCL' = 0
<1>1. ToCome \in Nat /\ ToCome > 0 /\ ToCome' = ToCome - 1 /\ lastSCL' \in Level
    BY HalfFacts DEF I2cInv
<1>2. CASE call = "writeByte"
    <2>1. WriteInv /\ WriteInv'
        BY <1>2, WriteHalf DEF I2cInv, I2cCallInv
    <2>2. ToCome <= 25
        BY <2>1 DEF WriteInv
    <2>3. CASE ToCome = 25
        BY <1>1, <2>1, <2>3 DEF WriteInv
    <2>4. CASE ToCome <= 24
        BY <1>1, <2>1, <2>4 DEF WriteInv
    <2> QED BY <1>1, <2>2, <2>3, <2>4
<1>3. CASE call = "getAck"
    <2>1. GetAckInv /\ GetAckInv'
        BY <1>3, GetAckHalf DEF I2cInv, I2cCallInv
    <2> QED BY <1>1, <2>1 DEF GetAckInv
<1>4. CASE call = "readByte"
    <2>1. ReadInv /\ ReadInv'
        BY <1>4, ReadHalf DEF I2cInv, I2cCallInv
    <2>2. ToCome <= 16 => lastSCL = ToCome % 2 /\ lastSCL' = ToCome' % 2
        BY <1>1, <2>1 DEF ReadInv
    <2>3. ToCome > 16 => lastSCL = 0
        BY <1>1, <2>1 DEF ReadInv
    <2> QED BY <1>1, <2>2, <2>3
<1>5. CASE call = "setAck"
    <2>1. SetAckInv /\ SetAckInv'
        BY <1>5, SetAckHalf DEF I2cInv, I2cCallInv
    <2> QED BY <1>1, <2>1 DEF SetAckInv
<1>6. CASE call = "nack"
    <2>1. NackInv /\ NackInv'
        BY <1>6, NackHalf DEF I2cInv, I2cCallInv
    <2> QED BY <1>1, <2>1 DEF NackInv
<1> QED BY <1>2, <1>3, <1>4, <1>5, <1>6 DEF I2cInv, I2cTypeOK, Call

-----------------------------------------------------------------------------
(* What a call has to put out, when it begins                              *)

WaveFits(halves, name, byte) ==
    /\ halves \in Seq(Half)
    /\ \A i \in 1..Len(halves) : HalfOk(name, byte, Len(halves) - i, halves[i])

\* A sequence of m + n halves that are those of a and then those of b
Joins(whole, a, m, b, n) ==
    /\ whole \in Seq(Half) /\ Len(whole) = m + n
    /\ \A i \in 1..m + n : whole[i] = IF i <= m THEN a[i] ELSE b[i - m]

LEMMA HalvesJoined ==
    ASSUME NEW a, NEW b, NEW m, NEW n,
           a \in Seq(Half), b \in Seq(Half), Len(a) = m, Len(b) = n
    PROVE  Joins(a \o b, a, m, b, n)
BY ConcatProperties DEF Joins

LEMMA StartFits ==
    ASSUME lastSCL \in Level, NEW byte
    PROVE  /\ WaveFits(StartWave, "start", byte) /\ Len(StartWave) = 3
           /\ StartWave[1] = Put(1, lastSCL)
<1>1. StartWave \in Seq(Half) /\ Len(StartWave) = 3
    BY Puts DEF StartWave, Level
<1>2. StartWave[1] = Put(1, lastSCL) /\ StartWave[2] = Put(1, 1) /\ StartWave[3] = Put(0, 1)
    BY DEF StartWave
<1>3. ~Put(1, lastSCL).get /\ ~Put(1, 1).get /\ ~Put(0, 1).get
    BY Puts DEF Level
<1>4. HalfOk("start", byte, 2, StartWave[1])
    BY <1>2, <1>3 DEF HalfOk
<1>5. HalfOk("start", byte, 1, StartWave[2])
    BY <1>2, <1>3 DEF HalfOk
<1>6. HalfOk("start", byte, 0, StartWave[3])
    BY <1>2, <1>3 DEF HalfOk
<1> QED BY <1>1, <1>2, <1>4, <1>5, <1>6 DEF WaveFits

LEMMA StopFits ==
    ASSUME NEW byte
    PROVE  WaveFits(StopWave(0), "stop", byte) /\ Len(StopWave(0)) = 3
<1> DEFINE halves == StopWave(0)
<1>1. halves \in Seq(Half) /\ Len(halves) = 3
    BY Puts DEF StopWave, Level
<1>2. halves[1] = Put(0, 0) /\ halves[2] = Put(0, 1) /\ halves[3] = Put(1, 1)
    BY DEF StopWave
<1>3. ~Put(0, 0).get /\ ~Put(0, 1).get /\ ~Put(1, 1).get
    BY Puts DEF Level
<1> HIDE DEF halves
<1>4. HalfOk("stop", byte, 2, halves[1])
    BY <1>2, <1>3 DEF HalfOk
<1>5. HalfOk("stop", byte, 1, halves[2])
    BY <1>2, <1>3 DEF HalfOk
<1>6. HalfOk("stop", byte, 0, halves[3])
    BY <1>2, <1>3 DEF HalfOk
<1>7. WaveFits(halves, "stop", byte)
    BY <1>1, <1>4, <1>5, <1>6 DEF WaveFits
<1> QED BY <1>1, <1>7 DEF halves

LEMMA GetAckFits ==
    ASSUME lastSDA \in Level, NEW byte
    PROVE  WaveFits(GetAckWave, "getAck", byte) /\ Len(GetAckWave) = 4
<1>1. GetAckWave \in Seq(Half) /\ Len(GetAckWave) = 4
    BY Puts DEF GetAckWave, Level
<1>2. /\ GetAckWave[1] = Put(lastSDA, 0) /\ GetAckWave[2] = Put(1, 0)
      /\ GetAckWave[3] = Read /\ GetAckWave[4] = Put(1, 0)
    BY DEF GetAckWave
<1>3. Put(lastSDA, 0).scl = 0 /\ ~Put(lastSDA, 0).get /\ ~Put(1, 0).get /\ Read.get
    BY Puts DEF Level
<1>4. HalfOk("getAck", byte, 3, GetAckWave[1])
    BY <1>2, <1>3 DEF HalfOk
<1>5. HalfOk("getAck", byte, 2, GetAckWave[2])
    BY <1>2, <1>3 DEF HalfOk
<1>6. HalfOk("getAck", byte, 1, GetAckWave[3])
    BY <1>2, <1>3 DEF HalfOk
<1>7. HalfOk("getAck", byte, 0, GetAckWave[4])
    BY <1>2, <1>3 DEF HalfOk
<1> QED BY <1>1, <1>4, <1>5, <1>6, <1>7 DEF WaveFits

LEMMA SetAckFits ==
    ASSUME lastSDA \in Level, NEW byte, NEW name \in {"setAck", "nack"}, NEW level \in Level,
           level = IF name = "nack" THEN 1 ELSE 0
    PROVE  WaveFits(SetAckWave(level), name, byte) /\ Len(SetAckWave(level)) = 5
<1> DEFINE halves == SetAckWave(level)
<1>1. halves \in Seq(Half) /\ Len(halves) = 5
    BY Puts DEF SetAckWave, Level
<1>2. /\ halves[1] = Put(lastSDA, 0) /\ halves[2] = Put(level, 0) /\ halves[3] = Put(level, 1)
      /\ halves[4] = Put(level, 0) /\ halves[5] = Put(1, 0)
    BY DEF SetAckWave
<1>3. /\ Put(lastSDA, 0).scl = 0 /\ ~Put(lastSDA, 0).get
      /\ Put(level, 0).scl = 0 /\ ~Put(level, 0).get
      /\ ~Put(level, 1).get /\ ~Put(1, 0).get
    BY Puts DEF Level
<1> HIDE DEF halves
<1>4. HalfOk(name, byte, 4, halves[1])
    BY <1>2, <1>3 DEF HalfOk
<1>5. HalfOk(name, byte, 3, halves[2])
    BY <1>2, <1>3 DEF HalfOk
<1>6. HalfOk(name, byte, 2, halves[3])
    BY <1>2, <1>3 DEF HalfOk
<1>7. HalfOk(name, byte, 1, halves[4])
    BY <1>2, <1>3 DEF HalfOk
<1>8. HalfOk(name, byte, 0, halves[5])
    BY <1>2, <1>3 DEF HalfOk
<1>9. WaveFits(halves, name, byte)
    BY <1>1, <1>4, <1>5, <1>6, <1>7, <1>8 DEF WaveFits
<1> QED BY <1>1, <1>9 DEF halves

LEMMA IsSequence ==
    ASSUME NEW n \in Nat, NEW f \in [1..n -> Half]
    PROVE  f \in Seq(Half) /\ Len(f) = n
<1>1. f \in Seq(Half)
    OBVIOUS
<1>2. Len(f) \in Nat /\ DOMAIN f = 1..Len(f)
    BY <1>1, LenProperties
<1>3. 1..n = 1..Len(f)
    BY <1>2
<1> QED BY <1>1, <1>2, <1>3

\* Two halves n times over
Alternates(halves, n, a, b) ==
    /\ halves \in Seq(Half)
    /\ Len(halves) = 2 * n
    /\ \A i \in 1..2 * n : halves[i] = IF i % 2 = 1 THEN a ELSE b

LEMMA RepeatedPair ==
    ASSUME NEW n, NEW a, NEW b, n \in Nat, a \in Half, b \in Half
    PROVE  Alternates(Repeated(n, <<a, b>>), n, a, b)
<1> DEFINE f == [i \in 1..2 * n |-> <<a, b>>[((i - 1) % 2) + 1]]
<1>1. Repeated(n, <<a, b>>) = f
    BY DEF Repeated
<1>2. ASSUME NEW i \in 1..2 * n
      PROVE  <<a, b>>[((i - 1) % 2) + 1] = IF i % 2 = 1 THEN a ELSE b
    <2>1. CASE i % 2 = 1
        <3>1. (i - 1) % 2 = 0
            BY <2>1
        <3> QED BY <2>1, <3>1
    <2>2. CASE i % 2 = 0
        <3>1. (i - 1) % 2 = 1
            BY <2>2
        <3> QED BY <2>2, <3>1
    <2> QED BY <2>1, <2>2
<1>3. \A i \in 1..2 * n : f[i] = IF i % 2 = 1 THEN a ELSE b
    BY <1>2
<1>4. f \in [1..2 * n -> Half]
    BY <1>2
<1>5. 2 * n \in Nat
    OBVIOUS
<1> HIDE DEF f
<1>6. f \in Seq(Half) /\ Len(f) = 2 * n
    BY <1>4, <1>5, IsSequence
<1>7. Alternates(f, n, a, b)
    BY <1>3, <1>6 DEF Alternates
<1> QED BY <1>1, <1>7

LEMMA WriteByteFits ==
    ASSUME lastSDA \in Level, NEW byte \in 0..255
    PROVE  WaveFits(WriteByteWave(byte), "writeByte", byte) /\ Len(WriteByteWave(byte)) = 25
<1> DEFINE a == <<Put(lastSDA, 0)>>
           f == [i \in 1..24 |-> Put(Bit(byte, (24 - i) \div 3), IF i % 3 = 2 THEN 1 ELSE 0)]
           halves == WriteByteWave(byte)
<1>1. halves = a \o f
    BY DEF WriteByteWave
<1>2. Put(lastSDA, 0) \in Half /\ Put(lastSDA, 0).scl = 0 /\ ~Put(lastSDA, 0).get
    BY Puts DEF Level
<1>3. a \in Seq(Half) /\ Len(a) = 1 /\ a[1] = Put(lastSDA, 0)
    BY <1>2
<1>4. ASSUME NEW i \in 1..24
      PROVE  /\ Put(Bit(byte, (24 - i) \div 3), IF i % 3 = 2 THEN 1 ELSE 0) \in Half
             /\ ~Put(Bit(byte, (24 - i) \div 3), IF i % 3 = 2 THEN 1 ELSE 0).get
    <2>1. (24 - i) \div 3 \in 0..7
        OBVIOUS
    <2>2. Bit(byte, (24 - i) \div 3) \in Level
        BY <2>1, BitLevel
    <2>3. (IF i % 3 = 2 THEN 1 ELSE 0) \in Level
        BY DEF Level
    <2> QED BY <2>2, <2>3, Puts
<1>5. f \in [1..24 -> Half]
    BY <1>4
<1>6. \A i \in 1..24 :
          f[i] = Put(Bit(byte, (24 - i) \div 3), IF i % 3 = 2 THEN 1 ELSE 0)
    OBVIOUS
<1> HIDE DEF a, f, halves
<1>7. f \in Seq(Half) /\ Len(f) = 24
    BY <1>5, IsSequence
<1>8. /\ halves \in Seq(Half) /\ Len(halves) = 1 + 24
      /\ \A i \in 1..1 + 24 : halves[i] = IF i <= 1 THEN a[i] ELSE f[i - 1]
    <2>1. Joins(a \o f, a, 1, f, 24)
        BY <1>3, <1>7, HalvesJoined, Zenon
    <2> QED BY <1>1, <2>1 DEF Joins
<1>9. ASSUME NEW i \in 1..25
      PROVE  HalfOk("writeByte", byte, 25 - i, halves[i])
    <2>1. halves[i] = IF i <= 1 THEN a[i] ELSE f[i - 1]
        <3>1. i \in 1..1 + 24
            OBVIOUS
        <3> QED BY <1>8, <3>1, Zenon
    <2>2. CASE i = 1
        BY <1>2, <1>3, <2>1, <2>2 DEF HalfOk
    <2>3. CASE i # 1
        <3> DEFINE k == i - 1
        <3>1. k \in 1..24 /\ 25 - i = 24 - k /\ halves[i] = f[k]
            BY <2>1, <2>3
        <3> HIDE DEF k
        <3>2. (IF k % 3 = 2 THEN 1 ELSE 0) = (IF (24 - k) % 3 = 1 THEN 1 ELSE 0)
            BY <3>1
        <3>3. halves[i] = Put(Bit(byte, (24 - k) \div 3), IF (24 - k) % 3 = 1 THEN 1 ELSE 0)
            BY <1>6, <3>1, <3>2
        <3>4. ~halves[i].get
            BY <1>4, <1>6, <3>1
        <3>5. HalfOk("writeByte", byte, 24 - k, halves[i])
            BY <3>1, <3>3, <3>4 DEF HalfOk
        <3> QED BY <3>1, <3>5
    <2> QED BY <2>2, <2>3
<1>10. WaveFits(halves, "writeByte", byte)
    BY <1>8, <1>9 DEF WaveFits
<1> QED BY <1>8, <1>10 DEF halves

LEMMA ReadByteHalf ==
    ASSUME NEW byte, NEW r \in 1..16, NEW h,
           h.get <=> r % 2 = 1, h = IF r % 2 = 1 THEN Read ELSE Put(1, 0)
    PROVE  HalfOk("readByte", byte, r, h)
BY DEF HalfOk

LEMMA ReadByteFits ==
    ASSUME lastSDA \in Level, NEW byte
    PROVE  WaveFits(ReadByteWave, "readByte", byte) /\ Len(ReadByteWave) = 18
<1> DEFINE a == <<Put(lastSDA, 0)>>
           f == Repeated(8, <<Put(1, 0), Read>>)
           b == a \o f
           c == <<Put(1, 0)>>
           halves == ReadByteWave
<1>1. halves = b \o c /\ b = a \o f
    BY DEF ReadByteWave
<1>2. /\ Put(lastSDA, 0) \in Half /\ Put(lastSDA, 0).scl = 0 /\ ~Put(lastSDA, 0).get
      /\ Put(1, 0) \in Half /\ ~Put(1, 0).get /\ Read \in Half /\ Read.get
    BY Puts DEF Level
<1>3. /\ a \in Seq(Half) /\ Len(a) = 1 /\ a[1] = Put(lastSDA, 0)
      /\ c \in Seq(Half) /\ Len(c) = 1 /\ c[1] = Put(1, 0)
    BY <1>2
<1>4. /\ f \in Seq(Half) /\ Len(f) = 16
      /\ \A i \in 1..16 : f[i] = IF i % 2 = 1 THEN Put(1, 0) ELSE Read
    <2>1. 8 \in Nat /\ 2 * 8 = 16
        OBVIOUS
    <2>2. Alternates(f, 8, Put(1, 0), Read)
        BY <1>2, <2>1, RepeatedPair, Zenon
    <2> HIDE DEF f
    <2> QED BY <2>1, <2>2 DEF Alternates
<1> HIDE DEF a, f, b, c, halves
<1>5. /\ b \in Seq(Half) /\ Len(b) = 1 + 16
      /\ \A i \in 1..1 + 16 : b[i] = IF i <= 1 THEN a[i] ELSE f[i - 1]
    <2>1. Joins(a \o f, a, 1, f, 16)
        BY <1>3, <1>4, HalvesJoined, Zenon
    <2> QED BY <1>1, <2>1 DEF Joins
<1>6. /\ halves \in Seq(Half) /\ Len(halves) = (1 + 16) + 1
      /\ \A i \in 1..(1 + 16) + 1 : halves[i] = IF i <= 1 + 16 THEN b[i] ELSE c[i - (1 + 16)]
    <2>1. Joins(b \o c, b, 1 + 16, c, 1)
        BY <1>3, <1>5, HalvesJoined, Zenon
    <2> QED BY <1>1, <2>1 DEF Joins
<1>7. ASSUME NEW i \in 1..18
      PROVE  HalfOk("readByte", byte, 18 - i, halves[i])
    <2>1. CASE i = 1
        <3>1. halves[i] = Put(lastSDA, 0)
            BY <1>3, <1>5, <1>6, <2>1
        <3> QED BY <1>2, <2>1, <3>1 DEF HalfOk
    <2>2. CASE i = 18
        <3>1. halves[i] = Put(1, 0)
            BY <1>3, <1>6, <2>2
        <3> QED BY <1>2, <2>2, <3>1 DEF HalfOk
    <2>3. CASE i \in 2..17
        <3> DEFINE k == i - 1
        <3>1. k \in 1..16 /\ 18 - i = 17 - k /\ halves[i] = f[k]
            <4>1. k \in 1..16 /\ 18 - i = 17 - k
                BY <2>3
            <4>2. i \in 1..1 + 16 /\ i \in 1..(1 + 16) + 1 /\ i <= 1 + 16 /\ ~(i <= 1)
                BY <2>3
            <4>3. halves[i] = b[i]
                BY <1>6, <4>2, Zenon
            <4>4. b[i] = f[i - 1]
                BY <1>5, <4>2, Zenon
            <4> QED BY <4>1, <4>3, <4>4, Zenon
        <3> HIDE DEF k
        <3>2. CASE k % 2 = 1
            <4>1. (17 - k) % 2 = 0
                BY <3>1, <3>2
            <4>2. f[k] = Put(1, 0)
                BY <1>4, <3>1, <3>2, Zenon
            <4>3. HalfOk("readByte", byte, 17 - k, halves[i])
                BY <1>2, <3>1, <4>1, <4>2, ReadByteHalf
            <4> QED BY <3>1, <4>3
        <3>3. CASE k % 2 = 0
            <4>1. (17 - k) % 2 = 1
                BY <3>1, <3>3
            <4>2. f[k] = Read
                <5>1. k % 2 # 1
                    BY <3>1, <3>3
                <5> QED BY <1>4, <3>1, <5>1, Zenon
            <4>3. HalfOk("readByte", byte, 17 - k, halves[i])
                BY <1>2, <3>1, <4>1, <4>2, ReadByteHalf
            <4> QED BY <3>1, <4>3
        <3> QED BY <3>1, <3>2, <3>3
    <2> QED BY <2>1, <2>2, <2>3
<1>8. WaveFits(halves, "readByte", byte)
    BY <1>6, <1>7 DEF WaveFits
<1> QED BY <1>6, <1>8 DEF halves

LEMMA InitFits ==
    ASSUME NEW byte
    PROVE  WaveFits(InitWave, "init", byte) /\ Len(InitWave) = 2 * Pulses + 6
<1> DEFINE p == 2 * Pulses
           a == <<Put(1, 0), Put(0, 0), Put(1, 0)>>
           f == Repeated(Pulses, <<Put(1, 0), Put(1, 1)>>)
           b == a \o f
           c == <<Put(0, 1), Put(0, 1), Put(1, 1)>>
           halves == InitWave
<1>1. halves = b \o c /\ b = a \o f
    BY DEF InitWave, StopWave
<1>2. /\ Put(1, 0) \in Half /\ Put(0, 0) \in Half /\ Put(1, 1) \in Half /\ Put(0, 1) \in Half
      /\ ~Put(1, 0).get /\ ~Put(0, 0).get /\ ~Put(1, 1).get /\ ~Put(0, 1).get
      /\ Put(1, 0).scl = 0 /\ Put(0, 0).scl = 0
    BY Puts DEF Level
<1>3. /\ a \in Seq(Half) /\ Len(a) = 3
      /\ a[1] = Put(1, 0) /\ a[2] = Put(0, 0) /\ a[3] = Put(1, 0)
      /\ c \in Seq(Half) /\ Len(c) = 3
      /\ c[1] = Put(0, 1) /\ c[2] = Put(0, 1) /\ c[3] = Put(1, 1)
    BY <1>2
<1>4. /\ f \in Seq(Half) /\ Len(f) = p
      /\ \A i \in 1..p : f[i] = IF i % 2 = 1 THEN Put(1, 0) ELSE Put(1, 1)
    <2>1. Pulses \in Nat
        BY I2cBounds
    <2>2. Alternates(f, Pulses, Put(1, 0), Put(1, 1))
        BY <1>2, <2>1, RepeatedPair, Zenon
    <2> HIDE DEF f
    <2> QED BY <2>2 DEF Alternates
<1>5. p \in Nat /\ p >= 36 /\ p % 2 = 0 /\ p = 2 * Pulses
    BY I2cBounds
<1> HIDE DEF a, f, b, c, halves, p
<1>6. /\ b \in Seq(Half) /\ Len(b) = 3 + p
      /\ \A i \in 1..3 + p : b[i] = IF i <= 3 THEN a[i] ELSE f[i - 3]
    <2>1. Joins(a \o f, a, 3, f, p)
        BY <1>3, <1>4, HalvesJoined, Zenon
    <2> QED BY <1>1, <2>1 DEF Joins
<1>7. /\ halves \in Seq(Half) /\ Len(halves) = p + 6
      /\ \A i \in 1..p + 6 : halves[i] = IF i <= p + 3 THEN b[i] ELSE c[i - (p + 3)]
    <2>1. /\ halves \in Seq(Half) /\ Len(halves) = (3 + p) + 3
          /\ \A i \in 1..(3 + p) + 3 : halves[i] = IF i <= 3 + p THEN b[i] ELSE c[i - (3 + p)]
        <3>1. Joins(b \o c, b, 3 + p, c, 3)
            BY <1>3, <1>6, HalvesJoined, Zenon
        <3> QED BY <1>1, <3>1 DEF Joins
    <2>2. (3 + p) + 3 = p + 6 /\ 3 + p = p + 3
        BY <1>5
    <2> QED BY <2>1, <2>2
<1>8. ASSUME NEW i \in 1..p + 6
      PROVE  HalfOk("init", byte, (p + 6) - i, halves[i])
    <2> DEFINE r == (p + 6) - i
    <2>1. CASE i \in 1..3
        <3>1. halves[i].scl = 0 /\ ~halves[i].get
            BY <1>2, <1>3, <1>5, <1>6, <1>7, <2>1
        <3>2. r \in p + 3..p + 5
            BY <1>5, <2>1
        <3> HIDE DEF r
        <3>3. HalfOk("init", byte, r, halves[i])
            BY <1>5, <3>1, <3>2 DEF HalfOk
        <3> QED BY <3>3 DEF r
    <2>2. CASE i \in p + 4..p + 6
        <3> DEFINE k == i - (p + 3)
        <3>1. k \in 1..3 /\ r = 3 - k /\ halves[i] = c[k]
            BY <1>5, <1>7, <2>2
        <3> HIDE DEF k, r
        <3>2. HalfOk("init", byte, r, halves[i])
            BY <1>2, <1>3, <1>5, <3>1 DEF HalfOk
        <3> QED BY <3>2 DEF r
    <2>3. CASE i \in 4..p + 3
        <3> DEFINE k == i - 3
        <3>1. k \in 1..p /\ r = (p + 3) - k /\ r \in 3..p + 2 /\ halves[i] = f[k]
            BY <1>5, <1>6, <1>7, <2>3
        <3> HIDE DEF k, r
        <3>2. halves[i] = Put(1, r % 2)
            <4>1. CASE k % 2 = 1
                <5>1. r % 2 = 0
                    BY <1>5, <3>1, <4>1
                <5> QED BY <1>4, <3>1, <4>1, <5>1
            <4>2. CASE k % 2 = 0
                <5>1. r % 2 = 1
                    BY <1>5, <3>1, <4>2
                <5> QED BY <1>4, <3>1, <4>2, <5>1
            <4> QED BY <3>1, <4>1, <4>2
        <3>3. ~halves[i].get
            BY <1>2, <1>4, <3>1
        <3>4. HalfOk("init", byte, r, halves[i])
            BY <1>5, <3>1, <3>2, <3>3 DEF HalfOk
        <3> QED BY <3>4 DEF r
    <2> QED BY <1>5, <2>1, <2>2, <2>3
<1>9. WaveFits(halves, "init", byte)
    BY <1>7, <1>8 DEF WaveFits
<1> QED BY <1>5, <1>7, <1>9 DEF halves

LEMMA ResetFits ==
    ASSUME NEW byte, NEW first \in {Put(1, lastSCL), Put(lastSDA, 1)},
           lastSDA \in Level, lastSCL \in Level
    PROVE  /\ WaveFits(<<first, Put(1, 1)>> \o InitWave, "init", byte)
           /\ Len(<<first, Put(1, 1)>> \o InitWave) = 2 * Pulses + 8
           /\ (<<first, Put(1, 1)>> \o InitWave)[1] = first
<1> DEFINE p == 2 * Pulses
           a == <<first, Put(1, 1)>>
           b == InitWave
           halves == a \o b
<1>1. first \in Half /\ ~first.get /\ Put(1, 1) \in Half /\ ~Put(1, 1).get
    BY Puts DEF Level
<1>2. a \in Seq(Half) /\ Len(a) = 2 /\ a[1] = first /\ a[2] = Put(1, 1)
    BY <1>1
<1>3. WaveFits(b, "init", byte) /\ Len(b) = p + 6
    BY InitFits
<1>4. p \in Nat /\ p >= 36 /\ p = 2 * Pulses
    BY I2cBounds
<1>5. b \in Seq(Half) /\ \A i \in 1..p + 6 : HalfOk("init", byte, (p + 6) - i, b[i])
    BY <1>3 DEF WaveFits
<1> HIDE DEF a, b, p
<1>6. Joins(halves, a, 2, b, p + 6)
    BY <1>2, <1>3, <1>5, HalvesJoined, Zenon
<1> HIDE DEF halves
<1>7. /\ halves \in Seq(Half) /\ Len(halves) = p + 8
      /\ \A i \in 1..p + 8 : halves[i] = IF i <= 2 THEN a[i] ELSE b[i - 2]
    <2>1. 2 + (p + 6) = p + 8
        BY <1>4
    <2> QED BY <1>6, <2>1 DEF Joins
<1>8. ASSUME NEW i \in 1..p + 8
      PROVE  HalfOk("init", byte, (p + 8) - i, halves[i])
    <2>1. CASE i = 1
        <3>1. (p + 8) - i = p + 7 /\ halves[i] = first
            BY <1>2, <1>4, <1>7, <2>1
        <3>2. HalfOk("init", byte, p + 7, first)
            BY <1>1, <1>4 DEF HalfOk
        <3> QED BY <3>1, <3>2
    <2>2. CASE i = 2
        <3>1. (p + 8) - i = p + 6 /\ halves[i] = Put(1, 1)
            BY <1>2, <1>4, <1>7, <2>2
        <3>2. HalfOk("init", byte, p + 6, Put(1, 1))
            BY <1>1, <1>4 DEF HalfOk
        <3> QED BY <3>1, <3>2
    <2>3. CASE i \in 3..p + 8
        <3>1. i - 2 \in 1..p + 6 /\ (p + 8) - i = (p + 6) - (i - 2) /\ halves[i] = b[i - 2]
            BY <1>4, <1>7, <2>3
        <3> QED BY <1>5, <3>1
    <2> QED BY <1>4, <2>1, <2>2, <2>3
<1>9. halves[1] = first
    BY <1>2, <1>4, <1>7
<1>10. WaveFits(halves, "init", byte)
    BY <1>7, <1>8 DEF WaveFits
<1> QED BY <1>4, <1>7, <1>9, <1>10 DEF halves, a, b

-----------------------------------------------------------------------------
(* Where the bus is between two calls                                      *)

LEMMA I2cStarts == I2cInit => I2cInv
<1> SUFFICES ASSUME I2cInit PROVE I2cInv
    OBVIOUS
<1>1. WaveFits(InitWave, "init", 0) /\ Len(InitWave) = 2 * Pulses + 6
    BY InitFits
<1>2. /\ lastSDA = 1 /\ lastSCL = 1 /\ wave = InitWave /\ call = "init"
      /\ retVal = 0 /\ wrdata = 0 /\ slave = Stopped /\ eighth = FALSE
    BY DEF I2cInit
<1>3. I2cTypeOK
    <2>1. wave \in Seq(Half) /\ slave \in Slave /\ eighth \in BOOLEAN
        BY <1>1, <1>2, StartedStopped DEF WaveFits
    <2>2. /\ lastSDA \in Level /\ lastSCL \in Level /\ call \in Call
          /\ retVal \in 0..255 /\ wrdata \in 0..255
        BY <1>2 DEF Level, Call
    <2> QED BY <2>1, <2>2 DEF I2cTypeOK
<1>4. ToCome = 2 * Pulses + 6
    BY <1>1, <1>2 DEF ToCome
<1>5. WaveInv
    <2>1. \A i \in 1..ToCome : HalfOk(call, wrdata, ToCome - i, wave[i])
        BY <1>1, <1>2 DEF WaveFits, ToCome
    <2>2. ToCome # 2 * Pulses + 8
        BY <1>4, I2cBounds
    <2> QED BY <1>2, <2>1, <2>2 DEF WaveInv
<1>6. OutInv
    BY <1>2, StartedStopped DEF OutInv
<1>7. I2cCallInv
    <2> DEFINE p == 2 * Pulses
    <2>1. p \in Nat /\ p >= 36 /\ ToCome = p + 6 /\ p = 2 * Pulses
        BY <1>4, I2cBounds
    <2> HIDE DEF p
    <2>2. ClearsInv
        BY <1>2, <2>1, StartedStopped DEF ClearsInv
    <2> QED BY <1>2, <2>2 DEF I2cCallInv
<1> QED BY <1>3, <1>5, <1>6, <1>7 DEF I2cInv

\* A call begins: what it puts out fits it, and the slave is as the call before left it.
LEMMA CallBegins ==
    ASSUME I2cInv, NEW name, NEW byte, NEW halves,
           name \in Call, byte \in 0..255, WaveFits(halves, name, byte),
           call' = name, wave' = halves, wrdata' = byte, retVal' \in 0..255, eighth' \in BOOLEAN,
           lastSDA' = lastSDA, lastSCL' = lastSCL, slave' = slave,
           name = "start" => halves[1] = Put(1, lastSCL),
           name = "init" /\ Len(halves) = 2 * Pulses + 8 =>
               halves[1] \in {Put(1, lastSCL), Put(lastSDA, 1)},
           I2cCallInv'
    PROVE  I2cInv'
<1>1. I2cTypeOK'
    BY DEF I2cInv, I2cTypeOK, WaveFits
<1>2. OutInv'
    BY DEF I2cInv, OutInv
<1>3. WaveInv'
    <2>1. \A i \in 1..ToCome' : HalfOk(call', wrdata', ToCome' - i, wave'[i])
        BY DEF WaveFits, ToCome
    <2>2. ToCome' = Len(halves)
        BY DEF ToCome
    <2> QED BY <2>1, <2>2 DEF WaveInv
<1> QED BY <1>1, <1>2, <1>3 DEF I2cInv

LEMMA StartKeeps ==
    ASSUME I2cInv, I2cStart
    PROVE  I2cInv'
<1>1. /\ wave = <<>> /\ call \in {"init", "stop", "getAck", "nack"}
      /\ call' = "start" /\ wave' = StartWave /\ retVal' = 0 /\ wrdata' = wrdata
      /\ lastSDA' = lastSDA /\ lastSCL' = lastSCL /\ slave' = slave
      /\ slave.mode # "send" /\ eighth' = (eighth /\ call = "init")
    BY DEF I2cStart, Do, Reading
<1>2. ToCome = 0
    BY <1>1 DEF ToCome
<1>3. /\ lastSCL \in Level /\ wrdata \in 0..255 /\ eighth \in BOOLEAN /\ retVal \in 0..255
      /\ slave \in Slave /\ I2cCallInv /\ OutInv
    BY DEF I2cInv, I2cTypeOK
<1>4. WaveFits(StartWave, "start", wrdata) /\ Len(StartWave) = 3 /\ StartWave[1] = Put(1, lastSCL)
    BY <1>3, StartFits
<1>5. ToCome' = 3
    BY <1>1, <1>4 DEF ToCome
<1>6. lastSDA = 1 /\ (slave.out = 1 \/ (eighth /\ call = "init" /\ Held /\ lastSCL = 1))
    <2>1. CASE call = "init"
        <3>1. ClearsInv
            BY <1>3, <2>1 DEF I2cCallInv
        <3>2. lastSDA = 1 /\ lastSCL = 1 /\ (slave = Stopped \/ (eighth /\ Held))
            BY <1>2, <3>1 DEF ClearsInv
        <3> QED BY <2>1, <3>2, StartedStopped
    <2>2. CASE call = "stop"
        <3>1. lastSDA = 1 /\ slave = Stopped
            BY <1>2, <1>3, <2>2 DEF I2cCallInv, StopInv
        <3> QED BY <3>1, StartedStopped
    <2>3. CASE call = "getAck"
        <3>1. GetAckInv
            BY <1>3, <2>3 DEF I2cCallInv
        <3>2. lastSDA = 1 /\ (slave = Stopped \/ Ready \/ Offers)
            BY <1>2, <3>1 DEF GetAckInv, Level
        <3> QED BY <1>1, <3>2, StartedStopped DEF Ready, Offers
    <2>4. CASE call = "nack"
        <3>1. lastSDA = 1 /\ slave = Stopped
            BY <1>2, <1>3, <2>4 DEF I2cCallInv, NackInv
        <3> QED BY <3>1, StartedStopped
    <2> QED BY <1>1, <2>1, <2>2, <2>3, <2>4
<1>7. StartInv'
    <2>1. eighth /\ call = "init" => eighth'
        BY <1>1
    <2>2. Held => Held'
        BY <1>1 DEF Held
    <2>3. slave'.out = 1 \/ (eighth' /\ Held' /\ lastSCL' = 1)
        BY <1>1, <1>6, <2>1, <2>2, Zenon
    <2> QED BY <1>1, <1>5, <1>6, <2>3 DEF StartInv
<1>8. I2cCallInv'
    BY <1>1, <1>7 DEF I2cCallInv
<1>9. (eighth /\ call = "init") \in BOOLEAN
    OBVIOUS
<1>10. eighth' \in BOOLEAN
    BY <1>1, <1>9
<1>11. "start" \in Call /\ retVal' \in 0..255
    BY <1>1 DEF Call
<1> QED BY <1>1, <1>3, <1>4, <1>8, <1>10, <1>11, CallBegins

LEMMA WriteKeeps ==
    ASSUME I2cInv, NEW byte \in Byte, WriteByte(byte)
    PROVE  I2cInv'
<1>1. /\ wave = <<>> /\ call \in {"start", "getAck"}
      /\ call' = "writeByte" /\ wave' = WriteByteWave(byte) /\ retVal' = 0 /\ wrdata' = byte
      /\ lastSDA' = lastSDA /\ lastSCL' = lastSCL /\ slave' = slave /\ eighth' = eighth
      /\ call = "getAck" => retVal = 0 /\ slave.mode # "send"
    BY DEF WriteByte, Do, Reading, Acked
<1>2. ToCome = 0
    BY <1>1 DEF ToCome
<1>3. /\ lastSDA \in Level /\ byte \in 0..255 /\ eighth \in BOOLEAN /\ I2cCallInv
    BY I2cBounds DEF I2cInv, I2cTypeOK
<1>4. WaveFits(WriteByteWave(byte), "writeByte", byte) /\ Len(WriteByteWave(byte)) = 25
    BY <1>3, WriteByteFits
<1>5. ToCome' = 25
    BY <1>1, <1>4 DEF ToCome
<1>6. \/ lastSCL = 1 /\ (slave = Started \/ Held)
      \/ lastSCL = 0 /\ Ready
    <2>1. CASE call = "start"
        BY <1>2, <1>3, <2>1 DEF I2cCallInv, StartInv
    <2>2. CASE call = "getAck"
        <3>1. GetAckInv
            BY <1>3, <2>2 DEF I2cCallInv
        <3> QED BY <1>1, <1>2, <2>2, <3>1 DEF GetAckInv, Offers
    <2> QED BY <1>1, <2>1, <2>2
<1>7. WriteInv'
    BY <1>1, <1>5, <1>6 DEF WriteInv, Held, Ready, Started
<1>8. I2cCallInv'
    BY <1>1, <1>7 DEF I2cCallInv
<1>9. "writeByte" \in Call /\ retVal' \in 0..255
    BY <1>1 DEF Call
<1> QED BY <1>1, <1>3, <1>4, <1>8, <1>9, CallBegins

LEMMA GetAckKeeps ==
    ASSUME I2cInv, GetAck
    PROVE  I2cInv'
<1>1. /\ wave = <<>> /\ call = "writeByte"
      /\ call' = "getAck" /\ wave' = GetAckWave /\ retVal' = 0 /\ wrdata' = wrdata
      /\ lastSDA' = lastSDA /\ lastSCL' = lastSCL /\ slave' = slave /\ eighth' = eighth
    BY DEF GetAck, Do
<1>2. ToCome = 0
    BY <1>1 DEF ToCome
<1>3. /\ lastSDA \in Level /\ wrdata \in 0..255 /\ eighth \in BOOLEAN /\ WriteInv
    BY <1>1 DEF I2cInv, I2cTypeOK, I2cCallInv
<1>4. WaveFits(GetAckWave, "getAck", wrdata) /\ Len(GetAckWave) = 4
    BY <1>3, GetAckFits
<1>5. ToCome' = 4
    BY <1>1, <1>4 DEF ToCome
<1>6. lastSCL = 0 /\ slave.mode = "receive" /\ slave.bits = 8
    BY <1>2, <1>3 DEF WriteInv
<1>7. GetAckInv'
    BY <1>1, <1>5, <1>6 DEF GetAckInv
<1>8. I2cCallInv'
    BY <1>1, <1>7 DEF I2cCallInv
<1>9. "getAck" \in Call /\ retVal' \in 0..255
    BY <1>1 DEF Call
<1> QED BY <1>1, <1>3, <1>4, <1>8, <1>9, CallBegins

LEMMA ReadKeeps ==
    ASSUME I2cInv, ReadByte
    PROVE  I2cInv'
<1>1. /\ wave = <<>> /\ call \in {"getAck", "setAck"}
      /\ call' = "readByte" /\ wave' = ReadByteWave /\ retVal' = 0 /\ wrdata' = wrdata
      /\ lastSDA' = lastSDA /\ lastSCL' = lastSCL /\ slave' = slave /\ eighth' = eighth
      /\ call = "getAck" => retVal = 0 /\ slave.mode = "send"
    BY DEF ReadByte, Do, Acked, Reading
<1>2. ToCome = 0
    BY <1>1 DEF ToCome
<1>3. /\ lastSDA \in Level /\ wrdata \in 0..255 /\ eighth \in BOOLEAN /\ I2cCallInv
      /\ slave.byte \in 0..255
    BY SlaveFields DEF I2cInv, I2cTypeOK
<1>4. WaveFits(ReadByteWave, "readByte", wrdata) /\ Len(ReadByteWave) = 18
    BY <1>3, ReadByteFits
<1>5. ToCome' = 18
    BY <1>1, <1>4 DEF ToCome
<1>6. lastSCL = 0 /\ Offers
    <2>1. CASE call = "getAck"
        <3>1. GetAckInv
            BY <1>3, <2>1 DEF I2cCallInv
        <3> QED BY <1>1, <1>2, <2>1, <3>1 DEF GetAckInv, Ready
    <2>2. CASE call = "setAck"
        BY <1>2, <1>3, <2>2 DEF I2cCallInv, SetAckInv
    <2> QED BY <1>1, <2>1, <2>2
<1>7. /\ slave'.mode = "send" /\ slave'.bits = 0 /\ slave'.out = Bit(slave'.byte, 7 - slave'.bits)
      /\ retVal' = slave'.byte \div 2^(8 - slave'.bits)
    <2>1. slave.byte \div 256 = 0
        BY <1>3
    <2> QED BY <1>1, <1>6, <2>1, Powers DEF Offers
<1>8. ReadInv'
    BY <1>1, <1>5, <1>6, <1>7 DEF ReadInv
<1>9. I2cCallInv'
    BY <1>1, <1>8 DEF I2cCallInv
<1>10. "readByte" \in Call /\ retVal' \in 0..255
    BY <1>1 DEF Call
<1> QED BY <1>1, <1>3, <1>4, <1>9, <1>10, CallBegins

LEMMA AckKeeps ==
    ASSUME I2cInv, SendAck \/ SendNack
    PROVE  I2cInv'
<1>0. PICK name \in {"setAck", "nack"}, level \in Level :
          /\ level = IF name = "nack" THEN 1 ELSE 0
          /\ wave = <<>> /\ call = "readByte"
          /\ call' = name /\ wave' = SetAckWave(level) /\ retVal' = 0 /\ wrdata' = wrdata
          /\ lastSDA' = lastSDA /\ lastSCL' = lastSCL /\ slave' = slave /\ eighth' = eighth
    <2>1. CASE SendAck
        BY <2>1 DEF SendAck, Do, Level
    <2>2. CASE SendNack
        BY <2>2 DEF SendNack, Do, Level
    <2> QED BY <2>1, <2>2
<1>2. ToCome = 0
    BY <1>0 DEF ToCome
<1>3. /\ lastSDA \in Level /\ wrdata \in 0..255 /\ eighth \in BOOLEAN /\ ReadInv
    BY <1>0 DEF I2cInv, I2cTypeOK, I2cCallInv
<1>4. WaveFits(SetAckWave(level), name, wrdata) /\ Len(SetAckWave(level)) = 5
    BY <1>0, <1>3, SetAckFits
<1>5. ToCome' = 5
    BY <1>0, <1>4 DEF ToCome
<1>6. lastSCL = 0 /\ slave.mode = "send" /\ slave.bits = 8
    BY <1>2, <1>3 DEF ReadInv
<1>7. name = "setAck" => SetAckInv'
    BY <1>0, <1>5, <1>6 DEF SetAckInv
<1>8. name = "nack" => NackInv'
    BY <1>0, <1>5, <1>6 DEF NackInv
<1>9. I2cCallInv'
    BY <1>0, <1>7, <1>8 DEF I2cCallInv
<1>10. name \in Call /\ retVal' \in 0..255 /\ name # "start" /\ name # "init"
    BY <1>0 DEF Call
<1> QED BY <1>0, <1>3, <1>4, <1>9, <1>10, CallBegins

LEMMA StopKeeps ==
    ASSUME I2cInv, I2cStop
    PROVE  I2cInv'
<1>1. /\ wave = <<>> /\ call \in {"getAck", "nack"}
      /\ call' = "stop" /\ wave' = StopWave(lastSCL) /\ retVal' = 0 /\ wrdata' = wrdata
      /\ lastSDA' = lastSDA /\ lastSCL' = lastSCL /\ slave' = slave /\ eighth' = eighth
      /\ slave.mode # "send"
    BY DEF I2cStop, Do, Reading
<1>2. ToCome = 0
    BY <1>1 DEF ToCome
<1>3. /\ wrdata \in 0..255 /\ eighth \in BOOLEAN /\ I2cCallInv
    BY DEF I2cInv, I2cTypeOK
<1>4. lastSCL = 0 /\ slave.out = 1
    <2>1. CASE call = "getAck"
        <3>1. GetAckInv
            BY <1>3, <2>1 DEF I2cCallInv
        <3> QED BY <1>1, <1>2, <3>1, StartedStopped DEF GetAckInv, Ready, Offers, Level
    <2>2. CASE call = "nack"
        BY <1>2, <1>3, <2>2, StartedStopped DEF I2cCallInv, NackInv
    <2> QED BY <1>1, <2>1, <2>2
<1>5. WaveFits(StopWave(lastSCL), "stop", wrdata) /\ Len(StopWave(lastSCL)) = 3
    BY <1>4, StopFits
<1>6. ToCome' = 3
    BY <1>1, <1>5 DEF ToCome
<1>7. StopInv'
    BY <1>1, <1>4, <1>6 DEF StopInv
<1>8. I2cCallInv'
    BY <1>1, <1>7 DEF I2cCallInv
<1>9. "stop" \in Call /\ retVal' \in 0..255
    BY <1>1 DEF Call
<1> QED BY <1>1, <1>3, <1>5, <1>8, <1>9, CallBegins

LEMMA ResetKeeps ==
    ASSUME I2cInv, I2cReset
    PROVE  I2cInv'
<1>1. PICK first \in {Put(1, lastSCL), Put(lastSDA, 1)} :
          wave' = <<first, Put(1, 1)>> \o InitWave
    BY DEF I2cReset
<1>2. /\ call' = "init" /\ eighth' = AtEighth /\ retVal' = retVal /\ wrdata' = wrdata
      /\ lastSDA' = lastSDA /\ lastSCL' = lastSCL /\ slave' = slave
    BY DEF I2cReset
<1>3. /\ lastSDA \in Level /\ lastSCL \in Level /\ wrdata \in 0..255 /\ retVal \in 0..255
    BY DEF I2cInv, I2cTypeOK
<1> DEFINE halves == <<first, Put(1, 1)>> \o InitWave
<1>4. WaveFits(halves, "init", wrdata) /\ Len(halves) = 2 * Pulses + 8 /\ halves[1] = first
    BY <1>3, ResetFits
<1>5. wave' = halves
    BY <1>1
<1> HIDE DEF halves
<1>6. ToCome' = 2 * Pulses + 8
    BY <1>4, <1>5 DEF ToCome
<1>7. ClearsInv'
    <2> DEFINE p == 2 * Pulses
    <2>1. p \in Nat /\ p >= 36 /\ ToCome' = p + 8 /\ p = 2 * Pulses
        BY <1>6, I2cBounds
    <2> HIDE DEF p
    <2>2. slave'.mode = "receive" /\ ~eighth' => slave'.bits # 7 + lastSCL'
        BY <1>2 DEF AtEighth
    <2> QED BY <2>1, <2>2 DEF ClearsInv
<1>8. I2cCallInv'
    BY <1>2, <1>7 DEF I2cCallInv
<1>9. eighth' \in BOOLEAN
    <2>1. AtEighth \in BOOLEAN
        BY DEF AtEighth
    <2> QED BY <1>2, <2>1
<1>10. "init" \in Call /\ "init" # "start"
    BY DEF Call
<1> QED BY <1>2, <1>3, <1>4, <1>5, <1>8, <1>9, <1>10, CallBegins

LEMMA I2cStep ==
    ASSUME I2cInv, [I2cNext]_i2cVars
    PROVE  I2cInv'
<1>1. CASE HalfClock
    BY <1>1, HalfKeeps
<1>2. CASE I2cStart
    BY <1>2, StartKeeps
<1>3. CASE \E byte \in Byte : WriteByte(byte)
    BY <1>3, WriteKeeps
<1>4. CASE GetAck
    BY <1>4, GetAckKeeps
<1>5. CASE ReadByte
    BY <1>5, ReadKeeps
<1>6. CASE SendAck \/ SendNack
    BY <1>6, AckKeeps
<1>7. CASE I2cStop
    BY <1>7, StopKeeps
<1>8. CASE I2cReset
    BY <1>8, ResetKeeps
<1>9. CASE UNCHANGED i2cVars
    BY <1>9 DEF i2cVars, I2cInv, I2cTypeOK, WaveInv, HalfOk, OutInv, I2cCallInv, ToCome, Clocks,
                ClearsInv, StartInv, StopInv, WriteInv, GetAckInv, ReadInv, SetAckInv, NackInv,
                Held, Ready, Offers
<1> QED BY <1>1, <1>2, <1>3, <1>4, <1>5, <1>6, <1>7, <1>8, <1>9 DEF I2cNext

LEMMA I2cKeeps == I2cSpec => []I2cInv
<1>1. I2cInit => I2cInv
    BY I2cStarts
<1>2. I2cInv /\ [I2cNext]_i2cVars => I2cInv'
    BY I2cStep
<1> QED BY <1>1, <1>2, PTL DEF I2cSpec

\* The I2C master has its type: what it has read stays a byte.
THEOREM I2cTypeCorrect == I2cSpec => []I2cTypeOK
<1>1. I2cInv => I2cTypeOK
    BY DEF I2cInv
<1> QED BY <1>1, I2cKeeps, PTL

LEMMA KeepsTransfer == I2cInv => TransferKept
<1> SUFFICES ASSUME I2cInv PROVE TransferKept
    OBVIOUS
<1>1. /\ I2cCallInv /\ wrdata \in 0..255 /\ slave.byte \in 0..255 /\ retVal \in 0..255
      /\ wave = <<>> => ToCome = 0
    BY SlaveFields DEF I2cInv, I2cTypeOK, ToCome
<1>2. 2^(8 - 8) = 1
    BY Powers
<1>3. WrittenArrives
    <2> SUFFICES ASSUME call = "writeByte", wave = <<>>
                 PROVE  slave.mode = "receive" /\ slave.bits = 8 /\ slave.byte = wrdata
        BY DEF WrittenArrives
    <2>1. /\ slave.mode = "receive" /\ slave.bits = (25 - 0) \div 3
          /\ slave.byte = wrdata \div 2^(8 - slave.bits)
        BY <1>1 DEF I2cCallInv, WriteInv
    <2>2. slave.bits = 8
        BY <2>1
    <2> QED BY <1>1, <1>2, <2>1, <2>2
<1>4. ReadIsSent
    <2> SUFFICES ASSUME call = "readByte", wave = <<>>
                 PROVE  slave.mode = "send" /\ slave.bits = 8 /\ slave.byte = retVal
        BY DEF ReadIsSent
    <2>1. /\ slave.mode = "send" /\ slave.bits = (17 - 0) \div 2
          /\ retVal = slave.byte \div 2^(8 - slave.bits)
        BY <1>1 DEF I2cCallInv, ReadInv
    <2>2. slave.bits = 8
        BY <2>1
    <2>3. retVal = slave.byte \div 1
        BY <1>2, <2>1, <2>2
    <2>4. slave.byte \div 1 = slave.byte
        <3>1. \A b \in 0..255 : b \div 1 = b
            OBVIOUS
        <3> QED BY <1>1, <3>1
    <2> QED BY <2>1, <2>2, <2>3, <2>4
<1>5. AckIsGiven
    BY <1>1 DEF AckIsGiven, Acked, I2cCallInv, GetAckInv
<1>6. InitFreesBus
    BY <1>1 DEF InitFreesBus, I2cCallInv, StartInv
<1> QED BY <1>3, <1>4, <1>5, <1>6 DEF TransferKept

\* What goes over the bus arrives, in both directions, for every byte; and a reset
\* at any half clock but at the eighth bit of a byte leaves a bus on which the next
\* start is seen, for every number of clocks that is one more than bytes with acks.
THEOREM TransferKeeps == I2cSpec => []TransferKept
BY I2cKeeps, KeepsTransfer, PTL

LEMMA NoCondition ==
    ASSUME I2cInv, [I2cNext]_i2cVars
    PROVE  [wave # <<>> /\ Condition(lastSDA', lastSCL') =>
                call \in {"init", "start", "stop"}]_i2cVars
<1>1. CASE HalfClock
    <2>1. call \notin {"init", "start", "stop"} => lastSCL = 0 \/ lastSCL' = 0
        BY <1>1, ClockFalls
    <2> QED BY <2>1 DEF Condition
<1>2. CASE I2cReset
    <2>1. lastSDA' = lastSDA
        BY <1>2 DEF I2cReset
    <2>2. ~Condition(lastSDA', lastSCL')
        BY <2>1 DEF Condition
    <2> QED BY <2>2
<1>3. CASE wave = <<>>
    BY <1>3
<1>4. I2cNext => HalfClock \/ I2cReset \/ wave = <<>>
    BY DEF I2cNext, I2cStart, WriteByte, GetAck, ReadByte, SendAck, SendNack, I2cStop, Do
<1> QED BY <1>1, <1>2, <1>3, <1>4

\* No bit, ack or read moves SDA while SCL is high.
THEOREM NoConditions == I2cSpec => BitsAreNoConditions
<1>1. I2cInv /\ [I2cNext]_i2cVars =>
          [wave # <<>> /\ Condition(lastSDA', lastSCL') =>
               call \in {"init", "start", "stop"}]_i2cVars
    BY NoCondition
<1> QED BY <1>1, I2cKeeps, PTL DEF I2cSpec, BitsAreNoConditions
=============================================================================
