----------------------------- MODULE MCDrivers -----------------------------
(***************************************************************************)
(* The drivers of app/driver, which share nothing: one of them runs, the   *)
(* others stay as they are initialised.                                    *)
(*                                                                         *)
(* The key has a debounce time of 2 ticks and a long press of 5.  Three    *)
(* channels are modulated, in settings with equal duties, duties of 0 and  *)
(* of 255, a low frequency and one above the highest.  Bytes on the I2C    *)
(* bus are all ones, all zeros and two that are mixed, one with an odd and *)
(* one with an even last bit.                                              *)
(***************************************************************************)
EXTENDS KeyDriver, PwmDriver, I2cMaster, SpiLink, UartConsole

VARIABLE driver    \* the one that runs

MCSettings ==
    [freq : {100}, duty : {<<0, 0, 255>>, <<255, 0, 7>>, <<200, 100, 100>>}]
    \cup [freq : {50}, duty : {<<255, 100, 200>>}]
    \cup [freq : {501}, duty : {<<254, 100, 0>>}]

DriversInit ==
    /\ driver \in {"key", "pwm", "i2c", "spi", "uart"}
    /\ Init /\ PwmInit /\ I2cInit /\ SpiInit /\ UartInit
    /\ driver = "pwm" \/ pwm.duty = <<0, 0, 255>>

DriversNext ==
    /\ UNCHANGED driver
    /\ \/ /\ driver = "key" /\ Next
          /\ UNCHANGED <<pwmVars, i2cVars, spiVars, uartVars>>
       \/ /\ driver = "pwm" /\ PwmNext
          /\ UNCHANGED <<vars, i2cVars, spiVars, uartVars>>
       \/ /\ driver = "i2c" /\ I2cNext
          /\ UNCHANGED <<vars, pwmVars, spiVars, uartVars>>
       \/ /\ driver = "spi" /\ SpiNext
          /\ UNCHANGED <<vars, pwmVars, i2cVars, uartVars>>
       \/ /\ driver = "uart" /\ UartNext
          /\ UNCHANGED <<vars, pwmVars, i2cVars, spiVars>>

DriversSpec == DriversInit /\ [][DriversNext]_<<driver, vars, pwmVars, i2cVars, spiVars, uartVars>>

-----------------------------------------------------------------------------
\* Each driver's variables keep their types: pwm.c's 16-bit times and the places
\* in its tables, the levels and bytes of i2c_master.c, the registers of spi.c,
\* pWritePos of uart.c, key_level of key.c.
DriversTypeOK == TypeOK /\ PwmTypeOK /\ I2cTypeOK /\ SpiTypeOK /\ UartTypeOK
=============================================================================
