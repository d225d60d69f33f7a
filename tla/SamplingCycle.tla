--------------------------- MODULE SamplingCycle ---------------------------
(***************************************************************************)
(* The duty cycle of app/driver/sensor_lp.c.  Every boot runs data_func,   *)
(* which keeps the progress of the cycle in RTC memory: a boot takes one   *)
(* measurement and sleeps, with the radio off at the next wake, until the  *)
(* N-th measurement; the boot that takes it must have woken with the radio *)
(* on, and uploads the N measurements.  RTC memory survives deep sleep and *)
(* resets, and is random once the power has failed.                        *)
(*                                                                         *)
(* The flash, the web server and the cloud client appear by what they do   *)
(* to this cycle: `active' is the stored activeflag (ParamStore), and an   *)
(* upload or a registration ends in deep sleep or in a restart.            *)
(***************************************************************************)
EXTENDS Integers

CONSTANTS N,        \* SENSOR_DATA_NUM, the measurements of one upload
          Sample,   \* the values phy_get_vdd33 can return
          MaxCnt    \* the largest count random RTC memory is given

ASSUME SamplingAssumption == /\ N \in Nat \ {0, 1}
                             /\ MaxCnt \in Nat
                             /\ MaxCnt > N
                             /\ Sample # {}

Index == 0..N-1

\* SENSOR_DATA_RTC_MEM; magic says whether init_flg is INIT_MAGIC.
RtcMem == [magic : BOOLEAN, cnt : 0..MaxCnt, data : [Index -> Sample]]

VARIABLES rtc,          \* RTC memory at SENSOR_DATA_MEM_ADDR
          sensor_data,  \* the copy in RAM
          active,       \* whether the activeflag in flash is 1
          option,       \* system_deep_sleep_set_option: the radio at the next wake
          radio,        \* whether the radio works in this boot
          pc,           \* where the boot is
          last,         \* history: the last N measurements recorded, oldest first
          unsent        \* history: how many were recorded since the last upload
                        \* or loss of RTC memory (N + 1 stands for more)

vars == <<rtc, sensor_data, active, option, radio, pc, last, unsent>>

Running == {"boot", "measured", "flushed", "recorded", "ready", "upload", "config"}

\* A count that data_func wrote is within the array.
InRange(m) == m.magic => m.cnt <= N

TypeOK == /\ rtc \in RtcMem /\ InRange(rtc)
          /\ sensor_data \in RtcMem /\ InRange(sensor_data)
          /\ active \in BOOLEAN
          /\ option \in {"DEFAULT", "NORMAL", "NO_RF"}
          /\ radio \in BOOLEAN
          /\ pc \in Running \cup {"off", "asleep"}
          /\ last \in [Index -> Sample]
          /\ unsent \in 0..N+1

\* Random RTC memory: any contents, except that a random word is taken not to
\* be INIT_MAGIC.
RandomRtc == {m \in RtcMem : ~m.magic}

Init == /\ rtc \in RandomRtc
        /\ sensor_data = rtc
        /\ active = FALSE
        /\ option = "DEFAULT"
        /\ radio = FALSE
        /\ pc = "off"
        /\ last \in [Index -> Sample]
        /\ unsent = 0

-----------------------------------------------------------------------------
(* Power, sleep and reset: external, as the SDK and the board do them. *)

PowerOn == /\ pc = "off"
           /\ pc' = "boot"
           /\ radio' = TRUE
           /\ UNCHANGED <<rtc, sensor_data, active, option, last, unsent>>

\* The power fails: RTC memory and the sleep option with it.
PowerLoss == /\ pc # "off"
             /\ pc' = "off"
             /\ rtc' \in RandomRtc
             /\ option' = "DEFAULT"
             /\ unsent' = 0
             /\ UNCHANGED <<sensor_data, active, radio, last>>

\* The timer of the deep sleep runs out.
Wake == /\ pc = "asleep"
        /\ pc' = "boot"
        /\ radio' = (option # "NO_RF")
        /\ UNCHANGED <<rtc, sensor_data, active, option, last, unsent>>

\* system_restart, or the watchdog: the option is about wakes only.
Reboot == /\ pc' = "boot"
          /\ radio' = TRUE
          /\ UNCHANGED <<rtc, sensor_data, option, last, unsent>>

\* A watchdog or an exception resets the chip at any point of a boot.
Reset == pc \in Running /\ Reboot /\ UNCHANGED active

-----------------------------------------------------------------------------
(* data_func *)

NoCycleByCount(m) == m.cnt > N               \* mutant: init_flg is not looked at

\* The memory holds no cycle in progress (line 23).
NoCycle(m) == ~m.magic \/ m.cnt > N

\* A cycle with c measurements in the memory.
InCycle(c, data) == [magic |-> TRUE, cnt |-> c, data |-> data]

\* No cycle, and the device is not registered: softAP and web server.
EnterConfig == /\ pc = "boot"
               /\ NoCycle(rtc)
               /\ ~active
               /\ sensor_data' = rtc
               /\ pc' = "config"
               /\ UNCHANGED <<rtc, active, option, radio, last, unsent>>

\* No cycle, and the device is registered: start one.
Flush == /\ pc = "boot"
         /\ NoCycle(rtc)
         /\ active
         /\ sensor_data' = InCycle(0, rtc.data)
         /\ pc' = "flushed"
         /\ UNCHANGED <<rtc, active, option, radio, last, unsent>>

SlotKeepsLast(m) == IF m.cnt >= N THEN N - 1 ELSE m.cnt   \* mutant: clamped, not reset

\* The index the next measurement goes to: the range check of line 41.
Slot(m) == IF m.cnt >= N THEN 0 ELSE m.cnt

\* A cycle is in progress: measure into RAM.
Measure == /\ pc = "boot"
           /\ ~NoCycle(rtc)
           /\ \E v \in Sample :
                sensor_data' = InCycle(Slot(rtc) + 1, [rtc.data EXCEPT ![Slot(rtc)] = v])
           /\ pc' = "measured"
           /\ UNCHANGED <<rtc, active, option, radio, last, unsent>>

\* The window of the last N measurements after one more.
Shift(w, v) == [i \in Index |-> IF i = N - 1 THEN v ELSE w[i + 1]]

RecordUnwritten ==                           \* mutant: system_rtc_mem_write left out
    /\ pc \in {"measured", "flushed"}
    /\ pc' = "recorded"
    /\ UNCHANGED <<rtc, sensor_data, active, option, radio, last, unsent>>

\* system_rtc_mem_write, of a fresh cycle or of one more measurement.
Record == /\ pc \in {"measured", "flushed"}
          /\ rtc' = sensor_data
          /\ pc' = "recorded"
          /\ IF pc = "measured"
             THEN /\ last' = Shift(last, sensor_data.data[sensor_data.cnt - 1])
                  /\ unsent' = IF unsent > N THEN unsent ELSE unsent + 1
             ELSE UNCHANGED <<last, unsent>>
          /\ UNCHANGED <<sensor_data, active, option, radio>>

SetOptionLate ==                             \* mutant: one boot late
    /\ pc = "recorded"
    /\ option' = IF sensor_data.cnt = N THEN "NORMAL" ELSE "NO_RF"
    /\ pc' = "ready"
    /\ UNCHANGED <<rtc, sensor_data, active, radio, last, unsent>>

\* The radio is wanted at the wake that will take the last measurement.
SetOption == /\ pc = "recorded"
             /\ option' = IF sensor_data.cnt = N - 1 THEN "NORMAL" ELSE "NO_RF"
             /\ pc' = "ready"
             /\ UNCHANGED <<rtc, sensor_data, active, radio, last, unsent>>

Sleep == /\ pc = "ready"
         /\ sensor_data.cnt # N
         /\ pc' = "asleep"
         /\ UNCHANGED <<rtc, sensor_data, active, option, radio, last, unsent>>

\* user_esp_platform_init of the boot that took the N-th measurement.
Upload == /\ pc = "ready"
          /\ sensor_data.cnt = N
          /\ pc' = "upload"
          /\ unsent' = 0
          /\ UNCHANGED <<rtc, sensor_data, active, option, radio, last>>

-----------------------------------------------------------------------------
(* What an upload or a registration ends in. *)

\* The data was sent, the connection was closed, or the time for it ran out:
\* user_sensor_deep_sleep_enter.  The device may have been unregistered since the
\* cycle began.
UploadEnds == /\ pc = "upload"
              /\ pc' = "asleep"
              /\ UNCHANGED <<rtc, sensor_data, active, option, radio, last, unsent>>

\* The server accepts the registration, which an unregistered device asks for
\* instead of an upload, too: recv_cb stores it and sleeps.
Activated == /\ pc \in {"upload", "config"}
             /\ active' = TRUE
             /\ pc' = "asleep"
             /\ UNCHANGED <<rtc, sensor_data, option, radio, last, unsent>>

\* The web server's sleep command, or a connection the server closed.
ConfigSleep == /\ pc = "config"
               /\ pc' = "asleep"
               /\ UNCHANGED <<rtc, sensor_data, active, option, radio, last, unsent>>

\* user_sensor_long_press: set_active(0) and, if it gets there, system_restart
\* (Reset).  The key is looked at when user_esp_platform_init has run.
LongPress == /\ pc \in {"upload", "config"}
             /\ active' = FALSE
             /\ UNCHANGED <<rtc, sensor_data, option, radio, pc, last, unsent>>

\* A token posted to the web server: set_token clears activeflag, or, if the token is
\* longer than its field, writes one of its characters there.
TokenPosted == /\ pc = "config"
               /\ active' \in BOOLEAN
               /\ UNCHANGED <<rtc, sensor_data, option, radio, pc, last, unsent>>

DataFunc == EnterConfig \/ Flush \/ Measure \/ Record \/ SetOption \/ Sleep \/ Upload

Disturbance == PowerLoss \/ Reset \/ LongPress

Next == \/ PowerOn
        \/ Wake
        \/ DataFunc
        \/ UploadEnds
        \/ Activated
        \/ ConfigSleep
        \/ TokenPosted
        \/ Disturbance

\* The code runs, the sleep ends, a battery is put back, and an upload ends
\* as CloudClient says.  Nothing makes a user register the device or press its
\* key.
Fairness == /\ WF_vars(PowerOn) /\ WF_vars(Wake) /\ WF_vars(DataFunc)
            /\ WF_vars(active /\ UploadEnds)

Spec == Init /\ [][Next]_vars /\ Fairness

-----------------------------------------------------------------------------
(* Properties *)

\* A boot that uploads woke with the radio on, although the wake's option was
\* set by the boot before and a reset may fall between any two of data_func's
\* steps: __SET__DEEP_SLEEP__WAKEUP_NORMAL__ is set exactly one boot early.
UploadHasRadio == pc \in {"upload", "config"} => radio

\* The batch is the N measurements recorded last, in the order they were taken,
\* whatever sleeps, resets and restarts fell between them: no slot of data[]
\* holds a measurement of an earlier cycle, or random memory.
BatchIsLastN == pc = "upload" => sensor_data.data = last

\* No measurement is in two batches: at least N were recorded between the
\* starts of two uploads, although the count of N stays in RTC memory during
\* the upload and every reset of it.  (More than N where a reset fell between
\* the last recording and the upload: that batch is lost.)
BatchesDisjoint ==
    [][pc # "upload" /\ pc' = "upload" => unsent >= N]_vars

\* Unless it is disturbed for ever, a registered device that is not waiting for
\* its user uploads again and again.
KeepsUploading ==
    (<>[][~Disturbance]_vars) => []<>(pc = "config" \/ ~active) \/ []<><<Upload>>_vars

\* "Router is not configured. Setup softAP. Wait for config.": a device that is
\* not registered does not take measurements (data_func).
UnregisteredWaits == pc = "measured" => active
=============================================================================
