------------------------------- MODULE Device -------------------------------
(***************************************************************************)
(* The device over its whole life: the duty cycle of sensor_lp.c composed  *)
(* with the cloud client of user_esp_platform.c.  What SamplingCycle says  *)
(* an upload or a configuration does, and what CloudClient says of boots,  *)
(* are here the same steps: data_func starts the client at the end of a    *)
(* cycle, or the web server and the client where there is no cycle, and    *)
(* the client ends the boot in deep sleep or in a restart.                 *)
(***************************************************************************)
EXTENDS CloudClient

CONSTANTS N,        \* SENSOR_DATA_NUM, the measurements of one upload
          Sample,   \* the values phy_get_vdd33 can return
          MaxCnt    \* the largest count random RTC memory is given

VARIABLES rtc, sensor_data, option, radio, pc, last, unsent

sampling == <<rtc, sensor_data, option, radio, pc, last, unsent>>
deviceVars == <<vars, sampling>>

S == INSTANCE SamplingCycle WITH active <- (activeflag = 1)

ASSUME DeviceAssumption == S!SamplingAssumption

DeviceInit == Init /\ S!Init

-----------------------------------------------------------------------------
(* Boots.  The steps of data_func before it starts the client: the client  *)
(* is down.                                                                *)

PowerOn == UNCHANGED vars /\ S!PowerOn

Wake == UNCHANGED vars /\ S!Wake

DataFunc == /\ UNCHANGED vars
            /\ \/ S!Flush \/ S!Measure \/ S!Record \/ S!SetOption \/ S!Sleep

\* Lines 25 to 31: user_esp_platform_init and user_webserver_init.
ConfigBoot == Boot /\ web' /\ S!EnterConfig

\* Line 54: user_esp_platform_init.
UploadBoot == Boot /\ ~web' /\ S!Upload

-----------------------------------------------------------------------------
(* What ends a boot: system_deep_sleep or system_restart leave of RAM       *)
(* nothing that counts, and the cycle goes on from RTC memory.             *)

Asleep == /\ pc' = "asleep"
          /\ UNCHANGED <<rtc, sensor_data, option, radio, last, unsent>>

\* A callback of the client, of the web server or of the key.  If it took the
\* client down it was by way of user_sensor_deep_sleep_enter.
Callback ==
    /\ \/ ClientTimer \/ SleepTimeout
       \/ DnsNotFound \/ DnsFound
       \/ Connected \/ SentCb \/ ConnectionError \/ Disconnected
       \/ Activated \/ NotActivated \/ UploadAnswered
       \/ LongPress \/ Restore
       \/ \E token \in Token, network \in BOOLEAN : WebPost(token, network)
       \/ WebSleep \/ RestartWifi \/ RestartSleep
    /\ IF up' THEN UNCHANGED sampling ELSE Asleep

\* system_restart
Restarts == (Restart \/ RestartSoftap) /\ S!Reboot

World == (NetChange \/ StationJoins \/ StationFails) /\ UNCHANGED sampling

\* RTC memory is lost with the power, and what it held of an address.
PowerFails == Crash /\ S!PowerLoss

\* The watchdog, at any step of data_func or of the client.
Watchdog == /\ pc \in S!Running
            /\ GoDown
            /\ UNCHANGED <<flash, savedIp, net>>
            /\ S!Reboot

DeviceNext == \/ PowerOn \/ Wake
              \/ DataFunc \/ ConfigBoot \/ UploadBoot
              \/ Callback \/ Restarts
              \/ World
              \/ PowerFails \/ Watchdog

\* CloudClient's, a battery that is put back, the sleep's timer, and code that
\* runs on.
DeviceFairness == /\ Fairness
                  /\ WF_deviceVars(PowerOn) /\ WF_deviceVars(Wake)
                  /\ WF_deviceVars(DataFunc \/ ConfigBoot \/ UploadBoot)

DeviceSpec == DeviceInit /\ [][DeviceNext]_deviceVars /\ DeviceFairness

-----------------------------------------------------------------------------
(* Properties *)

\* The boots of the device are those of the duty cycle: whatever the network,
\* the user and the client's callbacks do to a boot, data_func sees an upload or
\* a configuration that ended in deep sleep or in a restart, and activeflag
\* changed only in one of them.
IsSamplingCycle == S!Init /\ [][S!Next]_(S!vars)

\* The client of the device is CloudClient's: boots come when the cycle makes
\* them, and the watchdog and a power failure are its crashes.
IsCloudClient == Init /\ [][Next]_vars

\* What is sent as a batch is one: the boot took the last measurement of a
\* cycle, it woke with the radio on, and RAM holds N measurements, also after
\* connections that failed, and a long press or a registration in other boots.
\* Only a configuration in which a token overran its field sends what is none.
BatchUploaded ==
    frame = "upload" => \/ pc = "upload" /\ radio /\ sensor_data.cnt = N
                        \/ web /\ overrun # "no"

Disturbance == PowerFails \/ Watchdog \/ LongPress

\* Whatever befell a device before, with its network gone and come back and a WiFi
\* mode for a retry left in flash: once it stays registered, and from a sleep on
\* finds network and server there, it starts an upload again and again.  Each
\* upload boot reaches deep sleep, in STATIONAP mode too.
DeviceKeepsUploading ==
    /\ <>(~up /\ []net)
    /\ <>[][~Disturbance]_deviceVars
    /\ <>[](activeflag = 1 /\ overrun = "no")
    => []<><<UploadBoot>>_deviceVars
=============================================================================
