------------------------ MODULE CloudClient_proofs -------------------------
(***************************************************************************)
(* Proofs about the cloud client, for any number of name queries under way  *)
(* and any width of device_recon_count, and about the device that composes *)
(* it with the duty cycle: what is shown of either holds of both together. *)
(***************************************************************************)
EXTENDS Device, TLAPS

\* A device that is down has no RAM.
DownInv == ~up => /\ pressing = "no" /\ conn = "none" /\ frame = "none"
                   /\ wifi = "CONNECTING"

\* The key handler runs only on an awake device, and only between set_active(0)
\* and the restart.
PressInv == pressing # "no" => up /\ activeflag = 0

\* Until system_restore, the awake device is in a mode with a station, and has a
\* network to join wherever it has an address or a connection.
StationInv ==
    up /\ pressing # "restored" =>
        /\ opmode # "SOFTAP"
        /\ wifi = "GOT_IP" \/ conn \in {"open", "closing"} => configured

\* The web server runs in boots that found the device unregistered, and such a
\* boot ends at the moment the device is registered, unless a token overruns its
\* field.
WebInv == web => up /\ (overrun = "no" => activeflag = 0)

\* Nothing but a token leaves a character in activeflag.
CharInv == activeflag = 2 => overrun = "now"

\* user_esp_platform_discon is pending only while there is a connection.
DisconInv == client_timer = "discon" => conn # "none"

IInv == /\ TypeOK
        /\ DownInv /\ PressInv /\ StationInv /\ WebInv /\ CharInv /\ DisconInv
        /\ ActiveDeviceCanJoin /\ NextStepPending /\ NoUploadWhileConfiguring

-----------------------------------------------------------------------------
LEMMA ConstantFacts ==
    /\ MaxDns \in Nat
    /\ ReconModulus \in Nat /\ ReconModulus > 5
BY CloudAssumption

\* device_recon_count keeps its width.
LEMMA ReconCounts ==
    ASSUME recon \in 0..ReconModulus-1
    PROVE  Count \in 0..ReconModulus-1
BY ConstantFacts DEF Count

\* A step that ends the boot establishes all that is said of RAM.
LEMMA DownStep ==
    ASSUME IInv, GoDown,
           opmode' \in {"SOFTAP", "STATION", "STATIONAP"}, configured' \in BOOLEAN,
           activeflag' \in {0, 1, 2}, overrun' \in {"no", "now", "since"},
           savedIp' \in BOOLEAN, net' \in BOOLEAN,
           ActiveDeviceCanJoin', CharInv'
    PROVE  IInv'
<1>1. TypeOK'
  <2>1. /\ up' \in BOOLEAN /\ web' \in BOOLEAN /\ sleepTimer' \in BOOLEAN
        /\ named' \in BOOLEAN /\ serverIp' \in BOOLEAN
    BY Zenon DEF GoDown
  <2>2. queries' \in 0..MaxDns /\ recon' \in 0..ReconModulus-1
    BY ConstantFacts DEF GoDown
  <2> QED
    BY <2>1, <2>2 DEF GoDown, TypeOK
<1> QED
    BY <1>1 DEF GoDown, IInv, DownInv, PressInv, StationInv, WebInv, CharInv, DisconInv,
                ActiveDeviceCanJoin, NextStepPending, NoUploadWhileConfiguring, Awake

\* espconn_gethostbyname changes the query count and the address, in range.
LEMMA NameType ==
    ASSUME TypeOK, NEW ip \in BOOLEAN, GetHostByName(ip)
    PROVE  queries' \in 0..MaxDns /\ serverIp' \in BOOLEAN
<1>1. serverIp' = TRUE \/ serverIp' = ip
    BY Zenon DEF GetHostByName
<1>2. serverIp' \in BOOLEAN
    BY <1>1, Zenon
<1>3. queries' = queries \/ (queries < MaxDns /\ queries' = queries + 1)
    BY Zenon DEF GetHostByName
<1>4. queries' \in 0..MaxDns
    BY <1>3, ConstantFacts DEF TypeOK
<1> QED
    BY <1>2, <1>4

\* user_esp_platform_check_ip keeps the mode one with a station and leaves a
\* timer armed.
LEMMA CheckIpStep ==
    ASSUME TypeOK, NEW s \in {"CONNECTING", "GOT_IP", "FAILED"}, NEW r \in BOOLEAN,
           CheckIp(s, r)
    PROVE  /\ opmode' \in {"SOFTAP", "STATION", "STATIONAP"}
           /\ opmode # "SOFTAP" => opmode' # "SOFTAP"
           /\ client_timer' \in {"dns_check", "ap_change", "check_ip"}
           /\ queries' \in 0..MaxDns /\ serverIp' \in BOOLEAN
           /\ recon' \in 0..ReconModulus-1
<1>1. CASE s = "GOT_IP" /\ recon' = (IF r THEN 0 ELSE recon) /\ GetHostByName(FALSE)
           /\ client_timer' = "dns_check" /\ UNCHANGED opmode
  <2>1. queries' \in 0..MaxDns /\ serverIp' \in BOOLEAN
    BY <1>1, NameType, Zenon
  <2>2. recon' \in 0..ReconModulus-1
    BY <1>1, ConstantFacts DEF TypeOK
  <2>3. opmode' = opmode /\ client_timer' = "dns_check"
    BY <1>1
  <2> QED
    BY <2>1, <2>2, <2>3 DEF TypeOK
<1>2. CASE s = "FAILED" /\ ResetMode /\ UNCHANGED <<recon, queries, serverIp>>
    BY <1>2 DEF TypeOK, ResetMode
<1>3. CASE s = "CONNECTING" /\ client_timer' = "check_ip"
           /\ UNCHANGED <<opmode, recon, queries, serverIp>>
    BY <1>3 DEF TypeOK
<1> QED
    BY <1>1, <1>2, <1>3 DEF CheckIp

-----------------------------------------------------------------------------
(* Steps that end the boot *)

Ends == SleepTimeout \/ SentCb \/ Restart \/ Crash \/ RestartSleep \/ RestartSoftap

LEMMA EndsStep == IInv /\ Ends => IInv'
<1> SUFFICES ASSUME IInv, Ends PROVE IInv'
    OBVIOUS
<1>1. /\ GoDown /\ UNCHANGED <<activeflag, overrun, net>>
      /\ activeflag' = 1 => opmode' # "SOFTAP" /\ (overrun' # "now" => configured')
      /\ opmode' \in {"SOFTAP", "STATION", "STATIONAP"}
  <2>1. CASE SleepTimeout
    BY <2>1 DEF SleepTimeout, DeepSleep, flash, TypeOK, IInv, ActiveDeviceCanJoin
  <2>2. CASE SentCb
    BY <2>2 DEF SentCb, DeepSleep, flash, TypeOK, IInv, ActiveDeviceCanJoin
  <2>3. CASE Restart
    BY <2>3 DEF Restart, flash, TypeOK, IInv, ActiveDeviceCanJoin
  <2>4. CASE Crash
    BY <2>4 DEF Crash, flash, TypeOK, IInv, ActiveDeviceCanJoin
  <2>5. CASE RestartSleep
    BY <2>5 DEF RestartSleep, TypeOK, IInv, ActiveDeviceCanJoin
  <2>6. CASE RestartSoftap
    BY <2>6 DEF RestartSoftap, TypeOK, IInv, ActiveDeviceCanJoin
  <2> QED
    BY <2>1, <2>2, <2>3, <2>4, <2>5, <2>6 DEF Ends
<1>2. configured' \in BOOLEAN /\ savedIp' \in BOOLEAN
  <2>1. configured \in BOOLEAN /\ savedIp \in BOOLEAN
    BY DEF IInv, TypeOK
  <2> QED
    BY <2>1, Zenon DEF Ends, SleepTimeout, SentCb, Restart, Crash, RestartSleep, RestartSoftap, flash
<1>3. activeflag' \in {0, 1, 2} /\ overrun' \in {"no", "now", "since"} /\ net' \in BOOLEAN
    BY <1>1 DEF IInv, TypeOK
<1>4. ActiveDeviceCanJoin' /\ CharInv'
    BY <1>1 DEF ActiveDeviceCanJoin, CharInv, IInv
<1> QED
    BY <1>1, <1>2, <1>3, <1>4, DownStep

(* Steps that go on *)

LEMMA TimerApChangeStep == IInv /\ TimerApChange => IInv'
<1> SUFFICES ASSUME IInv, TimerApChange PROVE IInv'
    OBVIOUS
<1>1. TypeOK'
    BY ConstantFacts DEF TypeOK, IInv, TimerApChange, station
<1> QED
    BY <1>1 DEF TimerApChange, station,
                IInv, DownInv, PressInv, StationInv, WebInv, CharInv, DisconInv,
                ActiveDeviceCanJoin, NextStepPending, NoUploadWhileConfiguring, Awake

LEMMA TimerDisconStep == IInv /\ TimerDiscon => IInv'
<1> SUFFICES ASSUME IInv, TimerDiscon PROVE IInv'
    OBVIOUS
<1>1. TypeOK'
    BY ConstantFacts DEF TypeOK, IInv, TimerDiscon, station
<1> QED
    BY <1>1 DEF TimerDiscon, station,
                IInv, DownInv, PressInv, StationInv, WebInv, CharInv, DisconInv,
                ActiveDeviceCanJoin, NextStepPending, NoUploadWhileConfiguring, Awake

LEMMA NotActivatedStep == IInv /\ NotActivated => IInv'
<1> SUFFICES ASSUME IInv, NotActivated PROVE IInv'
    OBVIOUS
<1>1. TypeOK'
    BY ConstantFacts DEF TypeOK, IInv, NotActivated, station
<1> QED
    BY <1>1 DEF NotActivated, station,
                IInv, DownInv, PressInv, StationInv, WebInv, CharInv, DisconInv,
                ActiveDeviceCanJoin, NextStepPending, NoUploadWhileConfiguring, Awake

LEMMA UploadAnsweredStep == IInv /\ UploadAnswered => IInv'
<1> SUFFICES ASSUME IInv, UploadAnswered PROVE IInv'
    OBVIOUS
<1>1. TypeOK'
    BY ConstantFacts DEF TypeOK, IInv, UploadAnswered, station
<1> QED
    BY <1>1 DEF UploadAnswered, station,
                IInv, DownInv, PressInv, StationInv, WebInv, CharInv, DisconInv,
                ActiveDeviceCanJoin, NextStepPending, NoUploadWhileConfiguring, Awake

LEMMA LongPressStep == IInv /\ LongPress => IInv'
<1> SUFFICES ASSUME IInv, LongPress PROVE IInv'
    OBVIOUS
<1>1. TypeOK'
    BY ConstantFacts DEF TypeOK, IInv, LongPress, client, Written
<1> QED
    BY <1>1 DEF LongPress, client, Written,
                IInv, DownInv, PressInv, StationInv, WebInv, CharInv, DisconInv,
                ActiveDeviceCanJoin, NextStepPending, NoUploadWhileConfiguring, Awake

LEMMA RestoreStep == IInv /\ Restore => IInv'
<1> SUFFICES ASSUME IInv, Restore PROVE IInv'
    OBVIOUS
<1>1. TypeOK'
  <2>1. configured' \in BOOLEAN
    BY Zenon DEF Restore
  <2> QED
    BY <2>1, ConstantFacts DEF TypeOK, IInv, Restore, client
<1> QED
    BY <1>1 DEF Restore, client,
                IInv, DownInv, PressInv, StationInv, WebInv, CharInv, DisconInv,
                ActiveDeviceCanJoin, NextStepPending, NoUploadWhileConfiguring, Awake

LEMMA WebSleepStep == IInv /\ WebSleep => IInv'
<1> SUFFICES ASSUME IInv, WebSleep PROVE IInv'
    OBVIOUS
<1>1. TypeOK'
    BY ConstantFacts DEF TypeOK, IInv, WebSleep, client, flash
<1> QED
    BY <1>1 DEF WebSleep, client, flash,
                IInv, DownInv, PressInv, StationInv, WebInv, CharInv, DisconInv,
                ActiveDeviceCanJoin, NextStepPending, NoUploadWhileConfiguring, Awake

LEMMA StationJoinsStep == IInv /\ StationJoins => IInv'
<1> SUFFICES ASSUME IInv, StationJoins PROVE IInv'
    OBVIOUS
<1>1. TypeOK'
    BY ConstantFacts DEF TypeOK, IInv, StationJoins, client, flash
<1> QED
    BY <1>1 DEF StationJoins, client, flash,
                IInv, DownInv, PressInv, StationInv, WebInv, CharInv, DisconInv,
                ActiveDeviceCanJoin, NextStepPending, NoUploadWhileConfiguring, Awake

LEMMA StationFailsStep == IInv /\ StationFails => IInv'
<1> SUFFICES ASSUME IInv, StationFails PROVE IInv'
    OBVIOUS
<1>1. TypeOK'
    BY ConstantFacts DEF TypeOK, IInv, StationFails, client, flash
<1> QED
    BY <1>1 DEF StationFails, client, flash,
                IInv, DownInv, PressInv, StationInv, WebInv, CharInv, DisconInv,
                ActiveDeviceCanJoin, NextStepPending, NoUploadWhileConfiguring, Awake

LEMMA NetChangeStep == IInv /\ NetChange => IInv'
<1> SUFFICES ASSUME IInv, NetChange PROVE IInv'
    OBVIOUS
<1>1. TypeOK'
    BY ConstantFacts DEF TypeOK, IInv, NetChange, client, flash
<1> QED
    BY <1>1 DEF NetChange, client, flash,
                IInv, DownInv, PressInv, StationInv, WebInv, CharInv, DisconInv,
                ActiveDeviceCanJoin, NextStepPending, NoUploadWhileConfiguring, Awake

LEMMA DnsFoundStep == IInv /\ DnsFound => IInv'
<1> SUFFICES ASSUME IInv, DnsFound PROVE IInv'
    OBVIOUS
<1>1. TypeOK'
  <2>1. named \in BOOLEAN /\ serverIp \in BOOLEAN
    BY DEF IInv, TypeOK
  <2>2. named' \in BOOLEAN /\ serverIp' \in BOOLEAN
    BY <2>1, Zenon DEF DnsFound
  <2> QED
    BY <2>2, ConstantFacts DEF TypeOK, IInv, DnsFound, station
<1> QED
    BY <1>1 DEF DnsFound, station,
                IInv, DownInv, PressInv, StationInv, WebInv, CharInv, DisconInv,
                ActiveDeviceCanJoin, NextStepPending, NoUploadWhileConfiguring, Awake

LEMMA DnsNotFoundStep == IInv /\ DnsNotFound => IInv'
<1> SUFFICES ASSUME IInv, DnsNotFound PROVE IInv'
    OBVIOUS
<1>1. TypeOK'
    BY ReconCounts, ConstantFacts DEF TypeOK, IInv, DnsNotFound, station, ResetMode
<1> QED
    BY <1>1 DEF DnsNotFound, station, ResetMode,
                IInv, DownInv, PressInv, StationInv, WebInv, CharInv, DisconInv,
                ActiveDeviceCanJoin, NextStepPending, NoUploadWhileConfiguring, Awake

LEMMA ConnectedStep == IInv /\ Connected => IInv'
<1> SUFFICES ASSUME IInv, Connected PROVE IInv'
    OBVIOUS
<1>1. TypeOK'
    BY ConstantFacts DEF TypeOK, IInv, Connected, Sent, station
<1> QED
    BY <1>1 DEF Connected, Sent, station,
                IInv, DownInv, PressInv, StationInv, WebInv, CharInv, DisconInv,
                ActiveDeviceCanJoin, NextStepPending, NoUploadWhileConfiguring, Awake

LEMMA ConnectionErrorStep == IInv /\ ConnectionError => IInv'
<1> SUFFICES ASSUME IInv, ConnectionError PROVE IInv'
    OBVIOUS
<1>1. TypeOK'
    BY ReconCounts DEF TypeOK, IInv, ConnectionError, station, ResetMode, NoConnection
<1> QED
    BY <1>1 DEF ConnectionError, station, ResetMode, NoConnection,
                IInv, DownInv, PressInv, StationInv, WebInv, CharInv, DisconInv,
                ActiveDeviceCanJoin, NextStepPending, NoUploadWhileConfiguring, Awake

LEMMA BootStep == IInv /\ Boot => IInv'
<1> SUFFICES ASSUME IInv, Boot PROVE IInv'
    OBVIOUS
<1>1. TypeOK'
  <2>1. up' \in BOOLEAN /\ web' \in BOOLEAN /\ savedIp' \in BOOLEAN /\ sleepTimer' \in BOOLEAN
    BY Zenon DEF Boot, SensorInit
  <2>2. opmode' \in {"SOFTAP", "STATION", "STATIONAP"}
    BY DEF Boot, IInv, TypeOK
  <2>3. client_timer' \in {"check_ip_reset", "none"} /\ overrun' \in {"no", "now", "since"}
    BY DEF Boot, IInv, TypeOK
  <2> QED
    BY <2>1, <2>2, <2>3, ConstantFacts DEF TypeOK, IInv, Boot
<1>2. client_timer' = "check_ip_reset"
    BY DEF Boot, ClientStarts, TypeOK, IInv, ActiveDeviceCanJoin
<1> QED
  <2>1. pressing' = "no" /\ conn' = "none" /\ frame' = "none" /\ wifi' = wifi
    BY DEF Boot, IInv, DownInv
  <2>2. opmode' # "SOFTAP"
    BY DEF Boot, TypeOK, IInv, ActiveDeviceCanJoin
  <2>3. wifi # "GOT_IP"
    BY DEF Boot, IInv, DownInv
  <2>4. up' /\ UNCHANGED <<configured, activeflag>>
    BY Zenon DEF Boot
  <2>9. overrun' = IF overrun = "since" THEN "no" ELSE overrun
    BY Zenon DEF Boot
  <2>10. CharInv'
    BY <2>4, <2>9 DEF IInv, CharInv
  <2>5. web' => (overrun' = "no" => activeflag' = 0)
    BY <2>4, <2>10 DEF Boot, TypeOK, IInv, CharInv
  <2>6. ActiveDeviceCanJoin'
    BY <2>2, <2>4, <2>9 DEF IInv, ActiveDeviceCanJoin
  <2>7. StationInv' /\ DisconInv' /\ PressInv' /\ DownInv'
    BY <1>2, <2>1, <2>2, <2>3, <2>4 DEF StationInv, DisconInv, PressInv, DownInv
  <2>8. WebInv' /\ NextStepPending' /\ NoUploadWhileConfiguring'
    BY <1>2, <2>1, <2>4, <2>5 DEF WebInv, NextStepPending, NoUploadWhileConfiguring
  <2> QED
    BY <1>1, <2>6, <2>7, <2>8, <2>10 DEF IInv

LEMMA TimerCheckIpStep == IInv /\ TimerCheckIp => IInv'
<1> SUFFICES ASSUME IInv, TimerCheckIp PROVE IInv'
    OBVIOUS
<1> DEFINE r == client_timer = "check_ip_reset"
<1>0. r \in BOOLEAN /\ TypeOK /\ CheckIp(wifi, r) /\ wifi \in {"CONNECTING", "GOT_IP", "FAILED"}
    BY DEF TypeOK, IInv, TimerCheckIp
<1>1. /\ opmode' \in {"SOFTAP", "STATION", "STATIONAP"}
      /\ opmode # "SOFTAP" => opmode' # "SOFTAP"
      /\ client_timer' \in {"dns_check", "ap_change", "check_ip"}
      /\ queries' \in 0..MaxDns /\ serverIp' \in BOOLEAN
      /\ recon' \in 0..ReconModulus-1
  <2> HIDE DEF r
  <2> QED
    BY <1>0, CheckIpStep
<1>2. TypeOK'
    BY <1>1 DEF TypeOK, IInv, TimerCheckIp, station
<1> QED
    BY <1>1, <1>2 DEF TimerCheckIp, station,
                IInv, DownInv, PressInv, StationInv, WebInv, CharInv, DisconInv,
                ActiveDeviceCanJoin, NextStepPending, NoUploadWhileConfiguring, Awake

LEMMA TimerDnsCheckStep == IInv /\ TimerDnsCheck => IInv'
<1> SUFFICES ASSUME IInv, TimerDnsCheck PROVE IInv'
    OBVIOUS
<1>1. queries' \in 0..MaxDns /\ serverIp' \in BOOLEAN
    BY NameType DEF TypeOK, IInv, TimerDnsCheck
<1>2. TypeOK'
    BY <1>1 DEF TypeOK, IInv, TimerDnsCheck, station
<1> QED
    BY <1>1, <1>2 DEF TimerDnsCheck, station,
                IInv, DownInv, PressInv, StationInv, WebInv, CharInv, DisconInv,
                ActiveDeviceCanJoin, NextStepPending, NoUploadWhileConfiguring, Awake

LEMMA DisconnectedStep == IInv /\ Disconnected => IInv'
<1> SUFFICES ASSUME IInv, Disconnected PROVE IInv'
    OBVIOUS
<1>1. CASE opmode = "STATION"
  <2>1. GoDown /\ UNCHANGED <<flash, net>> /\ savedIp' \in BOOLEAN
    BY <1>1, Zenon DEF Disconnected, DeepSleep
  <2> QED
    BY <2>1, DownStep DEF flash, TypeOK, IInv, ActiveDeviceCanJoin, CharInv
<1>2. CASE opmode # "STATION"
  <2>1. TypeOK'
    BY <1>2, ConstantFacts DEF TypeOK, IInv, Disconnected, station, NoConnection
  <2> QED
    BY <1>2, <2>1 DEF Disconnected, station, NoConnection,
                IInv, DownInv, PressInv, StationInv, WebInv, CharInv, DisconInv,
                ActiveDeviceCanJoin, NextStepPending, NoUploadWhileConfiguring, Awake
<1> QED
    BY <1>1, <1>2

LEMMA ActivatedStep == IInv /\ Activated => IInv'
<1> SUFFICES ASSUME IInv, Activated PROVE IInv'
    OBVIOUS
<1>1. configured /\ opmode # "SOFTAP"
    BY DEF IInv, StationInv, Activated, Awake
<1>2. /\ GoDown /\ activeflag' = 1 /\ overrun' = Written
      /\ UNCHANGED <<opmode, configured, savedIp, net>>
    BY DEF Activated, DeepSleep
<1>3. ActiveDeviceCanJoin' /\ CharInv'
    BY <1>1, <1>2 DEF ActiveDeviceCanJoin, CharInv
<1>4. overrun' \in {"no", "now", "since"}
    BY <1>2 DEF Written, IInv, TypeOK
<1> QED
    BY <1>2, <1>3, <1>4, DownStep DEF IInv, TypeOK

LEMMA WebPostStep ==
    ASSUME IInv, NEW token \in Token, NEW network \in BOOLEAN, WebPost(token, network)
    PROVE  IInv'
<1>0. SetToken(token)
    BY DEF WebPost
<1>1. /\ activeflag' \in {0, 1, 2} /\ overrun' \in {"no", "now", "since"}
      /\ overrun' = "no" => overrun = "no"
      /\ \/ UNCHANGED <<activeflag, overrun>>
         \/ activeflag' = 0
         \/ overrun' = "now"
    BY <1>0 DEF SetToken, Written, IInv, TypeOK
<1>2. restartTimer' \in {"none", "WIFI", "DEEP_SLEEP"}
    BY DEF WebPost
<1>3. TypeOK'
    BY <1>1, <1>2 DEF TypeOK, IInv, WebPost, client
<1> QED
    BY <1>1, <1>3 DEF WebPost, client, Awake,
                IInv, DownInv, PressInv, StationInv, WebInv, CharInv, DisconInv,
                ActiveDeviceCanJoin, NextStepPending, NoUploadWhileConfiguring, Awake

LEMMA RestartWifiStep == IInv /\ RestartWifi => IInv'
<1> SUFFICES ASSUME IInv, RestartWifi PROVE IInv'
    OBVIOUS
<1>0. wifi' \in {"CONNECTING", "GOT_IP", "FAILED"}
    BY DEF TypeOK, IInv, RestartWifi
<1>1. PICK r \in BOOLEAN : CheckIp(wifi', r)
    BY DEF RestartWifi
<1>2. /\ opmode' \in {"SOFTAP", "STATION", "STATIONAP"}
      /\ opmode # "SOFTAP" => opmode' # "SOFTAP"
      /\ client_timer' \in {"dns_check", "ap_change", "check_ip"}
      /\ queries' \in 0..MaxDns /\ serverIp' \in BOOLEAN
      /\ recon' \in 0..ReconModulus-1
    BY <1>0, <1>1, CheckIpStep DEF IInv
<1>3. configured' \in BOOLEAN
    BY Zenon DEF RestartWifi
<1>4. TypeOK'
    BY <1>0, <1>2, <1>3 DEF TypeOK, IInv, RestartWifi
<1> QED
    BY <1>2, <1>4 DEF RestartWifi,
                IInv, DownInv, PressInv, StationInv, WebInv, CharInv, DisconInv,
                ActiveDeviceCanJoin, NextStepPending, NoUploadWhileConfiguring, Awake

-----------------------------------------------------------------------------
(* The invariant *)

LEMMA Initially == Init => IInv
<1> SUFFICES ASSUME Init PROVE IInv
    OBVIOUS
<1>1. TypeOK
  <2>1. /\ up \in BOOLEAN /\ web \in BOOLEAN /\ sleepTimer \in BOOLEAN /\ named \in BOOLEAN
        /\ serverIp \in BOOLEAN /\ savedIp \in BOOLEAN /\ configured \in BOOLEAN
    BY Zenon DEF Init
  <2>2. queries \in 0..MaxDns /\ recon \in 0..ReconModulus-1
    BY ConstantFacts DEF Init
  <2> QED
    BY <2>1, <2>2 DEF Init, TypeOK
<1> QED
    BY <1>1 DEF Init,
                IInv, DownInv, PressInv, StationInv, WebInv, CharInv, DisconInv,
                ActiveDeviceCanJoin, NextStepPending, NoUploadWhileConfiguring, Awake

\* Every step of the client preserves the invariant.
LEMMA NextStep == IInv /\ [Next]_vars => IInv'
<1> SUFFICES ASSUME IInv, [Next]_vars PROVE IInv'
    OBVIOUS
<1>1. CASE UNCHANGED vars
    BY <1>1 DEF vars, client, flash, TypeOK,
                IInv, DownInv, PressInv, StationInv, WebInv, CharInv, DisconInv,
                ActiveDeviceCanJoin, NextStepPending, NoUploadWhileConfiguring, Awake
<1>2. CASE Boot
    BY <1>2, BootStep
<1>3. CASE ClientTimer
    BY <1>3, TimerCheckIpStep, TimerApChangeStep, TimerDnsCheckStep, TimerDisconStep
       DEF ClientTimer
<1>4. CASE Ends
    BY <1>4, EndsStep
<1>5. CASE DnsNotFound \/ DnsFound \/ Connected \/ ConnectionError \/ Disconnected
    BY <1>5, DnsNotFoundStep, DnsFoundStep, ConnectedStep, ConnectionErrorStep,
       DisconnectedStep
<1>6. CASE Activated \/ NotActivated \/ UploadAnswered
    BY <1>6, ActivatedStep, NotActivatedStep, UploadAnsweredStep
<1>7. CASE LongPress \/ Restore
    BY <1>7, LongPressStep, RestoreStep
<1>8. CASE \E token \in Token, network \in BOOLEAN : WebPost(token, network)
    BY <1>8, WebPostStep
<1>9. CASE WebSleep \/ RestartWifi
    BY <1>9, WebSleepStep, RestartWifiStep
<1>10. CASE NetChange \/ StationJoins \/ StationFails
    BY <1>10, NetChangeStep, StationJoinsStep, StationFailsStep
<1> QED
    BY <1>1, <1>2, <1>3, <1>4, <1>5, <1>6, <1>7, <1>8, <1>9, <1>10
       DEF Next, Ends, RestartTimer

\* No callback, in whatever order the SDK calls them, and no request, key press,
\* reset or power failure breaks the invariant.
THEOREM Invariance == IsCloudClient => []IInv
BY NextStep, Initially, PTL DEF IsCloudClient

-----------------------------------------------------------------------------
(* The device *)

\* The client runs in the boots that data_func started it in, and the web server
\* in those without a cycle.
BootInv == /\ up <=> pc \in {"upload", "config"}
           /\ up => (web <=> pc = "config")
           /\ web => up

\* A step of the device is a step of the client, or none of its.
LEMMA ClientStep == IInv /\ [DeviceNext]_deviceVars => [Next]_vars
<1> SUFFICES ASSUME IInv, [DeviceNext]_deviceVars PROVE [Next]_vars
    OBVIOUS
<1>1. CASE Watchdog
  <2>1. savedIp' \in BOOLEAN
    BY <1>1 DEF Watchdog, IInv, TypeOK
  <2> QED
    BY <1>1, <2>1 DEF Watchdog, Crash, Next
<1>2. CASE PowerOn \/ Wake \/ DataFunc \/ UNCHANGED deviceVars
    BY <1>2 DEF PowerOn, Wake, DataFunc, deviceVars
<1>3. CASE ConfigBoot \/ UploadBoot \/ PowerFails \/ World \/ Restarts
    BY <1>3 DEF ConfigBoot, UploadBoot, PowerFails, World, Restarts, Next, RestartTimer
<1>4. CASE Callback
    BY <1>4 DEF Callback, Next, RestartTimer
<1> QED
    BY <1>1, <1>2, <1>3, <1>4 DEF DeviceNext

\* The client of the device is CloudClient's.
LEMMA DeviceHasClient == DeviceSpec => IsCloudClient
<1>1. DeviceInit => Init
    BY DEF DeviceInit
<1>2. IInv /\ [DeviceNext]_deviceVars => IInv' /\ [Next]_vars
    BY ClientStep, NextStep
<1> QED
    BY <1>1, <1>2, Initially, PTL DEF DeviceSpec, IsCloudClient

\* What a callback does to the device is to leave the cycle alone, to put it to
\* sleep, or to store activeflag in a boot the cycle allows that in.
LEMMA CallbackIsCycle ==
    ASSUME IInv, BootInv, Callback
    PROVE  BootInv' /\ [S!Next]_(S!vars)
<1> DEFINE Going == ClientTimer \/ DnsNotFound \/ DnsFound \/ Connected \/ ConnectionError
                    \/ NotActivated \/ UploadAnswered \/ Restore \/ WebSleep \/ RestartWifi
<1>1. ASSUME up', up, web' = web, UNCHANGED sampling, UNCHANGED activeflag
      PROVE  BootInv' /\ [S!Next]_(S!vars)
    BY <1>1 DEF BootInv, sampling, S!vars
<1>2. ASSUME ~up', ~web', up, Asleep, UNCHANGED activeflag
      PROVE  BootInv' /\ [S!Next]_(S!vars)
  <2>1. S!UploadEnds \/ S!ConfigSleep
    BY <1>2 DEF Asleep, BootInv, S!UploadEnds, S!ConfigSleep
  <2> QED
    BY <1>2, <2>1 DEF Asleep, BootInv, S!Next
<1>3. CASE Going
  <2>1. up' /\ up /\ web' = web /\ UNCHANGED activeflag
    BY <1>3, Zenon DEF Going, ClientTimer, TimerCheckIp, TimerApChange, TimerDnsCheck, TimerDiscon,
       DnsNotFound, DnsFound, Connected, ConnectionError, NotActivated, UploadAnswered,
       Restore, WebSleep, RestartWifi, station, flash, Awake, IInv, PressInv
  <2> QED
    BY <1>1, <2>1 DEF Callback
<1>4. CASE SleepTimeout \/ SentCb \/ RestartSleep
  <2>1. ~up' /\ ~web' /\ up /\ UNCHANGED activeflag
    BY <1>4 DEF SleepTimeout, SentCb, RestartSleep, DeepSleep, GoDown, flash, Awake
  <2> QED
    BY <1>2, <2>1 DEF Callback
<1>5. CASE Disconnected
  <2>1. CASE opmode = "STATION"
    <3>1. ~up' /\ ~web' /\ up /\ UNCHANGED activeflag
      BY <1>5, <2>1 DEF Disconnected, DeepSleep, GoDown, flash, Awake
    <3> QED
      BY <1>2, <3>1 DEF Callback
  <2>2. CASE opmode # "STATION"
    <3>1. up' /\ up /\ web' = web /\ UNCHANGED activeflag
      BY <1>5, <2>2 DEF Disconnected, station, Awake
    <3> QED
      BY <1>1, <3>1 DEF Callback
  <2> QED
    BY <2>1, <2>2
<1>6. CASE Activated
  <2>1. ~up' /\ ~web' /\ up /\ activeflag' = 1
    BY <1>6 DEF Activated, DeepSleep, GoDown, Awake
  <2>2. Asleep
    BY <2>1 DEF Callback
  <2>3. S!Activated
    BY <2>1, <2>2 DEF Asleep, BootInv, S!Activated
  <2> QED
    BY <2>1, <2>2, <2>3 DEF Asleep, BootInv, S!Next
<1>7. CASE LongPress
  <2>1. up' /\ up /\ web' = web /\ activeflag' = 0
    BY <1>7 DEF LongPress, Awake
  <2>2. UNCHANGED sampling
    BY <2>1 DEF Callback
  <2>3. S!LongPress
    BY <2>1, <2>2 DEF sampling, BootInv, S!LongPress
  <2> QED
    BY <2>1, <2>2, <2>3 DEF sampling, BootInv, S!Next, S!Disturbance
<1>8. CASE \E token \in Token, network \in BOOLEAN : WebPost(token, network)
  <2>1. PICK token \in Token, network \in BOOLEAN : WebPost(token, network)
    BY <1>8
  <2>2. up' /\ up /\ web' = web
    BY <2>1 DEF WebPost, Awake
  <2>3. pc = "config" /\ UNCHANGED sampling
    BY <2>1, <2>2 DEF WebPost, Awake, BootInv, Callback
  <2>4. S!TokenPosted
    BY <2>3 DEF sampling, S!TokenPosted
  <2> QED
    BY <2>2, <2>3, <2>4 DEF sampling, BootInv, S!Next
<1> QED
    BY <1>3, <1>4, <1>5, <1>6, <1>7, <1>8 DEF Callback

\* A step of the device is a step of the duty cycle, or none of its.
LEMMA DeviceIsCycle ==
    ASSUME IInv, BootInv, [DeviceNext]_deviceVars
    PROVE  BootInv' /\ [S!Next]_(S!vars)
<1>1. CASE UNCHANGED deviceVars
    BY <1>1 DEF deviceVars, vars, client, flash, sampling, BootInv, S!vars
<1>2. CASE PowerOn \/ Wake
  <2>1. UNCHANGED <<up, web, activeflag>>
    BY <1>2 DEF PowerOn, Wake, vars, client, flash
  <2> QED
    BY <1>2, <2>1 DEF PowerOn, Wake, BootInv, S!PowerOn, S!Wake, S!Next
<1>3. CASE DataFunc
  <2>1. UNCHANGED <<up, web, activeflag>>
    BY <1>3 DEF DataFunc, vars, client, flash
  <2>2. S!DataFunc
    BY <1>3 DEF DataFunc, S!DataFunc
  <2>3. pc \notin {"upload", "config"} /\ pc' \notin {"upload", "config"}
    BY <1>3 DEF DataFunc, S!Flush, S!Measure, S!Record, S!SetOption, S!Sleep
  <2> QED
    BY <2>1, <2>2, <2>3 DEF BootInv, S!Next
<1>4. CASE ConfigBoot \/ UploadBoot
  <2>1. up' /\ (web' => ConfigBoot)
    BY <1>4 DEF ConfigBoot, UploadBoot, Boot
  <2>2. CASE ConfigBoot
    BY <2>1, <2>2 DEF ConfigBoot, BootInv, S!EnterConfig, S!DataFunc, S!Next
  <2>3. CASE UploadBoot
    BY <2>1, <2>3 DEF UploadBoot, BootInv, S!Upload, S!DataFunc, S!Next
  <2> QED
    BY <1>4, <2>2, <2>3
<1>5. CASE Callback
    BY <1>5, CallbackIsCycle
<1>6. CASE Restarts \/ Watchdog
  <2>1. ~up' /\ ~web' /\ UNCHANGED activeflag /\ S!Reboot
    BY <1>6 DEF Restarts, Watchdog, Restart, RestartSoftap, GoDown, flash
  <2>2. pc \in S!Running
    BY <1>6 DEF Restarts, Watchdog, Restart, RestartSoftap, Awake, IInv, PressInv,
       BootInv, S!Running
  <2> QED
    BY <2>1, <2>2 DEF BootInv, S!Reboot, S!Reset, S!Disturbance, S!Next
<1>7. CASE World
  <2>1. UNCHANGED <<up, web, activeflag, sampling>>
    BY <1>7 DEF World, NetChange, StationJoins, StationFails, flash
  <2> QED
    BY <2>1 DEF sampling, BootInv, S!vars
<1>8. CASE PowerFails
  <2>1. ~up' /\ ~web' /\ UNCHANGED activeflag /\ S!PowerLoss
    BY <1>8 DEF PowerFails, Crash, GoDown, flash
  <2> QED
    BY <2>1 DEF BootInv, S!PowerLoss, S!Disturbance, S!Next
<1> QED
    BY <1>1, <1>2, <1>3, <1>4, <1>5, <1>6, <1>7, <1>8 DEF DeviceNext

\* The device implements the duty cycle: no callback, request or key press ends
\* a boot, or changes activeflag, otherwise than SamplingCycle says.
THEOREM DeviceHasCycle == DeviceSpec => IsSamplingCycle
<1>1. DeviceInit => IInv /\ BootInv /\ S!Init
    BY Initially DEF DeviceInit, Init, S!Init, BootInv
<1>2. ASSUME IInv, BootInv, [DeviceNext]_deviceVars
      PROVE  IInv' /\ BootInv' /\ [S!Next]_(S!vars)
    BY <1>2, ClientStep, NextStep, DeviceIsCycle
<1> QED
    BY <1>1, <1>2, PTL DEF DeviceSpec, IsSamplingCycle

-----------------------------------------------------------------------------
(* The theorems *)

\* Every variable keeps its type: user_esp_platform.c, user_sensor.c.
THEOREM TypeCorrect == Spec \/ DeviceSpec => []TypeOK
<1>1. IInv => TypeOK
    BY DEF IInv
<1> QED
    BY <1>1, Invariance, DeviceHasClient, PTL DEF Spec, IsCloudClient

\* A device that counts as registered has a network and a mode to join it in,
\* wherever the steps of user_sensor_long_press are cut.
THEOREM CanJoin == Spec \/ DeviceSpec => []ActiveDeviceCanJoin
<1>1. IInv => ActiveDeviceCanJoin
    BY DEF IInv
<1> QED
    BY <1>1, Invariance, DeviceHasClient, PTL DEF Spec, IsCloudClient

\* No order of callbacks leaves the client awake, unconnected and without a
\* timer: client_timer is never overwritten for good.
THEOREM TimerArmed == Spec \/ DeviceSpec => []NextStepPending
<1>1. IInv => NextStepPending
    BY DEF IInv
<1> QED
    BY <1>1, Invariance, DeviceHasClient, PTL DEF Spec, IsCloudClient

\* user_esp_platform_sent uploads in no boot that runs the web server, while the
\* tokens posted fit their field.
THEOREM NoUploadWithWeb == Spec \/ DeviceSpec => []NoUploadWhileConfiguring
<1>1. IInv => NoUploadWhileConfiguring
    BY DEF IInv
<1> QED
    BY <1>1, Invariance, DeviceHasClient, PTL DEF Spec, IsCloudClient

-----------------------------------------------------------------------------
(* What is proved of the duty cycle holds of the device's. *)

P == INSTANCE SamplingCycle_proofs WITH active <- (activeflag = 1)

\* The proofs' own instance of SamplingCycle has the same steps.
LEMMA SameCycle == [S!Next]_(S!vars) => [P!Next]_(P!vars)
<1>1. S!PowerOn \/ S!Wake \/ S!UploadEnds \/ S!Activated \/ S!ConfigSleep
      => P!PowerOn \/ P!Wake \/ P!UploadEnds \/ P!Activated \/ P!ConfigSleep
  BY DEF S!PowerOn, S!Wake, S!UploadEnds, S!Activated, S!ConfigSleep,
         P!PowerOn, P!Wake, P!UploadEnds, P!Activated, P!ConfigSleep
<1>7. S!TokenPosted => P!TokenPosted
  BY DEF S!TokenPosted, P!TokenPosted
<1>2. S!Disturbance => P!Disturbance
  BY DEF S!Disturbance, S!PowerLoss, S!RandomRtc, S!RtcMem, S!Index, S!Reset, S!Running,
         S!Reboot, S!LongPress,
         P!Disturbance, P!PowerLoss, P!RandomRtc, P!RtcMem, P!Index, P!Reset, P!Running,
         P!Reboot, P!LongPress
<1>3. S!EnterConfig \/ S!Flush \/ S!Measure => P!EnterConfig \/ P!Flush \/ P!Measure
  BY DEF S!EnterConfig, S!Flush, S!Measure, S!NoCycle, S!InCycle, S!Slot,
         P!EnterConfig, P!Flush, P!Measure, P!NoCycle, P!InCycle, P!Slot
<1>4. S!Record \/ S!SetOption \/ S!Sleep \/ S!Upload
      => P!Record \/ P!SetOption \/ P!Sleep \/ P!Upload
  BY DEF S!Record, S!SetOption, S!Sleep, S!Upload, S!Shift, S!Index,
         P!Record, P!SetOption, P!Sleep, P!Upload, P!Shift, P!Index
<1>5. UNCHANGED S!vars => UNCHANGED P!vars
  BY DEF S!vars, P!vars
<1>6. S!Next => P!Next
  BY <1>1, <1>2, <1>3, <1>4, <1>7 DEF S!Next, S!DataFunc, P!Next, P!DataFunc
<1> QED
  BY <1>5, <1>6

LEMMA CycleKeeps == P!IInv /\ [P!Next]_(P!vars) => P!IInv'
BY P!NextIInv, DeviceAssumption

LEMMA CycleStarts == S!Init => P!IInv
<1>1. S!Init => P!Init
  BY DEF S!Init, S!RandomRtc, S!RtcMem, S!Index, P!Init, P!RandomRtc, P!RtcMem, P!Index
<1> QED
  BY <1>1, P!InitIInv, DeviceAssumption

LEMMA DeviceInv == DeviceSpec => [](IInv /\ BootInv /\ P!IInv)
<1>1. DeviceInit => IInv /\ BootInv /\ P!IInv
    BY Initially, CycleStarts DEF DeviceInit, Init, S!Init, BootInv
<1>2. ASSUME IInv, BootInv, P!IInv, [DeviceNext]_deviceVars
      PROVE  IInv' /\ BootInv' /\ P!IInv'
    BY <1>2, ClientStep, NextStep, DeviceIsCycle, SameCycle, CycleKeeps
<1> QED
    BY <1>1, <1>2, PTL DEF DeviceSpec

\* The boots that send a batch are the uploads of the duty cycle, but for one with
\* an overrun.
LEMMA SendsInUpload ==
    ASSUME IInv, BootInv, frame = "upload"
    PROVE  pc = "upload" \/ (web /\ overrun # "no")
<1>1. up /\ (web => overrun # "no")
    BY DEF IInv, DownInv, NoUploadWhileConfiguring
<1> QED
    BY <1>1 DEF BootInv

\* BatchUploaded: NoUploadWhileConfiguring says which boots send a batch, the duty
\* cycle what RAM and the radio are in them.
THEOREM BatchSent == DeviceSpec => []BatchUploaded
<1>1. ASSUME IInv, BootInv, P!IInv PROVE BatchUploaded
  <2> SUFFICES ASSUME frame = "upload", pc = "upload"
               PROVE  radio /\ sensor_data.cnt = N
    BY <1>1, SendsInUpload DEF BatchUploaded
  <2>2. radio
    BY <1>1 DEF P!IInv, P!RadioInv
  <2>3. sensor_data.cnt = N
    BY <1>1 DEF P!IInv, P!MemInv
  <2> QED
    BY <2>2, <2>3
<1> QED
    BY <1>1, DeviceInv, PTL

\* Every batch is the N measurements data_func took last, in their order - that of
\* a configuration in which a token overran its field is none.
SentIsLast == frame = "upload" => sensor_data.data = last \/ (web /\ overrun # "no")

\* What user_esp_platform_sent sends are these, whatever resets, lost connections and
\* registrations came between.
THEOREM SentInOrder == DeviceSpec => []SentIsLast
<1>1. ASSUME IInv, BootInv, P!IInv PROVE SentIsLast
  <2> SUFFICES ASSUME frame = "upload", pc = "upload" PROVE sensor_data.data = last
    BY <1>1, SendsInUpload DEF SentIsLast
  <2>1. P!BatchIsLastN
    BY <1>1, P!FullIsLast, DeviceAssumption
  <2> QED
    BY <2>1 DEF P!BatchIsLastN
<1> QED
    BY <1>1, DeviceInv, PTL
=============================================================================
