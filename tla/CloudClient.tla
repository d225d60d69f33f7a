---------------------------- MODULE CloudClient ----------------------------
(***************************************************************************)
(* The cloud client of app/user/user_esp_platform.c, with the sleep and    *)
(* key policy of app/user/user_sensor.c, over any number of boots.  Each   *)
(* boot that runs user_esp_platform_init joins a network, resolves the     *)
(* server's name, connects, registers the device or uploads its batch, and *)
(* sleeps.  The SDK calls one callback at a time: an action is a callback  *)
(* from its first line to its last.  One os timer, client_timer, carries   *)
(* the client from step to step, and every callback may overwrite it.      *)
(*                                                                         *)
(* Boots that only measure, or start a cycle, do not run the client: they  *)
(* are part of the device being down here (SamplingCycle).                 *)
(***************************************************************************)
EXTENDS Integers, FiniteSets

CONSTANTS MaxDns,       \* bound: name queries the SDK has under way
          ReconModulus  \* device_recon_count is a uint8: 256

ASSUME CloudAssumption == /\ MaxDns \in Nat \ {0}
                          /\ ReconModulus \in Nat /\ ReconModulus > 5

VARIABLES
    \* kept in flash
    opmode,       \* the WiFi mode
    configured,   \* whether the station has a network to join
    activeflag,   \* esp_param.activeflag: 0 stands for 0 and 0xFF, 2 for a
                  \* character of a token
    overrun,      \* history: whether a token that did not fit its field wrote
                  \* activeflag: "now", as it is, or "since" the last boot
    \* kept in RTC memory
    savedIp,      \* dhcp_info.flag: an address to use instead of DHCP
    \* of this boot
    up,           \* whether the device is awake and runs the client
    web,          \* whether the web server runs
    client_timer, \* the callback client_timer will call
    sleepTimer,   \* whether sensor_sleep_timer is armed
    restartTimer, \* what restart_10ms_cb of the web server will do
    pressing,     \* how far user_sensor_long_press has come
    wifi,         \* wifi_station_get_connect_status
    queries,      \* espconn_gethostbyname calls not yet answered
    named,        \* whether the SDK's name table holds the server's name
    serverIp,     \* whether esp_server_ip.addr # 0
    conn,         \* user_conn
    frame,        \* what user_esp_platform_sent sent on this connection
    recon,        \* device_recon_count
    \* the world
    net           \* whether the network and the server are there and answer

flash == <<opmode, configured, activeflag, overrun>>
client == <<client_timer, queries, named, serverIp, conn, frame, recon>>
vars == <<flash, savedIp, up, web, client, sleepTimer, restartTimer, pressing,
          wifi, net>>

TypeOK ==
    /\ opmode \in {"SOFTAP", "STATION", "STATIONAP"}
    /\ configured \in BOOLEAN
    /\ activeflag \in {0, 1, 2}
    /\ overrun \in {"no", "now", "since"}
    /\ savedIp \in BOOLEAN
    /\ up \in BOOLEAN
    /\ web \in BOOLEAN
    /\ client_timer \in {"none", "check_ip_reset", "check_ip", "reconnect",
                         "ap_change", "dns_check", "discon"}
    /\ sleepTimer \in BOOLEAN
    /\ restartTimer \in {"none", "WIFI", "DEEP_SLEEP"}
    /\ pressing \in {"no", "unregistered", "restored"}
    /\ wifi \in {"CONNECTING", "GOT_IP", "FAILED"}
    /\ queries \in 0..MaxDns
    /\ named \in BOOLEAN
    /\ serverIp \in BOOLEAN
    /\ conn \in {"none", "connecting", "open", "closing"}
    /\ frame \in {"none", "activate", "upload"}
    /\ recon \in 0..ReconModulus-1
    /\ net \in BOOLEAN

\* A device from the factory, or one that has been registered and sleeps.
Init == /\ up = FALSE /\ web = FALSE /\ sleepTimer = FALSE
        /\ client_timer = "none" /\ restartTimer = "none" /\ pressing = "no"
        /\ wifi = "CONNECTING" /\ queries = 0 /\ named = FALSE /\ serverIp = FALSE
        /\ conn = "none" /\ frame = "none" /\ recon = 0
        /\ savedIp = FALSE /\ overrun = "no"
        /\ net \in BOOLEAN
        /\ \/ opmode = "SOFTAP" /\ configured = FALSE /\ activeflag = 0
           \/ opmode = "STATION" /\ configured = TRUE /\ activeflag = 1

\* RAM is lost: deep sleep, restart, reset or power failure.
GoDown == /\ up' = FALSE /\ web' = FALSE /\ sleepTimer' = FALSE
          /\ client_timer' = "none" /\ restartTimer' = "none" /\ pressing' = "no"
          /\ wifi' = "CONNECTING" /\ queries' = 0 /\ named' = FALSE /\ serverIp' = FALSE
          /\ conn' = "none" /\ frame' = "none" /\ recon' = 0

-----------------------------------------------------------------------------
(* user_esp_platform_init, called by data_func, and user_sensor_init *)

\* user_sensor_init: whether the time awake is limited.  A key that is down makes a
\* LongPress of this boot.
SensorInit(mode) == mode # "STATIONAP"

\* Mutant: not in the mode that is left for a retry.
ClientStartsInStation(mode) == mode = "STATION"

\* The client is started in every mode with a station.
ClientStarts(mode) == mode # "SOFTAP"

\* The web server runs only if the device is not registered.  That the converse
\* fails after a long press is a matter of SamplingCycle.  A saved address is
\* taken over and cleared.  The 2 s limit is not set in STATIONAP mode.
Boot ==
    /\ ~up
    /\ up' = TRUE
    /\ web' \in BOOLEAN
    /\ web' => activeflag # 1
    /\ opmode' = IF activeflag # 1 THEN "STATIONAP" ELSE opmode
    /\ sleepTimer' = SensorInit(opmode')
    /\ client_timer' = IF ClientStarts(opmode') THEN "check_ip_reset" ELSE "none"
    /\ savedIp' = FALSE
    /\ overrun' = IF overrun = "since" THEN "no" ELSE overrun
    /\ UNCHANGED <<configured, activeflag, restartTimer, pressing, wifi, queries,
                   named, serverIp, conn, frame, recon, net>>

\* A callback of the client can run.
Awake == up /\ pressing = "no"

-----------------------------------------------------------------------------
(* Steps shared by the callbacks *)

\* What overrun is once activeflag has been written as it should.
Written == IF overrun = "now" THEN "since" ELSE overrun

\* user_sensor_deep_sleep_enter
DeepSleep == GoDown

\* user_esp_platform_reset_mode
ResetMode == /\ opmode' = IF opmode = "STATION" THEN "STATIONAP" ELSE opmode
             /\ client_timer' = "ap_change"

\* ++device_recon_count
Count == (recon + 1) % ReconModulus

\* espconn_gethostbyname: an address in the SDK's name table is stored at once
\* and no callback is called; or a query is under way; or there is no room for
\* one.  The code does not look at the result.
GetHostByName(ip) ==
    \/ named /\ serverIp' = TRUE /\ UNCHANGED queries
    \/ ~named /\ queries < MaxDns /\ queries' = queries + 1 /\ serverIp' = ip
    \/ ~named /\ queries = MaxDns /\ UNCHANGED queries /\ serverIp' = ip

\* user_esp_platform_check_ip(reset_flag), with start_dns, for a station status
CheckIp(status, reset_flag) ==
    \/ /\ status = "GOT_IP"
       /\ recon' = IF reset_flag THEN 0 ELSE recon
       /\ GetHostByName(FALSE)
       /\ client_timer' = "dns_check"
       /\ UNCHANGED opmode
    \/ /\ status = "FAILED"
       /\ ResetMode
       /\ UNCHANGED <<recon, queries, serverIp>>
    \/ /\ status = "CONNECTING"
       /\ client_timer' = "check_ip"
       /\ UNCHANGED <<opmode, recon, queries, serverIp>>

\* What most callbacks leave alone.
station == <<configured, activeflag, overrun, savedIp, up, web, sleepTimer, restartTimer,
             pressing, net>>

\* The end of a connection: what was sent on it will not be answered.
NoConnection == conn' = "none" /\ frame' = "none"

-----------------------------------------------------------------------------
(* Callbacks of client_timer *)

TimerCheckIp ==
    /\ Awake
    /\ client_timer \in {"check_ip_reset", "check_ip", "reconnect"}
    /\ CheckIp(wifi, client_timer = "check_ip_reset")
    /\ UNCHANGED <<station, wifi, named, conn, frame>>

\* user_esp_platform_ap_change: the station may leave the network it is in.
TimerApChange ==
    /\ Awake
    /\ client_timer = "ap_change"
    /\ wifi' \in {wifi, "CONNECTING"}
    /\ recon' = 0
    /\ client_timer' = "check_ip"
    /\ UNCHANGED <<station, opmode, queries, named, serverIp, conn, frame>>

\* user_esp_platform_dns_check_cb
TimerDnsCheck ==
    /\ Awake
    /\ client_timer = "dns_check"
    /\ GetHostByName(serverIp)
    /\ UNCHANGED <<station, opmode, wifi, client_timer, named, conn, frame,
                   recon>>

\* user_esp_platform_discon
TimerDiscon ==
    /\ Awake
    /\ client_timer = "discon"
    /\ client_timer' = "none"
    /\ conn' = IF conn = "open" THEN "closing" ELSE conn
    /\ UNCHANGED <<station, opmode, wifi, queries, named, serverIp, frame, recon>>

\* sensor_sleep_timer: SENSOR_CONNECT_TIME has passed.
SleepTimeout ==
    /\ Awake
    /\ sleepTimer
    /\ DeepSleep
    /\ UNCHANGED <<flash, savedIp, net>>

-----------------------------------------------------------------------------
(* Callbacks of the network *)

\* user_esp_platform_dns_found with NULL
DnsNotFound ==
    /\ Awake
    /\ queries > 0
    /\ ~net
    /\ queries' = queries - 1
    /\ recon' = Count
    /\ IF recon' = 5 THEN ResetMode ELSE UNCHANGED <<opmode, client_timer>>
    /\ UNCHANGED <<station, wifi, named, serverIp, conn, frame>>

\* user_esp_platform_dns_found with an address.  The SDK refuses to connect an
\* espconn that has a connection.
DnsFound ==
    /\ Awake
    /\ queries > 0
    /\ net
    /\ queries' = queries - 1
    /\ named' = TRUE
    /\ IF serverIp
       THEN UNCHANGED <<serverIp, client_timer, conn>>
       ELSE /\ serverIp' = TRUE
            /\ client_timer' = "none"
            /\ conn' = IF conn = "none" THEN "connecting" ELSE conn
    /\ UNCHANGED <<station, opmode, wifi, frame, recon>>

\* Mutant: activeflag is not looked at.
SentBatch == frame' = "upload"

\* user_esp_platform_sent: a request to register, or the batch
Sent == frame' = IF activeflag = 0 THEN "activate" ELSE "upload"

\* user_esp_platform_connect_cb
Connected ==
    /\ Awake
    /\ conn = "connecting"
    /\ net /\ wifi = "GOT_IP"
    /\ opmode' = IF opmode = "STATIONAP" THEN "STATION" ELSE opmode
    /\ recon' = 0
    /\ conn' = "open"
    /\ Sent
    /\ UNCHANGED <<station, wifi, client_timer, queries, named, serverIp>>

\* Mutant: the wrong way round, a device that registers sleeps.
SentCbUnregistered ==
    /\ Awake
    /\ conn = "open"
    /\ frame # "none"
    /\ activeflag = 0
    /\ DeepSleep
    /\ UNCHANGED <<flash, savedIp, net>>

\* user_esp_platform_sent_cb
SentCb ==
    /\ Awake
    /\ conn = "open"
    /\ frame # "none"
    /\ activeflag = 1
    /\ DeepSleep
    /\ UNCHANGED <<flash, savedIp, net>>

\* Mutant: once registered the device goes on to user_esp_platform_sent.
ActivatedUploads ==
    /\ Awake
    /\ conn = "open" /\ net
    /\ frame = "activate"
    /\ activeflag' = 1
    /\ overrun' = Written
    /\ frame' = "upload"
    /\ UNCHANGED <<opmode, configured, savedIp, up, web, sleepTimer, restartTimer,
                   pressing, wifi, client_timer, queries, named, serverIp, conn,
                   recon, net>>

\* user_esp_platform_recv_cb: the server accepts the registration ...
Activated ==
    /\ Awake
    /\ conn = "open" /\ net
    /\ frame = "activate"
    /\ activeflag' = 1
    /\ overrun' = Written
    /\ DeepSleep
    /\ UNCHANGED <<opmode, configured, savedIp, net>>

\* ... or refuses it ...
NotActivated ==
    /\ Awake
    /\ conn = "open" /\ net
    /\ frame = "activate"
    /\ frame' = "none"
    /\ UNCHANGED <<station, opmode, wifi, client_timer, queries, named, serverIp, conn, recon>>

\* ... or reports what became of the upload.  What was sent is not looked at.
UploadAnswered ==
    /\ Awake
    /\ conn = "open" /\ net
    /\ client_timer' = "discon"
    /\ UNCHANGED <<station, opmode, wifi, queries, named, serverIp, conn, frame,
                   recon>>

\* Mutant: nothing tries again outside of STATION mode.
ConnectionErrorNoRetry ==
    /\ Awake
    /\ conn # "none"
    /\ ~net \/ wifi # "GOT_IP"
    /\ NoConnection
    /\ recon' = Count
    /\ IF recon' = 5 \/ opmode = "STATION"
       THEN ResetMode
       ELSE UNCHANGED <<client_timer, opmode>>
    /\ UNCHANGED <<station, wifi, queries, named, serverIp>>

\* user_esp_platform_recon_cb
ConnectionError ==
    /\ Awake
    /\ conn # "none"
    /\ ~net \/ wifi # "GOT_IP"
    /\ NoConnection
    /\ recon' = Count
    /\ IF recon' = 5 \/ opmode = "STATION"
       THEN ResetMode
       ELSE client_timer' = "reconnect" /\ UNCHANGED opmode
    /\ UNCHANGED <<station, wifi, queries, named, serverIp>>

\* user_esp_platform_discon_cb: the server closed the connection, or the client.
Disconnected ==
    /\ Awake
    /\ conn \in {"open", "closing"}
    /\ IF opmode = "STATION"
       THEN /\ savedIp' = TRUE
            /\ DeepSleep
            /\ UNCHANGED <<flash, net>>
       ELSE /\ NoConnection
            /\ client_timer' = "reconnect"
            /\ UNCHANGED <<station, opmode, wifi, queries, named, serverIp, recon>>

-----------------------------------------------------------------------------
(* The key: set_active(0), system_restore and system_restart.  The power may *)
(* fail, or the watchdog bite, between any two of them.                      *)

\* Mutant: system_restore comes before set_active(0).
LongPressRestoreFirst ==
    /\ Awake
    /\ opmode # "SOFTAP"
    /\ opmode' = "SOFTAP"
    /\ configured' = FALSE
    /\ pressing' = "unregistered"
    /\ UNCHANGED <<client, activeflag, overrun, savedIp, up, web, sleepTimer, restartTimer,
                   wifi, net>>

LongPress ==
    /\ Awake
    /\ opmode # "SOFTAP"
    /\ activeflag' = 0
    /\ overrun' = Written
    /\ pressing' = "unregistered"
    /\ UNCHANGED <<client, opmode, configured, savedIp, up, web, sleepTimer,
                   restartTimer, wifi, net>>

Restore ==
    /\ pressing = "unregistered"
    /\ opmode' = "SOFTAP"
    /\ configured' = FALSE
    /\ pressing' = "restored"
    /\ UNCHANGED <<client, activeflag, overrun, savedIp, up, web, sleepTimer, restartTimer,
                   wifi, net>>

Restart ==
    /\ pressing = "restored"
    /\ GoDown
    /\ UNCHANGED <<flash, savedIp, net>>

-----------------------------------------------------------------------------
(* The web server's part *)

\* user_esp_platform_set_token: none is posted, one that fits its field, or one
\* that does not, whose 41st character is then activeflag.
SetToken(token) ==
    \/ token = "none" /\ UNCHANGED <<activeflag, overrun>>
    \/ token = "fits" /\ activeflag' = 0 /\ overrun' = Written
    \/ token = "long" /\ activeflag' \in {0, 1, 2} /\ overrun' = "now"

Token == {"none", "fits", "long"}

\* POST config?command=wifi, with or without a token for a registration.
\* network: whether sta_conf or ap_conf now names a network, given by this
\* request or by one before.
WebPost(token, network) ==
    /\ Awake /\ web
    /\ SetToken(token)
    /\ restartTimer' = IF network \/ restartTimer = "WIFI" THEN "WIFI" ELSE "none"
    /\ UNCHANGED <<client, opmode, configured, savedIp, up, web, sleepTimer,
                   pressing, wifi, net>>

\* POST config?command=sleep
WebSleep ==
    /\ Awake /\ web
    /\ restartTimer' = "DEEP_SLEEP"
    /\ UNCHANGED <<client, flash, savedIp, up, web, sleepTimer, pressing, wifi,
                   net>>

\* restart_10ms_cb, WIFI: join the network.  user_esp_platform_check_ip is
\* called without its argument, which is then whatever the register holds.
RestartWifi ==
    /\ Awake
    /\ restartTimer = "WIFI"
    /\ restartTimer' = "none"
    /\ configured' = TRUE
    /\ wifi' \in {wifi, "CONNECTING"}
    /\ \E reset_flag \in BOOLEAN : CheckIp(wifi', reset_flag)
    /\ UNCHANGED <<activeflag, overrun, savedIp, up, web, sleepTimer, pressing, named,
                   conn, frame, net>>

\* restart_10ms_cb, WIFI with settings for the soft access point: restart.
RestartSoftap ==
    /\ Awake
    /\ restartTimer = "WIFI"
    /\ \/ UNCHANGED <<configured, opmode>>
       \/ /\ configured' = TRUE
          /\ opmode' \in {opmode, IF wifi = "FAILED" THEN "STATIONAP" ELSE opmode}
    /\ GoDown
    /\ UNCHANGED <<activeflag, overrun, savedIp, net>>

\* restart_10ms_cb, DEEP_SLEEP
RestartSleep ==
    /\ Awake
    /\ restartTimer = "DEEP_SLEEP"
    /\ opmode' = "STATION"
    /\ GoDown
    /\ UNCHANGED <<configured, activeflag, overrun, savedIp, net>>

-----------------------------------------------------------------------------
(* The world *)

NetChange == net' = ~net /\ UNCHANGED <<client, flash, savedIp, up, web,
                                        sleepTimer, restartTimer, pressing, wifi>>

\* The SDK's station joins, or finds that it cannot.
StationJoins == /\ up /\ configured /\ net
                /\ wifi' = "GOT_IP"
                /\ wifi # "GOT_IP"
                /\ UNCHANGED <<client, flash, savedIp, up, web, sleepTimer,
                               restartTimer, pressing, net>>

StationFails == /\ up /\ configured /\ ~net
                /\ wifi' \in {"CONNECTING", "FAILED"}
                /\ wifi' # wifi
                /\ UNCHANGED <<client, flash, savedIp, up, web, sleepTimer,
                               restartTimer, pressing, net>>

\* A reset keeps RTC memory, a power failure makes it random.
Crash == /\ GoDown
         /\ savedIp' \in BOOLEAN
         /\ UNCHANGED <<flash, net>>

ClientTimer == TimerCheckIp \/ TimerApChange \/ TimerDnsCheck \/ TimerDiscon

RestartTimer == RestartWifi \/ RestartSoftap \/ RestartSleep

Next == \/ Boot
        \/ ClientTimer
        \/ SleepTimeout
        \/ DnsNotFound \/ DnsFound
        \/ Connected \/ SentCb \/ ConnectionError \/ Disconnected
        \/ Activated \/ NotActivated \/ UploadAnswered
        \/ LongPress \/ Restore \/ Restart
        \/ \E token \in Token, network \in BOOLEAN : WebPost(token, network)
        \/ WebSleep
        \/ RestartTimer
        \/ NetChange \/ StationJoins \/ StationFails
        \/ Crash

\* An armed timer fires, the SDK and a network that is there answer, and a
\* handler that began goes on.  Nothing makes the network come back, the server
\* answer a request or close a connection, a user act, or a device that is down
\* wake.
Fairness == /\ WF_vars(ClientTimer)
            /\ WF_vars(SleepTimeout)
            /\ WF_vars(RestartTimer)
            /\ WF_vars(Restore) /\ WF_vars(Restart)
            /\ WF_vars(StationJoins)
            /\ WF_vars(DnsFound)
            /\ WF_vars(Connected)
            /\ WF_vars(SentCb)
            /\ WF_vars(ConnectionError)
            /\ WF_vars(conn = "closing" /\ Disconnected)

Spec == Init /\ [][Next]_vars /\ Fairness

-----------------------------------------------------------------------------
(* Properties *)

\* A registered device can join a network, whenever a crash falls between the
\* steps of a long press: in SOFTAP mode it would neither upload nor look at
\* its key, so nothing could bring it back.  (A network it has, unless it was a
\* token too long for its field that registered it.)
ActiveDeviceCanJoin ==
    activeflag = 1 => opmode # "SOFTAP" /\ (overrun # "now" => configured)

\* While the device is awake and has no connection, client_timer is armed: no
\* order of callbacks, each of which takes the one timer away from the others,
\* leaves the client without a next step.
NextStepPending ==
    Awake /\ conn = "none" => client_timer # "none"

\* A boot in which the user configures the device uploads nothing: its RAM
\* holds no batch.  So it is while the tokens posted fit their field.
NoUploadWhileConfiguring == web /\ overrun = "no" => frame # "upload"

\* A registered device that finds network and server there, and keeps finding
\* them, sleeps again, in STATIONAP mode too, where no time limit is set.
SleepsWhenReachable ==
    []((client_timer = "check_ip_reset" /\ activeflag = 1 /\ overrun = "no" /\ []net)
           => <>~up)

\* "exceed SENSOR_CONNECT_TIME,sleep directly": the time a registered device
\* is awake to upload is limited (user_sensor_init).
UploadTimeLimited == up /\ activeflag = 1 /\ overrun = "no" => sleepTimer

\* "reconnect with host after get ip": once it reconnects, with the network and
\* the server back for good and no web server to take client_timer, it connects or
\* sleeps (user_esp_platform_reconnect).
ReconnectConnects ==
    []((client_timer = "reconnect" /\ ~web /\ []net) => <>(conn # "none" \/ ~up))
=============================================================================
