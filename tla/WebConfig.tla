----------------------------- MODULE WebConfig -----------------------------
(***************************************************************************)
(* How the web server changes the WiFi settings and sends the device to    *)
(* sleep: the config commands of webserver_recv and restart_10ms_cb,       *)
(* app/user/user_webserver.c.  A POST is answered at once and carried out  *)
(* 10 ms later; requests of other connections may come between.            *)
(*                                                                         *)
(* Each connection has an espconn of its own.  Of the settings only the    *)
(* ssid is kept.                                                           *)
(***************************************************************************)
EXTENDS Integers

CONSTANTS Ssid,     \* the networks' names
          Mixed,    \* a name made of a new one written over a longer one
          Conn,     \* bound: the connections of one boot
          None, NULL

ASSUME ConfigAssumption ==
    /\ None \notin Ssid \cup {Mixed} /\ Mixed \notin Ssid
    /\ NULL \notin Ssid \cup {None, Mixed}
    /\ NULL \notin [parmtype : {"WIFI", "DEEP_SLEEP"}, pespconn : Conn]

VARIABLES
    sta_conf, ap_conf,  \* NULL, or the ssid in them, None while there is none
    rstparm,            \* NULL or parmtype and pespconn
    restart_10ms,       \* whether the timer is armed
    state,              \* "running", "restarts", "sleeps" or "crashed"
    fresh, open,        \* connections still to come, and the open ones
    station, softap,    \* the ssids of the SDK's own settings
    posted              \* history: the stations named since sta_conf was empty

confs == <<sta_conf, ap_conf, rstparm, restart_10ms>>
sdk == <<station, softap>>
configVars == <<confs, state, fresh, open, sdk, posted>>

Name == Ssid \cup {None, Mixed}

ConfigTypeOK ==
    /\ sta_conf \in Name \cup {NULL} /\ ap_conf \in Name \cup {NULL}
    /\ rstparm \in [parmtype : {"WIFI", "DEEP_SLEEP"}, pespconn : Conn] \cup {NULL}
    /\ restart_10ms \in BOOLEAN
    /\ state \in {"running", "restarts", "sleeps", "crashed"}
    /\ fresh \subseteq Conn /\ open \subseteq Conn \ fresh
    /\ station \in Name /\ softap \in Name
    /\ posted \subseteq Ssid

\* What a boot finds in RAM.
ConfigInit ==
    /\ sta_conf = NULL /\ ap_conf = NULL /\ rstparm = NULL
    /\ restart_10ms = FALSE
    /\ state = "running"
    /\ fresh = Conn /\ open = {}
    /\ station = None /\ softap = None
    /\ posted = {}

-----------------------------------------------------------------------------
(* The clients' connections *)

Connect(c) == /\ state = "running" /\ c \in fresh
              /\ fresh' = fresh \ {c} /\ open' = open \cup {c}
              /\ UNCHANGED <<confs, state, sdk, posted>>

Close(c) == /\ state = "running" /\ c \in open
            /\ open' = open \ {c}
            /\ UNCHANGED <<confs, state, fresh, sdk, posted>>

-----------------------------------------------------------------------------
(* webserver_recv *)

\* Mutant: the connection to wait for is not noted.
ToldNoConn(parmtype, c) == [parmtype |-> parmtype, pespconn |-> NULL]

Told(parmtype, c) == [parmtype |-> parmtype, pespconn |-> c]

\* GET config?command=wifi puts the SDK's settings into the same structures,
\* answers from them and frees them.
GetWifi(c) ==
    /\ state = "running" /\ c \in open
    /\ sta_conf' = NULL /\ ap_conf' = NULL
    /\ posted' = {}
    /\ UNCHANGED <<rstparm, restart_10ms, state, fresh, open, sdk>>

\* POST config?command=sleep
PostSleep(c) ==
    /\ state = "running" /\ c \in open
    /\ rstparm' = Told("DEEP_SLEEP", c)
    /\ restart_10ms' = TRUE
    /\ UNCHANGED <<sta_conf, ap_conf, state, fresh, open, sdk, posted>>

\* wifi_station_set, wifi_softap_set: os_memcpy of a name without its end.
Written(conf, name) ==
    CASE name = None           -> {IF conf = NULL THEN None ELSE conf}
      [] conf \in {NULL, None} -> {name}
      [] OTHER                 -> {name, IF conf = name THEN name ELSE Mixed}

\* Mutant: the timer of the request before goes on.
WithdrawKeepsTimer ==
    /\ sta_conf' = NULL /\ ap_conf' = NULL /\ rstparm' = NULL
    /\ posted' = {}
    /\ UNCHANGED restart_10ms

\* A request that leaves no name takes back what was asked before.
Withdraw ==
    /\ sta_conf' = NULL /\ ap_conf' = NULL /\ rstparm' = NULL
    /\ posted' = {}
    /\ restart_10ms' = FALSE

\* POST config?command=wifi, which names a station, a softap, both or none
PostWifi(c, sta, ap) ==
    /\ state = "running" /\ c \in open
    /\ \E s \in Written(sta_conf, sta), a \in Written(ap_conf, ap) :
          IF s # None \/ a # None
          THEN /\ sta_conf' = s /\ ap_conf' = a
               /\ rstparm' = Told("WIFI", c)
               /\ restart_10ms' = TRUE
               /\ posted' = posted \cup ({sta} \ {None})
          ELSE Withdraw
    /\ UNCHANGED <<state, fresh, open, sdk>>

-----------------------------------------------------------------------------
(* restart_10ms_cb *)

Due(parmtype) == /\ state = "running" /\ restart_10ms
                 /\ rstparm # NULL /\ rstparm.parmtype = parmtype

\* Mutant: the station gets the soft access point's name.
NewStationFromAp == IF ap_conf # None THEN ap_conf ELSE station

NewStation == IF sta_conf # None THEN sta_conf ELSE station

\* WIFI: the ssids are read through sta_conf and ap_conf, NULL or not.
Reconnect ==
    /\ Due("WIFI")
    /\ restart_10ms' = FALSE
    /\ IF sta_conf = NULL
       THEN /\ state' = "crashed"
            /\ UNCHANGED <<sta_conf, ap_conf, rstparm, sdk, posted>>
       ELSE /\ station' = NewStation
            /\ softap' = IF ap_conf # None THEN ap_conf ELSE softap
            /\ state' = IF ap_conf # None THEN "restarts" ELSE state
            /\ sta_conf' = NULL /\ ap_conf' = NULL /\ rstparm' = NULL
            /\ posted' = {}
    /\ UNCHANGED <<fresh, open>>

\* Mutant: it is the other way round.
ClosedIsOpen(c) == c \in open

Closed(c) == c \notin fresh \cup open

\* DEEP_SLEEP waits, 10 ms at a time, until the connection is closed.
GoToSleep ==
    /\ Due("DEEP_SLEEP")
    /\ Closed(rstparm.pespconn)
    /\ restart_10ms' = FALSE
    /\ state' = "sleeps"
    /\ UNCHANGED <<sta_conf, ap_conf, rstparm, fresh, open, sdk, posted>>

Wait ==
    /\ Due("DEEP_SLEEP")
    /\ ~Closed(rstparm.pespconn)
    /\ UNCHANGED configVars

\* The wake from deep sleep, a restart, a reset at any time
ConfigBoot ==
    /\ sta_conf' = NULL /\ ap_conf' = NULL /\ rstparm' = NULL
    /\ restart_10ms' = FALSE
    /\ state' = "running"
    /\ fresh' = Conn /\ open' = {}
    /\ posted' = {}
    /\ UNCHANGED sdk

RestartCb == Reconnect \/ GoToSleep \/ Wait

ConfigNext ==
    \/ \E c \in Conn : \/ Connect(c) \/ Close(c)
                       \/ GetWifi(c) \/ PostSleep(c)
                       \/ \E sta, ap \in Ssid \cup {None} : PostWifi(c, sta, ap)
    \/ RestartCb
    \/ ConfigBoot

\* The timer expires, and a client closes its connections.
ConfigFairness == /\ WF_configVars(GoToSleep)
                  /\ \A c \in Conn : WF_configVars(Close(c))

ConfigSpec == ConfigInit /\ [][ConfigNext]_configVars /\ ConfigFairness

-----------------------------------------------------------------------------
(* Properties *)

\* While restart_10ms runs it knows what to do, and when it is at rest nothing
\* is left of what was asked: whichever requests met in the 10 ms, no setting
\* of an old one waits for the next.
NothingLeft ==
    state = "running" =>
        /\ (sta_conf = NULL) = (ap_conf = NULL)
        /\ restart_10ms = (rstparm # NULL)
        /\ ~restart_10ms => sta_conf = NULL

\* If the requests since the last change named one network, the station joins no
\* other.
JoinsPosted ==
    [][station' # station =>
          /\ posted # {}
          /\ \A s \in Ssid : posted = {s} => station' = s]_configVars

\* A device that was told to sleep sleeps, unless it is told something else.
SleepsWhenTold ==
    \A c \in Conn :
        LET told == state = "running" /\ rstparm = [parmtype |-> "DEEP_SLEEP", pespconn |-> c]
        IN  told ~> ~told

\* "system restart or wifi reconnected after a certain time" (restart_10ms_cb):
\* when the time comes, what the POST asked for is still there.
ReconnectsAfterPost == Due("WIFI") => sta_conf # NULL
=============================================================================
