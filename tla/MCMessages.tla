----------------------------- MODULE MCMessages -----------------------------
(***************************************************************************)
(* What the device makes of the messages it gets, and does later because   *)
(* of them: parts that share no state, of which one runs while the others  *)
(* stay as they are initialised.                                           *)
(*                                                                         *)
(* Requests go to each command of the server by each method, with headers  *)
(* that end within 255 characters, at 255 and beyond, and with names that  *)
(* fill a field of URL_Frame or overrun it.  Settings come in both orders  *)
(* and with some fields missing.  Two networks, which are also names of    *)
(* soft access points, and two connections a boot, so that each request    *)
(* can cross each other one.  A scan has pages of 2 networks, and none,    *)
(* one, a last page that is full or one that is not, and up to three in    *)
(* all, which are asked for in any order.                                  *)
(*                                                                         *)
(* An hour has 3 seconds and a week 10, so that a timer waits for several  *)
(* hours and weeks end meanwhile.                                          *)
(***************************************************************************)
EXTENDS WebRequest, WebConfig, ScanPages, TimerSchedule, DeviceFind

VARIABLE part    \* the one that runs

Of(select, files) == [type : {"GET", "POST"}, select : {select}, filename : files,
                      page : BOOLEAN, headers : {0, 180, 300}]

MCRequests == Of("client", {"info", "status", "scan", "sleep"}) \cup Of("config", {"wifi", "sleep"})
              \cup Of("upgrade", {"start", "getuser"}) \cup Of("other", {"info"})
              \cup Of("client", {"deep_sleep", "information"}) \cup Of("configuration", {"wifi"})
              \cup [type : {"GET"}, select : {"client"}, filename : {"scan"}, page : {FALSE},
                    headers : 195..235]

MCWidth(word) == Len(word) + IF word \in {"GET", "POST", "HTTP"} THEN 1 ELSE 0

Pair(n, v) == [name |-> n, value |-> v]

Under(section, fields) == {<<>>} \cup {<<Pair(section, "")>> \o f : f \in fields}

Stations == Under("Station", SetToAllKPermutations({Pair("ssid", "home"), Pair("password", "s1")})
                             \cup {<<Pair("token", "t"), Pair("ssid", "home")>>})

Softaps == Under("Softap", SetToAllKPermutations({Pair("ssid", "box"), Pair("password", "s2")})
                           \cup {<<Pair("authmode", m), Pair("ssid", "box")>> : m \in {"OPEN", "x"}})

MCForms == UNION {{s \o a, a \o s} : s \in Stations, a \in Softaps}

MCNets == <<"n1", "n2", "n3">>

At(m, t) == [mode |-> m, time |-> t]

MCStamps == {20, 26, 40}

MCLists == {<<>>, <<At("none", 1), At("f", 26)>>, <<At("w", 2), At("l", 9)>>,
            <<At("f", 35), At("w", 7)>>, <<At("f", 26), At("f", 35)>>,
            <<At("l", 9), At("w", 7), At("l", 4)>>}
           \cup {<<t>> : t \in {At("f", 26), At("f", 35), At("l", 4), At("w", 2), At("w", 7)}}

MessagesInit == /\ part \in {"request", "config", "scan", "timer", "find"}
                /\ WebRequestInit /\ ConfigInit /\ ScanInit /\ TimerInit /\ FindInit

MessagesNext ==
    /\ UNCHANGED part
    /\ \/ /\ part = "request" /\ WebRequestNext
          /\ UNCHANGED <<configVars, scanVars, timerVars, findVars>>
       \/ /\ part = "config" /\ ConfigNext
          /\ UNCHANGED <<webVars, scanVars, timerVars, findVars>>
       \/ /\ part = "scan" /\ ScanNext
          /\ UNCHANGED <<webVars, configVars, timerVars, findVars>>
       \/ /\ part = "timer" /\ TimerNext
          /\ UNCHANGED <<webVars, configVars, scanVars, findVars>>
       \/ /\ part = "find" /\ FindNext
          /\ UNCHANGED <<webVars, configVars, scanVars, timerVars>>

MessagesSpec ==
    /\ MessagesInit
    /\ [][MessagesNext]_<<part, webVars, configVars, scanVars, timerVars, findVars>>
    /\ ConfigFairness

-----------------------------------------------------------------------------
\* The parts' variables keep their types: restart_10ms and rst_parm, the counts of
\* the scan commands, device_timer's waits of an hour at most.
MessagesTypeOK == ConfigTypeOK /\ ScanTypeOK /\ TimerTypeOK
=============================================================================
