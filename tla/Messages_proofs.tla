--------------------------- MODULE Messages_proofs ---------------------------
(***************************************************************************)
(* Proofs about what the device makes of messages, and about these parts   *)
(* together, for any networks, connections, timers and lists of them.      *)
(*                                                                         *)
(* WebConfig: a web server at rest has kept nothing of what it was asked,  *)
(* and the station joins no network but the one posted.  The last needs to *)
(* know how what was posted and what sta_conf holds belong together,       *)
(* PostedInv.                                                              *)
(*                                                                         *)
(* ScanPages: however the pages are asked for, scan_get stays in the SDK's *)
(* list, and who asks for each page once is sent every network.  ListInv   *)
(* says what was sent: as many networks as the pages asked for have, all   *)
(* full but the last.                                                      *)
(*                                                                         *)
(* DeviceFind: the interface that answers is on the sender's net, which    *)
(* needs that no two are on one net, NetInv.                               *)
(*                                                                         *)
(* TimerSchedule: the timer's action comes when the list's first timers    *)
(* are due.  The sum that the overflow check keeps right is WaitInv; that  *)
(* what was waited for is the time until a timer is due, and that no timer *)
(* is due before, are facts about WaitOf and MinTime (DueFirst,            *)
(* MinTimeFacts).                                                          *)
(*                                                                         *)
(* WebRequest: the settings' callbacks and the leaves of a network mix     *)
(* nothing, by induction over the names of a form and the leaves of a page.*)
(* A request is understood and answered once: of however many words are    *)
(* copied (CopiedIs), the parts of the URL are cut where they were put     *)
(* together (CutAt, ParsedIs).                                             *)
(*                                                                         *)
(* Last, a step of the parts together is one of a part, so that what holds *)
(* of each of them holds of them together.                                 *)
(***************************************************************************)
EXTENDS MCMessages, FiniteSetTheorems, SequenceTheorems, WellFoundedInduction, TLAPS

-----------------------------------------------------------------------------
(* The settings of the networks, and sleep                                 *)

\* What is in sta_conf is the one name posted, or was posted with others.
PostedInv ==
    /\ sta_conf \in {NULL, None} => posted = {}
    /\ sta_conf \notin {NULL, None} => posted # {}
    /\ \A s \in Ssid : posted = {s} => sta_conf = s

ConfigInv == ConfigTypeOK /\ NothingLeft /\ PostedInv

\* What a settings' callback makes of a structure: it has a name if a name was
\* there or comes, it is the name that comes if none other was there.
LEMMA WrittenName ==
    ASSUME NEW conf \in Name \cup {NULL}, NEW name \in Ssid \cup {None},
           NEW s \in Written(conf, name)
    PROVE  /\ s \in Name
           /\ name = None => s = IF conf = NULL THEN None ELSE conf
           /\ name # None => s = name \/ (s = Mixed /\ conf \notin {NULL, None, name})
<1>1. CASE name = None
  <2>1. s = IF conf = NULL THEN None ELSE conf
    BY <1>1 DEF Written
  <2> QED
    BY <1>1, <2>1 DEF Name
<1>2. CASE name # None /\ conf \in {NULL, None}
  <2>1. s = name
    BY <1>2, ConfigAssumption DEF Written
  <2> QED
    BY <1>2, <2>1 DEF Name
<1>3. CASE name # None /\ conf \notin {NULL, None}
  <2>1. s \in {name, IF conf = name THEN name ELSE Mixed}
    BY <1>3 DEF Written
  <2> QED
    BY <1>3, <2>1 DEF Name
<1> QED
  BY <1>1, <1>2, <1>3

LEMMA ConfigInitInv == ConfigInit => ConfigInv
  BY ConfigAssumption DEF ConfigInit, ConfigInv, ConfigTypeOK, NothingLeft, PostedInv, Name

\* A POST that leaves a name in one of the two structures
LEMMA PostedStep ==
    ASSUME ConfigInv, NEW c \in Conn, NEW sta \in Ssid \cup {None}, NEW ap \in Ssid \cup {None},
           PostWifi(c, sta, ap)
    PROVE  ConfigInv'
<1> PICK s \in Written(sta_conf, sta), a \in Written(ap_conf, ap) :
        IF s # None \/ a # None
        THEN /\ sta_conf' = s /\ ap_conf' = a
             /\ rstparm' = Told("WIFI", c)
             /\ restart_10ms' = TRUE
             /\ posted' = posted \cup ({sta} \ {None})
        ELSE Withdraw
    BY DEF PostWifi
<1>0. UNCHANGED <<state, fresh, open, sdk>> /\ state = "running"
    BY Zenon DEF PostWifi
<1>1. /\ s \in Name /\ a \in Name
      /\ sta = None => s = IF sta_conf = NULL THEN None ELSE sta_conf
      /\ sta # None => s = sta \/ (s = Mixed /\ sta_conf \notin {NULL, None, sta})
    BY WrittenName DEF ConfigInv, ConfigTypeOK
<1>2. CASE s # None \/ a # None
  <2>1. /\ sta_conf' = s /\ ap_conf' = a
        /\ rstparm' = [parmtype |-> "WIFI", pespconn |-> c] /\ restart_10ms' = TRUE
        /\ posted' = posted \cup ({sta} \ {None})
    BY <1>2 DEF Told
  <2>2. ConfigTypeOK'
    BY <1>0, <1>1, <2>1 DEF ConfigInv, ConfigTypeOK, sdk
  <2>3. rstparm' # NULL
    <3>1. rstparm' \in [parmtype : {"WIFI", "DEEP_SLEEP"}, pespconn : Conn]
      BY <2>1
    <3> QED
      BY <3>1, ConfigAssumption
  <2>4. NothingLeft'
    BY <1>1, <2>1, <2>3, ConfigAssumption DEF NothingLeft, Name
  <2>5. PostedInv'
    BY <1>1, <2>1, ConfigAssumption DEF ConfigInv, PostedInv, ConfigTypeOK, Name
  <2> QED
    BY <2>2, <2>4, <2>5 DEF ConfigInv
<1>3. CASE ~(s # None \/ a # None)
  <2>1. /\ sta_conf' = NULL /\ ap_conf' = NULL /\ rstparm' = NULL
        /\ posted' = {} /\ restart_10ms' = FALSE
    BY <1>3 DEF Withdraw
  <2> QED
    BY <1>0, <2>1, ConfigAssumption DEF ConfigInv, ConfigTypeOK, NothingLeft, PostedInv, sdk
<1> QED
    BY <1>2, <1>3

\* The reconnection finds both structures, or neither.
LEMMA ReconnectStep == ConfigInv /\ Reconnect => ConfigInv'
<1> SUFFICES ASSUME ConfigInv, Reconnect PROVE ConfigInv'
    OBVIOUS
<1>1. CASE sta_conf = NULL
  <2>1. /\ state' = "crashed" /\ restart_10ms' = FALSE
        /\ UNCHANGED <<sta_conf, ap_conf, rstparm, sdk, posted, fresh, open>>
    BY <1>1, Zenon DEF Reconnect
  <2> QED
    BY <2>1 DEF ConfigInv, ConfigTypeOK, NothingLeft, PostedInv, sdk
<1>2. CASE sta_conf # NULL
  <2>1. /\ station' = NewStation
        /\ softap' = IF ap_conf # None THEN ap_conf ELSE softap
        /\ state' = IF ap_conf # None THEN "restarts" ELSE state
        /\ sta_conf' = NULL /\ ap_conf' = NULL /\ rstparm' = NULL
        /\ posted' = {} /\ restart_10ms' = FALSE
        /\ UNCHANGED <<fresh, open>>
    BY <1>2, Zenon DEF Reconnect
  <2>2. ap_conf # NULL
    BY <1>2, Zenon DEF ConfigInv, NothingLeft, Reconnect, Due
  <2>3. station' \in Name /\ softap' \in Name
    BY <1>2, <2>1, <2>2 DEF ConfigInv, ConfigTypeOK, NewStation
  <2>4. state' \in {"running", "restarts", "sleeps", "crashed"}
    BY <2>1 DEF ConfigInv, ConfigTypeOK
  <2>5. ConfigTypeOK'
    BY <2>1, <2>3, <2>4 DEF ConfigInv, ConfigTypeOK
  <2> QED
    BY <2>1, <2>5, ConfigAssumption DEF ConfigInv, NothingLeft, PostedInv
<1> QED
    BY <1>1, <1>2

LEMMA ConfigStep == ConfigInv /\ [ConfigNext]_configVars => ConfigInv'
<1> SUFFICES ASSUME ConfigInv, [ConfigNext]_configVars PROVE ConfigInv'
    OBVIOUS
<1> USE DEF ConfigInv, ConfigTypeOK, NothingLeft, PostedInv
<1>1. ASSUME NEW c \in Conn, Connect(c) PROVE ConfigInv'
    BY <1>1 DEF Connect, confs, sdk
<1>2. ASSUME NEW c \in Conn, Close(c) PROVE ConfigInv'
    BY <1>2 DEF Close, confs, sdk
<1>3. ASSUME NEW c \in Conn, GetWifi(c) PROVE ConfigInv'
    BY <1>3, ConfigAssumption DEF GetWifi, sdk
<1>4. ASSUME NEW c \in Conn, PostSleep(c) PROVE ConfigInv'
  <2>1. rstparm' \in [parmtype : {"WIFI", "DEEP_SLEEP"}, pespconn : Conn] /\ restart_10ms' = TRUE
    BY <1>4 DEF PostSleep, Told
  <2>2. rstparm' # NULL
    BY <2>1, ConfigAssumption
  <2> QED
    BY <1>4, <2>1, <2>2 DEF PostSleep, sdk
<1>5. ASSUME NEW c \in Conn, NEW sta \in Ssid \cup {None}, NEW ap \in Ssid \cup {None},
             PostWifi(c, sta, ap)
      PROVE  ConfigInv'
    BY <1>5, PostedStep
<1>6. CASE Reconnect
    BY <1>6, ReconnectStep
<1>7. CASE GoToSleep
    BY <1>7 DEF GoToSleep, sdk
<1>8. CASE Wait
    BY <1>8 DEF Wait, configVars, confs, sdk
<1>9. CASE ConfigBoot
    BY <1>9, ConfigAssumption DEF ConfigBoot, sdk
<1>10. CASE UNCHANGED configVars
    BY <1>10 DEF configVars, confs, sdk
<1> QED
    BY <1>1, <1>2, <1>3, <1>4, <1>5, <1>6, <1>7, <1>8, <1>9, <1>10 DEF ConfigNext, RestartCb

LEMMA ConfigInvariance == ConfigSpec => []ConfigInv
  BY ConfigInitInv, ConfigStep, PTL DEF ConfigSpec

\* The variables of webserver_recv and restart_10ms_cb keep their types.
THEOREM ConfigTypeCorrect == ConfigSpec => []ConfigTypeOK
<1>1. ConfigInv => ConfigTypeOK
  BY DEF ConfigInv
<1> QED
  BY ConfigInvariance, <1>1, PTL

\* While restart_10ms runs it knows what to do, and when it is at rest nothing of
\* any request is left, whichever requests met before it.
THEOREM KeepsNothing == ConfigSpec => []NothingLeft
<1>1. ConfigInv => NothingLeft
  BY DEF ConfigInv
<1> QED
  BY ConfigInvariance, <1>1, PTL

\* The station's network changes only to one that was posted, and to the one posted
\* if there was one only.
THEOREM JoinsOnlyPosted == ConfigSpec => JoinsPosted
<1>1. ASSUME ConfigInv, [ConfigNext]_configVars, station' # station
      PROVE  posted # {} /\ \A s \in Ssid : posted = {s} => station' = s
  <2>1. Reconnect
    BY <1>1 DEF ConfigNext, RestartCb, Connect, Close, GetWifi, PostSleep, PostWifi, GoToSleep,
                Wait, ConfigBoot, configVars, confs, sdk
  <2>2. sta_conf # NULL /\ sta_conf # None /\ station' = sta_conf
    BY <1>1, <2>1 DEF Reconnect, NewStation, sdk
  <2> QED
    BY <1>1, <2>2 DEF ConfigInv, PostedInv
<1>2. ConfigInv /\ [ConfigNext]_configVars =>
          [station' # station => /\ posted # {}
                                 /\ \A s \in Ssid : posted = {s} => station' = s]_configVars
  BY <1>1
<1> QED
  BY ConfigInvariance, <1>2, PTL DEF ConfigSpec, JoinsPosted

-----------------------------------------------------------------------------
(* The list of networks                                                    *)

\* The networks on the given pages of a scan that found n
OnPages(pages, n) ==
    PageSize * Cardinality(pages)
        - (IF TotalPage(n) \in pages THEN PageSize * TotalPage(n) - n ELSE 0)

\* The pages that were asked for and that there are
SentPages == asked \cap 1..TotalPage(scannum)

\* While a scan is under way nothing is sent of it; then the list and what was
\* sent of it make up the scan.
ListInv ==
    /\ crashed => early \/ failed
    /\ scanning /\ ~early => /\ pscaninfo # NoInfo
                             /\ pscaninfo.data_cnt = 0 /\ pscaninfo.page_sn = 0
    /\ pscaninfo # NoInfo /\ pscaninfo.pbss = NoInfo /\ ~failed => pscaninfo.totalpage = 0
    /\ ~scanning /\ ~early /\ ~failed /\ pscaninfo # NoInfo =>
           /\ pscaninfo.pbss # NoInfo
           /\ pscaninfo.totalpage = TotalPage(scannum)
           /\ pscaninfo.pbss + pscaninfo.data_cnt = scannum
           /\ ~again => /\ pscaninfo.page_sn \in asked \cup {0}
                        /\ pscaninfo.data_cnt = OnPages(SentPages, scannum)

ScanInv == ScanTypeOK /\ ListInv

-----------------------------------------------------------------------------
\* How many networks pages have

LEMMA ScanBounds ==
    /\ PageSize \in Nat /\ PageSize > 0
    /\ MaxNets \in Nat /\ MaxNets + PageSize < 256
    /\ MaxPage \in Nat /\ NoInfo \notin Int /\ NoInfo \notin Info
  BY ScanAssumption

LEMMA Divided ==
    ASSUME NEW n \in Nat, NEW k \in Nat, k > 0
    PROVE  /\ n \div k \in Nat
           /\ k * (n \div k) <= n /\ n < k * (n \div k) + k
           /\ n % k = 0 => n = k * (n \div k)
           /\ n % k # 0 => n > k * (n \div k)
  BY SMT

LEMMA Cancel ==
    ASSUME NEW a \in Int, NEW b \in Int, NEW k \in Nat, k > 0, k * a < k * b + k
    PROVE  a <= b
  <1>1. k * b + k = k * (b + 1)
    OBVIOUS
  <1> QED
    BY <1>1

LEMMA Times ==
    ASSUME NEW a \in Int, NEW b \in Int, NEW k \in Nat, a <= b
    PROVE  k * a <= k * b
  OBVIOUS

\* The pages hold the networks, and there is a network on the last.
LEMMA Pages ==
    ASSUME NEW n \in 0..MaxNets
    PROVE  /\ TotalPage(n) \in 0..(MaxNets + PageSize - 1) \div PageSize
           /\ n <= PageSize * TotalPage(n)
           /\ PageSize * TotalPage(n) < n + PageSize
<1> DEFINE q == n \div PageSize
           m == MaxNets + PageSize - 1
<1>1. /\ q \in Nat /\ PageSize * q <= n /\ n < PageSize * q + PageSize
      /\ n % PageSize = 0 => n = PageSize * q
      /\ n % PageSize # 0 => n > PageSize * q
    BY Divided, ScanBounds
<1>2. m \in Nat /\ m \div PageSize \in Nat /\ m < PageSize * (m \div PageSize) + PageSize
    BY Divided, ScanBounds
<1>3. TotalPage(n) \in Nat /\ n <= PageSize * TotalPage(n)
      /\ PageSize * TotalPage(n) < n + PageSize
  <2>1. PageSize * (q + 1) = PageSize * q + PageSize
    BY <1>1, ScanBounds
  <2>2. CASE n % PageSize = 0
    BY <1>1, <2>2, ScanBounds DEF TotalPage
  <2>3. CASE n % PageSize # 0
    <3>1. TotalPage(n) = q + 1
      BY <2>3 DEF TotalPage
    <3> QED
      BY <1>1, <2>1, <2>3, <3>1, ScanBounds
  <2> QED
    BY <2>2, <2>3
<1>4. PageSize * TotalPage(n) < PageSize * (m \div PageSize) + PageSize
  <2> HIDE DEF q
  <2>1. PageSize * TotalPage(n) \in Nat /\ PageSize * (m \div PageSize) \in Nat
    BY <1>2, <1>3, ScanBounds
  <2> QED
    BY <1>2, <1>3, <2>1, ScanBounds
<1>5. TotalPage(n) <= m \div PageSize
    BY <1>2, <1>3, <1>4, Cancel, ScanBounds
<1> QED
    BY <1>2, <1>3, <1>5

\* A page more: all are full but the last, and no pages have more than there is.
LEMMA OneMore ==
    ASSUME NEW n \in 0..MaxNets, NEW pages \in SUBSET (1..TotalPage(n)),
           NEW p \in 1..TotalPage(n), p \notin pages
    PROVE  /\ OnPages(pages \cup {p}, n)
                  = OnPages(pages, n) + (IF p = TotalPage(n)
                                         THEN PageSize - (PageSize * TotalPage(n) - n)
                                         ELSE PageSize)
           /\ OnPages(pages \cup {p}, n) <= n
<1> DEFINE t == TotalPage(n)
           more == pages \cup {p}
<1>1. t \in Nat /\ n <= PageSize * t /\ PageSize * t < n + PageSize /\ PageSize * t \in Nat
    BY Pages, ScanBounds, Divided
<1>2. IsFiniteSet(1..t) /\ Cardinality(1..t) = t
    BY <1>1, FS_Interval
<1>3. IsFiniteSet(pages) /\ Cardinality(pages) \in Nat
    BY <1>2, FS_Subset, FS_CardinalityType
<1>4. Cardinality(more) = Cardinality(pages) + 1 /\ IsFiniteSet(more)
    BY <1>3, FS_AddElement
<1>5. PageSize * (Cardinality(pages) + 1) = PageSize * Cardinality(pages) + PageSize
    BY <1>3, ScanBounds
<1>6. PageSize * Cardinality(pages) \in Nat
    BY <1>3, ScanBounds
<1> HIDE DEF t
<1>7. /\ t \in more => OnPages(more, n) = PageSize * Cardinality(more) - (PageSize * t - n)
      /\ t \notin more => OnPages(more, n) = PageSize * Cardinality(more) - 0
    BY Zenon DEF OnPages, t
<1>8. /\ t \in pages => OnPages(pages, n) = PageSize * Cardinality(pages) - (PageSize * t - n)
      /\ t \notin pages => OnPages(pages, n) = PageSize * Cardinality(pages) - 0
    BY Zenon DEF OnPages, t
<1>11. PageSize * Cardinality(more) = PageSize * Cardinality(pages) + PageSize
    BY <1>4, <1>5
<1>9. OnPages(more, n) = OnPages(pages, n) + (IF p = t THEN PageSize - (PageSize * t - n)
                                              ELSE PageSize)
    BY <1>1, <1>6, <1>7, <1>8, <1>11, ScanBounds
<1>10. OnPages(more, n) <= n
  <2>1. CASE t \in more
    <3>1. Cardinality(more) <= t
      BY <1>2, <1>4, FS_Subset DEF t
    <3>2. PageSize * (Cardinality(pages) + 1) <= PageSize * t
      BY <1>1, <1>3, <1>4, <3>1, Times, ScanBounds
    <3> QED
      BY <1>1, <1>5, <1>6, <1>7, <1>11, <2>1, <3>2, ScanBounds
  <2>2. CASE t \notin more
    <3>1. IsFiniteSet(more \cup {t}) /\ Cardinality(more \cup {t}) = Cardinality(more) + 1
      BY <1>4, <2>2, FS_AddElement
    <3>2. t \in 1..t
      BY <1>1 DEF t
    <3>3. Cardinality(more) + 1 <= t
      <4>1. more \cup {t} \in SUBSET (1..t)
        BY <3>2 DEF t
      <4>2. Cardinality(more \cup {t}) <= Cardinality(1..t)
        BY <1>2, <4>1, FS_Subset
      <4> QED
        BY <1>2, <3>1, <4>2
    <3>4. PageSize * (Cardinality(pages) + 2) <= PageSize * t
      BY <1>1, <1>3, <1>4, <3>3, Times, ScanBounds
    <3>5. PageSize * (Cardinality(pages) + 2) = PageSize * Cardinality(pages) + PageSize + PageSize
      BY <1>3, ScanBounds
    <3> QED
      BY <1>1, <1>6, <1>7, <1>11, <2>2, <3>4, <3>5, ScanBounds
  <2> QED
    BY <2>1, <2>2
<1> QED
    BY <1>9, <1>10 DEF t

\* All pages together have all networks.
LEMMA AllPages ==
    ASSUME NEW n \in 0..MaxNets, TotalPage(n) # 0
    PROVE  OnPages(1..TotalPage(n), n) = n
<1> DEFINE t == TotalPage(n)
<1>1. t \in Nat /\ PageSize * t \in Nat
    BY Pages, ScanBounds, Divided
<1>0. t # 0
    OBVIOUS
<1> HIDE DEF t
<1>2. Cardinality(1..t) = t /\ t \in 1..t
    BY <1>0, <1>1, FS_Interval
<1>3. OnPages(1..t, n) = PageSize * t - (PageSize * t - n)
    BY <1>2 DEF OnPages, t
<1> QED
    BY <1>1, <1>3 DEF t

\* scancount is not cut to 8 bits: it is what is on the page and behind it.
LEMMA PageCount ==
    ASSUME scannum \in 0..MaxNets, NEW p \in 1..TotalPage(scannum)
    PROVE  (IF OnPage(p) >= PageSize THEN PageSize ELSE OnPage(p))
               = IF p = TotalPage(scannum)
                 THEN PageSize - (PageSize * TotalPage(scannum) - scannum)
                 ELSE PageSize
<1> DEFINE t == TotalPage(scannum)
<1>1. t \in Nat /\ scannum <= PageSize * t /\ PageSize * t < scannum + PageSize
    BY Pages, ScanBounds, Divided
<1>2. PageSize * t \in Nat /\ PageSize * (p - 1) \in Nat /\ (p - 1) * PageSize = PageSize * (p - 1)
    BY <1>1, ScanBounds
<1> HIDE DEF t
<1>3. PageSize * t = PageSize * (t - 1) + PageSize
    BY <1>1, ScanBounds
<1>4. PageSize * (p - 1) <= PageSize * (t - 1)
    BY <1>1, Times, ScanBounds DEF t
<1>5. scannum - PageSize * (p - 1) \in 1..255
    BY <1>1, <1>2, <1>3, <1>4, ScanBounds
<1>6. OnPage(p) = scannum - PageSize * (p - 1)
    BY <1>2, <1>5 DEF OnPage
<1>7. CASE p = t
    BY <1>1, <1>2, <1>3, <1>6, <1>7, ScanBounds DEF t
<1>8. CASE p # t
  <2>1. PageSize * (p + 1) <= PageSize * t
    BY <1>1, <1>8, Times, ScanBounds DEF t
  <2>2. PageSize * (p + 1) = PageSize * (p - 1) + PageSize + PageSize
    BY ScanBounds
  <2>3. OnPage(p) >= PageSize
    BY <1>1, <1>2, <1>6, <2>1, <2>2, ScanBounds
  <2> QED
    BY <1>8, <2>3 DEF t
<1> QED
    BY <1>7, <1>8

-----------------------------------------------------------------------------
\* The steps of the scan commands

LEMMA ScanInitInv == ScanInit => ScanInv
<1> SUFFICES ASSUME ScanInit PROVE ScanInv
    OBVIOUS
<1>1. 0 \in 0..MaxNets
    BY ScanBounds
<1>2. ScanTypeOK
    BY <1>1, Zenon DEF ScanInit, ScanTypeOK
<1>3. ListInv
    BY Zenon DEF ScanInit, ListInv
<1> QED
    BY <1>2, <1>3 DEF ScanInv

\* A structure of the given fields is one of Info, and is not NULL.
LEMMA InfoField ==
    ASSUME NEW info \in Info
    PROVE  /\ info # NoInfo
           /\ info.pbss \in 0..MaxNets \cup {NoInfo}
           /\ info.totalpage \in 0..(MaxNets + PageSize - 1) \div PageSize
           /\ info.page_sn \in Page /\ info.data_cnt \in 0..MaxNets
<1>1. info # NoInfo
    BY ScanBounds
<1> QED
    BY <1>1, Zenon DEF Info

LEMMA ScanStep == ScanInv /\ Scan => ScanInv'
<1> SUFFICES ASSUME ScanInv, Scan PROVE ScanInv'
    OBVIOUS
<1> DEFINE old == IF pscaninfo = NoInfo
                  THEN [pbss |-> NoInfo, totalpage |-> 0, pagenum |-> 0,
                        page_sn |-> 0, data_cnt |-> 0]
                  ELSE pscaninfo
<1>1. /\ pscaninfo' = [old EXCEPT !.pagenum = 0, !.page_sn = 0, !.data_cnt = 0]
      /\ scanning' = TRUE /\ early' = FALSE /\ ~crashed
      /\ UNCHANGED <<scannum, crashed, asked, again, failed>>
    BY DEF Scan, Started
<1>2. (MaxNets + PageSize - 1) \div PageSize \in Nat
    BY Divided, ScanBounds
<1>3. old \in Info /\ (old.pbss = NoInfo /\ ~failed => old.totalpage = 0)
  <2>1. CASE pscaninfo = NoInfo
    BY <1>2, <2>1, ScanBounds DEF Info, Page
  <2>2. CASE pscaninfo # NoInfo
    BY <2>2 DEF ScanInv, ScanTypeOK, ListInv
  <2> QED
    BY <2>1, <2>2
<1> HIDE DEF old
<1>4. /\ pscaninfo' \in Info
      /\ pscaninfo'.page_sn = 0 /\ pscaninfo'.data_cnt = 0
      /\ pscaninfo'.pbss = old.pbss /\ pscaninfo'.totalpage = old.totalpage
  <2>1. 0 \in Page /\ 0 \in 0..MaxNets
    BY ScanBounds DEF Page
  <2> QED
    BY <1>1, <1>3, <2>1 DEF Info
<1>5. pscaninfo' # NoInfo
    BY <1>4, InfoField
<1>6. ScanTypeOK'
    BY <1>1, <1>4 DEF ScanInv, ScanTypeOK
<1>7. ListInv'
    BY <1>1, <1>3, <1>4, <1>5 DEF ListInv
<1> QED
    BY <1>6, <1>7 DEF ScanInv

LEMMA ScanCbStep ==
    ASSUME ScanInv, NEW n \in 0..MaxNets, NEW list \in {n, NoInfo}, ScanCb(list, n),
           failed' = (list = NoInfo)
    PROVE  ScanInv'
<1>1. /\ ~crashed /\ scanning /\ scanning' = FALSE /\ scannum' = n
      /\ UNCHANGED early /\ asked' = {} /\ again' = FALSE
    BY DEF ScanCb
<1>2. CASE pscaninfo = NoInfo
  <2>1. crashed' = TRUE /\ pscaninfo' = NoInfo
    BY <1>2 DEF ScanCb
  <2>2. early
    BY <1>1, <1>2 DEF ScanInv, ListInv
  <2>3. ScanTypeOK'
    BY <1>1, <2>1 DEF ScanInv, ScanTypeOK
  <2>4. ListInv'
    BY <1>1, <2>1, <2>2 DEF ListInv
  <2> QED
    BY <2>3, <2>4 DEF ScanInv
<1>3. CASE pscaninfo # NoInfo
  <2>1. /\ pscaninfo' = [pscaninfo EXCEPT !.pbss = list, !.totalpage = TotalPage(n)]
        /\ UNCHANGED crashed
    BY <1>3 DEF ScanCb
  <2>2. pscaninfo \in Info /\ TotalPage(n) \in 0..(MaxNets + PageSize - 1) \div PageSize
    BY <1>3, Pages DEF ScanInv, ScanTypeOK
  <2>0. list \in 0..MaxNets \cup {NoInfo}
    OBVIOUS
  <2>3. /\ pscaninfo' \in Info
        /\ pscaninfo'.pbss = list /\ pscaninfo'.totalpage = TotalPage(n)
        /\ pscaninfo'.page_sn = pscaninfo.page_sn /\ pscaninfo'.data_cnt = pscaninfo.data_cnt
    BY <2>0, <2>1, <2>2 DEF Info
  <2>4. ScanTypeOK'
    BY <1>1, <2>1, <2>3 DEF ScanInv, ScanTypeOK
  <2>5. n # NoInfo /\ n + 0 = n /\ (~failed' => list = n) /\ failed' \in BOOLEAN
    BY ScanBounds
  <2>6. SentPages' = {} /\ OnPages({}, n) = 0
    BY <1>1, FS_EmptySet, ScanBounds DEF SentPages, OnPages
  <2>7. ~early => pscaninfo.data_cnt = 0 /\ pscaninfo.page_sn = 0
    BY <1>1 DEF ScanInv, ListInv
  <2>8. ListInv'
    BY <1>1, <2>1, <2>3, <2>5, <2>6, <2>7 DEF ListInv
  <2> QED
    BY <2>4, <2>8 DEF ScanInv
<1> QED
    BY <1>2, <1>3

LEMMA ScanDoneStep ==
    ASSUME ScanInv, NEW n \in 0..MaxNets, ScanDone(n)
    PROVE  ScanInv'
<1>1. ScanCb(n, n) /\ failed' = FALSE /\ n # NoInfo
    BY ScanBounds DEF ScanDone
<1>2. failed' = (n = NoInfo)
    BY <1>1
<1> QED
    BY <1>1, <1>2, ScanCbStep

LEMMA ScanFailsStep ==
    ASSUME ScanInv, ScanFails
    PROVE  ScanInv'
<1>1. PICK n \in {0, scannum} : ScanCb(NoInfo, n)
    BY DEF ScanFails
<1>2. n \in 0..MaxNets
    BY ScanBounds DEF ScanInv, ScanTypeOK
<1>3. failed' = (NoInfo = NoInfo)
    BY DEF ScanFails
<1> QED
    BY <1>1, <1>2, <1>3, ScanCbStep

LEMMA BootStep == ScanBoot => ScanInv'
<1> SUFFICES ASSUME ScanBoot PROVE ScanInv'
    OBVIOUS
<1>1. ScanInit'
    BY DEF ScanBoot, ScanInit
<1> QED
    BY <1>1, ScanInitInv, PTL

\* What a GET of a page notes, whichever page
LEMMA AskedFor ==
    ASSUME ScanInv, NEW p \in Page, GetPage(p)
    PROVE  /\ ~crashed /\ UNCHANGED <<scannum, scanning, failed>> /\ failed' \in BOOLEAN
           /\ asked' = asked \cup {p} /\ again' = (again \/ p \in asked)
           /\ early' = (early \/ scanning)
           /\ asked' \subseteq Page /\ again' \in BOOLEAN /\ early' \in BOOLEAN
           /\ scannum' \in 0..MaxNets /\ scanning' \in BOOLEAN
<1>1. /\ ~crashed /\ UNCHANGED <<scannum, scanning, failed>>
      /\ asked' = asked \cup {p} /\ again' = (again \/ p \in asked)
      /\ early' = (early \/ scanning)
    BY Zenon DEF GetPage
<1> QED
    BY <1>1, Zenon DEF ScanInv, ScanTypeOK

\* A page that is not sent: there is none, or it is asked for again.
LEMMA NotSentStep ==
    ASSUME ScanInv, NEW p \in Page, GetPage(p), UNCHANGED crashed,
           pscaninfo # NoInfo, NEW sn \in Page,
           pscaninfo' = [pscaninfo EXCEPT !.pagenum = p, !.page_sn = sn],
           sn \in {0, p} \/ sn = pscaninfo.page_sn,
           p \in 1..pscaninfo.totalpage => p \in asked \/ again \/ early \/ scanning \/ failed
    PROVE  ScanInv'
<1>1. pscaninfo \in Info
    BY DEF ScanInv, ScanTypeOK
<1>2. /\ pscaninfo' \in Info /\ pscaninfo'.page_sn = sn
      /\ pscaninfo'.pbss = pscaninfo.pbss /\ pscaninfo'.totalpage = pscaninfo.totalpage
      /\ pscaninfo'.data_cnt = pscaninfo.data_cnt
    BY <1>1 DEF Info
<1>3. ScanTypeOK'
    BY <1>2, AskedFor, Zenon DEF ScanInv, ScanTypeOK
<1>4. ASSUME ~scanning, ~early, ~failed
      PROVE  /\ pscaninfo'.pbss # NoInfo
             /\ pscaninfo'.totalpage = TotalPage(scannum)
             /\ pscaninfo'.pbss + pscaninfo'.data_cnt = scannum
             /\ ~again' => /\ pscaninfo'.page_sn \in asked' \cup {0}
                           /\ pscaninfo'.data_cnt = OnPages(SentPages', scannum)
  <2>1. /\ pscaninfo.pbss # NoInfo
        /\ pscaninfo.totalpage = TotalPage(scannum)
        /\ pscaninfo.pbss + pscaninfo.data_cnt = scannum
        /\ ~again => /\ pscaninfo.page_sn \in asked \cup {0}
                     /\ pscaninfo.data_cnt = OnPages(SentPages, scannum)
    BY <1>4 DEF ScanInv, ListInv
  <2>2. ASSUME ~again'
        PROVE  /\ pscaninfo'.page_sn \in asked' \cup {0}
               /\ pscaninfo'.data_cnt = OnPages(SentPages', scannum)
    <3>1. ~again /\ p \notin asked
      BY <2>2, AskedFor
    <3>2. p \notin 1..TotalPage(scannum)
      BY <1>4, <2>1, <3>1
    <3>3. SentPages' = SentPages
      BY <3>2, AskedFor DEF SentPages
    <3> QED
      BY <1>2, <2>1, <3>1, <3>3, AskedFor
  <2> QED
    BY <1>2, <2>1, <2>2
<1>5. pscaninfo' # NoInfo
    BY <1>2, InfoField
<1>6. ListInv'
  <2>1. UNCHANGED <<scannum, scanning, failed>> /\ ~crashed /\ early' = (early \/ scanning)
    BY AskedFor
  <2>2. pscaninfo'.pbss = NoInfo /\ ~failed => pscaninfo'.totalpage = 0
    BY <1>2 DEF ScanInv, ListInv
  <2>3. ~scanning' /\ ~early' => ~scanning /\ ~early
    BY <2>1
  <2> QED
    BY <1>4, <1>5, <2>1, <2>2, <2>3, Zenon DEF ListInv
<1> QED
    BY <1>3, <1>6 DEF ScanInv

\* A page that is: what is on it is left, and was not sent before.
LEMMA SentStep ==
    ASSUME ScanInv, NEW p \in Page, GetPage(p), pscaninfo # NoInfo, pscaninfo.pbss # NoInfo,
           p \in 1..pscaninfo.totalpage, pscaninfo.page_sn # p,
           NEW count, count = IF OnPage(p) >= PageSize THEN PageSize ELSE OnPage(p),
           ~TooMany(count), Send(p, count)
    PROVE  ScanInv'
<1>1. pscaninfo \in Info /\ scannum \in 0..MaxNets
    BY DEF ScanInv, ScanTypeOK
<1>2. /\ pscaninfo.pbss \in 0..MaxNets /\ pscaninfo.data_cnt \in 0..MaxNets
      /\ pscaninfo.totalpage \in Nat
  <2>1. (MaxNets + PageSize - 1) \div PageSize \in Nat
    BY Divided, ScanBounds
  <2> QED
    BY <1>1, <2>1, InfoField
<1>3. count \in Nat
  <2>1. p \in Nat /\ (p - 1) * PageSize \in Int
    BY ScanBounds DEF Page
  <2>2. OnPage(p) \in Nat
    BY <1>1, <2>1 DEF OnPage
  <2> QED
    BY <2>2, ScanBounds
<1>4. pscaninfo.data_cnt + count <= scannum
    BY <1>1, <1>2, <1>3 DEF TooMany
<1>5. ASSUME ~scanning, ~early, ~failed
      PROVE  /\ count <= pscaninfo.pbss
             /\ pscaninfo.pbss + pscaninfo.data_cnt = scannum
             /\ pscaninfo.totalpage = TotalPage(scannum)
             /\ ~again' => pscaninfo.data_cnt + count = OnPages(SentPages', scannum)
  <2>1. /\ pscaninfo.pbss + pscaninfo.data_cnt = scannum
        /\ pscaninfo.totalpage = TotalPage(scannum)
        /\ ~again => pscaninfo.data_cnt = OnPages(SentPages, scannum)
    BY <1>5 DEF ScanInv, ListInv
  <2>2. ASSUME ~again' PROVE pscaninfo.data_cnt + count = OnPages(SentPages', scannum)
    <3>1. /\ ~again /\ p \notin SentPages /\ SentPages' = SentPages \cup {p}
          /\ SentPages \in SUBSET (1..TotalPage(scannum))
      BY <2>1, <2>2, AskedFor DEF SentPages
    <3>2. OnPages(SentPages \cup {p}, scannum) = OnPages(SentPages, scannum) + count
      BY <1>1, <2>1, <3>1, OneMore, PageCount
    <3> QED
      BY <2>1, <3>1, <3>2
  <2> QED
    BY <1>2, <1>3, <1>4, <2>1, <2>2
<1>6. CASE count > pscaninfo.pbss
  <2>1. crashed' = TRUE /\ pscaninfo' = pscaninfo
    BY <1>6 DEF Send
  <2>2. (early' \/ failed) /\ (scanning => early)' /\ failed' = failed
    BY <1>2, <1>3, <1>5, <1>6, AskedFor
  <2>3. ScanTypeOK'
    BY <2>1, AskedFor, Zenon DEF ScanInv, ScanTypeOK
  <2>4. pscaninfo.pbss = NoInfo /\ ~failed => pscaninfo.totalpage = 0
    BY DEF ScanInv, ListInv
  <2>5. ListInv'
    BY <2>1, <2>2, <2>4, Zenon DEF ListInv
  <2> QED
    BY <2>3, <2>5 DEF ScanInv
<1>7. CASE ~(count > pscaninfo.pbss)
  <2>1. /\ pscaninfo' = [pscaninfo EXCEPT !.pbss = pscaninfo.pbss - count,
                                          !.data_cnt = pscaninfo.data_cnt + count,
                                          !.pagenum = p, !.page_sn = p]
        /\ UNCHANGED crashed
    BY <1>7 DEF Send
  <2>2. /\ pscaninfo.pbss - count \in 0..MaxNets
        /\ pscaninfo.data_cnt + count \in 0..MaxNets
    BY <1>1, <1>2, <1>3, <1>4, <1>7, ScanBounds
  <2>3. /\ pscaninfo' \in Info
        /\ pscaninfo'.pbss = pscaninfo.pbss - count
        /\ pscaninfo'.data_cnt = pscaninfo.data_cnt + count
        /\ pscaninfo'.page_sn = p /\ pscaninfo'.totalpage = pscaninfo.totalpage
    BY <1>1, <2>1, <2>2 DEF Info
  <2>4. pscaninfo' # NoInfo /\ pscaninfo'.pbss # NoInfo
    BY <2>2, <2>3, InfoField, ScanBounds
  <2>5. ScanTypeOK'
    BY <2>1, <2>3, AskedFor, Zenon DEF ScanInv, ScanTypeOK
  <2>6. ASSUME ~scanning, ~early, ~failed
        PROVE  /\ pscaninfo'.totalpage = TotalPage(scannum)
               /\ pscaninfo'.pbss + pscaninfo'.data_cnt = scannum
               /\ ~again' => /\ pscaninfo'.page_sn \in asked' \cup {0}
                             /\ pscaninfo'.data_cnt = OnPages(SentPages', scannum)
    BY <1>1, <1>2, <1>3, <1>5, <2>3, <2>6, AskedFor
  <2>7. UNCHANGED <<scannum, scanning, failed>> /\ ~crashed /\ early' = (early \/ scanning)
    BY AskedFor
  <2>8. ~scanning' /\ ~early' => ~scanning /\ ~early
    BY <2>7
  <2>9. ListInv'
    BY <2>1, <2>4, <2>6, <2>7, <2>8, Zenon DEF ListInv
  <2> QED
    BY <2>5, <2>9 DEF ScanInv
<1> QED
    BY <1>6, <1>7

\* Unless a page is asked for twice there is no page with too many networks.
LEMMA TooManyStep ==
    ASSUME ScanInv, NEW p \in Page, GetPage(p), pscaninfo # NoInfo,
           p \in 1..pscaninfo.totalpage,
           TooMany(IF OnPage(p) >= PageSize THEN PageSize ELSE OnPage(p))
    PROVE  p \in asked \/ again \/ early \/ scanning \/ failed
<1> SUFFICES ASSUME p \notin asked, ~again, ~early, ~scanning, ~failed PROVE FALSE
    OBVIOUS
<1>1. /\ scannum \in 0..MaxNets
      /\ pscaninfo.totalpage = TotalPage(scannum)
      /\ pscaninfo.data_cnt = OnPages(SentPages, scannum)
    BY DEF ScanInv, ScanTypeOK, ListInv
<1>2. p \notin SentPages /\ SentPages \in SUBSET (1..TotalPage(scannum))
    BY DEF SentPages
<1>3. /\ OnPages(SentPages \cup {p}, scannum)
             = OnPages(SentPages, scannum) + (IF OnPage(p) >= PageSize THEN PageSize ELSE OnPage(p))
      /\ OnPages(SentPages \cup {p}, scannum) <= scannum
    BY <1>1, <1>2, OneMore, PageCount
<1>4. pscaninfo.data_cnt \in 0..MaxNets
    BY InfoField DEF ScanInv, ScanTypeOK
<1>5. OnPages(SentPages \cup {p}, scannum) > scannum
    BY <1>1, <1>3 DEF TooMany
<1>6. OnPage(p) \in Int
    BY <1>1, ScanBounds DEF OnPage, Page
<1> QED
    BY <1>1, <1>3, <1>4, <1>5, <1>6, ScanBounds

LEMMA GetPageStep ==
    ASSUME ScanInv, NEW p \in Page, GetPage(p)
    PROVE  ScanInv'
<1>1. CASE pscaninfo = NoInfo
  <2>1. UNCHANGED <<pscaninfo, crashed>>
    BY <1>1 DEF GetPage
  <2>2. ScanTypeOK'
    BY <2>1, AskedFor, Zenon DEF ScanInv, ScanTypeOK
  <2>3. scanning /\ ~early => FALSE
    BY <1>1 DEF ScanInv, ListInv
  <2>4. ListInv'
    BY <1>1, <2>1, <2>3, AskedFor DEF ListInv
  <2> QED
    BY <2>2, <2>4 DEF ScanInv
<1>2. CASE pscaninfo # NoInfo /\ (p = 0 \/ p > pscaninfo.totalpage)
  <2>1. pscaninfo \in Info /\ pscaninfo.page_sn \in Page
    BY <1>2, InfoField DEF ScanInv, ScanTypeOK
  <2>2. pscaninfo' = [pscaninfo EXCEPT !.pagenum = p] /\ UNCHANGED crashed
    BY <1>2 DEF GetPage
  <2>3. pscaninfo' = [pscaninfo EXCEPT !.pagenum = p, !.page_sn = pscaninfo.page_sn]
    BY <2>1, <2>2 DEF Info
  <2>4. p \notin 1..pscaninfo.totalpage
    <3>1. pscaninfo.totalpage \in Nat /\ p \in Nat
      BY <2>1, InfoField, Divided, ScanBounds DEF Page
    <3> QED
      BY <1>2, <3>1
  <2> QED
    BY <1>2, <2>1, <2>2, <2>3, <2>4, NotSentStep
<1>3. CASE pscaninfo # NoInfo /\ ~(p = 0 \/ p > pscaninfo.totalpage)
  <2> DEFINE count == IF OnPage(p) >= PageSize THEN PageSize ELSE OnPage(p)
  <2>1. /\ pscaninfo \in Info /\ pscaninfo.totalpage \in Nat
        /\ pscaninfo.totalpage \in 0..(MaxNets + PageSize - 1) \div PageSize
    BY <1>3, InfoField, Divided, ScanBounds DEF ScanInv, ScanTypeOK
  <2>2. p \in 1..pscaninfo.totalpage
    BY <1>3, <2>1, ScanBounds DEF Page
  <2>0. CASE pscaninfo.pbss = NoInfo
    <3>1. crashed' = TRUE /\ UNCHANGED pscaninfo
      BY <1>3, <2>0 DEF GetPage
    <3>2. failed
      BY <1>3, <2>0, <2>1, <2>2 DEF ScanInv, ListInv
    <3>3. ScanTypeOK'
      BY <3>1, AskedFor, Zenon DEF ScanInv, ScanTypeOK
    <3>4. UNCHANGED <<scanning, failed>> /\ early' = (early \/ scanning)
      BY AskedFor
    <3>5. failed' /\ ~(scanning' /\ ~early')
      BY <3>2, <3>4
    <3>6. ListInv'
      BY <3>5, Zenon DEF ListInv
    <3> QED
      BY <3>3, <3>6 DEF ScanInv
  <2>3. ASSUME pscaninfo.pbss # NoInfo PROVE SendPage(p)
    BY <1>3, <2>3 DEF GetPage
  <2>5. CASE pscaninfo.pbss # NoInfo /\ pscaninfo.pbss = 0
    <3>1. pscaninfo' = NoInfo /\ UNCHANGED crashed
      BY <2>3, <2>5 DEF SendPage
    <3>2. ScanTypeOK'
      BY <3>1, AskedFor, Zenon DEF ScanInv, ScanTypeOK
    <3>3. UNCHANGED <<scannum, scanning, failed>> /\ early' = (early \/ scanning) /\ ~crashed
      BY AskedFor
    <3>4. ListInv'
      BY <3>1, <3>3 DEF ListInv
    <3> QED
      BY <3>2, <3>4 DEF ScanInv
  <2>6. CASE pscaninfo.pbss # NoInfo /\ pscaninfo.pbss # 0 /\ pscaninfo.page_sn = p
    <3>1. /\ pscaninfo' = [pscaninfo EXCEPT !.pagenum = p, !.page_sn = 0]
          /\ UNCHANGED crashed
      BY <2>3, <2>6 DEF SendPage
    <3>2. 0 \in Page
      BY ScanBounds DEF Page
    <3>3. p \in asked \/ again \/ early \/ scanning \/ failed
      BY <1>3, <2>2, <2>6 DEF ScanInv, ListInv
    <3> QED
      BY <1>3, <3>1, <3>2, <3>3, NotSentStep
  <2>7. CASE pscaninfo.pbss # NoInfo /\ pscaninfo.pbss # 0 /\ pscaninfo.page_sn # p /\ TooMany(count)
    <3>1. /\ pscaninfo' = [pscaninfo EXCEPT !.pagenum = p, !.page_sn = p]
          /\ UNCHANGED crashed
      BY <2>3, <2>7 DEF SendPage
    <3>2. p \in asked \/ again \/ early \/ scanning \/ failed
      BY <1>3, <2>2, <2>7, TooManyStep
    <3> QED
      BY <1>3, <3>1, <3>2, NotSentStep
  <2>8. CASE pscaninfo.pbss # NoInfo /\ pscaninfo.pbss # 0 /\ pscaninfo.page_sn # p /\ ~TooMany(count)
    <3>1. Send(p, count)
      BY <2>3, <2>8 DEF SendPage
    <3> QED
      BY <1>3, <2>2, <2>8, <3>1, SentStep
  <2> QED
    BY <2>0, <2>5, <2>6, <2>7, <2>8
<1> QED
    BY <1>1, <1>2, <1>3

LEMMA ScanInvStep == ScanInv /\ [ScanNext]_scanVars => ScanInv'
<1> SUFFICES ASSUME ScanInv, [ScanNext]_scanVars PROVE ScanInv'
    OBVIOUS
<1>1. CASE UNCHANGED scanVars
    BY <1>1, Zenon DEF scanVars, ScanInv, ScanTypeOK, ListInv, SentPages
<1> QED
    BY <1>1, ScanStep, ScanDoneStep, ScanFailsStep, GetPageStep, BootStep DEF ScanNext

LEMMA ScanInvariance == ScanSpec => []ScanInv
    BY ScanInitInv, ScanInvStep, PTL DEF ScanSpec

\* The variables of the scan commands keep their types: the counts of a page and of
\* what was sent fit, whatever is asked for.
THEOREM ScanTypeCorrect == ScanSpec => []ScanTypeOK
<1>1. ScanInv => ScanTypeOK
    BY DEF ScanInv
<1> QED
    BY <1>1, ScanInvariance, PTL

\* scan_get never reads beyond the end of the SDK's list, nor before there is one,
\* but where a page was asked for too early or a scan has failed.
THEOREM InsideTheList == ScanSpec => []StaysInList
<1>1. ScanInv => StaysInList
    BY DEF ScanInv, ListInv, StaysInList
<1> QED
    BY <1>1, ScanInvariance, PTL

\* A client that asks for each page of a scan once is sent all its networks, if none
\* was asked for while it was under way and it did not fail.
THEOREM EveryNetwork == ScanSpec => []AllSent
<1>1. ASSUME ScanInv, pscaninfo # NoInfo, ~scanning, 1..pscaninfo.totalpage # {},
             1..pscaninfo.totalpage = asked, ~again, ~early, ~failed
      PROVE  pscaninfo.pbss = 0
  <2>1. /\ scannum \in 0..MaxNets
        /\ pscaninfo.pbss # NoInfo
        /\ pscaninfo.totalpage = TotalPage(scannum)
        /\ pscaninfo.pbss + pscaninfo.data_cnt = scannum
        /\ pscaninfo.data_cnt = OnPages(SentPages, scannum)
    BY <1>1 DEF ScanInv, ScanTypeOK, ListInv
  <2>2. SentPages = 1..TotalPage(scannum) /\ TotalPage(scannum) # 0
    <3>1. 1..TotalPage(scannum) # {} /\ asked = 1..TotalPage(scannum)
      BY <1>1, <2>1, Zenon
    <3>2. TotalPage(scannum) # 0
      BY <3>1
    <3> QED
      BY <3>1, <3>2, Zenon DEF SentPages
  <2>3. pscaninfo.data_cnt = scannum
    BY <2>1, <2>2, AllPages
  <2>4. pscaninfo.pbss \in 0..MaxNets
    BY <1>1, <2>1, InfoField DEF ScanInv, ScanTypeOK
  <2>5. pscaninfo.pbss + scannum = scannum
    BY <2>1, <2>3, Zenon
  <2> QED
    BY <2>1, <2>4, <2>5
<1>2. ScanInv => AllSent
    BY <1>1 DEF AllSent
<1> QED
    BY <1>2, ScanInvariance, PTL

-----------------------------------------------------------------------------
(* The device finder                                                       *)

\* The interfaces as the SDK leaves them: no two on one net, and a soft access
\* point that is up has an address.
NetInv ==
    /\ opmode \in {"STATION_MODE", "SOFTAP_MODE", "STATIONAP_MODE"}
    /\ ipconfig \in [Interface -> Net \cup {NoNet}]
    /\ ipconfig["STATION_IF"] = ipconfig["SOFTAP_IF"] => ipconfig["STATION_IF"] = NoNet
    /\ opmode # "STATION_MODE" => ipconfig["SOFTAP_IF"] # NoNet

FindInv == NetInv /\ FoundRightly

LEMMA Unasked ==
    ASSUME probe = NoProbe, found = NoAnswer
    PROVE  FoundRightly
BY DEF NoProbe, NoAnswer, Interface, FoundRightly, FoundOnOwnNet, AnswersItsMac

LEMMA FindInitInv == FindInit => FindInv
<1> SUFFICES ASSUME FindInit PROVE FindInv
    OBVIOUS
<1>1. NetInv
    BY DEF FindInit, NetInv, Interface
<1> QED BY <1>1, Unasked DEF FindInit, FindInv

\* The interface that is chosen is the one on the sender's net.
LEMMA ChosenIsOnNet ==
    ASSUME NetInv, NEW net \in Net, NEW i \in Up, ipconfig[i] = net
    PROVE  Chosen(net) = i
<1>1. net # NoNet
    BY FindAssumption
<1>2. CASE i = "SOFTAP_IF"
    <2>1. opmode # "STATION_MODE"
        BY <1>2 DEF Up
    <2> QED BY <1>2, <2>1 DEF Chosen
<1>3. CASE i = "STATION_IF"
    <2>1. ipconfig["SOFTAP_IF"] # net
        BY <1>1, <1>3 DEF NetInv
    <2> QED BY <1>3, <2>1 DEF Chosen, NetInv
<1> QED BY <1>2, <1>3 DEF Up

LEMMA FindReceiveStep ==
    ASSUME FindInv, NEW net \in Net, NEW mac \in Interface \cup {"all", "another"}, Receive(net, mac)
    PROVE  FindInv'
<1>1. PICK i \in Up : ipconfig[i] = net
    BY DEF Receive
<1>2. Chosen(net) = i
    BY <1>1, ChosenIsOnNet DEF FindInv
<1>3. /\ probe' = [net |-> net, mac |-> mac]
      /\ UNCHANGED <<opmode, ipconfig>>
      /\ IF Meant(mac, i) THEN found' = [mac |-> i, net |-> ipconfig[i]] ELSE found' = NoAnswer
    BY <1>2 DEF Receive
<1>4. FoundOnOwnNet'
    <2>1. Up' = Up
        BY <1>3 DEF Up
    <2>2. mac = "all" => Meant(mac, i)
        BY DEF Meant
    <2> QED BY <1>1, <1>3, <2>1, <2>2 DEF FoundOnOwnNet
<1>5. AnswersItsMac'
    BY <1>3 DEF AnswersItsMac, Meant, Interface
<1> QED BY <1>3, <1>4, <1>5 DEF FindInv, NetInv, FoundRightly

LEMMA FindStep == FindInv /\ [FindNext]_findVars => FindInv'
<1> SUFFICES ASSUME FindInv, [FindNext]_findVars PROVE FindInv'
    OBVIOUS
<1>1. CASE NetChange \/ FindBoot
    <2>1. NetInv'
        BY <1>1 DEF NetChange, FindBoot, NetInv, Interface
    <2>2. probe' = NoProbe /\ found' = NoAnswer
        BY <1>1 DEF NetChange, FindBoot
    <2>3. FoundRightly'
        BY <2>2 DEF NoProbe, NoAnswer, Interface, FoundRightly, FoundOnOwnNet, AnswersItsMac
    <2> QED BY <2>1, <2>3 DEF FindInv
<1>2. CASE UNCHANGED findVars
    BY <1>2 DEF findVars, FindInv, NetInv, FoundRightly, FoundOnOwnNet, AnswersItsMac, Up
<1> QED BY <1>1, <1>2, FindReceiveStep DEF FindNext

LEMMA FindInvariance == FindSpec => []FindInv
BY FindInitInv, FindStep, PTL DEF FindSpec

\* Whoever asks for all is told an address on his own net, and who names a MAC is
\* answered by its owner only.
THEOREM FindsRightly == FindSpec => []FoundRightly
<1>1. FindInv => FoundRightly
    BY DEF FindInv
<1> QED BY <1>1, FindInvariance, PTL


-----------------------------------------------------------------------------
(* The timer schedule                                                      *)

LEMMA TimerBounds ==
    /\ Hour \in Nat /\ Hour > 0 /\ Week \in Nat /\ Week > 0 /\ WeekBase \in Nat /\ Far \in Nat
    /\ \A s \in Stamps : s \in Nat /\ s >= WeekBase
BY TimerAssumption

LEMMA TimerOfList ==
    ASSUME NEW list \in Lists, NEW i \in DOMAIN list
    PROVE  /\ list[i].mode \in Mode /\ list[i].time \in Nat /\ list[i].time > 0
           /\ list[i].mode = "w" => list[i].time <= Week
<1>1. list \in Seq([mode : Mode, time : Nat \ {0}])
    BY TimerAssumption
<1>2. list[i] \in [mode : Mode, time : Nat \ {0}]
    BY <1>1, LenProperties
<1> QED BY <1>2, TimerAssumption

\* A number less than k above a multiple of k has that for its rest.
LEMMA RestOf ==
    ASSUME NEW k \in Nat, k > 0, NEW q \in Int, NEW r \in 0..k-1
    PROVE  (k * q + r) % k = r
OBVIOUS

LEMMA Rests ==
    ASSUME NEW n \in Nat, NEW k \in Nat, k > 0
    PROVE  n % k \in 0..k-1 /\ n \div k \in Nat /\ n = k * (n \div k) + (n % k)
OBVIOUS

\* Going on from a number by less than what is missing to the next multiple leaves
\* a rest, and by just that none.
LEMMA Onward ==
    ASSUME NEW n \in Nat, NEW k \in Nat, k > 0, NEW a \in Nat
    PROVE  /\ a < k - (n % k) => (n + a) % k = (n % k) + a
           /\ a >= k - (n % k) /\ a < 2 * k - (n % k) => (n + a) % k = (n % k) + a - k
<1> DEFINE r == n % k
           q == n \div k
<1>1. r \in 0..k-1 /\ q \in Nat /\ n = k * q + r /\ k * q \in Nat
    BY Rests
<1> HIDE DEF r, q
<1>2. ASSUME a < k - r PROVE (n + a) % k = r + a
    <2>1. n + a = k * q + (r + a) /\ r + a \in 0..k-1
        BY <1>1, <1>2
    <2> QED BY <1>1, <2>1, RestOf
<1>3. ASSUME a >= k - r, a < 2 * k - r PROVE (n + a) % k = r + a - k
    <2>1. k * (q + 1) = k * q + k
        BY <1>1
    <2>2. n + a = k * (q + 1) + (r + a - k) /\ r + a - k \in 0..k-1 /\ q + 1 \in Int
        BY <1>1, <1>3, <2>1
    <2> QED BY <2>2, RestOf
<1> QED BY <1>2, <1>3 DEF r

LEMMA WeeklyDue ==
    ASSUME NEW t, t.mode = "w", NEW n
    PROVE  DueAt(t, n) <=> (n - WeekBase) % Week = t.time % Week
BY DEF DueAt

\* A timer is due after what it waits for, and not before.
LEMMA DueFirst ==
    ASSUME NEW list \in Lists, NEW i \in DOMAIN list, NEW now \in Stamps
    PROVE  LET w == WaitOf(list[i], now) IN
           /\ w \in Int
           /\ w > 0 => DueAt(list[i], now + w)
           /\ \A a \in Nat : a > 0 /\ DueAt(list[i], now + a) => 0 < w /\ w <= a
<1> DEFINE t == list[i]
           w == WaitOf(t, now)
<1>1. /\ t.mode \in Mode /\ t.time \in Nat /\ t.time > 0 /\ (t.mode = "w" => t.time <= Week)
      /\ now \in Nat /\ now >= WeekBase
    BY TimerOfList, TimerBounds
<1> HIDE DEF t
<1>2. CASE t.mode = "f"
    <2>1. w = t.time - now /\ \A n : DueAt(t, n) <=> n = t.time
        BY <1>2 DEF WaitOf, DueAt
    <2> HIDE DEF w
    <2> QED BY <1>1, <2>1 DEF t, w
<1>3. CASE t.mode = "l"
    <2>1. w = t.time - (now % t.time) /\ \A n : DueAt(t, n) <=> n % t.time = 0
        BY <1>3 DEF WaitOf, DueAt
    <2>2. now % t.time \in 0..t.time-1
        BY <1>1, Rests
    <2> HIDE DEF w
    <2>3. w \in Nat /\ w > 0
        BY <1>1, <2>1, <2>2
    <2>a. w >= t.time - (now % t.time) /\ w < 2 * t.time - (now % t.time)
        BY <1>1, <2>1, <2>2
    <2>b. (now + w) % t.time = (now % t.time) + w - t.time
        BY <1>1, <2>3, <2>a, Onward
    <2>4. (now + w) % t.time = 0
        BY <1>1, <2>1, <2>2, <2>b
    <2>5. ASSUME NEW a \in Nat, a > 0, (now + a) % t.time = 0 PROVE w <= a
        BY <1>1, <2>1, <2>2, <2>5, Onward
    <2> QED BY <2>1, <2>3, <2>4, <2>5 DEF t, w
<1>4. CASE t.mode = "w"
    <2> DEFINE since == now - WeekBase
               m == since % Week
    <2>1. w = Weekly(t.time, m)
        BY <1>4 DEF WaitOf
    <2>2. since \in Nat
        BY <1>1, TimerBounds
    <2>3. m \in 0..Week-1
        BY <2>2, Rests, TimerBounds
    <2> HIDE DEF w, since, m
    <2>4. w = IF t.time > m THEN t.time - m ELSE Week - m + t.time
        BY <2>1 DEF Weekly
    <2>5. w \in Nat /\ w > 0
        BY <1>1, <2>3, <2>4, TimerBounds
    <2>6. t.time % Week = IF t.time = Week THEN 0 ELSE t.time
        <3>1. Week * 0 + t.time = t.time /\ Week * 1 + 0 = Week
            BY <1>1, TimerBounds
        <3>2. CASE t.time = Week
            BY <3>1, <3>2, RestOf, TimerBounds
        <3>3. CASE t.time # Week
            <4>1. t.time \in 0..Week-1
                BY <1>1, <1>4, <3>3, TimerBounds
            <4> QED BY <3>1, <3>3, <4>1, RestOf, TimerBounds
        <3> QED BY <3>2, <3>3
    <2>7. ASSUME NEW a \in Nat
          PROVE  /\ (now + a) - WeekBase = since + a
                 /\ a < Week - m => (since + a) % Week = m + a
                 /\ a >= Week - m /\ a < 2 * Week - m => (since + a) % Week = m + a - Week
        <3>1. (now + a) - WeekBase = since + a
            BY <1>1, TimerBounds DEF since
        <3>2. /\ a < Week - (since % Week) => (since + a) % Week = (since % Week) + a
              /\ a >= Week - (since % Week) /\ a < 2 * Week - (since % Week)
                     => (since + a) % Week = (since % Week) + a - Week
            BY <2>2, Onward, TimerBounds
        <3> QED BY <3>1, <3>2 DEF m
    <2>8. ((now + w) - WeekBase) % Week = t.time % Week
        <3>1. /\ (now + w) - WeekBase = since + w
              /\ w < Week - m => (since + w) % Week = m + w
              /\ w >= Week - m /\ w < 2 * Week - m => (since + w) % Week = m + w - Week
            BY <2>5, <2>7
        <3> HIDE <2>7
        <3>2. t.time \in 1..Week /\ Week \in Nat
            BY <1>1, <1>4, TimerBounds
        <3>3. CASE t.time > m
            BY <2>3, <2>4, <2>5, <2>6, <3>1, <3>2, <3>3
        <3>4. CASE ~ t.time > m
            BY <2>3, <2>4, <2>5, <2>6, <3>1, <3>2, <3>4
        <3> QED BY <3>3, <3>4
    <2>9. ASSUME NEW a \in Nat, a > 0, ((now + a) - WeekBase) % Week = t.time % Week PROVE w <= a
        <3>1. /\ (since + a) % Week = t.time % Week
              /\ a < Week - m => (since + a) % Week = m + a
              /\ a >= Week - m /\ a < 2 * Week - m => (since + a) % Week = m + a - Week
            BY <2>7, <2>9
        <3>2. t.time \in 1..Week /\ Week \in Nat
            BY <1>1, <1>4, TimerBounds
        <3>3. CASE t.time > m
            BY <2>3, <2>4, <2>6, <2>9, <3>1, <3>2, <3>3
        <3>4. CASE ~ t.time > m
            BY <2>3, <2>4, <2>6, <2>9, <3>1, <3>2, <3>4
        <3> QED BY <3>3, <3>4
    <2>10. DueAt(t, now + w) <=> ((now + w) - WeekBase) % Week = t.time % Week
        BY <1>4, WeeklyDue
    <2>11. ASSUME NEW a \in Nat, a > 0, DueAt(t, now + a) PROVE 0 < w /\ w <= a
        <3>1. ((now + a) - WeekBase) % Week = t.time % Week
            BY <1>4, <2>11, WeeklyDue
        <3> QED BY <2>5, <2>9, <2>11, <3>1
    <2> QED BY <2>5, <2>8, <2>10, <2>11 DEF t, w
<1>5. CASE t.mode = "none"
    BY <1>5 DEF WaitOf, DueAt, t
<1> QED BY <1>1, <1>2, <1>3, <1>4, <1>5 DEF Mode


-----------------------------------------------------------------------------
\* What is waited for: no timer of the list is due before it.
LEMMA MinTimeFacts ==
    ASSUME NEW list \in Lists, NEW now \in Stamps
    PROVE  /\ MinTime(list, now) \in 0..Far
           /\ \A i \in DOMAIN list :
                  WaitOf(list[i], now) < 0 \/ WaitOf(list[i], now) >= MinTime(list, now)
<1> DEFINE waits == {WaitOf(list[i], now) : i \in DOMAIN list}
           first == {w \in waits : w \in 0..Far-1 /\ \A v \in waits : v < 0 \/ w <= v}
           soon == {w \in waits : w \in 0..Far-1}
<1>1. MinTime(list, now) = IF first = {} THEN Far ELSE CHOOSE w \in first : TRUE
    BY DEF MinTime
<1>2. \A w \in waits : w \in Int
    <2>1. ASSUME NEW i \in DOMAIN list PROVE WaitOf(list[i], now) \in Int
        BY DueFirst
    <2> QED BY <2>1
<1>3. \A i \in DOMAIN list : WaitOf(list[i], now) \in waits
    OBVIOUS
<1> HIDE DEF waits
<1>4. CASE first = {}
    <2>1. soon = {}
        <3> SUFFICES ASSUME soon # {} PROVE FALSE
            OBVIOUS
        <3>1. soon \subseteq Nat
            BY <1>2
        <3>2. PICK w \in soon : \A v \in Nat : <<v, w>> \in OpToRel(<, Nat) => v \notin soon
            BY <3>1, NatLessThanWellFounded, WFMin
        <3>3. \A v \in Nat : v < w => v \notin soon
            BY <3>1, <3>2 DEF OpToRel
        <3>4. ASSUME NEW v \in waits, ~ v < 0, ~ w <= v PROVE FALSE
            BY <1>2, <3>1, <3>3, <3>4, TimerBounds
        <3>5. w \in first
            BY <3>4
        <3> QED BY <1>4, <3>5
    <2>2. MinTime(list, now) = Far
        BY <1>1, <1>4
    <2>3. ASSUME NEW w \in waits PROVE w < 0 \/ w >= Far
        BY <1>2, <2>1, TimerBounds
    <2> QED BY <1>3, <2>2, <2>3, TimerBounds
<1>5. CASE first # {}
    <2>1. MinTime(list, now) \in first
        BY <1>1, <1>5
    <2>2. MinTime(list, now) \in 0..Far-1 /\ \A v \in waits : v < 0 \/ MinTime(list, now) <= v
        BY <2>1
    <2>3. ASSUME NEW v \in waits PROVE v < 0 \/ v >= MinTime(list, now)
        BY <1>2, <2>2, TimerBounds
    <2> QED BY <1>3, <2>2, <2>3, TimerBounds
<1> QED BY <1>4, <1>5

-----------------------------------------------------------------------------
(* The invariant: where a list is waited for, the seconds that went by,    *)
(* those of the timer that is armed and those left for later are what the  *)
(* first of the list's timers waits for.                                   *)

TimerShape ==
    /\ timestamp = 0 \/ timestamp \in Stamps
    /\ timer_splits = <<>> \/ timer_splits \in Lists
    /\ device_timer \in [fn : {"off", "check", "action"}, left : 0..Hour]
    /\ pwait_action \in [min_time_backup : Int, action : SUBSET DOMAIN timer_splits]
    /\ device_timer.fn = "check" => pwait_action.min_time_backup >= 0

TimerCounts ==
    /\ timestamp \in Nat /\ min_wait_second \in 0..Far /\ elapsed \in 0..Far
    /\ acting \subseteq DOMAIN timer_splits
    /\ kept \in BOOLEAN

Later == IF device_timer.fn = "check" THEN pwait_action.min_time_backup ELSE 0

WaitInv ==
    kept /\ acting # {} /\ device_timer.fn # "off" =>
        /\ timestamp \in Stamps /\ timer_splits \in Lists
        /\ min_wait_second = MinTime(timer_splits, timestamp) /\ min_wait_second > 0
        /\ acting = {i \in DOMAIN timer_splits :
                         WaitOf(timer_splits[i], timestamp) = min_wait_second}
        /\ pwait_action.action = acting
        /\ elapsed + device_timer.left + Later = min_wait_second

TimerInv == TimerShape /\ TimerCounts /\ WaitInv

LEMMA ArmedFacts ==
    ASSUME NEW left \in Int, left >= 0
    PROVE  /\ Armed(left) \in [fn : {"off", "check", "action"}, left : 0..Hour]
           /\ Armed(left).fn # "off"
           /\ Rest(left) \in Int
           /\ Armed(left).fn = "check" => left >= Hour
           /\ Armed(left).left + (IF Armed(left).fn = "check" THEN Rest(left) ELSE 0) = left
<1>1. CASE left >= Hour
    <2>1. Armed(left) = [fn |-> "check", left |-> Hour] /\ Hour \in 0..Hour
        BY <1>1, TimerBounds DEF Armed
    <2>2. Armed(left).fn = "check" /\ Armed(left).left = Hour
        BY <2>1
    <2>3. Rest(left) = left - Hour
        BY DEF Rest
    <2> QED BY <1>1, <2>1, <2>2, <2>3, TimerBounds
<1>2. CASE ~ left >= Hour
    <2>1. Armed(left) = [fn |-> "action", left |-> left] /\ left \in 0..Hour
        BY <1>2, TimerBounds DEF Armed
    <2>2. Armed(left).fn = "action" /\ Armed(left).left = left
        BY <2>1
    <2>3. Rest(left) = left - Hour
        BY DEF Rest
    <2> QED BY <2>1, <2>2, <2>3, TimerBounds
<1> QED BY <1>1, <1>2

LEMMA OffFacts ==
    /\ Off \in [fn : {"off", "check", "action"}, left : 0..Hour]
    /\ Off.fn = "off"
BY TimerBounds DEF Off

LEMMA TimerInitInv == TimerInit => TimerInv
<1> SUFFICES ASSUME TimerInit PROVE TimerInv
    OBVIOUS
<1>1. timer_splits = <<>> /\ DOMAIN timer_splits = {} /\ timer_splits \in Seq([mode : Mode, time : Nat \ {0}])
    BY DEF TimerInit
<1>2. pwait_action = [min_time_backup |-> 0, action |-> {}] /\ device_timer = Off
    BY DEF TimerInit
<1>3. TimerShape
    <2>1. pwait_action \in [min_time_backup : Int, action : SUBSET DOMAIN timer_splits]
        BY <1>2
    <2>2. timestamp = 0
        BY DEF TimerInit
    <2> QED BY <1>1, <1>2, <2>1, <2>2, OffFacts DEF TimerShape
<1>4. TimerCounts
    <2>1. timestamp \in Nat /\ min_wait_second \in 0..Far /\ elapsed \in 0..Far
        BY TimerBounds DEF TimerInit
    <2>2. acting \subseteq DOMAIN timer_splits /\ kept \in BOOLEAN
        BY DEF TimerInit
    <2> QED BY <2>1, <2>2 DEF TimerCounts
<1>5. WaitInv
    BY DEF WaitInv, TimerInit
<1> QED BY <1>3, <1>4, <1>5 DEF TimerInv

LEMMA MessageInv ==
    ASSUME TimerInv, NEW list \in Lists, NEW now \in Stamps \cup {timestamp}, now # 0,
           Message(list, now)
    PROVE  TimerInv'
<1>1. now \in Stamps /\ now \in Nat /\ timestamp' = now /\ timer_splits' = list /\ elapsed' = 0
    BY TimerBounds DEF TimerInv, TimerShape, Message
<1>2. kept' \in BOOLEAN
    BY DEF Message, TimerInv, TimerCounts
<1> DEFINE min == MinTime(list, now)
           due == {i \in DOMAIN list : WaitOf(list[i], now) = min}
<1>3. min \in 0..Far
    BY <1>1, MinTimeFacts
<1>4. /\ pwait_action \in [min_time_backup : Int, action : SUBSET DOMAIN timer_splits]
      /\ device_timer \in [fn : {"off", "check", "action"}, left : 0..Hour]
      /\ device_timer.fn = "check" => pwait_action.min_time_backup >= 0
    BY DEF TimerInv, TimerShape
<1>5. ASSUME pwait_action' = [pwait_action EXCEPT !.action = {}]
      PROVE  /\ pwait_action' \in [min_time_backup : Int, action : SUBSET DOMAIN list]
             /\ pwait_action'.min_time_backup = pwait_action.min_time_backup
    BY <1>4, <1>5
<1>6. CASE list = <<>>
    <2>1. /\ min_wait_second' = 0 /\ device_timer' = Off /\ acting' = {}
          /\ pwait_action' = [pwait_action EXCEPT !.action = {}]
        BY <1>6 DEF Message
    <2>2. TimerShape'
        BY <1>1, <1>5, <2>1, OffFacts DEF TimerShape
    <2>3. min_wait_second' \in 0..Far /\ elapsed' \in 0..Far
        BY <1>1, <2>1, TimerBounds
    <2>4. TimerCounts'
        BY <1>1, <1>2, <2>1, <2>2, <2>3 DEF TimerCounts
    <2>5. WaitInv'
        BY <2>1 DEF WaitInv
    <2> QED BY <2>2, <2>4, <2>5 DEF TimerInv
<1>7. CASE list # <<>> /\ min = 0
    <2>1. /\ min_wait_second' = 0 /\ device_timer' = device_timer /\ acting' = {}
          /\ pwait_action' = [pwait_action EXCEPT !.action = {}]
        BY <1>7 DEF Message
    <2>2. TimerShape'
        BY <1>1, <1>4, <1>5, <2>1 DEF TimerShape
    <2>3. min_wait_second' \in 0..Far /\ elapsed' \in 0..Far
        BY <1>1, <2>1, TimerBounds
    <2>4. TimerCounts'
        BY <1>1, <1>2, <2>1, <2>2, <2>3 DEF TimerCounts
    <2>5. WaitInv'
        BY <2>1 DEF WaitInv
    <2> QED BY <2>2, <2>4, <2>5 DEF TimerInv
<1>8. CASE list # <<>> /\ min # 0
    <2>1. /\ min_wait_second' = min /\ device_timer' = Armed(min) /\ acting' = due
          /\ pwait_action' = [min_time_backup |-> Rest(min), action |-> due]
        BY <1>8 DEF Message
    <2> HIDE DEF min, due
    <2>2. due \in SUBSET DOMAIN list
        BY DEF due
    <2>3. min \in Int /\ min >= 0 /\ min > 0
        BY <1>3, <1>8, TimerBounds
    <2>4. /\ device_timer' \in [fn : {"off", "check", "action"}, left : 0..Hour]
          /\ Rest(min) \in Int
          /\ device_timer'.fn = "check" => min >= Hour
          /\ device_timer'.left + (IF device_timer'.fn = "check" THEN Rest(min) ELSE 0) = min
        BY <2>1, <2>3, ArmedFacts
    <2>5. pwait_action' \in [min_time_backup : Int, action : SUBSET DOMAIN list]
        BY <2>1, <2>2, <2>4
    <2>6. pwait_action'.min_time_backup = Rest(min) /\ pwait_action'.action = due
        BY <2>1
    <2>7. device_timer'.fn = "check" => pwait_action'.min_time_backup >= 0
        BY <2>3, <2>4, <2>6, TimerBounds DEF Rest
    <2>8. TimerShape'
        BY <1>1, <2>4, <2>5, <2>7 DEF TimerShape
    <2>9. min_wait_second' \in 0..Far /\ elapsed' \in 0..Far
        BY <1>1, <1>3, <2>1, TimerBounds
    <2>10. TimerCounts'
        BY <1>1, <1>2, <2>1, <2>2, <2>8, <2>9 DEF TimerCounts
    <2>11. elapsed' + device_timer'.left + Later' = min_wait_second'
        <3>1. Later' = IF device_timer'.fn = "check" THEN Rest(min) ELSE 0
            BY <2>6 DEF Later
        <3>2. device_timer'.left \in Int /\ Later' \in Int
            BY <2>4, <3>1, TimerBounds
        <3> QED BY <1>1, <2>1, <2>3, <2>4, <3>1, <3>2
    <2>12. min_wait_second' = MinTime(timer_splits', timestamp')
        BY <1>1, <2>1 DEF min
    <2>13. acting' = {i \in DOMAIN timer_splits' :
                          WaitOf(timer_splits'[i], timestamp') = min_wait_second'}
        BY <1>1, <2>1 DEF due
    <2>14. WaitInv'
        BY <1>1, <2>1, <2>3, <2>6, <2>11, <2>12, <2>13 DEF WaitInv
    <2> QED BY <2>8, <2>10, <2>14 DEF TimerInv
<1> QED BY <1>6, <1>7, <1>8

LEMMA SecondInv ==
    ASSUME TimerInv, Second
    PROVE  TimerInv'
<1>1. /\ device_timer.left > 0 /\ elapsed < Far /\ elapsed' = elapsed + 1
      /\ device_timer' = [device_timer EXCEPT !.left = @ - 1]
      /\ UNCHANGED <<timestamp, min_wait_second, timer_splits, pwait_action, acting, kept>>
    BY DEF Second
<1>2. device_timer \in [fn : {"off", "check", "action"}, left : 0..Hour]
    BY DEF TimerInv, TimerShape
<1>3. /\ device_timer'.fn = device_timer.fn
      /\ device_timer'.left = device_timer.left - 1 /\ device_timer.left \in 0..Hour
      /\ device_timer' \in [fn : {"off", "check", "action"}, left : 0..Hour]
    <2>1. device_timer.left \in 0..Hour /\ device_timer.left - 1 \in 0..Hour
        BY <1>1, <1>2, TimerBounds
    <2> QED BY <1>1, <1>2, <2>1
<1>4. TimerShape'
    BY <1>1, <1>3 DEF TimerInv, TimerShape
<1>5. elapsed \in 0..Far /\ elapsed' \in 0..Far
    BY <1>1, TimerBounds DEF TimerInv, TimerCounts
<1>6. TimerCounts'
    <2>1. /\ timestamp' \in Nat /\ min_wait_second' \in 0..Far
          /\ acting' \subseteq DOMAIN timer_splits'
        BY <1>1 DEF TimerInv, TimerCounts
    <2>2. kept' \in BOOLEAN
        BY <1>1 DEF TimerInv, TimerCounts
    <2> QED BY <1>4, <1>5, <2>1, <2>2 DEF TimerCounts
<1>7. WaitInv'
    <2>1. Later' = Later /\ Later \in Int
        BY <1>1, <1>3 DEF Later, TimerInv, TimerShape
    <2>2. elapsed' + device_timer'.left + Later' = elapsed + device_timer.left + Later
        BY <1>1, <1>3, <1>5, <2>1, TimerBounds
    <2> QED BY <1>1, <1>3, <2>2 DEF WaitInv, TimerInv
<1> QED BY <1>4, <1>6, <1>7 DEF TimerInv

LEMMA StackReusedInv ==
    ASSUME TimerInv, StackReused
    PROVE  TimerInv'
<1>1. /\ kept' = FALSE
      /\ UNCHANGED <<timestamp, min_wait_second, timer_splits, device_timer, elapsed, acting>>
    BY DEF StackReused
<1>2. PICK left \in {0, Hour - 1, Hour} :
          pwait_action' = [min_time_backup |-> left, action |-> {}]
    BY DEF StackReused
<1>3. left \in Int /\ left >= 0
    BY TimerBounds
<1>4. TimerShape'
    <2>1. pwait_action' \in [min_time_backup : Int, action : SUBSET DOMAIN timer_splits']
        BY <1>2, <1>3
    <2>2. pwait_action'.min_time_backup >= 0
        BY <1>2, <1>3
    <2> QED BY <1>1, <2>1, <2>2 DEF TimerInv, TimerShape
<1>5. TimerCounts'
    BY <1>1, <1>4 DEF TimerInv, TimerCounts
<1>6. WaitInv'
    BY <1>1 DEF WaitInv
<1> QED BY <1>4, <1>5, <1>6 DEF TimerInv

LEMMA OverflowCheckInv ==
    ASSUME TimerInv, OverflowCheck
    PROVE  TimerInv'
<1> DEFINE left == pwait_action.min_time_backup
<1>1. /\ device_timer.fn = "check" /\ device_timer.left = 0
      /\ device_timer' = Armed(left)
      /\ pwait_action' = [pwait_action EXCEPT !.min_time_backup = Rest(left)]
      /\ UNCHANGED <<timestamp, min_wait_second, timer_splits, elapsed, acting, kept>>
    BY DEF OverflowCheck, Rest
<1>2. /\ pwait_action \in [min_time_backup : Int, action : SUBSET DOMAIN timer_splits]
      /\ left \in Int /\ left >= 0
    BY <1>1 DEF TimerInv, TimerShape
<1> HIDE DEF left
<1>3. /\ device_timer' \in [fn : {"off", "check", "action"}, left : 0..Hour]
      /\ device_timer'.fn # "off"
      /\ Rest(left) \in Int
      /\ device_timer'.fn = "check" => left >= Hour
      /\ device_timer'.left + (IF device_timer'.fn = "check" THEN Rest(left) ELSE 0) = left
    BY <1>1, <1>2, ArmedFacts
<1>4. /\ pwait_action' \in [min_time_backup : Int, action : SUBSET DOMAIN timer_splits]
      /\ pwait_action'.min_time_backup = Rest(left)
      /\ pwait_action'.action = pwait_action.action
    BY <1>1, <1>2, <1>3
<1>5. TimerShape'
    <2>1. device_timer'.fn = "check" => pwait_action'.min_time_backup >= 0
        BY <1>2, <1>3, <1>4, TimerBounds DEF Rest
    <2> QED BY <1>1, <1>3, <1>4, <2>1 DEF TimerInv, TimerShape
<1>6. TimerCounts'
    <2>1. /\ timestamp' \in Nat /\ min_wait_second' \in 0..Far /\ elapsed' \in 0..Far
          /\ acting' \subseteq DOMAIN timer_splits'
        BY <1>1 DEF TimerInv, TimerCounts
    <2>2. kept' \in BOOLEAN
        BY <1>1 DEF TimerInv, TimerCounts
    <2> QED BY <1>5, <2>1, <2>2 DEF TimerCounts
<1>7. WaitInv'
    <2>1. Later = left /\ Later' = IF device_timer'.fn = "check" THEN Rest(left) ELSE 0
        BY <1>1, <1>4 DEF Later, left
    <2>2. /\ device_timer'.left \in Int /\ Later' \in Int /\ elapsed \in Int
        BY <1>3, <2>1, TimerBounds DEF TimerInv, TimerCounts
    <2>3. elapsed' + device_timer'.left + Later' = elapsed + device_timer.left + Later
        BY <1>1, <1>2, <1>3, <2>1, <2>2
    <2>4. device_timer.fn # "off"
        BY <1>1
    <2> QED BY <1>1, <1>4, <2>3, <2>4 DEF WaitInv, TimerInv
<1> QED BY <1>5, <1>6, <1>7 DEF TimerInv

LEMMA DeviceActionInv ==
    ASSUME TimerInv, DeviceAction
    PROVE  TimerInv'
<1>1. /\ device_timer' = Off
      /\ UNCHANGED <<timestamp, min_wait_second, timer_splits, pwait_action, elapsed, acting, kept>>
    BY DEF DeviceAction
<1>2. device_timer' \in [fn : {"off", "check", "action"}, left : 0..Hour] /\ device_timer'.fn = "off"
    BY <1>1, OffFacts
<1>3. TimerShape'
    BY <1>1, <1>2 DEF TimerInv, TimerShape
<1>4. TimerCounts'
    <2>1. /\ timestamp' \in Nat /\ min_wait_second' \in 0..Far /\ elapsed' \in 0..Far
          /\ acting' \subseteq DOMAIN timer_splits'
        BY <1>1 DEF TimerInv, TimerCounts
    <2>2. kept' \in BOOLEAN
        BY <1>1 DEF TimerInv, TimerCounts
    <2> QED BY <1>3, <2>1, <2>2 DEF TimerCounts
<1>5. WaitInv'
    BY <1>2 DEF WaitInv
<1> QED BY <1>3, <1>4, <1>5 DEF TimerInv

LEMMA TimerStep == TimerInv /\ [TimerNext]_timerVars => TimerInv'
<1> SUFFICES ASSUME TimerInv, [TimerNext]_timerVars PROVE TimerInv'
    OBVIOUS
<1>1. ASSUME NEW list \in Lists, NEW now \in Stamps \cup {timestamp}, now # 0, Message(list, now)
      PROVE  TimerInv'
    BY <1>1, MessageInv
<1>2. CASE Second
    BY <1>2, SecondInv
<1>3. CASE StackReused
    BY <1>3, StackReusedInv
<1>4. CASE OverflowCheck
    BY <1>4, OverflowCheckInv
<1>5. CASE DeviceAction
    BY <1>5, DeviceActionInv
<1>6. CASE UNCHANGED timerVars
    <2>1. TimerShape'
        BY <1>6 DEF TimerInv, TimerShape, timerVars
    <2>2. TimerCounts'
        <3>1. /\ timestamp' \in Nat /\ min_wait_second' \in 0..Far /\ elapsed' \in 0..Far
              /\ acting' \subseteq DOMAIN timer_splits'
            BY <1>6 DEF TimerInv, TimerCounts, timerVars
        <3>2. kept' \in BOOLEAN
            BY <1>6 DEF TimerInv, TimerCounts, timerVars
        <3> QED BY <2>1, <3>1, <3>2 DEF TimerCounts
    <2>3. WaitInv'
        <3>1. Later' = Later
            BY <1>6 DEF Later, timerVars
        <3> QED BY <1>6, <3>1 DEF TimerInv, WaitInv, timerVars
    <2> QED BY <2>1, <2>2, <2>3 DEF TimerInv
<1> QED BY <1>1, <1>2, <1>3, <1>4, <1>5, <1>6 DEF TimerNext

LEMMA TimerInvariance == TimerSpec => []TimerInv
BY TimerInitInv, TimerStep, PTL DEF TimerSpec

\* Whatever lists the cloud sends, os_timer_arm is given an hour at most and the
\* structure names timers of the list.
THEOREM TimerTypeCorrect == TimerSpec => []TimerTypeOK
<1>1. TimerInv => TimerTypeOK
    <2> SUFFICES ASSUME TimerInv PROVE TimerTypeOK
        OBVIOUS
    <2>1. timer_splits \in Seq([mode : Mode, time : Nat \ {0}])
        <3>1. <<>> \in Seq([mode : Mode, time : Nat \ {0}])
            OBVIOUS
        <3>2. timer_splits = <<>> \/ timer_splits \in Lists
            BY DEF TimerInv, TimerShape
        <3>3. Lists \subseteq Seq([mode : Mode, time : Nat \ {0}])
            BY TimerAssumption
        <3> QED BY <3>1, <3>2, <3>3
    <2>2. device_timer.fn \in {"off", "check", "action"} /\ device_timer.left \in 0..Hour
        BY DEF TimerInv, TimerShape
    <2>3. pwait_action.min_time_backup \in Int /\ pwait_action.action \subseteq DOMAIN timer_splits
        BY DEF TimerInv, TimerShape
    <2>4. timestamp \in Nat /\ min_wait_second \in 0..Far /\ elapsed \in 0..Far
          /\ acting \subseteq DOMAIN timer_splits
        BY DEF TimerInv, TimerCounts
    <2>5. kept \in BOOLEAN
        BY DEF TimerInv, TimerCounts
    <2> QED BY <2>1, <2>2, <2>3, <2>4, <2>5 DEF TimerTypeOK
<1> QED BY <1>1, TimerInvariance, PTL

-----------------------------------------------------------------------------
\* When the timer's action comes, what was waited for is over.
LEMMA ActionOnTime ==
    ASSUME TimerInv, DeviceAction, kept, acting # {}
    PROVE  OnTime
<1>1. device_timer.fn = "action" /\ device_timer.left = 0
    BY DEF DeviceAction
<1>2. /\ timestamp \in Stamps /\ timer_splits \in Lists
      /\ min_wait_second = MinTime(timer_splits, timestamp) /\ min_wait_second > 0
      /\ acting = {i \in DOMAIN timer_splits :
                       WaitOf(timer_splits[i], timestamp) = min_wait_second}
      /\ pwait_action.action = acting
      /\ elapsed + device_timer.left + Later = min_wait_second
    BY <1>1 DEF TimerInv, WaitInv
<1>3. elapsed = min_wait_second /\ elapsed \in Nat
    <2>1. Later = 0 /\ elapsed \in 0..Far
        BY <1>1 DEF Later, TimerInv, TimerCounts
    <2> QED BY <1>1, <1>2, <2>1, TimerBounds
<1>4. ASSUME NEW i \in DOMAIN timer_splits
      PROVE  /\ WaitOf(timer_splits[i], timestamp) \in Int
             /\ WaitOf(timer_splits[i], timestamp) > 0
                    => DueAt(timer_splits[i], timestamp + WaitOf(timer_splits[i], timestamp))
             /\ \A a \in Nat : a > 0 /\ DueAt(timer_splits[i], timestamp + a)
                    => 0 < WaitOf(timer_splits[i], timestamp) /\ WaitOf(timer_splits[i], timestamp) <= a
    BY <1>2, DueFirst
<1>5. ASSUME NEW i \in DOMAIN timer_splits
      PROVE  \/ WaitOf(timer_splits[i], timestamp) < 0
             \/ WaitOf(timer_splits[i], timestamp) >= elapsed
    BY <1>2, <1>3, MinTimeFacts
<1>6. ASSUME NEW i \in DOMAIN timer_splits
      PROVE  WaitOf(timer_splits[i], timestamp) = elapsed
                 <=> DueAt(timer_splits[i], timestamp + elapsed)
    <2>1. WaitOf(timer_splits[i], timestamp) = elapsed => DueAt(timer_splits[i], timestamp + elapsed)
        BY <1>2, <1>3, <1>4
    <2>2. DueAt(timer_splits[i], timestamp + elapsed) => WaitOf(timer_splits[i], timestamp) = elapsed
        BY <1>2, <1>3, <1>4, <1>5
    <2> QED BY <2>1, <2>2
<1>7. pwait_action.action = DueNow(elapsed) /\ pwait_action.action # {}
    BY <1>2, <1>3, <1>6 DEF DueNow
<1>8. ASSUME NEW before \in 1..elapsed-1 PROVE DueNow(before) = {}
    <2>1. before \in Nat /\ before > 0 /\ before < elapsed
        BY <1>3
    <2>2. ASSUME NEW i \in DOMAIN timer_splits, DueAt(timer_splits[i], timestamp + before)
          PROVE  FALSE
        BY <1>3, <1>4, <1>5, <2>1, <2>2
    <2> QED BY <2>2 DEF DueNow
<1> QED BY <1>7, <1>8 DEF OnTime

\* Over any number of hours, week ends and loops, the timer's action is for the
\* first timers of the list, when these are due: the minimum that
\* user_platform_timer_first_start finds, and the overflow check's sums.
THEOREM TimersOnTime == TimerSpec => ActsOnTime
<1>1. TimerInv /\ [TimerNext]_timerVars
          => [DeviceAction /\ kept /\ acting # {} => OnTime]_timerVars
    BY ActionOnTime
<1> QED BY <1>1, TimerInvariance, PTL DEF TimerSpec, ActsOnTime

-----------------------------------------------------------------------------
(* Texts: what the JSON callbacks read of a form, and print of a page.     *)
(* Each is a recursive function of the names or leaves so far.  That there *)
(* is such a function is shown up to each of them (StationRun, SoftapRun,  *)
(* PrintRun), and so is what it has there (Gathered, Printed).             *)

\* What holds of nothing, and of one more whenever it holds of some, holds of all.
LEMMA UpTo ==
    ASSUME NEW n \in Nat, NEW S, 0 \in S, \A i \in 0..n-1 : i \in S => i + 1 \in S
    PROVE  \A i \in 0..n : i \in S
<1> DEFINE bad == {i \in 0..n : i \notin S}
<1> SUFFICES ASSUME bad # {} PROVE FALSE
    OBVIOUS
<1>1. bad \subseteq Nat
    OBVIOUS
<1>2. PICK w \in bad : \A v \in Nat : <<v, w>> \in OpToRel(<, Nat) => v \notin bad
    BY <1>1, NatLessThanWellFounded, WFMin
<1>3. \A v \in Nat : v < w => v \notin bad
    BY <1>1, <1>2 DEF OpToRel
<1>4. w \in 1..n /\ w \notin S
    <2>1. w \in 0..n /\ w \notin S
        BY <1>2
    <2>2. w # 0
        BY <2>1
    <2> QED BY <2>1, <2>2
<1>5. w - 1 \in Nat /\ w - 1 < w /\ w - 1 \in 0..n-1
    BY <1>4
<1>6. w - 1 \in S
    BY <1>3, <1>5
<1>7. (w - 1) + 1 \in S
    BY <1>5, <1>6
<1> QED BY <1>4, <1>7

\* The states of wifi_station_set follow each other.
LEMMA StationRun ==
    ASSUME NEW pairs, Len(pairs) \in Nat, NEW undefined
    PROVE  /\ StationStates(pairs, undefined)[0] = [tree |-> undefined, conf |-> Empty]
           /\ \A i \in 1..Len(pairs) :
                  StationStates(pairs, undefined)[i] =
                      StationName(StationStates(pairs, undefined)[i - 1], pairs[i])
<1> DEFINE first == [tree |-> undefined, conf |-> Empty]
           Runs(g, m) == g = [i \in 0..m |-> IF i = 0 THEN first
                                             ELSE StationName(g[i - 1], pairs[i])]
           reached == {m \in 0..Len(pairs) : \E g : Runs(g, m)}
<1>1. 0 \in reached
    <2>1. Runs([i \in 0..0 |-> first], 0)
        OBVIOUS
    <2>2. 0 \in 0..Len(pairs)
        OBVIOUS
    <2> HIDE DEF Runs, first
    <2> QED BY <2>1, <2>2
<1>2. ASSUME NEW m \in 0..Len(pairs)-1, m \in reached PROVE m + 1 \in reached
    <2>1. PICK g : Runs(g, m)
        BY <1>2
    <2> DEFINE h == [i \in 0..m+1 |-> IF i <= m THEN g[i] ELSE StationName(g[m], pairs[m + 1])]
               k == [i \in 0..m+1 |-> IF i = 0 THEN first ELSE StationName(h[i - 1], pairs[i])]
    <2>2. ASSUME NEW i \in 0..m+1 PROVE h[i] = k[i]
        <3>1. CASE i = 0
            BY <2>1, <3>1
        <3>2. CASE i \in 1..m
            <4>1. h[i] = g[i] /\ h[i - 1] = g[i - 1]
                BY <3>2
            <4>2. g[i] = StationName(g[i - 1], pairs[i])
                BY <2>1, <3>2
            <4> QED BY <3>2, <4>1, <4>2
        <3>3. CASE i = m + 1
            <4>1. h[m] = g[m] /\ h[m + 1] = StationName(g[m], pairs[m + 1])
                OBVIOUS
            <4>2. k[m + 1] = StationName(h[m], pairs[m + 1])
                <5>1. (m + 1) - 1 = m /\ m + 1 # 0 /\ m + 1 \in 0..m+1
                    OBVIOUS
                <5> HIDE DEF h
                <5> QED BY <5>1
            <4> QED BY <3>3, <4>1, <4>2
        <3> QED BY <3>1, <3>2, <3>3
    <2>3. h = k
        BY <2>2
    <2>4. Runs(h, m + 1)
        BY <2>3
    <2>5. m + 1 \in 0..Len(pairs)
        OBVIOUS
    <2> HIDE DEF h, k, Runs
    <2> QED BY <2>4, <2>5
<1>3. Len(pairs) \in reached
    <2> HIDE DEF reached
    <2>1. \A i \in 0..Len(pairs) : i \in reached
        BY <1>1, <1>2, UpTo
    <2> QED BY <2>1
<1> DEFINE s == StationStates(pairs, undefined)
<1>4. s = CHOOSE g : Runs(g, Len(pairs))
    BY DEF StationStates
<1>5. PICK g : Runs(g, Len(pairs))
    BY <1>3
<1> HIDE DEF s, Runs
<1>6. Runs(s, Len(pairs))
    BY <1>4, <1>5
<1>7. s[0] = first /\ \A i \in 1..Len(pairs) : s[i] = StationName(s[i - 1], pairs[i])
    BY <1>6 DEF Runs
<1> QED BY <1>7 DEF s

\* Where a section is entered and left
LEMMA SectionStep ==
    ASSUME NEW pairs, NEW section, NEW other, section # other, NEW i \in Nat
    PROVE  InSection(pairs, section, other, i + 1) <=>
               \/ pairs[i + 1].name = section
               \/ pairs[i + 1].name # other /\ InSection(pairs, section, other, i)
<1>1. CASE pairs[i + 1].name = section
    <2>1. i + 1 \in 1..i+1 /\ \A j \in i+1..i+1 : j = i + 1
        OBVIOUS
    <2> QED BY <1>1, <2>1 DEF InSection
<1>2. ASSUME pairs[i + 1].name # section, InSection(pairs, section, other, i + 1)
      PROVE  pairs[i + 1].name # other /\ InSection(pairs, section, other, i)
    <2>1. PICK k \in 1..i+1 : pairs[k].name = section /\ \A j \in k..i+1 : pairs[j].name # other
        BY <1>2 DEF InSection
    <2>2. k # i + 1
        BY <1>2, <2>1
    <2>3. k \in 1..i /\ i + 1 \in k..i+1 /\ \A j \in k..i : j \in k..i+1
        BY <2>2
    <2>4. pairs[i + 1].name # other
        BY <2>1, <2>3
    <2>5. \A j \in k..i : pairs[j].name # other
        BY <2>1, <2>3
    <2> QED BY <2>1, <2>3, <2>4, <2>5 DEF InSection
<1>3. ASSUME pairs[i + 1].name # other, InSection(pairs, section, other, i)
      PROVE  InSection(pairs, section, other, i + 1)
    <2>1. PICK k \in 1..i : pairs[k].name = section /\ \A j \in k..i : pairs[j].name # other
        BY <1>3 DEF InSection
    <2>2. k \in 1..i+1 /\ \A j \in k..i+1 : j \in k..i \/ j = i + 1
        OBVIOUS
    <2>3. \A j \in k..i+1 : pairs[j].name # other
        BY <1>3, <2>1, <2>2
    <2> QED BY <2>1, <2>2, <2>3 DEF InSection
<1> QED BY <1>1, <1>2, <1>3

\* The places that give a field a value among the first n, and the last of them
Places(pairs, section, other, field, n) ==
    {i \in 1..n : pairs[i].name = field /\ InSection(pairs, section, other, i)}

GivenBy(pairs, section, other, field, n) ==
    IF Places(pairs, section, other, field, n) = {} THEN ""
    ELSE pairs[Max(Places(pairs, section, other, field, n))].value

LEMMA GivenStep ==
    ASSUME NEW pairs, NEW section, NEW other, NEW field, NEW n \in Nat
    PROVE  GivenBy(pairs, section, other, field, n + 1) =
               IF pairs[n + 1].name = field /\ InSection(pairs, section, other, n + 1)
               THEN pairs[n + 1].value ELSE GivenBy(pairs, section, other, field, n)
<1> DEFINE next == Places(pairs, section, other, field, n + 1)
<1>1. CASE pairs[n + 1].name = field /\ InSection(pairs, section, other, n + 1)
    <2>1. n + 1 \in next /\ \A i \in next : i \in Int /\ n + 1 >= i
        BY <1>1 DEF Places
    <2>2. \A x : (x \in next /\ \A y \in next : x >= y) => x = n + 1
        <3>1. ASSUME NEW x \in next, \A y \in next : x >= y PROVE x = n + 1
            <4>1. x >= n + 1 /\ n + 1 >= x /\ x \in Int
                BY <2>1, <3>1
            <4> QED BY <4>1
        <3> QED BY <3>1
    <2> HIDE DEF next
    <2>3. Max(next) = n + 1
        BY <2>1, <2>2 DEF Max
    <2> QED BY <1>1, <2>1, <2>3 DEF GivenBy, next
<1>2. CASE ~(pairs[n + 1].name = field /\ InSection(pairs, section, other, n + 1))
    <2>1. next = Places(pairs, section, other, field, n)
        <3>1. \A i \in 1..n+1 : i \in 1..n \/ i = n + 1
            OBVIOUS
        <3>2. \A i \in 1..n : i \in 1..n+1
            OBVIOUS
        <3> QED BY <1>2, <3>1, <3>2, Zenon DEF Places
    <2> QED BY <1>2, <2>1 DEF GivenBy
<1> QED BY <1>1, <1>2

LEMMA GivenAll ==
    ASSUME NEW pairs, NEW section, NEW other, NEW field
    PROVE  GivenBy(pairs, section, other, field, Len(pairs)) = Given(pairs, section, other, field)
BY DEF GivenBy, Places, Given

\* The tree of a callback tells the section, once a section was there.
Placed(pairs, section, other, tree, i) ==
    (\E k \in 1..i : pairs[k].name \in {section, other}) =>
        (tree <=> InSection(pairs, section, other, i))

LEMMA TreeStep ==
    ASSUME NEW pairs, NEW section, NEW other, section # other, NEW i \in Nat, NEW tree \in BOOLEAN,
           Placed(pairs, section, other, tree, i)
    PROVE  Placed(pairs, section, other, InTree(tree, pairs[i + 1].name, section, other), i + 1)
<1> DEFINE name == pairs[i + 1].name
           next == InTree(tree, name, section, other)
           before == \E k \in 1..i : pairs[k].name \in {section, other}
<1> SUFFICES ASSUME \E k \in 1..i+1 : pairs[k].name \in {section, other}
             PROVE  next <=> InSection(pairs, section, other, i + 1)
    BY DEF Placed
<1>1. InSection(pairs, section, other, i + 1) <=>
          name = section \/ (name # other /\ InSection(pairs, section, other, i))
    BY SectionStep
<1>2. CASE name = section
    BY <1>1, <1>2 DEF InTree
<1>3. CASE name = other
    BY <1>1, <1>3 DEF InTree
<1>4. CASE name # section /\ name # other
    <2>1. \A k \in 1..i+1 : k \in 1..i \/ k = i + 1
        OBVIOUS
    <2>2. before
        BY <1>4, <2>1
    <2>3. tree <=> InSection(pairs, section, other, i)
        BY <2>2 DEF Placed
    <2> QED BY <1>1, <1>4, <2>3 DEF InTree
<1> QED BY <1>2, <1>3, <1>4

\* A form's fields stand in a section, the first of which is before them.
FieldsPlaced(pairs) ==
    \A i \in 1..Len(pairs) :
        pairs[i].name \in StationField \cup SoftapField =>
            \E k \in 1..i : pairs[k].name \in {"Station", "Softap"}

\* Each of a callback's fields has what the names so far gave it.
Gathered(pairs, section, other, fields, s, i) ==
    /\ s.tree \in BOOLEAN
    /\ Placed(pairs, section, other, s.tree, i)
    /\ DOMAIN s.conf = StationField \cup SoftapField
    /\ \A f \in fields : s.conf[f] = GivenBy(pairs, section, other, f, i)

LEMMA NothingGiven ==
    ASSUME NEW pairs, NEW section, NEW other, NEW field
    PROVE  GivenBy(pairs, section, other, field, 0) = ""
<1>1. 1..0 = {}
    OBVIOUS
<1>2. Places(pairs, section, other, field, 0) = {}
    BY <1>1 DEF Places
<1> QED BY <1>2 DEF GivenBy

\* What both callbacks do with a name: the tree, and a field when it is in it.
LEMMA GatherStep ==
    ASSUME NEW pairs, NEW section, NEW other, section # other,
           {section, other} = {"Station", "Softap"}, NEW fields,
           fields \subseteq StationField \cup SoftapField,
           NEW n \in Nat, n < Len(pairs), Len(pairs) \in Nat,
           FieldsPlaced(pairs), NEW s, Gathered(pairs, section, other, fields, s, n), NEW t,
           t.tree = InTree(s.tree, pairs[n + 1].name, section, other),
           t.conf = IF t.tree /\ pairs[n + 1].name \in fields
                    THEN [s.conf EXCEPT ![pairs[n + 1].name] = pairs[n + 1].value] ELSE s.conf
    PROVE  Gathered(pairs, section, other, fields, t, n + 1)
<1> DEFINE name == pairs[n + 1].name
           value == pairs[n + 1].value
<1>1. s.tree \in BOOLEAN /\ Placed(pairs, section, other, s.tree, n)
    BY DEF Gathered
<1>2. Placed(pairs, section, other, t.tree, n + 1)
    BY <1>1, TreeStep
<1>3. t.tree \in BOOLEAN
    BY <1>1 DEF InTree
<1>4. DOMAIN t.conf = StationField \cup SoftapField
    BY DEF Gathered
<1>5. name \in fields => (t.tree <=> InSection(pairs, section, other, n + 1))
    <2> SUFFICES ASSUME name \in fields PROVE t.tree <=> InSection(pairs, section, other, n + 1)
        OBVIOUS
    <2>1. n + 1 \in 1..Len(pairs)
        OBVIOUS
    <2>2. name \in StationField \cup SoftapField
        OBVIOUS
    <2>3. \E k \in 1..n+1 : pairs[k].name \in {section, other}
        BY <2>1, <2>2, Zenon DEF FieldsPlaced
    <2> QED BY <1>2, <2>3 DEF Placed
<1>6. ASSUME NEW f \in fields
      PROVE  t.conf[f] = GivenBy(pairs, section, other, f, n + 1)
    <2>1. s.conf[f] = GivenBy(pairs, section, other, f, n) /\ f \in DOMAIN s.conf
        BY DEF Gathered
    <2>2. GivenBy(pairs, section, other, f, n + 1) =
              IF name = f /\ InSection(pairs, section, other, n + 1)
              THEN value ELSE GivenBy(pairs, section, other, f, n)
        BY GivenStep, Zenon
    <2>3. t.conf[f] = IF t.tree /\ name = f THEN value ELSE s.conf[f]
        <3>1. t.conf = IF t.tree /\ name \in fields THEN [s.conf EXCEPT ![name] = value] ELSE s.conf
            OBVIOUS
        <3> HIDE DEF name, value
        <3> QED BY <2>1, <3>1
    <2> QED BY <1>5, <2>1, <2>2, <2>3
<1> QED BY <1>2, <1>3, <1>4, <1>6 DEF Gathered

\* wifi_station_set has the fields of Station at the end of a form.
LEMMA StationRight ==
    ASSUME NEW pairs \in Forms, NEW undefined \in BOOLEAN
    PROVE  \A f \in StationField :
               StationSet(pairs, undefined)[f] = Given(pairs, "Station", "Softap", f)
<1> DEFINE s == StationStates(pairs, undefined)
           right == {i \in 0..Len(pairs) :
                        Gathered(pairs, "Station", "Softap", StationField, s[i], i)}
<1>1. Len(pairs) \in Nat /\ DOMAIN pairs = 1..Len(pairs)
    BY FormsAssumption
<1>2. FieldsPlaced(pairs)
    BY <1>1, FormsAssumption DEF FieldsPlaced
<1>3. s[0] = [tree |-> undefined, conf |-> Empty]
    BY <1>1, StationRun
<1>4. \A i \in 1..Len(pairs) : s[i] = StationName(s[i - 1], pairs[i])
    BY <1>1, StationRun
<1> HIDE DEF s
<1>5. 0 \in right
    <2>1. Gathered(pairs, "Station", "Softap", StationField, s[0], 0)
        <3>1. s[0].tree \in BOOLEAN /\ s[0].conf = Empty
            BY <1>3
        <3>2. DOMAIN Empty = StationField \cup SoftapField
            BY DEF Empty
        <3>3. ASSUME NEW f \in StationField
              PROVE  Empty[f] = GivenBy(pairs, "Station", "Softap", f, 0)
            BY NothingGiven DEF Empty
        <3>4. Placed(pairs, "Station", "Softap", s[0].tree, 0)
            BY DEF Placed
        <3> QED BY <3>1, <3>2, <3>3, <3>4 DEF Gathered
    <2> QED BY <1>1, <2>1
<1>6. ASSUME NEW i \in 0..Len(pairs)-1, i \in right PROVE i + 1 \in right
    <2>1. i \in Nat /\ i < Len(pairs) /\ i + 1 \in 1..Len(pairs) /\ (i + 1) - 1 = i
        BY <1>1
    <2>2. s[i + 1] = StationName(s[i], pairs[i + 1])
        BY <1>4, <2>1
    <2>3. /\ s[i + 1].tree = InTree(s[i].tree, pairs[i + 1].name, "Station", "Softap")
          /\ s[i + 1].conf = IF s[i + 1].tree /\ pairs[i + 1].name \in StationField
                             THEN [s[i].conf EXCEPT ![pairs[i + 1].name] = pairs[i + 1].value]
                             ELSE s[i].conf
        BY <2>2 DEF StationName
    <2>4. Gathered(pairs, "Station", "Softap", StationField, s[i + 1], i + 1)
        BY <1>1, <1>2, <1>6, <2>1, <2>3, GatherStep
    <2> QED BY <2>1, <2>4
<1>7. Len(pairs) \in right
    <2> HIDE DEF right
    <2>1. \A i \in 0..Len(pairs) : i \in right
        BY <1>1, <1>5, <1>6, UpTo
    <2> QED BY <1>1, <2>1
<1>8. \A f \in StationField :
          s[Len(pairs)].conf[f] = GivenBy(pairs, "Station", "Softap", f, Len(pairs))
    BY <1>7 DEF Gathered
<1> QED BY <1>8, GivenAll DEF StationSet, s

\* The states of wifi_softap_set follow each other.
LEMMA SoftapRun ==
    ASSUME NEW pairs, Len(pairs) \in Nat, NEW undefined
    PROVE  /\ SoftapStates(pairs, undefined)[0] = [tree |-> undefined, done |-> FALSE, conf |-> Empty]
           /\ \A i \in 1..Len(pairs) :
                  SoftapStates(pairs, undefined)[i] =
                      SoftapName(SoftapStates(pairs, undefined)[i - 1], pairs[i])
<1> DEFINE first == [tree |-> undefined, done |-> FALSE, conf |-> Empty]
           Runs(g, m) == g = [i \in 0..m |-> IF i = 0 THEN first
                                             ELSE SoftapName(g[i - 1], pairs[i])]
           reached == {m \in 0..Len(pairs) : \E g : Runs(g, m)}
<1>1. 0 \in reached
    <2>1. Runs([i \in 0..0 |-> first], 0)
        OBVIOUS
    <2>2. 0 \in 0..Len(pairs)
        OBVIOUS
    <2> HIDE DEF Runs, first
    <2> QED BY <2>1, <2>2
<1>2. ASSUME NEW m \in 0..Len(pairs)-1, m \in reached PROVE m + 1 \in reached
    <2> HIDE DEF first
    <2>1. PICK g : Runs(g, m)
        BY <1>2
    <2> DEFINE h == [i \in 0..m+1 |-> IF i <= m THEN g[i] ELSE SoftapName(g[m], pairs[m + 1])]
               k == [i \in 0..m+1 |-> IF i = 0 THEN first ELSE SoftapName(h[i - 1], pairs[i])]
    <2>2. ASSUME NEW i \in 0..m+1 PROVE h[i] = k[i]
        <3>1. CASE i = 0
            BY <2>1, <3>1
        <3>2. CASE i \in 1..m
            <4>1. h[i] = g[i] /\ h[i - 1] = g[i - 1]
                BY <3>2
            <4>2. g[i] = SoftapName(g[i - 1], pairs[i])
                BY <2>1, <3>2
            <4> QED BY <3>2, <4>1, <4>2
        <3>3. CASE i = m + 1
            <4>1. h[m] = g[m] /\ h[m + 1] = SoftapName(g[m], pairs[m + 1])
                OBVIOUS
            <4>2. k[m + 1] = SoftapName(h[m], pairs[m + 1])
                <5>1. (m + 1) - 1 = m /\ m + 1 # 0 /\ m + 1 \in 0..m+1
                    OBVIOUS
                <5> HIDE DEF h
                <5> QED BY <5>1
            <4> QED BY <3>3, <4>1, <4>2
        <3> QED BY <3>1, <3>2, <3>3
    <2>3. h = k
        BY <2>2
    <2>4. Runs(h, m + 1)
        BY <2>3
    <2>5. m + 1 \in 0..Len(pairs)
        OBVIOUS
    <2> HIDE DEF h, k, Runs
    <2> QED BY <2>4, <2>5
<1>3. Len(pairs) \in reached
    <2> HIDE DEF reached
    <2>1. \A i \in 0..Len(pairs) : i \in reached
        BY <1>1, <1>2, UpTo
    <2> QED BY <2>1
<1> DEFINE s == SoftapStates(pairs, undefined)
<1>4. s = CHOOSE g : Runs(g, Len(pairs))
    BY DEF SoftapStates
<1>5. PICK g : Runs(g, Len(pairs))
    BY <1>3
<1> HIDE DEF s, Runs, first
<1>6. Runs(s, Len(pairs))
    BY <1>4, <1>5
<1>7. s[0] = first /\ \A i \in 1..Len(pairs) : s[i] = SoftapName(s[i - 1], pairs[i])
    BY <1>6 DEF Runs
<1> QED BY <1>7 DEF s, first

\* The leaf printed at a place
Leaf(i) == ScanLeaves[((i - 1) % 5) + 1]

\* The states of a page's printing follow each other.
LEMMA PrintRun ==
    ASSUME NEW n \in Nat
    PROVE  /\ PrintStates(n)[0] = [bss |-> "freed", list |-> Nets, printed |-> <<>>]
           /\ \A i \in 1..5 * n :
                  PrintStates(n)[i] =
                      ScanGet(PrintStates(n)[i - 1], Leaf(i))
<1> DEFINE first == [bss |-> "freed", list |-> Nets, printed |-> <<>>]
           Runs(g, m) == g = [i \in 0..m |-> IF i = 0 THEN first
                                             ELSE ScanGet(g[i - 1], Leaf(i))]
           reached == {m \in 0..5 * n : \E g : Runs(g, m)}
<1>1. 0 \in reached
    <2>1. Runs([i \in 0..0 |-> first], 0)
        OBVIOUS
    <2>2. 0 \in 0..5 * n
        OBVIOUS
    <2> HIDE DEF Runs, first
    <2> QED BY <2>1, <2>2
<1>2. ASSUME NEW m \in 0..5 * n-1, m \in reached PROVE m + 1 \in reached
    <2>1. PICK g : Runs(g, m)
        BY <1>2
    <2> DEFINE h == [i \in 0..m+1 |-> IF i <= m THEN g[i] ELSE ScanGet(g[m], Leaf(m + 1))]
               k == [i \in 0..m+1 |-> IF i = 0 THEN first ELSE ScanGet(h[i - 1], Leaf(i))]
    <2>2. ASSUME NEW i \in 0..m+1 PROVE h[i] = k[i]
        <3>1. CASE i = 0
            BY <2>1, <3>1
        <3>2. CASE i \in 1..m
            <4>1. h[i] = g[i] /\ h[i - 1] = g[i - 1]
                BY <3>2
            <4>2. g[i] = ScanGet(g[i - 1], Leaf(i))
                BY <2>1, <3>2
            <4> QED BY <3>2, <4>1, <4>2
        <3>3. CASE i = m + 1
            <4>1. h[m] = g[m] /\ h[m + 1] = ScanGet(g[m], Leaf(m + 1))
                OBVIOUS
            <4>2. k[m + 1] = ScanGet(h[m], Leaf(m + 1))
                <5>1. (m + 1) - 1 = m /\ m + 1 # 0 /\ m + 1 \in 0..m+1
                    OBVIOUS
                <5> HIDE DEF h
                <5> QED BY <5>1
            <4> QED BY <3>3, <4>1, <4>2
        <3> QED BY <3>1, <3>2, <3>3
    <2>3. h = k
        BY <2>2
    <2>4. Runs(h, m + 1)
        BY <2>3
    <2>5. m + 1 \in 0..5 * n
        OBVIOUS
    <2> HIDE DEF h, k, Runs
    <2> QED BY <2>4, <2>5
<1>3. 5 * n \in reached
    <2> HIDE DEF reached
    <2>1. \A i \in 0..5 * n : i \in reached
        BY <1>1, <1>2, UpTo
    <2> QED BY <2>1
<1> DEFINE s == PrintStates(n)
<1>4. s = CHOOSE g : Runs(g, 5 * n)
    BY DEF PrintStates, Leaf
<1>5. PICK g : Runs(g, 5 * n)
    BY <1>3
<1> HIDE DEF s, Runs
<1>6. Runs(s, 5 * n)
    BY <1>4, <1>5
<1>7. s[0] = first /\ \A i \in 1..5 * n : s[i] = ScanGet(s[i - 1], Leaf(i))
    BY <1>6 DEF Runs
<1> QED BY <1>7 DEF s

\* A name that does not end wifi_softap_set
LEMMA SoftapStep ==
    ASSUME NEW s, NEW pair, s.done = FALSE, pair.name = "authmode" => pair.value \in Modes
    PROVE  LET tree == InTree(s.tree, pair.name, "Softap", "Station")
           IN  SoftapName(s, pair) =
                   [tree |-> tree, done |-> FALSE,
                    conf |-> IF tree /\ pair.name \in SoftapField
                             THEN [s.conf EXCEPT ![pair.name] = pair.value] ELSE s.conf]
<1> DEFINE tree == InTree(s.tree, pair.name, "Softap", "Station")
           value == IF pair.name = "authmode" /\ pair.value \notin Modes THEN "OPEN"
                    ELSE pair.value
           filled == IF tree /\ pair.name \in SoftapField
                   THEN [s.conf EXCEPT ![pair.name] = value] ELSE s.conf
<1>1. value = pair.value
    OBVIOUS
<1>2. SoftapName(s, pair) = [tree |-> tree, done |-> tree /\ value # pair.value, conf |-> filled]
    BY DEF SoftapName
<1> HIDE DEF value
<1>3. (tree /\ value # pair.value) = FALSE
    BY <1>1
<1> QED BY <1>1, <1>2, <1>3

\* wifi_softap_set has the fields of Softap at the end of a form whose authmodes are known.
LEMMA SoftapRight ==
    ASSUME NEW pairs \in Forms, NEW undefined \in BOOLEAN,
           \A i \in 1..Len(pairs) : pairs[i].name = "authmode" => pairs[i].value \in Modes
    PROVE  \A f \in SoftapField :
               SoftapSet(pairs, undefined)[f] = Given(pairs, "Softap", "Station", f)
<1> DEFINE s == SoftapStates(pairs, undefined)
           right == {i \in 0..Len(pairs) :
                        /\ s[i].done = FALSE
                        /\ Gathered(pairs, "Softap", "Station", SoftapField, s[i], i)}
<1>1. Len(pairs) \in Nat /\ DOMAIN pairs = 1..Len(pairs)
    BY FormsAssumption
<1>2. FieldsPlaced(pairs)
    BY <1>1, FormsAssumption DEF FieldsPlaced
<1>3. s[0] = [tree |-> undefined, done |-> FALSE, conf |-> Empty]
    BY <1>1, SoftapRun
<1>4. \A i \in 1..Len(pairs) : s[i] = SoftapName(s[i - 1], pairs[i])
    BY <1>1, SoftapRun
<1> HIDE DEF s
<1>5. 0 \in right
    <2>1. Gathered(pairs, "Softap", "Station", SoftapField, s[0], 0)
        <3>1. s[0].tree \in BOOLEAN /\ s[0].conf = Empty
            BY <1>3
        <3>2. DOMAIN Empty = StationField \cup SoftapField
            BY DEF Empty
        <3>3. ASSUME NEW f \in SoftapField
              PROVE  Empty[f] = GivenBy(pairs, "Softap", "Station", f, 0)
            BY NothingGiven DEF Empty
        <3>4. Placed(pairs, "Softap", "Station", s[0].tree, 0)
            BY DEF Placed
        <3> QED BY <3>1, <3>2, <3>3, <3>4 DEF Gathered
    <2>2. s[0].done = FALSE
        BY <1>3
    <2> QED BY <1>1, <2>1, <2>2
<1>6. ASSUME NEW i \in 0..Len(pairs)-1, i \in right PROVE i + 1 \in right
    <2>1. i \in Nat /\ i < Len(pairs) /\ i + 1 \in 1..Len(pairs) /\ (i + 1) - 1 = i
        BY <1>1
    <2>2. s[i + 1] = SoftapName(s[i], pairs[i + 1])
        BY <1>4, <2>1
    <2>3. /\ s[i + 1].tree = InTree(s[i].tree, pairs[i + 1].name, "Softap", "Station")
          /\ s[i + 1].done = FALSE
          /\ s[i + 1].conf = IF s[i + 1].tree /\ pairs[i + 1].name \in SoftapField
                             THEN [s[i].conf EXCEPT ![pairs[i + 1].name] = pairs[i + 1].value]
                             ELSE s[i].conf
        <3>1. pairs[i + 1].name = "authmode" => pairs[i + 1].value \in Modes
            BY <2>1
        <3>2. s[i].done = FALSE
            BY <1>6
        <3> DEFINE tree == InTree(s[i].tree, pairs[i + 1].name, "Softap", "Station")
                   conf == IF tree /\ pairs[i + 1].name \in SoftapField
                           THEN [s[i].conf EXCEPT ![pairs[i + 1].name] = pairs[i + 1].value]
                           ELSE s[i].conf
        <3>3. SoftapName(s[i], pairs[i + 1]) = [tree |-> tree, done |-> FALSE, conf |-> conf]
            BY <3>1, <3>2, SoftapStep, Zenon
        <3> DEFINE t == s[i + 1]
        <3>4. t = [tree |-> tree, done |-> FALSE, conf |-> conf]
            BY <2>2, <3>3
        <3> HIDE DEF t
        <3>5. t.tree = tree /\ t.done = FALSE /\ t.conf = conf
            <4> HIDE DEF tree, conf
            <4> QED BY <3>4
        <3> QED BY <3>5 DEF t
    <2>4. Gathered(pairs, "Softap", "Station", SoftapField, s[i + 1], i + 1)
        BY <1>1, <1>2, <1>6, <2>1, <2>3, GatherStep
    <2> QED BY <2>1, <2>3, <2>4
<1>7. Len(pairs) \in right
    <2> HIDE DEF right
    <2>1. \A i \in 0..Len(pairs) : i \in right
        BY <1>1, <1>5, <1>6, UpTo
    <2> QED BY <1>1, <2>1
<1>8. \A f \in SoftapField :
          s[Len(pairs)].conf[f] = GivenBy(pairs, "Softap", "Station", f, Len(pairs))
    BY <1>7 DEF Gathered
<1> QED BY <1>8, GivenAll DEF SoftapSet, s

\* What is left of the list, and what was printed, after i leaves: bss is the network
\* of the leaves since "bssid".
PrintState == [bss : Range(Nets) \cup {"freed"}, list : Seq(Range(Nets)),
               printed : Seq(Range(Nets))]

Printed(s, i) ==
    /\ s \in PrintState
    /\ Len(s.list) = Len(Nets) - (i \div 5)
    /\ \A k \in 1..Len(s.list) : s.list[k] = Nets[(i \div 5) + k]
    /\ i % 5 # 0 => s.bss = Nets[(i \div 5) + 1]
    /\ Len(s.printed) = i
    /\ \A k \in 1..i : s.printed[k] = Nets[((k - 1) \div 5) + 1]

LEMMA Fifths ==
    ASSUME NEW i \in Nat
    PROVE  /\ i \div 5 \in Nat /\ i % 5 \in 0..4 /\ i = 5 * (i \div 5) + (i % 5)
           /\ ((i + 1) - 1) % 5 = i % 5 /\ ((i + 1) - 1) \div 5 = i \div 5
           /\ i % 5 # 4 => (i + 1) \div 5 = i \div 5 /\ (i + 1) % 5 = (i % 5) + 1
           /\ i % 5 = 4 => (i + 1) \div 5 = (i \div 5) + 1 /\ (i + 1) % 5 = 0
OBVIOUS

LEMMA PrintStep ==
    ASSUME NEW s, NEW i \in Nat, i \div 5 < Len(Nets), Printed(s, i)
    PROVE  Printed(ScanGet(s, Leaf(i + 1)), i + 1)
<1> DEFINE q == i \div 5
           r == i % 5
           name == Leaf(i + 1)
           t == ScanGet(s, name)
           net == Nets[q + 1]
<1>1. /\ q \in Nat /\ r \in 0..4
      /\ ((i + 1) - 1) % 5 = r /\ ((i + 1) - 1) \div 5 = q
      /\ r # 4 => (i + 1) \div 5 = q /\ (i + 1) % 5 = r + 1
      /\ r = 4 => (i + 1) \div 5 = q + 1 /\ (i + 1) % 5 = 0
    BY Fifths
<1>2. name = ScanLeaves[r + 1]
    BY <1>1 DEF Leaf
<1>3. Nets \in Seq(Range(Nets)) /\ Len(Nets) \in Nat
    BY NetsAssumption
<1>4. /\ s \in PrintState
      /\ s.list \in Seq(Range(Nets)) /\ s.printed \in Seq(Range(Nets))
      /\ s.bss \in Range(Nets) \cup {"freed"}
    BY DEF Printed, PrintState
<1>13. Len(s.list) = Len(Nets) - q
    BY DEF Printed
<1>14. \A k \in 1..Len(s.list) : s.list[k] = Nets[q + k]
    BY DEF Printed
<1>15. r # 0 => s.bss = net
    BY DEF Printed
<1>16. Len(s.printed) = i /\ \A k \in 1..i : s.printed[k] = Nets[((k - 1) \div 5) + 1]
    BY DEF Printed
<1>5. q < Len(Nets)
    OBVIOUS
<1> HIDE DEF q, r, name
<1>6. net \in Range(Nets)
    <2>1. q + 1 \in DOMAIN Nets
        BY <1>1, <1>3, <1>5
    <2> QED BY <2>1 DEF Range
<1>7. s.list # <<>> /\ Head(s.list) = net
    <2>1. Len(s.list) > 0 /\ 1 \in 1..Len(s.list)
        BY <1>1, <1>3, <1>5, <1>13
    <2>2. s.list[1] = net
        BY <1>14, <2>1
    <2> HIDE DEF net
    <2> QED BY <1>4, <2>1, <2>2
<1> DEFINE place(k) == Nets[((k - 1) \div 5) + 1]
           more == Append(s.printed, net)
<1>8. /\ more \in Seq(Range(Nets)) /\ Len(more) = i + 1
      /\ \A k \in 1..i+1 : more[k] = place(k)
    <2>1. place(i + 1) = net
        BY <1>1
    <2>2. \A k \in 1..i : s.printed[k] = place(k)
        BY <1>16
    <2> HIDE DEF place, net
    <2>3. more \in Seq(Range(Nets)) /\ Len(more) = i + 1 /\ more[i + 1] = net
          /\ \A k \in 1..i : more[k] = s.printed[k]
        BY <1>4, <1>6, <1>16
    <2>4. \A k \in 1..i+1 : k \in 1..i \/ k = i + 1
        OBVIOUS
    <2> HIDE DEF more
    <2> QED BY <2>1, <2>2, <2>3, <2>4
<1> DEFINE rest == Tail(s.list)
<1>9. /\ rest \in Seq(Range(Nets)) /\ Len(rest) = Len(Nets) - (q + 1)
      /\ \A k \in 1..Len(rest) : rest[k] = Nets[(q + 1) + k]
    <2>1. /\ rest \in Seq(Range(Nets)) /\ Len(rest) = Len(s.list) - 1
          /\ \A k \in 1..Len(rest) : rest[k] = s.list[k + 1] /\ k + 1 \in 1..Len(s.list)
        BY <1>4, <1>7
    <2>2. \A k \in 1..Len(rest) : rest[k] = Nets[q + (k + 1)]
        BY <1>14, <2>1
    <2>3. \A k \in 1..Len(rest) : q + (k + 1) = (q + 1) + k
        BY <1>1, <2>1
    <2>4. Len(rest) = Len(Nets) - (q + 1)
        BY <1>1, <1>3, <1>13, <2>1
    <2> QED BY <2>1, <2>2, <2>3, <2>4
<1> HIDE DEF more, rest, net, place
<1>10. CASE r = 0
    <2>1. name = "bssid"
        BY <1>2, <1>10 DEF ScanLeaves
    <2>2. t = [s EXCEPT !.bss = net, !.printed = more]
        BY <1>7, <2>1 DEF ScanGet, more
    <2>3. t = [bss |-> net, list |-> s.list, printed |-> more]
        BY <1>4, <2>2 DEF PrintState
    <2> HIDE DEF t
    <2>4. t \in PrintState
        BY <1>4, <1>6, <1>8, <2>3 DEF PrintState
    <2>5. (i + 1) \div 5 = q
        BY <1>1, <1>10
    <2>6. Len(t.list) = Len(Nets) - ((i + 1) \div 5)
        BY <1>13, <2>3, <2>5
    <2>7. \A k \in 1..Len(t.list) : t.list[k] = Nets[((i + 1) \div 5) + k]
        BY <1>14, <2>3, <2>5
    <2>8. t.bss = Nets[((i + 1) \div 5) + 1]
        BY <2>3, <2>5 DEF net
    <2>9. t.printed = more
        BY <2>3
    <2> QED BY <1>8, <2>4, <2>6, <2>7, <2>8, <2>9, Zenon DEF Printed, t, name, place
<1>11. CASE r \in 1..3
    <2>1. name \notin {"bssid", "authmode"}
        BY <1>2, <1>11 DEF ScanLeaves
    <2>2. t = [s EXCEPT !.printed = more]
        <3>1. s.bss = net
            BY <1>11, <1>15
        <3> QED BY <2>1, <3>1 DEF ScanGet, more
    <2>3. t = [bss |-> net, list |-> s.list, printed |-> more]
        BY <1>4, <1>11, <1>15, <2>2 DEF PrintState
    <2> HIDE DEF t
    <2>4. t \in PrintState
        BY <1>4, <1>6, <1>8, <2>3 DEF PrintState
    <2>5. (i + 1) \div 5 = q
        BY <1>1, <1>11
    <2>6. Len(t.list) = Len(Nets) - ((i + 1) \div 5)
        BY <1>13, <2>3, <2>5
    <2>7. \A k \in 1..Len(t.list) : t.list[k] = Nets[((i + 1) \div 5) + k]
        BY <1>14, <2>3, <2>5
    <2>8. t.bss = Nets[((i + 1) \div 5) + 1]
        BY <2>3, <2>5 DEF net
    <2>9. t.printed = more
        BY <2>3
    <2> QED BY <1>8, <2>4, <2>6, <2>7, <2>8, <2>9, Zenon DEF Printed, t, name, place
<1>12. CASE r = 4
    <2>1. name = "authmode"
        BY <1>2, <1>12 DEF ScanLeaves
    <2>2. t = [s EXCEPT !.printed = more, !.bss = "freed", !.list = rest]
        <3>1. s.bss = net
            BY <1>12, <1>15
        <3>2. name # "bssid"
            BY <2>1
        <3> QED BY <2>1, <3>1, <3>2 DEF ScanGet, more, rest
    <2>3. t = [bss |-> "freed", list |-> rest, printed |-> more]
        BY <1>4, <2>2 DEF PrintState
    <2> HIDE DEF t
    <2>4. t \in PrintState
        BY <1>8, <1>9, <2>3 DEF PrintState
    <2>5. (i + 1) \div 5 = q + 1 /\ (i + 1) % 5 = 0
        BY <1>1, <1>12
    <2>6. Len(t.list) = Len(Nets) - ((i + 1) \div 5)
        BY <1>9, <2>3, <2>5
    <2>7. \A k \in 1..Len(t.list) : t.list[k] = Nets[((i + 1) \div 5) + k]
        BY <1>9, <2>3, <2>5
    <2>9. t.printed = more
        BY <2>3
    <2> QED BY <1>8, <2>4, <2>5, <2>6, <2>7, <2>9, Zenon DEF Printed, t, name, place
<1>17. r = 0 \/ r \in 1..3 \/ r = 4
    BY <1>1
<1> QED BY <1>10, <1>11, <1>12, <1>17 DEF name, t

\* What is printed of a page is the networks in their order, each five times.
LEMMA PrintRight ==
    ASSUME NEW n \in 1..Len(Nets)
    PROVE  LET page == PrintStates(n)[5 * n].printed
           IN  \A k \in DOMAIN page : page[k] = Nets[((k - 1) \div 5) + 1]
<1> DEFINE s == PrintStates(n)
           right == {i \in 0..5*n : Printed(s[i], i)}
<1>1. /\ Nets \in Seq(Range(Nets)) /\ Len(Nets) \in Nat
      /\ n \in Nat /\ 5 * n \in Nat /\ n <= Len(Nets)
    BY NetsAssumption
<1>2. s[0] = [bss |-> "freed", list |-> Nets, printed |-> <<>>]
    BY <1>1, PrintRun
<1>3. \A i \in 1..5*n : s[i] = ScanGet(s[i - 1], Leaf(i))
    BY <1>1, PrintRun
<1> HIDE DEF s
<1>4. 0 \in right
    <2>1. s[0] \in PrintState
        BY <1>1, <1>2 DEF PrintState
    <2>2. 0 \div 5 = 0 /\ 0 % 5 = 0 /\ \A k \in 1..0 : FALSE
        OBVIOUS
    <2>3. s[0].list = Nets /\ s[0].printed = <<>>
        BY <1>2
    <2>4. \A k \in 1..Len(Nets) : 0 + k = k
        BY <1>1
    <2>5. Printed(s[0], 0)
        BY <1>1, <2>1, <2>2, <2>3, <2>4 DEF Printed
    <2> QED BY <1>1, <2>5
<1>5. ASSUME NEW i \in 0..(5*n)-1, i \in right PROVE i + 1 \in right
    <2>1. i \in Nat /\ i + 1 \in 1..5*n /\ i + 1 \in 0..5*n /\ (i + 1) - 1 = i /\ i \div 5 < Len(Nets)
        BY <1>1
    <2>2. s[i + 1] = ScanGet(s[i], Leaf(i + 1))
        BY <1>3, <2>1
    <2>3. Printed(s[i], i)
        BY <1>5
    <2>4. Printed(s[i + 1], i + 1)
        BY <2>1, <2>2, <2>3, PrintStep
    <2> QED BY <2>1, <2>4
<1>6. 5 * n \in right
    <2> HIDE DEF right
    <2>1. \A i \in 0..5*n : i \in right
        BY <1>1, <1>4, <1>5, UpTo
    <2> QED BY <1>1, <2>1
<1>7. Printed(s[5 * n], 5 * n)
    BY <1>6
<1>8. DOMAIN s[5 * n].printed = 1..5*n
    BY <1>7 DEF Printed, PrintState
<1>9. \A k \in 1..5*n : s[5 * n].printed[k] = Nets[((k - 1) \div 5) + 1]
    BY <1>7 DEF Printed
<1> QED BY <1>8, <1>9 DEF s

\* The form and the page that the fields and the results are of
JsonInv == /\ form \in Forms \cup {<<>>}
           /\ FieldsArrive
           /\ NetworksWhole

LEMMA NothingPosted ==
    ASSUME NEW section, NEW other
    PROVE  \A f \in StationField \cup SoftapField : Empty[f] = Given(<<>>, section, other, f)
<1>1. Len(<<>>) = 0
    OBVIOUS
<1>2. \A f : GivenBy(<<>>, section, other, f, 0) = ""
    BY NothingGiven
<1>3. \A f : Given(<<>>, section, other, f) = ""
    BY <1>1, <1>2, GivenAll
<1> QED BY <1>3 DEF Empty

\* What the JSON callbacks read and print is right after every step.
THEOREM NothingMixed == WebRequestSpec => []JsonKept
<1>1. WebRequestInit => JsonInv
    BY NothingPosted DEF WebRequestInit, JsonInv, FieldsArrive, NetworksWhole
<1>2. JsonInv /\ [WebRequestNext]_webVars => JsonInv'
    <2> SUFFICES ASSUME JsonInv, [WebRequestNext]_webVars PROVE JsonInv'
        OBVIOUS
    <2>1. ASSUME NEW req \in Requests, RecvRequest(req) PROVE JsonInv'
        <3>1. form' = <<>> /\ staFields' = Empty /\ apFields' = Empty /\ results' = <<>>
            BY <2>1 DEF RecvRequest
        <3> QED BY <3>1, NothingPosted DEF JsonInv, FieldsArrive, NetworksWhole
    <2>2. ASSUME ScanAnswer PROVE JsonInv'
        BY <2>2 DEF ScanAnswer, JsonInv, FieldsArrive, NetworksWhole
    <2>3. ASSUME NEW pairs \in Forms, RecvForm(pairs) PROVE JsonInv'
        <3>1. PICK undefined \in BOOLEAN :
                  staFields' = StationSet(pairs, undefined) /\ apFields' = SoftapSet(pairs, undefined)
            BY <2>3 DEF RecvForm
        <3>2. form' = pairs /\ results' = <<>>
            BY <2>3 DEF RecvForm
        <3>3. \A f \in StationField : staFields'[f] = Given(form', "Station", "Softap", f)
            BY <3>1, <3>2, StationRight
        <3>4. (\A i \in 1..Len(form') : form'[i].name = "authmode" => form'[i].value \in Modes) =>
                  \A f \in SoftapField : apFields'[f] = Given(form', "Softap", "Station", f)
            BY <3>1, <3>2, SoftapRight
        <3>5. FieldsArrive'
            BY <3>3, <3>4, Zenon DEF FieldsArrive
        <3> QED BY <3>2, <3>5 DEF JsonInv, NetworksWhole
    <2>4. ASSUME NEW n \in 1..Len(Nets), SendPageOf(n) PROVE JsonInv'
        <3>1. results' = PrintStates(n)[5 * n].printed
            BY <2>4 DEF SendPageOf
        <3>2. NetworksWhole'
            BY <3>1, PrintRight DEF NetworksWhole
        <3>3. UNCHANGED <<form, staFields, apFields>>
            BY <2>4 DEF SendPageOf
        <3> QED BY <3>2, <3>3 DEF JsonInv, FieldsArrive
    <2>5. CASE UNCHANGED webVars
        BY <2>5 DEF webVars, JsonInv, FieldsArrive, NetworksWhole
    <2> QED BY <2>1, <2>2, <2>3, <2>4, <2>5 DEF WebRequestNext
<1>3. JsonInv => JsonKept
    BY DEF JsonInv, JsonKept
<1> QED BY <1>1, <1>2, <1>3, PTL DEF WebRequestSpec

-----------------------------------------------------------------------------
(* What webserver_recv makes of a request                                  *)

\* The characters are counted word by word.
CharsAdd(req, words) ==
    LET chars == CharsUpTo(req, words) IN
    /\ chars[0] = 0
    /\ \A i \in 1..Len(words) : chars[i] = chars[i - 1] + Chars(req, words[i])

LEMMA CharsRun ==
    ASSUME NEW req, NEW words, Len(words) \in Nat
    PROVE  CharsAdd(req, words)
<1> DEFINE Runs(g, m) == g = [i \in 0..m |-> IF i = 0 THEN 0
                                             ELSE g[i - 1] + Chars(req, words[i])]
           reached == {m \in 0..Len(words) : \E g : Runs(g, m)}
<1>1. 0 \in reached
    <2>1. Runs([i \in 0..0 |-> 0], 0)
        OBVIOUS
    <2>2. 0 \in 0..Len(words)
        OBVIOUS
    <2> HIDE DEF Runs
    <2> QED BY <2>1, <2>2
<1>2. ASSUME NEW m \in 0..Len(words)-1, m \in reached PROVE m + 1 \in reached
    <2>1. PICK g : Runs(g, m)
        BY <1>2
    <2> DEFINE h == [i \in 0..m+1 |-> IF i <= m THEN g[i] ELSE g[m] + Chars(req, words[m + 1])]
               k == [i \in 0..m+1 |-> IF i = 0 THEN 0 ELSE h[i - 1] + Chars(req, words[i])]
    <2>2. ASSUME NEW i \in 0..m+1 PROVE h[i] = k[i]
        <3>1. CASE i = 0
            BY <2>1, <3>1
        <3>2. CASE i \in 1..m
            <4>1. h[i] = g[i] /\ h[i - 1] = g[i - 1]
                BY <3>2
            <4>2. g[i] = g[i - 1] + Chars(req, words[i])
                BY <2>1, <3>2
            <4> QED BY <3>2, <4>1, <4>2
        <3>3. CASE i = m + 1
            <4>1. h[m] = g[m] /\ h[m + 1] = g[m] + Chars(req, words[m + 1])
                OBVIOUS
            <4>2. k[m + 1] = h[m] + Chars(req, words[m + 1])
                <5>1. (m + 1) - 1 = m /\ m + 1 # 0 /\ m + 1 \in 0..m+1
                    OBVIOUS
                <5> HIDE DEF h
                <5> QED BY <5>1
            <4> QED BY <3>3, <4>1, <4>2
        <3> QED BY <3>1, <3>2, <3>3
    <2>3. h = k
        BY <2>2
    <2>4. Runs(h, m + 1)
        BY <2>3
    <2>5. m + 1 \in 0..Len(words)
        OBVIOUS
    <2> HIDE DEF h, k, Runs
    <2> QED BY <2>4, <2>5
<1>3. Len(words) \in reached
    <2> HIDE DEF reached
    <2>1. \A i \in 0..Len(words) : i \in reached
        BY <1>1, <1>2, UpTo
    <2> QED BY <2>1
<1> DEFINE chars == CharsUpTo(req, words)
<1>4. chars = CHOOSE g : Runs(g, Len(words))
    BY DEF CharsUpTo
<1>5. PICK g : Runs(g, Len(words))
    BY <1>3
<1> HIDE DEF chars, Runs
<1>6. Runs(chars, Len(words))
    BY <1>4, <1>5
<1>7. chars[0] = 0 /\ \A i \in 1..Len(words) : chars[i] = chars[i - 1] + Chars(req, words[i])
    BY <1>6 DEF Runs
<1> QED BY <1>7 DEF CharsAdd, chars

\* So each count is a number.
LEMMA CharsAreNat ==
    ASSUME NEW req, NEW words, Len(words) \in Nat, \A i \in 1..Len(words) : Chars(req, words[i]) \in Nat
    PROVE  CharsUpTo(req, words)[0] = 0 /\ \A i \in 0..Len(words) : CharsUpTo(req, words)[i] \in Nat
<1> DEFINE chars == CharsUpTo(req, words)
           ok == {i \in 0..Len(words) : chars[i] \in Nat}
<1>1. chars[0] = 0 /\ \A i \in 1..Len(words) : chars[i] = chars[i - 1] + Chars(req, words[i])
    BY CharsRun DEF CharsAdd
<1> HIDE DEF chars
<1>2. 0 \in ok
    BY <1>1
<1>3. ASSUME NEW i \in 0..Len(words)-1, i \in ok PROVE i + 1 \in ok
    <2>1. i + 1 \in 1..Len(words) /\ (i + 1) - 1 = i
        OBVIOUS
    <2>2. chars[i + 1] = chars[i] + Chars(req, words[i + 1])
        BY <1>1, <2>1
    <2> QED BY <1>3, <2>1, <2>2
<1>4. \A i \in 0..Len(words) : i \in ok
    <2> HIDE DEF ok
    <2> QED BY <1>2, <1>3, UpTo
<1> QED BY <1>1, <1>4 DEF chars

\* The greatest of some numbers up to n
LEMMA MaxUpTo ==
    ASSUME NEW n \in Nat, NEW S, S \subseteq 0..n, NEW some \in S
    PROVE  Max(S) \in S /\ \A i \in S : i <= Max(S)
<1> DEFINE below == {i \in 0..n : \A j \in S : j <= n - i}
           Greatest(x) == x \in S /\ \A y \in S : x >= y
<1>1. \E x : Greatest(x)
    <2> SUFFICES ASSUME \A x \in S : \E y \in S : ~(x >= y) PROVE FALSE
        OBVIOUS
    <2>1. 0 \in below
        OBVIOUS
    <2>2. ASSUME NEW i \in 0..n-1, i \in below PROVE i + 1 \in below
        <3>1. ASSUME NEW j \in S PROVE j <= n - (i + 1)
            <4>1. PICK y \in S : ~(j >= y)
                OBVIOUS
            <4>2. y <= n - i
                BY <2>2
            <4> QED BY <4>1, <4>2
        <3> QED BY <3>1
    <2>3. n \in below
        <3> HIDE DEF below
        <3>1. \A i \in 0..n : i \in below
            BY <2>1, <2>2, UpTo
        <3> QED BY <3>1
    <2>4. some <= 0
        BY <2>3
    <2>5. PICK y \in S : ~(some >= y)
        OBVIOUS
    <2>6. y <= 0
        BY <2>3
    <2> QED BY <2>4, <2>5, <2>6
<1>2. Max(S) = CHOOSE x : Greatest(x)
    BY DEF Max
<1>3. Greatest(Max(S))
    <2> HIDE DEF Greatest
    <2> QED BY <1>1, <1>2
<1> QED BY <1>3

\* q are the words a to b of a text.
IsSlice(q, text, a, b) ==
    /\ q \in Seq(Range(text))
    /\ Len(q) = IF a <= b THEN b - a + 1 ELSE 0
    /\ \A i \in 1..Len(q) : q[i] = text[a + i - 1]

\* A slice of a slice is one of the text.
LEMMA SliceOf ==
    ASSUME NEW text, NEW a \in Nat, NEW b \in Nat, NEW q, IsSlice(q, text, a, b),
           NEW c \in Nat, NEW d \in Nat, a <= c, d <= b,
           NEW m \in Int, NEW n \in Int, m = c - a + 1, n = d - a + 1
    PROVE  IsSlice(SubSeq(q, m, n), text, c, d)
<1> DEFINE p == SubSeq(q, m, n)
<1>1. \A i \in m..n : q[i] \in Range(text)
    <2>1. \A i \in m..n : i \in 1..Len(q)
        BY DEF IsSlice
    <2> QED BY <2>1, ElementOfSeq DEF IsSlice
<1>2. /\ p \in Seq(Range(text)) /\ Len(p) = IF m <= n THEN n - m + 1 ELSE 0
      /\ \A i \in 1..n - m + 1 : p[i] = q[m + i - 1]
    <2>1. q \in Seq(Range(text))
        BY DEF IsSlice
    <2> QED BY <1>1, <2>1, SubSeqProperties
<1> HIDE DEF p
<1>3. Len(p) = IF c <= d THEN d - c + 1 ELSE 0
    <2>1. Len(p) = IF m <= n THEN n - m + 1 ELSE 0
        BY <1>2
    <2>2. (m <= n <=> c <= d) /\ n - m + 1 = d - c + 1
        OBVIOUS
    <2> QED BY <2>1, <2>2
<1>4. ASSUME NEW i \in 1..Len(p) PROVE p[i] = text[c + i - 1]
    <2>1. i \in 1..n - m + 1 /\ m + i - 1 \in 1..Len(q) /\ a + (m + i - 1) - 1 = c + i - 1
        BY <1>3 DEF IsSlice
    <2>2. p[i] = q[m + i - 1]
        BY <1>2, <2>1
    <2>3. q[m + i - 1] = text[a + (m + i - 1) - 1]
        BY <2>1 DEF IsSlice
    <2> QED BY <2>1, <2>2, <2>3
<1> QED BY <1>2, <1>3, <1>4 DEF IsSlice, p

\* os_strstr finds what stands nowhere before.
LEMMA FoundFirst ==
    ASSUME NEW words, Len(words) \in Nat, NEW w, NEW k \in 1..Len(words) + 1,
           \A j \in 1..k - 1 : words[j] # w, k <= Len(words) => words[k] = w
    PROVE  FoundAt(words, w) = k
<1> DEFINE S == {i \in 1..Len(words) : words[i] = w} \cup {Len(words) + 1}
           First(x) == x \in S /\ \A y \in S : x =< y
<1>1. k \in S
    OBVIOUS
<1>2. \A y \in S : k =< y /\ y \in Int
    OBVIOUS
<1>3. FoundAt(words, w) = CHOOSE x : First(x)
    BY DEF FoundAt, Min
<1>4. First(k) /\ \A x : First(x) => x = k
    <2> HIDE DEF S
    <2>1. ASSUME NEW x, First(x) PROVE x = k
        <3>1. x =< k /\ k =< x /\ x \in Int
            BY <1>1, <1>2, <2>1
        <3> QED BY <3>1
    <2> QED BY <1>1, <1>2, <2>1
<1> HIDE DEF First
<1> QED BY <1>3, <1>4

\* What occurs in a text has a place there.
LEMMA InRange ==
    ASSUME NEW S, NEW words \in Seq(S), NEW w
    PROVE  w \in Range(words) <=> \E i \in 1..Len(words) : words[i] = w
BY DEF Range

\* A text is cut where w is first.
LEMMA CutAt ==
    ASSUME NEW text, NEW a \in Nat, a > 0, NEW b \in Nat, NEW q, IsSlice(q, text, a, b),
           NEW w, NEW k \in a..b, text[k] = w, \A j \in a..k - 1 : text[j] # w
    PROVE  /\ w \in Range(q)
           /\ IsSlice(Before(q, w), text, a, k - 1)
           /\ IsSlice(After(q, w), text, k + 1, b)
<1> DEFINE at == k - a + 1
<1>1. Len(q) = b - a + 1 /\ at \in 1..Len(q)
    <2>1. Len(q) = b - a + 1
        BY DEF IsSlice
    <2> QED BY <2>1
<1>2. at \in 1..Len(q) + 1 /\ Len(q) \in Nat /\ a + at - 1 = k
    BY <1>1
<1>3. q[at] = w
    <2> HIDE DEF at
    <2> QED BY <1>1, <1>2 DEF IsSlice
<1>4. \A j \in 1..at - 1 : q[j] # w
    <2>1. \A j \in 1..at - 1 : j \in 1..Len(q) /\ a + j - 1 \in a..k - 1
        BY <1>1
    <2> HIDE DEF at
    <2> QED BY <2>1 DEF IsSlice
<1>5. k - 1 \in Nat /\ k + 1 \in Nat /\ at - 1 = (k - 1) - a + 1 /\ at + 1 = (k + 1) - a + 1
    OBVIOUS
<1>6. at \in Int /\ at - 1 \in Int /\ at + 1 \in Int
    OBVIOUS
<1> HIDE DEF at
<1>7. FoundAt(q, w) = at
    BY <1>2, <1>3, <1>4, FoundFirst
<1>8. w \in Range(q)
    BY <1>1, <1>3, InRange DEF IsSlice
<1>9. IsSlice(Before(q, w), text, a, k - 1)
    <2>1. IsSlice(SubSeq(q, 1, at - 1), text, a, k - 1)
        <3>1. a <= a /\ k - 1 <= b /\ 1 = a - a + 1 /\ 1 \in Int
            OBVIOUS
        <3> DEFINE d == k - 1
                   n == at - 1
        <3> HIDE DEF d, n
        <3>2. IsSlice(SubSeq(q, 1, n), text, a, d)
            BY <1>5, <1>6, <3>1, SliceOf DEF d, n
        <3> QED BY <3>2 DEF d, n
    <2> QED BY <1>7, <2>1 DEF Before
<1>10. IsSlice(After(q, w), text, k + 1, b)
    <2>1. IsSlice(SubSeq(q, at + 1, Len(q)), text, k + 1, b)
        <3>1. a <= k + 1 /\ b <= b /\ Len(q) = b - a + 1 /\ Len(q) \in Int
            BY <1>1
        <3> DEFINE c == k + 1
                   m == at + 1
        <3> HIDE DEF c, m
        <3>2. IsSlice(SubSeq(q, m, Len(q)), text, c, b)
            BY <1>5, <1>6, <3>1, SliceOf DEF c, m
        <3> QED BY <3>2 DEF c, m
    <2> QED BY <1>7, <2>1 DEF After
<1> QED BY <1>8, <1>9, <1>10

\* A text without w has nothing after it.
LEMMA NotCut ==
    ASSUME NEW text, NEW a \in Nat, NEW b \in Nat, NEW q, IsSlice(q, text, a, b),
           NEW w, \A j \in a..b : text[j] # w
    PROVE  w \notin Range(q) /\ After(q, w) = <<>>
<1>1. Len(q) \in Nat /\ Len(q) + 1 \in 1..Len(q) + 1 /\ q \in Seq(Range(text))
    BY DEF IsSlice
<1>2. \A j \in 1..Len(q) : q[j] # w
    <2>1. \A j \in 1..Len(q) : a + j - 1 \in a..b
        BY DEF IsSlice
    <2> QED BY <2>1 DEF IsSlice
<1>3. FoundAt(q, w) = Len(q) + 1
    <2>1. \A j \in 1..(Len(q) + 1) - 1 : q[j] # w
        BY <1>1, <1>2
    <2>2. ~(Len(q) + 1 <= Len(q))
        BY <1>1
    <2> QED BY <1>1, <2>1, <2>2, FoundFirst
<1>4. w \notin Range(q)
    BY <1>1, <1>2, InRange
<1>5. After(q, w) = SubSeq(q, Len(q) + 2, Len(q))
    BY <1>1, <1>3 DEF After
<1>6. Len(SubSeq(q, Len(q) + 2, Len(q))) = 0 /\ SubSeq(q, Len(q) + 2, Len(q)) \in Seq(Range(text))
    BY <1>1, SubSeqProperties
<1> QED BY <1>4, <1>5, <1>6, EmptySeq

\* A slice of one word is this word.
LEMMA OneWord ==
    ASSUME NEW text, NEW a \in Nat, NEW q, IsSlice(q, text, a, a)
    PROVE  q = <<text[a]>>
<1>1. q \in Seq(Range(text)) /\ Len(q) = 1 /\ q[1] = text[a]
    BY DEF IsSlice
<1> QED BY <1>1

\* The words of a request's text, of which the last is Host.
TextIs(req, t, e) ==
    /\ t \in Seq(Range(t)) /\ Len(t) = e + 1 /\ e \in {9, 13}
    /\ t[1] = req.type
    /\ t[3] = req.select /\ t[4] = "?" /\ t[5] = "command" /\ t[6] = "=" /\ t[7] = req.filename
    /\ \/ e = 9 /\ t[8] = "HTTP" /\ t[9] = "headers"
       \/ e = 13 /\ t[8] = "&"
    /\ t[e + 1] = "Host:"
    /\ \A i \in 1..e : t[i] # "Host:"

\* A sequence is one of what occurs in it.
LEMMA InItsRange ==
    ASSUME NEW S, NEW t \in Seq(S)
    PROVE  t \in Seq(Range(t))
BY DEF Range

\* What t holds is what a and then b hold.
Joins(t, a, b) ==
    /\ Len(t) = Len(a) + Len(b)
    /\ \A i \in 1..Len(a) : t[i] = a[i]
    /\ \A i \in 1..Len(b) : t[Len(a) + i] = b[i]

LEMMA JoinedOf ==
    ASSUME NEW S, NEW a \in Seq(S), NEW b \in Seq(S)
    PROVE  a \o b \in Seq(S) /\ Joins(a \o b, a, b)
<1> DEFINE t == a \o b
           m == Len(a)
           n == Len(b)
<1>1. t \in Seq(S) /\ Len(t) = m + n /\ m \in Nat /\ n \in Nat
    BY ConcatProperties
<1>2. \A i \in 1..m+n : t[i] = IF i <= m THEN a[i] ELSE b[i - m]
    BY ConcatProperties
<1> HIDE DEF t, m, n
<1>3. \A i \in 1..m : t[i] = a[i]
    BY <1>1, <1>2
<1>4. ASSUME NEW i \in 1..n PROVE t[m + i] = b[i]
    <2>1. m + i \in 1..m+n /\ ~(m + i <= m) /\ (m + i) - m = i
        BY <1>1
    <2> QED BY <1>2, <2>1
<1> QED BY <1>1, <1>3, <1>4 DEF Joins, t, m, n

\* A text with a page is 14 words, one without 10.
LEMMA TextOf ==
    ASSUME NEW req \in Requests
    PROVE  \E e \in {9, 13} : TextIs(req, Text(req), e)
<1> DEFINE t == Text(req)
           b == <<req.type, "/", req.select, "?", "command", "=", req.filename>>
           c == <<"HTTP", "headers", "Host:">>
<1>1. /\ req.type \in {"GET", "POST"} /\ req.page \in BOOLEAN
      /\ req.select \notin {"?", "=", "&", "HTTP", "Host:"}
      /\ req.filename \notin {"?", "=", "&", "HTTP", "Host:"}
    BY RequestsAssumption
<1> DEFINE S == {req.type, "/", req.select, "?", "command", "=", req.filename,
                "HTTP", "headers", "Host:", "&", "page", "1"}
<1>2. /\ b \in Seq(S) /\ Len(b) = 7
      /\ b[1] = req.type /\ b[2] = "/" /\ b[3] = req.select /\ b[4] = "?"
      /\ b[5] = "command" /\ b[6] = "=" /\ b[7] = req.filename
    OBVIOUS
<1>3. /\ c \in Seq(S) /\ Len(c) = 3
      /\ c[1] = "HTTP" /\ c[2] = "headers" /\ c[3] = "Host:"
    OBVIOUS
<1> DEFINE p == IF req.page THEN <<"&", "page", "=", "1">> ELSE <<>>
<1>4. t = b \o p \o c
    BY DEF Text
<1>5. req.page => /\ p \in Seq(S) /\ Len(p) = 4
                  /\ p[1] = "&" /\ p[2] = "page" /\ p[3] = "=" /\ p[4] = "1"
    OBVIOUS
<1>6. ~req.page => p \in Seq(S) /\ Len(p) = 0
    OBVIOUS
<1> DEFINE x == b \o p
<1> HIDE DEF t, b, c, p, S
<1>7. /\ x \in Seq(S) /\ Joins(x, b, p)
      /\ t \in Seq(S) /\ Joins(t, x, c)
    BY <1>1, <1>2, <1>3, <1>4, <1>5, <1>6, JoinedOf
<1> HIDE DEF x
<1>11. Len(b) = 7 /\ Len(c) = 3 /\ Len(p) = IF req.page THEN 4 ELSE 0
    BY <1>1, <1>2, <1>3, <1>5, <1>6
<1>12. Len(x) = 7 + Len(p) /\ Len(t) = 10 + Len(p)
    BY <1>7, <1>11 DEF Joins
<1>13. \A i \in 1..7 : x[i] = b[i] /\ t[i] = b[i]
    <2>1. \A i \in 1..7 : x[i] = b[i]
        BY <1>7, <1>11 DEF Joins
    <2>2. \A i \in 1..7 : i \in 1..Len(x)
        BY <1>11, <1>12
    <2> QED BY <1>7, <2>1, <2>2 DEF Joins
<1>14. /\ t[1] = b[1] /\ t[2] = b[2] /\ t[3] = b[3] /\ t[4] = b[4] /\ t[5] = b[5]
       /\ t[6] = b[6] /\ t[7] = b[7]
    BY <1>13
<1>8. t \in Seq(Range(t))
    BY <1>7, InItsRange
<1>9. CASE ~req.page
    <2>1. /\ Len(t) = 10 /\ t[1] = req.type /\ t[2] = "/" /\ t[3] = req.select /\ t[4] = "?"
          /\ t[5] = "command" /\ t[6] = "=" /\ t[7] = req.filename /\ t[8] = "HTTP"
          /\ t[9] = "headers" /\ t[10] = "Host:"
        <3>1. Len(x) = 7 /\ Len(t) = 10 /\ 1 \in 1..Len(c) /\ 2 \in 1..Len(c) /\ 3 \in 1..Len(c)
            BY <1>9, <1>11, <1>12
        <3>2. t[7 + 1] = c[1] /\ t[7 + 2] = c[2] /\ t[7 + 3] = c[3]
            BY <1>7, <3>1 DEF Joins
        <3> QED BY <1>2, <1>3, <1>14, <3>1, <3>2
    <2>2. TextIs(req, t, 9)
        BY <1>1, <1>8, <2>1 DEF TextIs
    <2> QED BY <2>2 DEF t
<1>10. CASE req.page
    <2>1. /\ Len(t) = 14 /\ t[1] = req.type /\ t[2] = "/" /\ t[3] = req.select /\ t[4] = "?"
          /\ t[5] = "command" /\ t[6] = "=" /\ t[7] = req.filename /\ t[8] = "&"
          /\ t[9] = "page" /\ t[10] = "=" /\ t[11] = "1" /\ t[12] = "HTTP"
          /\ t[13] = "headers" /\ t[14] = "Host:"
        <3>1. Len(x) = 11 /\ Len(t) = 14 /\ 1 \in 1..Len(c) /\ 2 \in 1..Len(c) /\ 3 \in 1..Len(c)
            BY <1>10, <1>11, <1>12
        <3>2. t[11 + 1] = c[1] /\ t[11 + 2] = c[2] /\ t[11 + 3] = c[3]
            BY <1>7, <3>1 DEF Joins
        <3>3. /\ 1 \in 1..Len(p) /\ 2 \in 1..Len(p) /\ 3 \in 1..Len(p) /\ 4 \in 1..Len(p)
              /\ 8 \in 1..Len(x) /\ 9 \in 1..Len(x) /\ 10 \in 1..Len(x) /\ 11 \in 1..Len(x)
            BY <1>10, <1>11, <1>12
        <3>4. x[7 + 1] = p[1] /\ x[7 + 2] = p[2] /\ x[7 + 3] = p[3] /\ x[7 + 4] = p[4]
            BY <1>7, <1>11, <3>3 DEF Joins
        <3>5. t[8] = x[8] /\ t[9] = x[9] /\ t[10] = x[10] /\ t[11] = x[11]
            BY <1>7, <3>3 DEF Joins
        <3> QED BY <1>2, <1>3, <1>5, <1>10, <1>14, <3>1, <3>2, <3>4, <3>5
    <2>2. TextIs(req, t, 13)
        BY <1>1, <1>8, <2>1 DEF TextIs
    <2> QED BY <2>2 DEF t
<1> QED BY <1>1, <1>9, <1>10

\* What is read of a field: the part, or what is longer than every name
LEMMA FieldIs ==
    ASSUME NEW w
    PROVE  /\ Field(<<>>) = <<>>
           /\ Field(<<w>>) = <<w>> \/ Field(<<w>>) = <<"overlong">>
           /\ Width(w) < URLSize => Field(<<w>>) = <<w>>
<1>1. <<w>> # <<>> /\ Head(<<w>>) = w
    OBVIOUS
<1> QED BY <1>1 DEF Field, Overlong

\* What parse_url makes of a request of which n words are copied
FrameOf(req, n) ==
    [Type      |-> IF n >= 1 THEN req.type ELSE "GET",
     pSelect   |-> IF n >= 4 THEN Field(<<req.select>>) ELSE <<>>,
     pCommand  |-> IF n >= 6 THEN Field(<<"command">>) ELSE <<>>,
     pFilename |-> IF n >= 8 THEN Field(<<req.filename>>) ELSE <<>>]

\* The words before Host that end within the length by 256 are copied, all of them
\* where the length is less than 256.
LEMMA CopiedIs ==
    ASSUME NEW req \in Requests, NEW e \in {9, 13}, TextIs(req, Text(req), e)
    PROVE  \E n \in 0..e : /\ IsSlice(Copied(req, Before(Text(req), "Host:")), Text(req), 1, n)
                           /\ Short(req) => n = e
<1> DEFINE t == Text(req)
           words == Before(t, "Host:")
           chars == CharsUpTo(req, words)
<1>1. IsSlice(words, t, 1, e)
    <2>1. IsSlice(t, t, 1, e + 1)
        BY DEF TextIs, IsSlice
    <2>2. 1 \in Nat /\ 1 > 0 /\ e + 1 \in Nat /\ e + 1 \in 1..e + 1 /\ (e + 1) - 1 = e
        OBVIOUS
    <2>3. t[e + 1] = "Host:" /\ \A j \in 1..(e + 1) - 1 : t[j] # "Host:"
        BY DEF TextIs
    <2> HIDE DEF t
    <2> DEFINE k == e + 1
    <2> HIDE DEF k
    <2>4. IsSlice(Before(t, "Host:"), t, 1, k - 1)
        BY <2>1, <2>2, <2>3, CutAt DEF k
    <2> QED BY <2>2, <2>4 DEF k
<1>2. Len(words) = e /\ e \in Nat
    BY <1>1 DEF IsSlice
<1>3. \A i \in 1..Len(words) : Chars(req, words[i]) \in Nat
    <2>1. \A i \in 1..Len(words) : words[i] \in Range(t)
        BY <1>1, <1>2, ElementOfSeq DEF IsSlice
    <2> QED BY <2>1, RequestsAssumption DEF Chars
<1> HIDE DEF words
<1>4. chars[0] = 0 /\ \A i \in 0..Len(words) : chars[i] \in Nat
    BY <1>2, <1>3, CharsAreNat
<1> HIDE DEF chars
<1> DEFINE within == {i \in 0..Len(words) : chars[i] <= chars[Len(words)] % 256}
<1>5. chars[Len(words)] \in Nat /\ chars[Len(words)] % 256 \in Nat
    BY <1>2, <1>4
<1>6. 0 \in within
    BY <1>2, <1>4, <1>5
<1>7. within \subseteq 0..e
    BY <1>2
<1>8. Max(within) \in within /\ \A i \in within : i <= Max(within)
    <2> HIDE DEF within
    <2> QED BY <1>2, <1>6, <1>7, MaxUpTo
<1> DEFINE n == Max(within)
<1>9. n \in 0..e
    BY <1>7, <1>8
<1>10. Short(req) => n = e
    <2>1. Short(req) => chars[Len(words)] < 256
        BY DEF Short, words, chars
    <2>2. chars[Len(words)] < 256 => chars[Len(words)] % 256 = chars[Len(words)]
        BY <1>5
    <2>3. chars[Len(words)] < 256 => e \in within
        BY <1>2, <2>2, <1>5
    <2> HIDE DEF within
    <2> QED BY <1>8, <1>9, <2>1, <2>3
<1>11. Copied(req, words) = SubSeq(words, 1, n)
    BY DEF Copied, chars
<1> HIDE DEF n
<1>12. IsSlice(SubSeq(words, 1, n), t, 1, n)
    <2>1. 1 \in Nat /\ e \in Nat /\ n \in Nat /\ 1 <= 1 /\ n <= e /\ 1 \in Int /\ n \in Int
          /\ 1 = 1 - 1 + 1 /\ n = n - 1 + 1
        BY <1>2, <1>9
    <2> HIDE DEF t
    <2> QED BY <1>1, <2>1, SliceOf
<1> QED BY <1>9, <1>10, <1>11, <1>12 DEF words

\* However much is copied, the URL is cut where it was put together.
LEMMA ParsedIs ==
    ASSUME NEW req \in Requests
    PROVE  \E n \in Nat : ParseUrl(req) = FrameOf(req, n) /\ (Short(req) => n >= 9)
<1>1. PICK e \in {9, 13} : TextIs(req, Text(req), e)
    BY TextOf
<1>2. PICK n \in 0..e : /\ IsSlice(Copied(req, Before(Text(req), "Host:")), Text(req), 1, n)
                        /\ Short(req) => n = e
    BY <1>1, CopiedIs
<1> DEFINE t == Text(req)
           copy == Copied(req, Before(t, "Host:"))
           url == SubSeq(copy, 3, Len(copy))
           query == After(url, "?")
           file == After(query, "=")
           Type == IF copy # <<>> /\ Head(copy) = "POST" THEN "POST" ELSE "GET"
           pSelect == IF "?" \in Range(url) THEN Field(Before(url, "?")) ELSE <<>>
           pCommand == IF "=" \in Range(query) THEN Field(Before(query, "=")) ELSE <<>>
           pFilename == IF "=" \in Range(query) THEN Field(FilenameIn(file)) ELSE <<>>
<1>3. ParseUrl(req) = [Type |-> Type, pSelect |-> pSelect, pCommand |-> pCommand,
                       pFilename |-> pFilename]
    <2>1. ParseUrl(req) = [NoFrame EXCEPT !.Type = Type, !.pSelect = pSelect,
                                          !.pCommand = pCommand, !.pFilename = pFilename]
        BY Zenon DEF ParseUrl
    <2> HIDE DEF Type, pSelect, pCommand, pFilename
    <2> QED BY <2>1 DEF NoFrame
<1> HIDE DEF t
<1>4. IsSlice(copy, t, 1, n) /\ n \in Nat
    BY <1>2 DEF t
<1>5. TextIs(req, t, e)
    BY <1>1 DEF t
<1> HIDE DEF copy
<1>6. copy \in Seq(Range(t)) /\ Len(copy) = n
    BY <1>4 DEF IsSlice
<1>7. IsSlice(url, t, 3, n)
    <2>1. 1 \in Nat /\ 3 \in Nat /\ 1 <= 3 /\ n <= n /\ 3 \in Int /\ n \in Int
          /\ 3 = 3 - 1 + 1 /\ n = n - 1 + 1
        BY <1>4
    <2>2. IsSlice(SubSeq(copy, 3, n), t, 3, n)
        BY <1>4, <2>1, SliceOf
    <2> QED BY <1>6, <2>2
<1> HIDE DEF url
<1>8. Type = IF n >= 1 THEN req.type ELSE "GET"
    <2>1. CASE n >= 1
        <3>1. copy # <<>> /\ Head(copy) = copy[1] /\ copy[1] = t[1]
            BY <1>4, <1>6, <2>1 DEF IsSlice
        <3> QED BY <1>5, <2>1, <3>1, RequestsAssumption DEF TextIs
    <2>2. CASE n = 0
        BY <1>6, <2>2
    <2> QED BY <1>4, <2>1, <2>2
<1>9. t[3] # "?" /\ t[7] # "&" /\ t[7] # "HTTP"
    <2>1. {req.select, req.filename} \cap {"?", "=", "&", "HTTP", "Host:"} = {}
        BY RequestsAssumption
    <2>2. req.select # "?" /\ req.filename # "&" /\ req.filename # "HTTP"
        BY <2>1
    <2> QED BY <1>5, <2>2 DEF TextIs
<1>10. 3 \in Nat /\ 5 \in Nat /\ 7 \in Nat
    OBVIOUS
<1>11. CASE n < 4
    <2>1. \A j \in 3..n : t[j] # "?"
        BY <1>11, <1>9
    <2>2. "?" \notin Range(url) /\ query = <<>>
        BY <1>4, <1>7, <2>1, NotCut
    <2>3. "=" \notin Range(query)
        BY <2>2 DEF Range
    <2> HIDE DEF query
    <2>4. pSelect = <<>> /\ pCommand = <<>> /\ pFilename = <<>>
        BY <2>2, <2>3
    <2> HIDE DEF Type, pSelect, pCommand, pFilename
    <2>5. ParseUrl(req) = FrameOf(req, n)
        BY <1>3, <1>8, <1>11, <2>4 DEF FrameOf
    <2> QED BY <1>2, <1>11, <2>5
<1>12. CASE n >= 4
    <2>1. "?" \in Range(url) /\ IsSlice(Before(url, "?"), t, 3, 3) /\ IsSlice(query, t, 5, n)
        <3>1. 3 \in Nat /\ 3 > 0 /\ 4 \in 3..n /\ 4 - 1 = 3 /\ 4 + 1 = 5
            BY <1>4, <1>12
        <3>2. t[4] = "?" /\ \A j \in 3..4 - 1 : t[j] # "?"
            BY <1>5, <1>9 DEF TextIs
        <3> DEFINE k == 4
        <3> HIDE DEF k
        <3>3. "?" \in Range(url) /\ IsSlice(Before(url, "?"), t, 3, k - 1)
              /\ IsSlice(After(url, "?"), t, k + 1, n)
            BY <1>4, <1>7, <3>1, <3>2, CutAt DEF k
        <3> QED BY <3>1, <3>3 DEF k
    <2> HIDE DEF query
    <2>2. pSelect = Field(<<req.select>>)
        <3>1. Before(url, "?") = <<t[3]>>
            BY <2>1, OneWord
        <3> QED BY <1>5, <2>1, <3>1 DEF TextIs
    <2>3. CASE n < 6
        <3>1. \A j \in 5..n : t[j] # "="
            BY <1>5, <2>3 DEF TextIs
        <3>2. "=" \notin Range(query) /\ After(query, "=") = <<>>
            BY <1>4, <1>10, <2>1, <3>1, NotCut
        <3>3. pCommand = <<>> /\ pFilename = <<>>
            BY <3>2
        <3> HIDE DEF Type, pSelect, pCommand, pFilename
        <3>4. ParseUrl(req) = FrameOf(req, n)
            BY <1>3, <1>4, <1>8, <1>12, <2>2, <2>3, <3>3 DEF FrameOf
        <3> QED BY <1>2, <2>3, <3>4
    <2>4. CASE n >= 6
        <3>1. "=" \in Range(query) /\ IsSlice(Before(query, "="), t, 5, 5)
              /\ IsSlice(file, t, 7, n)
            <4>1. 5 \in Nat /\ 5 > 0 /\ 6 \in 5..n /\ 6 - 1 = 5 /\ 6 + 1 = 7
                BY <1>4, <2>4
            <4>2. t[6] = "=" /\ \A j \in 5..6 - 1 : t[j] # "="
                BY <1>5 DEF TextIs
            <4> DEFINE k == 6
            <4> HIDE DEF k
            <4>3. "=" \in Range(query) /\ IsSlice(Before(query, "="), t, 5, k - 1)
                  /\ IsSlice(After(query, "="), t, k + 1, n)
                BY <1>4, <2>1, <4>1, <4>2, CutAt DEF k
            <4> QED BY <4>1, <4>3 DEF k
        <3> HIDE DEF file
        <3>2. pCommand = Field(<<"command">>)
            <4>1. Before(query, "=") = <<t[5]>>
                BY <3>1, OneWord
            <4> QED BY <1>5, <3>1, <4>1 DEF TextIs
        <3>3. FilenameIn(file) = IF n >= 8 THEN <<req.filename>> ELSE <<>>
            <4>1. CASE n < 8
                <5>1. \A j \in 7..n : t[j] # "&" /\ t[j] # "HTTP"
                    BY <1>9, <4>1
                <5>2. "&" \notin Range(file) /\ After(file, "&") = <<>>
                    BY <1>4, <1>10, <3>1, <5>1, NotCut
                <5>3. "HTTP" \notin Range(file) /\ After(file, "HTTP") = <<>>
                    BY <1>4, <1>10, <3>1, <5>1, NotCut
                <5> QED BY <4>1, <5>2, <5>3 DEF FilenameIn
            <4>2. CASE n >= 8
                <5>1. 7 \in Nat /\ 7 > 0 /\ 8 \in 7..n /\ 8 - 1 = 7
                    BY <1>4, <4>2
                <5> DEFINE k == 8
                <5> HIDE DEF k
                <5>3. \A j \in 7..8 - 1 : t[j] # "&" /\ t[j] # "HTTP"
                    BY <1>9
                <5>4. CASE t[8] = "&"
                    <6>1. "&" \in Range(file) /\ IsSlice(Before(file, "&"), t, 7, k - 1)
                        BY <1>4, <3>1, <5>1, <5>3, <5>4, CutAt DEF k
                    <6>2. Before(file, "&") = <<t[7]>>
                        BY <5>1, <6>1, OneWord DEF k
                    <6> QED BY <1>5, <4>2, <6>1, <6>2 DEF FilenameIn, TextIs
                <5>5. CASE t[8] # "&"
                    <6>1. t[8] = "HTTP" /\ e = 9 /\ t[9] = "headers"
                        BY <1>5, <5>5 DEF TextIs
                    <6>2. \A j \in 7..n : j \in {7, 8, 9}
                        BY <6>1
                    <6>3. \A j \in 7..n : t[j] # "&"
                        BY <1>9, <6>1, <6>2
                    <6>4. "&" \notin Range(file) /\ After(file, "&") = <<>>
                        BY <1>4, <1>10, <3>1, <6>3, NotCut
                    <6>5. "HTTP" \in Range(file) /\ IsSlice(Before(file, "HTTP"), t, 7, k - 1)
                        BY <1>4, <3>1, <5>1, <5>3, <6>1, CutAt DEF k
                    <6>6. Before(file, "HTTP") = <<t[7]>>
                        BY <5>1, <6>5, OneWord DEF k
                    <6> QED BY <1>5, <4>2, <6>4, <6>5, <6>6 DEF FilenameIn, TextIs
                <5> QED BY <5>4, <5>5
            <4> QED BY <1>4, <4>1, <4>2
        <3>4. pFilename = IF n >= 8 THEN Field(<<req.filename>>) ELSE <<>>
            <4>1. pFilename = Field(FilenameIn(file)) /\ Field(<<>>) = <<>>
                BY <3>1, FieldIs
            <4> QED BY <3>3, <4>1
        <3> HIDE DEF Type, pSelect, pCommand, pFilename
        <3>5. ParseUrl(req) = FrameOf(req, n)
            BY <1>3, <1>4, <1>8, <1>12, <2>2, <2>4, <3>2, <3>4 DEF FrameOf
        <3> QED BY <1>2, <1>4, <3>5
    <2> QED BY <1>4, <2>3, <2>4
<1> QED BY <1>4, <1>11, <1>12

\* data_send sends one text.
LEMMA OneText == \A text : Len(Ok(text)) = 1
BY DEF Ok

\* What a GET is sent but that of client?command=info or of upgrade: one answer
LEMMA AnsweredFrame ==
    ASSUME NEW frame, frame.pSelect # <<"upgrade">>,
           ~(frame.pSelect = <<"client">> /\ frame.pFilename = <<"info">>),
           NEW name, frame.pFilename = <<>> \/ frame.pFilename = <<name>>
    PROVE  Len(OfGet(frame)) = 1
<1> DEFINE file == IF frame.pFilename = <<>> THEN "" ELSE Head(frame.pFilename)
<1>1. frame.pFilename # <<>> => frame.pFilename = <<file>>
    <2>1. frame.pFilename = <<name>> => Head(frame.pFilename) = name
        OBVIOUS
    <2> QED BY <2>1, Zenon
<1>2. frame.pFilename = <<>> => file # "info"
    BY Zenon
<1>3. Len(BadRequest) = 1
    BY DEF BadRequest
<1>4. \A text : Len(JsonSend(text)) = 1
    BY OneText DEF JsonSend
<1>5. OfGet(frame) =
        IF frame.pCommand # <<"command">> THEN BadRequest
        ELSE CASE frame.pSelect = <<"client">> -> OfClient(file)
               [] frame.pSelect = <<"config">> -> (CASE file = "wifi" -> JsonSend("WIFI")
                                                     [] file = "reboot" -> JsonSend("REBOOT")
                                                     [] OTHER -> BadRequest)
               [] frame.pSelect = <<"upgrade">> ->
                      IF file = "getuser" THEN JsonSend("USER_BIN") ELSE <<>>
               [] OTHER -> BadRequest
    BY Zenon DEF OfGet
<1> HIDE DEF file
<1>6. CASE frame.pSelect = <<"client">>
    <2>1. file # "info"
        BY <1>1, <1>2, <1>6
    <2>2. \A a : <<>> \o <<a>> = <<a>>
        OBVIOUS
    <2>3. OfClient(file) = IF file = "status" THEN JsonSend("CONNECT_STATUS") ELSE BadRequest
        <3>1. OfClient(file) = <<>> \o (IF file = "status" THEN JsonSend("CONNECT_STATUS")
                                                           ELSE BadRequest)
            BY <2>1 DEF OfClient
        <3>2. JsonSend("CONNECT_STATUS") = <<"CONNECT_STATUS">> \/ JsonSend("CONNECT_STATUS") = <<"200">>
            BY Zenon DEF JsonSend, Ok
        <3> QED BY <2>2, <3>1, <3>2 DEF BadRequest
    <2>4. OfGet(frame) \in {BadRequest, OfClient(file)}
        BY <1>5, <1>6
    <2> QED BY <1>3, <1>4, <2>3, <2>4
<1>7. CASE frame.pSelect # <<"client">>
    <2>1. OfGet(frame) \in {BadRequest, JsonSend("WIFI"), JsonSend("REBOOT")}
        BY <1>5, <1>7
    <2> QED BY <1>3, <1>4, <2>1
<1> QED BY <1>6, <1>7

\* The invariant: nothing is sent to a client whose scan has not ended.
RequestsInv == UrlRoundTrip /\ AnsweredOnce /\ (scanStarted => answers = <<>>)

\* A request is met with an answer, or with a scan.
LEMMA RequestStep ==
    ASSUME NEW req \in Requests, RecvRequest(req)
    PROVE  RequestsInv'
<1>1. PICK n \in Nat : ParseUrl(req) = FrameOf(req, n) /\ (Short(req) => n >= 9)
    BY ParsedIs
<1> DEFINE frame == FrameOf(req, n)
<1>2. /\ sent' = req /\ urlFrame' = frame /\ scanStarted' = (IsScan(frame) /\ ~req.page)
      /\ IsScan(frame) /\ req.page /\ ~Overruns(req) =>
             answers' = JsonSend("SCAN") \/ answers' = BadRequest
      /\ IsScan(frame) /\ ~req.page => answers' = <<>>
      /\ ~IsScan(frame) /\ ~Overruns(req) =>
             answers' = IF frame.Type = "GET" THEN OfGet(frame) ELSE OfPost(frame)
    BY <1>1 DEF RecvRequest
<1>3. n >= 9 /\ Fits(req) =>
          frame = [Type |-> req.type, pSelect |-> <<req.select>>, pCommand |-> <<"command">>,
                   pFilename |-> <<req.filename>>]
    <2>1. Fits(req) => /\ Field(<<req.select>>) = <<req.select>>
                       /\ Field(<<"command">>) = <<"command">>
                       /\ Field(<<req.filename>>) = <<req.filename>>
        BY FieldIs DEF Fits
    <2> QED BY <2>1 DEF FrameOf
<1>4. UrlRoundTrip'
    BY <1>1, <1>2, <1>3 DEF UrlRoundTrip
<1>5. /\ frame.Type = "GET" => req.type = "GET" \/ frame.pSelect = <<>>
      /\ frame.pSelect \in {<<>>, <<req.select>>, <<"overlong">>}
      /\ frame.pFilename \in {<<>>, <<req.filename>>, <<"overlong">>}
    BY FieldIs DEF FrameOf
<1> HIDE DEF frame
<1>6. ASSUME ~ \/ Overruns(req)
               \/ req.select = "client" /\ req.filename = "info"
               \/ req.select = "upgrade" /\ req.type = "GET"
      PROVE  Len(answers') = IF scanStarted' THEN 0 ELSE 1
    <2>1. Len(BadRequest) = 1 /\ Len(JsonSend("SCAN")) = 1 /\ Len(Ok("")) = 1
        BY Zenon, OneText DEF BadRequest, JsonSend
    <2>2. CASE IsScan(frame)
        BY <1>2, <1>6, <2>1, <2>2
    <2>3. CASE ~IsScan(frame)
        <3>1. CASE frame.Type = "GET"
            <4>1. /\ frame.pSelect # <<"upgrade">>
                  /\ ~(frame.pSelect = <<"client">> /\ frame.pFilename = <<"info">>)
                BY <1>5, <1>6, <3>1
            <4>2. Len(OfGet(frame)) = 1
                BY <1>5, <4>1, AnsweredFrame
            <4> QED BY <1>2, <1>6, <2>3, <3>1, <4>2
        <3>2. CASE frame.Type # "GET"
            <4>1. OfPost(frame) = Ok("") \/ OfPost(frame) = BadRequest
                BY Zenon DEF OfPost
            <4>2. answers' = OfPost(frame) /\ ~scanStarted'
                BY <1>2, <1>6, <2>3, <3>2
            <4>3. Len(OfPost(frame)) = 1
                BY Zenon, <2>1, <4>1
            <4> QED BY <4>2, <4>3
        <3> QED BY <3>1, <3>2
    <2> QED BY <2>2, <2>3
<1>7. AnsweredOnce'
    BY <1>2, <1>6, Zenon DEF AnsweredOnce
<1>8. scanStarted' => answers' = <<>>
    BY <1>2
<1> QED BY <1>4, <1>7, <1>8 DEF RequestsInv

\* Every request whose headers end within 255 characters, and whose parts fit in
\* URL_Frame, is understood, and every one that does not overrun it, but the two
\* kinds named, has one answer, whatever the words it is made of.
THEOREM MeetsRequests == WebRequestSpec => []RequestsMet
<1>1. WebRequestInit => RequestsInv
    <2>1. NoRequest \notin Requests /\ Len(BadRequest) = 1
        BY RequestsAssumption DEF BadRequest
    <2> QED BY <2>1, Zenon DEF WebRequestInit, RequestsInv, UrlRoundTrip, AnsweredOnce
<1>2. RequestsInv /\ [WebRequestNext]_webVars => RequestsInv'
    <2> SUFFICES ASSUME RequestsInv, [WebRequestNext]_webVars PROVE RequestsInv'
        OBVIOUS
    <2>1. ASSUME NEW req \in Requests, RecvRequest(req) PROVE RequestsInv'
        BY <2>1, RequestStep
    <2>2. ASSUME ScanAnswer PROVE RequestsInv'
        <3>1. answers' = Append(<<>>, "total") /\ ~scanStarted' /\ UNCHANGED <<sent, urlFrame>>
            BY <2>2 DEF ScanAnswer, RequestsInv
        <3>2. Len(answers') = 1
            BY <3>1
        <3> QED BY <3>1, <3>2 DEF RequestsInv, UrlRoundTrip, AnsweredOnce
    <2>3. ASSUME NEW pairs \in Forms, RecvForm(pairs) PROVE RequestsInv'
        <3>1. sent' \notin Requests /\ Len(answers') = 1 /\ ~scanStarted'
            BY <2>3, RequestsAssumption DEF RecvForm, BadRequest
        <3> QED BY <3>1, Zenon DEF RequestsInv, UrlRoundTrip, AnsweredOnce
    <2>4. ASSUME NEW n \in 1..Len(Nets), SendPageOf(n) PROVE RequestsInv'
        BY <2>4 DEF SendPageOf, RequestsInv, UrlRoundTrip, AnsweredOnce
    <2>5. ASSUME UNCHANGED webVars PROVE RequestsInv'
        BY <2>5 DEF webVars, RequestsInv, UrlRoundTrip, AnsweredOnce
    <2> QED BY <2>1, <2>2, <2>3, <2>4, <2>5 DEF WebRequestNext
<1>3. RequestsInv => RequestsMet
    BY DEF RequestsInv, RequestsMet
<1> QED BY <1>1, <1>2, <1>3, PTL DEF WebRequestSpec

-----------------------------------------------------------------------------
(* The parts together                                                      *)

messageVars == <<part, webVars, configVars, scanVars, timerVars, findVars>>

\* A step is one of the part that runs, and the others stay.
LEMMA MessageStep ==
    [MessagesNext]_messageVars => /\ [WebRequestNext]_webVars
                                  /\ [ConfigNext]_configVars /\ [ScanNext]_scanVars
                                  /\ [TimerNext]_timerVars /\ [FindNext]_findVars
BY DEF MessagesNext, messageVars

\* The parts together are each part as it was specified alone: so MCMessages is made.
LEMMA PartsAlone ==
    MessagesSpec => WebRequestSpec /\ ConfigSpec /\ ScanSpec /\ TimerSpec /\ FindSpec
<1>1. MessagesInit => WebRequestInit /\ ConfigInit /\ ScanInit /\ TimerInit /\ FindInit
    BY DEF MessagesInit
<1> QED
    BY <1>1, MessageStep, PTL
       DEF MessagesSpec, messageVars, WebRequestSpec, ConfigSpec, ScanSpec, TimerSpec, FindSpec

\* Whatever messages come, restart_10ms and rst_parm, the counts of the scan and
\* device_timer's waits stay what the code declares them to be.
THEOREM MessagesTypeCorrect == MessagesSpec => []MessagesTypeOK
<1>1. ConfigTypeOK /\ ScanTypeOK /\ TimerTypeOK => MessagesTypeOK
    BY DEF MessagesTypeOK
<1> QED BY <1>1, PartsAlone, ConfigTypeCorrect, ScanTypeCorrect, TimerTypeCorrect, PTL

\* What the parts promise, they promise together: the fields and networks of a text
\* kept apart, nothing left of a request, the list of networks read inside and sent
\* whole, and the address found.
THEOREM MessagesSafe ==
    MessagesSpec => [](/\ RequestsMet /\ JsonKept /\ NothingLeft
                       /\ StaysInList /\ AllSent /\ FoundRightly)
BY PartsAlone, MeetsRequests, NothingMixed, KeepsNothing, InsideTheList, EveryNetwork, FindsRightly, PTL

\* So for the steps: the network that is joined, and the timer that acts.
THEOREM MessagesAct == MessagesSpec => JoinsPosted /\ ActsOnTime
BY PartsAlone, JoinsOnlyPosted, TimersOnTime, PTL
=============================================================================
