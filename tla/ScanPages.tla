----------------------------- MODULE ScanPages -----------------------------
(***************************************************************************)
(* How the web server lists the networks around: the scan commands of      *)
(* webserver_recv, json_send(SCAN), scan_get and json_scan_cb,             *)
(* app/user/user_webserver.c.  A client asks for a scan, is told how many  *)
(* pages there are, and asks for them.  A network is taken off the SDK's   *)
(* list when it is sent.                                                   *)
(***************************************************************************)
EXTENDS Integers

CONSTANTS PageSize,  \* 8 networks
          MaxNets,   \* bound: networks that a scan finds
          MaxPage,   \* bound: the last page that is asked for; one digit
          NoInfo

Page == 0..MaxPage

Info == [pbss : 0..MaxNets \cup {NoInfo},
         totalpage : 0..(MaxNets + PageSize - 1) \div PageSize,
         pagenum : Page, page_sn : Page, data_cnt : 0..MaxNets]

ASSUME ScanAssumption == /\ PageSize \in Nat \ {0}
                         /\ MaxNets \in Nat /\ MaxNets + PageSize < 256
                         /\ MaxPage \in Nat
                         /\ NoInfo \notin Int /\ NoInfo \notin Info

VARIABLES
    pscaninfo,  \* NULL, which is NoInfo here, or the structure; its pbss is NULL or
                \* the networks left
    scannum,    \* the SDK's count of the last scan
    scanning,   \* json_scan_cb is to come
    crashed,    \* a NULL pointer was read
    asked,      \* history: the pages asked for since the scan
    again,      \* history: whether one was asked for twice
    early,      \* history: whether one was asked for while the last scan was under way
    failed      \* history: whether the last scan that ended has failed

scanVars == <<pscaninfo, scannum, scanning, crashed, asked, again, early, failed>>

ScanTypeOK ==
    /\ pscaninfo \in Info \cup {NoInfo}
    /\ scannum \in 0..MaxNets
    /\ scanning \in BOOLEAN
    /\ crashed \in BOOLEAN
    /\ asked \subseteq Page
    /\ again \in BOOLEAN
    /\ early \in BOOLEAN
    /\ failed \in BOOLEAN

ScanInit ==
    /\ pscaninfo = NoInfo
    /\ scannum = 0
    /\ scanning = FALSE
    /\ crashed = FALSE
    /\ asked = {} /\ again = FALSE /\ early = FALSE /\ failed = FALSE

-----------------------------------------------------------------------------
(* GET client?command=scan *)

\* Mutant: the count of what was sent goes on.
StartedKeepsCount(info) == [info EXCEPT !.pagenum = 0, !.page_sn = 0]

Started(info) == [info EXCEPT !.pagenum = 0, !.page_sn = 0, !.data_cnt = 0]

\* wifi_station_scan refuses a second scan, and its callback answers both.
Scan ==
    /\ ~crashed
    /\ pscaninfo' =
          Started(IF pscaninfo = NoInfo
                  THEN [pbss |-> NoInfo, totalpage |-> 0, pagenum |-> 0,
                        page_sn |-> 0, data_cnt |-> 0]
                  ELSE pscaninfo)
    /\ scanning' = TRUE
    /\ early' = FALSE
    /\ UNCHANGED <<scannum, crashed, asked, again, failed>>

\* Mutant: a page more than full ones, even if there is nothing on it.
TotalPageOneMore(n) == n \div PageSize + 1

TotalPage(n) == IF n % PageSize = 0 THEN n \div PageSize ELSE n \div PageSize + 1

\* json_scan_cb, of a list or of NULL.  It does not look at the status.
ScanCb(list, n) ==
    /\ ~crashed /\ scanning
    /\ scanning' = FALSE
    /\ scannum' = n
    /\ IF pscaninfo = NoInfo
       THEN crashed' = TRUE /\ UNCHANGED pscaninfo
       ELSE /\ pscaninfo' = [pscaninfo EXCEPT !.pbss = list, !.totalpage = TotalPage(n)]
            /\ UNCHANGED crashed
    /\ UNCHANGED early
    /\ asked' = {} /\ again' = FALSE

ScanDone(n) == ScanCb(n, n) /\ failed' = FALSE

\* The SDK's count is that of the scan before, or none.
ScanFails == (\E n \in {0, scannum} : ScanCb(NoInfo, n)) /\ failed' = TRUE

-----------------------------------------------------------------------------
(* GET client?command=scan&page=p *)

\* scancount, a u8
OnPage(p) == (scannum - (p - 1) * PageSize) % 256

\* Mutant: what was sent before does not count.
TooManyAlone(count) == count > scannum

TooMany(count) == pscaninfo.data_cnt + count > scannum

\* scan_get takes each network of the page off the list; there has to be one.
Send(p, count) ==
    IF count > pscaninfo.pbss
    THEN crashed' = TRUE /\ UNCHANGED pscaninfo
    ELSE /\ pscaninfo' = [pscaninfo EXCEPT !.pbss = pscaninfo.pbss - count,
                                           !.data_cnt = pscaninfo.data_cnt + count,
                                           !.pagenum = p, !.page_sn = p]
         /\ UNCHANGED crashed

\* json_send(SCAN)
SendPage(p) ==
    IF pscaninfo.pbss = 0
    THEN pscaninfo' = NoInfo /\ UNCHANGED crashed
    ELSE IF pscaninfo.page_sn = p
    THEN /\ pscaninfo' = [pscaninfo EXCEPT !.pagenum = p, !.page_sn = 0]
         /\ UNCHANGED crashed
    ELSE LET count == IF OnPage(p) >= PageSize THEN PageSize ELSE OnPage(p)
         IN  IF TooMany(count)
             THEN /\ pscaninfo' = [pscaninfo EXCEPT !.pagenum = p, !.page_sn = p]
                  /\ UNCHANGED crashed
             ELSE Send(p, count)

GetPage(p) ==
    /\ ~crashed
    /\ IF pscaninfo = NoInfo
       THEN UNCHANGED <<pscaninfo, crashed>>
       ELSE IF p = 0 \/ p > pscaninfo.totalpage
       THEN pscaninfo' = [pscaninfo EXCEPT !.pagenum = p] /\ UNCHANGED crashed
       ELSE IF pscaninfo.pbss = NoInfo
       THEN crashed' = TRUE /\ UNCHANGED pscaninfo
       ELSE SendPage(p)
    /\ asked' = asked \cup {p}
    /\ again' = (again \/ p \in asked)
    /\ early' = (early \/ scanning)
    /\ UNCHANGED <<scannum, scanning, failed>>

ScanBoot ==
    /\ pscaninfo' = NoInfo /\ scannum' = 0 /\ scanning' = FALSE
    /\ crashed' = FALSE /\ asked' = {} /\ again' = FALSE /\ early' = FALSE /\ failed' = FALSE

ScanNext ==
    \/ Scan
    \/ \E n \in 0..MaxNets : ScanDone(n)
    \/ ScanFails
    \/ \E p \in Page : GetPage(p)
    \/ ScanBoot

ScanSpec == ScanInit /\ [][ScanNext]_scanVars

-----------------------------------------------------------------------------
(* Properties *)

\* Whichever pages are asked for in whichever order, again and again, the list
\* is never read beyond its end, nor before there is one - unless a page is asked
\* for while a scan is under way, which may free the structure that json_scan_cb
\* writes to, or the last scan failed, of which json_scan_cb takes the NULL for a
\* list and the count of the one before for its pages.
StaysInList == crashed => early \/ failed

\* A client that asks for every page, each once and in any order, is sent all the
\* networks of the scan - if it did not fail and none was asked for meanwhile.
AllSent ==
    LET pages == 1..pscaninfo.totalpage
    IN  pscaninfo # NoInfo /\ ~scanning /\ pages # {} /\ pages = asked /\ ~again /\ ~early /\ ~failed
        => pscaninfo.pbss = 0
=============================================================================
