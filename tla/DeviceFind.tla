----------------------------- MODULE DeviceFind -----------------------------
(***************************************************************************)
(* How the device is found: user_devicefind_recv and user_devicefind_init, *)
(* app/user/user_devicefind.c.  A request by UDP, to all or to the device  *)
(* with one MAC, is answered with the MAC and the address of one of the    *)
(* device's two interfaces.                                                *)
(*                                                                         *)
(* An address is its net and the host on it.  The interfaces' nets differ. *)
(***************************************************************************)
EXTENDS Integers

CONSTANTS Net,      \* bound: the nets, of which the interfaces have one each
          NoNet     \* an interface's without an address

Interface == {"STATION_IF", "SOFTAP_IF"}

ASSUME FindAssumption == NoNet \notin Net

VARIABLES
    opmode,    \* wifi_get_opmode()
    ipconfig,  \* interface -> its net
    probe,     \* the last request: who sent it and the MAC it names, that of an
               \* interface, another device's, or "all"
    found,     \* what it was answered: the MAC and the address
    lost       \* the stack is overwritten

findVars == <<opmode, ipconfig, probe, found, lost>>

NoAnswer == [mac |-> "none", net |-> NoNet]

NoProbe == [net |-> NoNet, mac |-> "none"]

\* The interfaces that are up; the two have not the same net.
Up == (IF opmode = "SOFTAP_MODE" THEN {} ELSE {"STATION_IF"})
      \cup (IF opmode = "STATION_MODE" THEN {} ELSE {"SOFTAP_IF"})

FindInit ==
    /\ opmode = "STATION_MODE"
    /\ ipconfig = [i \in Interface |-> NoNet]
    /\ probe = NoProbe /\ found = NoAnswer
    /\ lost = FALSE

\* The mode is changed, and addresses come and go.  The SDK gives a soft access
\* point an address; a station may have none.  An interface that is not up may keep
\* what it had.
NetChange ==
    /\ opmode' \in {"STATION_MODE", "SOFTAP_MODE", "STATIONAP_MODE"}
    /\ ipconfig' \in [Interface -> Net \cup {NoNet}]
    /\ ipconfig'["STATION_IF"] = ipconfig'["SOFTAP_IF"] => ipconfig'["STATION_IF"] = NoNet
    /\ opmode' # "STATION_MODE" => ipconfig'["SOFTAP_IF"] # NoNet
    /\ probe' = NoProbe /\ found' = NoAnswer
    /\ UNCHANGED lost

-----------------------------------------------------------------------------
(* user_devicefind_recv *)

\* Mutant: the mode decides.
ChosenByMode(net) == IF opmode # "STATION_MODE" THEN "SOFTAP_IF" ELSE "STATION_IF"

\* The interface that answers a request from a net.  ip_addr_netcmp takes no address,
\* with no mask, for one on every net.
Chosen(net) ==
    IF opmode # "STATION_MODE" /\ ipconfig["SOFTAP_IF"] \in {net, NoNet}
    THEN "SOFTAP_IF" ELSE "STATION_IF"

\* Mutant: a request with a MAC is for the device.
MeantAny(mac, i) == TRUE

\* Whether a request is for the device: its length and its text
Meant(mac, i) == mac = "all" \/ mac = i

\* A request comes through an interface that is up and on the sender's net.  The
\* answer is longer than DeviceBuffer: what lies behind it may be spared or not.
Receive(net, mac) ==
    /\ ~lost
    /\ \E i \in Up : ipconfig[i] = net
    /\ probe' = [net |-> net, mac |-> mac]
    /\ LET i == Chosen(net)
       IN  IF Meant(mac, i)
           THEN /\ found' = [mac |-> i, net |-> ipconfig[i]]
                /\ lost' \in BOOLEAN
           ELSE found' = NoAnswer /\ UNCHANGED lost
    /\ UNCHANGED <<opmode, ipconfig>>

FindBoot ==
    /\ opmode' = "STATION_MODE"
    /\ ipconfig' = [i \in Interface |-> NoNet]
    /\ probe' = NoProbe /\ found' = NoAnswer
    /\ lost' = FALSE

FindNext == \/ NetChange
            \/ \E net \in Net, mac \in Interface \cup {"all", "another"} : Receive(net, mac)
            \/ FindBoot

FindSpec == FindInit /\ [][FindNext]_findVars

-----------------------------------------------------------------------------
(* Properties *)

\* Whoever asks for all, in whichever mode, is told an address on his own net, and
\* the MAC that is on it: he can connect to it.
FoundOnOwnNet ==
    probe.mac = "all" => /\ found.net = probe.net
                         /\ found.mac \in Up /\ ipconfig[found.mac] = probe.net

\* Who names a MAC is answered by its owner, and by nobody else.
AnswersItsMac ==
    probe.mac \in Interface \cup {"another"} /\ found # NoAnswer => found.mac = probe.mac

\* user_devicefind_recv answers for the interface that was asked for.
FoundRightly == FoundOnOwnNet /\ AnswersItsMac
=============================================================================
