----------------------------- MODULE WebServer -----------------------------
(***************************************************************************)
(* The two ways through webserver_recv, app/user/user_webserver.c:         *)
(* HttpReceive while upgrade_lock is not set, LocalUpgrade while it is.    *)
(* The lock is set by a request that save_data has put together, and       *)
(* clients that were in the middle of one go on sending.  When the lock is *)
(* released, by the last unit or by the time limit, what is still to come  *)
(* of an upload goes to save_data.                                         *)
(*                                                                         *)
(* The body of an upload is counted in left, as that of any POST.          *)
(***************************************************************************)
EXTENDS HttpReceive, LocalUpgrade

ASSUME ServerAssumption == MaxSize <= MaxBody

VARIABLE uploader   \* whose upload file is about

serverVars == <<vars, upgradeVars, uploader>>

ServerInit == Init /\ UpgradeInit /\ uploader = NoClient

NoFragment == [from |-> NoClient, ends |-> FALSE, served |-> NoBuffer]

-----------------------------------------------------------------------------
(* webserver_recv, when upgrade_lock is not set *)

\* Any request but the one that starts an upgrade
Request == /\ ~upgrade_lock
           /\ Next
           /\ UNCHANGED <<upgradeVars, uploader>>

\* Mutant: the command is obeyed when it is read, not when the request is whole.
PostStartAtHead ==
    /\ \E c \in Client, sum, n \in 0..MaxBody : PostHead(c, sum, n)
    /\ Start
    /\ uploader' = NoClient

\* POST upgrade?command=start, whose last fragment this is.
PostStart ==
    /\ trust # "overrun"
    /\ \E c \in Client : \/ \E sum, n \in 0..MaxBody : PostHead(c, sum, n)
                         \/ \E n \in 1..MaxBody : PostBody(c, n)
    /\ last'.served # NoBuffer
    /\ Start
    /\ uploader' = NoClient

-----------------------------------------------------------------------------
(* webserver_recv, when it is: save_data is not called, and what the       *)
(* buffer holds is freed.                                                  *)

\* As in HttpReceive trust is lost when fragments of two clients cross; and when the
\* lock is released and the rest of a request is still to come.
PassedBy(c, rest, more) ==
    /\ trust # "overrun"
    /\ precvbuffer' = NoBuffer
    /\ left' = [left EXCEPT ![c] = rest]
    /\ split' = IF more THEN split \cup {c} ELSE split \ {c}
    /\ last' = NoFragment
    /\ IF /\ \A d \in Client \ {c} : Ready(d)
          /\ upgrade_lock' \/ (rest = 0 /\ ~more)
       THEN UNCHANGED trust
       ELSE Untrusted
    /\ UNCHANGED <<totallength, dat_sumlength>>

UploadHead(c, size, n) ==
    /\ Ready(c)
    /\ FileHead(size, n)
    /\ PassedBy(c, size - n, FALSE)
    /\ uploader' = c

\* The rest of the head of an upload
UploadHeadRest(c, size, n) ==
    /\ c \in split
    /\ FileHeadRest(size, n)
    /\ PassedBy(c, size - n, FALSE)
    /\ uploader' = c

UploadBody(c, n) ==
    /\ c = uploader /\ n <= left[c]
    /\ FileBody(n)
    /\ PassedBy(c, left[c] - n, FALSE)
    /\ UNCHANGED uploader

\* A head without a body, the rest of one, or a part of any head
OtherHead(c, n, more) ==
    /\ left[c] = 0
    /\ c \notin split /\ ~more => n = Head
    /\ Other(n)
    /\ PassedBy(c, 0, more)
    /\ UNCHANGED uploader

\* The rest of a request, or of an upload that gave way to another
OtherBody(c, n) == /\ c # uploader /\ n <= left[c]
                   /\ Other(n)
                   /\ PassedBy(c, left[c] - n, FALSE)
                   /\ UNCHANGED uploader

GiveUp(c) == /\ upgrade_lock
             /\ ~Ready(c)
             /\ left' = [left EXCEPT ![c] = 0]
             /\ split' = split \ {c}
             /\ last' = NoFragment
             /\ uploader' = IF c = uploader THEN NoClient ELSE uploader
             /\ UNCHANGED <<precvbuffer, totallength, dat_sumlength, trust, upgradeVars>>

-----------------------------------------------------------------------------
(* The timers, and a restart *)

\* The time limit cuts what is not done.
LockTimer ==
    /\ CheckTimer
    /\ IF Idle THEN UNCHANGED trust ELSE Untrusted
    /\ last' = NoFragment
    /\ uploader' = NoClient
    /\ UNCHANGED <<precvbuffer, totallength, dat_sumlength, split, left>>

\* local_upgrade_deinit
CleanUp == DeinitTimer /\ UNCHANGED <<vars, uploader>>

PowerUp ==
    /\ Restart
    /\ precvbuffer' = NoBuffer /\ totallength' = 0 /\ dat_sumlength' = 0
    /\ split' = {} /\ left' = [c \in Client |-> 0]
    /\ last' = NoFragment
    /\ trust' = "clean"
    /\ uploader' = NoClient

ServerNext ==
    \/ Request \/ PostStart
    \/ \E c \in Client :
          \/ \E size \in 1..MaxSize, n \in 0..MaxSize :
                UploadHead(c, size, n) \/ UploadHeadRest(c, size, n)
          \/ \E n \in 1..MaxSize : UploadBody(c, n)
          \/ \E n \in 1..Head, more \in BOOLEAN : OtherHead(c, n, more)
          \/ \E n \in 1..MaxBody : OtherBody(c, n)
          \/ GiveUp(c)
    \/ LockTimer \/ CleanUp \/ PowerUp

\* The timers expire.
ServerFairness == WF_serverVars(LockTimer) /\ WF_serverVars(CleanUp)

ServerSpec == ServerInit /\ [][ServerNext]_serverVars /\ ServerFairness

-----------------------------------------------------------------------------
(* Properties *)

\* While an upgrade is under way nothing of a request is left in the buffer and
\* the counters, whoever was in the middle of one: after it the web server is as
\* it was before, and no byte of an upload is counted to a request.
NothingUnderLock ==
    upgrade_lock => precvbuffer = NoBuffer /\ totallength = 0 /\ dat_sumlength = 0
=============================================================================
