---------------------------- MODULE HttpReceive ----------------------------
(***************************************************************************)
(* How the web server puts requests together: save_data and the head of    *)
(* webserver_recv, app/user/user_webserver.c, while no upgrade is running. *)
(* One buffer and two counters serve every connection; a request arrives   *)
(* in fragments, and what a client abandons stays behind in them.  Heads   *)
(* and bodies are counted in units.                                        *)
(*                                                                         *)
(* Only a fragment with the blank line that ends a head is taken for one.  *)
(* The parts of a head before it are taken for a body.                     *)
(***************************************************************************)
EXTENDS Integers

CONSTANTS Client,   \* those who send requests
          NoClient,
          Room,     \* the longest body that save_data makes room for: with its
                    \* head it has less than 1024 bytes
          MaxBody,  \* bound: the longest body, and the longest part of a head
          MaxTotal  \* bound: body units counted since the counters were reset

ASSUME ReceiveAssumption == /\ Room \in Nat
                            /\ MaxBody \in Nat \ {0}
                            /\ MaxTotal \in Nat /\ MaxTotal >= MaxBody
                            /\ NoClient \notin Client

VARIABLES
    precvbuffer,   \* whose head the buffer holds, whether it holds all that came
                   \* of this request and nothing else, and the body units there
                   \* is room for behind it
    totallength,
    dat_sumlength,
    split,         \* clients that are in the middle of a head
    left,          \* client -> body units of its request still to come
    last,          \* the last fragment: its sender, whether it ends its
                   \* request, and the buffer that was served for it
    trust          \* history: "clean", "lost" since a request was cut, crossed
                   \* another, had its head split or was too long, "reset" by a
                   \* whole GET since then; or "overrun" once something was
                   \* written behind the end of the buffer: what the program
                   \* does then is not modelled

vars == <<precvbuffer, totallength, dat_sumlength, split, left, last, trust>>

Buffer == [of : Client \cup {NoClient}, own : BOOLEAN, room : 0..MaxBody]

NoBuffer == [of |-> NoClient, own |-> TRUE, room |-> 0]

TypeOK ==
    /\ precvbuffer \in Buffer
    /\ totallength \in 0..MaxTotal
    /\ dat_sumlength \in 0..MaxBody
    /\ split \subseteq Client
    /\ left \in [Client -> 0..MaxBody]
    /\ last \in [from : Client \cup {NoClient}, ends : BOOLEAN, served : Buffer]
    /\ trust \in {"clean", "lost", "reset", "overrun"}

Init == /\ precvbuffer = NoBuffer
        /\ totallength = 0 /\ dat_sumlength = 0
        /\ split = {} /\ left = [c \in Client |-> 0]
        /\ last = [from |-> NoClient, ends |-> FALSE, served |-> NoBuffer]
        /\ trust = "clean"

-----------------------------------------------------------------------------
(* save_data: the buffer and the counters after a fragment, and the buffer *)
(* that webserver_recv serves, if any                                      *)

Refused(buffer, total, sum) ==
    [buffer |-> buffer, total |-> total, sum |-> sum, served |-> NoBuffer]

\* A request that is complete is served, and the buffer freed.
Counted(buffer, total, sum) ==
    IF total = sum
    THEN [buffer |-> NoBuffer, total |-> 0, sum |-> 0, served |-> buffer]
    ELSE [buffer |-> buffer, total |-> total, sum |-> sum, served |-> NoBuffer]

\* A buffer for a head, which is whole or the end of one, and a body of sum units of
\* which n are there.  If that is too long there is room only for the head.
Held(c, whole, sum, n) ==
    IF sum <= Room
    THEN [of |-> c, own |-> whole, room |-> sum - n]
    ELSE [of |-> c, own |-> whole /\ n = 0, room |-> 0]

\* Mutant: a head without a length leaves the counters.
SaveHeadAloneNoReset(c, whole, n) ==
    IF totallength + n # 0
    THEN Refused(precvbuffer, totallength + n, dat_sumlength)
    ELSE Counted(Held(c, whole, dat_sumlength, 0), 0, dat_sumlength)

\* A head that gives no length, as that of a GET, with n units behind it
SaveHeadAlone(c, whole, n) ==
    IF totallength + n # 0
    THEN Refused(precvbuffer, 0, 0)
    ELSE Counted(Held(c, whole, dat_sumlength, 0), 0, dat_sumlength)

\* Mutant: what the fragment holds is taken for the whole body.
SaveHeadAsWhole(c, whole, sum, n) == Counted(Held(c, whole, sum, n), totallength + n, n)

\* Mutant: lengths add up.
SaveHeadAddsUp(c, whole, sum, n) ==
    Counted(Held(c, whole, sum, n), totallength + n, dat_sumlength + sum)

\* A head that gives one, with the first n units of the body
SaveHead(c, whole, sum, n) == Counted(Held(c, whole, sum, n), totallength + n, sum)

\* n units of something that is no head go behind what the buffer holds.
Overruns(n) == precvbuffer # NoBuffer /\ n > precvbuffer.room

SaveBody(c, ofBody, n) ==
    IF precvbuffer = NoBuffer
    THEN Refused(precvbuffer, 0, 0)
    ELSE Counted([of |-> precvbuffer.of,
                  own |-> precvbuffer.own /\ precvbuffer.of = c /\ ofBody,
                  room |-> IF Overruns(n) THEN 0 ELSE precvbuffer.room - n],
                 totallength + n, dat_sumlength)

-----------------------------------------------------------------------------
(* webserver_recv, with a fragment of the request of c                     *)

Idle == split = {} /\ \A c \in Client : left[c] = 0

Recv(c, rest, result) ==
    /\ precvbuffer' = result.buffer
    /\ totallength' = result.total
    /\ dat_sumlength' = result.sum
    /\ left' = [left EXCEPT ![c] = rest]
    /\ last' = [from |-> c, ends |-> rest = 0 /\ c \notin split', served |-> result.served]

Untrusted == trust' = "lost"

\* c may begin a request.
Ready(c) == left[c] = 0 /\ c \notin split

Get(c) ==
    /\ Ready(c) /\ UNCHANGED split
    /\ Recv(c, 0, SaveHeadAlone(c, TRUE, 0))
    /\ IF Idle THEN trust' = IF trust = "lost" THEN "reset" ELSE trust ELSE Untrusted

\* The trust in a POST: it must cross no other, and ends a reset.
PostTrust(rest) ==
    trust' = IF trust = "reset" /\ rest = 0 THEN "clean" ELSE trust

PostHead(c, sum, n) ==
    /\ Ready(c) /\ UNCHANGED split
    /\ n <= sum
    /\ totallength + n <= MaxTotal
    /\ Recv(c, sum - n, SaveHead(c, TRUE, sum, n))
    /\ IF Idle /\ sum <= Room THEN PostTrust(sum - n) ELSE Untrusted

PostBody(c, n) ==
    /\ n <= left[c] /\ UNCHANGED split
    /\ totallength + n <= MaxTotal
    /\ Recv(c, left[c] - n, SaveBody(c, TRUE, n))
    /\ IF Overruns(n) THEN trust' = "overrun" ELSE PostTrust(left[c] - n)

\* A part of a head that does not end it
PartOfHead(c, n) ==
    /\ left[c] = 0
    /\ totallength + n <= MaxTotal
    /\ split' = split \cup {c}
    /\ Recv(c, 0, SaveBody(c, FALSE, n))
    /\ IF Overruns(n) THEN trust' = "overrun" ELSE Untrusted

\* The last part of a head, with the first n of sum body units.  The length is in it,
\* or was before.
HeadRest(c, sum, n) ==
    /\ c \in split
    /\ n <= sum
    /\ totallength + n <= MaxTotal
    /\ split' = split \ {c}
    /\ \/ Recv(c, sum - n, SaveHead(c, FALSE, sum, n))
       \/ Recv(c, sum - n, SaveHeadAlone(c, FALSE, n))
    /\ Untrusted

\* The connection breaks, or the client gives up.
Abandon(c) ==
    /\ ~Ready(c)
    /\ left' = [left EXCEPT ![c] = 0]
    /\ split' = split \ {c}
    /\ Untrusted
    /\ last' = [from |-> NoClient, ends |-> FALSE, served |-> NoBuffer]
    /\ UNCHANGED <<precvbuffer, totallength, dat_sumlength>>

Next ==
    /\ trust # "overrun"
    /\ \E c \in Client :
          \/ Get(c)
          \/ \E sum \in 0..MaxBody, n \in 0..MaxBody : PostHead(c, sum, n) \/ HeadRest(c, sum, n)
          \/ \E n \in 1..MaxBody : PostBody(c, n) \/ PartOfHead(c, n)
          \/ Abandon(c)

Spec == Init /\ [][Next]_vars

-----------------------------------------------------------------------------
(* Properties *)

\* A request that crosses no other is served when its last fragment is there,
\* from a buffer that holds it and nothing else, if its head came in one fragment and
\* its body is not too long.  After requests that were cut, split or crossed, a whole
\* GET, whatever becomes of it, makes this true again of the next POST: the device
\* can always be configured, until something is written behind the buffer.
ServedWhole ==
    trust = "clean" /\ last.ends => last.served.of = last.from /\ last.served.own

\* Nor is it served before, on the strength of what other requests left in the
\* counters.
NotServedEarly ==
    trust \in {"clean", "reset"} /\ ~last.ends => last.served = NoBuffer

\* save_data serves each request once, at its end and whole.
ServedRightly == ServedWhole /\ NotServedEarly
=============================================================================
