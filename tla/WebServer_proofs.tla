-------------------------- MODULE WebServer_proofs --------------------------
(***************************************************************************)
(* Proofs about the web server, for any set of clients, any length of a    *)
(* body, any size of an image and any division into fragments, of heads    *)
(* too.                                                                    *)
(*                                                                         *)
(* First HttpReceive alone: as long as the buffer is trusted it holds the  *)
(* one request under way, TrustInv.  Then LocalUpgrade alone: the lock and *)
(* the timer go together, LockInv, and while nothing was lost the counters *)
(* agree with the image and with what is still to come of the file,        *)
(* CleanInv.  Then the composition:                                        *)
(* each of its steps is a step of LocalUpgrade or leaves it alone, so that *)
(* what was proved there holds of it; and while the lock is not set, the   *)
(* invariant of HttpReceive holds.                                         *)
(***************************************************************************)
EXTENDS WebServer, TLAPS

-----------------------------------------------------------------------------
(* The reassembly of requests                                              *)

\* The buffer of c with all that came, and room for what is to come
Whole(c, room) == [of |-> c, own |-> TRUE, room |-> room]

\* Where it is trusted, at most one request is under way; the buffer holds it,
\* and the counters what is there and what is to come.
Trusted == trust \in {"clean", "reset"}

TrustInv ==
    Trusted =>
        /\ split = {}
        /\ \A c, d \in Client : left[c] > 0 /\ left[d] > 0 => c = d
        /\ Idle => /\ totallength = 0
                   /\ trust = "clean" => dat_sumlength = 0
        /\ \A c \in Client : left[c] > 0 => /\ precvbuffer = Whole(c, left[c])
                                            /\ totallength + left[c] = dat_sumlength

IInv == TypeOK /\ TrustInv /\ ServedWhole /\ NotServedEarly

-----------------------------------------------------------------------------
LEMMA Bounds == /\ MaxBody \in Nat /\ MaxTotal \in Nat /\ MaxTotal >= MaxBody
                /\ NoClient \notin Client /\ Room \in Nat
BY ReceiveAssumption

LEMMA Initially == Init => IInv
BY Bounds DEF Init, IInv, TypeOK, Buffer, NoBuffer, TrustInv, Idle, ServedWhole,
              NotServedEarly, Trusted

\* A fragment keeps the types.
LEMMA RecvType ==
    ASSUME TypeOK, NEW c \in Client, NEW rest \in 0..MaxBody, NEW held \in Buffer,
           NEW total \in 0..MaxTotal, NEW sum \in 0..MaxBody,
           \/ Recv(c, rest, Counted(held, total, sum))
           \/ Recv(c, rest, Refused(held, total, sum)),
           split' \subseteq Client, trust' \in {"clean", "lost", "reset", "overrun"}
    PROVE  TypeOK'
<1> DEFINE result == IF Recv(c, rest, Refused(held, total, sum))
                     THEN Refused(held, total, sum)
                     ELSE Counted(held, total, sum)
<1>1. Recv(c, rest, result)
    OBVIOUS
<1>2. NoBuffer \in Buffer
    BY Bounds DEF NoBuffer, Buffer
<1>3. result.buffer \in Buffer /\ result.served \in Buffer
    BY <1>2 DEF Counted, Refused
<1>4. result.total \in 0..MaxTotal /\ result.sum \in 0..MaxBody
    BY Bounds DEF Counted, Refused
<1> HIDE DEF result
<1>5. last' = [from |-> c, ends |-> rest = 0 /\ c \notin split', served |-> result.served]
    BY <1>1 DEF Recv
<1>6. (rest = 0 /\ c \notin split') \in BOOLEAN
    OBVIOUS
<1>7. last' \in [from : Client \cup {NoClient}, ends : BOOLEAN, served : Buffer]
    BY <1>3, <1>5, <1>6
<1>8. left' \in [Client -> 0..MaxBody]
    BY <1>1 DEF Recv, TypeOK
<1> QED
    BY <1>1, <1>3, <1>4, <1>7, <1>8 DEF Recv, TypeOK

LEMMA HeldType ==
    ASSUME NEW c \in Client, NEW whole \in BOOLEAN, NEW sum \in 0..MaxBody, NEW n \in 0..sum
    PROVE  Held(c, whole, sum, n) \in Buffer
<1>1. (whole /\ n = 0) \in BOOLEAN /\ sum - n \in 0..MaxBody /\ 0 \in 0..MaxBody
    BY Bounds
<1> QED
    BY <1>1 DEF Held, Buffer

\* The fragment that completes a request has it served.
LEMMA Complete ==
    ASSUME NEW c, NEW held, NEW total, Recv(c, 0, Counted(held, total, total)), c \notin split'
    PROVE  /\ totallength' = 0 /\ dat_sumlength' = 0
           /\ last'.served = held /\ last'.from = c /\ last'.ends
<1>1. Counted(held, total, total) =
        [buffer |-> NoBuffer, total |-> 0, sum |-> 0, served |-> held]
    BY DEF Counted
<1>2. last' = [from |-> c, ends |-> 0 = 0 /\ c \notin split', served |-> held]
    BY <1>1 DEF Recv
<1>3. totallength' = 0 /\ dat_sumlength' = 0
    BY <1>1 DEF Recv
<1>4. last'.ends = (0 = 0 /\ c \notin split')
    BY <1>2
<1> QED
    BY <1>2, <1>3, <1>4, Zenon

\* Any other is kept.
LEMMA Incomplete ==
    ASSUME NEW c, NEW rest, NEW held, NEW total, NEW sum, rest # 0, total # sum,
           Recv(c, rest, Counted(held, total, sum))
    PROVE  /\ totallength' = total /\ dat_sumlength' = sum /\ precvbuffer' = held
           /\ last'.served = NoBuffer /\ ~last'.ends
<1>1. Counted(held, total, sum) =
        [buffer |-> held, total |-> total, sum |-> sum, served |-> NoBuffer]
    BY DEF Counted
<1>2. last' = [from |-> c, ends |-> rest = 0 /\ c \notin split', served |-> NoBuffer]
    BY <1>1 DEF Recv
<1>3. totallength' = total /\ dat_sumlength' = sum /\ precvbuffer' = held
    BY <1>1 DEF Recv
<1>4. last'.ends = (rest = 0 /\ c \notin split')
    BY <1>2
<1> QED
    BY <1>2, <1>3, <1>4, Zenon

\* Where nothing is trusted, only the types count.
LEMMA LostStep ==
    ASSUME TypeOK', trust' \in {"lost", "overrun"}
    PROVE  IInv'
<1>1. trust' # "clean" /\ trust' # "reset"
    OBVIOUS
<1> QED
    BY <1>1 DEF IInv, TrustInv, Trusted, ServedWhole, NotServedEarly

LEMMA GetStep == ASSUME IInv, NEW c \in Client, Get(c) PROVE IInv'
<1>0. UNCHANGED split /\ TypeOK
    BY DEF Get, IInv
<1>1. TypeOK'
  <2>1. precvbuffer \in Buffer /\ totallength \in 0..MaxTotal
        /\ dat_sumlength \in 0..MaxBody /\ 0 \in 0..MaxBody /\ 0 \in 0..MaxTotal
        /\ split' \subseteq Client
    BY <1>0, Bounds DEF TypeOK
  <2>2. trust' \in {"clean", "lost", "reset", "overrun"}
    BY <1>0 DEF TypeOK, Get, Untrusted
  <2>3. Held(c, TRUE, dat_sumlength, 0) \in Buffer
    <3>1. 0 \in 0..dat_sumlength
      BY <2>1
    <3> QED
      BY <2>1, <3>1, HeldType
  <2>4. \/ Recv(c, 0, Counted(Held(c, TRUE, dat_sumlength, 0), 0, dat_sumlength))
        \/ Recv(c, 0, Refused(precvbuffer, 0, 0))
    BY DEF Get, SaveHeadAlone
  <2> QED
    BY <1>0, <2>1, <2>2, <2>3, <2>4, RecvType
<1>2. left' = left
    BY <1>0 DEF Get, Ready, Recv, TypeOK
<1>3. CASE ~Idle
    BY <1>1, <1>3, LostStep DEF Get, Untrusted
<1>4. CASE Idle /\ trust' \in {"lost", "overrun"}
    BY <1>1, <1>4, LostStep
<1>5. CASE Idle /\ trust' \notin {"lost", "overrun"}
  <2>1. Idle' /\ (\A d \in Client : left'[d] = 0) /\ split' = {}
    BY <1>0, <1>2, <1>5 DEF Idle
  <2>2. trust' = IF trust = "lost" THEN "reset" ELSE trust
    BY <1>5 DEF Get
  <2>3. totallength' = 0
    BY DEF Get, Recv, SaveHeadAlone, Refused, Counted
  <2>4. ASSUME trust' = "clean"
        PROVE  dat_sumlength' = 0 /\ last'.served.of = last'.from /\ last'.served.own
    <3>1. totallength = 0 /\ dat_sumlength = 0
      BY <1>5, <2>2, <2>4 DEF IInv, TrustInv, Trusted
    <3>2. totallength + 0 = 0
      BY <3>1
    <3>3. SaveHeadAlone(c, TRUE, 0) = Counted(Held(c, TRUE, 0, 0), 0, 0)
      BY <3>1, <3>2 DEF SaveHeadAlone
    <3>4. Recv(c, 0, Counted(Held(c, TRUE, 0, 0), 0, 0)) /\ c \notin split'
      BY <1>0, <3>3 DEF Get, Ready
    <3>5. dat_sumlength' = 0 /\ last'.served = Held(c, TRUE, 0, 0) /\ last'.from = c
      BY <3>4, Complete, Zenon
    <3>6. Held(c, TRUE, 0, 0).of = c /\ Held(c, TRUE, 0, 0).own
      BY Bounds DEF Held
    <3> QED
      BY <3>5, <3>6
  <2>5. last'.ends
    <3>1. last'.ends = (0 = 0 /\ c \notin split')
      BY DEF Get, Recv
    <3> QED
      BY <1>0, <3>1 DEF Get, Ready
  <2> QED
    BY <1>1, <2>1, <2>3, <2>4, <2>5 DEF IInv, TrustInv, Trusted, ServedWhole, NotServedEarly
<1> QED
    BY <1>3, <1>4, <1>5

\* What PostTrust leaves trusted was.
LEMMA PostTrusted ==
    ASSUME NEW rest, PostTrust(rest), TypeOK
    PROVE  /\ trust' \in {"clean", "lost", "reset", "overrun"}
           /\ trust' \in {"lost", "overrun"} <=> trust \in {"lost", "overrun"}
    BY DEF PostTrust, TypeOK

LEMMA PostHeadStep ==
    ASSUME IInv, NEW c \in Client, NEW sum \in 0..MaxBody, NEW n \in 0..MaxBody,
           PostHead(c, sum, n)
    PROVE  IInv'
<1>0. sum - n \in 0..MaxBody /\ totallength + n \in 0..MaxTotal /\ totallength \in Nat /\ n <= sum
    BY Bounds DEF PostHead, IInv, TypeOK
<1>a. UNCHANGED split /\ c \notin split /\ TypeOK
    BY DEF PostHead, Ready, IInv
<1>1. TypeOK'
  <2>1. trust' \in {"clean", "lost", "reset", "overrun"} /\ split' \subseteq Client
    BY <1>a, PostTrusted DEF TypeOK, PostHead, Untrusted
  <2>2. n \in 0..sum
    BY <1>0
  <2>3. Held(c, TRUE, sum, n) \in Buffer
    BY <2>2, HeldType
  <2> QED
    BY <1>0, <1>a, <2>1, <2>3, RecvType DEF PostHead, SaveHead
<1>2. CASE ~(Idle /\ sum <= Room)
    BY <1>1, <1>2, LostStep DEF PostHead, Untrusted
<1>3. CASE Idle /\ sum <= Room /\ trust \in {"lost", "overrun"}
    BY <1>a, <1>1, <1>3, PostTrusted, LostStep DEF PostHead
<1>4. CASE Idle /\ sum <= Room /\ trust \notin {"lost", "overrun"}
  <2>0. Trusted
    BY <1>a, <1>4 DEF Trusted, TypeOK
  <2>1. totallength = 0 /\ split' = {}
    BY <1>a, <1>4, <2>0 DEF IInv, TrustInv
  <2>2. \A d \in Client : left'[d] = IF d = c THEN sum - n ELSE 0
    BY <1>4 DEF PostHead, Recv, IInv, TypeOK, Idle
  <2>5. Held(c, TRUE, sum, n) = Whole(c, sum - n)
    BY <1>4 DEF Held, Whole
  <2>6. Recv(c, sum - n, Counted(Whole(c, sum - n), totallength + n, sum))
    BY <2>5 DEF PostHead, SaveHead
  <2>7. Whole(c, sum - n).of = c /\ Whole(c, sum - n).own
    BY DEF Whole
  <2>3. CASE n = sum
    <3>1. totallength' = 0 /\ dat_sumlength' = 0 /\ last'.served = Whole(c, sum - n)
          /\ last'.from = c /\ last'.ends
      <4>1. sum - n = 0 /\ totallength + n = sum
        BY <2>1, <2>3, <1>0
      <4>2. Recv(c, 0, Counted(Whole(c, sum - n), sum, sum)) /\ c \notin split'
        BY <1>a, <2>6, <4>1
      <4> QED
        BY <4>2, Complete, Zenon
    <3>2. \A d \in Client : left'[d] = 0
        BY <2>2, <2>3
    <3> QED
        BY <1>1, <2>1, <2>7, <3>1, <3>2 DEF IInv, TrustInv, ServedWhole, NotServedEarly
  <2>4. CASE n # sum
    <3>1. /\ totallength' = n /\ dat_sumlength' = sum /\ precvbuffer' = Whole(c, sum - n)
          /\ last'.served = NoBuffer /\ ~last'.ends
      <4>1. sum - n # 0 /\ totallength + n = n
        BY <2>1, <2>4, <1>0
      <4>2. Recv(c, sum - n, Counted(Whole(c, sum - n), n, sum))
        BY <2>6, <4>1
      <4> QED
        BY <2>4, <4>1, <4>2, Incomplete, Zenon
    <3>2. \A d \in Client : left'[d] > 0 <=> d = c
        BY <1>0, <2>2, <2>4
    <3>3. left'[c] = sum - n
        BY <2>2
    <3>4. ~Idle'
        BY <1>0, <2>4, <3>3 DEF Idle
    <3> QED
        BY <1>0, <1>1, <2>1, <3>1, <3>2, <3>3, <3>4 DEF IInv, TrustInv, ServedWhole, NotServedEarly
  <2> QED
    BY <2>3, <2>4
<1> QED
    BY <1>2, <1>3, <1>4

\* What is behind the buffer, whose it is, and that there is room
LEMMA AppendedType ==
    ASSUME TypeOK, NEW own \in BOOLEAN, NEW n \in Nat
    PROVE  [of |-> precvbuffer.of, own |-> precvbuffer.own /\ own,
            room |-> IF Overruns(n) THEN 0 ELSE precvbuffer.room - n] \in Buffer
           \/ precvbuffer = NoBuffer
<1>1. precvbuffer \in Buffer
    BY DEF TypeOK
<1>2. precvbuffer.of \in Client \cup {NoClient} /\ precvbuffer.own \in BOOLEAN
      /\ precvbuffer.room \in 0..MaxBody
    BY <1>1 DEF Buffer
<1>3. (precvbuffer.own /\ own) \in BOOLEAN
    OBVIOUS
<1>4. precvbuffer # NoBuffer =>
        (IF Overruns(n) THEN 0 ELSE precvbuffer.room - n) \in 0..MaxBody
    BY <1>2, Bounds DEF Overruns
<1> QED
    BY <1>2, <1>3, <1>4 DEF Buffer

\* A fragment that is taken for a body keeps the types.
LEMMA SaveBodyType ==
    ASSUME TypeOK, NEW c \in Client, NEW ofBody \in BOOLEAN, NEW n \in Nat, NEW rest \in 0..MaxBody,
           totallength + n <= MaxTotal, Recv(c, rest, SaveBody(c, ofBody, n)),
           split' \subseteq Client, trust' \in {"clean", "lost", "reset", "overrun"}
    PROVE  TypeOK'
<1> DEFINE own == precvbuffer.of = c /\ ofBody
           held == [of |-> precvbuffer.of, own |-> precvbuffer.own /\ own,
                    room |-> IF Overruns(n) THEN 0 ELSE precvbuffer.room - n]
<1>1. precvbuffer \in Buffer /\ dat_sumlength \in 0..MaxBody /\ 0 \in 0..MaxTotal /\ 0 \in 0..MaxBody
      /\ totallength + n \in 0..MaxTotal
    BY Bounds DEF TypeOK
<1>2. CASE precvbuffer = NoBuffer
  <2>1. Recv(c, rest, Refused(precvbuffer, 0, 0))
    BY <1>2 DEF SaveBody
  <2> QED
    BY <1>1, <2>1, RecvType
<1>3. CASE precvbuffer # NoBuffer
  <2>1. held \in Buffer
    <3>1. own \in BOOLEAN
      OBVIOUS
    <3> HIDE DEF own
    <3> QED
      BY <1>3, <3>1, AppendedType
  <2>2. (precvbuffer.own /\ precvbuffer.of = c /\ ofBody) = (precvbuffer.own /\ own)
    OBVIOUS
  <2>3. Recv(c, rest, Counted(held, totallength + n, dat_sumlength))
    BY <1>3, <2>2 DEF SaveBody
  <2> HIDE DEF held
  <2> QED
    BY <1>1, <2>1, <2>3, RecvType
<1> QED
    BY <1>2, <1>3

LEMMA PostBodyStep ==
    ASSUME IInv, NEW c \in Client, NEW n \in 1..MaxBody, PostBody(c, n)
    PROVE  IInv'
<1> DEFINE rest == left[c] - n
<1>0. rest \in 0..MaxBody /\ totallength + n <= MaxTotal /\ left[c] > 0 /\ n \in Nat /\ n > 0
      /\ totallength \in Nat /\ dat_sumlength \in Nat /\ left[c] \in Nat /\ n <= left[c]
    BY Bounds DEF PostBody, IInv, TypeOK
<1>a. UNCHANGED split /\ TypeOK
    BY DEF PostBody, IInv
<1>1. TypeOK'
  <2>1. trust' \in {"clean", "lost", "reset", "overrun"} /\ split' \subseteq Client
    BY <1>a, PostTrusted DEF TypeOK, PostBody
  <2>2. Recv(c, rest, SaveBody(c, TRUE, n))
    BY DEF PostBody
  <2> HIDE DEF rest
  <2> QED
    BY <1>0, <1>a, <2>1, <2>2, SaveBodyType
<1>2. CASE trust \in {"lost", "overrun"}
  <2>1. trust' \in {"lost", "overrun"}
    BY <1>a, <1>2, PostTrusted DEF PostBody
  <2> QED
    BY <1>1, <2>1, LostStep
<1>3. CASE trust \notin {"lost", "overrun"}
  <2>0. Trusted
    BY <1>a, <1>3 DEF Trusted, TypeOK
  <2>1. precvbuffer = Whole(c, left[c]) /\ totallength + left[c] = dat_sumlength /\ split' = {}
    BY <1>0, <1>a, <2>0 DEF IInv, TrustInv
  <2>2. precvbuffer # NoBuffer /\ precvbuffer.of = c /\ precvbuffer.own /\ precvbuffer.room = left[c]
    BY <2>1, Bounds DEF Whole, NoBuffer
  <2>3. ~Overruns(n)
    BY <1>0, <2>2 DEF Overruns
  <2>8. SaveBody(c, TRUE, n) = Counted(Whole(c, rest), totallength + n, dat_sumlength)
    <3>1. (precvbuffer.own /\ precvbuffer.of = c /\ TRUE) = TRUE
      BY <2>2
    <3> QED
      BY <2>2, <2>3, <3>1 DEF SaveBody, Whole
  <2>9. Recv(c, rest, Counted(Whole(c, rest), totallength + n, dat_sumlength))
    BY <2>8 DEF PostBody
  <2>10. PostTrust(rest) /\ Trusted'
    BY <1>a, <2>0, <2>3, PostTrusted DEF PostBody, Trusted
  <2>4. \A d \in Client : d # c => left[d] = 0
    BY <1>0, <2>0 DEF IInv, TypeOK, TrustInv
  <2>5. \A d \in Client : left'[d] = IF d = c THEN rest ELSE 0
    BY <2>4, <2>9 DEF Recv, IInv, TypeOK
  <2>7. Whole(c, rest).of = c /\ Whole(c, rest).own
    BY DEF Whole
  <2>6. CASE rest = 0
    <3>1. totallength' = 0 /\ dat_sumlength' = 0 /\ last'.served = Whole(c, rest)
          /\ last'.from = c /\ last'.ends
      <4>1. totallength + n = dat_sumlength
        BY <1>0, <2>1, <2>6
      <4>2. Recv(c, 0, Counted(Whole(c, rest), dat_sumlength, dat_sumlength)) /\ c \notin split'
        BY <2>1, <2>9, <2>6, <4>1
      <4> QED
        BY <4>2, Complete, Zenon
    <3>2. \A d \in Client : left'[d] = 0
        BY <2>5, <2>6
    <3> QED
        BY <1>1, <2>1, <2>7, <3>1, <3>2 DEF IInv, TrustInv, ServedWhole, NotServedEarly
  <2>11. CASE rest # 0
    <3>1. /\ totallength' = totallength + n /\ dat_sumlength' = dat_sumlength
          /\ precvbuffer' = Whole(c, rest)
          /\ last'.served = NoBuffer /\ ~last'.ends
      <4>1. totallength + n # dat_sumlength
        BY <1>0, <2>1, <2>11
      <4> QED
        BY <2>9, <2>11, <4>1, Incomplete, Zenon
    <3>2. \A d \in Client : left'[d] > 0 <=> d = c
        BY <1>0, <2>5, <2>11
    <3>3. left'[c] = rest
        BY <2>5
    <3>4. ~Idle'
        BY <1>0, <2>11, <3>3 DEF Idle
    <3> QED
        BY <1>0, <1>1, <2>1, <3>1, <3>2, <3>3, <3>4 DEF IInv, TrustInv, ServedWhole, NotServedEarly
  <2> QED
    BY <2>6, <2>11
<1> QED
    BY <1>2, <1>3

\* The parts of a head keep the types, and nothing is trusted.
LEMMA PartOfHeadStep ==
    ASSUME IInv, NEW c \in Client, NEW n \in 1..MaxBody, PartOfHead(c, n)
    PROVE  IInv'
<1>1. trust' \in {"lost", "overrun"} /\ split' \subseteq Client /\ TypeOK
      /\ 0 \in 0..MaxBody /\ n \in Nat
    BY Bounds DEF PartOfHead, Untrusted, IInv, TypeOK
<1>2. totallength + n <= MaxTotal /\ Recv(c, 0, SaveBody(c, FALSE, n))
    BY DEF PartOfHead
<1>3. TypeOK'
    BY <1>1, <1>2, SaveBodyType
<1> QED
    BY <1>1, <1>3, LostStep

LEMMA HeadRestStep ==
    ASSUME IInv, NEW c \in Client, NEW sum \in 0..MaxBody, NEW n \in 0..MaxBody,
           HeadRest(c, sum, n)
    PROVE  IInv'
<1>1. trust' = "lost" /\ split' \subseteq Client /\ TypeOK
    BY DEF HeadRest, Untrusted, IInv, TypeOK
<1>2. /\ sum - n \in 0..MaxBody /\ n \in 0..sum /\ totallength + n \in 0..MaxTotal
      /\ 0 \in 0..MaxTotal /\ 0 \in 0..MaxBody
      /\ dat_sumlength \in 0..MaxBody /\ 0 \in 0..dat_sumlength /\ precvbuffer \in Buffer
    BY <1>1, Bounds DEF HeadRest, TypeOK
<1>3. Held(c, FALSE, sum, n) \in Buffer /\ Held(c, FALSE, dat_sumlength, 0) \in Buffer
    BY <1>2, HeldType
<1>4. \/ Recv(c, sum - n, Counted(Held(c, FALSE, sum, n), totallength + n, sum))
      \/ Recv(c, sum - n, Counted(Held(c, FALSE, dat_sumlength, 0), 0, dat_sumlength))
      \/ Recv(c, sum - n, Refused(precvbuffer, 0, 0))
    BY DEF HeadRest, SaveHead, SaveHeadAlone
<1>5. TypeOK'
    BY <1>1, <1>2, <1>3, <1>4, RecvType
<1> QED
    BY <1>1, <1>5, LostStep

LEMMA AbandonStep == ASSUME IInv, NEW c \in Client, Abandon(c) PROVE IInv'
<1>1. NoBuffer \in Buffer
    BY Bounds DEF NoBuffer, Buffer
<1>2. TypeOK'
    BY <1>1, Bounds DEF Abandon, Untrusted, IInv, TypeOK
<1> QED
    BY <1>2, LostStep DEF Abandon, Untrusted

-----------------------------------------------------------------------------
LEMMA Step == IInv /\ [Next]_vars => IInv'
<1> SUFFICES ASSUME IInv, [Next]_vars PROVE IInv'
    OBVIOUS
<1>1. CASE UNCHANGED vars
    BY <1>1 DEF vars, IInv, TypeOK, TrustInv, Trusted, Idle, ServedWhole, NotServedEarly
<1>2. CASE Next
    BY <1>2, GetStep, PostHeadStep, PostBodyStep, PartOfHeadStep, HeadRestStep, AbandonStep DEF Next
<1> QED
    BY <1>1, <1>2

\* The counters and the buffer agree wherever requests follow one another.
THEOREM Invariance == Spec => []IInv
    BY Step, Initially, PTL DEF Spec

\* save_data's variables keep their types: user_webserver.c.
THEOREM TypeCorrect == Spec => []TypeOK
<1>1. IInv => TypeOK
    BY DEF IInv
<1> QED
    BY <1>1, Invariance, PTL

\* webserver_recv serves each request that crosses no other whole, if its head came in
\* one fragment and its body is not too long, and after others went wrong too, as long
\* as nothing is written behind the buffer; and none before its end.
THEOREM Served == Spec => []ServedRightly
<1>1. IInv => ServedRightly
    BY DEF IInv, ServedRightly
<1> QED
    BY <1>1, Invariance, PTL

-----------------------------------------------------------------------------
(* The upgrade                                                             *)

LockInv ==
    /\ upgrade_lock <=> upgrade_check_timer
    /\ flag = "START" => upgrade_lock
    /\ flag = "FINISH" => received = 0

CleanInv ==
    upload = "clean" =>
        /\ ~upgrade_lock => received = 0
        /\ upgrade_lock => /\ image.pure
                           /\ image.size = received
                           /\ received = file.size - file.left
                           /\ file.size # 0 => sumlength = file.size

\* UpgradeTypeOK in two parts, for two kinds of values
SwitchType == /\ upgrade_lock \in BOOLEAN /\ buffer \in BOOLEAN
              /\ upgrade_check_timer \in BOOLEAN /\ app_upgrade_10s \in BOOLEAN

DataType == /\ flag \in {"IDLE", "START", "FINISH"} /\ upload \in {"clean", "lost"}
            /\ received \in 0..MaxImage /\ sumlength \in 0..MaxSize
            /\ image \in [size : 0..MaxImage, pure : BOOLEAN]
            /\ file \in [size : 0..MaxSize, left : 0..MaxSize]

UpgradeInv == /\ UpgradeTypeOK /\ LockInv /\ LockHasBuffer
              /\ file.left <= file.size
              /\ CleanInv /\ WholeIsFinished /\ FinishedIsWhole

-----------------------------------------------------------------------------
(* LocalUpgrade *)

LEMMA UpgradeBounds == /\ MaxSize \in Nat /\ MaxSize > 0
                       /\ MaxImage \in Nat /\ MaxImage >= MaxSize
                       /\ Head \in Nat /\ Head > 0
  BY UpgradeAssumption

LEMMA TypeParts == UpgradeTypeOK <=> SwitchType /\ DataType
  BY Zenon DEF UpgradeTypeOK, SwitchType, DataType

LEMMA UpgradeInitInv == UpgradeInit => UpgradeInv
<1> SUFFICES ASSUME UpgradeInit PROVE UpgradeInv
    OBVIOUS
<1>1. SwitchType
    BY Zenon DEF UpgradeInit, SwitchType
<1>2. DataType
    BY UpgradeBounds DEF UpgradeInit, DataType, NoFile, Blank
<1>3. /\ LockInv /\ LockHasBuffer /\ file.left <= file.size
      /\ CleanInv /\ WholeIsFinished /\ FinishedIsWhole
    BY UpgradeBounds DEF UpgradeInit, LockInv, LockHasBuffer, CleanInv,
                         WholeIsFinished, FinishedIsWhole, NoFile, Blank
<1> QED
    BY <1>1, <1>2, <1>3, TypeParts DEF UpgradeInv

\* An upload starts with empty counters, unless one before it was cut short.
LEMMA StartStep == UpgradeInv /\ Start => UpgradeInv'
<1> SUFFICES ASSUME UpgradeInv, Start PROVE UpgradeInv'
    OBVIOUS
<1> USE UpgradeBounds DEF UpgradeInv
<1>1. /\ ~upgrade_lock /\ upgrade_lock' = TRUE /\ buffer' = TRUE
      /\ flag' = "START" /\ upgrade_check_timer' = TRUE
      /\ image' = [size |-> 0, pure |-> TRUE] /\ file' = [size |-> 0, left |-> 0]
      /\ UNCHANGED <<app_upgrade_10s, received, sumlength>>
      /\ upload' = IF flag = "FINISH" THEN "clean"
                   ELSE IF file.left > 0 THEN "lost" ELSE upload
    BY Zenon DEF Start, Blank, NoFile
<1>2. UpgradeTypeOK'
    BY <1>1 DEF UpgradeTypeOK
<1>3. LockInv' /\ LockHasBuffer' /\ FinishedIsWhole' /\ WholeIsFinished'
    BY <1>1 DEF LockInv, LockHasBuffer, FinishedIsWhole, WholeIsFinished
<1>4. upload' = "clean" => received = 0
    BY <1>1 DEF LockInv, CleanInv
<1>5. CleanInv'
    BY <1>1, <1>4 DEF CleanInv
<1> QED
    BY <1>1, <1>2, <1>3, <1>5

\* A fragment is counted: what is finished under the lock leaves it.
LEMMA CountStep ==
    ASSUME UpgradeInv, upgrade_lock, UNCHANGED buffer,
           NEW total \in 0..MaxImage, NEW sum \in 0..MaxSize, Count(total, sum),
           image' \in [size : 0..MaxImage, pure : BOOLEAN],
           file' \in [size : 0..MaxSize, left : 0..MaxSize], file'.left <= file'.size,
           upload' \in {"clean", "lost"},
           upload' = "clean" => /\ image'.pure
                                /\ image'.size = total
                                /\ total = file'.size - file'.left
                                /\ file'.size # 0 /\ sum = file'.size
    PROVE  UpgradeInv'
<1> USE UpgradeBounds DEF UpgradeInv
<1>0. flag = "START" /\ buffer
    BY DEF LockHasBuffer
<1>1. CASE total = sum
  <2>1. /\ flag' = "FINISH" /\ received' = 0 /\ sumlength' = 0
        /\ upgrade_check_timer' = FALSE /\ upgrade_lock' = FALSE /\ app_upgrade_10s' = TRUE
    BY <1>1 DEF Count
  <2>2. UpgradeTypeOK' /\ LockInv' /\ LockHasBuffer'
    <3>1. SwitchType'
      BY <2>1, TypeParts, Zenon DEF SwitchType
    <3>2. DataType'
      BY <2>1 DEF DataType
    <3>3. LockInv' /\ LockHasBuffer'
      BY <2>1 DEF LockInv, LockHasBuffer
    <3> QED
      BY <3>1, <3>2, <3>3, TypeParts, PTL
  <2>3. CleanInv' /\ WholeIsFinished' /\ FinishedIsWhole'
    BY <1>1, <2>1 DEF CleanInv, WholeIsFinished, FinishedIsWhole
  <2> QED
    BY <2>2, <2>3
<1>2. CASE total # sum
  <2>1. /\ received' = total /\ sumlength' = sum
        /\ UNCHANGED <<flag, upgrade_check_timer, upgrade_lock, app_upgrade_10s>>
    BY <1>2 DEF Count
  <2>2. UpgradeTypeOK'
    BY <2>1 DEF UpgradeTypeOK
  <2>3. LockInv' /\ LockHasBuffer'
    BY <1>0, <2>1 DEF LockInv, LockHasBuffer
  <2>4. CleanInv'
    BY <2>1 DEF CleanInv
  <2>5. WholeIsFinished' /\ FinishedIsWhole'
    BY <1>0, <1>2, <2>1 DEF WholeIsFinished, FinishedIsWhole
  <2> QED
    BY <2>2, <2>3, <2>4, <2>5
<1> QED
    BY <1>1, <1>2

LEMMA FileStartsStep ==
    ASSUME UpgradeInv, NEW head \in Nat, NEW withLength \in BOOLEAN,
           NEW size \in 1..MaxSize, NEW n \in 0..MaxSize, FileStarts(head, withLength, size, n),
           upload' \in {"clean", "lost"},
           upload' = "clean" => withLength /\ upload = "clean" /\ file.left = 0
    PROVE  UpgradeInv'
<1> USE UpgradeBounds
<1>1. /\ upgrade_lock /\ n <= size /\ UNCHANGED buffer
      /\ received + head + n <= MaxImage /\ image.size + head + n <= MaxImage
      /\ file' = [size |-> size, left |-> size - n]
    BY DEF FileStarts
<1>2. UpgradeTypeOK /\ CleanInv /\ WholeIsFinished /\ file.left <= file.size
    BY DEF UpgradeInv
<1>3. upload' \in {"clean", "lost"} /\ (upload' = "clean" => upload = "clean" /\ file.left = 0)
    OBVIOUS
<1>4. upload' = "clean" => file.size = 0 /\ received = 0 /\ image.size = 0 /\ image.pure
    BY <1>1, <1>2, <1>3 DEF UpgradeTypeOK, CleanInv, WholeIsFinished
<1>5. file' \in [size : 0..MaxSize, left : 0..MaxSize] /\ file'.left <= file'.size
    BY <1>1
<1>6. CASE received = 0 /\ withLength
  <2>1. image' = [size |-> image.size + n, pure |-> image.pure /\ image.size = 0] /\ Count(n, size)
    BY <1>6 DEF FileStarts, HeadPart, ImageWith
  <2>2. image' \in [size : 0..MaxImage, pure : BOOLEAN] /\ n \in 0..MaxImage
    <3>1. image.size + n \in 0..MaxImage /\ n \in 0..MaxImage
      BY <1>1, <1>2 DEF UpgradeTypeOK
    <3>2. (image.pure /\ image.size = 0) \in BOOLEAN
      OBVIOUS
    <3> QED
      BY <2>1, <3>1, <3>2
  <2>3. upload' = "clean" => /\ image'.pure /\ image'.size = n
                             /\ n = file'.size - file'.left
                             /\ file'.size # 0 /\ size = file'.size
    <3> SUFFICES ASSUME upload' = "clean"
                 PROVE  image' = [size |-> n, pure |-> TRUE]
      BY <1>1, <1>4
    <3>1. (image.pure /\ image.size = 0) = TRUE
      BY <1>4
    <3>2. image.size + n = n
      BY <1>4
    <3> QED
      BY <2>1, <3>1, <3>2
  <2> QED
    BY <1>1, <1>3, <1>5, <2>1, <2>2, <2>3, CountStep
<1>7. CASE ~(received = 0 /\ withLength)
  <2>1. /\ image' = [size |-> image.size + (head + n), pure |-> image.pure /\ FALSE]
        /\ Count(received + head + n, sumlength)
    BY <1>7 DEF FileStarts, ImageWith
  <2>2. /\ image.size + (head + n) \in 0..MaxImage
        /\ received + head + n \in 0..MaxImage /\ sumlength \in 0..MaxSize
    BY <1>1, <1>2 DEF UpgradeTypeOK
  <2>3. image' \in [size : 0..MaxImage, pure : BOOLEAN]
    BY <2>1, <2>2
  <2>4. upload' # "clean"
    BY <1>4, <1>7
  <2> QED
    BY <1>1, <1>3, <1>5, <2>1, <2>2, <2>3, <2>4, CountStep
<1> QED
    BY <1>6, <1>7

LEMMA FileHeadStep ==
    ASSUME UpgradeInv, NEW size \in 1..MaxSize, NEW n \in 0..MaxSize,
           FileHead(size, n) \/ FileHeadRest(size, n)
    PROVE  UpgradeInv'
<1>1. upload \in {"clean", "lost"} /\ file.left \in Nat /\ Head \in Nat
    BY UpgradeBounds DEF UpgradeInv, UpgradeTypeOK
<1>2. CASE FileHead(size, n)
  <2>1. FileStarts(Head, TRUE, size, n) /\ upload' = IF file.left > 0 THEN "lost" ELSE upload
    BY <1>2, Zenon DEF FileHead
  <2>2. upload' \in {"clean", "lost"} /\ (upload' = "clean" => upload = "clean" /\ file.left = 0)
    <3> HIDE <1>2
    <3> QED
      BY <1>1, <2>1
  <2>3. upload' = "clean" => TRUE /\ upload = "clean" /\ file.left = 0
    BY <2>2
  <2> QED
    BY <1>1, <2>1, <2>2, <2>3, FileStartsStep
<1>3. CASE FileHeadRest(size, n)
  <2>1. PICK head \in 1..Head, withLength \in BOOLEAN : FileStarts(head, withLength, size, n)
    BY <1>3 DEF FileHeadRest
  <2>2. upload' = "lost" /\ head \in Nat
    BY <1>1, <1>3 DEF FileHeadRest
  <2>3. upload' \in {"clean", "lost"} /\ upload' # "clean"
    BY <2>2
  <2> QED
    BY <2>1, <2>2, <2>3, FileStartsStep
<1> QED
    BY <1>2, <1>3

LEMMA FileBodyStep ==
    ASSUME UpgradeInv, NEW n \in 1..MaxSize, FileBody(n)
    PROVE  UpgradeInv'
<1> USE UpgradeBounds
<1>1. /\ upgrade_lock /\ n <= file.left /\ UNCHANGED <<buffer, upload>>
      /\ received + n <= MaxImage /\ image.size + n <= MaxImage
      /\ image' = [size |-> image.size + n, pure |-> image.pure /\ TRUE]
      /\ file' = [file EXCEPT !.left = file.left - n]
      /\ Count(received + n, sumlength)
    BY DEF FileBody, ImageWith
<1>2. UpgradeTypeOK /\ CleanInv /\ file.left <= file.size
    BY DEF UpgradeInv
<1>3. /\ image' \in [size : 0..MaxImage, pure : BOOLEAN]
      /\ received + n \in 0..MaxImage /\ sumlength \in 0..MaxSize
      /\ upload' \in {"clean", "lost"}
    BY <1>1, <1>2 DEF UpgradeTypeOK
<1>4. /\ file' \in [size : 0..MaxSize, left : 0..MaxSize] /\ file'.left <= file'.size
      /\ file'.size = file.size /\ file'.left = file.left - n /\ file.size # 0
    BY <1>1, <1>2 DEF UpgradeTypeOK
<1>5. upload' = "clean" => /\ image'.pure
                           /\ image'.size = received + n
                           /\ received + n = file'.size - file'.left
                           /\ file'.size # 0 /\ sumlength = file'.size
    BY <1>1, <1>2, <1>4 DEF UpgradeTypeOK, CleanInv
<1> QED
    BY <1>1, <1>3, <1>4, <1>5, CountStep

LEMMA OtherStep ==
    ASSUME UpgradeInv, NEW n \in Nat, Other(n)
    PROVE  UpgradeInv'
<1> USE UpgradeBounds
<1>1. /\ upgrade_lock /\ UNCHANGED <<buffer, file>> /\ upload' = "lost"
      /\ received + n <= MaxImage /\ image.size + n <= MaxImage
      /\ image' = [size |-> image.size + n, pure |-> image.pure /\ FALSE]
      /\ Count(received + n, sumlength)
    BY DEF Other, ImageWith
<1>2. UpgradeTypeOK /\ file.left <= file.size
    BY DEF UpgradeInv
<1>3. /\ image' \in [size : 0..MaxImage, pure : BOOLEAN]
      /\ received + n \in 0..MaxImage /\ sumlength \in 0..MaxSize
      /\ file' \in [size : 0..MaxSize, left : 0..MaxSize] /\ file'.left <= file'.size
    BY <1>1, <1>2 DEF UpgradeTypeOK
<1> QED
    BY <1>1, <1>3, CountStep

LEMMA TimersStep == UpgradeInv /\ (CheckTimer \/ DeinitTimer \/ Restart) => UpgradeInv'
<1> SUFFICES ASSUME UpgradeInv, CheckTimer \/ DeinitTimer \/ Restart PROVE UpgradeInv'
    OBVIOUS
<1>0. SwitchType /\ DataType
    BY TypeParts DEF UpgradeInv
<1>1. CASE CheckTimer
  <2>1. upgrade_lock /\ flag = "START"
    BY <1>1 DEF CheckTimer, TimeLimit, UpgradeInv, LockInv, LockHasBuffer
  <2>2. /\ upgrade_check_timer' = FALSE /\ buffer' = FALSE /\ flag' = "IDLE"
        /\ upgrade_lock' = FALSE /\ file' = [size |-> 0, left |-> 0]
        /\ upload' = IF received > 0 \/ file.left > 0 THEN "lost" ELSE upload
        /\ UNCHANGED <<app_upgrade_10s, received, sumlength, image>>
    BY <1>1, <2>1 DEF CheckTimer, NoFile
  <2>3. SwitchType'
    BY <1>0, <2>2, Zenon DEF SwitchType
  <2>4. DataType'
    BY <1>0, <2>2, UpgradeBounds DEF DataType
  <2>5. /\ LockInv' /\ LockHasBuffer' /\ file'.left <= file'.size
        /\ CleanInv' /\ WholeIsFinished' /\ FinishedIsWhole'
    BY <1>0, <2>2 DEF DataType, LockInv, LockHasBuffer, CleanInv, WholeIsFinished, FinishedIsWhole
  <2>6. UpgradeTypeOK'
    BY <2>3, <2>4, TypeParts, PTL
  <2> QED
    BY <2>5, <2>6 DEF UpgradeInv
<1>2. CASE DeinitTimer
  <2>1. UNCHANGED <<upgrade_lock, flag, upgrade_check_timer, received, sumlength,
                    image, file, upload>> /\ app_upgrade_10s' = FALSE
    BY <1>2, Zenon DEF DeinitTimer
  <2>2. buffer' = (buffer /\ flag = "START")
    BY <1>2, Zenon DEF DeinitTimer, InUse
  <2>3. buffer' \in BOOLEAN /\ (upgrade_lock => buffer')
    BY <2>2 DEF UpgradeInv, LockHasBuffer
  <2>4. SwitchType'
    BY <1>0, <2>1, <2>3, Zenon DEF SwitchType
  <2>5. DataType'
    BY <1>0, <2>1, Zenon DEF DataType
  <2>6. /\ LockInv' /\ LockHasBuffer' /\ file'.left <= file'.size
        /\ CleanInv' /\ WholeIsFinished' /\ FinishedIsWhole'
    BY <2>1, <2>3 DEF UpgradeInv, LockInv, LockHasBuffer, CleanInv, WholeIsFinished,
                      FinishedIsWhole
  <2>7. UpgradeTypeOK'
    BY <2>4, <2>5, TypeParts, PTL
  <2> QED
    BY <2>6, <2>7 DEF UpgradeInv
<1>3. CASE Restart
  <2>1. UpgradeInit'
    BY <1>3, Zenon DEF Restart, UpgradeInit, Blank, NoFile
  <2> QED
    BY <2>1, UpgradeInitInv, PTL
<1> QED
    BY <1>1, <1>2, <1>3

LEMMA UpgradeStep == UpgradeInv /\ [UpgradeNext]_upgradeVars => UpgradeInv'
<1> SUFFICES ASSUME UpgradeInv, [UpgradeNext]_upgradeVars PROVE UpgradeInv'
    OBVIOUS
<1>1. ASSUME NEW n \in 1..MaxImage, Other(n) PROVE UpgradeInv'
  <2>1. n \in Nat
    BY UpgradeBounds
  <2> QED
    BY <1>1, <2>1, OtherStep
<1>2. CASE UNCHANGED upgradeVars
    BY <1>2 DEF upgradeVars, device, UpgradeInv, UpgradeTypeOK, LockInv, LockHasBuffer, CleanInv,
                WholeIsFinished, FinishedIsWhole
<1> QED
    BY <1>1, <1>2, StartStep, FileHeadStep, FileBodyStep, TimersStep DEF UpgradeNext

-----------------------------------------------------------------------------
(* WebServer *)

\* The request that starts an upgrade is served, so that save_data has freed the
\* buffer and reset the counters.
LEMMA ServedIsFreed ==
    ASSUME PostStart
    PROVE  precvbuffer' = NoBuffer /\ totallength' = 0 /\ dat_sumlength' = 0
<1>1. last'.served # NoBuffer
    BY DEF PostStart
<1>2. ASSUME NEW c \in Client, NEW rest, NEW buf, NEW total, NEW sum,
             Recv(c, rest, Counted(buf, total, sum))
      PROVE  precvbuffer' = NoBuffer /\ totallength' = 0 /\ dat_sumlength' = 0
    BY <1>1, <1>2 DEF Recv, Counted
<1>3. ASSUME NEW c \in Client, NEW rest, NEW buf, NEW total, NEW sum,
             Recv(c, rest, Refused(buf, total, sum))
      PROVE  FALSE
    BY <1>1, <1>3 DEF Recv, Refused
<1>4. ASSUME NEW c \in Client, NEW sum \in 0..MaxBody, NEW n \in 0..MaxBody, PostHead(c, sum, n)
      PROVE  precvbuffer' = NoBuffer /\ totallength' = 0 /\ dat_sumlength' = 0
    BY <1>2, <1>4 DEF PostHead, SaveHead
<1>5. ASSUME NEW c \in Client, NEW n \in 1..MaxBody, PostBody(c, n)
      PROVE  precvbuffer' = NoBuffer /\ totallength' = 0 /\ dat_sumlength' = 0
    BY <1>2, <1>3, <1>5 DEF PostBody, SaveBody
<1> QED
    BY <1>4, <1>5 DEF PostStart

LEMMA UnderLockInit == ServerInit => NothingUnderLock
  BY DEF ServerInit, UpgradeInit, NothingUnderLock

\* What goes to local_upgrade_download leaves nothing in the buffer, and the other
\* steps do not set the lock.
LEMMA UnderLockStep ==
    NothingUnderLock /\ [ServerNext]_serverVars => NothingUnderLock'
<1> SUFFICES ASSUME NothingUnderLock, [ServerNext]_serverVars PROVE NothingUnderLock'
    OBVIOUS
<1>1. CASE Request
    BY <1>1 DEF Request, upgradeVars, device, NothingUnderLock
<1>2. CASE PostStart
    BY <1>2, ServedIsFreed DEF NothingUnderLock
<1>3. ASSUME NEW c \in Client, NEW rest, NEW more, PassedBy(c, rest, more), upgrade_lock
      PROVE  NothingUnderLock'
    BY <1>3 DEF PassedBy, NothingUnderLock
<1>4. ASSUME NEW c \in Client, NEW size \in 1..MaxSize, NEW n \in 0..MaxSize,
             UploadHead(c, size, n) \/ UploadHeadRest(c, size, n)
      PROVE  NothingUnderLock'
    BY <1>3, <1>4 DEF UploadHead, UploadHeadRest, FileHead, FileHeadRest, FileStarts
<1>5. ASSUME NEW c \in Client, NEW n \in 1..MaxSize, UploadBody(c, n)
      PROVE  NothingUnderLock'
    BY <1>3, <1>5 DEF UploadBody, FileBody
<1>6. ASSUME NEW c \in Client, NEW n \in 1..Head, NEW more \in BOOLEAN, OtherHead(c, n, more)
      PROVE  NothingUnderLock'
    BY <1>3, <1>6 DEF OtherHead, Other
<1>7. ASSUME NEW c \in Client, NEW n \in 1..MaxBody, OtherBody(c, n)
      PROVE  NothingUnderLock'
    BY <1>3, <1>7 DEF OtherBody, Other
<1>8. ASSUME NEW c \in Client, GiveUp(c) PROVE NothingUnderLock'
    BY <1>8 DEF GiveUp, NothingUnderLock
<1>9. CASE LockTimer
    BY <1>9 DEF LockTimer, CheckTimer, NothingUnderLock
<1>10. CASE CleanUp
    BY <1>10, Zenon DEF CleanUp, DeinitTimer, vars, NothingUnderLock
<1>11. CASE PowerUp
    BY <1>11 DEF PowerUp, NothingUnderLock
<1>12. CASE UNCHANGED serverVars
    BY <1>12 DEF serverVars, vars, upgradeVars, device, NothingUnderLock
<1> QED
    BY <1>1, <1>2, <1>4, <1>5, <1>6, <1>7, <1>8, <1>9, <1>10, <1>11, <1>12 DEF ServerNext

\* Requests are put together as HttpReceive does: while upgrade_lock is not set its
\* invariant holds, and what crosses the upgrade is not trusted.
ReceiveInv == /\ TypeOK /\ ServedWhole /\ NotServedEarly
              /\ ~upgrade_lock => TrustInv

LEMMA ReceiveInit == ServerInit => ReceiveInv
<1> SUFFICES ASSUME ServerInit PROVE ReceiveInv
    OBVIOUS
<1>1. IInv
    BY Initially DEF ServerInit
<1> QED
    BY <1>1 DEF IInv, ReceiveInv, TrustInv

\* A step that is one of save_data's
LEMMA SavedStep == ReceiveInv /\ ~upgrade_lock /\ Next => ReceiveInv'
<1> SUFFICES ASSUME ReceiveInv, ~upgrade_lock, Next PROVE ReceiveInv'
    OBVIOUS
<1>1. IInv
    BY DEF ReceiveInv, IInv
<1>2. IInv'
    BY <1>1, Step
<1> QED
    BY <1>2 DEF IInv, ReceiveInv, TrustInv

LEMMA NoFragmentServed ==
    ASSUME last' = NoFragment
    PROVE  /\ ServedWhole' /\ NotServedEarly'
           /\ last' \in [from : Client \cup {NoClient}, ends : BOOLEAN, served : Buffer]
  BY Bounds DEF NoFragment, ServedWhole, NotServedEarly, NoBuffer, Buffer

\* A fragment that passes save_data by
LEMMA PassedByStep ==
    ASSUME ReceiveInv, NothingUnderLock, upgrade_lock, NEW c \in Client, NEW rest \in 0..MaxBody,
           NEW more \in BOOLEAN, PassedBy(c, rest, more)
    PROVE  ReceiveInv'
<1>1. /\ precvbuffer' = NoBuffer /\ totallength' = 0 /\ dat_sumlength' = 0
      /\ left' = [left EXCEPT ![c] = rest] /\ last' = NoFragment
      /\ split' = IF more THEN split \cup {c} ELSE split \ {c}
    BY DEF PassedBy, NothingUnderLock
<1>2. trust' # "lost" => /\ trust' = trust
                         /\ \A d \in Client \ {c} : Ready(d)
                         /\ upgrade_lock' \/ (rest = 0 /\ ~more)
    BY DEF PassedBy, Untrusted
<1>3. TypeOK
    BY DEF ReceiveInv
<1>4. TypeOK'
  <2>1. NoBuffer \in Buffer
    BY Bounds DEF NoBuffer, Buffer
  <2>2. trust' \in {"clean", "lost", "reset", "overrun"}
    BY <1>2, <1>3 DEF TypeOK
  <2>3. split' \subseteq Client
    BY <1>1, <1>3 DEF TypeOK
  <2> QED
    BY <1>1, <1>3, <2>1, <2>2, <2>3, NoFragmentServed, Bounds DEF TypeOK
<1>5. trust' # "lost" /\ rest = 0 /\ ~more => split' = {} /\ \A d \in Client : left'[d] = 0
    BY <1>1, <1>2, <1>3 DEF TypeOK, Ready
<1>7. ~upgrade_lock' => TrustInv'
    BY <1>1, <1>2, <1>5 DEF TrustInv, Trusted, Idle
<1> QED
    BY <1>1, <1>4, <1>7, NoFragmentServed DEF ReceiveInv

LEMMA ReceiveStep ==
    ReceiveInv /\ NothingUnderLock /\ UpgradeInv /\ [ServerNext]_serverVars => ReceiveInv'
<1> SUFFICES ASSUME ReceiveInv, NothingUnderLock, UpgradeInv, [ServerNext]_serverVars
             PROVE  ReceiveInv'
    OBVIOUS
<1>0. TypeOK
    BY DEF ReceiveInv
<1>1. CASE Request
    BY <1>1, SavedStep DEF Request
<1>2. CASE PostStart
    BY <1>2, SavedStep DEF PostStart, Next, Start
<1>3. ASSUME NEW c \in Client, NEW size \in 1..MaxSize, NEW n \in 0..MaxSize,
             UploadHead(c, size, n) \/ UploadHeadRest(c, size, n)
      PROVE  ReceiveInv'
  <2>1. n <= size /\ upgrade_lock /\ PassedBy(c, size - n, FALSE)
    BY <1>3 DEF UploadHead, UploadHeadRest, FileHead, FileHeadRest, FileStarts
  <2>2. size - n \in 0..MaxBody
    BY <2>1, UpgradeBounds, Bounds, ServerAssumption
  <2> QED
    BY <2>1, <2>2, PassedByStep
<1>4. ASSUME NEW c \in Client, NEW n \in 1..MaxSize, UploadBody(c, n)
      PROVE  ReceiveInv'
  <2>1. left[c] - n \in 0..MaxBody /\ upgrade_lock
    BY <1>0, <1>4, UpgradeBounds, Bounds DEF UploadBody, FileBody, TypeOK
  <2> QED
    BY <1>4, <2>1, PassedByStep DEF UploadBody
<1>5. ASSUME NEW c \in Client, NEW n \in 1..Head, NEW more \in BOOLEAN, OtherHead(c, n, more)
      PROVE  ReceiveInv'
  <2>1. 0 \in 0..MaxBody /\ upgrade_lock
    BY <1>5, Bounds DEF OtherHead, Other
  <2> QED
    BY <1>5, <2>1, PassedByStep DEF OtherHead
<1>6. ASSUME NEW c \in Client, NEW n \in 1..MaxBody, OtherBody(c, n)
      PROVE  ReceiveInv'
  <2>1. left[c] - n \in 0..MaxBody /\ upgrade_lock
    BY <1>0, <1>6, Bounds DEF OtherBody, Other, TypeOK
  <2> QED
    BY <1>6, <2>1, PassedByStep DEF OtherBody
<1>7. ASSUME NEW c \in Client, GiveUp(c) PROVE ReceiveInv'
  <2>1. /\ upgrade_lock /\ upgrade_lock' = upgrade_lock
        /\ left' = [left EXCEPT ![c] = 0] /\ last' = NoFragment /\ split' = split \ {c}
        /\ UNCHANGED <<precvbuffer, totallength, dat_sumlength, trust>>
    BY <1>7 DEF GiveUp, upgradeVars, device
  <2>2. TypeOK'
    BY <1>0, <2>1, NoFragmentServed, Bounds DEF TypeOK
  <2> QED
    BY <2>1, <2>2, NoFragmentServed DEF ReceiveInv
<1>8. CASE LockTimer
  <2>1. /\ last' = NoFragment
        /\ UNCHANGED <<precvbuffer, totallength, dat_sumlength, split, left>>
        /\ IF Idle THEN trust' = trust ELSE trust' = "lost"
        /\ upgrade_lock
    BY <1>8 DEF LockTimer, CheckTimer, TimeLimit, UpgradeInv, LockInv, Untrusted
  <2>2. TypeOK'
    BY <1>0, <2>1, NoFragmentServed DEF TypeOK
  <2>4. trust' # "lost" => /\ split' = {} /\ \A c \in Client : left'[c] = 0
                           /\ totallength' = 0 /\ dat_sumlength' = 0
    BY <2>1 DEF Idle, NothingUnderLock
  <2>5. TrustInv'
    BY <2>4 DEF TrustInv, Trusted
  <2> QED
    BY <2>1, <2>2, <2>5, NoFragmentServed DEF ReceiveInv
<1>9. CASE CleanUp
    BY <1>9, Zenon DEF CleanUp, DeinitTimer, vars, ReceiveInv, TypeOK, ServedWhole, NotServedEarly,
                       TrustInv, Trusted, Idle
<1>10. CASE PowerUp
  <2>1. Init'
    BY <1>10 DEF PowerUp, Init, NoFragment
  <2>2. IInv'
    BY <2>1, Initially, PTL
  <2> QED
    BY <2>2 DEF IInv, ReceiveInv, TrustInv
<1>11. CASE UNCHANGED serverVars
    BY <1>11, Zenon DEF serverVars, vars, upgradeVars, device, ReceiveInv, TypeOK, ServedWhole,
                        NotServedEarly, TrustInv, Trusted, Idle
<1> QED
    BY <1>1, <1>2, <1>3, <1>4, <1>5, <1>6, <1>7, <1>8, <1>9, <1>10, <1>11 DEF ServerNext

\* Every step of the web server is one of LocalUpgrade, or leaves it alone.
LEMMA StepRefines == UpgradeTypeOK /\ [ServerNext]_serverVars => [UpgradeNext]_upgradeVars
<1> SUFFICES ASSUME UpgradeTypeOK, [ServerNext]_serverVars PROVE [UpgradeNext]_upgradeVars
    OBVIOUS
<1>1. CASE Request
    BY <1>1 DEF Request
<1>2. CASE PostStart
    BY <1>2 DEF PostStart, UpgradeNext
<1>3. ASSUME NEW c \in Client, NEW size \in 1..MaxSize, NEW n \in 0..MaxSize,
             UploadHead(c, size, n) \/ UploadHeadRest(c, size, n)
      PROVE  UpgradeNext
    BY <1>3 DEF UploadHead, UploadHeadRest, UpgradeNext
<1>4. ASSUME NEW c \in Client, NEW n \in 1..MaxSize, UploadBody(c, n)
      PROVE  UpgradeNext
    BY <1>4 DEF UploadBody, UpgradeNext
<1>0. ASSUME NEW n \in Nat \ {0}, Other(n) PROVE UpgradeNext
    <2>1. n \in 1..MaxImage
      BY <1>0, UpgradeBounds DEF Other, UpgradeTypeOK
    <2> QED
      BY <1>0, <2>1 DEF UpgradeNext
<1>5. ASSUME NEW c \in Client, NEW n \in 1..Head, NEW more \in BOOLEAN, OtherHead(c, n, more)
      PROVE  UpgradeNext
    <2>1. n \in Nat \ {0}
      BY UpgradeBounds
    <2> QED
      BY <1>0, <1>5, <2>1 DEF OtherHead
<1>6. ASSUME NEW c \in Client, NEW n \in 1..MaxBody, OtherBody(c, n)
      PROVE  UpgradeNext
    <2>1. n \in Nat \ {0}
      BY ReceiveAssumption
    <2> QED
      BY <1>0, <1>6, <2>1 DEF OtherBody
<1>7. ASSUME NEW c \in Client, GiveUp(c) PROVE UNCHANGED upgradeVars
    BY <1>7 DEF GiveUp
<1>8. CASE LockTimer
    BY <1>8 DEF LockTimer, UpgradeNext
<1>9. CASE CleanUp
    BY <1>9 DEF CleanUp, UpgradeNext
<1>10. CASE PowerUp
    BY <1>10 DEF PowerUp, UpgradeNext
<1>11. CASE UNCHANGED serverVars
    BY <1>11 DEF serverVars
<1> QED
    BY <1>1, <1>2, <1>3, <1>4, <1>5, <1>6, <1>7, <1>8, <1>9, <1>10, <1>11 DEF ServerNext

ServerInv == UpgradeInv /\ NothingUnderLock /\ ReceiveInv

LEMMA ServerInvStep ==
    ServerInv /\ [ServerNext]_serverVars => ServerInv' /\ [UpgradeNext]_upgradeVars
<1> SUFFICES ASSUME ServerInv, [ServerNext]_serverVars
             PROVE  ServerInv' /\ [UpgradeNext]_upgradeVars
    OBVIOUS
<1>1. UpgradeInv /\ NothingUnderLock /\ ReceiveInv /\ UpgradeTypeOK
    BY DEF ServerInv, UpgradeInv
<1>2. [UpgradeNext]_upgradeVars
    BY <1>1, StepRefines
<1> QED
    BY <1>1, <1>2, UpgradeStep, UnderLockStep, ReceiveStep DEF ServerInv

LEMMA ServerInvariant == ServerSpec => []ServerInv
<1>1. ServerInit => ServerInv
    BY UpgradeInitInv, UnderLockInit, ReceiveInit DEF ServerInit, ServerInv
<1> QED
    BY <1>1, ServerInvStep, PTL DEF ServerSpec

-----------------------------------------------------------------------------
(* What a reader should know of *)

\* local_upgrade_download's variables keep their types.
THEOREM UpgradeTypeCorrect == ServerSpec => []UpgradeTypeOK
<1>1. ServerInv => UpgradeTypeOK
    BY DEF ServerInv, UpgradeInv
<1> QED
    BY <1>1, ServerInvariant, PTL

\* While upgrade_lock is set the SDK is set up to write, whatever timers of an
\* upgrade before expire.
THEOREM LockKeepsBuffer == ServerSpec => []LockHasBuffer
<1>1. ServerInv => LockHasBuffer
    BY DEF ServerInv, UpgradeInv
<1> QED
    BY <1>1, ServerInvariant, PTL

\* An image that is finished undisturbed, after an upload whose head came in one
\* fragment, is the whole file, in order, and no more; and with the last unit of the
\* file it is finished.
THEOREM WholeImage == ServerSpec => []FinishedExactly
<1>1. ServerInv => FinishedExactly
    BY DEF ServerInv, UpgradeInv, FinishedExactly
<1> QED
    BY <1>1, ServerInvariant, PTL

\* The lock is set as long as upgrade_check_timer is armed: something always comes to
\* release it, and when it expires or is disarmed the lock is clear.
THEOREM LockIsTimed == ServerSpec => [](upgrade_lock <=> upgrade_check_timer)
<1>1. ServerInv => (upgrade_lock <=> upgrade_check_timer)
    BY DEF ServerInv, UpgradeInv, LockInv
<1> QED
    BY <1>1, ServerInvariant, PTL

\* Nothing of a request is left in the buffer and the counters during an upgrade.
THEOREM LockIsClean == ServerSpec => []NothingUnderLock
<1>1. ServerInv => NothingUnderLock
    BY DEF ServerInv
<1> QED
    BY <1>1, ServerInvariant, PTL

\* Requests before and after upgrades are served whole, from a buffer that holds
\* nothing else, and not before they are there, if their heads come in one fragment,
\* their bodies are not too long and they cross no others.
THEOREM ServerServes == ServerSpec => []ServedRightly
<1>1. ServerInv => ServedRightly
    BY DEF ServerInv, ReceiveInv, ServedRightly
<1> QED
    BY <1>1, ServerInvariant, PTL
=============================================================================
