---------------------------- MODULE LocalUpgrade ----------------------------
(***************************************************************************)
(* How the web server takes a new program: upgrade_lock, the upgrade       *)
(* commands of webserver_recv, local_upgrade_download and the timers       *)
(* upgrade_check_timer and app_upgrade_10s, app/user/user_webserver.c.     *)
(* While upgrade_lock is set whatever a client sends is part of the image. *)
(*                                                                         *)
(* The image, and a request that is not part of one, are counted in units; *)
(* the head of a request is Head units, and may come in parts.             *)
(***************************************************************************)
EXTENDS Integers

CONSTANTS MaxSize,  \* bound: the size of an image
          MaxImage, \* bound: units received, and written, for one image
          Head

ASSUME UpgradeAssumption == /\ MaxSize \in Nat \ {0}
                            /\ MaxImage \in Nat /\ MaxImage >= MaxSize
                            /\ Head \in Nat \ {0}

VARIABLES
    upgrade_lock,
    flag,         \* the SDK's UPGRADE_FLAG_IDLE, _START or _FINISH
    buffer,       \* whether the SDK is set up to write an image
    upgrade_check_timer,  \* armed, 120 s
    app_upgrade_10s,      \* armed, 10 ms
    received, sumlength,  \* received is local_upgrade_download's totallength
    image,        \* [size |-> units written since system_upgrade_init,
                  \*  pure |-> whether they are the file's, in order]
    file,         \* the upload: [size |-> its size, left |-> units to come]
    upload        \* history: "clean", or "lost" once an upload was cut short, had
                  \* its head split or something else was sent while upgrade_lock
                  \* was set, and nothing was finished since

device == <<upgrade_lock, flag, buffer, upgrade_check_timer, app_upgrade_10s,
            received, sumlength, image>>
upgradeVars == <<device, file, upload>>

UpgradeTypeOK ==
    /\ upgrade_lock \in BOOLEAN
    /\ flag \in {"IDLE", "START", "FINISH"}
    /\ buffer \in BOOLEAN
    /\ upgrade_check_timer \in BOOLEAN
    /\ app_upgrade_10s \in BOOLEAN
    /\ received \in 0..MaxImage
    /\ sumlength \in 0..MaxSize
    /\ image \in [size : 0..MaxImage, pure : BOOLEAN]
    /\ file \in [size : 0..MaxSize, left : 0..MaxSize]
    /\ upload \in {"clean", "lost"}

NoFile == [size |-> 0, left |-> 0]

Blank == [size |-> 0, pure |-> TRUE]

UpgradeInit ==
    /\ upgrade_lock = FALSE /\ flag = "IDLE" /\ buffer = FALSE
    /\ upgrade_check_timer = FALSE /\ app_upgrade_10s = FALSE
    /\ received = 0 /\ sumlength = 0
    /\ image = Blank
    /\ file = NoFile
    /\ upload = "clean"

-----------------------------------------------------------------------------
(* webserver_recv *)

\* POST upgrade?command=start.  An upload that the client was in is over.
Start ==
    /\ ~upgrade_lock
    /\ upgrade_lock' = TRUE
    /\ buffer' = TRUE /\ image' = Blank
    /\ flag' = "START"
    /\ upgrade_check_timer' = TRUE
    /\ file' = NoFile
    /\ upload' = IF flag = "FINISH" THEN "clean"
                ELSE IF file.left > 0 THEN "lost" ELSE upload
    /\ UNCHANGED <<app_upgrade_10s, received, sumlength>>

\* What a boot finds: after POST upgrade?command=reset, which the SDK obeys once
\* an image is finished, or after a power failure.
Restart ==
    /\ upgrade_lock' = FALSE /\ flag' = "IDLE" /\ buffer' = FALSE
    /\ upgrade_check_timer' = FALSE /\ app_upgrade_10s' = FALSE
    /\ received' = 0 /\ sumlength' = 0
    /\ image' = Blank
    /\ file' = NoFile
    /\ upload' = "clean"

-----------------------------------------------------------------------------
(* local_upgrade_download *)

ImageWith(n, ours) == [size |-> image.size + n, pure |-> image.pure /\ ours]

\* Mutant: the file's head is written too.
HeadPartWritten(n) == ImageWith(Head + n, FALSE)

\* Of the file's first fragment only the file is written.
HeadPart(n) == ImageWith(n, image.size = 0)

\* Mutant: the count is not reset.
CountKeepsTotal(total, sum) ==
    IF total = sum
    THEN /\ flag' = "FINISH"
         /\ received' = total /\ sumlength' = 0
         /\ upgrade_check_timer' = FALSE
         /\ upgrade_lock' = FALSE
         /\ app_upgrade_10s' = TRUE
    ELSE /\ received' = total /\ sumlength' = sum
         /\ UNCHANGED <<flag, upgrade_check_timer, upgrade_lock, app_upgrade_10s>>

\* The end of local_upgrade_download, with upgrade_check_func where it is called.
Count(total, sum) ==
    IF total = sum
    THEN /\ flag' = "FINISH"
         /\ received' = 0 /\ sumlength' = 0
         /\ upgrade_check_timer' = FALSE
         /\ upgrade_lock' = FALSE
         /\ app_upgrade_10s' = TRUE
    ELSE /\ received' = total /\ sumlength' = sum
         /\ UNCHANGED <<flag, upgrade_check_timer, upgrade_lock, app_upgrade_10s>>

\* The end of the head of an upload of a file of the given size, of so many head units,
\* with the first n units of the file: it is taken for a head if nothing was received
\* before and the length is in it, and is a part of the image otherwise.
FileStarts(head, withLength, size, n) ==
    /\ upgrade_lock
    /\ n <= size
    /\ received + head + n <= MaxImage /\ image.size + head + n <= MaxImage
    /\ IF received = 0 /\ withLength
       THEN /\ image' = HeadPart(n)
            /\ Count(n, size)
       ELSE /\ image' = ImageWith(head + n, FALSE)
            /\ Count(received + head + n, sumlength)
    /\ file' = [size |-> size, left |-> size - n]
    /\ UNCHANGED buffer

\* A whole head
FileHead(size, n) ==
    /\ FileStarts(Head, TRUE, size, n)
    /\ upload' = IF file.left > 0 THEN "lost" ELSE upload

\* The rest of one whose first part came before, as Other if upgrade_lock was set
FileHeadRest(size, n) ==
    /\ \E head \in 1..Head, withLength \in BOOLEAN : FileStarts(head, withLength, size, n)
    /\ upload' = "lost"

\* Its next n units
FileBody(n) ==
    /\ upgrade_lock
    /\ n <= file.left
    /\ received + n <= MaxImage /\ image.size + n <= MaxImage
    /\ image' = ImageWith(n, TRUE)
    /\ Count(received + n, sumlength)
    /\ file' = [file EXCEPT !.left = file.left - n]
    /\ UNCHANGED <<buffer, upload>>

\* A request without a length, a part of a head, or n units of a request that began
\* before
Other(n) ==
    /\ upgrade_lock
    /\ received + n <= MaxImage /\ image.size + n <= MaxImage
    /\ image' = ImageWith(n, FALSE)
    /\ Count(received + n, sumlength)
    /\ upload' = "lost"
    /\ UNCHANGED <<buffer, file>>

-----------------------------------------------------------------------------
(* The timers *)

\* Mutant: only a finished upgrade is over.
TimeLimitFinished == upgrade_check_timer /\ flag = "FINISH"

\* 120 s are over, and so are the 10 ms of an upgrade before.
TimeLimit == upgrade_check_timer /\ ~app_upgrade_10s

\* upgrade_check_func, 120 s after the start.  What is left of the upload, if
\* anything comes, is then refused by save_data.
CheckTimer ==
    /\ TimeLimit
    /\ upgrade_check_timer' = FALSE
    /\ IF flag = "START"
       THEN buffer' = FALSE /\ flag' = "IDLE" /\ upgrade_lock' = FALSE
       ELSE IF flag = "FINISH"
            THEN upgrade_lock' = FALSE /\ UNCHANGED <<buffer, flag>>
            ELSE UNCHANGED <<buffer, flag, upgrade_lock>>
    /\ file' = NoFile
    /\ upload' = IF received > 0 \/ file.left > 0 THEN "lost" ELSE upload
    /\ UNCHANGED <<app_upgrade_10s, received, sumlength, image>>

\* Mutant: whatever the SDK is doing.
InUseNever == FALSE

InUse == flag = "START"

\* local_upgrade_deinit, 10 ms after the end
DeinitTimer ==
    /\ app_upgrade_10s
    /\ app_upgrade_10s' = FALSE
    /\ buffer' = (buffer /\ InUse)
    /\ UNCHANGED <<upgrade_lock, flag, upgrade_check_timer, received, sumlength,
                   image, file, upload>>

UpgradeNext ==
    \/ Start \/ Restart
    \/ \E size \in 1..MaxSize, n \in 0..MaxSize : FileHead(size, n) \/ FileHeadRest(size, n)
    \/ \E n \in 1..MaxSize : FileBody(n)
    \/ \E n \in 1..MaxImage : Other(n)
    \/ CheckTimer \/ DeinitTimer

UpgradeSpec == UpgradeInit /\ [][UpgradeNext]_upgradeVars

-----------------------------------------------------------------------------
(* Properties *)

\* While upgrade_lock is set, the SDK is set up to write: the clean-up after one
\* upgrade does not take away the next one's buffer.
LockHasBuffer == upgrade_lock => buffer /\ flag = "START"

\* Unless an upload was cut short, its head came in parts or somebody else spoke, what
\* is finished is the whole file and nothing else.
FinishedIsWhole ==
    upload = "clean" /\ flag = "FINISH" => image.pure /\ image.size = file.size

\* And the file is finished when its last unit is there: what an upload before
\* left in the counters does not keep the device waiting.
WholeIsFinished ==
    upload = "clean" /\ upgrade_lock => file.size = 0 \/ file.left > 0

\* The web server is not taken up by an upgrade for ever.
LockIsReleased == upgrade_lock ~> ~upgrade_lock

\* local_upgrade_download finishes with the last unit, and never before.
FinishedExactly == FinishedIsWhole /\ WholeIsFinished
=============================================================================
