---------------------------- MODULE AtomicParam ----------------------------
(***************************************************************************)
(* What the parameter store of user_esp_platform.c promises its callers,   *)
(* "protect write and erase data while power off": the stored parameter    *)
(* block is one register.  A save replaces it as a whole at one instant,   *)
(* or, only when the device goes down first, not at all.                   *)
(***************************************************************************)
CONSTANTS Param,     \* the values a parameter block can have
          NoParam    \* not a member of Param: no save is under way

VARIABLES stored,    \* the block a boot would load now
          pending,   \* the block being saved and not yet effective
          up         \* whether the device is running

vars == <<stored, pending, up>>

TypeOK == /\ stored \in Param
          /\ pending \in Param \cup {NoParam}
          /\ up \in BOOLEAN

Init == /\ stored \in Param
        /\ pending = NoParam
        /\ up = FALSE

Boot == /\ ~up
        /\ up' = TRUE
        /\ UNCHANGED <<stored, pending>>

\* A caller starts to save p.
Begin(p) == /\ up
            /\ pending = NoParam
            /\ pending' = p
            /\ UNCHANGED <<stored, up>>

\* The save takes effect.
Commit == /\ up
          /\ pending # NoParam
          /\ stored' = pending
          /\ pending' = NoParam
          /\ UNCHANGED up

\* The device goes down, before or after a save under way takes effect.
GoDown == /\ up
          /\ up' = FALSE
          /\ pending' = NoParam
          /\ stored' \in {stored} \cup ({pending} \ {NoParam})

Next == Boot \/ (\E p \in Param : Begin(p)) \/ Commit \/ GoDown

Spec == Init /\ [][Next]_vars
=============================================================================
