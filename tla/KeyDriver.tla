----------------------------- MODULE KeyDriver -----------------------------
(***************************************************************************)
(* The key driver, app/driver/key.c, for the one key this application has. *)
(* The pin interrupt and two os timers share the key's state.  Time passes *)
(* in ticks, and only when nothing is due: the handlers take no time that  *)
(* a tick would show.  But the pin may change while a handler runs, unseen *)
(* because the interrupt's mode is not the one for that edge (Glitch).     *)
(***************************************************************************)
EXTENDS Integers

CONSTANTS Debounce,  \* 50 ms, in ticks
          Long       \* 5 s, in ticks

ASSUME KeyAssumption == /\ Debounce \in Nat \ {0}
                        /\ Long \in Nat /\ Long > Debounce

Off == -1            \* a timer that is not armed

VARIABLES
    input,      \* the pin: 1 while the key is up, 0 while it is pressed
    intr,       \* the pin's interrupt mode
    status,     \* the pin's bit in GPIO_STATUS: the handler is due
    pc,         \* "idle", in key_intr_handler, or in key_50ms_cb, which saw
                \* the key "up" or "down"
    key_level,
    key_5s,     \* ticks until key_5s_cb, or Off
    key_50ms,   \* ticks until key_50ms_cb, or Off
    fired,      \* long_press was called
    \* history, of what the user did
    upFor,      \* how long the key has been up: 0..Debounce+1
    lowFor,     \* how long it has been down: 0..Long+1
    released,   \* whether it has been up for over 50 ms since key_5s was armed
    clean,      \* whether the driver had seen it up when it was last pressed
    lost        \* whether it moved while a handler ran: "never", "now", or
                \* once, but it was pressed since ("was")

timers == <<key_5s, key_50ms>>
history == <<upFor, lowFor, released, clean, lost>>
vars == <<input, intr, status, pc, key_level, timers, fired, history>>

TypeOK ==
    /\ input \in {0, 1}
    /\ intr \in {"DISABLE", "NEGEDGE", "POSEDGE"}
    /\ status \in BOOLEAN
    /\ pc \in {"idle", "handler", "up", "down"}
    /\ key_level \in {0, 1}
    /\ key_5s \in {Off} \cup 0..Long
    /\ key_50ms \in {Off} \cup 0..Debounce
    /\ fired \in BOOLEAN
    /\ upFor \in 0..Debounce+1
    /\ lowFor \in 0..Long+1
    /\ released \in BOOLEAN
    /\ clean \in BOOLEAN
    /\ lost \in {"never", "now", "was"}

\* key_init.  A key that is down at this time makes user_sensor_init call
\* long_press, which restarts the device.
Init ==
    /\ input = 1 /\ intr = "NEGEDGE" /\ status = FALSE /\ pc = "idle"
    /\ key_level = 1 /\ key_5s = Off /\ key_50ms = Off
    /\ fired = FALSE
    /\ upFor = Debounce + 1 /\ lowFor = 0 /\ released = FALSE
    /\ clean = FALSE /\ lost = "never"

-----------------------------------------------------------------------------
(* The user and the clock *)

\* The pin changes; the edge is latched if the interrupt's mode is for it.
Edge == /\ input' = 1 - input
        /\ status' = (status \/ intr = IF input = 1 THEN "NEGEDGE" ELSE "POSEDGE")
        /\ upFor' = 0 /\ lowFor' = 0
        /\ UNCHANGED <<intr, pc, key_level, timers, fired, released>>

\* Nothing is due and no handler runs.
Quiet == ~fired /\ ~status /\ pc = "idle"

Press == /\ Quiet /\ input = 1
         /\ Edge
         /\ clean' = (key_level = 1)
         /\ lost' = IF lost = "never" THEN "never" ELSE "was"

Release == /\ Quiet /\ input = 0
           /\ Edge
           /\ UNCHANGED <<clean, lost>>

\* The pin changes before the handler of the last change is done.
Glitch == /\ ~fired /\ (status \/ pc # "idle")
          /\ Edge
          /\ clean' = FALSE
          /\ lost' = "now"

Left(timer) == IF timer = Off THEN Off ELSE timer - 1

Upto(bound, n) == IF n < bound THEN n + 1 ELSE bound

Tick ==
    /\ Quiet
    /\ key_5s # 0 /\ key_50ms # 0
    /\ key_5s' = Left(key_5s)
    /\ key_50ms' = Left(key_50ms)
    /\ IF input = 1
       THEN /\ upFor' = Upto(Debounce + 1, upFor)
            /\ released' = (released \/ upFor' > Debounce)
            /\ UNCHANGED lowFor
       ELSE /\ lowFor' = Upto(Long + 1, lowFor)
            /\ UNCHANGED <<upFor, released>>
    /\ UNCHANGED <<input, intr, status, pc, key_level, fired, clean, lost>>

-----------------------------------------------------------------------------
(* key.c *)

\* key_intr_handler, to the reading of key_level ...
HandlerEnter ==
    /\ ~fired /\ status /\ pc = "idle"
    /\ intr' = "DISABLE"
    /\ status' = FALSE
    /\ pc' = "handler"
    /\ UNCHANGED <<input, key_level, timers, fired, history>>

\* Mutant: key_5s is not armed.
HandlerLeaveUnarmed ==
    /\ ~fired /\ pc = "handler"
    /\ pc' = "idle"
    /\ \/ /\ key_level = 1
          /\ key_level' = 0
          /\ intr' = "POSEDGE"
          /\ released' = FALSE
          /\ UNCHANGED timers
       \/ /\ key_level = 0
          /\ key_50ms' = Debounce
          /\ UNCHANGED <<key_level, intr, key_5s, released>>
    /\ UNCHANGED <<input, status, fired, upFor, lowFor, clean, lost>>

\* Mutant: the two timers' times are swapped.
HandlerLeaveSwapped ==
    /\ ~fired /\ pc = "handler"
    /\ pc' = "idle"
    /\ \/ /\ key_level = 1
          /\ key_5s' = Debounce
          /\ key_level' = 0
          /\ intr' = "POSEDGE"
          /\ released' = FALSE
          /\ UNCHANGED key_50ms
       \/ /\ key_level = 0
          /\ key_50ms' = Long
          /\ UNCHANGED <<key_level, intr, key_5s, released>>
    /\ UNCHANGED <<input, status, fired, upFor, lowFor, clean, lost>>

\* ... and from there: the key went down, or it may have come up.
HandlerLeave ==
    /\ ~fired /\ pc = "handler"
    /\ pc' = "idle"
    /\ \/ /\ key_level = 1
          /\ key_5s' = Long
          /\ key_level' = 0
          /\ intr' = "POSEDGE"
          /\ released' = FALSE
          /\ UNCHANGED key_50ms
       \/ /\ key_level = 0
          /\ key_50ms' = Debounce
          /\ UNCHANGED <<key_level, intr, key_5s, released>>
    /\ UNCHANGED <<input, status, fired, upFor, lowFor, clean, lost>>

\* key_50ms_cb, to the reading of the pin ...
Cb50msEnter ==
    /\ ~fired /\ ~status /\ pc = "idle"
    /\ key_50ms = 0
    /\ key_50ms' = Off
    /\ pc' = IF input = 1 THEN "up" ELSE "down"
    /\ UNCHANGED <<input, intr, status, key_level, key_5s, fired, history>>

\* Mutant: a key that came up leaves key_5s running.
Cb50msUpKeepsLong ==
    /\ pc = "up"
    /\ key_level' = 1
    /\ intr' = "NEGEDGE"
    /\ pc' = "idle"
    /\ UNCHANGED <<input, status, timers, fired, history>>

\* ... and from there: the key came up ...
Cb50msUp ==
    /\ pc = "up"
    /\ key_5s' = Off
    /\ key_level' = 1
    /\ intr' = "NEGEDGE"
    /\ pc' = "idle"
    /\ UNCHANGED <<input, status, key_50ms, fired, history>>

\* Mutant: a bounce leaves the interrupt off.
Cb50msDownDisabled ==
    /\ pc = "down"
    /\ pc' = "idle"
    /\ UNCHANGED <<input, intr, status, key_level, timers, fired, history>>

\* ... or it was a bounce.
Cb50msDown ==
    /\ pc = "down"
    /\ intr' = "POSEDGE"
    /\ pc' = "idle"
    /\ UNCHANGED <<input, status, key_level, timers, fired, history>>

\* key_5s_cb.  long_press restarts the device.
Cb5s ==
    /\ ~fired /\ ~status /\ pc = "idle"
    /\ key_5s = 0
    /\ key_5s' = Off
    /\ fired' = (input = 0)
    /\ UNCHANGED <<input, intr, status, pc, key_level, key_50ms, history>>

\* A boot that initialises the key, with the key up: key_init.
Reboot ==
    /\ fired
    /\ input' = 1 /\ intr' = "NEGEDGE" /\ status' = FALSE /\ pc' = "idle"
    /\ key_level' = 1 /\ key_5s' = Off /\ key_50ms' = Off
    /\ fired' = FALSE
    /\ upFor' = Debounce + 1 /\ lowFor' = 0 /\ released' = FALSE
    /\ clean' = FALSE /\ lost' = "never"

Driver == \/ HandlerEnter \/ HandlerLeave
          \/ Cb50msEnter \/ Cb50msUp \/ Cb50msDown
          \/ Cb5s
          \/ Reboot

Next == Press \/ Release \/ Glitch \/ Tick \/ Driver

Spec == Init /\ [][Next]_vars

-----------------------------------------------------------------------------
(* Properties *)

\* What the driver takes the key for is what it is, or key_50ms will tell.
InStep ==
    Quiet => /\ input = 1 => key_level = 1 \/ key_50ms # Off
             /\ input = 0 => key_level = 0

\* However the presses, bounces and timers interleave, the driver knows where
\* the key is; and when it missed edges because the key moved while a handler
\* ran, one clean press puts the two in step again.
Resynchronises == lost # "now" => InStep

\* key_5s runs, and long_press is called, only for a key that was not up for
\* longer than the debounce time since key_5s was armed: short presses do not
\* add up to a long one, whatever bounces, and in whichever order key_5s and
\* key_50ms are due.  (If an edge was missed, they may.)
LongPressIsOne == lost = "never" => (key_5s # Off \/ fired => ~released)

\* "5s, restart & enter softap mode" (key_intr_handler): a press that the driver
\* saw begin makes it call long_press in 5 s, whatever came before it.  (A press
\* that is a bounce in the driver's eyes goes on with the time of the first, and
\* has none left when key_5s expired while the key was up.)
PressFires == clean /\ lowFor > Long => fired
=============================================================================
