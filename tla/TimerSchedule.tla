--------------------------- MODULE TimerSchedule ---------------------------
(***************************************************************************)
(* The timers that the cloud sends, app/user/user_esp_platform_timer.c: a  *)
(* message gives the time and a list of timers, of which the device waits  *)
(* for the first.  As os_timer_arm takes no long time, it waits an hour at *)
(* a time.  Nothing in this application calls user_platform_timer_start.   *)
(*                                                                         *)
(* What is waited for is noted in a structure on the stack of              *)
(* esp_platform_timer_action, which returns; the callbacks go on reading   *)
(* there.                                                                  *)
(***************************************************************************)
EXTENDS Integers, Sequences

CONSTANTS Hour, Week,   \* seconds
          WeekBase,     \* 1388937600, when a week begins
          Far,          \* 0xFFFFFFF, when there is nothing to wait for
          Stamps,       \* bound: the times a message gives
          Lists         \* bound: the lists of timers it gives, up to 20 each; a
                        \* weekly one has a second of the week

Mode == {"f", "l", "w", "none"}

ASSUME TimerAssumption ==
    /\ Hour \in Nat \ {0} /\ Week \in Nat \ {0} /\ WeekBase \in Nat /\ Far \in Nat
    /\ \A s \in Stamps : s \in Nat /\ s >= WeekBase
    /\ Lists \subseteq Seq([mode : Mode, time : Nat \ {0}])
    /\ \A list \in Lists : \A i \in DOMAIN list : list[i].mode = "w" => list[i].time <= Week

Off == [fn |-> "off", left |-> 0]

VARIABLES
    timestamp, min_wait_second,
    timer_splits,      \* the list
    device_timer,      \* its callback and the seconds left
    pwait_action,      \* the structure: min_time_backup, and which of the list's
                       \* timers are to act; for those of a list before, {}
    \* history
    elapsed,           \* seconds since the list came, at timestamp for the code
    acting,            \* the timers it noted, when there was a list to wait for
    kept               \* whether the stack is as it was left

timerVars == <<timestamp, min_wait_second, timer_splits, device_timer, pwait_action,
               elapsed, acting, kept>>

\* os_timer_arm is never given more than an hour.
TimerTypeOK ==
    /\ timestamp \in Nat
    /\ min_wait_second \in 0..Far
    /\ timer_splits \in Seq([mode : Mode, time : Nat \ {0}])
    /\ device_timer.fn \in {"off", "check", "action"} /\ device_timer.left \in 0..Hour
    /\ pwait_action.min_time_backup \in Int
    /\ pwait_action.action \subseteq DOMAIN timer_splits
    /\ elapsed \in 0..Far /\ acting \subseteq DOMAIN timer_splits
    /\ kept \in BOOLEAN

TimerInit ==
    /\ timestamp = 0 /\ min_wait_second = 0 /\ timer_splits = <<>>
    /\ device_timer = Off
    /\ pwait_action = [min_time_backup |-> 0, action |-> {}]
    /\ elapsed = 0 /\ acting = {} /\ kept = TRUE

-----------------------------------------------------------------------------
(* user_platform_timer_first_start                                         *)

\* Mutant: the week's day is not looked at.
WeeklyAlwaysNext(time, monday) == Week - monday + time

Weekly(time, monday) ==
    IF time > monday THEN time - monday ELSE Week - monday + time

WaitOf(timer, now) ==
    CASE timer.mode = "f" -> timer.time - now
      [] timer.mode = "l" -> timer.time - (now % timer.time)
      [] timer.mode = "w" -> Weekly(timer.time, (now - WeekBase) % Week)
      [] OTHER -> 0

\* Mutant: times that are over count, too.
MinTimeSigned(list, now) ==
    LET waits == {WaitOf(list[i], now) : i \in DOMAIN list}
    IN  CHOOSE w \in waits \cup {Far} : \A v \in waits : w <= v

\* esp_platform_find_min_time
MinTime(list, now) ==
    LET waits == {WaitOf(list[i], now) : i \in DOMAIN list}
        first == {w \in waits : w \in 0..Far-1 /\ \A v \in waits : v < 0 \/ w <= v}
    IN  IF first = {} THEN Far ELSE CHOOSE w \in first : TRUE

\* Mutant: the rest is armed after an hour.
ArmedWhole(left) == [fn |-> IF left >= Hour THEN "check" ELSE "action", left |-> left]

\* user_esp_platform_wait_time_overflow_check
Armed(left) == IF left >= Hour THEN [fn |-> "check", left |-> Hour]
                               ELSE [fn |-> "action", left |-> left]

Rest(left) == left - Hour

\* user_platform_timer_start, with the time if the message has one.  If the first
\* is due now, or there is a timer of no kind, nothing is armed or disarmed.  The
\* code adds nothing to timestamp while time goes on: for a list that comes without
\* the time it is the time of the message before again, and elapsed, which is kept
\* for the properties, counts from there, too.
Message(list, now) ==
    /\ timestamp' = now
    /\ timer_splits' = list
    /\ elapsed' = 0
    /\ IF list = <<>>
       THEN /\ min_wait_second' = 0
            /\ device_timer' = Off
            /\ acting' = {}
            /\ pwait_action' = [pwait_action EXCEPT !.action = {}]
            /\ UNCHANGED kept
       ELSE LET min == MinTime(list, now)
                first == {i \in DOMAIN list : WaitOf(list[i], now) = min}
            IN  /\ min_wait_second' = min
                /\ IF min = 0
                   THEN /\ pwait_action' = [pwait_action EXCEPT !.action = {}]
                        /\ acting' = {}
                        /\ UNCHANGED <<device_timer, kept>>
                   ELSE /\ device_timer' = Armed(min)
                        /\ pwait_action' = [min_time_backup |-> Rest(min), action |-> first]
                        /\ acting' = first
                        /\ kept' = TRUE

-----------------------------------------------------------------------------
(* The callbacks *)

Second ==
    /\ device_timer.left > 0 /\ elapsed < Far
    /\ device_timer' = [device_timer EXCEPT !.left = @ - 1]
    /\ elapsed' = elapsed + 1
    /\ UNCHANGED <<timestamp, min_wait_second, timer_splits, pwait_action, acting, kept>>

\* Another function's frame is where the structure was.
StackReused ==
    /\ device_timer # Off
    /\ \E left \in {0, Hour - 1, Hour} :
           pwait_action' = [min_time_backup |-> left, action |-> {}]
    /\ kept' = FALSE
    /\ UNCHANGED <<timestamp, min_wait_second, timer_splits, device_timer, elapsed, acting>>

OverflowCheck ==
    /\ device_timer = [fn |-> "check", left |-> 0]
    /\ device_timer' = Armed(pwait_action.min_time_backup)
    /\ pwait_action' = [pwait_action EXCEPT !.min_time_backup = Rest(@)]
    /\ UNCHANGED <<timestamp, min_wait_second, timer_splits, elapsed, acting, kept>>

\* user_esp_platform_device_action, which does nothing here
DeviceAction ==
    /\ device_timer = [fn |-> "action", left |-> 0]
    /\ device_timer' = Off
    /\ UNCHANGED <<timestamp, min_wait_second, timer_splits, pwait_action, elapsed, acting, kept>>

\* A message without the time comes after one with it.
TimerNext == \/ \E list \in Lists, now \in Stamps \cup {timestamp} :
                    now # 0 /\ Message(list, now)
             \/ Second \/ StackReused \/ OverflowCheck \/ DeviceAction

TimerSpec == TimerInit /\ [][TimerNext]_timerVars

-----------------------------------------------------------------------------
(* Properties *)

\* What the three kinds of timer mean: at a time, whenever the time is a multiple,
\* and once a week.
DueAt(timer, now) ==
    CASE timer.mode = "f" -> now = timer.time
      [] timer.mode = "l" -> now % timer.time = 0
      [] timer.mode = "w" -> (now - WeekBase) % Week = timer.time % Week
      [] OTHER -> FALSE

DueNow(after) == {i \in DOMAIN timer_splits : DueAt(timer_splits[i], timestamp + after)}

\* The action runs when the first timers of the list are due, for these timers,
\* and not for one that is due later or was due before: over any number of hours,
\* week ends and loops, and lists that follow each other.  Due is by the time that
\* the code takes it for: the timers of a list that came without the time, some
\* seconds after the last message with it, act these seconds late.  (A list whose fixed
\* times are over is due never; what the callbacks do when the stack was reused is
\* another property's.)
OnTime == /\ pwait_action.action = DueNow(elapsed) /\ pwait_action.action # {}
          /\ \A before \in 1..elapsed-1 : DueNow(before) = {}

ActsOnTime ==
    [][DeviceAction /\ kept /\ acting # {} => OnTime]_timerVars

\* "Execute the actions of minimum wait time" (user_esp_platform_device_action).
ActsForMinimum ==
    [][DeviceAction /\ acting # {} => pwait_action.action = acting]_timerVars
=============================================================================
