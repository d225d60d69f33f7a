----------------------------- MODULE PwmDriver -----------------------------
(***************************************************************************)
(* Pulse width modulation on several pins, app/driver/pwm.c.  A table says *)
(* after which times which pins change; the interrupt of the hardware      *)
(* timer walks it.  pwm_start makes a table in the buffer that is not      *)
(* named by pwm_toggle, and then names it; the interrupt takes it up at    *)
(* the end of a period.  The interrupt may fall between the steps of       *)
(* pwm_start.  Nothing in this application calls the driver.               *)
(*                                                                         *)
(* A pin stands for its bit in the masks of GPIO pins; buffers are 0 and 1.*)
(***************************************************************************)
EXTENDS Integers, Sequences, SequencesExt

CONSTANTS PWM_CHANNEL,
          Settings   \* bound: the frequencies and duties asked for

PWM_DEPTH == 255

Uint16 == 0..65535

ASSUME PwmAssumption ==
    /\ PWM_CHANNEL \in 1..127
    /\ Settings \subseteq [freq : Uint16, duty : [1..PWM_CHANNEL -> 0..PWM_DEPTH]]

VARIABLES
    pwm,                  \* period (us), duty
    pwm_single_toggle,    \* buffer -> its table; pwm_channel_toggle is its length
    pwm_toggle, pwm_timer_down, pwm_current_channel,
    pwm_single,           \* the buffer pwm_single and pwm_channel point into
    starting,             \* the step of pwm_start that is next, or "no"
    frc1,                 \* the timer's load: ticks until the interrupt
    high,                 \* the pins that are high
    \* history
    asked,                \* the settings of the last pwm_start that is through
    due,                  \* those of the period, or of the timer's stop
    on,                   \* pin -> ticks it was high since the period began
    walk                  \* the table walked in this period: the "first" since
                          \* the timer was started, a "whole" one, or one
                          \* "overwritten" meanwhile

playing == <<pwm_single, pwm_current_channel, frc1, high, on, due>>
pwmVars == <<pwm, pwm_single_toggle, pwm_toggle, pwm_timer_down, starting, playing, asked, walk>>

Pin == 1..PWM_CHANNEL

Entry == [set : SUBSET Pin, clear : SUBSET Pin, h_time : Uint16]

PwmTypeOK ==
    /\ \A s \in {pwm, asked, due} : s.period \in Uint16 /\ s.duty \in [Pin -> 0..PWM_DEPTH]
    /\ pwm_single_toggle \in [{0, 1} -> Seq(Entry)]
    /\ \A b \in {0, 1} : Len(pwm_single_toggle[b]) <= PWM_CHANNEL + 1
    /\ pwm_toggle \in {0, 1} /\ pwm_single \in {0, 1}
    /\ pwm_timer_down \in BOOLEAN
    /\ pwm_current_channel \in 0..PWM_CHANNEL
    /\ starting \in {"no", "timer", "toggle", "loaded"}
    /\ frc1 \in Uint16
    /\ high \subseteq Pin
    /\ on \in [Pin -> Nat]
    /\ walk \in {"first", "whole", "overwritten"}

-----------------------------------------------------------------------------
(* The settings *)

\* pwm_set_freq and pwm_set_duty.  The period is 16 bits wide.
Set(freq, duty) ==
    [period |-> (1000000 \div (IF freq > 500 THEN 500 ELSE IF freq < 1 THEN 1 ELSE freq))
                    % 65536,
     duty |-> [p \in Pin |-> IF duty[p] >= PWM_DEPTH THEN PWM_DEPTH ELSE duty[p]]]

\* US_TO_RTC_TIMER_TICKS, 5 a microsecond, as an h_time of 16 bits
Ticks(us) == (5 * us) % 65536

OnTime(s, p) == Ticks((s.period * s.duty[p]) \div PWM_DEPTH)

-----------------------------------------------------------------------------
(* The steps of pwm_start that make a table *)

Channels(s) ==
    Append([p \in Pin |-> [set |-> {}, clear |-> {p}, h_time |-> OnTime(s, p)]],
           [set |-> Pin, clear |-> {}, h_time |-> Ticks(s.period)])

\* Mutant: the longest first.
InsertedDown(table, e) ==
    InsertAt(table, Max({0} \cup {i \in DOMAIN table : table[i].h_time >= e.h_time}) + 1, e)

\* pwm_insert_sort: an entry goes behind the last that is not longer.
Inserted(table, e) ==
    InsertAt(table, Max({0} \cup {i \in DOMAIN table : table[i].h_time <= e.h_time}) + 1, e)

\* What is sorted after each entry
SortedTo(table) ==
    LET s[i \in 0..Len(table)] == IF i = 0 THEN <<>> ELSE Inserted(s[i - 1], table[i])
    IN  s

Sorted(table) == SortedTo(table)[Len(table)]

\* Entries of the same time become one.
Joined(table, e) ==
    IF table # <<>> /\ Last(table).h_time = e.h_time
    THEN Append(Front(table), [set |-> Last(table).set \cup e.set,
                               clear |-> Last(table).clear \cup e.clear,
                               h_time |-> e.h_time])
    ELSE Append(table, e)

JoinedTo(table) ==
    LET s[i \in 0..Len(table)] == IF i = 0 THEN <<>> ELSE Joined(s[i - 1], table[i])
    IN  s

Combined(table) == JoinedTo(table)[Len(table)]

\* Mutant: the time since the first entry, not since the one before.
DeltasFromFirst(table) ==
    [i \in DOMAIN table |->
        IF i = 1 THEN table[i]
        ELSE [table[i] EXCEPT !.h_time = @ - table[1].h_time]]

Deltas(table) ==
    [i \in DOMAIN table |->
        IF i = 1 THEN table[i]
        ELSE [table[i] EXCEPT !.h_time = @ - table[i - 1].h_time]]

\* Pins that are always on are not cleared.
LastSets(table) == [table EXCEPT ![Len(table)].clear = {}]

\* Mutant: pins that are always off are set all the same.
WithoutZeroSet(table) == IF Head(table).h_time = 0 THEN Tail(table) ELSE table

\* Pins that are always off are cleared by the last entry, not by the first.
WithoutZero(table) ==
    IF Head(table).h_time = 0
    THEN Tail([table EXCEPT ![Len(table)].set = @ \ Head(table).clear,
                            ![Len(table)].clear = @ \cup Head(table).clear])
    ELSE table

Table(s) == WithoutZero(LastSets(Deltas(Combined(Sorted(Channels(s))))))

-----------------------------------------------------------------------------

\* gpio_output_set
Output(e) == high' = (high \cup e.set) \ e.clear

\* pwm_init, up to pwm_start
PwmInit ==
    /\ \E s \in Settings : pwm = Set(s.freq, s.duty)
    /\ pwm_single_toggle = [b \in {0, 1} |-> <<>>]
    /\ asked = pwm /\ due = pwm
    /\ pwm_toggle = 1 /\ pwm_timer_down = TRUE /\ pwm_current_channel = 0
    /\ pwm_single = 0 /\ frc1 = 0
    /\ starting = "no"
    /\ high = {} /\ on = [p \in Pin |-> 0] /\ walk = "first"

PwmSet == \E s \in Settings :
    /\ starting = "no"
    /\ pwm' = Set(s.freq, s.duty)
    /\ UNCHANGED <<pwm_single_toggle, pwm_toggle, pwm_timer_down, starting, playing, asked, walk>>

Spare == 1 - pwm_toggle

\* pwm_start makes the table.  If the interrupt has not taken up the last one,
\* this is the table it walks.
PwmStart ==
    /\ starting = "no"
    /\ pwm_single_toggle' = [pwm_single_toggle EXCEPT ![Spare] = Table(pwm)]
    /\ walk' = IF pwm_single = Spare /\ ~pwm_timer_down THEN "overwritten" ELSE walk
    /\ starting' = "timer"
    /\ UNCHANGED <<pwm, pwm_toggle, pwm_timer_down, playing, asked>>

\* It starts the timer, if that is down ...
PwmStartTimer ==
    /\ starting = "timer"
    /\ IF pwm_timer_down
       THEN LET table == pwm_single_toggle[Spare] IN
            /\ starting' = IF Len(table) = 1 THEN "toggle" ELSE "loaded"
            /\ pwm_single' = Spare
            /\ Output(table[1])
            /\ pwm_timer_down' = (Len(table) = 1)
            /\ frc1' = IF Len(table) = 1 THEN frc1 ELSE table[1].h_time
            /\ walk' = "first"
            /\ due' = pwm
       ELSE /\ starting' = "toggle"
            /\ UNCHANGED <<pwm_single, high, pwm_timer_down, frc1, walk, due>>
    /\ UNCHANGED <<pwm, pwm_single_toggle, pwm_toggle, pwm_current_channel, on, asked>>

OtherToggle == 1 - pwm_toggle

\* Mutant: the table is taken up at once.
PwmStartToggleAtOnce ==
    /\ starting \in {"toggle", "loaded"}
    /\ starting' = "no"
    /\ pwm_toggle' = OtherToggle
    /\ pwm_single' = OtherToggle
    /\ asked' = pwm
    /\ UNCHANGED <<pwm, pwm_single_toggle, pwm_timer_down, pwm_current_channel, frc1, high, on,
                   due, walk>>

\* ... and names the table.
PwmStartToggle ==
    /\ starting \in {"toggle", "loaded"}
    /\ starting' = "no"
    /\ pwm_toggle' = OtherToggle
    /\ asked' = pwm
    /\ UNCHANGED <<pwm, pwm_single_toggle, pwm_timer_down, playing, walk>>

\* pwm_tim1_intr_handler, after the time loaded, at the end of a period.
\* (The few instructions left of a pwm_start that has just loaded the timer take
\* less than a period.)  ...
LastEntry == pwm_current_channel = Len(pwm_single_toggle[pwm_single]) - 1

OnUntilNow(p) == on[p] + IF p \in high THEN frc1 ELSE 0

PeriodEnds ==
    /\ ~pwm_timer_down /\ starting # "loaded"
    /\ LastEntry
    /\ pwm_single' = pwm_toggle
    /\ pwm_current_channel' = 0
    /\ LET table == pwm_single_toggle[pwm_toggle] IN
       /\ Output(Last(table))
       /\ pwm_timer_down' = (Len(table) = 1)
       /\ frc1' = IF Len(table) = 1 THEN frc1 ELSE table[1].h_time
    /\ on' = [p \in Pin |-> 0]
    /\ due' = asked
    /\ walk' = "whole"
    /\ UNCHANGED <<pwm, pwm_single_toggle, pwm_toggle, starting, asked>>

\* ... or within.  A table that was overwritten by a shorter one may end before
\* the place the handler is at; what it reads then is not modelled.
EntryEnds ==
    /\ ~pwm_timer_down
    /\ pwm_current_channel < Len(pwm_single_toggle[pwm_single]) - 1
    /\ Output(pwm_single_toggle[pwm_single][pwm_current_channel + 1])
    /\ pwm_current_channel' = pwm_current_channel + 1
    /\ frc1' = pwm_single_toggle[pwm_single][pwm_current_channel + 2].h_time
    /\ on' = [p \in Pin |-> OnUntilNow(p)]
    /\ UNCHANGED <<pwm, pwm_single_toggle, pwm_toggle, pwm_timer_down, pwm_single, starting,
                   due, asked, walk>>

PwmNext == \/ PwmSet
           \/ PwmStart \/ PwmStartTimer \/ PwmStartToggle
           \/ PeriodEnds \/ EntryEnds

PwmSpec == PwmInit /\ [][PwmNext]_pwmVars

-----------------------------------------------------------------------------
(* Properties *)

\* Whether a period's ticks fit 16 bits: from 77 Hz up
Fits(s) == 5 * s.period < 65536

\* In a period that was walked from one table each pin is high, to the tick, for
\* the duty the last pwm_start had for it when the period began: pins of equal
\* duty, of duty 0 and of full duty share entries, and pwm_start works meanwhile.
DutyKept ==
    [][PeriodEnds /\ walk = "whole" /\ Fits(due) =>
         \A p \in Pin : OnUntilNow(p) = OnTime(due, p)]_pwmVars

\* A stopped timer leaves every pin where its duty, nothing or all, wants it.
StoppedIsRight ==
    pwm_timer_down /\ starting = "no" /\ pwm_single_toggle[pwm_single] # <<>> /\ Fits(due) =>
        \A p \in Pin : due.duty[p] = IF p \in high THEN PWM_DEPTH ELSE 0

\* "if timer is down, need to set gpio and start timer" (pwm_start): a timer that
\* is down has played what was asked for last.
NewestPlayed == pwm_timer_down /\ starting = "no" => due = asked

\* The handler's place is within its table, wherever in pwm_start the interrupt
\* falls - while pwm_start is not called again before the table it made last is
\* taken up, which overwrites the table that is walked.
PlaceInTable ==
    ~pwm_timer_down /\ walk # "overwritten" =>
        pwm_current_channel < Len(pwm_single_toggle[pwm_single])

\* The pins do what was asked for, while the timer runs and when it is down, and
\* the handler stays within the table it walks.
PlayedRightly == []StoppedIsRight /\ []PlaceInTable /\ DutyKept
=============================================================================
