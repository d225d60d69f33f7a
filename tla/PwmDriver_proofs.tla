-------------------------- MODULE PwmDriver_proofs --------------------------
(***************************************************************************)
(* Proofs about pulse width modulation, for every number of channels and   *)
(* all frequencies and duties.                                             *)
(*                                                                         *)
(* First the table pwm_start makes: sorting keeps the entries and puts     *)
(* them in order (SortedFacts), joining leaves one for each time           *)
(* (CombinedFacts), and where the ticks of a period fit 16 bits what is    *)
(* left after the differences clears each pin at its time (TableIs).  The  *)
(* loops are recursive functions; what they have at each place is shown up *)
(* to each of them, by UpTo.                                               *)
(*                                                                         *)
(* Then the two buffers: TablesInv says whose table each one holds while   *)
(* pwm_start and the interrupt cross, and WholeInv how far each pin's time *)
(* has come when the handler is at an entry.                               *)
(***************************************************************************)
EXTENDS PwmDriver, SequenceTheorems, WellFoundedInduction, TLAPS

-----------------------------------------------------------------------------
(* Loops                                                                   *)

\* What holds of nothing, and of one more whenever it holds of some, holds of all.
LEMMA UpTo ==
    ASSUME NEW n \in Nat, NEW S, 0 \in S, \A i \in 0..n-1 : i \in S => i + 1 \in S
    PROVE  \A i \in 0..n : i \in S
<1> DEFINE bad == {i \in 0..n : i \notin S}
<1> SUFFICES ASSUME bad # {} PROVE FALSE
    OBVIOUS
<1>1. bad \subseteq Nat
    OBVIOUS
<1>2. PICK w \in bad : \A v \in Nat : <<v, w>> \in OpToRel(<, Nat) => v \notin bad
    BY <1>1, NatLessThanWellFounded, WFMin
<1>3. \A v \in Nat : v < w => v \notin bad
    BY <1>1, <1>2 DEF OpToRel
<1>4. w \in 1..n /\ w \notin S
    <2>1. w \in 0..n /\ w \notin S
        BY <1>2
    <2>2. w # 0
        BY <2>1
    <2> QED BY <2>1, <2>2
<1>5. w - 1 \in Nat /\ w - 1 < w /\ w - 1 \in 0..n-1
    BY <1>4
<1>6. w - 1 \in S
    BY <1>3, <1>5
<1>7. (w - 1) + 1 \in S
    BY <1>5, <1>6
<1> QED BY <1>4, <1>7

\* Such a function is made one place at a time.
Steps(g, n, X, first, step) ==
    g \in [0..n -> X] /\ g[0] = first /\ \A i \in 1..n : g[i] = step[i][g[i - 1]]

LEMMA Recursion ==
    ASSUME NEW n \in Nat, NEW X, NEW first \in X, NEW step \in [1..n -> [X -> X]]
    PROVE  \E g : Steps(g, n, X, first, step)
<1> DEFINE Runs(g, m) == g[0] = first /\ \A i \in 1..m : g[i] = step[i][g[i - 1]]
           reached == {m \in 0..n : \E g \in [0..m -> X] : Runs(g, m)}
<1>1. 0 \in reached
    <2>1. [i \in 0..0 |-> first] \in [0..0 -> X] /\ Runs([i \in 0..0 |-> first], 0)
        OBVIOUS
    <2>2. 0 \in 0..n
        OBVIOUS
    <2> HIDE DEF Runs
    <2> QED BY <2>1, <2>2
<1>2. ASSUME NEW m \in 0..n-1, m \in reached PROVE m + 1 \in reached
    <2>1. PICK g \in [0..m -> X] : Runs(g, m)
        BY <1>2
    <2>2. m + 1 \in 1..n /\ m + 1 \in 0..n /\ m \in 0..m
        OBVIOUS
    <2>3. step[m + 1] \in [X -> X]
        BY <2>2
    <2>4. step[m + 1][g[m]] \in X
        BY <2>2, <2>3
    <2> DEFINE h == [i \in 0..m+1 |-> IF i <= m THEN g[i] ELSE step[m + 1][g[m]]]
    <2>5. h \in [0..m+1 -> X]
        <3>1. \A i \in 0..m+1 : i <= m => i \in 0..m
            OBVIOUS
        <3> QED BY <2>4, <3>1
    <2>6. h[0] = first
        BY <2>1
    <2>7. ASSUME NEW i \in 1..m+1 PROVE h[i] = step[i][h[i - 1]]
        <3>1. CASE i \in 1..m
            <4>1. h[i] = g[i] /\ h[i - 1] = g[i - 1]
                BY <3>1
            <4>2. g[i] = step[i][g[i - 1]]
                BY <2>1, <3>1
            <4> HIDE DEF h
            <4> QED BY <4>1, <4>2
        <3>2. CASE i = m + 1
            <4>1. h[m + 1] = step[m + 1][g[m]] /\ h[m] = g[m] /\ (m + 1) - 1 = m
                OBVIOUS
            <4> HIDE DEF h
            <4> QED BY <3>2, <4>1
        <3> QED BY <3>1, <3>2
    <2> HIDE DEF h
    <2>8. Runs(h, m + 1)
        BY <2>6, <2>7
    <2> HIDE DEF Runs
    <2> QED BY <2>2, <2>5, <2>8
<1>3. n \in reached
    <2> HIDE DEF reached
    <2>1. \A i \in 0..n : i \in reached
        BY <1>1, <1>2, UpTo
    <2> QED BY <2>1
<1> QED BY <1>3 DEF Steps

\* A set of numbers up to n has a largest.
LEMMA MaxIs ==
    ASSUME NEW n \in Nat, NEW S, S \subseteq 0..n, S # {}
    PROVE  Max(S) \in S /\ \A x \in S : Max(S) >= x
<1> DEFINE below == {n - x : x \in S}
<1>1. below \subseteq Nat /\ below # {}
    OBVIOUS
<1>2. PICK w \in below : \A v \in Nat : <<v, w>> \in OpToRel(<, Nat) => v \notin below
    BY <1>1, NatLessThanWellFounded, WFMin
<1>3. \A v \in Nat : v < w => v \notin below
    BY <1>1, <1>2 DEF OpToRel
<1>4. PICK m \in S : w = n - m
    OBVIOUS
<1>5. ASSUME NEW x \in S PROVE m >= x
    <2>1. n - x \in below
        OBVIOUS
    <2>3. x \in 0..n /\ m \in 0..n /\ n - x \in Nat
        <3> HIDE DEF below
        <3> QED OBVIOUS
    <2>2. ~(n - x < w)
        BY <1>3, <2>1, <2>3
    <2> HIDE DEF below
    <2> QED BY <1>4, <2>2, <2>3
<1>6. \E m1 \in S : \A x \in S : m1 >= x
    BY <1>5
<1> QED BY <1>6 DEF Max

-----------------------------------------------------------------------------
(* The table of pwm_start                                                  *)

\* What a table has at its places
Ascending(x) == \A i, j \in 1..Len(x) : i <= j => x[i].h_time <= x[j].h_time

Elems(x) == {x[i] : i \in 1..Len(x)}

LEMMA Uint16Is == \A t \in Int : t \in Uint16 <=> 0 <= t /\ t <= 65535
BY DEF Uint16

LEMMA Uint16Nat == \A t \in Uint16 : t \in Nat /\ t \in Int
BY DEF Uint16

LEMMA EntryTime == ASSUME NEW e \in Entry PROVE e.h_time \in Uint16 /\ e.h_time \in Int
<1>1. e.h_time \in Uint16
    BY DEF Entry
<1> QED BY <1>1, Uint16Nat

\* An entry is behind those that are not longer, and before the others.
InsertedAt(y, x, k, e) ==
    /\ y \in Seq(Entry) /\ Len(y) = Len(x) + 1
    /\ \A i \in 1..k : y[i] = x[i]
    /\ y[k + 1] = e
    /\ \A i \in k+2..Len(x)+1 : y[i] = x[i - 1]

LEMMA InsertIsAt ==
    ASSUME NEW x \in Seq(Entry), NEW e \in Entry, NEW k \in 0..Len(x)
    PROVE  InsertedAt(InsertAt(x, k + 1, e), x, k, e)
<1> DEFINE a == SubSeq(x, 1, k)
           b == SubSeq(x, k + 1, Len(x))
           ae == a \o <<e>>
           y == ae \o b
<1>1. Len(x) \in Nat /\ k \in Nat
    OBVIOUS
<1>2. a \in Seq(Entry) /\ Len(a) = k /\ \A i \in 1..k : a[i] = x[i]
    BY <1>1
<1>3. b \in Seq(Entry) /\ Len(b) = Len(x) - k /\ \A i \in 1..Len(x)-k : b[i] = x[k + i]
    BY <1>1
<1> HIDE DEF a, b
<1>4. ae \in Seq(Entry) /\ Len(ae) = k + 1 /\ ae[k + 1] = e /\ \A i \in 1..k : ae[i] = a[i]
    BY <1>1, <1>2
<1> HIDE DEF ae
<1>5. y \in Seq(Entry) /\ Len(y) = Len(x) + 1
    <2>1. y \in Seq(Entry)
        BY <1>3, <1>4
    <2>2. \A u, v \in Seq(Entry) : Len(u \o v) = Len(u) + Len(v)
        OBVIOUS
    <2>3. Len(y) = Len(ae) + Len(b)
        BY <1>3, <1>4, <2>2
    <2> HIDE DEF y
    <2> QED BY <1>1, <1>3, <1>4, <2>1, <2>3
<1>6. \A i \in 1..k+1 : y[i] = ae[i]
    BY <1>1, <1>3, <1>4
<1>7. \A i \in k+2..Len(x)+1 : y[i] = b[i - (k + 1)]
    BY <1>1, <1>3, <1>4
<1>8. InsertAt(x, k + 1, e) = y
    <2>1. (k + 1) - 1 = k
        BY <1>1
    <2> QED BY <2>1 DEF InsertAt, a, b, ae
<1> HIDE DEF y
<1>9. \A i \in 1..k : y[i] = x[i]
    BY <1>1, <1>2, <1>4, <1>6
<1>10. y[k + 1] = e
    BY <1>1, <1>4, <1>6
<1>11. ASSUME NEW i \in k+2..Len(x)+1 PROVE y[i] = x[i - 1]
    <2>1. i - (k + 1) \in 1..Len(x)-k /\ k + (i - (k + 1)) = i - 1
        BY <1>1
    <2> QED BY <1>3, <1>7, <2>1
<1> QED BY <1>5, <1>8, <1>9, <1>10, <1>11 DEF InsertedAt

LEMMA InsertedFacts ==
    ASSUME NEW x \in Seq(Entry), NEW e \in Entry
    PROVE  /\ Inserted(x, e) \in Seq(Entry) /\ Len(Inserted(x, e)) = Len(x) + 1
           /\ Elems(Inserted(x, e)) = Elems(x) \cup {e}
           /\ Ascending(x) => Ascending(Inserted(x, e))
<1> DEFINE S == {0} \cup {i \in DOMAIN x : x[i].h_time <= e.h_time}
           k == Max(S)
           y == Inserted(x, e)
<1>1. Len(x) \in Nat /\ DOMAIN x = 1..Len(x)
    OBVIOUS
<1>2. S \subseteq 0..Len(x) /\ S # {}
    BY <1>1
<1>3. k \in S /\ \A i \in S : k >= i
    <2> HIDE DEF S
    <2> QED BY <1>1, <1>2, MaxIs
<1>4. k \in 0..Len(x)
    BY <1>2, <1>3
<1>5. \A i \in 1..Len(x) : x[i] \in Entry /\ x[i].h_time \in Int
    BY EntryTime
<1>6. e.h_time \in Int
    BY EntryTime
<1>7. k > 0 => x[k].h_time <= e.h_time
    BY <1>1, <1>3, <1>4
<1>8. \A i \in 1..Len(x) : i > k => e.h_time < x[i].h_time
    <2> SUFFICES ASSUME NEW i \in 1..Len(x), i > k, ~(e.h_time < x[i].h_time) PROVE FALSE
        OBVIOUS
    <2>1. x[i].h_time <= e.h_time
        BY <1>5, <1>6
    <2>2. i \in S
        BY <1>1, <2>1
    <2>3. k >= i
        BY <1>3, <2>2
    <2> QED BY <1>4, <2>3
<1>9. InsertedAt(y, x, k, e)
    BY <1>4, InsertIsAt DEF Inserted
<1> HIDE DEF k, S, y
<1>10. /\ y \in Seq(Entry) /\ Len(y) = Len(x) + 1
       /\ \A i \in 1..k : y[i] = x[i]
       /\ y[k + 1] = e
       /\ \A i \in k+2..Len(x)+1 : y[i] = x[i - 1]
    BY <1>9 DEF InsertedAt
<1>11. Elems(y) = Elems(x) \cup {e}
    <2>1. ASSUME NEW i \in 1..Len(y) PROVE y[i] \in Elems(x) \cup {e}
        <3>1. CASE i \in 1..k
            BY <1>1, <1>4, <1>10, <3>1 DEF Elems
        <3>2. CASE i = k + 1
            BY <1>10, <3>2
        <3>3. CASE i \in k+2..Len(x)+1
            <4>1. i - 1 \in 1..Len(x) /\ y[i] = x[i - 1]
                BY <1>1, <1>4, <1>10, <3>3
            <4> QED BY <4>1 DEF Elems
        <3> QED BY <1>1, <1>4, <1>10, <3>1, <3>2, <3>3
    <2>2. e \in Elems(y)
        <3>1. k + 1 \in 1..Len(y)
            BY <1>1, <1>4, <1>10
        <3> QED BY <1>10, <3>1 DEF Elems
    <2>3. ASSUME NEW i \in 1..Len(x) PROVE x[i] \in Elems(y)
        <3>1. CASE i <= k
            <4>1. i \in 1..k /\ i \in 1..Len(y)
                BY <1>1, <1>4, <1>10, <3>1
            <4> QED BY <1>10, <4>1 DEF Elems
        <3>2. CASE i > k
            <4>1. i + 1 \in k+2..Len(x)+1 /\ i + 1 \in 1..Len(y) /\ (i + 1) - 1 = i
                BY <1>1, <1>4, <1>10, <3>2
            <4>2. y[i + 1] = x[i]
                BY <1>10, <4>1
            <4> QED BY <4>1, <4>2 DEF Elems
        <3> QED BY <1>4, <3>1, <3>2
    <2>4. Elems(y) \subseteq Elems(x) \cup {e}
        BY <2>1 DEF Elems
    <2>5. Elems(x) \subseteq Elems(y)
        BY <2>3 DEF Elems
    <2> QED BY <2>2, <2>4, <2>5
<1>12. ASSUME Ascending(x) PROVE Ascending(y)
    <2>1. \A i, j \in 1..Len(x) : i <= j => x[i].h_time <= x[j].h_time
        BY <1>12 DEF Ascending
    <2>2. \A i \in 1..k : i \in 1..Len(x) /\ x[i].h_time <= e.h_time
        <3> SUFFICES ASSUME NEW i \in 1..k PROVE i \in 1..Len(x) /\ x[i].h_time <= e.h_time
            OBVIOUS
        <3>1. k \in 1..Len(x) /\ i \in 1..Len(x) /\ i <= k
            BY <1>1, <1>4
        <3>2. x[i].h_time <= x[k].h_time
            BY <2>1, <3>1
        <3> QED BY <1>5, <1>6, <1>7, <3>1, <3>2
    <2>3. ASSUME NEW i \in 1..Len(y), NEW j \in 1..Len(y), i <= j
          PROVE  y[i].h_time <= y[j].h_time
        <3>1. i \in 1..k \/ i = k + 1 \/ i \in k+2..Len(x)+1
            BY <1>1, <1>4, <1>10
        <3>2. j \in 1..k \/ j = k + 1 \/ j \in k+2..Len(x)+1
            BY <1>1, <1>4, <1>10
        <3>3. CASE i \in 1..k
            <4>1. y[i] = x[i] /\ i \in 1..Len(x) /\ x[i].h_time <= e.h_time
                BY <1>10, <2>2, <3>3
            <4>2. CASE j \in 1..k
                BY <1>10, <2>1, <2>2, <2>3, <4>1, <4>2
            <4>3. CASE j = k + 1
                BY <1>10, <4>1, <4>3
            <4>4. CASE j \in k+2..Len(x)+1
                <5>1. y[j] = x[j - 1] /\ j - 1 \in 1..Len(x) /\ j - 1 > k
                    BY <1>1, <1>4, <1>10, <4>4
                <5>2. e.h_time < x[j - 1].h_time
                    BY <1>8, <5>1
                <5> QED BY <1>5, <1>6, <4>1, <5>1, <5>2
            <4> QED BY <3>2, <4>2, <4>3, <4>4
        <3>4. CASE i = k + 1
            <4>1. CASE j = k + 1
                BY <1>6, <1>10, <3>4, <4>1
            <4>2. CASE j \in k+2..Len(x)+1
                <5>1. y[j] = x[j - 1] /\ j - 1 \in 1..Len(x) /\ j - 1 > k
                    BY <1>1, <1>4, <1>10, <4>2
                <5>2. e.h_time < x[j - 1].h_time
                    BY <1>8, <5>1
                <5> QED BY <1>5, <1>6, <1>10, <3>4, <5>1, <5>2
            <4> QED BY <1>4, <2>3, <3>2, <3>4, <4>1, <4>2
        <3>5. CASE i \in k+2..Len(x)+1
            <4>1. y[j] = x[j - 1] /\ j - 1 \in 1..Len(x)
                BY <1>1, <1>4, <1>10, <2>3, <3>5
            <4>2. y[i] = x[i - 1] /\ i - 1 \in 1..Len(x) /\ i - 1 <= j - 1
                BY <1>1, <1>4, <1>10, <2>3, <3>5
            <4> QED BY <2>1, <4>1, <4>2
        <3> QED BY <3>1, <3>3, <3>4, <3>5
    <2> QED BY <2>3 DEF Ascending
<1> QED BY <1>10, <1>11, <1>12 DEF y

\* The recursion of pwm_insert_sort ...
LEMMA SortedToRun ==
    ASSUME NEW x \in Seq(Entry)
    PROVE  /\ SortedTo(x)[0] = <<>>
           /\ \A i \in 1..Len(x) : /\ SortedTo(x)[i - 1] \in Seq(Entry)
                                   /\ SortedTo(x)[i] = Inserted(SortedTo(x)[i - 1], x[i])
<1> DEFINE n == Len(x)
           X == Seq(Entry)
           Solves(g) == g = [i \in 0..n |-> IF i = 0 THEN <<>> ELSE Inserted(g[i - 1], x[i])]
           step == [i \in 1..n |-> [y \in X |-> Inserted(y, x[i])]]
<1>1. n \in Nat /\ \A i \in 1..n : x[i] \in Entry
    OBVIOUS
<1>2. <<>> \in X
    OBVIOUS
<1>3. \A i \in 1..n : \A y \in X : Inserted(y, x[i]) \in X
    BY <1>1, InsertedFacts
<1> HIDE DEF n, X
<1>4. step \in [1..n -> [X -> X]]
    BY <1>3
<1>5. \A i \in 1..n : \A y \in X : step[i][y] = Inserted(y, x[i])
    OBVIOUS
<1> HIDE DEF step
<1>16. n \in Nat
    BY <1>1
<1>17. \E g : Steps(g, n, X, <<>>, step)
    BY <1>2, <1>4, <1>16, Recursion
<1>18. PICK g : Steps(g, n, X, <<>>, step)
    BY <1>17
<1>6. g \in [0..n -> X] /\ g[0] = <<>> /\ \A i \in 1..n : g[i] = step[i][g[i - 1]]
    BY <1>18 DEF Steps
<1>7. ASSUME NEW i \in 1..n PROVE g[i - 1] \in X /\ g[i] = Inserted(g[i - 1], x[i])
    <2>1. i - 1 \in 0..n /\ i \in 0..n
        BY <1>1
    <2>2. g[i - 1] \in X
        BY <1>6, <2>1
    <2> QED BY <1>5, <1>6, <2>2
<1>8. Solves(g)
    <2> DEFINE h == [i \in 0..n |-> IF i = 0 THEN <<>> ELSE Inserted(g[i - 1], x[i])]
    <2>1. ASSUME NEW i \in 0..n PROVE g[i] = h[i]
        <3>1. i = 0 \/ i \in 1..n
            BY <1>1
        <3> QED BY <1>6, <1>7, <3>1
    <2>2. g = h
        BY <1>6, <2>1
    <2> QED BY <2>2
<1> DEFINE s == SortedTo(x)
<1>9. s = CHOOSE f : Solves(f)
    BY DEF SortedTo, n
<1> HIDE DEF s, Solves
<1>10. Solves(s)
    BY <1>8, <1>9
<1>11. s[0] = <<>> /\ \A i \in 1..n : s[i] = Inserted(s[i - 1], x[i])
    BY <1>1, <1>10 DEF Solves
<1> DEFINE good == {i \in 0..n : s[i] \in X}
<1>12. 0 \in good
    BY <1>1, <1>2, <1>11
<1>13. ASSUME NEW i \in 0..n-1, i \in good PROVE i + 1 \in good
    <2>1. i + 1 \in 1..n /\ i + 1 \in 0..n /\ (i + 1) - 1 = i
        BY <1>1
    <2>2. s[i + 1] = Inserted(s[i], x[i + 1])
        BY <1>11, <2>1
    <2> QED BY <1>3, <1>13, <2>1, <2>2
<1>14. \A i \in 0..n : i \in good
    <2> HIDE DEF good
    <2> QED BY <1>1, <1>12, <1>13, UpTo
<1>15. ASSUME NEW i \in 1..n PROVE s[i - 1] \in X
    <2>1. i - 1 \in 0..n
        BY <1>1
    <2> QED BY <1>14, <2>1
<1> QED BY <1>11, <1>15 DEF s, n, X

\* ... leaves the same entries in ascending order.
LEMMA SortedFacts ==
    ASSUME NEW x \in Seq(Entry)
    PROVE  /\ Sorted(x) \in Seq(Entry) /\ Len(Sorted(x)) = Len(x)
           /\ Elems(Sorted(x)) = Elems(x) /\ Ascending(Sorted(x))
<1> DEFINE n == Len(x)
           s == SortedTo(x)
           sofar(i) == {x[j] : j \in 1..i}
           right == {i \in 0..n : /\ s[i] \in Seq(Entry) /\ Len(s[i]) = i
                                  /\ Elems(s[i]) = sofar(i) /\ Ascending(s[i])}
<1>1. n \in Nat /\ \A i \in 1..n : x[i] \in Entry
    OBVIOUS
<1>2. s[0] = <<>> /\ \A i \in 1..n : s[i - 1] \in Seq(Entry) /\ s[i] = Inserted(s[i - 1], x[i])
    BY SortedToRun
<1> HIDE DEF s, n
<1>3. 0 \in right
    <2>1. \A i \in 1..0 : FALSE
        OBVIOUS
    <2>2. <<>> \in Seq(Entry) /\ Len(<<>>) = 0
        OBVIOUS
    <2>3. Elems(<<>>) = sofar(0) /\ Ascending(<<>>)
        BY <2>1, <2>2 DEF Elems, Ascending
    <2>4. s[0] \in Seq(Entry) /\ Len(s[0]) = 0 /\ Elems(s[0]) = sofar(0) /\ Ascending(s[0])
        BY <1>2, <2>2, <2>3
    <2>5. 0 \in 0..n
        BY <1>1
    <2> HIDE DEF sofar
    <2> QED BY <2>4, <2>5
<1>4. ASSUME NEW i \in 0..n-1, i \in right PROVE i + 1 \in right
    <2>1. i + 1 \in 1..n /\ i + 1 \in 0..n /\ (i + 1) - 1 = i
        BY <1>1
    <2>2. s[i] \in Seq(Entry) /\ s[i + 1] = Inserted(s[i], x[i + 1]) /\ x[i + 1] \in Entry
        BY <1>1, <1>2, <2>1
    <2>3. Len(s[i]) = i /\ Elems(s[i]) = sofar(i) /\ Ascending(s[i])
        BY <1>4
    <2>4. /\ s[i + 1] \in Seq(Entry) /\ Len(s[i + 1]) = i + 1
          /\ Elems(s[i + 1]) = sofar(i) \cup {x[i + 1]}
          /\ Ascending(s[i + 1])
        BY <2>2, <2>3, InsertedFacts
    <2>5. sofar(i) \cup {x[i + 1]} = sofar(i + 1)
        <3>1. \A j : j \in 1..i+1 <=> j \in 1..i \/ j = i + 1
            BY <1>1
        <3> QED BY <3>1
    <2> QED BY <2>1, <2>4, <2>5
<1>5. n \in right
    <2> HIDE DEF right
    <2>1. \A i \in 0..n : i \in right
        BY <1>1, <1>3, <1>4, UpTo
    <2> QED BY <1>1, <2>1
<1>6. sofar(n) = Elems(x)
    BY DEF Elems, n
<1> QED BY <1>5, <1>6 DEF Sorted, s, n

\* What the first i entries of a table set and clear at a time
SetAt(x, i, t) == UNION {x[j].set : j \in {k \in 1..i : x[k].h_time = t}}

ClearAt(x, i, t) == UNION {x[j].clear : j \in {k \in 1..i : x[k].h_time = t}}

LEMMA AtStep ==
    ASSUME NEW x, NEW i \in Nat, NEW t
    PROVE  /\ SetAt(x, i + 1, t) =
                  SetAt(x, i, t) \cup (IF x[i + 1].h_time = t THEN x[i + 1].set ELSE {})
           /\ ClearAt(x, i + 1, t) =
                  ClearAt(x, i, t) \cup (IF x[i + 1].h_time = t THEN x[i + 1].clear ELSE {})
<1> DEFINE now == {k \in 1..i : x[k].h_time = t}
           next == {k \in 1..i+1 : x[k].h_time = t}
<1>1. \A j : j \in 1..i+1 <=> j \in 1..i \/ j = i + 1
    OBVIOUS
<1>2. next = now \cup (IF x[i + 1].h_time = t THEN {i + 1} ELSE {})
    BY <1>1
<1> HIDE DEF now, next
<1>3. SetAt(x, i + 1, t) = UNION {x[j].set : j \in next} /\ SetAt(x, i, t) = UNION {x[j].set : j \in now}
    BY DEF SetAt, now, next
<1>4. ClearAt(x, i + 1, t) = UNION {x[j].clear : j \in next}
      /\ ClearAt(x, i, t) = UNION {x[j].clear : j \in now}
    BY DEF ClearAt, now, next
<1>5. CASE x[i + 1].h_time = t
    <2>1. next = now \cup {i + 1}
        BY <1>2, <1>5
    <2>2. UNION {x[j].set : j \in next} = (UNION {x[j].set : j \in now}) \cup x[i + 1].set
        BY <2>1
    <2>3. UNION {x[j].clear : j \in next} = (UNION {x[j].clear : j \in now}) \cup x[i + 1].clear
        BY <2>1
    <2> QED BY <1>3, <1>4, <1>5, <2>2, <2>3
<1>6. CASE x[i + 1].h_time # t
    <2>1. next = now
        BY <1>2, <1>6
    <2> QED BY <1>3, <1>4, <1>6, <2>1
<1> QED BY <1>5, <1>6

\* The entries of each time, joined
Rising(c) == \A i, j \in 1..Len(c) : i < j => c[i].h_time < c[j].h_time

JoinedOf(c, x, i) ==
    /\ c \in Seq(Entry) /\ Len(c) <= i
    /\ i > 0 => Len(c) > 0 /\ c[Len(c)].h_time = x[i].h_time
    /\ Rising(c)
    /\ \A j \in 1..i : \E m \in 1..Len(c) : c[m].h_time = x[j].h_time
    /\ \A m \in 1..Len(c) : /\ c[m].set = SetAt(x, i, c[m].h_time)
                             /\ c[m].clear = ClearAt(x, i, c[m].h_time)

LEMMA EntryIs ==
    ASSUME NEW e \in Entry, NEW f \in Entry
    PROVE  [set |-> f.set \cup e.set, clear |-> f.clear \cup e.clear, h_time |-> e.h_time] \in Entry
BY DEF Entry

\* The last entry of a table is another.
LEMMA LastReplaced ==
    ASSUME NEW c \in Seq(Entry), c # <<>>, NEW e \in Entry
    PROVE  /\ Append(Front(c), e) \in Seq(Entry) /\ Len(Append(Front(c), e)) = Len(c)
           /\ Append(Front(c), e)[Len(c)] = e
           /\ \A m \in 1..Len(c)-1 : Append(Front(c), e)[m] = c[m]
<1> DEFINE f == SubSeq(c, 1, Len(c) - 1)
<1>1. Len(c) \in Nat /\ Len(c) > 0
    OBVIOUS
<1>2. f \in Seq(Entry) /\ Len(f) = Len(c) - 1 /\ \A m \in 1..Len(c)-1 : f[m] = c[m]
    <2> DEFINE k == Len(c) - 1
    <2>1. k \in Nat /\ k <= Len(c)
        BY <1>1
    <2> HIDE DEF k
    <2>2. /\ SubSeq(c, 1, k) \in Seq(Entry) /\ Len(SubSeq(c, 1, k)) = k
          /\ \A m \in 1..k : SubSeq(c, 1, k)[m] = c[m]
        BY <1>1, <2>1
    <2> QED BY <2>2 DEF k
<1>3. Front(c) = f
    BY DEF Front
<1> HIDE DEF f
<1> QED BY <1>1, <1>2, <1>3

LEMMA JoinedFacts ==
    ASSUME NEW c \in Seq(Entry), NEW e \in Entry
    PROVE  Joined(c, e) \in Seq(Entry)
<1>1. CASE c # <<>> /\ Last(c).h_time = e.h_time
    <2>1. Last(c) \in Entry
        BY <1>1 DEF Last
    <2> QED BY <1>1, <2>1, EntryIs, LastReplaced DEF Joined
<1>2. CASE ~(c # <<>> /\ Last(c).h_time = e.h_time)
    BY <1>2 DEF Joined
<1> QED BY <1>1, <1>2

\* The recursion that joins entries
LEMMA JoinedToRun ==
    ASSUME NEW x \in Seq(Entry)
    PROVE  /\ JoinedTo(x)[0] = <<>>
           /\ \A i \in 1..Len(x) : /\ JoinedTo(x)[i - 1] \in Seq(Entry)
                                   /\ JoinedTo(x)[i] = Joined(JoinedTo(x)[i - 1], x[i])
<1> DEFINE n == Len(x)
           X == Seq(Entry)
           Solves(g) == g = [i \in 0..n |-> IF i = 0 THEN <<>> ELSE Joined(g[i - 1], x[i])]
           step == [i \in 1..n |-> [y \in X |-> Joined(y, x[i])]]
<1>1. n \in Nat /\ \A i \in 1..n : x[i] \in Entry
    OBVIOUS
<1>2. <<>> \in X
    OBVIOUS
<1>3. \A i \in 1..n : \A y \in X : Joined(y, x[i]) \in X
    BY <1>1, JoinedFacts
<1> HIDE DEF n, X
<1>4. step \in [1..n -> [X -> X]]
    BY <1>3
<1>5. \A i \in 1..n : \A y \in X : step[i][y] = Joined(y, x[i])
    OBVIOUS
<1> HIDE DEF step
<1>16. n \in Nat
    BY <1>1
<1>17. \E g : Steps(g, n, X, <<>>, step)
    BY <1>2, <1>4, <1>16, Recursion
<1>18. PICK g : Steps(g, n, X, <<>>, step)
    BY <1>17
<1>6. g \in [0..n -> X] /\ g[0] = <<>> /\ \A i \in 1..n : g[i] = step[i][g[i - 1]]
    BY <1>18 DEF Steps
<1>7. ASSUME NEW i \in 1..n PROVE g[i - 1] \in X /\ g[i] = Joined(g[i - 1], x[i])
    <2>1. i - 1 \in 0..n /\ i \in 0..n
        BY <1>1
    <2>2. g[i - 1] \in X
        BY <1>6, <2>1
    <2> QED BY <1>5, <1>6, <2>2
<1>8. Solves(g)
    <2> DEFINE h == [i \in 0..n |-> IF i = 0 THEN <<>> ELSE Joined(g[i - 1], x[i])]
    <2>1. ASSUME NEW i \in 0..n PROVE g[i] = h[i]
        <3>1. i = 0 \/ i \in 1..n
            BY <1>1
        <3> QED BY <1>6, <1>7, <3>1
    <2>2. g = h
        BY <1>6, <2>1
    <2> QED BY <2>2
<1> DEFINE s == JoinedTo(x)
<1>9. s = CHOOSE f : Solves(f)
    BY DEF JoinedTo, n
<1> HIDE DEF s, Solves
<1>10. Solves(s)
    BY <1>8, <1>9
<1>11. s[0] = <<>> /\ \A i \in 1..n : s[i] = Joined(s[i - 1], x[i])
    BY <1>1, <1>10 DEF Solves
<1> DEFINE good == {i \in 0..n : s[i] \in X}
<1>12. 0 \in good
    BY <1>1, <1>2, <1>11
<1>13. ASSUME NEW i \in 0..n-1, i \in good PROVE i + 1 \in good
    <2>1. i + 1 \in 1..n /\ i + 1 \in 0..n /\ (i + 1) - 1 = i
        BY <1>1
    <2>2. s[i + 1] = Joined(s[i], x[i + 1])
        BY <1>11, <2>1
    <2> QED BY <1>3, <1>13, <2>1, <2>2
<1>14. \A i \in 0..n : i \in good
    <2> HIDE DEF good
    <2> QED BY <1>1, <1>12, <1>13, UpTo
<1>15. ASSUME NEW i \in 1..n PROVE s[i - 1] \in X
    <2>1. i - 1 \in 0..n
        BY <1>1
    <2> QED BY <1>14, <2>1
<1> QED BY <1>11, <1>15 DEF s, n, X

\* Joining one more entry of an ascending table
LEMMA JoinStep ==
    ASSUME NEW x \in Seq(Entry), Ascending(x), NEW i \in 0..Len(x)-1,
           NEW c, JoinedOf(c, x, i)
    PROVE  JoinedOf(Joined(c, x[i + 1]), x, i + 1)
<1> DEFINE e == x[i + 1]
           n == Len(c)
<1>1. i \in Nat /\ i + 1 \in 1..Len(x) /\ e \in Entry /\ \A j \in 1..i : j \in 1..Len(x)
    OBVIOUS
<1>2. c \in Seq(Entry) /\ n <= i /\ n \in Nat
    BY DEF JoinedOf
<1>3. i > 0 => n > 0 /\ c[n].h_time = x[i].h_time
    BY DEF JoinedOf
<1>4. \A a, b \in 1..n : a < b => c[a].h_time < c[b].h_time
    BY DEF JoinedOf, Rising
<1>5. \A j \in 1..i : \E m \in 1..n : c[m].h_time = x[j].h_time
    BY DEF JoinedOf
<1>6. \A m \in 1..n : c[m].set = SetAt(x, i, c[m].h_time) /\ c[m].clear = ClearAt(x, i, c[m].h_time)
    BY DEF JoinedOf
<1>7. \A m \in 1..n : c[m] \in Entry /\ c[m].h_time \in Int
    BY <1>2, EntryTime
<1>8. \A j \in 1..Len(x) : x[j].h_time \in Int
    BY EntryTime
<1>9. e.h_time \in Int
    BY <1>1, EntryTime
<1>10. \A j \in 1..i : x[j].h_time <= e.h_time
    BY <1>1 DEF Ascending
<1>11. ASSUME NEW j \in 1..i+1 PROVE j \in 1..i \/ j = i + 1
    BY <1>1
<1> HIDE DEF n, e
<1>12. \A t : /\ SetAt(x, i + 1, t) = SetAt(x, i, t) \cup (IF e.h_time = t THEN e.set ELSE {})
              /\ ClearAt(x, i + 1, t) = ClearAt(x, i, t) \cup (IF e.h_time = t THEN e.clear ELSE {})
    BY <1>1, AtStep DEF e
<1>15. \A t : e.h_time # t => /\ SetAt(x, i + 1, t) = SetAt(x, i, t)
                             /\ ClearAt(x, i + 1, t) = ClearAt(x, i, t)
    BY <1>12
<1>16. /\ SetAt(x, i + 1, e.h_time) = SetAt(x, i, e.h_time) \cup e.set
       /\ ClearAt(x, i + 1, e.h_time) = ClearAt(x, i, e.h_time) \cup e.clear
    BY <1>12
<1>13. CASE c # <<>> /\ Last(c).h_time = e.h_time
    <2> DEFINE r == [set |-> Last(c).set \cup e.set, clear |-> Last(c).clear \cup e.clear,
                     h_time |-> e.h_time]
               y == Append(Front(c), r)
    <2>1. n > 0 /\ n \in 1..n /\ Last(c) = c[n]
        BY <1>2, <1>13 DEF Last, n
    <2>2. c[n] \in Entry /\ c[n].h_time = e.h_time
        BY <1>7, <1>13, <2>1
    <2>3. r \in Entry
        BY <1>1, <2>1, <2>2, EntryIs
    <2>4. r.set = c[n].set \cup e.set /\ r.clear = c[n].clear \cup e.clear /\ r.h_time = e.h_time
        BY <2>1
    <2> HIDE DEF r
    <2>5. y \in Seq(Entry) /\ Len(y) = n /\ y[n] = r /\ \A m \in 1..n-1 : y[m] = c[m]
        BY <1>2, <1>13, <2>3, LastReplaced DEF n
    <2>6. Joined(c, e) = y
        BY <1>13 DEF Joined, r
    <2> HIDE DEF y
    <2>7. \A m \in 1..n : m = n \/ m \in 1..n-1
        BY <1>2
    <2>8. \A m \in 1..n : y[m].h_time = c[m].h_time
        BY <2>2, <2>4, <2>5, <2>7
    <2>9. Rising(y)
        BY <1>4, <2>5, <2>8 DEF Rising
    <2>10. ASSUME NEW j \in 1..i+1 PROVE \E m \in 1..n : y[m].h_time = x[j].h_time
        <3>1. CASE j \in 1..i
            BY <1>5, <2>8, <3>1
        <3>2. CASE j = i + 1
            BY <2>1, <2>2, <2>8, <3>2 DEF e
        <3> QED BY <1>11, <3>1, <3>2
    <2>11. ASSUME NEW m \in 1..n
           PROVE  y[m].set = SetAt(x, i + 1, y[m].h_time) /\ y[m].clear = ClearAt(x, i + 1, y[m].h_time)
        <3>1. CASE m = n
            <4>1. y[m] = r /\ r.h_time = e.h_time
                BY <2>4, <2>5, <3>1
            <4>2. r.set = SetAt(x, i, e.h_time) \cup e.set /\ r.clear = ClearAt(x, i, e.h_time) \cup e.clear
                BY <1>6, <2>1, <2>2, <2>4, Zenon
            <4> QED BY <1>16, <4>1, <4>2, Zenon
        <3>2. CASE m \in 1..n-1
            <4>1. m \in 1..n /\ m < n
                BY <1>2, <3>2
            <4>2. c[m].h_time < c[n].h_time
                BY <1>4, <2>1, <4>1
            <4>3. e.h_time # c[m].h_time
                BY <1>7, <2>1, <2>2, <4>1, <4>2
            <4>4. y[m] = c[m]
                BY <2>5, <3>2
            <4> QED BY <1>6, <1>15, <4>1, <4>3, <4>4, Zenon
        <3> QED BY <2>7, <3>1, <3>2
    <2>12. y[n].h_time = x[i + 1].h_time
        BY <2>1, <2>2, <2>8 DEF e
    <2>13. n <= i + 1 /\ i + 1 > 0
        BY <1>1, <1>2
    <2> QED BY <2>1, <2>5, <2>6, <2>9, <2>10, <2>11, <2>12, <2>13 DEF JoinedOf, e
<1>14. CASE ~(c # <<>> /\ Last(c).h_time = e.h_time)
    <2> DEFINE y == Append(c, e)
    <2>1. Joined(c, e) = y
        BY <1>14 DEF Joined
    <2>2. y \in Seq(Entry) /\ Len(y) = n + 1 /\ y[n + 1] = e /\ \A m \in 1..n : y[m] = c[m]
        BY <1>1, <1>2 DEF n
    <2> HIDE DEF y
    <2>3. \A j \in 1..i : x[j].h_time < e.h_time
        <3>1. CASE i = 0
            BY <3>1
        <3>2. CASE i > 0
            <4>1. n > 0 /\ n \in 1..n /\ i \in 1..i /\ c[n].h_time = x[i].h_time
                BY <1>1, <1>2, <1>3, <3>2
            <4>2. Last(c) = c[n] /\ c # <<>>
                BY <1>2, <4>1 DEF Last, n
            <4>3. x[i].h_time # e.h_time
                BY <1>14, <4>1, <4>2
            <4>4. x[i].h_time < e.h_time
                BY <1>1, <1>8, <1>9, <1>10, <4>1, <4>3
            <4>5. ASSUME NEW j \in 1..i PROVE x[j].h_time <= x[i].h_time
                <5>1. j \in 1..Len(x) /\ i \in 1..Len(x) /\ j <= i
                    BY <1>1, <4>1
                <5> QED BY <5>1 DEF Ascending
            <4> QED BY <1>1, <1>8, <1>9, <4>1, <4>4, <4>5
        <3> QED BY <1>1, <3>1, <3>2
    <2>4. \A m \in 1..n : c[m].h_time < e.h_time
        <3>1. CASE n = 0
            BY <3>1
        <3>2. CASE n > 0
            <4>1. i > 0 /\ i \in 1..i /\ n \in 1..n
                BY <1>1, <1>2, <3>2
            <4>2. c[n].h_time < e.h_time
                BY <1>3, <2>3, <4>1
            <4>3. ASSUME NEW m \in 1..n, m # n PROVE c[m].h_time < c[n].h_time
                <5>1. m < n
                    BY <1>2, <4>3
                <5> QED BY <1>4, <4>1, <5>1
            <4> QED BY <1>7, <1>9, <4>1, <4>2, <4>3
        <3> QED BY <1>2, <3>1, <3>2
    <2>5. \A m \in 1..n+1 : m \in 1..n \/ m = n + 1
        BY <1>2
    <2>6. Rising(y)
        <3>1. ASSUME NEW a \in 1..n+1, NEW b \in 1..n+1, a < b PROVE y[a].h_time < y[b].h_time
            <4>1. a \in 1..n
                BY <1>2, <3>1
            <4>2. CASE b \in 1..n
                BY <1>4, <2>2, <3>1, <4>1, <4>2
            <4>3. CASE b = n + 1
                BY <2>2, <2>4, <4>1, <4>3
            <4> QED BY <2>5, <4>2, <4>3
        <3> QED BY <2>2, <3>1 DEF Rising
    <2>7. \A m \in 1..n : m \in 1..n+1
        BY <1>2
    <2>8. n + 1 \in 1..n+1
        BY <1>2
    <2>9. ASSUME NEW j \in 1..i+1 PROVE \E m \in 1..n+1 : y[m].h_time = x[j].h_time
        <3>1. CASE j \in 1..i
            BY <1>5, <2>2, <2>7, <3>1
        <3>2. CASE j = i + 1
            BY <2>2, <2>8, <3>2 DEF e
        <3> QED BY <1>11, <3>1, <3>2
    <2>10. SetAt(x, i, e.h_time) = {} /\ ClearAt(x, i, e.h_time) = {}
        <3>1. {k \in 1..i : x[k].h_time = e.h_time} = {}
            <4> SUFFICES ASSUME NEW k \in 1..i, x[k].h_time = e.h_time PROVE FALSE
                OBVIOUS
            <4> QED BY <1>1, <1>8, <1>9, <2>3
        <3> QED BY <3>1 DEF SetAt, ClearAt
    <2>11. ASSUME NEW m \in 1..n+1
           PROVE  y[m].set = SetAt(x, i + 1, y[m].h_time) /\ y[m].clear = ClearAt(x, i + 1, y[m].h_time)
        <3>1. CASE m = n + 1
            BY <1>12, <2>2, <2>10, <3>1
        <3>2. CASE m \in 1..n
            <4>1. e.h_time # c[m].h_time
                BY <1>7, <1>9, <2>4, <3>2
            <4> QED BY <1>6, <1>15, <2>2, <3>2, <4>1, Zenon
        <3> QED BY <2>5, <3>1, <3>2
    <2>12. n + 1 <= i + 1 /\ n + 1 > 0
        BY <1>1, <1>2
    <2> QED BY <2>1, <2>2, <2>6, <2>9, <2>11, <2>12 DEF JoinedOf, e
<1> QED BY <1>13, <1>14 DEF e

\* The entries that pwm_start joins
LEMMA CombinedFacts ==
    ASSUME NEW x \in Seq(Entry), Ascending(x)
    PROVE  JoinedOf(Combined(x), x, Len(x))
<1> DEFINE n == Len(x)
           s == JoinedTo(x)
           right == {i \in 0..n : JoinedOf(s[i], x, i)}
<1>1. n \in Nat
    OBVIOUS
<1>2. s[0] = <<>> /\ \A i \in 1..n : s[i] = Joined(s[i - 1], x[i])
    BY JoinedToRun
<1> HIDE DEF s
<1>3. 0 \in right
    <2>1. <<>> \in Seq(Entry) /\ Len(<<>>) = 0
        OBVIOUS
    <2>2. \A i \in 1..0 : FALSE
        OBVIOUS
    <2>3. JoinedOf(<<>>, x, 0)
        BY <2>1, <2>2 DEF JoinedOf, Rising
    <2> QED BY <1>1, <1>2, <2>3
<1>4. ASSUME NEW i \in 0..n-1, i \in right PROVE i + 1 \in right
    <2>1. i + 1 \in 1..n /\ i + 1 \in 0..n /\ (i + 1) - 1 = i
        BY <1>1
    <2>2. s[i + 1] = Joined(s[i], x[i + 1])
        BY <1>2, <2>1
    <2>3. JoinedOf(s[i], x, i)
        BY <1>4
    <2>4. JoinedOf(s[i + 1], x, i + 1)
        BY <2>2, <2>3, JoinStep
    <2> QED BY <2>1, <2>4
<1>5. n \in right
    <2> HIDE DEF right, n
    <2>1. \A i \in 0..n : i \in right
        BY <1>1, <1>3, <1>4, UpTo
    <2> QED BY <1>1, <2>1
<1> QED BY <1>5 DEF Combined, s

\* What pwm_set_freq and pwm_set_duty leave in pwm
Setting(s) ==
    s.period \in Uint16 /\ s.period >= 255 /\ s.duty \in [Pin -> 0..PWM_DEPTH]

LEMMA TicksAre ==
    ASSUME NEW us \in Nat
    PROVE  Ticks(us) \in Uint16 /\ (5 * us < 65536 => Ticks(us) = 5 * us)
<1> DEFINE t == 5 * us
           r == t % 65536
<1>1. t \in Nat
    OBVIOUS
<1> HIDE DEF t
<1>2. r \in Int /\ 0 <= r /\ r <= 65535 /\ (t < 65536 => r = t)
    BY <1>1
<1>3. Ticks(us) = r
    BY DEF Ticks, t
<1> HIDE DEF r
<1>4. r \in Uint16
    BY <1>2, Uint16Is
<1> QED BY <1>2, <1>3, <1>4 DEF t

\* A share of 255ths: nothing of a period only for 0, all of it only for 255.
LEMMA ShareIs ==
    ASSUME NEW a \in Nat, a >= 255, NEW d \in 0..255, NEW q, q = (a * d) \div 255
    PROVE  q \in 0..a /\ (q = 0 <=> d = 0) /\ (q = a <=> d = 255)
<1>1. d \in Nat
    OBVIOUS
<1>2. a * d \in Nat
    BY <1>1
<1>3. d > 0 => a * d >= a
    BY <1>1
<1>4. d <= 254 => a * d <= 254 * a
    BY <1>1
<1>5. d = 255 => a * d = 255 * a
    OBVIOUS
<1>6. d = 0 => a * d = 0
    OBVIOUS
<1> DEFINE t == a * d
<1> HIDE DEF t
<1>7. t \in Nat /\ q = t \div 255
    BY <1>2 DEF t
<1>8. q \in Nat /\ 255 * q <= t /\ t < 255 * q + 255
    BY <1>7
<1>9. d = 0 \/ d = 255 \/ (d > 0 /\ d <= 254)
    BY <1>1
<1>10. /\ d > 0 => t >= a
       /\ d <= 254 => t <= 254 * a
       /\ d = 255 => t = 255 * a
       /\ d = 0 => t = 0
    BY <1>3, <1>4, <1>5, <1>6 DEF t
<1> QED BY <1>8, <1>9, <1>10

LEMMA OnTimeIs ==
    ASSUME NEW s, Setting(s), NEW p \in Pin
    PROVE  /\ OnTime(s, p) \in Uint16
           /\ Fits(s) => /\ OnTime(s, p) <= Ticks(s.period)
                         /\ OnTime(s, p) = 0 <=> s.duty[p] = 0
                         /\ OnTime(s, p) = Ticks(s.period) <=> s.duty[p] = PWM_DEPTH
<1> DEFINE a == s.period
           d == s.duty[p]
           q == (a * d) \div 255
<1>1. a \in Nat /\ a >= 255 /\ d \in 0..255
    BY Uint16Nat DEF Setting, PWM_DEPTH
<1>2. OnTime(s, p) = Ticks(q)
    BY DEF OnTime, PWM_DEPTH
<1> HIDE DEF a, d
<1>3. q \in 0..a /\ (q = 0 <=> d = 0) /\ (q = a <=> d = 255)
    BY <1>1, ShareIs
<1> HIDE DEF q
<1>4. q \in Nat
    BY <1>1, <1>3
<1>5. Ticks(q) \in Uint16
    BY <1>4, TicksAre
<1>6. CASE Fits(s)
    <2>1. 5 * a < 65536
        BY <1>6 DEF Fits, a
    <2>2. 5 * q < 65536
        BY <1>1, <1>3, <2>1
    <2>3. Ticks(q) = 5 * q /\ Ticks(a) = 5 * a
        BY <1>1, <1>4, <2>1, <2>2, TicksAre
    <2>4. /\ 5 * q <= 5 * a
          /\ 5 * q = 0 <=> d = 0
          /\ 5 * q = 5 * a <=> d = 255
        BY <1>1, <1>3
    <2> QED BY <1>2, <1>5, <2>3, <2>4 DEF a, d, PWM_DEPTH
<1> QED BY <1>2, <1>5, <1>6

LEMMA PeriodIs ==
    ASSUME NEW s, Setting(s)
    PROVE  Ticks(s.period) \in Uint16 /\ Ticks(s.period) # 0
<1> DEFINE a == s.period
<1>1. a \in Int /\ 255 <= a /\ a <= 65535
    BY Uint16Is, Uint16Nat DEF Setting
<1> HIDE DEF a
<1>2. (5 * a) % 65536 # 0
    BY <1>1
<1> QED BY <1>1, <1>2, TicksAre DEF Ticks, a

LEMMA Pins == PWM_CHANNEL \in Nat /\ PWM_CHANNEL >= 1
BY PwmAssumption

LEMMA ChannelsAre ==
    ASSUME NEW s, Setting(s)
    PROVE  /\ Channels(s) \in Seq(Entry) /\ Len(Channels(s)) = PWM_CHANNEL + 1
           /\ \A p \in Pin : Channels(s)[p] = [set |-> {}, clear |-> {p}, h_time |-> OnTime(s, p)]
           /\ Channels(s)[PWM_CHANNEL + 1] = [set |-> Pin, clear |-> {}, h_time |-> Ticks(s.period)]
<1> DEFINE pulse == [p \in Pin |-> [set |-> {}, clear |-> {p}, h_time |-> OnTime(s, p)]]
           end == [set |-> Pin, clear |-> {}, h_time |-> Ticks(s.period)]
<1>1. ASSUME NEW p \in Pin PROVE [set |-> {}, clear |-> {p}, h_time |-> OnTime(s, p)] \in Entry
    BY OnTimeIs DEF Entry
<1>2. end \in Entry
    BY PeriodIs DEF Entry
<1>3. pulse \in Seq(Entry) /\ Len(pulse) = PWM_CHANNEL
    <2>1. pulse \in [1..PWM_CHANNEL -> Entry]
        BY <1>1 DEF Pin
    <2> HIDE DEF pulse
    <2> QED BY <2>1, Pins
<1>4. \A p \in Pin : pulse[p] = [set |-> {}, clear |-> {p}, h_time |-> OnTime(s, p)]
    OBVIOUS
<1>5. Channels(s) = Append(pulse, end)
    BY DEF Channels
<1> HIDE DEF pulse, end
<1>6. /\ Append(pulse, end) \in Seq(Entry) /\ Len(Append(pulse, end)) = PWM_CHANNEL + 1
      /\ \A p \in 1..PWM_CHANNEL : Append(pulse, end)[p] = pulse[p]
      /\ Append(pulse, end)[PWM_CHANNEL + 1] = end
    BY <1>2, <1>3, Pins
<1> QED BY <1>4, <1>5, <1>6 DEF Pin, end

\* What pwm_start has before it takes the differences: the times the pins are
\* to be cleared at, and the period's end
CombinedOf(c, s) ==
    /\ c \in Seq(Entry) /\ Len(c) >= 1 /\ Len(c) <= PWM_CHANNEL + 1
    /\ Rising(c)
    /\ \A p \in Pin : \E m \in 1..Len(c) : c[m].h_time = OnTime(s, p)
    /\ \E m \in 1..Len(c) : c[m].h_time = Ticks(s.period)
    /\ Fits(s) => c[Len(c)].h_time = Ticks(s.period)
    /\ \A m \in 1..Len(c) : /\ c[m].set = IF c[m].h_time = Ticks(s.period) THEN Pin ELSE {}
                            /\ c[m].clear = {p \in Pin : OnTime(s, p) = c[m].h_time}

\* A union over a table's places is one over what it has there.
LEMMA AtIs ==
    ASSUME NEW x, NEW n, n = Len(x), NEW t
    PROVE  /\ SetAt(x, n, t) = UNION {e.set : e \in {f \in Elems(x) : f.h_time = t}}
           /\ ClearAt(x, n, t) = UNION {e.clear : e \in {f \in Elems(x) : f.h_time = t}}
<1> DEFINE at == {k \in 1..n : x[k].h_time = t}
           them == {f \in Elems(x) : f.h_time = t}
<1>1. \A k \in at : x[k] \in them
    BY DEF Elems
<1>2. \A e \in them : \E k \in at : e = x[k]
    BY DEF Elems
<1> HIDE DEF at, them
<1>3. {x[k].set : k \in at} = {e.set : e \in them}
    <2>1. \A k \in at : x[k].set \in {e.set : e \in them}
        BY <1>1
    <2>2. ASSUME NEW e \in them PROVE e.set \in {x[k].set : k \in at}
        BY <1>2
    <2> QED BY <2>1, <2>2
<1>4. {x[k].clear : k \in at} = {e.clear : e \in them}
    <2>1. \A k \in at : x[k].clear \in {e.clear : e \in them}
        BY <1>1
    <2>2. ASSUME NEW e \in them PROVE e.clear \in {x[k].clear : k \in at}
        BY <1>2
    <2> QED BY <2>1, <2>2
<1> QED BY <1>3, <1>4 DEF SetAt, ClearAt, at, them

LEMMA CombinedIs ==
    ASSUME NEW s, Setting(s)
    PROVE  CombinedOf(Combined(Sorted(Channels(s))), s)
<1> DEFINE x == Channels(s)
           y == Sorted(x)
           c == Combined(y)
           N == PWM_CHANNEL + 1
           period == Ticks(s.period)
           pulse(p) == [set |-> {}, clear |-> {p}, h_time |-> OnTime(s, p)]
           end == [set |-> Pin, clear |-> {}, h_time |-> period]
<1>1. /\ x \in Seq(Entry) /\ Len(x) = N
      /\ \A p \in Pin : x[p] = pulse(p)
      /\ x[N] = end
    BY ChannelsAre
<1> HIDE DEF x
<1>2. y \in Seq(Entry) /\ Len(y) = N /\ Elems(y) = Elems(x) /\ Ascending(y)
    BY <1>1, SortedFacts
<1> HIDE DEF y
<1>3. JoinedOf(c, y, N)
    BY <1>2, CombinedFacts
<1> HIDE DEF c
<1>4. N \in Nat /\ N >= 2 /\ \A i : i \in 1..N <=> i \in Pin \/ i = N
    BY Pins DEF Pin
<1> HIDE DEF N
<1>5. Elems(x) = {pulse(p) : p \in Pin} \cup {end}
    <2>1. Elems(x) = {x[i] : i \in 1..N}
        BY <1>1 DEF Elems
    <2>2. \A i \in 1..N : i \in Pin \/ i = N
        BY <1>4
    <2>3. \A p \in Pin : p \in 1..N
        BY <1>4
    <2>4. N \in 1..N
        BY <1>4
    <2> HIDE DEF pulse, end
    <2>5. Elems(x) \subseteq {pulse(p) : p \in Pin} \cup {end}
        BY <1>1, <2>1, <2>2, Zenon
    <2>6. \A p \in Pin : pulse(p) \in Elems(x)
        BY <1>1, <2>1, <2>3, Zenon
    <2>7. end \in Elems(x)
        BY <1>1, <2>1, <2>4, Zenon
    <2> QED BY <2>5, <2>6, <2>7, Zenon
<1>6. \A p \in Pin : pulse(p).set = {} /\ pulse(p).clear = {p} /\ pulse(p).h_time = OnTime(s, p)
    OBVIOUS
<1>7. end.set = Pin /\ end.clear = {} /\ end.h_time = period
    OBVIOUS
<1> HIDE DEF pulse, end, period
<1>8. c \in Seq(Entry) /\ Len(c) \in Nat /\ Len(c) <= N /\ Len(c) > 0
      /\ c[Len(c)].h_time = y[N].h_time /\ Rising(c)
    BY <1>3, <1>4 DEF JoinedOf
<1>9. \A e \in Elems(x) : \E m \in 1..Len(c) : c[m].h_time = e.h_time
    <2>1. \A j \in 1..N : \E m \in 1..Len(c) : c[m].h_time = y[j].h_time
        BY <1>3 DEF JoinedOf
    <2>2. \A e \in Elems(x) : \E j \in 1..N : e = y[j]
        BY <1>2 DEF Elems
    <2> QED BY <2>1, <2>2, Zenon
<1>10. \A p \in Pin : \E m \in 1..Len(c) : c[m].h_time = OnTime(s, p)
    <2> TAKE p \in Pin
    <2>1. pulse(p) \in Elems(x)
        BY <1>5
    <2> QED BY <1>6, <1>9, <2>1
<1>11. \E m \in 1..Len(c) : c[m].h_time = period
    BY <1>5, <1>7, <1>9
<1>12. ASSUME Fits(s) PROVE c[Len(c)].h_time = period
    <2>1. \A e \in Elems(x) : e.h_time <= period
        <3>1. \A p \in Pin : pulse(p).h_time <= period
            BY <1>6, <1>12, OnTimeIs DEF period
        <3>2. period \in Int
            BY PeriodIs, Uint16Nat DEF period
        <3>3. end.h_time <= period
            BY <1>7, <3>2
        <3> QED BY <1>5, <3>1, <3>3
    <2>2. y[N] \in Elems(x) /\ \A i \in 1..N : y[i].h_time <= y[N].h_time
        <3>1. N \in 1..N
            BY <1>4
        <3>2. y[N] \in Elems(y)
            BY <1>2, <3>1 DEF Elems
        <3>3. \A i \in 1..N : i <= N
            BY <1>4
        <3>4. \A i \in 1..N : y[i].h_time <= y[N].h_time
            BY <1>2, <3>1, <3>3 DEF Ascending
        <3> QED BY <1>2, <3>2, <3>4
    <2>3. y[N].h_time <= period
        BY <2>1, <2>2
    <2>4. \E i \in 1..N : y[i] = end
        BY <1>2, <1>5 DEF Elems
    <2>5. period <= y[N].h_time
        BY <1>7, <2>2, <2>4
    <2>6. period \in Int /\ y[N].h_time \in Int
        <3>1. N \in 1..N
            BY <1>4
        <3>2. y[N] \in Entry
            BY <1>2, <3>1
        <3> QED BY <3>2, EntryTime, PeriodIs, Uint16Nat DEF period
    <2> QED BY <1>8, <2>3, <2>5, <2>6
<1>13. \A t : SetAt(y, N, t) = (IF t = period THEN Pin ELSE {})
              /\ ClearAt(y, N, t) = {p \in Pin : OnTime(s, p) = t}
    <2> TAKE t
    <2> DEFINE them == {f \in Elems(y) : f.h_time = t}
    <2>1. /\ SetAt(y, N, t) = UNION {e.set : e \in them}
          /\ ClearAt(y, N, t) = UNION {e.clear : e \in them}
        BY <1>2, AtIs
    <2>2. them = {f \in {pulse(p) : p \in Pin} \cup {end} : f.h_time = t}
        BY <1>2, <1>5
    <2> HIDE DEF them
    <2>3. \A e \in them : e = end \/ \E p \in Pin : e = pulse(p) /\ OnTime(s, p) = t
        BY <1>6, <2>2
    <2>4. \A p \in Pin : pulse(p) \in them <=> OnTime(s, p) = t
        BY <1>6, <2>2
    <2>5. end \in them <=> t = period
        BY <1>7, <2>2
    <2>6. UNION {e.set : e \in them} = IF t = period THEN Pin ELSE {}
        <3>1. \A e \in them : e.set # {} => e = end
            BY <1>6, <2>3
        <3>2. CASE t = period
            BY <1>6, <1>7, <2>3, <2>5, <3>2
        <3>3. CASE t # period
            BY <1>6, <2>3, <2>5, <3>3
        <3> QED BY <3>2, <3>3
    <2>7. UNION {e.clear : e \in them} = {p \in Pin : OnTime(s, p) = t}
        <3>1. ASSUME NEW e \in them, NEW p \in e.clear PROVE p \in Pin /\ OnTime(s, p) = t
            BY <1>6, <1>7, <2>3, <3>1
        <3>2. ASSUME NEW p \in Pin, OnTime(s, p) = t PROVE \E e \in them : p \in e.clear
            <4>1. pulse(p) \in them /\ p \in pulse(p).clear
                BY <1>6, <2>4, <3>2
            <4> QED BY <4>1
        <3> QED BY <3>1, <3>2
    <2> QED BY <2>1, <2>6, <2>7
<1>14. ASSUME NEW m \in 1..Len(c)
       PROVE  /\ c[m].set = IF c[m].h_time = period THEN Pin ELSE {}
              /\ c[m].clear = {p \in Pin : OnTime(s, p) = c[m].h_time}
    <2>1. c[m].set = SetAt(y, N, c[m].h_time) /\ c[m].clear = ClearAt(y, N, c[m].h_time)
        BY <1>3 DEF JoinedOf
    <2> QED BY <1>13, <2>1, Zenon
<1>15. Len(c) >= 1 /\ Len(c) <= PWM_CHANNEL + 1
    BY <1>8 DEF N
<1> QED BY <1>8, <1>10, <1>11, <1>12, <1>14, <1>15 DEF CombinedOf, period, c, y, x

\* The differences of the times
Before(c, i) == IF i = 1 THEN 0 ELSE c[i - 1].h_time

LEMMA TimeBetween ==
    ASSUME NEW e \in Entry, NEW b \in Nat, b <= e.h_time
    PROVE  /\ [e EXCEPT !.h_time = @ - b] \in Entry
           /\ [e EXCEPT !.h_time = @ - b].set = e.set
           /\ [e EXCEPT !.h_time = @ - b].clear = e.clear
           /\ [e EXCEPT !.h_time = @ - b].h_time = e.h_time - b
<1> DEFINE t == e.h_time - b
<1>1. e.h_time \in Uint16 /\ e.h_time \in Int
    BY EntryTime
<1>2. 0 <= e.h_time /\ e.h_time <= 65535
    BY <1>1, Uint16Is
<1>3. t \in Int /\ 0 <= t /\ t <= 65535
    BY <1>1, <1>2
<1> HIDE DEF t
<1>4. t \in Uint16
    BY <1>3, Uint16Is
<1>5. /\ [e EXCEPT !.h_time = t] \in Entry
      /\ [e EXCEPT !.h_time = t].set = e.set
      /\ [e EXCEPT !.h_time = t].clear = e.clear
      /\ [e EXCEPT !.h_time = t].h_time = t
    BY <1>4 DEF Entry
<1>6. [e EXCEPT !.h_time = @ - b] = [e EXCEPT !.h_time = t]
    BY DEF t
<1> QED BY <1>5, <1>6 DEF t

LEMMA DeltasAre ==
    ASSUME NEW c \in Seq(Entry), Rising(c)
    PROVE  /\ Deltas(c) \in Seq(Entry) /\ Len(Deltas(c)) = Len(c)
           /\ \A i \in 1..Len(c) : /\ Deltas(c)[i].set = c[i].set
                                   /\ Deltas(c)[i].clear = c[i].clear
                                   /\ Deltas(c)[i].h_time = c[i].h_time - Before(c, i)
<1> DEFINE n == Len(c)
           d == Deltas(c)
           less(i) == [c[i] EXCEPT !.h_time = @ - c[i - 1].h_time]
<1>1. n \in Nat /\ DOMAIN c = 1..n /\ \A i \in 1..n : c[i] \in Entry
    OBVIOUS
<1>2. d = [i \in 1..n |-> IF i = 1 THEN c[i] ELSE less(i)]
    BY <1>1 DEF Deltas
<1> HIDE DEF d
<1>3. ASSUME NEW i \in 1..n
      PROVE  /\ d[i] \in Entry
             /\ d[i].set = c[i].set /\ d[i].clear = c[i].clear
             /\ d[i].h_time = c[i].h_time - Before(c, i)
    <2>1. c[i] \in Entry /\ c[i].h_time \in Int
        BY <1>1, EntryTime
    <2>2. CASE i = 1
        <3>1. d[i] = c[i]
            BY <1>2, <2>2
        <3>2. c[i].h_time - 0 = c[i].h_time
            BY <2>1
        <3> QED BY <2>1, <2>2, <3>1, <3>2 DEF Before
    <2>3. CASE i # 1
        <3> DEFINE b == c[i - 1].h_time
        <3>1. i - 1 \in 1..n /\ i - 1 < i
            BY <1>1, <2>3
        <3>2. c[i - 1] \in Entry
            BY <1>1, <3>1
        <3>3. b \in Nat /\ b < c[i].h_time
            BY <3>1, <3>2, EntryTime, Uint16Nat DEF Rising
        <3>4. Before(c, i) = b
            BY <2>3 DEF Before
        <3>5. d[i] = [c[i] EXCEPT !.h_time = @ - b]
            BY <1>2, <2>3
        <3> HIDE DEF b
        <3>6. b <= c[i].h_time
            BY <2>1, <3>3
        <3> QED BY <2>1, <3>3, <3>4, <3>5, <3>6, TimeBetween
    <2> QED BY <2>2, <2>3
<1>4. d \in [1..n -> Entry]
    <2> HIDE DEF less
    <2> QED BY <1>2, <1>3
<1>5. d \in Seq(Entry) /\ Len(d) = n
    BY <1>1, <1>4
<1> QED BY <1>3, <1>5 DEF d

LEMMA LastSetsAre ==
    ASSUME NEW d \in Seq(Entry), Len(d) >= 1
    PROVE  /\ LastSets(d) \in Seq(Entry) /\ Len(LastSets(d)) = Len(d)
           /\ \A i \in 1..Len(d) : /\ LastSets(d)[i].set = d[i].set
                                   /\ LastSets(d)[i].h_time = d[i].h_time
                                   /\ LastSets(d)[i].clear = IF i = Len(d) THEN {} ELSE d[i].clear
<1> DEFINE n == Len(d)
           e == [d[n] EXCEPT !.clear = {}]
           y == [d EXCEPT ![n] = e]
<1>1. n \in Nat /\ n \in 1..n /\ \A i \in 1..n : d[i] \in Entry
    OBVIOUS
<1>2. e \in Entry /\ e.set = d[n].set /\ e.h_time = d[n].h_time /\ e.clear = {}
    BY <1>1 DEF Entry
<1>3. LastSets(d) = y
    BY DEF LastSets
<1> HIDE DEF e
<1>4. y \in Seq(Entry) /\ Len(y) = n /\ \A i \in 1..n : y[i] = IF i = n THEN e ELSE d[i]
    BY <1>1, <1>2
<1> HIDE DEF y
<1> QED BY <1>2, <1>3, <1>4

LEMMA Replaced ==
    ASSUME NEW x \in Seq(Entry), NEW k \in 1..Len(x), NEW e \in Entry, NEW y, y = [x EXCEPT ![k] = e]
    PROVE  /\ y \in Seq(Entry) /\ Len(y) = Len(x)
           /\ \A i \in 1..Len(x) : y[i] = IF i = k THEN e ELSE x[i]
OBVIOUS

\* A table whose first entry is for the pins that are always off, without it
Without(l, z) == Tail([l EXCEPT ![Len(l)].set = @ \ z, ![Len(l)].clear = @ \cup z])

LEMMA TailIs ==
    ASSUME NEW l \in Seq(Entry), Len(l) >= 2, NEW z \in SUBSET Pin
    PROVE  /\ Without(l, z) \in Seq(Entry) /\ Len(Without(l, z)) = Len(l) - 1
           /\ \A i \in 1..Len(l)-2 : Without(l, z)[i] = l[i + 1]
           /\ Without(l, z)[Len(l) - 1].set = l[Len(l)].set \ z
           /\ Without(l, z)[Len(l) - 1].clear = l[Len(l)].clear \cup z
           /\ Without(l, z)[Len(l) - 1].h_time = l[Len(l)].h_time
<1> DEFINE t == Without(l, z)
           n == Len(l)
           e1 == [l[n] EXCEPT !.set = @ \ z]
           e == [e1 EXCEPT !.clear = @ \cup z]
           y1 == [l EXCEPT ![n].set = @ \ z]
           y == [l EXCEPT ![n].set = @ \ z, ![n].clear = @ \cup z]
<1>1. n \in Nat /\ n \in 1..n /\ \A i \in 1..n : l[i] \in Entry
    OBVIOUS
<1>2. e1 \in Entry /\ e1.set = l[n].set \ z /\ e1.clear = l[n].clear /\ e1.h_time = l[n].h_time
    BY <1>1 DEF Entry
<1>3. y1 = [l EXCEPT ![n] = e1]
    OBVIOUS
<1> HIDE DEF e1, y1
<1>4. e \in Entry /\ e.set = e1.set /\ e.clear = e1.clear \cup z /\ e.h_time = e1.h_time
    BY <1>2 DEF Entry
<1>5. y1 \in Seq(Entry) /\ Len(y1) = n /\ \A i \in 1..n : y1[i] = IF i = n THEN e1 ELSE l[i]
    BY <1>1, <1>2, <1>3, Replaced
<1>6. y = [y1 EXCEPT ![n].clear = @ \cup z]
    BY DEF y1
<1> HIDE DEF y
<1>7. y = [y1 EXCEPT ![n] = e]
    BY <1>1, <1>5, <1>6
<1> HIDE DEF e
<1>8. y \in Seq(Entry) /\ Len(y) = n /\ \A i \in 1..n : y[i] = IF i = n THEN e ELSE l[i]
    <2>1. n \in 1..Len(y1)
        BY <1>1, <1>5
    <2> QED BY <1>1, <1>4, <1>5, <1>7, <2>1, Replaced
<1>9. t = Tail(y)
    BY DEF y, Without
<1> HIDE DEF t
<1>10. t \in Seq(Entry) /\ Len(t) = n - 1 /\ \A i \in 1..n-1 : t[i] = y[i + 1]
    <2>1. y # <<>>
        BY <1>1, <1>8
    <2>2. /\ Tail(y) \in Seq(Entry) /\ Len(Tail(y)) = Len(y) - 1
          /\ \A i \in 1..Len(Tail(y)) : Tail(y)[i] = y[i + 1]
        BY <1>8, <2>1, HeadTailProperties
    <2> HIDE DEF n
    <2> QED BY <1>8, <1>9, <2>2, Zenon
<1>11. \A i \in 1..n-2 : t[i] = l[i + 1]
    <2> TAKE i \in 1..n-2
    <2>1. i \in 1..n-1 /\ i + 1 \in 1..n /\ i + 1 # n
        BY <1>1
    <2> QED BY <1>8, <1>10, <2>1
<1>12. t[n - 1] = e
    <2>1. n - 1 \in 1..n-1 /\ (n - 1) + 1 = n
        BY <1>1
    <2> QED BY <1>1, <1>8, <1>10, <2>1
<1> QED BY <1>2, <1>4, <1>10, <1>11, <1>12 DEF t

\* The table before the entry of the pins that are always off is taken out
WithSetsOf(l, c) ==
    /\ l \in Seq(Entry) /\ Len(l) = Len(c)
    /\ \A i \in 1..Len(c) : /\ l[i].set = c[i].set
                            /\ l[i].clear = IF i = Len(c) THEN {} ELSE c[i].clear
                            /\ l[i].h_time = c[i].h_time - Before(c, i)

LEMMA WithSetsIs ==
    ASSUME NEW s, NEW c, CombinedOf(c, s)
    PROVE  WithSetsOf(LastSets(Deltas(c)), c)
<1>1. c \in Seq(Entry) /\ Len(c) >= 1 /\ Rising(c)
    BY DEF CombinedOf
<1> DEFINE d == Deltas(c)
           l == LastSets(d)
<1>2. /\ d \in Seq(Entry) /\ Len(d) = Len(c)
      /\ \A i \in 1..Len(c) : /\ d[i].set = c[i].set
                              /\ d[i].clear = c[i].clear
                              /\ d[i].h_time = c[i].h_time - Before(c, i)
    BY <1>1, DeltasAre
<1> HIDE DEF d
<1>3. /\ l \in Seq(Entry) /\ Len(l) = Len(d)
      /\ \A i \in 1..Len(d) : /\ l[i].set = d[i].set
                              /\ l[i].h_time = d[i].h_time
                              /\ l[i].clear = IF i = Len(d) THEN {} ELSE d[i].clear
    BY <1>1, <1>2, LastSetsAre
<1> HIDE DEF l
<1>4. WithSetsOf(l, c)
    BY <1>2, <1>3 DEF WithSetsOf
<1> QED BY <1>4 DEF l, d

\* The first entry's time, and its place if it is 0
LEMMA FirstIs ==
    ASSUME NEW s, Setting(s), NEW c, CombinedOf(c, s), NEW l, WithSetsOf(l, c)
    PROVE  /\ l # <<>> /\ Head(l) = l[1] /\ l[1].h_time = c[1].h_time
           /\ \A i \in 2..Len(c) : c[i].h_time > 0
           /\ c[1].h_time = 0 => Len(c) >= 2 /\ Len(l) >= 2
<1>1. c \in Seq(Entry) /\ Len(c) >= 1 /\ Rising(c) /\ \E m \in 1..Len(c) : c[m].h_time = Ticks(s.period)
    BY DEF CombinedOf
<1>2. l \in Seq(Entry) /\ Len(l) = Len(c) /\ \A i \in 1..Len(c) : l[i].h_time = c[i].h_time - Before(c, i)
    BY DEF WithSetsOf
<1>3. Len(c) \in Nat /\ 1 \in 1..Len(c)
    BY <1>1
<1>4. c[1] \in Entry /\ c[1].h_time \in Nat
    BY <1>1, <1>3, EntryTime, Uint16Nat
<1>5. l[1].h_time = c[1].h_time
    <2>1. l[1].h_time = c[1].h_time - 0
        BY <1>2, <1>3 DEF Before
    <2> QED BY <1>4, <2>1
<1>6. l # <<>> /\ Head(l) = l[1]
    BY <1>2, <1>3
<1>7. ASSUME NEW i \in 2..Len(c) PROVE c[i].h_time > 0
    <2>1. i \in 1..Len(c) /\ 1 < i
        BY <1>3
    <2>2. c[1].h_time < c[i].h_time
        BY <1>1, <1>3, <2>1 DEF Rising
    <2>3. c[i].h_time \in Int
        BY <1>1, <2>1, EntryTime
    <2> QED BY <1>4, <2>2, <2>3
<1>8. ASSUME c[1].h_time = 0 PROVE Len(c) >= 2
    <2> DEFINE n == Len(c)
    <2>1. n \in Nat /\ n >= 1
        BY <1>1, <1>3
    <2>2. PICK m \in 1..n : c[m].h_time = Ticks(s.period)
        BY <1>1
    <2> HIDE DEF n
    <2>3. m # 1
        BY <1>8, <2>2, PeriodIs
    <2>4. n >= 2
        BY <2>1, <2>2, <2>3
    <2> QED BY <2>4 DEF n
<1> QED BY <1>2, <1>5, <1>6, <1>7, <1>8

\* A table that makes what is asked for: cum is the time since the period began.
Plays(t, s, cum) ==
    /\ t \in Seq(Entry) /\ Len(t) >= 1 /\ Len(t) <= PWM_CHANNEL + 1
    /\ cum \in [0..Len(t) -> Nat] /\ cum[0] = 0 /\ cum[Len(t)] = Ticks(s.period)
    /\ \A i \in 1..Len(t) : cum[i - 1] < cum[i] /\ t[i].h_time = cum[i] - cum[i - 1]
    /\ \A p \in Pin : OnTime(s, p) = 0 \/ \E i \in 1..Len(t) : cum[i] = OnTime(s, p)
    /\ \A i \in 1..Len(t)-1 : /\ t[i].set = {}
                              /\ t[i].clear = {p \in Pin : OnTime(s, p) = cum[i]}
    /\ t[Len(t)].set = {p \in Pin : OnTime(s, p) # 0}
    /\ t[Len(t)].clear = {p \in Pin : OnTime(s, p) = 0}

\* What the combined table is where a period's ticks fit
LEMMA CombinedFits ==
    ASSUME NEW s, Setting(s), Fits(s), NEW c, CombinedOf(c, s)
    PROVE  /\ c[Len(c)].set = Pin
           /\ \A i \in 1..Len(c)-1 : c[i].set = {}
<1>1. c \in Seq(Entry) /\ Len(c) >= 1 /\ Rising(c) /\ c[Len(c)].h_time = Ticks(s.period)
    BY DEF CombinedOf
<1>2. \A m \in 1..Len(c) : c[m].set = IF c[m].h_time = Ticks(s.period) THEN Pin ELSE {}
    BY DEF CombinedOf
<1>3. Len(c) \in Nat /\ Len(c) \in 1..Len(c)
    BY <1>1
<1>4. ASSUME NEW i \in 1..Len(c)-1 PROVE c[i].set = {}
    <2>1. i \in 1..Len(c) /\ i < Len(c)
        BY <1>3
    <2>2. c[i].h_time < c[Len(c)].h_time
        BY <1>1, <1>3, <2>1 DEF Rising
    <2>3. c[i].h_time \in Int /\ c[Len(c)].h_time \in Int
        BY <1>1, <1>3, <2>1, EntryTime
    <2>4. c[i].h_time # Ticks(s.period)
        BY <1>1, <2>2, <2>3
    <2> QED BY <1>2, <2>1, <2>4
<1>5. c[Len(c)].set = Pin
    BY <1>1, <1>2, <1>3
<1> QED BY <1>4, <1>5

\* No pin is always off: the table as it is
LEMMA PlaysAsIs ==
    ASSUME NEW s, Setting(s), Fits(s), NEW c, CombinedOf(c, s), NEW l, WithSetsOf(l, c),
           c[1].h_time # 0
    PROVE  \E cum : Plays(l, s, cum)
<1> DEFINE n == Len(c)
           cum == [i \in 0..n |-> IF i = 0 THEN 0 ELSE c[i].h_time]
<1>1. /\ c \in Seq(Entry) /\ n >= 1 /\ n <= PWM_CHANNEL + 1 /\ c[n].h_time = Ticks(s.period)
      /\ Rising(c)
    BY DEF CombinedOf
<1>2. /\ \A p \in Pin : \E m \in 1..n : c[m].h_time = OnTime(s, p)
      /\ \A m \in 1..n : c[m].clear = {p \in Pin : OnTime(s, p) = c[m].h_time}
    BY DEF CombinedOf
<1>3. c[n].set = Pin /\ \A i \in 1..n-1 : c[i].set = {}
    BY CombinedFits
<1>4. l \in Seq(Entry) /\ Len(l) = n
      /\ \A i \in 1..n : /\ l[i].set = c[i].set
                         /\ l[i].clear = IF i = n THEN {} ELSE c[i].clear
                         /\ l[i].h_time = c[i].h_time - Before(c, i)
    BY DEF WithSetsOf
<1>5. n \in Nat /\ n \in 1..n /\ 1 \in 1..n
    BY <1>1
<1>6. \A i \in 1..n : c[i].h_time \in Nat
    BY <1>1, EntryTime, Uint16Nat
<1> HIDE DEF n
<1>7. ASSUME NEW i \in 1..n PROVE c[i].h_time > 0
    <2>1. CASE i = 1
        BY <1>5, <1>6, <2>1
    <2>2. CASE i # 1
        <3>1. i \in 2..n
            BY <1>5, <2>2
        <3> QED BY <3>1, FirstIs DEF n
    <2> QED BY <2>1, <2>2
<1>8. cum \in [0..n -> Nat] /\ cum[0] = 0 /\ \A i \in 1..n : cum[i] = c[i].h_time
    <2>1. \A i \in 0..n : i # 0 => i \in 1..n
        BY <1>5
    <2>2. \A i \in 0..n : cum[i] = IF i = 0 THEN 0 ELSE c[i].h_time
        OBVIOUS
    <2>3. cum \in [0..n -> Nat]
        BY <1>6, <2>1
    <2> HIDE DEF cum
    <2>4. 0 \in 0..n /\ \A i \in 1..n : i \in 0..n /\ i # 0
        BY <1>5
    <2> QED BY <2>2, <2>3, <2>4
<1> HIDE DEF cum
<1>9. ASSUME NEW i \in 1..n PROVE cum[i - 1] < cum[i] /\ l[i].h_time = cum[i] - cum[i - 1]
    <2>1. CASE i = 1
        <3>1. cum[i - 1] = 0 /\ Before(c, i) = 0
            BY <1>8, <2>1 DEF Before
        <3> QED BY <1>4, <1>6, <1>7, <1>8, <3>1
    <2>2. CASE i # 1
        <3>1. i - 1 \in 1..n /\ i - 1 < i
            BY <1>5, <2>2
        <3>2. cum[i - 1] = c[i - 1].h_time /\ Before(c, i) = c[i - 1].h_time
            BY <1>8, <2>2, <3>1 DEF Before
        <3>3. c[i - 1].h_time < c[i].h_time
            BY <1>1, <3>1 DEF Rising, n
        <3> QED BY <1>4, <1>8, <3>2, <3>3
    <2> QED BY <2>1, <2>2
<1>10. ASSUME NEW p \in Pin PROVE OnTime(s, p) # 0 /\ \E i \in 1..n : cum[i] = OnTime(s, p)
    <2>1. PICK m \in 1..n : c[m].h_time = OnTime(s, p)
        BY <1>2
    <2> QED BY <1>6, <1>7, <1>8, <2>1
<1>11. ASSUME NEW i \in 1..n-1
       PROVE  l[i].set = {} /\ l[i].clear = {p \in Pin : OnTime(s, p) = cum[i]}
    <2>1. i \in 1..n /\ i # n
        BY <1>5
    <2> QED BY <1>2, <1>3, <1>4, <1>8, <2>1
<1>12. l[n].set = {p \in Pin : OnTime(s, p) # 0} /\ l[n].clear = {p \in Pin : OnTime(s, p) = 0}
    BY <1>3, <1>4, <1>5, <1>10
<1>13. cum[n] = Ticks(s.period)
    BY <1>1, <1>5, <1>8
<1>14. Plays(l, s, cum)
    BY <1>1, <1>4, <1>8, <1>9, <1>10, <1>11, <1>12, <1>13 DEF Plays
<1> QED BY <1>14

\* Pins that are always off
LEMMA PlaysWithout ==
    ASSUME NEW s, Setting(s), Fits(s), NEW c, CombinedOf(c, s), NEW l, WithSetsOf(l, c),
           c[1].h_time = 0, Len(l) >= 2, NEW t, t = Without(l, l[1].clear)
    PROVE  \E cum : Plays(t, s, cum)
<1> DEFINE n == Len(c)
           cum == [i \in 0..n-1 |-> c[i + 1].h_time]
           z == {p \in Pin : OnTime(s, p) = 0}
<1>1. /\ c \in Seq(Entry) /\ n <= PWM_CHANNEL + 1 /\ c[n].h_time = Ticks(s.period)
      /\ Rising(c)
    BY DEF CombinedOf
<1>2. /\ \A p \in Pin : \E m \in 1..n : c[m].h_time = OnTime(s, p)
      /\ \A m \in 1..n : c[m].clear = {p \in Pin : OnTime(s, p) = c[m].h_time}
    BY DEF CombinedOf
<1>3. c[n].set = Pin /\ \A i \in 1..n-1 : c[i].set = {}
    BY CombinedFits
<1>4. l \in Seq(Entry) /\ Len(l) = n /\ n >= 2
      /\ \A i \in 1..n : /\ l[i].set = c[i].set
                         /\ l[i].clear = IF i = n THEN {} ELSE c[i].clear
                         /\ l[i].h_time = c[i].h_time - Before(c, i)
    BY DEF WithSetsOf
<1>5. n \in Nat /\ n \in 1..n /\ 1 \in 1..n /\ 1 # n /\ n - 1 \in Nat
    BY <1>1, <1>4
<1>6. \A i \in 1..n : c[i].h_time \in Nat
    BY <1>1, EntryTime, Uint16Nat
<1>7. l[1].clear = z /\ z \subseteq Pin
    BY <1>2, <1>4, <1>5
<1>8. /\ t \in Seq(Entry) /\ Len(t) = n - 1
      /\ \A i \in 1..n-2 : t[i] = l[i + 1]
      /\ t[n - 1].set = l[n].set \ z
      /\ t[n - 1].clear = l[n].clear \cup z
      /\ t[n - 1].h_time = l[n].h_time
    <2>1. z \in SUBSET Pin /\ Len(l) >= 2
        BY <1>4
    <2> HIDE DEF z, n
    <2>2. /\ Without(l, z) \in Seq(Entry) /\ Len(Without(l, z)) = Len(l) - 1
          /\ \A i \in 1..Len(l)-2 : Without(l, z)[i] = l[i + 1]
          /\ Without(l, z)[Len(l) - 1].set = l[Len(l)].set \ z
          /\ Without(l, z)[Len(l) - 1].clear = l[Len(l)].clear \cup z
          /\ Without(l, z)[Len(l) - 1].h_time = l[Len(l)].h_time
        BY <1>4, <2>1, TailIs
    <2>3. t = Without(l, z) /\ Len(l) = n
        BY <1>4, <1>7
    <2> QED BY <2>2, <2>3, Zenon
<1> HIDE DEF n, z
<1>9. ASSUME NEW i \in 2..n PROVE c[i].h_time > 0
    BY FirstIs DEF n
<1>10. cum \in [0..n-1 -> Nat] /\ cum[0] = 0 /\ \A i \in 0..n-1 : cum[i] = c[i + 1].h_time
    <2>1. \A i \in 0..n-1 : i + 1 \in 1..n
        BY <1>5
    <2>2. cum \in [0..n-1 -> Nat] /\ \A i \in 0..n-1 : cum[i] = c[i + 1].h_time
        BY <1>6, <2>1
    <2>3. 0 \in 0..n-1 /\ 0 + 1 = 1
        BY <1>5
    <2> HIDE DEF cum
    <2>4. cum[0] = c[0 + 1].h_time
        BY <2>2, <2>3
    <2> QED BY <2>2, <2>3, <2>4
<1> HIDE DEF cum
<1>11. ASSUME NEW i \in 1..n-1
       PROVE  cum[i - 1] < cum[i] /\ t[i].h_time = cum[i] - cum[i - 1]
    <2>1. i - 1 \in 0..n-1 /\ i \in 0..n-1 /\ i \in 1..n /\ i + 1 \in 1..n /\ i < i + 1
          /\ (i - 1) + 1 = i /\ i + 1 # 1 /\ (i + 1) - 1 = i
        BY <1>5
    <2>2. cum[i - 1] = c[i].h_time /\ cum[i] = c[i + 1].h_time
        BY <1>10, <2>1
    <2>3. c[i].h_time < c[i + 1].h_time
        BY <1>1, <2>1 DEF Rising, n
    <2>4. l[i + 1].h_time = c[i + 1].h_time - c[i].h_time
        BY <1>4, <2>1 DEF Before
    <2>5. t[i].h_time = l[i + 1].h_time
        <3>1. i \in 1..n-2 \/ i = n - 1
            BY <1>5
        <3>2. CASE i \in 1..n-2
            BY <1>8, <3>2
        <3>3. CASE i = n - 1
            <4>1. i + 1 = n
                BY <1>5, <3>3
            <4> QED BY <1>8, <3>3, <4>1
        <3> QED BY <3>1, <3>2, <3>3
    <2> QED BY <2>2, <2>3, <2>4, <2>5
<1>12. ASSUME NEW p \in Pin
       PROVE  OnTime(s, p) = 0 \/ \E i \in 1..n-1 : cum[i] = OnTime(s, p)
    <2>1. PICK m \in 1..n : c[m].h_time = OnTime(s, p)
        BY <1>2
    <2>2. CASE m = 1
        BY <2>1, <2>2
    <2>3. CASE m # 1
        <3>1. m - 1 \in 1..n-1 /\ m - 1 \in 0..n-1 /\ (m - 1) + 1 = m
            BY <1>5, <2>3
        <3>2. cum[m - 1] = c[m].h_time
            BY <1>10, <3>1
        <3> QED BY <2>1, <3>1, <3>2
    <2> QED BY <2>2, <2>3
<1>13. ASSUME NEW i \in 1..n-2
       PROVE  t[i].set = {} /\ t[i].clear = {p \in Pin : OnTime(s, p) = cum[i]}
    <2>1. i + 1 \in 1..n /\ i + 1 \in 1..n-1 /\ i + 1 # n /\ i \in 0..n-1
        BY <1>5
    <2>2. t[i] = l[i + 1] /\ cum[i] = c[i + 1].h_time
        BY <1>8, <1>10, <2>1
    <2>3. l[i + 1].set = {} /\ l[i + 1].clear = c[i + 1].clear
        BY <1>3, <1>4, <2>1
    <2> QED BY <1>2, <2>1, <2>2, <2>3
<1>14. t[n - 1].set = {p \in Pin : OnTime(s, p) # 0} /\ t[n - 1].clear = {p \in Pin : OnTime(s, p) = 0}
    <2>1. l[n].set = Pin /\ l[n].clear = {}
        BY <1>3, <1>4, <1>5
    <2> QED BY <1>8, <2>1 DEF z
<1>15. cum[n - 1] = Ticks(s.period)
    <2>1. n - 1 \in 0..n-1 /\ (n - 1) + 1 = n
        BY <1>5
    <2>2. cum[n - 1] = c[(n - 1) + 1].h_time
        BY <1>10, <2>1
    <2> QED BY <1>1, <2>1, <2>2
<1>16. n - 1 >= 1 /\ n - 1 <= PWM_CHANNEL + 1 /\ (n - 1) - 1 = n - 2
    BY <1>1, <1>4, <1>5, Pins
<1>17. Plays(t, s, cum)
    <2> DEFINE k == n - 1
    <2>1. k - 1 = n - 2
        BY <1>16
    <2>2. Len(t) = k /\ t \in Seq(Entry) /\ k >= 1 /\ k <= PWM_CHANNEL + 1
        BY <1>8, <1>16
    <2>3. cum \in [0..k -> Nat] /\ cum[0] = 0 /\ cum[k] = Ticks(s.period)
        BY <1>10, <1>15
    <2>4. \A i \in 1..k : cum[i - 1] < cum[i] /\ t[i].h_time = cum[i] - cum[i - 1]
        BY <1>11
    <2>5. \A p \in Pin : OnTime(s, p) = 0 \/ \E i \in 1..k : cum[i] = OnTime(s, p)
        BY <1>12
    <2>6. \A i \in 1..k-1 : t[i].set = {} /\ t[i].clear = {p \in Pin : OnTime(s, p) = cum[i]}
        BY <1>13, <2>1, Zenon
    <2>7. t[k].set = {p \in Pin : OnTime(s, p) # 0} /\ t[k].clear = {p \in Pin : OnTime(s, p) = 0}
        BY <1>14
    <2> HIDE DEF k
    <2> QED BY <2>2, <2>3, <2>4, <2>5, <2>6, <2>7, Zenon DEF Plays
<1> QED BY <1>17

\* The table of pwm_start is one the handler can walk, and makes what is asked for.
LEMMA TableIs ==
    ASSUME NEW s, Setting(s)
    PROVE  /\ Table(s) \in Seq(Entry) /\ Len(Table(s)) >= 1 /\ Len(Table(s)) <= PWM_CHANNEL + 1
           /\ Fits(s) => \E cum : Plays(Table(s), s, cum)
<1> DEFINE c == Combined(Sorted(Channels(s)))
           l == LastSets(Deltas(c))
           t == WithoutZero(l)
<1>1. CombinedOf(c, s)
    BY CombinedIs
<1> HIDE DEF c
<1>2. WithSetsOf(l, c)
    BY <1>1, WithSetsIs
<1> HIDE DEF l
<1>3. /\ l # <<>> /\ Head(l) = l[1] /\ l[1].h_time = c[1].h_time
      /\ c[1].h_time = 0 => Len(c) >= 2 /\ Len(l) >= 2
    BY <1>1, <1>2, FirstIs
<1>4. l \in Seq(Entry) /\ Len(l) = Len(c)
    BY <1>2 DEF WithSetsOf
<1>5. Len(c) >= 1 /\ Len(c) <= PWM_CHANNEL + 1
    BY <1>1 DEF CombinedOf
<1>6. Table(s) = t
    BY DEF Table, t, l, c
<1>7. CASE c[1].h_time # 0
    <2>1. t = l
        BY <1>3, <1>7 DEF WithoutZero
    <2>2. Fits(s) => \E cum : Plays(l, s, cum)
        BY <1>1, <1>2, <1>7, PlaysAsIs
    <2> HIDE DEF t
    <2> QED BY <1>4, <1>5, <1>6, <2>1, <2>2
<1>8. CASE c[1].h_time = 0
    <2>1. t = Without(l, l[1].clear)
        BY <1>3, <1>8 DEF WithoutZero, Without
    <2> HIDE DEF t
    <2>2. Len(l) >= 2
        BY <1>3, <1>8
    <2>3. l[1].clear \in SUBSET Pin
        <3>1. l[1] \in Entry
            BY <1>4, <2>2
        <3> QED BY <3>1 DEF Entry
    <2>4. t \in Seq(Entry) /\ Len(t) = Len(l) - 1
        BY <1>4, <2>1, <2>2, <2>3, TailIs
    <2>5. Fits(s) => \E cum : Plays(t, s, cum)
        BY <1>1, <1>2, <1>8, <2>1, <2>2, PlaysWithout
    <2>6. Len(t) >= 1 /\ Len(t) <= PWM_CHANNEL + 1
        BY <1>4, <1>5, <2>2, <2>4, Pins
    <2> QED BY <1>6, <2>4, <2>5, <2>6
<1> QED BY <1>7, <1>8

-----------------------------------------------------------------------------
(* The steps of pwm_start and of the interrupt                             *)

SettingsInv == Setting(pwm) /\ Setting(asked) /\ Setting(due)

\* Whose tables the buffers hold
TablesInv ==
    /\ starting # "no" => pwm_single_toggle[Spare] = Table(pwm)
    /\ ~pwm_timer_down /\ starting # "loaded" => pwm_single_toggle[pwm_toggle] = Table(asked)
    /\ ~pwm_timer_down /\ walk # "overwritten" => pwm_single_toggle[pwm_single] = Table(due)

PlaceInv == (pwm_timer_down => pwm_current_channel = 0) /\ PlaceInTable

StoppedInv ==
    pwm_timer_down /\ starting # "timer" /\ pwm_single_toggle[pwm_single] # <<>> /\ Fits(due) =>
        \A p \in Pin : due.duty[p] = IF p \in high THEN PWM_DEPTH ELSE 0

\* A period in which each pin is high until its time
InPeriod(cum) ==
    /\ Plays(Table(due), due, cum)
    /\ \A p \in Pin : on[p] = IF OnTime(due, p) <= cum[pwm_current_channel]
                              THEN OnTime(due, p) ELSE cum[pwm_current_channel]
    /\ \A p \in Pin : p \in high <=> ~(OnTime(due, p) <= cum[pwm_current_channel])
    /\ frc1 = cum[pwm_current_channel + 1] - cum[pwm_current_channel]

WholeInv == ~pwm_timer_down /\ walk = "whole" /\ Fits(due) => \E cum : InPeriod(cum)

PwmInv == PwmTypeOK /\ SettingsInv /\ TablesInv /\ PlaceInv /\ StoppedInv /\ WholeInv

\* What is left in 16 bits of the periods that do not fit, below 16 Hz, is no
\* less than 255 either.
LEMMA PeriodOf ==
    ASSUME NEW f \in 1..500, NEW q, q = 1000000 \div f
    PROVE  q % 65536 \in Uint16 /\ q % 65536 >= 255
<1>1. CASE f \in 16..500
    <2>1. q \in Nat /\ f * q <= 1000000 /\ 1000000 < f * (q + 1)
        OBVIOUS
    <2>2. f * q >= 16 * q /\ f * (q + 1) <= 500 * (q + 1)
        BY <1>1, <2>1
    <2>3. q <= 62500 /\ q >= 1999
        BY <2>1, <2>2
    <2>4. q % 65536 = q
        BY <2>1, <2>3
    <2>5. q \in Uint16
        BY <2>1, <2>3, Uint16Is
    <2> QED BY <2>1, <2>3, <2>4, <2>5
<1>2. CASE f \in 1..15
    <2> DEFINE r == q % 65536
    <2>1. f \in {1, 2, 3, 4, 5} \/ f \in {6, 7, 8, 9, 10} \/ f \in {11, 12, 13, 14, 15}
        BY <1>2
    <2>2. q \in Nat
        BY <1>2
    <2>3. r >= 255
        <3>1. CASE f \in {1, 2, 3, 4, 5}
            BY <3>1
        <3>2. CASE f \in {6, 7, 8, 9, 10}
            BY <3>2
        <3>3. CASE f \in {11, 12, 13, 14, 15}
            BY <3>3
        <3> QED BY <2>1, <3>1, <3>2, <3>3
    <2>4. r \in Int /\ 0 <= r /\ r <= 65535
        BY <2>2
    <2> HIDE DEF r
    <2>5. r \in Uint16
        BY <2>4, Uint16Is
    <2> QED BY <2>3, <2>5 DEF r
<1> QED BY <1>1, <1>2

LEMMA SetIs == ASSUME NEW s \in Settings PROVE Setting(Set(s.freq, s.duty))
<1> DEFINE f == IF s.freq > 500 THEN 500 ELSE IF s.freq < 1 THEN 1 ELSE s.freq
           q == 1000000 \div f
           d == [p \in Pin |-> IF s.duty[p] >= PWM_DEPTH THEN PWM_DEPTH ELSE s.duty[p]]
<1>1. s.freq \in Uint16 /\ s.duty \in [Pin -> 0..PWM_DEPTH]
    BY PwmAssumption DEF Pin
<1>2. f \in 1..500
    <2>1. s.freq \in Int
        BY <1>1, Uint16Nat
    <2> QED BY <2>1
<1> HIDE DEF f
<1>3. q % 65536 \in Uint16 /\ q % 65536 >= 255
    BY <1>2, PeriodOf
<1>4. d \in [Pin -> 0..PWM_DEPTH]
    BY <1>1 DEF PWM_DEPTH
<1>5. Set(s.freq, s.duty) = [period |-> q % 65536, duty |-> d]
    BY DEF Set, f
<1> HIDE DEF q, d
<1> QED BY <1>3, <1>4, <1>5 DEF Setting

LEMMA Buffers ==
    ASSUME PwmTypeOK
    PROVE  /\ Spare \in {0, 1} /\ Spare # pwm_toggle /\ OtherToggle = Spare /\ 1 - OtherToggle = pwm_toggle
           /\ \A b \in {0, 1} : b = Spare \/ b = pwm_toggle
<1>1. pwm_toggle = 0 \/ pwm_toggle = 1
    BY DEF PwmTypeOK
<1> QED BY <1>1 DEF Spare, OtherToggle

\* The settings' types, and the others'
LEMMA SettingTypes ==
    SettingsInv => \A s \in {pwm, asked, due} : s.period \in Uint16 /\ s.duty \in [Pin -> 0..PWM_DEPTH]
BY DEF SettingsInv, Setting

LEMMA PwmInitInv == PwmInit => PwmInv
<1> SUFFICES ASSUME PwmInit PROVE PwmInv
    OBVIOUS
<1> USE DEF PwmInit
<1>1. SettingsInv
    BY SetIs DEF SettingsInv
<1>2. pwm_timer_down = TRUE /\ starting = "no" /\ pwm_current_channel = 0 /\ walk = "first"
      /\ \A b \in {0, 1} : pwm_single_toggle[b] = <<>>
    OBVIOUS
<1>3. PwmTypeOK
    <2>1. /\ \A s \in {pwm, asked, due} : s.period \in Uint16 /\ s.duty \in [Pin -> 0..PWM_DEPTH]
        BY <1>1, SettingTypes
    <2>2. /\ pwm_toggle \in {0, 1} /\ pwm_single \in {0, 1} /\ pwm_timer_down \in BOOLEAN
          /\ starting \in {"no", "timer", "toggle", "loaded"} /\ walk \in {"first", "whole", "overwritten"}
          /\ high \subseteq Pin
        OBVIOUS
    <2>3. on \in [Pin -> Nat]
        OBVIOUS
    <2>4. frc1 \in Uint16
        BY Uint16Is
    <2>5. pwm_current_channel \in 0..PWM_CHANNEL
        BY <1>2, Pins
    <2>6. /\ pwm_single_toggle \in [{0, 1} -> Seq(Entry)]
          /\ \A b \in {0, 1} : Len(pwm_single_toggle[b]) <= PWM_CHANNEL + 1
        BY <1>2, Pins
    <2> QED BY <2>1, <2>2, <2>3, <2>4, <2>5, <2>6 DEF PwmTypeOK
<1>4. TablesInv /\ PlaceInv /\ WholeInv
    BY <1>2 DEF TablesInv, PlaceInv, PlaceInTable, WholeInv
<1>5. StoppedInv
    <2>1. pwm_single_toggle[pwm_single] = <<>>
        OBVIOUS
    <2> QED BY <2>1 DEF StoppedInv
<1> QED BY <1>1, <1>3, <1>4, <1>5 DEF PwmInv

LEMMA PwmStays == PwmInv /\ UNCHANGED pwmVars => PwmInv'
<1> SUFFICES ASSUME PwmInv, UNCHANGED pwmVars PROVE PwmInv'
    OBVIOUS
<1> USE DEF PwmInv, pwmVars, playing
<1>1. PwmTypeOK'
    BY DEF PwmTypeOK
<1>2. SettingsInv'
    BY DEF SettingsInv
<1>3. TablesInv'
    BY DEF TablesInv, Spare
<1>4. PlaceInv'
    BY DEF PlaceInv, PlaceInTable
<1>5. StoppedInv'
    BY DEF StoppedInv
<1>6. WholeInv'
    BY DEF WholeInv, InPeriod
<1> QED BY <1>1, <1>2, <1>3, <1>4, <1>5, <1>6

LEMMA PwmSetStep == PwmInv /\ PwmSet => PwmInv'
<1> SUFFICES ASSUME PwmInv, PwmSet PROVE PwmInv'
    OBVIOUS
<1>1. /\ starting = "no" /\ UNCHANGED <<pwm_single_toggle, pwm_toggle, pwm_timer_down, starting, asked, walk>>
      /\ UNCHANGED <<pwm_single, pwm_current_channel, frc1, high, on, due>>
    BY DEF PwmSet, playing
<1>2. Setting(pwm')
    BY SetIs DEF PwmSet
<1>3. SettingsInv'
    BY <1>1, <1>2 DEF PwmInv, SettingsInv
<1>4. PwmTypeOK'
    <2>1. \A s \in {pwm', asked', due'} : s.period \in Uint16 /\ s.duty \in [Pin -> 0..PWM_DEPTH]
        BY <1>3 DEF SettingsInv, Setting
    <2> QED BY <1>1, <2>1 DEF PwmInv, PwmTypeOK
<1>5. TablesInv'
    BY <1>1 DEF PwmInv, TablesInv
<1>6. PlaceInv'
    BY <1>1 DEF PwmInv, PlaceInv, PlaceInTable
<1>7. StoppedInv'
    BY <1>1 DEF PwmInv, StoppedInv
<1>8. WholeInv'
    BY <1>1 DEF PwmInv, WholeInv, InPeriod
<1> QED BY <1>3, <1>4, <1>5, <1>6, <1>7, <1>8 DEF PwmInv

LEMMA PwmStartStep == PwmInv /\ PwmStart => PwmInv'
<1> SUFFICES ASSUME PwmInv, PwmStart PROVE PwmInv'
    OBVIOUS
<1>1. PwmTypeOK /\ SettingsInv /\ TablesInv /\ PlaceInv /\ StoppedInv /\ WholeInv
    BY DEF PwmInv
<1>2. /\ starting = "no" /\ starting' = "timer"
      /\ pwm_single_toggle' = [pwm_single_toggle EXCEPT ![Spare] = Table(pwm)]
      /\ walk' = IF pwm_single = Spare /\ ~pwm_timer_down THEN "overwritten" ELSE walk
      /\ UNCHANGED <<pwm, pwm_toggle, pwm_timer_down, asked>>
      /\ UNCHANGED <<pwm_single, pwm_current_channel, frc1, high, on, due>>
    BY DEF PwmStart, playing
<1>3. Table(pwm) \in Seq(Entry) /\ Len(Table(pwm)) <= PWM_CHANNEL + 1
    BY <1>1, TableIs DEF SettingsInv
<1>4. Spare \in {0, 1} /\ Spare # pwm_toggle /\ \A b \in {0, 1} : b = Spare \/ b = pwm_toggle
    BY <1>1, Buffers
<1>5. Spare' = Spare
    BY <1>2 DEF Spare
<1>6. /\ pwm_single_toggle' \in [{0, 1} -> Seq(Entry)]
      /\ pwm_single_toggle'[Spare] = Table(pwm)
      /\ \A b \in {0, 1} : b # Spare => pwm_single_toggle'[b] = pwm_single_toggle[b]
    BY <1>1, <1>2, <1>3, <1>4 DEF PwmTypeOK
<1>7. SettingsInv'
    BY <1>1, <1>2 DEF SettingsInv
<1>8. PwmTypeOK'
    <2>1. \A s \in {pwm', asked', due'} : s.period \in Uint16 /\ s.duty \in [Pin -> 0..PWM_DEPTH]
        BY <1>7 DEF SettingsInv, Setting
    <2>2. \A b \in {0, 1} : Len(pwm_single_toggle'[b]) <= PWM_CHANNEL + 1
        BY <1>1, <1>3, <1>6 DEF PwmTypeOK
    <2>3. walk' \in {"first", "whole", "overwritten"} /\ starting' \in {"no", "timer", "toggle", "loaded"}
        BY <1>1, <1>2 DEF PwmTypeOK
    <2> QED BY <1>1, <1>2, <1>6, <2>1, <2>2, <2>3 DEF PwmTypeOK
<1>9. pwm_toggle \in {0, 1} /\ pwm_single \in {0, 1}
    BY <1>1 DEF PwmTypeOK
<1>10. ~pwm_timer_down /\ walk' # "overwritten" =>
           pwm_single # Spare /\ walk' = walk /\ pwm_single_toggle'[pwm_single] = pwm_single_toggle[pwm_single]
    BY <1>2, <1>6, <1>9
<1>11. TablesInv'
    <2>1. pwm_single_toggle'[Spare'] = Table(pwm')
        BY <1>2, <1>5, <1>6
    <2>2. pwm_single_toggle'[pwm_toggle] = pwm_single_toggle[pwm_toggle]
        BY <1>4, <1>6, <1>9
    <2> QED BY <1>1, <1>2, <1>10, <2>1, <2>2 DEF TablesInv
<1>12. PlaceInv'
    BY <1>1, <1>2, <1>10 DEF PlaceInv, PlaceInTable
<1>13. StoppedInv'
    BY <1>2 DEF StoppedInv
<1>14. WholeInv'
    BY <1>1, <1>2, <1>10 DEF WholeInv, InPeriod
<1> QED BY <1>7, <1>8, <1>11, <1>12, <1>13, <1>14 DEF PwmInv

\* The times of a table rise, and no pin's is between two of them.
LEMMA CumRises ==
    ASSUME NEW t, NEW s, NEW cum, Plays(t, s, cum), NEW i \in 0..Len(t), NEW j \in 0..Len(t), i <= j
    PROVE  cum[i] <= cum[j]
<1> DEFINE n == Len(t)
           above == {k \in 0..n : i <= k => cum[i] <= cum[k]}
<1>1. n \in Nat /\ \A k \in 0..n : cum[k] \in Nat
    BY DEF Plays
<1>2. \A k \in 1..n : cum[k - 1] < cum[k]
    BY DEF Plays
<1> HIDE DEF n
<1>3. i \in 0..n /\ j \in 0..n
    BY DEF n
<1>4. 0 \in above
    <2>1. 0 \in 0..n /\ (i <= 0 => i = 0)
        BY <1>1, <1>3
    <2> QED BY <1>1, <2>1
<1>5. ASSUME NEW k \in 0..n-1, k \in above PROVE k + 1 \in above
    <2>1. k \in 0..n /\ k + 1 \in 0..n /\ k + 1 \in 1..n /\ (k + 1) - 1 = k
        BY <1>1
    <2>2. cum[k] < cum[k + 1]
        BY <1>2, <2>1
    <2>3. CASE i <= k
        BY <1>1, <1>3, <1>5, <2>1, <2>2, <2>3
    <2>4. CASE i = k + 1
        BY <1>1, <2>1, <2>4
    <2>5. CASE i > k + 1
        BY <1>3, <2>1, <2>5
    <2> QED BY <1>3, <2>1, <2>3, <2>4, <2>5
<1>6. j \in above
    <2> HIDE DEF above
    <2>1. \A k \in 0..n : k \in above
        BY <1>1, <1>4, <1>5, UpTo
    <2> QED BY <1>3, <2>1
<1> QED BY <1>6

LEMMA NoneBetween ==
    ASSUME NEW t, NEW s, Setting(s), NEW cum, Plays(t, s, cum), NEW c \in 0..Len(t)-1, NEW p \in Pin,
           ~(OnTime(s, p) <= cum[c])
    PROVE  OnTime(s, p) >= cum[c + 1]
<1> DEFINE n == Len(t)
           o == OnTime(s, p)
<1>1. n \in Nat /\ \A k \in 0..n : cum[k] \in Nat
    BY DEF Plays
<1>2. o \in Int
    BY OnTimeIs, Uint16Nat
<1>3. c \in 0..n /\ c + 1 \in 0..n
    BY <1>1
<1>4. o = 0 \/ \E k \in 1..n : cum[k] = o
    BY DEF Plays
<1>5. o # 0
    BY <1>1, <1>2, <1>3
<1>6. PICK k \in 1..n : cum[k] = o
    BY <1>4, <1>5
<1>7. k \in 0..n
    BY <1>1
<1>8. ~(k <= c)
    <2> SUFFICES ASSUME k <= c PROVE FALSE
        OBVIOUS
    <2>1. cum[k] <= cum[c]
        BY <1>3, <1>7, CumRises
    <2> QED BY <1>6, <2>1
<1>9. c + 1 <= k
    BY <1>1, <1>3, <1>7, <1>8
<1>10. cum[c + 1] <= cum[k]
    BY <1>3, <1>7, <1>9, CumRises
<1> QED BY <1>1, <1>2, <1>3, <1>6, <1>7, <1>10

\* What the last entry of a table leaves
LEMMA LastLeaves ==
    ASSUME NEW t, NEW s, NEW cum, Plays(t, s, cum), NEW before \in SUBSET Pin, NEW p \in Pin
    PROVE  p \in (before \cup t[Len(t)].set) \ t[Len(t)].clear <=> OnTime(s, p) # 0
BY DEF Plays

\* A table of one entry is for pins that are always off or always on.
LEMMA OneEntry ==
    ASSUME NEW t, NEW s, Setting(s), Fits(s), NEW cum, Plays(t, s, cum), Len(t) = 1,
           NEW after, \A p \in Pin : p \in after <=> OnTime(s, p) # 0, NEW p \in Pin
    PROVE  s.duty[p] = IF p \in after THEN PWM_DEPTH ELSE 0
<1>1. cum[1] = Ticks(s.period)
    BY DEF Plays
<1>2. OnTime(s, p) = 0 \/ OnTime(s, p) = Ticks(s.period)
    <2>1. OnTime(s, p) = 0 \/ \E i \in 1..Len(t) : cum[i] = OnTime(s, p)
        BY DEF Plays
    <2>2. \A i \in 1..Len(t) : i = 1
        OBVIOUS
    <2> QED BY <1>1, <2>1, <2>2
<1>3. /\ OnTime(s, p) = 0 <=> s.duty[p] = 0
      /\ OnTime(s, p) = Ticks(s.period) <=> s.duty[p] = PWM_DEPTH
    BY OnTimeIs
<1>4. CASE OnTime(s, p) = 0
    BY <1>3, <1>4
<1>5. CASE OnTime(s, p) # 0
    BY <1>2, <1>3, <1>5
<1> QED BY <1>4, <1>5

LEMMA EntryIn ==
    ASSUME NEW t \in Seq(Entry), NEW i \in 1..Len(t)
    PROVE  t[i].set \subseteq Pin /\ t[i].clear \subseteq Pin /\ t[i].h_time \in Uint16
<1>1. t[i] \in Entry
    OBVIOUS
<1> QED BY <1>1 DEF Entry

LEMMA PwmStartTimerStep == PwmInv /\ PwmStartTimer => PwmInv'
<1> SUFFICES ASSUME PwmInv, PwmStartTimer PROVE PwmInv'
    OBVIOUS
<1>1. PwmTypeOK /\ SettingsInv /\ TablesInv /\ PlaceInv /\ StoppedInv /\ WholeInv
    BY DEF PwmInv
<1>2. /\ starting = "timer"
      /\ UNCHANGED <<pwm, pwm_single_toggle, pwm_toggle, pwm_current_channel, on, asked>>
    BY DEF PwmStartTimer
<1>3. Spare' = Spare /\ Spare \in {0, 1}
    BY <1>1, <1>2, Buffers DEF Spare
<1>4. pwm_single_toggle[Spare] = Table(pwm)
    BY <1>1, <1>2 DEF TablesInv
<1>5. CASE pwm_timer_down
    <2> DEFINE t == Table(pwm)
    <2>1. /\ starting' = (IF Len(t) = 1 THEN "toggle" ELSE "loaded")
          /\ pwm_single' = Spare
          /\ Output(t[1])
          /\ pwm_timer_down' = (Len(t) = 1)
          /\ frc1' = (IF Len(t) = 1 THEN frc1 ELSE t[1].h_time)
          /\ walk' = "first"
          /\ due' = pwm
        BY <1>4, <1>5 DEF PwmStartTimer
    <2>2. t \in Seq(Entry) /\ Len(t) >= 1 /\ (Fits(pwm) => \E cum : Plays(t, pwm, cum))
        BY <1>1, TableIs DEF SettingsInv
    <2> HIDE DEF t
    <2>3. 1 \in 1..Len(t) /\ Len(t) \in Nat
        BY <2>2
    <2>4. t[1].set \subseteq Pin /\ t[1].clear \subseteq Pin /\ t[1].h_time \in Uint16
        BY <2>2, <2>3, EntryIn
    <2>5. high' = (high \cup t[1].set) \ t[1].clear /\ high \subseteq Pin
        BY <1>1, <2>1 DEF Output, PwmTypeOK
    <2>6. SettingsInv'
        BY <1>1, <1>2, <2>1 DEF SettingsInv
    <2>7. PwmTypeOK'
        <3>1. \A s \in {pwm', asked', due'} : s.period \in Uint16 /\ s.duty \in [Pin -> 0..PWM_DEPTH]
            BY <2>6 DEF SettingsInv, Setting
        <3>2. high' \subseteq Pin
            BY <2>4, <2>5
        <3>3. frc1' \in Uint16
            BY <1>1, <2>1, <2>4 DEF PwmTypeOK
        <3>4. pwm_timer_down' \in BOOLEAN
            BY <2>1
        <3>5. starting' \in {"no", "timer", "toggle", "loaded"} /\ walk' \in {"first", "whole", "overwritten"}
            BY <2>1
        <3> QED BY <1>1, <1>2, <1>3, <2>1, <3>1, <3>2, <3>3, <3>4, <3>5 DEF PwmTypeOK
    <2>8. TablesInv'
        <3>1. pwm_single_toggle'[Spare'] = Table(pwm')
            BY <1>2, <1>3, <1>4
        <3>2. ~pwm_timer_down' => starting' = "loaded"
            BY <2>1
        <3>3. pwm_single_toggle'[pwm_single'] = Table(due')
            BY <1>2, <1>4, <2>1
        <3> QED BY <3>1, <3>2, <3>3 DEF TablesInv
    <2>9. PlaceInv'
        <3>1. pwm_current_channel' = 0
            BY <1>1, <1>2, <1>5 DEF PlaceInv
        <3>2. Len(pwm_single_toggle'[pwm_single']) = Len(t)
            BY <1>2, <1>4, <2>1 DEF t
        <3> QED BY <2>3, <3>1, <3>2 DEF PlaceInv, PlaceInTable
    <2>10. StoppedInv'
        <3> SUFFICES ASSUME pwm_timer_down', Fits(pwm), NEW p \in Pin
                     PROVE  pwm.duty[p] = IF p \in high' THEN PWM_DEPTH ELSE 0
            BY <2>1 DEF StoppedInv
        <3>1. Len(t) = 1
            BY <2>1
        <3>2. PICK cum : Plays(t, pwm, cum)
            BY <2>2
        <3>3. \A q \in Pin : q \in high' <=> OnTime(pwm, q) # 0
            BY <2>5, <3>1, <3>2, LastLeaves
        <3> QED BY <1>1, <3>1, <3>2, <3>3, OneEntry DEF SettingsInv
    <2>11. WholeInv'
        BY <2>1 DEF WholeInv
    <2> QED BY <2>6, <2>7, <2>8, <2>9, <2>10, <2>11 DEF PwmInv
<1>6. CASE ~pwm_timer_down
    <2>1. starting' = "toggle" /\ UNCHANGED <<pwm_single, high, pwm_timer_down, frc1, walk, due>>
        BY <1>6 DEF PwmStartTimer
    <2>2. SettingsInv'
        BY <1>1, <1>2, <2>1 DEF SettingsInv
    <2>3. PwmTypeOK'
        <3>1. \A s \in {pwm', asked', due'} : s.period \in Uint16 /\ s.duty \in [Pin -> 0..PWM_DEPTH]
            BY <2>2 DEF SettingsInv, Setting
        <3>2. starting' \in {"no", "timer", "toggle", "loaded"}
            BY <2>1
        <3> QED BY <1>1, <1>2, <2>1, <3>1, <3>2 DEF PwmTypeOK
    <2>4. TablesInv'
        <3>1. pwm_single_toggle'[Spare'] = Table(pwm')
            BY <1>2, <1>3, <1>4
        <3>2. starting # "loaded"
            BY <1>2
        <3> QED BY <1>1, <1>2, <2>1, <3>1, <3>2 DEF TablesInv
    <2>5. PlaceInv'
        BY <1>1, <1>2, <2>1 DEF PlaceInv, PlaceInTable
    <2>6. StoppedInv'
        BY <1>6, <2>1 DEF StoppedInv
    <2>7. WholeInv'
        BY <1>1, <1>2, <2>1 DEF WholeInv, InPeriod
    <2> QED BY <2>2, <2>3, <2>4, <2>5, <2>6, <2>7 DEF PwmInv
<1> QED BY <1>5, <1>6

LEMMA PwmStartToggleStep == PwmInv /\ PwmStartToggle => PwmInv'
<1> SUFFICES ASSUME PwmInv, PwmStartToggle PROVE PwmInv'
    OBVIOUS
<1>1. PwmTypeOK /\ SettingsInv /\ TablesInv /\ PlaceInv /\ StoppedInv /\ WholeInv
    BY DEF PwmInv
<1>2. /\ starting \in {"toggle", "loaded"} /\ starting' = "no"
      /\ pwm_toggle' = OtherToggle /\ asked' = pwm
      /\ UNCHANGED <<pwm, pwm_single_toggle, pwm_timer_down, walk>>
      /\ UNCHANGED <<pwm_single, pwm_current_channel, frc1, high, on, due>>
    BY DEF PwmStartToggle, playing
<1>3. OtherToggle = Spare /\ Spare \in {0, 1}
    BY <1>1, Buffers
<1>4. SettingsInv'
    BY <1>1, <1>2 DEF SettingsInv
<1>5. PwmTypeOK'
    <2>1. \A s \in {pwm', asked', due'} : s.period \in Uint16 /\ s.duty \in [Pin -> 0..PWM_DEPTH]
        BY <1>4 DEF SettingsInv, Setting
    <2>2. pwm_toggle' \in {0, 1}
        BY <1>2, <1>3
    <2>3. starting' \in {"no", "timer", "toggle", "loaded"}
        BY <1>2
    <2> QED BY <1>1, <1>2, <2>1, <2>2, <2>3 DEF PwmTypeOK
<1>6. TablesInv'
    <2>1. pwm_single_toggle'[pwm_toggle'] = Table(asked')
        BY <1>1, <1>2, <1>3 DEF TablesInv
    <2>2. starting' = "no"
        BY <1>2
    <2> QED BY <1>1, <1>2, <2>1, <2>2 DEF TablesInv
<1>7. PlaceInv'
    BY <1>1, <1>2 DEF PlaceInv, PlaceInTable
<1>8. StoppedInv'
    <2>1. starting # "timer"
        BY <1>2
    <2> QED BY <1>1, <1>2, <2>1 DEF StoppedInv
<1>9. WholeInv'
    BY <1>1, <1>2 DEF WholeInv, InPeriod
<1> QED BY <1>4, <1>5, <1>6, <1>7, <1>8, <1>9 DEF PwmInv

LEMMA PeriodEndsStep == PwmInv /\ PeriodEnds => PwmInv'
<1> SUFFICES ASSUME PwmInv, PeriodEnds PROVE PwmInv'
    OBVIOUS
<1> DEFINE t == Table(asked)
<1>1. PwmTypeOK /\ SettingsInv /\ TablesInv /\ PlaceInv /\ StoppedInv /\ WholeInv
    BY DEF PwmInv
<1>2. /\ ~pwm_timer_down /\ starting # "loaded"
      /\ pwm_single' = pwm_toggle /\ pwm_current_channel' = 0
      /\ on' = [p \in Pin |-> 0] /\ due' = asked /\ walk' = "whole"
      /\ UNCHANGED <<pwm, pwm_single_toggle, pwm_toggle, starting, asked>>
    BY DEF PeriodEnds
<1>3. pwm_single_toggle[pwm_toggle] = t
    BY <1>1, <1>2 DEF TablesInv
<1>4. /\ Output(Last(t))
      /\ pwm_timer_down' = (Len(t) = 1)
      /\ frc1' = (IF Len(t) = 1 THEN frc1 ELSE t[1].h_time)
    BY <1>3 DEF PeriodEnds
<1>5. t \in Seq(Entry) /\ Len(t) >= 1 /\ (Fits(asked) => \E cum : Plays(t, asked, cum))
    BY <1>1, TableIs DEF SettingsInv
<1>6. Setting(asked)
    BY <1>1 DEF SettingsInv
<1> HIDE DEF t
<1>7. 1 \in 1..Len(t) /\ Len(t) \in Nat /\ Len(t) \in 1..Len(t)
    BY <1>5
<1>8. t[1].h_time \in Uint16 /\ t[Len(t)].set \subseteq Pin /\ t[Len(t)].clear \subseteq Pin
    BY <1>5, <1>7, EntryIn
<1>9. high' = (high \cup t[Len(t)].set) \ t[Len(t)].clear /\ high \subseteq Pin
    BY <1>1, <1>4 DEF Output, PwmTypeOK, Last
<1>10. Spare' = Spare
    BY <1>2 DEF Spare
<1>11. SettingsInv'
    BY <1>1, <1>2 DEF SettingsInv
<1>12. PwmTypeOK'
    <2>1. \A s \in {pwm', asked', due'} : s.period \in Uint16 /\ s.duty \in [Pin -> 0..PWM_DEPTH]
        BY <1>11 DEF SettingsInv, Setting
    <2>2. high' \subseteq Pin
        BY <1>8, <1>9
    <2>3. frc1' \in Uint16
        BY <1>1, <1>4, <1>8 DEF PwmTypeOK
    <2>4. pwm_timer_down' \in BOOLEAN /\ walk' \in {"first", "whole", "overwritten"}
        BY <1>2, <1>4
    <2>5. on' \in [Pin -> Nat]
        BY <1>2
    <2>6. pwm_current_channel' \in 0..PWM_CHANNEL /\ pwm_single' \in {0, 1}
        BY <1>1, <1>2, Pins DEF PwmTypeOK
    <2> QED BY <1>1, <1>2, <2>1, <2>2, <2>3, <2>4, <2>5, <2>6 DEF PwmTypeOK
<1>13. TablesInv'
    <2>1. pwm_single_toggle'[pwm_toggle'] = Table(asked') /\ pwm_single_toggle'[pwm_single'] = Table(due')
        BY <1>2, <1>3 DEF t
    <2> QED BY <1>1, <1>2, <1>10, <2>1 DEF TablesInv
<1>14. PlaceInv'
    <2>1. Len(pwm_single_toggle'[pwm_single']) = Len(t)
        BY <1>2, <1>3
    <2> QED BY <1>2, <1>7, <2>1 DEF PlaceInv, PlaceInTable
<1>15. ASSUME NEW cum, Plays(t, asked, cum), NEW p \in Pin PROVE p \in high' <=> OnTime(asked, p) # 0
    <2>1. high \in SUBSET Pin
        BY <1>9
    <2>2. p \in (high \cup t[Len(t)].set) \ t[Len(t)].clear <=> OnTime(asked, p) # 0
        BY <1>15, <2>1, LastLeaves
    <2> QED BY <1>9, <2>2
<1>16. StoppedInv'
    <2> SUFFICES ASSUME pwm_timer_down', Fits(asked), NEW p \in Pin
                 PROVE  asked.duty[p] = IF p \in high' THEN PWM_DEPTH ELSE 0
        BY <1>2 DEF StoppedInv
    <2>1. Len(t) = 1
        BY <1>4
    <2>2. PICK cum : Plays(t, asked, cum)
        BY <1>5
    <2>3. \A q \in Pin : q \in high' <=> OnTime(asked, q) # 0
        BY <1>15, <2>2
    <2> QED BY <1>6, <2>1, <2>2, <2>3, OneEntry
<1>17. WholeInv'
    <2> SUFFICES ASSUME ~pwm_timer_down', Fits(asked) PROVE \E cum : InPeriod(cum)'
        BY <1>2 DEF WholeInv
    <2>1. PICK cum : Plays(t, asked, cum)
        BY <1>5
    <2>2. cum[0] = 0
        BY <2>1 DEF Plays
    <2>3. \A p \in Pin : OnTime(asked, p) \in Nat
        BY <1>6, OnTimeIs, Uint16Nat
    <2>4. \A p \in Pin : on'[p] = IF OnTime(asked, p) <= 0 THEN OnTime(asked, p) ELSE 0
        BY <1>2, <2>3
    <2>5. \A p \in Pin : p \in high' <=> ~(OnTime(asked, p) <= 0)
        BY <1>15, <2>1, <2>3
    <2>6. frc1' = cum[0 + 1] - cum[0]
        <3>1. frc1' = t[1].h_time
            BY <1>4
        <3>2. \A i \in 1..Len(t) : t[i].h_time = cum[i] - cum[i - 1]
            BY <2>1 DEF Plays
        <3>3. t[1].h_time = cum[1] - cum[1 - 1]
            BY <1>7, <3>2
        <3> QED BY <3>1, <3>3
    <2>7. Plays(Table(due'), due', cum)
        BY <1>2, <2>1 DEF t
    <2>8. InPeriod(cum)'
        BY <1>2, <2>2, <2>4, <2>5, <2>6, <2>7 DEF InPeriod
    <2> QED BY <2>8
<1> QED BY <1>11, <1>12, <1>13, <1>14, <1>16, <1>17 DEF PwmInv

\* A period goes on as one in which each pin is high until its time.
LEMMA PeriodGoesOn ==
    ASSUME NEW t, NEW s, Setting(s), NEW cum, Plays(t, s, cum),
           NEW c \in Nat, c < Len(t) - 1, NEW p \in Pin,
           NEW b, NEW h \in SUBSET Pin,
           b = IF OnTime(s, p) <= cum[c] THEN OnTime(s, p) ELSE cum[c],
           p \in h <=> ~(OnTime(s, p) <= cum[c])
    PROVE  /\ b + (IF p \in h THEN cum[c + 1] - cum[c] ELSE 0) =
                  IF OnTime(s, p) <= cum[c + 1] THEN OnTime(s, p) ELSE cum[c + 1]
           /\ p \in (h \cup t[c + 1].set) \ t[c + 1].clear <=> ~(OnTime(s, p) <= cum[c + 1])
<1> DEFINE o == OnTime(s, p)
<1>1. Len(t) \in Nat /\ c \in 0..Len(t)-1 /\ c \in 0..Len(t) /\ c + 1 \in 0..Len(t)
      /\ c + 1 \in 1..Len(t)-1 /\ c <= c + 1
    BY DEF Plays
<1>2. o \in Nat
    BY OnTimeIs, Uint16Nat
<1>3. cum[c] \in Nat /\ cum[c + 1] \in Nat
    BY <1>1 DEF Plays
<1>4. ~(o <= cum[c]) => o >= cum[c + 1]
    BY <1>1, NoneBetween
<1>5. cum[c] <= cum[c + 1]
    BY <1>1, CumRises
<1>6. t[c + 1].set = {} /\ (p \in t[c + 1].clear <=> o = cum[c + 1])
    BY <1>1 DEF Plays
<1> HIDE DEF o
<1>7. b = (IF o <= cum[c] THEN o ELSE cum[c]) /\ (p \in h <=> ~(o <= cum[c]))
    BY DEF o
<1>8. b + (IF p \in h THEN cum[c + 1] - cum[c] ELSE 0) = IF o <= cum[c + 1] THEN o ELSE cum[c + 1]
    <2>1. CASE o <= cum[c]
        BY <1>2, <1>3, <1>5, <1>7, <2>1
    <2>2. CASE ~(o <= cum[c])
        BY <1>2, <1>3, <1>4, <1>7, <2>2
    <2> QED BY <2>1, <2>2
<1>9. p \in (h \cup t[c + 1].set) \ t[c + 1].clear <=> p \in h /\ o # cum[c + 1]
    BY <1>6
<1>10. p \in h /\ o # cum[c + 1] <=> ~(o <= cum[c + 1])
    <2>1. CASE o <= cum[c]
        BY <1>2, <1>3, <1>5, <1>7, <2>1
    <2>2. CASE ~(o <= cum[c])
        BY <1>2, <1>3, <1>4, <1>7, <2>2
    <2> QED BY <2>1, <2>2
<1> QED BY <1>8, <1>9, <1>10 DEF o

LEMMA EntryEndsStep == PwmInv /\ EntryEnds => PwmInv'
<1> SUFFICES ASSUME PwmInv, EntryEnds PROVE PwmInv'
    OBVIOUS
<1> DEFINE t == pwm_single_toggle[pwm_single]
           c == pwm_current_channel
<1>1. PwmTypeOK /\ SettingsInv /\ TablesInv /\ PlaceInv /\ StoppedInv /\ WholeInv
    BY DEF PwmInv
<1>2. /\ ~pwm_timer_down /\ c < Len(t) - 1 /\ pwm_current_channel' = c + 1
      /\ Output(t[c + 1]) /\ frc1' = t[c + 2].h_time
      /\ on' = [p \in Pin |-> OnUntilNow(p)]
      /\ UNCHANGED <<pwm, pwm_single_toggle, pwm_toggle, pwm_timer_down, pwm_single, starting,
                     due, asked, walk>>
    BY DEF EntryEnds
<1>3. t \in Seq(Entry) /\ Len(t) <= PWM_CHANNEL + 1 /\ c \in 0..PWM_CHANNEL
    BY <1>1 DEF PwmTypeOK
<1>4. t' = t
    BY <1>2
<1> HIDE DEF t
<1>5. Len(t) \in Nat /\ c \in Nat /\ c + 1 \in 1..Len(t) /\ c + 2 \in 1..Len(t)
      /\ c + 1 \in 0..PWM_CHANNEL /\ c + 1 < Len(t) /\ (c + 1) + 1 = c + 2 /\ (c + 2) - 1 = c + 1
    BY <1>2, <1>3, Pins
<1> HIDE DEF c
<1>6. t[c + 1].set \subseteq Pin /\ t[c + 1].clear \subseteq Pin /\ t[c + 2].h_time \in Uint16
    BY <1>3, <1>5, EntryIn
<1>7. high' = (high \cup t[c + 1].set) \ t[c + 1].clear /\ high \in SUBSET Pin
    BY <1>1, <1>2 DEF Output, PwmTypeOK
<1>8. SettingsInv'
    BY <1>1, <1>2 DEF SettingsInv
<1>9. PwmTypeOK'
    <2>1. \A s \in {pwm', asked', due'} : s.period \in Uint16 /\ s.duty \in [Pin -> 0..PWM_DEPTH]
        BY <1>8 DEF SettingsInv, Setting
    <2>2. high' \subseteq Pin
        BY <1>6, <1>7
    <2>3. frc1' \in Uint16
        BY <1>2, <1>6
    <2>4. on' \in [Pin -> Nat]
        <3>1. frc1 \in Nat /\ on \in [Pin -> Nat]
            BY <1>1, Uint16Nat DEF PwmTypeOK
        <3>2. \A p \in Pin : OnUntilNow(p) \in Nat
            BY <3>1 DEF OnUntilNow
        <3> QED BY <1>2, <3>2
    <2>5. pwm_current_channel' \in 0..PWM_CHANNEL
        BY <1>2, <1>5
    <2> QED BY <1>1, <1>2, <2>1, <2>2, <2>3, <2>4, <2>5 DEF PwmTypeOK
<1>10. TablesInv'
    BY <1>1, <1>2 DEF TablesInv, Spare
<1>11. PlaceInv'
    BY <1>2, <1>4, <1>5 DEF PlaceInv, PlaceInTable, t
<1>12. StoppedInv'
    BY <1>2 DEF StoppedInv
<1>13. WholeInv'
    <2> SUFFICES ASSUME walk = "whole", Fits(due) PROVE \E cum : InPeriod(cum)'
        BY <1>2 DEF WholeInv
    <2>1. PICK cum : InPeriod(cum)
        BY <1>1, <1>2 DEF WholeInv
    <2>2. t = Table(due)
        BY <1>1, <1>2 DEF TablesInv, t
    <2>3. Plays(t, due, cum) /\ Setting(due)
        BY <1>1, <2>1, <2>2 DEF InPeriod, SettingsInv
    <2>4. /\ frc1 = cum[c + 1] - cum[c]
          /\ \A p \in Pin : on[p] = IF OnTime(due, p) <= cum[c] THEN OnTime(due, p) ELSE cum[c]
          /\ \A p \in Pin : p \in high <=> ~(OnTime(due, p) <= cum[c])
        BY <2>1 DEF InPeriod, c
    <2>5. ASSUME NEW p \in Pin
          PROVE  /\ on'[p] = IF OnTime(due, p) <= cum[c + 1] THEN OnTime(due, p) ELSE cum[c + 1]
                 /\ p \in high' <=> ~(OnTime(due, p) <= cum[c + 1])
        <3>1. on'[p] = on[p] + (IF p \in high THEN cum[c + 1] - cum[c] ELSE 0)
            BY <1>2, <2>4 DEF OnUntilNow
        <3> DEFINE b == on[p]
        <3>2. b = IF OnTime(due, p) <= cum[c] THEN OnTime(due, p) ELSE cum[c]
            BY <2>4
        <3>3. p \in high <=> ~(OnTime(due, p) <= cum[c])
            BY <2>4
        <3>4. /\ b + (IF p \in high THEN cum[c + 1] - cum[c] ELSE 0) =
                     IF OnTime(due, p) <= cum[c + 1] THEN OnTime(due, p) ELSE cum[c + 1]
              /\ p \in (high \cup t[c + 1].set) \ t[c + 1].clear <=> ~(OnTime(due, p) <= cum[c + 1])
            <4> HIDE DEF b
            <4> QED BY <1>2, <1>5, <1>7, <2>3, <3>2, <3>3, PeriodGoesOn
        <3> QED BY <1>7, <3>1, <3>4
    <2>6. frc1' = cum[(c + 1) + 1] - cum[c + 1]
        <3>1. \A i \in 1..Len(t) : t[i].h_time = cum[i] - cum[i - 1]
            BY <2>3 DEF Plays
        <3>2. t[c + 2].h_time = cum[c + 2] - cum[(c + 2) - 1]
            BY <1>5, <3>1
        <3> QED BY <1>2, <1>5, <3>2
    <2>7. Plays(Table(due'), due', cum)
        BY <1>2, <2>2, <2>3
    <2>8. InPeriod(cum)'
        BY <1>2, <2>5, <2>6, <2>7 DEF InPeriod
    <2> QED BY <2>8
<1> QED BY <1>8, <1>9, <1>10, <1>11, <1>12, <1>13 DEF PwmInv

\* At its end a whole period had each pin high for its time.
LEMMA PeriodKept ==
    ASSUME PwmInv, PeriodEnds, walk = "whole", Fits(due), NEW p \in Pin
    PROVE  OnUntilNow(p) = OnTime(due, p)
<1> DEFINE t == pwm_single_toggle[pwm_single]
           c == pwm_current_channel
           o == OnTime(due, p)
<1>1. PwmTypeOK /\ TablesInv /\ WholeInv /\ Setting(due)
    BY DEF PwmInv, SettingsInv
<1>2. ~pwm_timer_down /\ c = Len(t) - 1
    BY DEF PeriodEnds, LastEntry
<1>3. PICK cum : InPeriod(cum)
    BY <1>1, <1>2 DEF WholeInv
<1>4. t = Table(due)
    BY <1>1, <1>2 DEF TablesInv
<1>5. Plays(t, due, cum)
    BY <1>3, <1>4 DEF InPeriod
<1> HIDE DEF t
<1>6. Len(t) \in Nat /\ Len(t) >= 1
    BY <1>5 DEF Plays
<1>7. /\ on[p] = IF o <= cum[c] THEN o ELSE cum[c]
      /\ p \in high <=> ~(o <= cum[c])
      /\ frc1 = cum[c + 1] - cum[c]
    BY <1>3 DEF InPeriod
<1> HIDE DEF c
<1>8. c \in 0..Len(t)-1 /\ c \in 0..Len(t) /\ c + 1 \in 0..Len(t) /\ c + 1 = Len(t)
    BY <1>2, <1>6
<1>9. cum[c] \in Nat /\ cum[c + 1] \in Nat /\ cum[c + 1] = Ticks(due.period)
    BY <1>5, <1>8 DEF Plays
<1>10. o \in Nat /\ o <= Ticks(due.period)
    BY <1>1, OnTimeIs, Uint16Nat
<1>11. ~(o <= cum[c]) => o >= cum[c + 1]
    BY <1>1, <1>5, <1>8, NoneBetween
<1>12. OnUntilNow(p) = on[p] + (IF p \in high THEN frc1 ELSE 0)
    BY DEF OnUntilNow
<1> HIDE DEF o
<1>13. CASE o <= cum[c]
    <2>1. on[p] = o /\ p \notin high
        BY <1>7, <1>13
    <2>2. OnUntilNow(p) = o + 0
        BY <1>12, <2>1
    <2> QED BY <1>10, <2>2 DEF o
<1>14. CASE ~(o <= cum[c])
    <2>1. on[p] = cum[c] /\ p \in high
        BY <1>7, <1>14
    <2>2. OnUntilNow(p) = cum[c] + (cum[c + 1] - cum[c])
        BY <1>7, <1>12, <2>1
    <2>3. o = cum[c + 1]
        BY <1>9, <1>10, <1>11, <1>14
    <2>4. OnUntilNow(p) = o
        BY <1>9, <2>2, <2>3
    <2> QED BY <2>4 DEF o
<1> QED BY <1>13, <1>14

LEMMA PwmStep == PwmInv /\ [PwmNext]_pwmVars => PwmInv'
BY PwmStays, PwmSetStep, PwmStartStep, PwmStartTimerStep, PwmStartToggleStep, PeriodEndsStep,
   EntryEndsStep DEF PwmNext

LEMMA PwmInvariance == PwmSpec => []PwmInv
BY PwmInitInv, PwmStep, PTL DEF PwmSpec

LEMMA PwmMeans == PwmInv => PwmTypeOK /\ StoppedIsRight /\ PlaceInTable
BY DEF PwmInv, PlaceInv, StoppedInv, StoppedIsRight

LEMMA DutyStep ==
    PwmInv /\ [PwmNext]_pwmVars =>
        [PeriodEnds /\ walk = "whole" /\ Fits(due) =>
            \A p \in Pin : OnUntilNow(p) = OnTime(due, p)]_pwmVars
BY PeriodKept

-----------------------------------------------------------------------------

\* The tables of pwm_start have no more entries than pwm_single_toggle has places,
\* and their times 16 bits, for every number of channels, frequency and duty.
THEOREM PwmTypeCorrect == PwmSpec => []PwmTypeOK
BY PwmInvariance, PwmMeans, PTL

\* In a period that was walked from one table each pin is high, to the tick, for the
\* duty asked for; a timer that stops leaves each pin where its duty wants it; and
\* pwm_tim1_intr_handler stays within its table, wherever in pwm_start it falls.
THEOREM PwmPlaysRightly == PwmSpec => PlayedRightly
<1>1. PwmSpec => [](StoppedIsRight /\ PlaceInTable)
    BY PwmInvariance, PwmMeans, PTL
<1>2. PwmSpec => DutyKept
    BY PwmInvariance, DutyStep, PTL DEF DutyKept, PwmSpec
<1> QED BY <1>1, <1>2, PTL DEF PlayedRightly
=============================================================================
