--------------------------- MODULE OpenSlotsProofs ---------------------------
(***************************************************************************)
(* What compute_open_slots is built from, for every window, block, length   *)
(* of day and set of appointments.                                          *)
(***************************************************************************)
EXTENDS OpenSlots, WellFoundedInduction, TLAPS

Minutes(windows) == UNION {w[1]..(w[2] - 1) : w \in windows}

-----------------------------------------------------------------------------
(* _subtract_window                                                         *)

\* What a block leaves of a window: the window, or the parts before and behind it.
LEMMA Pieces ==
  ASSUME NEW a \in Int, NEW b \in Int, NEW c \in Int, NEW d \in Int, NEW p
  PROVE  p \in remains(<<a, b>>, <<c, d>>) <=>
           \/ (d <= a \/ c >= b) /\ p = <<a, b>>
           \/ ~(d <= a \/ c >= b) /\ a < c /\ p = <<a, c>>
           \/ ~(d <= a \/ c >= b) /\ d < b /\ p = <<d, b>>
  <1>1. \A x, y : <<x, y>>[1] = x /\ <<x, y>>[2] = y
    OBVIOUS
  <1>2. CASE d <= a \/ c >= b
    BY <1>1, <1>2 DEF remains
  <1>3. CASE ~(d <= a \/ c >= b)
    <2>1. remains(<<a, b>>, <<c, d>>) = {q \in {<<a, c>>, <<d, b>>} : q[1] < q[2]}
      BY <1>1, <1>3 DEF remains
    <2> QED BY <1>1, <1>3, <2>1
  <1> QED BY <1>2, <1>3

\* The minutes that a block leaves of one window.
LEMMA RemainsMinutes ==
  ASSUME NEW w \in Int \X Int, NEW block \in Int \X Int, block[1] <= block[2],
         NEW m \in Int
  PROVE  (\E p \in remains(w, block) : m \in p[1]..(p[2] - 1))
            <=> m \in w[1]..(w[2] - 1) /\ m \notin block[1]..(block[2] - 1)
  <1>1. PICK a \in Int, b \in Int : w = <<a, b>>
    OBVIOUS
  <1>2. PICK c \in Int, d \in Int : block = <<c, d>>
    OBVIOUS
  <1>3. c <= d /\ w[1] = a /\ w[2] = b /\ block[1] = c /\ block[2] = d
    BY <1>1, <1>2
  <1> DEFINE before == <<a, c>>
             behind == <<d, b>>
  <1>4. before[1] = a /\ before[2] = c /\ behind[1] = d /\ behind[2] = b
    OBVIOUS
  <1>5. CASE d <= a \/ c >= b
    <2>1. \A p : p \in remains(w, block) <=> p = w
      BY <1>1, <1>2, <1>5, Pieces
    <2> QED BY <2>1, <1>3, <1>5
  <1>6. CASE ~(d <= a \/ c >= b)
    <2>1. \A p : p \in remains(w, block) <=> (a < c /\ p = before) \/ (d < b /\ p = behind)
      BY <1>1, <1>2, <1>6, Pieces
    <2> HIDE DEF before, behind
    <2>2. (\E p \in remains(w, block) : m \in p[1]..(p[2] - 1))
             <=> (a < c /\ m \in a..(c - 1)) \/ (d < b /\ m \in d..(b - 1))
      BY <2>1, <1>4
    <2> QED BY <2>2, <1>3, <1>6
  <1> QED BY <1>5, <1>6

\* "Remove [block_start, block_end) from each window": exactly the block's minutes
\* are lost, wherever the block lies, and none is gained.
THEOREM SubtractRemovesTheBlock ==
  ASSUME NEW windows \in SUBSET (Int \X Int), NEW block \in Int \X Int,
         block[1] <= block[2]
  PROVE  Minutes(_subtract_window(windows, block))
            = Minutes(windows) \ (block[1]..(block[2] - 1))
  <1>1. SUFFICES ASSUME NEW m \in Int
                 PROVE  (\E w \in windows : \E p \in remains(w, block) : m \in p[1]..(p[2] - 1))
                           <=> /\ \E w \in windows : m \in w[1]..(w[2] - 1)
                               /\ m \notin block[1]..(block[2] - 1)
    <2>1. Minutes(_subtract_window(windows, block)) \subseteq Int
          /\ Minutes(windows) \subseteq Int
      BY DEF Minutes
    <2>2. \A m : m \in Minutes(windows) <=> \E w \in windows : m \in w[1]..(w[2] - 1)
      BY DEF Minutes
    <2>3. \A m : m \in Minutes(_subtract_window(windows, block))
             <=> \E w \in windows : \E p \in remains(w, block) : m \in p[1]..(p[2] - 1)
      BY DEF Minutes, _subtract_window
    <2> QED BY <2>1, <2>2, <2>3
  <1> QED BY <1>1, RemainsMinutes

-----------------------------------------------------------------------------
(* Block by block is all blocks at once.                                    *)

IsLastUpTo(s, S, b) == s \in S /\ s <= b /\ \A x \in S : x <= b => x <= s

IsFirstFrom(s, S, b) == s \in S /\ b <= s /\ \A x \in S : b <= x => s <= x

\* A set of naturals that is not empty has a least element.
LEMMA LeastNatural ==
  ASSUME NEW T \in SUBSET Nat, T # {}
  PROVE  \E n \in T : \A y \in T : ~(y < n)
  <1> DEFINE R == {p \in Nat \X Nat : p[1] < p[2]}
  <1>1. IsWellFoundedOn(R, Nat)
    <2>1. R = OpToRel(<, Nat)
      BY DEF OpToRel
    <2> QED BY <2>1, NatLessThanWellFounded, Zenon
  <1>2. PICK n \in T : \A y \in T : ~(<<y, n>> \in R)
    <2> HIDE DEF R
    <2> QED BY <1>1, WFMin
  <1> QED BY <1>2

\* A set of integers with an element below a bound has a largest one.
LEMMA LargestBelow ==
  ASSUME NEW S \in SUBSET Int, NEW a \in S, NEW b \in Int, a <= b
  PROVE  \E s \in Int : IsLastUpTo(s, S, b)
  <1> DEFINE T == {n \in Nat : b - n \in S}
  <1>2. T \subseteq Nat /\ b - a \in T
    OBVIOUS
  <1>4. PICK n \in T : \A y \in T : ~(y < n)
    <2> HIDE DEF T
    <2> QED BY <1>2, LeastNatural
  <1>5. b - n \in S /\ b - n <= b
    OBVIOUS
  <1>6. ASSUME NEW x \in S, x <= b PROVE x <= b - n
    <2>1. b - x \in Nat /\ b - (b - x) = x
      BY <1>6
    <2>2. b - x \in T
      BY <2>1
    <2>3. ~(b - x < n) /\ n \in Nat
      BY <2>2, <1>4
    <2> QED BY <2>1, <2>3
  <1> QED BY <1>5, <1>6 DEF IsLastUpTo

\* ... and one with an element above a bound has a smallest one.
LEMMA SmallestAbove ==
  ASSUME NEW S \in SUBSET Int, NEW a \in S, NEW b \in Int, b <= a
  PROVE  \E s \in Int : IsFirstFrom(s, S, b)
  <1> DEFINE M == {-x : x \in S}
  <1>1. M \in SUBSET Int /\ -a \in M /\ -a <= -b /\ -b \in Int
    OBVIOUS
  <1>2. PICK m \in Int : IsLastUpTo(m, M, -b)
    <2> HIDE DEF M
    <2> QED BY <1>1, LargestBelow
  <1>3. -m \in S /\ b <= -m
    BY <1>2 DEF IsLastUpTo
  <1>4. ASSUME NEW x \in S, b <= x PROVE -m <= x
    <2>1. -x \in M /\ -x <= -b
      <3>1. x \in Int /\ -x \in M
        OBVIOUS
      <3> QED BY <3>1, <1>4
    <2>2. -x <= m
      BY <2>1, <1>2 DEF IsLastUpTo
    <2> QED BY <2>2
  <1> QED BY <1>3, <1>4 DEF IsFirstFrom

\* What FreeRuns contains, in terms of ends.
LEMMA FreeRun ==
  ASSUME NEW a \in Int, NEW b \in Int, NEW bs \in SUBSET (Int \X Int),
         NEW s \in Int, NEW t \in Int
  PROVE  <<s, t>> \in FreeRuns(<<a, b>>, bs) <=>
           /\ s = a \/ \E x \in bs : s = x[2]
           /\ t = b \/ \E x \in bs : t = x[1]
           /\ a <= s /\ t <= b
           /\ s < t \/ (s = a /\ t = b)
           /\ \A x \in bs : x[2] <= s \/ t <= x[1]
  BY DEF FreeRuns

LEMMA RunsAreIntervals ==
  ASSUME NEW a \in Int, NEW b \in Int, NEW bs \in SUBSET (Int \X Int)
  PROVE  FreeRuns(<<a, b>>, bs) \subseteq Int \X Int
  BY DEF FreeRuns

Encloses(u, v, s, t, a, b, bs) ==
    /\ <<u, v>> \in FreeRuns(<<a, b>>, bs)
    /\ u <= s /\ t <= v
    /\ s = a \/ (\E x \in bs : s = x[2]) => u = s
    /\ t = b \/ (\E x \in bs : t = x[1]) => v = t

\* A free run beside one more block lies in a free run beside the others.
LEMMA EnclosingRun ==
  ASSUME NEW a \in Int, NEW b \in Int, NEW bs \in SUBSET (Int \X Int),
         NEW s \in Int, NEW t \in Int,
         a <= s, t <= b, a <= b, s < t \/ (s = a /\ t = b), \A x \in bs : x[2] <= s \/ t <= x[1]
  PROVE  \E u \in Int, v \in Int : Encloses(u, v, s, t, a, b, bs)
  <1> DEFINE Begins == {a} \cup {x[2] : x \in bs}
             Ends == {b} \cup {x[1] : x \in bs}
  <1>1. Begins \in SUBSET Int /\ Ends \in SUBSET Int /\ a \in Begins /\ b \in Ends
        /\ s \in Int /\ t \in Int /\ a <= s /\ t <= b
    OBVIOUS
  <1> HIDE DEF Begins, Ends
  <1>2. PICK u \in Int : IsLastUpTo(u, Begins, s)
    BY <1>1, LargestBelow, Zenon
  <1>3. PICK v \in Int : IsFirstFrom(v, Ends, t)
    BY <1>1, SmallestAbove, Zenon
  <1>4. \A x \in bs : x[1] \in Int /\ x[2] \in Int /\ x[2] \in Begins /\ x[1] \in Ends
    BY DEF Begins, Ends
  <1>5. u \in Int /\ v \in Int /\ a <= u /\ v <= b
    BY <1>1, <1>2, <1>3 DEF IsLastUpTo, IsFirstFrom
  <1>6. \A x \in bs : x[2] <= u \/ v <= x[1]
    BY <1>2, <1>3, <1>4, s \in Int, t \in Int DEF IsLastUpTo, IsFirstFrom
  <1>7. <<u, v>> \in FreeRuns(<<a, b>>, bs)
    <2>1. u = a \/ \E x \in bs : u = x[2]
      BY <1>2 DEF Begins, IsLastUpTo
    <2>2. v = b \/ \E x \in bs : v = x[1]
      BY <1>3 DEF Ends, IsFirstFrom
    <2>3. u < v \/ (u = a /\ v = b)
      BY <1>1, <1>2, <1>3, <1>5 DEF IsLastUpTo, IsFirstFrom
    <2> QED BY <2>1, <2>2, <2>3, <1>5, <1>6, FreeRun
  <1>8. s \in Begins => u = s
    BY <1>1, <1>2, <1>5 DEF IsLastUpTo
  <1>9. t \in Ends => v = t
    BY <1>1, <1>3, <1>5 DEF IsFirstFrom
  <1> QED BY <1>2, <1>3, <1>5, <1>7, <1>8, <1>9 DEF Begins, Ends, Encloses, IsLastUpTo, IsFirstFrom

\* One turn of the loop over the blocks of a date: if the windows are the free runs
\* beside the blocks seen so far, cutting the next one gives the free runs beside
\* all of them.  The order of the blocks is irrelevant: FreeRuns has none.
THEOREM BlockByBlock ==
  ASSUME NEW w \in Int \X Int, NEW bs \in SUBSET (Int \X Int),
         NEW block \in Int \X Int, w[1] <= w[2], block[1] <= block[2]
  PROVE  _subtract_window(FreeRuns(w, bs), block) = FreeRuns(w, bs \cup {block})
  <1>1. PICK a \in Int, b \in Int : w = <<a, b>> /\ a <= b
    OBVIOUS
  <1>2. PICK c \in Int, d \in Int : block = <<c, d>> /\ c <= d
    OBVIOUS
  <1> DEFINE all == bs \cup {block}
  <1>3. block[1] = c /\ block[2] = d /\ all \in SUBSET (Int \X Int)
    BY <1>2
  <1>4. \A p : p \in _subtract_window(FreeRuns(w, bs), block)
           <=> \E r \in FreeRuns(w, bs) : p \in remains(r, block)
    BY DEF _subtract_window
  <1>5. ASSUME NEW u \in Int, NEW v \in Int, <<u, v>> \in FreeRuns(w, bs),
               NEW p \in remains(<<u, v>>, block)
        PROVE  p \in FreeRuns(w, all)
    <2>1. /\ u = a \/ \E x \in bs : u = x[2]
          /\ v = b \/ \E x \in bs : v = x[1]
          /\ a <= u /\ v <= b
          /\ u < v \/ (u = a /\ v = b)
          /\ \A x \in bs : x[2] <= u \/ v <= x[1]
      BY <1>1, <1>5, FreeRun
    <2>2. CASE (d <= u \/ c >= v) /\ p = <<u, v>>
      <3>1. \A x \in all : x[2] <= u \/ v <= x[1]
        BY <2>1, <2>2, <1>3
      <3> QED BY <2>1, <2>2, <3>1, <1>1, <1>3, FreeRun
    <2>3. CASE ~(d <= u \/ c >= v) /\ u < c /\ p = <<u, c>>
      <3>1. \A x \in all : x[2] <= u \/ c <= x[1]
        BY <2>1, <2>3, <1>3
      <3>2. \E x \in all : c = x[1]
        BY <1>3
      <3>3. a <= u /\ u < c /\ c <= b
        BY <2>1, <2>3
      <3> QED BY <2>1, <2>3, <3>1, <3>2, <3>3, <1>1, <1>3, FreeRun, SMTT(20)
    <2>4. CASE ~(d <= u \/ c >= v) /\ d < v /\ p = <<d, v>>
      <3>1. \A x \in all : x[2] <= d \/ v <= x[1]
        BY <2>1, <2>4, <1>3
      <3>2. \E x \in all : d = x[2]
        BY <1>3
      <3>3. a <= d /\ d < v /\ v <= b
        BY <2>1, <2>4
      <3>4. v = b \/ \E x \in all : v = x[1]
        BY <2>1
      <3>5. <<d, v>> \in FreeRuns(<<a, b>>, all)
        <4> HIDE DEF all
        <4> QED BY <3>1, <3>2, <3>3, <3>4, <1>3, FreeRun
      <3> QED BY <3>5, <2>4, <1>1
    <2> QED BY <1>2, <2>2, <2>3, <2>4, Pieces
  <1>6. ASSUME NEW s \in Int, NEW t \in Int, <<s, t>> \in FreeRuns(w, all)
        PROVE  \E r \in FreeRuns(w, bs) : <<s, t>> \in remains(r, block)
    <2>1. /\ s = a \/ \E x \in all : s = x[2]
          /\ t = b \/ \E x \in all : t = x[1]
          /\ a <= s /\ t <= b
          /\ s < t \/ (s = a /\ t = b)
          /\ \A x \in all : x[2] <= s \/ t <= x[1]
      BY <1>1, <1>3, <1>6, FreeRun
    <2>2. PICK u \in Int, v \in Int : Encloses(u, v, s, t, a, b, bs)
      <3>1. \A x \in bs : x[2] <= s \/ t <= x[1]
        BY <2>1
      <3>2. a <= s /\ t <= b /\ a <= b /\ (s < t \/ (s = a /\ t = b))
        BY <2>1, <1>1
      <3> QED BY <3>1, <3>2, EnclosingRun
    <2>3. (u = s \/ s = d) /\ (v = t \/ t = c)
      BY <2>1, <2>2, <1>3 DEF Encloses
    <2>4. d <= s \/ t <= c
      BY <2>1, <1>3
    <2>5. <<s, t>> \in remains(<<u, v>>, <<c, d>>)
      <3>1. CASE d <= u \/ c >= v
        BY <3>1, <2>1, <2>2, <2>3, <2>4, <1>2, Pieces DEF Encloses
      <3>2. CASE ~(d <= u \/ c >= v) /\ d <= s
        BY <3>2, <2>1, <2>2, <2>3, <1>2, Pieces DEF Encloses
      <3>3. CASE ~(d <= u \/ c >= v) /\ t <= c
        BY <3>3, <2>1, <2>2, <2>3, <1>2, Pieces DEF Encloses
      <3> QED BY <3>1, <3>2, <3>3, <2>4
    <2> QED BY <2>2, <2>5, <1>1, <1>2 DEF Encloses
  <1>7. FreeRuns(w, bs) \subseteq Int \X Int /\ FreeRuns(w, all) \subseteq Int \X Int
    BY <1>1, <1>3, RunsAreIntervals
  <1>8. ASSUME NEW p, p \in _subtract_window(FreeRuns(w, bs), block)
        PROVE  p \in FreeRuns(w, all)
    <2>1. PICK r \in FreeRuns(w, bs) : p \in remains(r, block)
      BY <1>4, <1>8
    <2>2. PICK u \in Int, v \in Int : r = <<u, v>>
      BY <1>7
    <2> QED BY <2>1, <2>2, <1>5
  <1>9. ASSUME NEW p, p \in FreeRuns(w, all)
        PROVE  p \in _subtract_window(FreeRuns(w, bs), block)
    <2>1. PICK s \in Int, t \in Int : p = <<s, t>>
      BY <1>7, <1>9
    <2> QED BY <2>1, <1>4, <1>6, <1>9
  <1> QED BY <1>8, <1>9

-----------------------------------------------------------------------------
(* The appointments that are loaded.                                        *)

\* Moments of a date are not before its midnight nor after the next one's.
LEMMA WithinTheDay ==
  ASSUME NEW d \in Int, NEW t \in Int, NEW from \in Int, NEW to \in Int,
         from <= d, d <= to, 0 <= t, t <= DayLength
  PROVE  at(from, 0) <= at(d, t) /\ at(d, t) <= at(to + 1, 0)
  <1>1. DayLength \in Int /\ Minute \in Int /\ 0 <= DayLength /\ 0 <= Minute
    BY OpenSlotsAssumption
  <1>2. \A i, j, k \in Int : i <= j /\ 0 <= k => i * k <= j * k
    BY SMT
  <1> DEFINE low == from * DayLength
             mid == d * DayLength
             high == (to + 1) * DayLength
  <1>3. low \in Int /\ mid \in Int /\ high \in Int /\ high = to * DayLength + DayLength
    BY <1>1
  <1>4. low <= mid /\ mid <= to * DayLength
    BY <1>1, <1>2
  <1>5. low + 0 <= mid + t /\ mid + t <= high + 0
    BY <1>1, <1>3, <1>4
  <1>6. (low + 0) * Minute <= (mid + t) * Minute /\ (mid + t) * Minute <= (high + 0) * Minute
    <2> HIDE DEF low, mid, high
    <2> QED BY <1>1, <1>2, <1>3, <1>5
  <1> QED BY <1>6 DEF at

\* Loading only the appointments that touch the range of dates decides about every
\* step within its days as all live appointments would: one that began the day
\* before, or runs on after the last day, is not missed.
THEOREM LoadedAppointmentsSuffice ==
  ASSUME live \subseteq Moments, duration \in Durations,
         NEW from \in Int, NEW to \in Int, NEW d \in from..to,
         NEW t \in Nat, t + duration <= DayLength
  PROVE  conflict(d, t, appointments(from, to)) <=> conflict(d, t, live)
  <1>1. \A m \in live : m[1] \in Int /\ m[2] \in Int
    BY OpenSlotsAssumption
  <1>2. duration \in Nat /\ DayLength \in Nat /\ Minute \in Nat
    BY OpenSlotsAssumption
  <1>3. at(from, 0) <= at(d, t) /\ at(d, t + duration) <= at(to + 1, 0)
    <2>1. d \in Int /\ from <= d /\ d <= to
      OBVIOUS
    <2>2. t \in Int /\ 0 <= t /\ t <= DayLength
      BY <1>2
    <2>3. t + duration \in Int /\ 0 <= t + duration
      BY <1>2
    <2>4. at(from, 0) <= at(d, t)
      BY <2>1, <2>2, WithinTheDay
    <2>5. at(d, t + duration) <= at(to + 1, 0)
      BY <2>1, <2>3, WithinTheDay
    <2> QED BY <2>4, <2>5
  <1>4. /\ at(from, 0) \in Int /\ at(d, t) \in Int
        /\ at(d, t + duration) \in Int /\ at(to + 1, 0) \in Int
    BY <1>2 DEF at
  <1>5. \A m \in live : at(d, t) < m[2] /\ at(d, t + duration) > m[1]
                           => m[1] < at(to + 1, 0) /\ m[2] > at(from, 0)
    BY <1>1, <1>3, <1>4
  <1> QED BY <1>5 DEF conflict, appointments

-----------------------------------------------------------------------------
(* Minutes                                                                  *)

\* A time of day falls into a minute of the day.
LEMMA MinuteOfDay ==
  ASSUME NEW t \in 0..(DayLength * Minute - 1)
  PROVE  /\ _time_to_min(t) \in Int /\ 0 <= _time_to_min(t) /\ _time_to_min(t) <= DayLength
         /\ _time_to_min(t) * Minute <= t /\ t < (_time_to_min(t) + 1) * Minute
  <1>1. DayLength \in Int /\ Minute \in Int /\ 0 < Minute /\ t \in Int
    BY OpenSlotsAssumption
  <1> DEFINE q == t \div Minute
  <1>2. q \in Int /\ q * Minute <= t /\ t < (q + 1) * Minute
    BY <1>1
  <1>3. \A i, j, k \in Int : i <= j /\ 0 <= k => i * k <= j * k
    BY SMT
  <1>4. 0 <= q
    <2> HIDE DEF q
    <2>1. q < 0 => (q + 1) * Minute <= 0 * Minute
      BY <1>1, <1>2, <1>3
    <2> QED BY <2>1, <1>1, <1>2
  <1>5. q <= DayLength
    <2> HIDE DEF q
    <2>1. DayLength < q => DayLength * Minute <= q * Minute
      BY <1>1, <1>2, <1>3
    <2> QED BY <2>1, <1>1, <1>2
  <1> QED BY <1>2, <1>4, <1>5 DEF _time_to_min

\* An earlier time is not in a later minute.
LEMMA MinutesInOrder ==
  ASSUME NEW t \in 0..(DayLength * Minute - 1), NEW u \in 0..(DayLength * Minute - 1), t <= u
  PROVE  _time_to_min(t) <= _time_to_min(u)
  <1> DEFINE p == _time_to_min(t)
             q == _time_to_min(u)
  <1>1. p \in Int /\ q \in Int /\ p * Minute <= t /\ u < (q + 1) * Minute
    BY MinuteOfDay
  <1>2. \A i, j, k \in Int : i <= j /\ 0 <= k => i * k <= j * k
    BY SMT
  <1>3. q + 1 <= p => (q + 1) * Minute <= p * Minute
    <2> HIDE DEF p, q
    <2> QED BY <1>1, <1>2, OpenSlotsAssumption
  <1>4. DayLength * Minute \in Int /\ p * Minute \in Int /\ (q + 1) * Minute \in Int
    <2> HIDE DEF p, q
    <2> QED BY <1>1, OpenSlotsAssumption
  <1>5. t \in Int /\ u \in Int
    BY <1>4
  <1> HIDE DEF p, q
  <1>6. ~(q + 1 <= p)
    BY <1>1, <1>3, <1>4, <1>5
  <1>7. p <= q
    BY <1>1, <1>6
  <1> QED BY <1>7 DEF p, q

\* The windows of a day, in minutes; one may have no minute of its own.
DayWindows == {w \in (0..DayLength) \X (0..DayLength) : w[1] <= w[2]}

LEMMA WindowsInMinutes ==
  ASSUME NEW time \in Windows
  PROVE  in_minutes(time) \in DayWindows
  <1>1. time[1] \in 0..(DayLength * Minute - 1) /\ time[2] \in 0..(DayLength * Minute - 1)
    BY OpenSlotsAssumption DEF Windows
  <1>2. DayLength * Minute \in Int
    BY OpenSlotsAssumption
  <1>3. time[1] <= time[2]
    BY <1>1, <1>2 DEF Windows
  <1>4. _time_to_min(time[1]) \in 0..DayLength /\ _time_to_min(time[2]) \in 0..DayLength
    BY <1>1, MinuteOfDay, OpenSlotsAssumption
  <1>5. _time_to_min(time[1]) <= _time_to_min(time[2])
    BY <1>1, <1>3, MinutesInOrder
  <1> QED BY <1>4, <1>5 DEF in_minutes, DayWindows

-----------------------------------------------------------------------------
(* The loop over the exceptions of a date.                                  *)

TimedBlocks(i, d) ==
    {in_minutes(exceptions[j].time) : j \in {k \in 1..i : blocks(exceptions[k], d)}}

\* What the first i exceptions leave of the windows.
RunsBeside(windows, i, d) == UNION {FreeRuns(w, TimedBlocks(i, d)) : w \in windows}

\* A timed block has a window of the day.
LEMMA BlockTimes ==
  ASSUME SlotsTypeOK, NEW d, NEW i \in 1..Len(exceptions), blocks(exceptions[i], d)
  PROVE  in_minutes(exceptions[i].time) \in DayWindows
  <1>1. exceptions[i] \in ExceptionCreate
    BY DEF SlotsTypeOK
  <1>2. exceptions[i].time \in Windows
    <2>1. exceptions[i].time \in Windows \/ exceptions[i].time = <<NoTime, NoTime>>
      BY <1>1 DEF ExceptionCreate
    <2>2. <<NoTime, NoTime>>[1] = NoTime
      OBVIOUS
    <2>3. exceptions[i].time[1] # NoTime
      BY DEF blocks
    <2> QED BY <2>1, <2>2, <2>3
  <1> QED BY <1>2, WindowsInMinutes

\* Without blocks a window is left as it is.
LEMMA NoBlocks ==
  ASSUME NEW w \in DayWindows
  PROVE  FreeRuns(w, {}) = {w}
  <1>1. PICK a \in 0..DayLength, b \in 0..DayLength : w = <<a, b>> /\ a <= b
    BY DEF DayWindows
  <1> QED BY <1>1, OpenSlotsAssumption DEF FreeRuns

\* Cutting distributes over the windows of a day.
LEMMA CutEach ==
  ASSUME NEW windows \in SUBSET DayWindows, NEW bs \in SUBSET DayWindows,
         NEW block \in DayWindows
  PROVE  _subtract_window(UNION {FreeRuns(w, bs) : w \in windows}, block)
            = UNION {FreeRuns(w, bs \cup {block}) : w \in windows}
  <1>1. DayWindows \subseteq Int \X Int /\ \A x \in DayWindows : x[1] <= x[2]
    BY OpenSlotsAssumption DEF DayWindows
  <1>2. \A w \in windows :
           UNION {remains(r, block) : r \in FreeRuns(w, bs)} = FreeRuns(w, bs \cup {block})
    <2>1. TAKE w \in windows
    <2>2. /\ w \in Int \X Int /\ block \in Int \X Int /\ bs \in SUBSET (Int \X Int)
          /\ w[1] <= w[2] /\ block[1] <= block[2]
      BY <1>1
    <2> QED BY <2>2, BlockByBlock DEF _subtract_window
  <1>3. _subtract_window(UNION {FreeRuns(w, bs) : w \in windows}, block)
           = UNION {UNION {remains(r, block) : r \in FreeRuns(w, bs)} : w \in windows}
    BY DEF _subtract_window
  <1> QED BY <1>2, <1>3

\* One turn of the loop.
LEMMA OneTurn ==
  ASSUME SlotsTypeOK, NEW windows \in SUBSET DayWindows, NEW d, NEW i \in 1..Len(exceptions)
  PROVE  RunsBeside(windows, i, d) =
            IF blocks(exceptions[i], d)
            THEN _subtract_window(RunsBeside(windows, i - 1, d), in_minutes(exceptions[i].time))
            ELSE RunsBeside(windows, i - 1, d)
  <1>1. i - 1 \in Nat /\ 1..i = 1..(i - 1) \cup {i} /\ 1..(i - 1) \subseteq 1..Len(exceptions)
    BY DEF SlotsTypeOK
  <1>2. TimedBlocks(i - 1, d) \in SUBSET DayWindows
    BY <1>1, BlockTimes DEF TimedBlocks
  <1>3. CASE blocks(exceptions[i], d)
    <2> DEFINE block == in_minutes(exceptions[i].time)
    <2>1. TimedBlocks(i, d) = TimedBlocks(i - 1, d) \cup {block}
      BY <1>1, <1>3 DEF TimedBlocks
    <2>2. block \in DayWindows
      BY <1>3, BlockTimes
    <2> HIDE DEF block
    <2>3. _subtract_window(RunsBeside(windows, i - 1, d), block) = RunsBeside(windows, i, d)
      BY <1>2, <2>1, <2>2, CutEach DEF RunsBeside
    <2> QED BY <2>3, <1>3 DEF block
  <1>4. CASE ~blocks(exceptions[i], d)
    <2>1. TimedBlocks(i, d) = TimedBlocks(i - 1, d)
      BY <1>1, <1>4 DEF TimedBlocks
    <2> QED BY <2>1, <1>4 DEF RunsBeside
  <1> QED BY <1>3, <1>4

\* Before the first turn.
LEMMA BeforeTheLoop ==
  ASSUME NEW windows \in SUBSET DayWindows, NEW d
  PROVE  RunsBeside(windows, 0, d) = windows
  <1>1. TimedBlocks(0, d) = {}
    BY DEF TimedBlocks
  <1>2. RunsBeside(windows, 0, d) = UNION {{w} : w \in windows}
    BY <1>1, NoBlocks DEF RunsBeside
  <1> QED BY <1>2

\* The loop computes the free runs of all blocks at once.
LEMMA LoopResult ==
  ASSUME SlotsTypeOK, NEW windows \in SUBSET DayWindows, NEW d
  PROVE  cut(windows, d) = RunsBeside(windows, Len(exceptions), d)
  <1> DEFINE n == Len(exceptions)
             turn(g, i) ==
                IF i = 0 THEN windows
                ELSE IF blocks(exceptions[i], d)
                     THEN _subtract_window(g[i - 1], in_minutes(exceptions[i].time))
                     ELSE g[i - 1]
             solves(g) == g = [i \in 0..n |-> turn(g, i)]
             runs == [i \in 0..n |-> RunsBeside(windows, i, d)]
             left == CHOOSE g : solves(g)
  <1>1. n \in Nat
    BY DEF SlotsTypeOK
  <1>2. \A i \in 0..n : turn(runs, i) = RunsBeside(windows, i, d)
    <2>1. TAKE i \in 0..n
    <2>2. CASE i = 0
      BY <2>2, BeforeTheLoop
    <2>3. CASE i # 0
      <3>1. i \in 1..Len(exceptions) /\ i - 1 \in 0..n
        BY <1>1, <2>3
      <3>2. runs[i - 1] = RunsBeside(windows, i - 1, d)
        BY <3>1
      <3> QED BY <2>3, <3>1, <3>2, OneTurn
    <2> QED BY <2>2, <2>3
  <1>3. solves(runs)
    BY <1>2
  <1>4. solves(left)
    <2> HIDE DEF solves, runs
    <2> QED BY <1>3
  <1>5. cut(windows, d) = left[n]
    BY DEF cut
  <1>6. ASSUME NEW i \in 0..n PROVE left[i] = turn(left, i) /\ runs[i] = turn(runs, i)
    <2> HIDE DEF left, runs, turn
    <2> QED BY <1>3, <1>4, <1>6
  <1>7. \A g, h : \A i \in 0..n : (i # 0 => g[i - 1] = h[i - 1]) => turn(g, i) = turn(h, i)
    OBVIOUS
  <1>8. \A i \in 0..n : left[i] = runs[i]
    <2> HIDE DEF left, runs, turn
    <2> DEFINE Wrong == {i \in 0..n : left[i] # runs[i]}
    <2>1. SUFFICES ASSUME Wrong # {} PROVE FALSE
      OBVIOUS
    <2>2. PICK i \in Wrong : \A j \in Wrong : ~(j < i)
      <3>1. Wrong \subseteq Nat
        BY <1>1
      <3> HIDE DEF Wrong
      <3> QED BY <2>1, <3>1, LeastNatural
    <2>3. i # 0 => i - 1 \in 0..n /\ i - 1 \notin Wrong
      BY <1>1, <2>2
    <2>4. i # 0 => left[i - 1] = runs[i - 1]
      BY <2>3
    <2> QED BY <1>6, <1>7, <2>2, <2>4
  <1> QED
    <2>1. n \in 0..n
      BY <1>1
    <2> HIDE DEF left
    <2> QED BY <1>5, <1>8, <2>1

-----------------------------------------------------------------------------
(* The answer                                                               *)

\* What a table's rows are.
LEMMA RowTypes ==
  ASSUME SlotsTypeOK
  PROVE  /\ \A a \in ToSet(availability) : a \in AvailabilityCreate
         /\ \A e \in ToSet(exceptions) : e \in ExceptionCreate
  <1>1. /\ \A i \in DOMAIN availability : availability[i] \in AvailabilityCreate
        /\ \A i \in DOMAIN exceptions : exceptions[i] \in ExceptionCreate
    BY DEF SlotsTypeOK
  <1> QED BY <1>1 DEF ToSet

\* Weekly windows lie within the day.
LEMMA WeeklyInTheDay ==
  ASSUME SlotsTypeOK, NEW d
  PROVE  weekly(d) \in SUBSET DayWindows
  <1>1. \A a \in ToSet(availability) : a.time \in Windows
    BY RowTypes DEF AvailabilityCreate
  <1> QED BY <1>1, WindowsInMinutes DEF weekly

\* So do extra windows.
LEMMA ExtrasInTheDay ==
  ASSUME SlotsTypeOK, NEW d
  PROVE  extras(d) \in SUBSET DayWindows
  <1>1. \A e \in ToSet(exceptions) : e.is_available => e.time \in Windows
    <2>1. \A e \in ExceptionCreate : e.is_available # FALSE => e.time \in Windows
      BY DEF ExceptionCreate
    <2> QED BY <2>1, RowTypes
  <1> QED BY <1>1, WindowsInMinutes DEF extras

\* The windows that are left of a date are its free runs, whatever rows there are
\* and in whatever order they are read.
THEOREM WindowsAreFreeRuns ==
  ASSUME SlotsTypeOK, NEW d
  PROVE  windows_of(d) = Runs(d)
  <1>1. cut(weekly(d), d) = RunsBeside(weekly(d), Len(exceptions), d)
    BY WeeklyInTheDay, LoopResult
  <1>2. DOMAIN exceptions = 1..Len(exceptions)
    BY DEF SlotsTypeOK
  <1>3. TimedBlocks(Len(exceptions), d) = BlockedTimes(d)
    BY <1>2 DEF TimedBlocks, BlockedTimes, ToSet
  <1>4. cut(weekly(d), d) = WeeklyRuns(d)
    BY <1>1, <1>3 DEF RunsBeside, WeeklyRuns
  <1>5. CASE whole_day_blocked(d)
    BY <1>5 DEF windows_of, Runs
  <1>6. CASE ~whole_day_blocked(d)
    BY <1>4, <1>6 DEF windows_of, Runs
  <1> QED BY <1>5, <1>6

\* A free run lies within its day.
LEMMA RunsInTheDay ==
  ASSUME SlotsTypeOK, NEW d, NEW r \in Runs(d)
  PROVE  r[1] \in Int /\ r[2] \in Int /\ 0 <= r[1] /\ r[2] <= DayLength
  <1>1. \A w \in DayWindows : /\ w \in Int \X Int
                              /\ 0 <= w[1] /\ w[2] <= DayLength
    BY OpenSlotsAssumption DEF DayWindows
  <1>2. CASE r \in extras(d)
    BY <1>1, <1>2, ExtrasInTheDay
  <1>3. ASSUME NEW w \in weekly(d), r \in FreeRuns(w, BlockedTimes(d))
        PROVE  r[1] \in Int /\ r[2] \in Int /\ 0 <= r[1] /\ r[2] <= DayLength
    <2>1. w \in Int \X Int /\ 0 <= w[1] /\ w[2] <= DayLength
      BY <1>1, WeeklyInTheDay
    <2>2. BlockedTimes(d) \in SUBSET (Int \X Int)
      <3>1. \A e \in ToSet(exceptions) : blocks(e, d) => in_minutes(e.time) \in DayWindows
        BY BlockTimes DEF SlotsTypeOK, ToSet
      <3> QED BY <3>1, <1>1 DEF BlockedTimes
    <2>3. r[1] \in Int /\ r[2] \in Int /\ w[1] <= r[1] /\ r[2] <= w[2]
      BY <2>1, <2>2, <1>3 DEF FreeRuns
    <2> QED BY <2>1, <2>3, OpenSlotsAssumption
  <1>4. r \in extras(d) \/ \E w \in weekly(d) : r \in FreeRuns(w, BlockedTimes(d))
    <2>1. r \in WeeklyRuns(d) \/ r \in extras(d)
      BY DEF Runs
    <2> QED BY <2>1 DEF WeeklyRuns
  <1> QED BY <1>2, <1>3, <1>4

\* A step of a run lies within the day, so the appointments that were loaded decide.
LEMMA StepsAreDecided ==
  ASSUME SlotsTypeOK, NEW from \in Int, NEW to \in Int, NEW d \in from..to,
         NEW r \in Runs(d), NEW t \in steps(r)
  PROVE  /\ t \in 0..DayLength /\ t + duration <= DayLength
         /\ conflict(d, t, appointments(from, to)) <=> conflict(d, t, live)
  <1>1. duration \in Nat /\ DayLength \in Nat
    BY OpenSlotsAssumption DEF SlotsTypeOK
  <1>2. t \in r[1]..(r[2] - duration) /\ r[1] \in Int /\ r[2] \in Int
        /\ 0 <= r[1] /\ r[2] <= DayLength
    BY RunsInTheDay DEF steps
  <1>3. t \in Nat /\ t \in 0..DayLength /\ t + duration <= DayLength
    BY <1>1, <1>2
  <1>4. conflict(d, t, appointments(from, to)) <=> conflict(d, t, live)
    BY <1>3, LoadedAppointmentsSuffice DEF SlotsTypeOK
  <1> QED BY <1>3, <1>4

\* Whatever the rows are, the answer is the reference.
LEMMA AnswerIsExact == SlotsTypeOK => OffersExactlyTheFreeSteps
  <1> SUFFICES ASSUME SlotsTypeOK, NEW from \in Days, NEW to \in Days
               PROVE  compute_open_slots(from, to) =
                        {at(x[1], x[2]) : x \in {y \in (from..to) \X (0..DayLength) :
                            /\ y[1] \in Days
                            /\ \E w \in Runs(y[1]) : y[2] \in steps(w)
                            /\ ~conflict(y[1], y[2], live)}}
    BY DEF OffersExactlyTheFreeSteps, Ranges
  <1> DEFINE Offered(d, t) == /\ d \in Days /\ d \in from..to /\ t \in 0..DayLength
                              /\ \E w \in Runs(d) : t \in steps(w)
                              /\ ~conflict(d, t, live)
             Due == {y \in (from..to) \X (0..DayLength) :
                        /\ y[1] \in Days
                        /\ \E w \in Runs(y[1]) : y[2] \in steps(w)
                        /\ ~conflict(y[1], y[2], live)}
  <1>1. from \in Int /\ to \in Int /\ \A d \in Days : d \in Int
    BY OpenSlotsAssumption
  <1>2. \A s : s \in compute_open_slots(from, to) <=>
           \E d \in Days : /\ from <= d /\ d <= to
                           /\ \E w \in Runs(d) : \E t \in steps(w) :
                                 s = at(d, t) /\ ~conflict(d, t, appointments(from, to))
    BY WindowsAreFreeRuns DEF compute_open_slots
  <1>3. \A d \in Days : from <= d /\ d <= to => d \in from..to
    BY <1>1
  <1>4. \A s : s \in compute_open_slots(from, to) <=> \E d, t : Offered(d, t) /\ s = at(d, t)
    BY <1>1, <1>2, <1>3, StepsAreDecided
  <1>5. \A s : s \in {at(x[1], x[2]) : x \in Due} <=> \E d, t : Offered(d, t) /\ s = at(d, t)
    <2>1. \A d, t : <<d, t>> \in Due <=> Offered(d, t)
      OBVIOUS
    <2>2. \A x \in Due : \E d, t : x = <<d, t>>
      OBVIOUS
    <2>3. \A d, t : <<d, t>>[1] = d /\ <<d, t>>[2] = t
      OBVIOUS
    <2> HIDE DEF Offered, Due
    <2>4. ASSUME NEW x \in Due PROVE \E d, t : Offered(d, t) /\ at(x[1], x[2]) = at(d, t)
      BY <2>1, <2>2, <2>3
    <2>5. ASSUME NEW d, NEW t, Offered(d, t) PROVE \E x \in Due : at(x[1], x[2]) = at(d, t)
      <3>1. <<d, t>> \in Due
        BY <2>1, <2>5
      <3>2. at(<<d, t>>[1], <<d, t>>[2]) = at(d, t)
        BY <2>3
      <3> QED BY <3>1, <3>2
    <2> QED BY <2>4, <2>5
  <1> HIDE DEF Offered, Due
  <1>6. compute_open_slots(from, to) = {at(x[1], x[2]) : x \in Due}
    BY <1>4, <1>5
  <1> QED BY <1>6 DEF Due

\* A start that is offered touches no live appointment.
LEMMA AnswerIsFree == SlotsTypeOK => OfferedSlotsAreBookable
  <1> SUFFICES ASSUME SlotsTypeOK, NEW from \in Days, NEW to \in Days,
                      NEW s \in compute_open_slots(from, to),
                      NEW m \in live
               PROVE  ~(m[1] < s + duration * Minute /\ m[2] > s)
    BY DEF OfferedSlotsAreBookable, Ranges
  <1>1. from \in Int /\ to \in Int /\ \A d \in Days : d \in Int
    BY OpenSlotsAssumption
  <1>2. PICK d \in Days : /\ from <= d /\ d <= to
                          /\ \E w \in Runs(d) : \E t \in steps(w) :
                                s = at(d, t) /\ ~conflict(d, t, appointments(from, to))
    BY WindowsAreFreeRuns DEF compute_open_slots
  <1>3. d \in from..to
    BY <1>1, <1>2
  <1>4. PICK t : t \in 0..DayLength /\ s = at(d, t) /\ ~conflict(d, t, live)
    BY <1>1, <1>2, <1>3, StepsAreDecided
  <1>5. DayLength \in Int /\ Minute \in Int /\ duration \in Int /\ d \in Int /\ t \in Int
    BY <1>1, <1>4, OpenSlotsAssumption DEF SlotsTypeOK
  <1>6. at(d, t + duration) = at(d, t) + duration * Minute
    <2>1. \A i, j, k \in Int : (i + j) * k = i * k + j * k
      BY SMT
    <2> DEFINE midnight == d * DayLength
    <2>2. midnight \in Int
      BY <1>5
    <2> HIDE DEF midnight
    <2>3. (midnight + (t + duration)) = (midnight + t) + duration
      BY <1>5, <2>2
    <2>4. ((midnight + t) + duration) * Minute = (midnight + t) * Minute + duration * Minute
      BY <1>5, <2>1, <2>2
    <2> QED BY <2>3, <2>4 DEF at, midnight
  <1> QED BY <1>2, <1>4, <1>6 DEF conflict

-----------------------------------------------------------------------------
(* The theorems of the specification.                                       *)

\* Deleting a row leaves the others.
LEMMA RemoveRow ==
  ASSUME NEW S, NEW table \in Seq(S), NEW i \in DOMAIN table
  PROVE  RemoveAt(table, i) \in Seq(S) /\ Len(RemoveAt(table, i)) <= Len(table)
  <1>1. i \in 1..Len(table) /\ Len(table) \in Nat
    OBVIOUS
  <1> DEFINE front == SubSeq(table, 1, i - 1)
             back == SubSeq(table, i + 1, Len(table))
  <1>2. front \in Seq(S) /\ Len(front) = i - 1
    BY <1>1
  <1>3. back \in Seq(S) /\ Len(back) = Len(table) - i
    BY <1>1
  <1>4. front \o back \in Seq(S) /\ Len(front \o back) = (i - 1) + (Len(table) - i)
    <2> HIDE DEF front, back
    <2> QED BY <1>2, <1>3, SMTT(20)
  <1> HIDE DEF front, back
  <1>5. RemoveAt(table, i) = front \o back
    BY DEF RemoveAt, front, back
  <1> QED BY <1>1, <1>4, <1>5

\* Rows keep their types and tables their bounds.
THEOREM RowsKeepTheirTypes == SlotsSpec => []SlotsTypeOK
  <1>1. SlotsInit => SlotsTypeOK
    BY OpenSlotsAssumption DEF SlotsInit, SlotsTypeOK
  <1>2. SlotsTypeOK /\ [SlotsNext]_slotsVars => SlotsTypeOK'
    <2> SUFFICES ASSUME SlotsTypeOK, [SlotsNext]_slotsVars PROVE SlotsTypeOK'
      OBVIOUS
    <2> USE DEF SlotsTypeOK
    <2>1. ASSUME NEW a \in AvailabilityCreate, add_availability(a) PROVE SlotsTypeOK'
      BY <2>1, OpenSlotsAssumption DEF add_availability
    <2>2. ASSUME NEW i \in DOMAIN availability, delete_availability(i) PROVE SlotsTypeOK'
      BY <2>2, RemoveRow, OpenSlotsAssumption DEF delete_availability
    <2>3. ASSUME NEW e \in ExceptionCreate, add_exception(e) PROVE SlotsTypeOK'
      BY <2>3, OpenSlotsAssumption DEF add_exception
    <2>4. ASSUME NEW i \in DOMAIN exceptions, delete_exception(i) PROVE SlotsTypeOK'
      BY <2>4, RemoveRow, OpenSlotsAssumption DEF delete_exception
    <2>5. ASSUME NEW n \in Durations, update_appointment_type(n) PROVE SlotsTypeOK'
      BY <2>5 DEF update_appointment_type
    <2>6. ASSUME NEW m \in Moments, Book(m) PROVE SlotsTypeOK'
      BY <2>6 DEF Book
    <2>7. ASSUME NEW m \in live, Free(m) PROVE SlotsTypeOK'
      BY <2>7 DEF Free
    <2>8. CASE UNCHANGED slotsVars
      BY <2>8 DEF slotsVars
    <2> QED BY <2>1, <2>2, <2>3, <2>4, <2>5, <2>6, <2>7, <2>8 DEF SlotsNext
  <1> QED BY <1>1, <1>2, PTL DEF SlotsSpec

\* In every state the slots that are offered are exactly the free steps of the free
\* runs: for every set of windows, blocks and appointments and every length of day.
THEOREM OffersAreExact == SlotsSpec => []OffersExactlyTheFreeSteps
  BY RowsKeepTheirTypes, AnswerIsExact, PTL

\* In every state a slot that is offered would pass the overlap check.
THEOREM OffersAreBookable == SlotsSpec => []OfferedSlotsAreBookable
  BY RowsKeepTheirTypes, AnswerIsFree, PTL
=============================================================================
