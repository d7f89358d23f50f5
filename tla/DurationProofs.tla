--------------------------- MODULE DurationProofs ---------------------------
(***************************************************************************)
(* The deadline of a hold and the time left shown, for any unit of time,   *)
(* any width of an integer and any argument, overflow included.            *)
(***************************************************************************)
EXTENDS Duration, TLAPS

-----------------------------------------------------------------------------
(* Integer division.                                                       *)

LEMMA Euclid ==
  ASSUME NEW a \in Int, NEW m \in Nat \ {0}
  PROVE  /\ a \div m \in Int /\ a % m \in 0 .. m - 1
         /\ a = (a \div m) * m + (a % m)
<1>1. a % m \in Int /\ 0 <= a % m /\ a % m < m
  OBVIOUS
<1>2. a \div m \in Int /\ a = m * (a \div m) + (a % m)
  OBVIOUS
<1> QED
  BY <1>1, <1>2

LEMMA EuclidIsUnique ==
  ASSUME NEW q \in Int, NEW m \in Nat \ {0}, NEW r \in 0 .. m - 1
  PROVE  (q * m + r) \div m = q /\ (q * m + r) % m = r
OBVIOUS

LEMMA DivGrows ==
  ASSUME NEW a \in Int, NEW b \in Int, NEW m \in Nat \ {0}, a <= b
  PROVE  a \div m <= b \div m
OBVIOUS

LEMMA SameOrder ==
  ASSUME NEW j \in Int, NEW k \in Int, NEW m \in Nat \ {0}
  PROVE  j * m < k * m <=> j < k
<1>1. CASE j < k
  <2>1. (k - j) * m > 0 /\ (k - j) * m = k * m - j * m
    BY <1>1
  <2> QED
    BY <1>1, <2>1
<1>2. CASE j >= k
  <2>1. (j - k) * m >= 0 /\ (j - k) * m = j * m - k * m
    BY <1>2
  <2> QED
    BY <1>2, <2>1
<1> QED
  BY <1>1, <1>2

LEMMA Units ==
  /\ Second \in Nat \ {0} /\ Minute \in Nat \ {0} /\ Hour \in Nat \ {0}
  /\ Minute = 60 * Second /\ Hour = 60 * Minute
BY UnitsAssumption DEF Minute, Hour

-----------------------------------------------------------------------------
(* What Round and shortDur compute.                                        *)

\* Round gives the nearest multiple, and keeps the order.
LEMMA RoundIsNearest ==
  ASSUME NEW d \in Int, NEW m \in Nat \ {0}
  PROVE  /\ Round(d, m) = ((2 * d + m) \div (2 * m)) * m
         /\ (2 * d + m) \div (2 * m) \in Int
         /\ Round(d, m) \in Int
         /\ \E k \in Int : Round(d, m) = k * m
         /\ 2 * d - m < 2 * Round(d, m) /\ 2 * Round(d, m) <= 2 * d + m
<1> DEFINE a == 2 * d + m
           n == 2 * m
           k == a \div n
<1>1. a \in Int /\ n \in Nat \ {0}
  OBVIOUS
<1>2. Round(d, m) = k * m
  BY DEF Round
<1>3. a = 2 * d + m /\ n = 2 * m
  OBVIOUS
<1> HIDE DEF a, n
<1>4. k \in Int /\ (a % n) \in 0 .. n - 1 /\ a = k * n + (a % n)
  BY <1>1, Euclid
<1> HIDE DEF k
<1>5. k * n = 2 * (k * m) /\ k * m \in Int
  BY <1>3, <1>4
<1>6. 2 * d - m < 2 * Round(d, m) /\ 2 * Round(d, m) <= 2 * d + m
  BY <1>1, <1>2, <1>3, <1>4, <1>5
<1> QED
  BY <1>2, <1>4, <1>5, <1>6 DEF k, a, n

LEMMA RoundGrows ==
  ASSUME NEW a \in Int, NEW b \in Int, NEW m \in Nat \ {0}, a <= b
  PROVE  Round(a, m) <= Round(b, m)
<1>1. (2 * a + m) \div (2 * m) <= (2 * b + m) \div (2 * m)
  BY DivGrows
<1>2. (2 * a + m) \div (2 * m) \in Int /\ (2 * b + m) \div (2 * m) \in Int
  BY RoundIsNearest
<1> QED
  BY <1>1, <1>2, RoundIsNearest

\* A multiple of a second is as many seconds.
LEMMA Multiple ==
  ASSUME NEW k \in Int, NEW m \in Nat \ {0}
  PROVE  (k * m) \div m = k
<1>1. 0 \in 0 .. m - 1 /\ k * m + 0 = k * m
  OBVIOUS
<1> QED
  BY <1>1, EuclidIsUnique

\* Below a minute it is d to the nearest second, and one second at least ...
LEMMA ShortInSeconds ==
  ASSUME NEW d \in Int, d < Minute
  PROVE  InUnits(d) = IF Round(d, Second) < Second THEN Second ELSE Round(d, Second)
<1> DEFINE k == (2 * d + Second) \div (2 * Second)
<1>1. Round(d, Second) = k * Second /\ k \in Int
  BY Units, RoundIsNearest
<1> HIDE DEF k
<1>2. Round(d, Second) \div Second = k
  BY <1>1, Units, Multiple
<1>3. shortDur(d) = [h |-> 0, m |-> 0, s |-> IF k < 1 THEN 1 ELSE k]
  BY <1>2 DEF shortDur
<1>4. InUnits(d) = (IF k < 1 THEN 1 ELSE k) * Second
  BY <1>1, <1>3, Units DEF InUnits
<1>5. k < 1 <=> k * Second < Second
  BY <1>1, Units
<1> QED
  BY <1>1, <1>4, <1>5, Units

\* ... and from a minute on d to the nearest minute: the carry of the minutes
\* into the hours loses nothing.
LEMMA ShortInMinutes ==
  ASSUME NEW d \in Int, d >= Minute
  PROVE  InUnits(d) = Round(d, Minute)
<1> DEFINE k == (2 * d + Minute) \div (2 * Minute)
           a == k \div 60
           b == k % 60
           r == Round(d, Minute)
<1>1. r = k * Minute /\ k \in Int
  BY Units, RoundIsNearest
<1> HIDE DEF k, r
<1>2. a \in Int /\ b \in 0 .. 59 /\ k = a * 60 + b
  BY <1>1, Euclid
<1> HIDE DEF a, b
<1>3. r = a * Hour + b * Minute
  BY <1>1, <1>2, Units
<1>4. b * Minute \in 0 .. Hour - 1
  BY <1>2, Units
<1>5. r \div Hour = a /\ r % Hour = b * Minute
  <2>1. Hour \in Nat \ {0} /\ b * Minute \in Int
    BY <1>2, Units
  <2>2. (a * Hour + b * Minute) \div Hour = a /\ (a * Hour + b * Minute) % Hour = b * Minute
    BY <1>2, <1>4, <2>1, EuclidIsUnique
  <2> QED
    BY <1>3, <2>2
<1>6. (r % Hour) \div Minute = b
  BY <1>2, <1>5, Units, Multiple
<1>7. shortDur(d) = [h |-> a, m |-> b, s |-> 0]
  BY <1>5, <1>6, Units DEF shortDur, r
<1>8. InUnits(d) = a * Hour + b * Minute + 0 * Second
  BY <1>7 DEF InUnits
<1> QED
  BY <1>2, <1>3, <1>8, Units DEF r

LEMMA ShortGrows ==
  ASSUME NEW a \in Int, NEW b \in Int, a <= b
  PROVE  InUnits(a) <= InUnits(b)
<1>1. CASE b < Minute
  <2>1. /\ Round(a, Second) <= Round(b, Second)
        /\ Round(a, Second) \in Int /\ Round(b, Second) \in Int
    BY Units, RoundGrows, RoundIsNearest
  <2>2. a < Minute
    BY <1>1, Units
  <2> QED
    BY <1>1, <2>1, <2>2, Units, ShortInSeconds
<1>2. CASE a >= Minute
  BY <1>2, Units, RoundGrows, ShortInMinutes
<1>3. CASE a < Minute /\ b >= Minute
  <2>1. Round(a, Second) <= Round(Minute, Second)
    BY <1>3, Units, RoundGrows
  <2>2. Round(Minute, Second) = Minute
    <3>1. Minute \in Int /\ Second \in Nat \ {0}
      BY Units
    <3>2. PICK k \in Int : Round(Minute, Second) = k * Second
      BY <3>1, RoundIsNearest
    <3>3. /\ 2 * Minute - Second < 2 * (k * Second)
          /\ 2 * (k * Second) <= 2 * Minute + Second
      BY <3>1, <3>2, RoundIsNearest
    <3>4. 119 * Second < (2 * k) * Second /\ ~(121 * Second < (2 * k) * Second)
      BY <3>3, Units
    <3>5. 119 < 2 * k /\ ~(121 < 2 * k)
      BY <3>4, Units, SameOrder
    <3>6. k = 60
      BY <3>5
    <3> QED
      BY <3>2, <3>6, Units
  <2>3. Round(b, Minute) >= Minute
    <3>1. PICK k \in Int : Round(b, Minute) = k * Minute
      BY Units, RoundIsNearest
    <3>2. 2 * b - Minute < 2 * (k * Minute)
      BY <3>1, Units, RoundIsNearest
    <3>3. 1 * Minute < (2 * k) * Minute
      BY <1>3, <3>2, Units
    <3>4. k >= 1
      BY <3>3, Units, SameOrder
    <3>5. ~(k * Minute < 1 * Minute)
      BY <3>4, Units, SameOrder
    <3> QED
      BY <3>1, <3>5, Units
  <2>4. Round(a, Second) \in Int
    BY Units, RoundIsNearest
  <2>5. InUnits(a) <= Minute
    BY <1>3, <2>1, <2>2, <2>4, Units, ShortInSeconds
  <2>6. InUnits(a) \in Int
    BY <1>3, <2>4, Units, ShortInSeconds
  <2>7. InUnits(b) = Round(b, Minute) /\ Round(b, Minute) \in Int
    BY <1>3, Units, RoundIsNearest, ShortInMinutes
  <2> QED
    BY <2>3, <2>5, <2>6, <2>7, Units
<1> QED
  BY <1>1, <1>2, <1>3, Units

-----------------------------------------------------------------------------
(* The deadline.                                                           *)

\* What parsing accepts is a time, and lies ahead.
LEMMA AcceptedIsAhead ==
  ASSUME NEW t \in Nat,
         forStr \in {None, Bad} \cup Args("int", Ints) \cup Args("span", Spans),
         untilStr \in {None, Bad} \cup Args("clock", Clocks),
         NEW h \in deadline(forStr, untilStr, t), h.kind = "until"
  PROVE  h.at \in Int /\ h.at > t /\ h.expiresAt = h.at \div Second
<1>1. ASSUME NEW d \in ParseFor(forStr) PROVE d \in Int /\ d > 0
  <2>1. MinInt \in Int /\ MaxInt \in Int
    BY UnitsAssumption DEF MinInt, MaxInt
  <2>2. CASE forStr.kind = "int"
    <3>1. forStr.n \in Int
      BY <2>1, <2>2, ArgsAssumption DEF None, Bad, Args
    <3>2. forStr.n * Second - MinInt \in Int
      BY <2>1, <3>1, UnitsAssumption
    <3>3. (forStr.n * Second - MinInt) % Values \in 0 .. Values - 1
      BY <3>2, UnitsAssumption, Euclid
    <3>4. Wrap(forStr.n * Second) \in Int
      BY <2>1, <3>3, UnitsAssumption DEF Wrap
    <3> QED
      BY <1>1, <2>2, <3>4 DEF ParseFor
  <2>3. CASE forStr.kind = "span"
    BY <1>1, <2>1, <2>3, ArgsAssumption DEF ParseFor, None, Bad, Args
  <2> QED
    BY <1>1, <2>2, <2>3 DEF ParseFor
<1>2. ASSUME NEW u \in ParseUntil(untilStr, t) PROVE u \in Int /\ u > t
  <2>1. untilStr.n \in Int
    BY <1>2, ArgsAssumption DEF ParseUntil, None, Bad, Args
  <2>2. untilStr.n * Minute \in Int
    BY <2>1, Units
  <2> QED
    BY <1>2, <2>2 DEF ParseUntil
<1> QED
  BY <1>1, <1>2 DEF deadline, Until, Forever

\* The clock stands still until the flags are parsed.
Inv ==
  /\ start \in Nat /\ now \in Int /\ start <= now
  /\ forStr \in {None, Bad} \cup Args("int", Ints) \cup Args("span", Spans)
  /\ untilStr \in {None, Bad} \cup Args("clock", Clocks)
  /\ hold.kind = "parsing" => now = start
  /\ hold.kind = "until" => hold.at \in Int /\ hold.expiresAt = hold.at \div Second
  /\ DeadlineAhead

LEMMA Inductive == Spec => []Inv
<1>1. Init => Inv
  BY ArgsAssumption DEF Init, Inv, Parsing, DeadlineAhead
<1>2. Inv /\ [Next]_vars => Inv'
  <2> SUFFICES ASSUME Inv, [Next]_vars PROVE Inv'
    OBVIOUS
  <2>1. CASE UNCHANGED vars
    BY <2>1 DEF vars, Inv, DeadlineAhead
  <2>2. CASE Parse
    <3>1. now = start /\ UNCHANGED <<forStr, untilStr, start, now>>
      BY <2>2 DEF Parse, Parsing, Inv
    <3>2. \/ hold' = Usage
          \/ hold' \in deadline(forStr, untilStr, now)
      BY <2>2 DEF Parse
    <3>3. hold'.kind # "parsing"
      BY <3>2 DEF Usage, deadline, Until, Forever
    <3>4. hold'.kind = "until" =>
            /\ hold'.at \in Int /\ hold'.at > now
            /\ hold'.expiresAt = hold'.at \div Second
      BY <3>1, <3>2, AcceptedIsAhead DEF Inv, Usage
    <3> QED
      BY <3>1, <3>3, <3>4 DEF Inv, DeadlineAhead
  <2>3. CASE Tick
    <3>1. PICK left \in Lefts : now' = hold.at - left
      BY <2>3 DEF Tick
    <3>2. now' \in Int
      BY <2>3, <3>1, ArgsAssumption DEF Tick, Inv
    <3> QED
      BY <2>3, <3>2 DEF Tick, Inv, DeadlineAhead
  <2> QED
    BY <2>1, <2>2, <2>3 DEF Next
<1> QED
  BY <1>1, <1>2, PTL DEF Spec

\* Whatever --for or --until says, overflow included, a deadline that is
\* accepted lies ahead.
THEOREM AcceptedLiesAhead == Spec => []DeadlineAhead
<1>1. Inv => DeadlineAhead
  BY DEF Inv
<1> QED
  BY <1>1, Inductive, PTL

\* The recorded deadline is the real one but for less than a second.
LEMMA RecordedIsClose ==
  ASSUME Inv, hold.kind = "until"
  PROVE  /\ hold.expiresAt \in Int /\ hold.expiresAt * Second \in Int
         /\ hold.at - Second < hold.expiresAt * Second
         /\ hold.expiresAt * Second <= hold.at
<1> DEFINE a == hold.at
           e == hold.expiresAt
           r == hold.at % Second
<1>1. a \in Int /\ e = a \div Second
  BY DEF Inv
<1>2. e \in Int /\ r \in 0 .. Second - 1 /\ a = e * Second + r
  BY <1>1, Units, Euclid
<1> HIDE DEF a, e, r
<1>3. e * Second \in Int
  BY <1>2, Units
<1>4. a - Second < e * Second /\ e * Second <= a
  BY <1>1, <1>2, <1>3, Units
<1> QED
  BY <1>2, <1>3, <1>4 DEF a, e

\* What status shows is close to the real time left, whatever the record of
\* the deadline lost, and never nothing.
THEOREM ShownIsRight == Spec => []ShownIsClose
<1>1. ASSUME Inv, hold.kind = "until" PROVE ShownIsClose
  <2> DEFINE left == hold.at - now
             rec  == hold.expiresAt * Second - now
  <2>1. left \in Int /\ rec \in Int /\ left - Second < rec /\ rec <= left
    BY <1>1, RecordedIsClose, Units DEF Inv
  <2>2. Shown(now) = InUnits(rec)
    BY DEF Shown
  <2> SUFFICES /\ Shown(now) >= Second
               /\ Shown(now) > Second =>
                    2 * (Shown(now) - left) <= IF left < Minute THEN Second ELSE Minute
               /\ 2 * (left - Shown(now)) <
                    (IF left < Minute THEN Second ELSE Minute) + 2 * Second
    BY DEF ShownIsClose
  <2> HIDE DEF left, rec
  <2>3. /\ Round(rec, Second) \in Int /\ Round(rec, Minute) \in Int
        /\ 2 * rec - Second < 2 * Round(rec, Second)
        /\ 2 * Round(rec, Second) <= 2 * rec + Second
        /\ 2 * rec - Minute < 2 * Round(rec, Minute)
        /\ 2 * Round(rec, Minute) <= 2 * rec + Minute
    BY <2>1, Units, RoundIsNearest
  <2>4. CASE rec >= Minute
    <3>1. Shown(now) = Round(rec, Minute)
      BY <2>1, <2>2, <2>4, ShortInMinutes
    <3>2. left >= Minute
      BY <2>1, <2>4, Units
    <3>3. 2 * Shown(now) > Minute
      BY <2>1, <2>3, <2>4, <3>1, Units
    <3> QED
      BY <2>1, <2>3, <3>1, <3>2, <3>3, Units
  <2>5. CASE rec < Minute
    <3>1. Shown(now) = IF Round(rec, Second) < Second THEN Second ELSE Round(rec, Second)
      BY <2>1, <2>2, <2>5, ShortInSeconds
    <3> QED
      BY <2>1, <2>3, <3>1, Units
  <2> QED
    BY <2>1, <2>4, <2>5, Units
<1>2. Inv => ShownIsClose
  BY <1>1 DEF ShownIsClose
<1> QED
  BY <1>2, Inductive, PTL

\* The time left counts down from the start line on: it never grows, across
\* the change from seconds to minutes and every carry.
THEOREM ShownCountsDown == Spec => ShownNeverGrows
<1>1. ASSUME Inv, Inv', [Next]_vars, hold.kind = "until", hold' = hold
      PROVE  Shown(now') <= Shown(now) /\ Shown(now) <= Announced
  <2>1. start \in Int /\ now \in Int /\ now' \in Int /\ start <= now /\ now <= now'
    <3>1. Parse => FALSE
      BY <1>1 DEF Parse, Parsing
    <3>2. now \in Int /\ now' \in Int
      BY <1>1 DEF Inv
    <3> QED
      BY <1>1, <3>1, <3>2 DEF Inv, Next, Tick, vars
  <2> DEFINE e == hold.expiresAt * Second
  <2>2. e \in Int /\ hold.at \in Int /\ e <= hold.at
    BY <1>1, RecordedIsClose DEF Inv
  <2>3. Shown(now') = InUnits(e - now') /\ Shown(now) = InUnits(e - now)
    BY <1>1 DEF Shown
  <2> HIDE DEF e
  <2>4. InUnits(e - now') <= InUnits(e - now)
    BY <2>1, <2>2, ShortGrows
  <2>5. InUnits(e - now) <= InUnits(hold.at - start)
    BY <2>1, <2>2, ShortGrows
  <2> QED
    BY <2>3, <2>4, <2>5 DEF Announced
<1>2. Inv /\ Inv' /\ [Next]_vars =>
        [hold.kind = "until" /\ hold' = hold =>
           Shown(now') <= Shown(now) /\ Shown(now) <= Announced]_vars
  BY <1>1
<1> QED
  BY <1>2, Inductive, PTL DEF Spec, ShownNeverGrows
=============================================================================
