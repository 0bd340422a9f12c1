------------------------------ MODULE RtcProofs ------------------------------
(***************************************************************************)
(* Theorems about Rtc: the calendar, reading the clock, setting it.        *)
(***************************************************************************)
EXTENDS Rtc, FiniteSetTheorems, WellFoundedInduction, TLAPS

\* A set of numbers that is not empty has a least one.
LEMMA LeastExists ==
  ASSUME NEW S \in SUBSET Nat, S # {}
  PROVE  \E x \in S : \A y \in S : x <= y
<1> DEFINE R == OpToRel(<, Nat)
<1>1. IsWellFoundedOn(R, Nat)
  BY NatLessThanWellFounded
<1>2. \A x, y \in Nat : y < x => <<y, x>> \in R
  BY DEF OpToRel
<1> HIDE DEF R
<1>3. PICK x \in S : \A y \in S : <<y, x>> \notin R
  BY <1>1, WFMin
<1>4. ASSUME NEW y \in S  PROVE x <= y
  <2>1. x \in Nat /\ y \in Nat
    OBVIOUS
  <2>2. ~ (y < x)
    BY <1>2, <1>3, <2>1
  <2> QED
    BY <2>1, <2>2
<1> QED
  BY <1>4

-----------------------------------------------------------------------------
(* Years.                                                                  *)

LeapYears(from, to) == {y \in from .. to : is_leap_year(y)}

\* The days from the first of January of one year to that of another.
Span(from, to) == 365 * (to - from) + Cardinality(LeapYears(from, to - 1))

LEMMA YearLenType ==
  ASSUME NEW year \in Int
  PROVE  YearLen(year) \in {365, 366}
BY DEF YearLen

LEMMA LeapYearsFinite ==
  ASSUME NEW from \in Int, NEW to \in Int
  PROVE  IsFiniteSet(LeapYears(from, to)) /\ Cardinality(LeapYears(from, to)) \in Nat
<1>1. IsFiniteSet(from .. to)
  BY FS_Interval
<1>2. LeapYears(from, to) \in SUBSET (from .. to)
  BY DEF LeapYears
<1>3. IsFiniteSet(LeapYears(from, to))
  BY <1>1, <1>2, FS_Subset
<1> QED
  BY <1>3, FS_CardinalityType

LEMMA SpanEmpty ==
  ASSUME NEW year \in Int
  PROVE  Span(year, year) = 0
<1>1. LeapYears(year, year - 1) = {}
  BY DEF LeapYears
<1>2. Cardinality(LeapYears(year, year - 1)) = 0
  BY <1>1, FS_EmptySet
<1> QED
  BY <1>2 DEF Span

LEMMA SpanFirst ==
  ASSUME NEW from \in Int, NEW to \in Int, from < to
  PROVE  Span(from, to) = YearLen(from) + Span(from + 1, to)
<1> DEFINE rest == LeapYears(from + 1, to - 1)
<1>1. IsFiniteSet(rest) /\ Cardinality(rest) \in Nat /\ from \notin rest
  <2>1. from \notin rest
    BY DEF LeapYears
  <2>2. from + 1 \in Int /\ to - 1 \in Int
    OBVIOUS
  <2> QED
    BY <2>1, <2>2, LeapYearsFinite
<1>2. CASE is_leap_year(from)
  <2>1. LeapYears(from, to - 1) = rest \cup {from}
    BY <1>2 DEF LeapYears
  <2>2. Cardinality(LeapYears(from, to - 1)) = Cardinality(rest) + 1
    BY <1>1, <2>1, FS_AddElement
  <2> QED
    BY <1>1, <1>2, <2>2 DEF Span, YearLen
<1>3. CASE ~ is_leap_year(from)
  <2>1. LeapYears(from, to - 1) = rest
    BY <1>3 DEF LeapYears
  <2> QED
    BY <1>1, <1>3, <2>1 DEF Span, YearLen
<1> QED
  BY <1>2, <1>3

LEMMA SpanLast ==
  ASSUME NEW from \in Int, NEW to \in Int, from <= to
  PROVE  Span(from, to + 1) = Span(from, to) + YearLen(to)
<1> DEFINE rest == LeapYears(from, to - 1)
<1>0. to + 1 - 1 = to
  OBVIOUS
<1>1. IsFiniteSet(rest) /\ Cardinality(rest) \in Nat /\ to \notin rest
  <2>1. to \notin rest
    BY DEF LeapYears
  <2>2. from + 1 \in Int /\ to - 1 \in Int
    OBVIOUS
  <2> QED
    BY <2>1, <2>2, LeapYearsFinite
<1>2. CASE is_leap_year(to)
  <2>1. LeapYears(from, to) = rest \cup {to}
    BY <1>2 DEF LeapYears
  <2>2. Cardinality(LeapYears(from, to)) = Cardinality(rest) + 1
    BY <1>1, <2>1, FS_AddElement
  <2> QED
    BY <1>0, <1>1, <1>2, <2>2 DEF Span, YearLen
<1>3. CASE ~ is_leap_year(to)
  <2>1. LeapYears(from, to) = rest
    BY <1>3 DEF LeapYears
  <2> QED
    BY <1>0, <1>1, <1>3, <2>1 DEF Span, YearLen
<1> QED
  BY <1>2, <1>3

LEMMA SpanType ==
  ASSUME NEW from \in Int, NEW to \in Int, from <= to
  PROVE  Span(from, to) \in Nat
<1>1. Cardinality(LeapYears(from, to - 1)) \in Nat
  BY LeapYearsFinite
<1> QED
  BY <1>1 DEF Span

LEMMA SpanSince ==
  \A year \in Int :
    /\ Cardinality(LeapYears(1970, year - 1)) \in Nat
    /\ Span(MinYear, year) = 365 * (year - 1970) + Cardinality(LeapYears(1970, year - 1))
<1>1. \A from, to \in Int : Cardinality(LeapYears(from, to)) \in Nat
  BY LeapYearsFinite
<1> QED
  BY <1>1 DEF Span, MinYear

LEMMA SpanGrows ==
  ASSUME NEW from \in Int, NEW mid \in Int, NEW to \in Int, from <= mid, mid <= to
  PROVE  Span(from, mid) <= Span(from, to)
<1>1. LeapYears(from, mid - 1) \in SUBSET LeapYears(from, to - 1)
  BY DEF LeapYears
<1>2. /\ Cardinality(LeapYears(from, mid - 1)) <= Cardinality(LeapYears(from, to - 1))
      /\ Cardinality(LeapYears(from, mid - 1)) \in Nat
      /\ Cardinality(LeapYears(from, to - 1)) \in Nat
  BY <1>1, LeapYearsFinite, FS_Subset
<1> QED
  BY <1>2 DEF Span

\* The loop over the years: where it stops, and what is left.
Stops(y, d, r) ==
  /\ r \in Nat \X Nat /\ y <= r[1]
  /\ r[2] = d - Span(y, r[1]) /\ r[2] <= YearLen(r[1])
  /\ r[1] = y \/ r[2] > 0

LEMMA StopsOnce ==
  ASSUME NEW y \in Nat, NEW d \in Nat
  PROVE  /\ d <= YearLen(y) => \A r : Stops(y, d, r) <=> r = <<y, d>>
         /\ d > YearLen(y) =>
              \A r : Stops(y, d, r) <=> Stops(y + 1, d - YearLen(y), r)
<1>0. YearLen(y) \in {365, 366}
  BY YearLenType
<1>1. ASSUME d <= YearLen(y), NEW r  PROVE Stops(y, d, r) <=> r = <<y, d>>
  <2>1. ASSUME r = <<y, d>>  PROVE Stops(y, d, r)
    BY <1>1, <2>1, SpanEmpty DEF Stops
  <2>2. ASSUME Stops(y, d, r)  PROVE r = <<y, d>>
    <3>1. r \in Nat \X Nat /\ r = <<r[1], r[2]>> /\ y <= r[1]
      BY <2>2 DEF Stops
    <3>2. CASE r[1] = y
      BY <2>2, <3>1, <3>2, SpanEmpty DEF Stops
    <3>3. CASE r[1] # y
      <4>1. r[1] \in Nat /\ y < r[1] /\ y + 1 <= r[1] /\ y + 1 \in Int
        BY <3>1, <3>3
      <4>2. Span(y, r[1]) = YearLen(y) + Span(y + 1, r[1]) /\ Span(y + 1, r[1]) \in Nat
        BY <4>1, SpanFirst, SpanType
      <4>3. r[2] = d - Span(y, r[1]) /\ r[2] > 0
        BY <2>2, <3>3 DEF Stops
      <4> QED
        BY <1>0, <1>1, <4>2, <4>3
    <3> QED
      BY <3>2, <3>3
  <2> QED
    BY <2>1, <2>2
<1>2. ASSUME d > YearLen(y), NEW r
      PROVE  Stops(y, d, r) <=> Stops(y + 1, d - YearLen(y), r)
  <2>1. CASE r \in Nat \X Nat /\ y < r[1]
    <3>1. r[1] \in Nat /\ r[2] \in Nat /\ y + 1 <= r[1] /\ y + 1 \in Int
      BY <2>1
    <3>2. Span(y, r[1]) = YearLen(y) + Span(y + 1, r[1]) /\ Span(y + 1, r[1]) \in Nat
      BY <2>1, <3>1, SpanFirst, SpanType
    <3>3. d - Span(y, r[1]) = (d - YearLen(y)) - Span(y + 1, r[1])
      BY <1>0, <3>2
    <3>4. r[1] = y + 1 => (d - YearLen(y)) - Span(y + 1, r[1]) > 0
      BY <1>0, <1>2, SpanEmpty
    <3> QED
      BY <2>1, <3>1, <3>3, <3>4 DEF Stops
  <2>2. CASE ~ (r \in Nat \X Nat /\ y < r[1])
    <3>1. ~ Stops(y + 1, d - YearLen(y), r)
      BY <2>2 DEF Stops
    <3>2. ~ Stops(y, d, r)
      <4> SUFFICES ASSUME Stops(y, d, r)  PROVE FALSE
        OBVIOUS
      <4>1. r[1] = y
        BY <2>2 DEF Stops
      <4>2. r[2] = d /\ r[2] <= YearLen(y)
        BY <4>1, SpanEmpty DEF Stops
      <4> QED
        BY <1>0, <1>2, <4>2
    <3> QED
      BY <3>1, <3>2
  <2> QED
    BY <2>1, <2>2
<1> QED
  BY <1>1, <1>2

YearStep(f, y, d) ==
  IF d > YearLen(y) THEN f[y + 1][d - YearLen(y)] ELSE <<y, d>>

LEMMA YearsLoop ==
  \A y, d \in Nat : afterYears[y][d] = YearStep(afterYears, y, d)
<1> DEFINE Body(f) == [year \in Nat |-> [days \in Nat |->
             IF days > YearLen(year) THEN f[year + 1][days - YearLen(year)]
             ELSE <<year, days>>]]
           g == [year \in Nat |-> [days \in Nat |-> CHOOSE r : Stops(year, days, r)]]
           found == CHOOSE f : f = Body(f)
<1>1. ASSUME NEW y \in Nat, NEW d \in Nat
      PROVE  g[y][d] = YearStep(g, y, d)
  <2>0. YearLen(y) \in {365, 366}
    BY YearLenType
  <2>1. g[y][d] = CHOOSE r : Stops(y, d, r)
    OBVIOUS
  <2>2. CASE d <= YearLen(y)
    <3>1. \A r : Stops(y, d, r) <=> r = <<y, d>>
      BY <2>2, StopsOnce
    <3>2. (CHOOSE r : Stops(y, d, r)) = <<y, d>>
      BY <3>1
    <3> QED
      BY <2>0, <2>1, <2>2, <3>2 DEF YearStep
  <2>3. CASE d > YearLen(y)
    <3>1. y + 1 \in Nat /\ d - YearLen(y) \in Nat
      BY <2>0, <2>3
    <3>2. g[y + 1][d - YearLen(y)] = CHOOSE r : Stops(y + 1, d - YearLen(y), r)
      BY <3>1
    <3>3. \A r : Stops(y, d, r) <=> Stops(y + 1, d - YearLen(y), r)
      BY <2>3, StopsOnce
    <3>4. (CHOOSE r : Stops(y, d, r)) = CHOOSE r : Stops(y + 1, d - YearLen(y), r)
      BY <3>3
    <3> QED
      BY <2>1, <2>3, <3>2, <3>4 DEF YearStep
  <2> QED
    BY <2>0, <2>2, <2>3
<1>2. g = [y \in Nat |-> [d \in Nat |-> g[y][d]]]
  OBVIOUS
<1>3. Body(g) = [y \in Nat |-> [d \in Nat |-> YearStep(g, y, d)]]
  BY DEF YearStep
<1>4. g = Body(g)
  <2> HIDE DEF g, Body
  <2> QED
    BY <1>1, <1>2, <1>3
<1>5. found = Body(found)
  <2> HIDE DEF Body, g
  <2> QED
    BY <1>4
<1>6. afterYears = found
  BY DEF afterYears
<1>7. ASSUME NEW f, f = Body(f), NEW y \in Nat, NEW d \in Nat
      PROVE  f[y][d] = YearStep(f, y, d)
  <2>1. Body(f)[y][d] = YearStep(f, y, d)
    BY DEF YearStep
  <2> HIDE DEF Body
  <2> QED
    BY <1>7, <2>1
<1> QED
  <2> HIDE DEF Body, g, found
  <2> QED
    BY <1>5, <1>6, <1>7

LEMMA YearsRead ==
  \A y, d \in Nat : Stops(y, d, afterYears[y][d])
<1> DEFINE Right(d) == \A y \in Nat : Stops(y, d, afterYears[y][d])
           Wrong == {d \in Nat : ~ Right(d)}
<1>1. SUFFICES ASSUME Wrong # {}  PROVE FALSE
  OBVIOUS
<1>2. PICK d \in Wrong : \A k \in Wrong : d <= k
  <2> HIDE DEF Right
  <2>1. Wrong \in SUBSET Nat
    OBVIOUS
  <2> HIDE DEF Wrong
  <2> QED
    BY <1>1, <2>1, LeastExists
<1>3. PICK y \in Nat : ~ Stops(y, d, afterYears[y][d])
  BY <1>2
<1>4. YearLen(y) \in {365, 366} /\ d \in Nat
  BY <1>2, YearLenType
<1>5. afterYears[y][d] = YearStep(afterYears, y, d)
  BY <1>4, YearsLoop
<1>6. CASE d <= YearLen(y)
  <2>1. afterYears[y][d] = <<y, d>>
    BY <1>4, <1>5, <1>6 DEF YearStep
  <2> QED
    BY <1>3, <1>4, <1>6, <2>1, StopsOnce
<1>7. CASE d > YearLen(y)
  <2>1. y + 1 \in Nat /\ d - YearLen(y) \in Nat /\ ~ (d <= d - YearLen(y))
    BY <1>4, <1>7
  <2>2. Right(d - YearLen(y))
    <3> HIDE DEF Right
    <3> QED
      BY <1>2, <2>1
  <2>3. Stops(y + 1, d - YearLen(y), afterYears[y + 1][d - YearLen(y)])
    BY <2>1, <2>2
  <2>4. afterYears[y][d] = afterYears[y + 1][d - YearLen(y)]
    BY <1>5, <1>7 DEF YearStep
  <2> QED
    BY <1>3, <1>4, <1>7, <2>3, <2>4, StopsOnce
<1> QED
  BY <1>4, <1>6, <1>7

\* The sum over the years.
LEMMA YearsSum ==
  ASSUME NEW year \in Nat, year >= MinYear
  PROVE  daysOfYears[year - 1] = Span(MinYear, year)
<1> DEFINE Body(f) == [y \in Nat |-> IF y < MinYear THEN 0 ELSE YearLen(y) + f[y - 1]]
           g == [y \in Nat |-> IF y < MinYear THEN 0 ELSE Span(MinYear, y + 1)]
           found == CHOOSE f : f = Body(f)
<1>0. MinYear = 1970
  BY DEF MinYear
<1>1. ASSUME NEW y \in Nat  PROVE g[y] = Body(g)[y]
  <2>1. CASE y < MinYear
    BY <2>1
  <2>2. CASE y = MinYear
    <3>1. g[y - 1] = 0 /\ g[y] = Span(MinYear, y + 1)
      BY <1>0, <2>2
    <3>2. Span(MinYear, y + 1) = YearLen(y)
      BY <1>0, <2>2, SpanLast, SpanEmpty, YearLenType
    <3> QED
      BY <1>0, <2>2, <3>1, <3>2, YearLenType
  <2>3. CASE y > MinYear
    <3>1. y - 1 \in Nat /\ ~ (y - 1 < MinYear) /\ y - 1 + 1 = y /\ ~ (y < MinYear)
      BY <1>0, <2>3
    <3>2. g[y - 1] = Span(MinYear, y) /\ g[y] = Span(MinYear, y + 1)
      BY <3>1
    <3>3. Span(MinYear, y + 1) = Span(MinYear, y) + YearLen(y)
      BY <1>0, <2>3, SpanLast
    <3>4. Span(MinYear, y) \in Nat /\ YearLen(y) \in Nat
      <4>1. MinYear \in Int /\ y \in Int /\ MinYear <= y
        BY <1>0, <2>3
      <4>2. Span(MinYear, y) \in Nat
        BY <4>1, SpanType
      <4>3. YearLen(y) \in {365, 366}
        BY <4>1, YearLenType
      <4> QED
        BY <4>2, <4>3
    <3> QED
      BY <3>1, <3>2, <3>3, <3>4
  <2> QED
    BY <1>0, <2>1, <2>2, <2>3
<1>2. g = Body(g)
  <2>1. g = [y \in Nat |-> g[y]] /\ Body(g) = [y \in Nat |-> Body(g)[y]]
    OBVIOUS
  <2> HIDE DEF g, Body
  <2> QED
    BY <1>1, <2>1
<1>3. found = Body(found)
  <2> HIDE DEF Body, g
  <2> QED
    BY <1>2
<1>4. daysOfYears = found
  BY DEF daysOfYears
<1>5. \A y \in Nat : daysOfYears[y] = IF y < MinYear THEN 0 ELSE YearLen(y) + daysOfYears[y - 1]
  <2>1. \A y \in Nat : Body(found)[y] = IF y < MinYear THEN 0 ELSE YearLen(y) + found[y - 1]
    OBVIOUS
  <2> HIDE DEF Body, found
  <2> QED
    BY <1>3, <1>4, <2>1
<1> HIDE DEF Body, g, found
<1> DEFINE Wrong == {y \in Nat : y >= MinYear /\ daysOfYears[y - 1] # Span(MinYear, y)}
<1>6. Wrong = {}
  <2> SUFFICES ASSUME Wrong # {}  PROVE FALSE
    OBVIOUS
  <2>1. PICK y \in Wrong : \A k \in Wrong : y <= k
    <3>1. Wrong \in SUBSET Nat
      OBVIOUS
    <3> HIDE DEF Wrong
    <3> QED
      BY <3>1, LeastExists
  <2>2. CASE y = MinYear
    BY <1>0, <1>5, <2>1, <2>2, SpanEmpty
  <2>3. CASE y # MinYear
    <3>1. y \in Nat /\ y > MinYear /\ y - 1 \in Nat /\ y - 1 >= MinYear /\ y - 1 \notin Wrong
      BY <1>0, <2>1, <2>3
    <3>2. daysOfYears[y - 1 - 1] = Span(MinYear, y - 1)
      BY <3>1
    <3>3. daysOfYears[y - 1] = YearLen(y - 1) + daysOfYears[y - 1 - 1]
      BY <1>0, <1>5, <3>1
    <3>4. Span(MinYear, y - 1 + 1) = Span(MinYear, y - 1) + YearLen(y - 1)
      BY <1>0, <3>1, SpanLast
    <3>5. y - 1 + 1 = y /\ Span(MinYear, y - 1) \in Nat /\ YearLen(y - 1) \in Nat
      <4>1. MinYear \in Int /\ y - 1 \in Int /\ MinYear <= y - 1 /\ y - 1 + 1 = y
        BY <1>0, <3>1
      <4>2. Span(MinYear, y - 1) \in Nat
        BY <4>1, SpanType
      <4>3. YearLen(y - 1) \in {365, 366}
        BY <4>1, YearLenType
      <4> QED
        BY <4>1, <4>2, <4>3
    <3> QED
      BY <2>1, <3>2, <3>3, <3>4, <3>5
  <2> QED
    BY <2>2, <2>3
<1> QED
  BY <1>6

-----------------------------------------------------------------------------
(* Months.                                                                 *)

\* The days before each place of the table.
Sums == [n \in 0 .. 26 |->
  <<0, 0, 31, 59, 90, 120, 151, 181, 212, 243, 273, 304, 334,
    365, 365, 396, 425, 456, 486, 517, 547, 578, 609, 639, 670, 700, 731>>[n + 1]]

LEMMA TableSums ==
  /\ \A i \in 0 .. 25 : month_days[i] \in Nat /\ Sums[i + 1] = Sums[i] + month_days[i]
  /\ \A i \in 0 .. 26 : Sums[i] \in Nat
<1>1. ASSUME NEW i \in 0 .. 25  PROVE month_days[i] \in Nat
  BY DEF month_days
<1>2. ASSUME NEW i \in 0 .. 25  PROVE Sums[i + 1] = Sums[i] + month_days[i]
  BY SMTT(60) DEF month_days, Sums
<1>3. ASSUME NEW i \in 0 .. 26  PROVE Sums[i] \in Nat
  BY DEF Sums
<1>4. \A i \in 0 .. 25 : month_days[i] \in Nat /\ Sums[i + 1] = Sums[i] + month_days[i]
  BY <1>1, <1>2
<1>5. \A i \in 0 .. 26 : Sums[i] \in Nat
  BY <1>3
<1> QED
  BY <1>4, <1>5, Zenon

LEMMA SumsGrow ==
  ASSUME NEW i \in 0 .. 25, NEW j \in 0 .. 25, i <= j
  PROVE  Sums[i] <= Sums[j]
BY SMTT(60) DEF Sums

\* The loop over the table: where it stops, and what is left.
Rests(i, d, r) ==
  /\ r \in (0 .. 25) \X Nat /\ i <= r[1]
  /\ r[2] = d - (Sums[r[1]] - Sums[i])
  /\ r[1] = 25 \/ r[2] <= month_days[r[1]]
  /\ r[1] = i \/ r[2] > 0

GoesOn(i, d) == i < 25 /\ d > month_days[i]

LEMMA RestsOnce ==
  ASSUME NEW i \in 0 .. 25, NEW d \in Nat
  PROVE  /\ ~ GoesOn(i, d) => \A r : Rests(i, d, r) <=> r = <<i, d>>
         /\ GoesOn(i, d) =>
              \A r : Rests(i, d, r) <=> Rests(i + 1, d - month_days[i], r)
<1>0. month_days[i] \in Nat /\ Sums[i] \in Nat
  BY TableSums
<1>1. ASSUME ~ GoesOn(i, d), NEW r  PROVE Rests(i, d, r) <=> r = <<i, d>>
  <2>1. ASSUME r = <<i, d>>  PROVE Rests(i, d, r)
    <3>1. r \in (0 .. 25) \X Nat /\ r[1] = i /\ r[2] = d
      BY <2>1
    <3>2. r[1] = 25 \/ r[2] <= month_days[r[1]]
      BY <1>0, <1>1, <3>1 DEF GoesOn
    <3> QED
      BY <1>0, <3>1, <3>2 DEF Rests
  <2>2. ASSUME Rests(i, d, r)  PROVE r = <<i, d>>
    <3>1. PICK j \in 0 .. 25, rest \in Nat : r = <<j, rest>>
      BY <2>2 DEF Rests
    <3>2. /\ i <= j /\ rest = d - (Sums[j] - Sums[i])
          /\ j = i \/ rest > 0
      BY <2>2, <3>1 DEF Rests
    <3>3. CASE j = i
      BY <1>0, <3>1, <3>2, <3>3
    <3>4. CASE j # i
      <4>1. i \in 0 .. 24 /\ i + 1 \in 0 .. 25 /\ i + 1 <= j
        BY <3>2, <3>4
      <4>2. Sums[i + 1] = Sums[i] + month_days[i] /\ Sums[i + 1] <= Sums[j]
        BY <4>1, TableSums, SumsGrow
      <4>3. d <= month_days[i] /\ Sums[j] \in Nat
        BY <1>0, <1>1, <4>1, TableSums DEF GoesOn
      <4> QED
        BY <1>0, <3>2, <3>4, <4>2, <4>3
    <3> QED
      BY <3>3, <3>4
  <2> QED
    BY <2>1, <2>2
<1>2. ASSUME GoesOn(i, d), NEW r
      PROVE  Rests(i, d, r) <=> Rests(i + 1, d - month_days[i], r)
  <2>0. /\ i + 1 \in 0 .. 25 /\ i \in 0 .. 24 /\ d > month_days[i]
        /\ Sums[i + 1] = Sums[i] + month_days[i]
    BY <1>0, <1>2, TableSums DEF GoesOn
  <2>1. CASE r \in (0 .. 25) \X Nat /\ i < r[1]
    <3>1. PICK j \in 0 .. 25, rest \in Nat : r = <<j, rest>> /\ i < j
      BY <2>1
    <3>2. Sums[j] \in Nat /\ i + 1 <= j
      BY <3>1, TableSums
    <3>3. d - (Sums[j] - Sums[i]) = (d - month_days[i]) - (Sums[j] - Sums[i + 1])
      BY <1>0, <2>0, <3>2
    <3>4. j = i + 1 => (d - month_days[i]) - (Sums[j] - Sums[i + 1]) > 0
      BY <1>0, <2>0, <3>2
    <3> QED
      BY <3>1, <3>2, <3>3, <3>4 DEF Rests
  <2>2. CASE ~ (r \in (0 .. 25) \X Nat /\ i < r[1])
    <3>1. ~ Rests(i + 1, d - month_days[i], r)
      BY <2>2 DEF Rests
    <3>2. ~ Rests(i, d, r)
      <4> SUFFICES ASSUME Rests(i, d, r)  PROVE FALSE
        OBVIOUS
      <4>1. r[1] = i
        BY <2>2 DEF Rests
      <4>2. r[2] = d /\ r[2] <= month_days[i]
        BY <1>0, <2>0, <4>1 DEF Rests
      <4> QED
        BY <1>0, <2>0, <4>2
    <3> QED
      BY <3>1, <3>2
  <2> QED
    BY <2>1, <2>2
<1> QED
  BY <1>1, <1>2

MonthStep(f, i, d) ==
  IF GoesOn(i, d) THEN f[i + 1][d - month_days[i]] ELSE <<i, d>>

LEMMA MonthsLoop ==
  \A i \in 0 .. 25, d \in Nat : afterMonths[i][d] = MonthStep(afterMonths, i, d)
<1> DEFINE Body(f) == [i \in 0 .. 25 |-> [days \in Nat |->
             IF i < 25 /\ days > month_days[i] THEN f[i + 1][days - month_days[i]]
             ELSE <<i, days>>]]
           g == [i \in 0 .. 25 |-> [days \in Nat |-> CHOOSE r : Rests(i, days, r)]]
           found == CHOOSE f : f = Body(f)
<1>1. ASSUME NEW i \in 0 .. 25, NEW d \in Nat
      PROVE  g[i][d] = MonthStep(g, i, d)
  <2>0. month_days[i] \in Nat
    BY TableSums
  <2>1. g[i][d] = CHOOSE r : Rests(i, d, r)
    OBVIOUS
  <2>2. CASE ~ GoesOn(i, d)
    <3>1. \A r : Rests(i, d, r) <=> r = <<i, d>>
      BY <2>2, RestsOnce
    <3>2. (CHOOSE r : Rests(i, d, r)) = <<i, d>>
      BY <3>1
    <3> QED
      BY <2>1, <2>2, <3>2 DEF MonthStep
  <2>3. CASE GoesOn(i, d)
    <3>1. i + 1 \in 0 .. 25 /\ d - month_days[i] \in Nat
      BY <2>0, <2>3 DEF GoesOn
    <3>2. g[i + 1][d - month_days[i]] = CHOOSE r : Rests(i + 1, d - month_days[i], r)
      BY <3>1
    <3>3. \A r : Rests(i, d, r) <=> Rests(i + 1, d - month_days[i], r)
      BY <2>3, RestsOnce
    <3>4. (CHOOSE r : Rests(i, d, r)) = CHOOSE r : Rests(i + 1, d - month_days[i], r)
      BY <3>3
    <3> QED
      BY <2>1, <2>3, <3>2, <3>4 DEF MonthStep
  <2> QED
    BY <2>2, <2>3
<1>2. g = [i \in 0 .. 25 |-> [d \in Nat |-> g[i][d]]]
  OBVIOUS
<1>3. Body(g) = [i \in 0 .. 25 |-> [d \in Nat |-> MonthStep(g, i, d)]]
  BY DEF MonthStep, GoesOn
<1>4. g = Body(g)
  <2> HIDE DEF g, Body
  <2> QED
    BY <1>1, <1>2, <1>3
<1>5. found = Body(found)
  <2> HIDE DEF Body, g
  <2> QED
    BY <1>4
<1>6. afterMonths = found
  BY DEF afterMonths
<1>7. ASSUME NEW f, f = Body(f), NEW i \in 0 .. 25, NEW d \in Nat
      PROVE  f[i][d] = MonthStep(f, i, d)
  <2>1. Body(f)[i][d] = MonthStep(f, i, d)
    BY DEF MonthStep, GoesOn
  <2> HIDE DEF Body
  <2> QED
    BY <1>7, <2>1
<1> QED
  <2> HIDE DEF Body, g, found
  <2> QED
    BY <1>5, <1>6, <1>7

LEMMA MonthsRead ==
  \A i \in 0 .. 25, d \in Nat : Rests(i, d, afterMonths[i][d])
<1> DEFINE Right(k) == \A d \in Nat : Rests(25 - k, d, afterMonths[25 - k][d])
           Wrong == {k \in 0 .. 25 : ~ Right(k)}
<1>1. Wrong = {}
  <2> SUFFICES ASSUME Wrong # {}  PROVE FALSE
    OBVIOUS
  <2>1. PICK k \in Wrong : \A n \in Wrong : k <= n
    <3> HIDE DEF Right
    <3>1. Wrong \in SUBSET Nat
      OBVIOUS
    <3> HIDE DEF Wrong
    <3> QED
      BY <3>1, LeastExists
  <2>2. PICK d \in Nat : ~ Rests(25 - k, d, afterMonths[25 - k][d])
    BY <2>1
  <2> DEFINE i == 25 - k
  <2>3. i \in 0 .. 25 /\ month_days[i] \in Nat
    BY <2>1, TableSums
  <2>4. afterMonths[i][d] = MonthStep(afterMonths, i, d)
    <3> HIDE DEF i
    <3> QED
      BY <2>3, MonthsLoop
  <2>5. CASE ~ GoesOn(i, d)
    <3> HIDE DEF i
    <3>1. afterMonths[i][d] = <<i, d>>
      BY <2>4, <2>5 DEF MonthStep
    <3>2. Rests(i, d, afterMonths[i][d])
      BY <2>3, <2>5, <3>1, RestsOnce
    <3> QED
      BY <2>2, <3>2 DEF i
  <2>6. CASE GoesOn(i, d)
    <3>1. k - 1 \in 0 .. 25 /\ k - 1 \notin Wrong /\ i + 1 = 25 - (k - 1)
      <4> HIDE DEF Right
      <4>1. k \in 0 .. 25 /\ k > 0
        BY <2>1, <2>6 DEF GoesOn
      <4> QED
        BY <2>1, <4>1
    <3>2. Right(k - 1)
      <4> HIDE DEF Right
      <4> QED
        BY <3>1
    <3>3. d - month_days[i] \in Nat
      BY <2>3, <2>6 DEF GoesOn
    <3>4. Rests(i + 1, d - month_days[i], afterMonths[i + 1][d - month_days[i]])
      BY <3>1, <3>2, <3>3
    <3> HIDE DEF i
    <3>5. afterMonths[i][d] = afterMonths[i + 1][d - month_days[i]]
      BY <2>4, <2>6 DEF MonthStep
    <3>6. Rests(i, d, afterMonths[i][d])
      BY <2>3, <2>6, <3>4, <3>5, RestsOnce
    <3> QED
      BY <2>2, <3>6 DEF i
  <2> QED
    BY <2>5, <2>6
<1>2. ASSUME NEW i \in 0 .. 25, NEW d \in Nat  PROVE Rests(i, d, afterMonths[i][d])
  <2>1. 25 - i \in 0 .. 25 /\ 25 - (25 - i) = i
    OBVIOUS
  <2>2. Right(25 - i)
    <3> HIDE DEF Right
    <3> QED
      BY <1>1, <2>1
  <2> QED
    BY <2>1, <2>2
<1> QED
  BY <1>2

\* The first days of the months.
LEMMA MonthStarts ==
  ASSUME NEW leap \in BOOLEAN, NEW mon \in 0 .. 11
  PROVE  <<0, 31, 59, 90, 120, 151, 181, 212, 243, 273, 304, 334>>[mon + 1]
         + (IF mon > 1 /\ leap THEN 1 ELSE 0)
         = Sums[Row(leap) + mon + 1] - Sums[Row(leap) + 1]
<1>1. CASE leap
  BY <1>1, SMTT(60) DEF Sums, Row
<1>2. CASE ~ leap
  BY <1>2, SMTT(60) DEF Sums, Row
<1> QED
  BY <1>1, <1>2

LEMMA MonthsSum ==
  ASSUME NEW leap \in BOOLEAN, NEW months \in 0 .. 12
  PROVE  daysOfMonths(leap, months) = Sums[Row(leap) + months + 1] - Sums[Row(leap) + 1]
<1> DEFINE Body(f) == [mon \in 0 .. 12 |->
                         IF mon = 0 THEN 0 ELSE MonthLen(leap, mon) + f[mon - 1]]
           g == [mon \in 0 .. 12 |-> Sums[Row(leap) + mon + 1] - Sums[Row(leap) + 1]]
           found == CHOOSE f : f = Body(f)
<1>0. Row(leap) \in {0, 13}
  BY DEF Row
<1>1. ASSUME NEW mon \in 1 .. 12
      PROVE  /\ Row(leap) + mon \in 0 .. 25
             /\ MonthLen(leap, mon) \in Nat /\ Sums[Row(leap) + mon] \in Nat
             /\ Sums[Row(leap) + mon + 1] = Sums[Row(leap) + mon] + MonthLen(leap, mon)
  <2>1. Row(leap) + mon \in 0 .. 25 /\ Row(leap) + mon \in 0 .. 26
    BY <1>0
  <2> QED
    BY <2>1, TableSums DEF MonthLen
<1>2. Row(leap) + 1 \in 0 .. 26 /\ Sums[Row(leap) + 1] \in Nat
  BY <1>0, TableSums
<1>3. ASSUME NEW mon \in 0 .. 12  PROVE g[mon] = Body(g)[mon]
  <2>1. CASE mon = 0
    BY <1>0, <1>2, <2>1
  <2>2. CASE mon # 0
    <3>1. mon \in 1 .. 12 /\ mon - 1 \in 0 .. 12 /\ Row(leap) + (mon - 1) + 1 = Row(leap) + mon
      BY <1>0, <2>2
    <3>2. g[mon - 1] = Sums[Row(leap) + mon] - Sums[Row(leap) + 1]
      BY <3>1
    <3>3. g[mon] = Sums[Row(leap) + mon + 1] - Sums[Row(leap) + 1]
      OBVIOUS
    <3>4. Body(g)[mon] = MonthLen(leap, mon) + g[mon - 1]
      BY <2>2
    <3> HIDE DEF g, Body
    <3> QED
      BY <1>1, <1>2, <3>1, <3>2, <3>3, <3>4
  <2> QED
    BY <2>1, <2>2
<1>4. g = Body(g)
  <2>1. g = [mon \in 0 .. 12 |-> g[mon]] /\ Body(g) = [mon \in 0 .. 12 |-> Body(g)[mon]]
    OBVIOUS
  <2> HIDE DEF g, Body
  <2> QED
    BY <1>3, <2>1
<1>5. found = Body(found)
  <2> HIDE DEF Body, g
  <2> QED
    BY <1>4
<1>6. daysOfMonths(leap, months) = found[months]
  BY DEF daysOfMonths
<1>7. found[0] = 0 /\ \A mon \in 1 .. 12 : found[mon] = MonthLen(leap, mon) + found[mon - 1]
  <2>1. /\ Body(found)[0] = 0
        /\ \A mon \in 1 .. 12 : Body(found)[mon] = MonthLen(leap, mon) + found[mon - 1]
    OBVIOUS
  <2> HIDE DEF Body, found
  <2> QED
    BY <1>5, <2>1
<1> HIDE DEF Body, found
<1> DEFINE Right(mon) == found[mon] = g[mon]
           Wrong == {mon \in 0 .. 12 : ~ Right(mon)}
<1>8. Wrong = {}
  <2> SUFFICES ASSUME Wrong # {}  PROVE FALSE
    OBVIOUS
  <2>1. PICK mon \in Wrong : \A k \in Wrong : mon <= k
    <3> HIDE DEF Right
    <3>1. Wrong \in SUBSET Nat
      OBVIOUS
    <3> HIDE DEF Wrong
    <3> QED
      BY <3>1, LeastExists
  <2>2. g[0] = 0 /\ mon \in 0 .. 12
    BY <1>0, <1>2, <2>1
  <2> HIDE DEF g
  <2>3. mon \in 1 .. 12 /\ mon - 1 \in 0 .. 12 /\ mon - 1 \notin Wrong
    BY <1>7, <2>1, <2>2
  <2>4. found[mon - 1] = g[mon - 1]
    BY <2>3
  <2>5. g[mon] = MonthLen(leap, mon) + g[mon - 1]
    <3>1. g[mon] = Body(g)[mon]
      BY <1>3, <2>2
    <3> QED
      BY <2>3, <3>1 DEF Body
  <2> QED
    BY <1>7, <2>1, <2>3, <2>4, <2>5
<1>9. Right(months)
  <2> HIDE DEF Right
  <2> QED
    BY <1>8
<1> QED
  BY <1>6, <1>9

-----------------------------------------------------------------------------
(* Dates.                                                                  *)

\* The number of a day, out of the two sums.
LEMMA RefDayIs ==
  ASSUME NEW tm, NEW year \in Int, tm.year + 1900 = year,
         tm.mon \in 0 .. 11, tm.mday \in Int
  PROVE  LET row == Row(is_leap_year(year)) IN
         /\ RefDay(tm) = Span(MinYear, year) + (Sums[row + tm.mon + 1] - Sums[row + 1]) + tm.mday
         /\ row + tm.mon + 1 \in 0 .. 25 /\ row + 1 \in 0 .. 25
         /\ Sums[row + tm.mon + 1] \in Nat /\ Sums[row + 1] \in Nat
         /\ Span(MinYear, year) \in Int
<1> DEFINE leap == is_leap_year(year)
           row == Row(leap)
           mon == tm.mon
           start == <<0, 31, 59, 90, 120, 151, 181, 212, 243, 273, 304, 334>>[mon + 1]
           extra == IF mon > 1 /\ leap THEN 1 ELSE 0
<1>1. leap \in BOOLEAN
  BY DEF is_leap_year
<1>2. row \in {0, 13} /\ mon \in 0 .. 11
  BY DEF Row
<1>3. row + mon + 1 \in 0 .. 25 /\ row + 1 \in 0 .. 25
  <2> HIDE DEF row, mon
  <2> QED
    BY <1>2
<1>4. Sums[row + mon + 1] \in Nat /\ Sums[row + 1] \in Nat
  <2> HIDE DEF row, mon
  <2> QED
    BY <1>3, TableSums
<1>5. start + extra = Sums[row + mon + 1] - Sums[row + 1]
  <2> HIDE DEF leap, mon
  <2> QED
    BY <1>1, <1>2, MonthStarts
<1>6. extra \in Nat
  OBVIOUS
<1>7. start \in Nat
  <2> HIDE DEF mon
  <2> QED
    BY <1>2
<1>8. LeapYears(1970, year - 1) = {y \in 1970 .. year - 1 : is_leap_year(y)}
  BY DEF LeapYears
<1>9. RefDay(tm) = 365 * (year - 1970) + Cardinality(LeapYears(1970, year - 1))
                   + start + extra + tm.mday
  <2>1. RefDay(tm) = 365 * ((tm.year + 1900) - 1970)
                     + Cardinality({y \in 1970 .. (tm.year + 1900) - 1 : is_leap_year(y)})
                     + start + (IF mon > 1 /\ is_leap_year(tm.year + 1900) THEN 1 ELSE 0)
                     + tm.mday
    BY Zenon DEF RefDay
  <2> QED
    <3> HIDE DEF start, mon, leap
    <3>1. extra = IF mon > 1 /\ is_leap_year(tm.year + 1900) THEN 1 ELSE 0
      BY DEF leap
    <3> HIDE DEF extra
    <3> QED
      BY <1>8, <2>1, <3>1
<1>10. /\ Cardinality(LeapYears(1970, year - 1)) \in Nat
       /\ Span(MinYear, year) = 365 * (year - 1970) + Cardinality(LeapYears(1970, year - 1))
  BY SpanSince
<1>11. RefDay(tm) = Span(MinYear, year) + (start + extra) + tm.mday
  <2> HIDE DEF start, extra
  <2> QED
    BY <1>6, <1>7, <1>9, <1>10
<1>12. Span(MinYear, year) \in Int
  BY <1>10
<1> QED
  BY <1>3, <1>4, <1>5, <1>11, <1>12

\* What hal_rtc_settime writes is the number of the day it was asked for.
LEMMA SetDayIs ==
  ASSUME NEW tm, tm.year + 1900 \in MinYear .. MaxYear,
         tm.mon \in 0 .. 11, tm.mday \in Nat
  PROVE  SetDay(tm) = RefDay(tm) /\ SetDay(tm) \in Nat
<1> DEFINE year == tm.year + 1900
           row == Row(is_leap_year(year))
           mon == tm.mon
<1>1. year \in Nat /\ year \in Int /\ year >= MinYear
  BY DEF MinYear, MaxYear
<1>2. is_leap_year(year) \in BOOLEAN /\ mon \in 0 .. 12
  BY DEF is_leap_year
<1>3. SetDay(tm) = tm.mday + daysOfMonths(is_leap_year(year), mon) + daysOfYears[year - 1]
  BY DEF SetDay
<1>4. daysOfMonths(is_leap_year(year), mon) = Sums[row + mon + 1] - Sums[row + 1]
  <2> HIDE DEF year, mon
  <2> QED
    BY <1>2, MonthsSum
<1>5. daysOfYears[year - 1] = Span(MinYear, year)
  <2> HIDE DEF year, mon
  <2> QED
    BY <1>1, YearsSum
<1>6. /\ RefDay(tm) = Span(MinYear, year) + (Sums[row + mon + 1] - Sums[row + 1]) + tm.mday
      /\ Sums[row + mon + 1] \in Nat /\ Sums[row + 1] \in Nat
      /\ row + mon + 1 \in 0 .. 25 /\ row + 1 \in 0 .. 25
  BY <1>1, RefDayIs
<1> HIDE DEF year, mon, row
<1>7. Span(MinYear, year) \in Nat
  BY <1>1, SpanType DEF MinYear
<1>8. Sums[row + 1] <= Sums[row + mon + 1]
  <2>1. \A i, j \in 0 .. 25 : i <= j => Sums[i] <= Sums[j]
    BY SumsGrow
  <2>2. row + 1 <= row + mon + 1
    BY <1>2 DEF row, Row
  <2> QED
    BY <1>6, <2>1, <2>2
<1> QED
  BY <1>3, <1>4, <1>5, <1>6, <1>7, <1>8

\* Before 2300, whose February the table of leap years would give a day too
\* many, every readable day is read as the date it is the number of.
LEMMA DateIs ==
  ASSUME NEW day \in Nat, Readable(day)
  PROVE  LET tm == day_to_ymd(day) IN
         /\ tm.year \in Nat /\ tm.year >= 70 /\ tm.mon \in 0 .. 11
         /\ tm.mday \in 1 .. MonthLen(is_leap_year(tm.year + 1900), tm.mon + 1)
         /\ RefDay(tm) = day
<1>0. MinYear = 1970 /\ day > 0
  BY DEF MinYear, Readable, Misread
<1>1. PICK year \in Nat, d \in Nat :
        /\ afterYears[MinYear][day] = <<year, d>>
        /\ MinYear <= year /\ d = day - Span(MinYear, year) /\ d <= YearLen(year)
        /\ d > 0
  <2>1. MinYear \in Nat /\ Span(MinYear, MinYear) = 0
    BY <1>0, SpanEmpty
  <2>2. Stops(MinYear, day, afterYears[MinYear][day])
    BY <2>1, YearsRead
  <2>3. PICK year \in Nat, d \in Nat : afterYears[MinYear][day] = <<year, d>>
    BY <2>2 DEF Stops
  <2>4. /\ MinYear <= year /\ d = day - Span(MinYear, year) /\ d <= YearLen(year)
        /\ year = MinYear \/ d > 0
    BY <2>2, <2>3 DEF Stops
  <2> QED
    BY <1>0, <2>1, <2>3, <2>4
<1>2. year < 2300
  <2> SUFFICES ASSUME 2300 <= year  PROVE FALSE
    BY <1>1
  <2> DEFINE tm == [year |-> 400, mon |-> 0, mday |-> 1]
             row == Row(is_leap_year(2300))
  <2>1. /\ RefDay(tm) = Span(MinYear, 2300) + (Sums[row + tm.mon + 1] - Sums[row + 1]) + tm.mday
        /\ Sums[row + tm.mon + 1] \in Nat /\ Sums[row + 1] \in Nat
        /\ Span(MinYear, 2300) \in Int
    <3>1. tm.year + 1900 = 2300 /\ tm.mon \in 0 .. 11 /\ tm.mday \in Int /\ 2300 \in Int
      OBVIOUS
    <3> HIDE DEF tm
    <3> QED
      BY <3>1, RefDayIs
  <2>2. row \in Nat /\ row + tm.mon + 1 = row + 1 /\ tm.mday = 1
    BY DEF Row
  <2>3. Span(MinYear, 2300) <= Span(MinYear, year)
    BY <1>0, <1>1, SpanGrows
  <2>4. Span(MinYear, year) \in Int
    BY <1>0, <1>1, SpanType
  <2>5. day < RefDay(tm)
    BY DEF Readable
  <2> HIDE DEF tm, row
  <2> QED
    BY <1>1, <2>1, <2>2, <2>3, <2>4, <2>5
<1> DEFINE leap == is_leap_year(year)
           row == LeapRow(year)
           tm == day_to_ymd(day)
<1>3. row \in {0, 13} /\ leap \in BOOLEAN
  BY DEF LeapRow, Row, is_leap_year
<1>4. IF year = 2000 THEN row = 0 /\ leap ELSE row = Row(leap)
  BY <1>0, <1>1, <1>2 DEF LeapRow, Row, is_leap_year
<1>5. PICK j \in 0 .. 25, rest \in Nat :
        /\ afterMonths[row + 1][d] = <<j, rest>>
        /\ row + 1 <= j /\ rest = d - (Sums[j] - Sums[row + 1])
        /\ j = 25 \/ rest <= month_days[j]
        /\ rest > 0
  <2> HIDE DEF row
  <2>1. row + 1 \in 0 .. 25 /\ Sums[row + 1] \in Nat
    BY <1>3, TableSums
  <2>2. Rests(row + 1, d, afterMonths[row + 1][d])
    BY <2>1, MonthsRead
  <2>3. PICK j \in 0 .. 25, rest \in Nat : afterMonths[row + 1][d] = <<j, rest>>
    BY <2>2 DEF Rests
  <2>4. /\ row + 1 <= j /\ rest = d - (Sums[j] - Sums[row + 1])
        /\ j = 25 \/ rest <= month_days[j]
        /\ j = row + 1 \/ rest > 0
    BY <2>2, <2>3 DEF Rests
  <2> QED
    BY <1>1, <2>1, <2>3, <2>4
<1>6. tm.year = year - 1900 /\ tm.mon = j - row - 1 /\ tm.mday = rest
  BY <1>0, <1>1, <1>5 DEF day_to_ymd
<1>7. Sums[j] \in Nat /\ Sums[row + 1] \in Nat /\ row + 1 \in 0 .. 26
  BY <1>3, TableSums
<1> HIDE DEF tm, row, leap
<1>8. CASE year # 2000
  <2>1. row = Row(leap) /\ YearLen(year) = Sums[row + 13] - Sums[row + 1]
    <3>1. CASE leap
      BY <1>4, <1>8, <3>1 DEF Row, YearLen, Sums, leap
    <3>2. CASE ~ leap
      BY <1>4, <1>8, <3>2 DEF Row, YearLen, Sums, leap
    <3> QED
      BY <3>1, <3>2
  <2>2. j < row + 13
    <3> SUFFICES ASSUME row + 13 <= j  PROVE FALSE
      BY <1>3
    <3>1. row + 13 \in 0 .. 25
      BY <1>3
    <3>2. Sums[row + 13] <= Sums[j] /\ Sums[row + 13] \in Nat
      <4>1. \A k \in 0 .. 25 : k <= j => Sums[k] <= Sums[j]
        BY SumsGrow
      <4> QED
        BY <3>1, <4>1, TableSums
    <3> QED
      BY <1>1, <1>5, <1>7, <2>1, <3>2
  <2>3. rest <= month_days[j]
    <3>1. CASE j = 25
      <4>1. row = 13 /\ YearLen(year) = 366 /\ Sums[25] = 700 /\ Sums[14] = 365
            /\ month_days[25] = 31
        BY <1>3, <2>1, <2>2, <3>1 DEF Sums, month_days
      <4> QED
        BY <1>1, <1>5, <3>1, <4>1
    <3> QED
      BY <1>5, <3>1
  <2>4. row + tm.mon + 1 = j /\ tm.mon \in 0 .. 11 /\ tm.mday = rest
    BY <1>3, <1>5, <1>6, <2>2
  <2>5. tm.year + 1900 = year /\ tm.year \in Nat /\ tm.year >= 70
    BY <1>0, <1>1, <1>6
  <2>6. MonthLen(is_leap_year(tm.year + 1900), tm.mon + 1) = month_days[j]
    <3>1. row + (tm.mon + 1) = j
      BY <1>3, <2>4
    <3> QED
      BY <2>1, <2>5, <3>1 DEF MonthLen, leap
  <2>7. /\ RefDay(tm) = Span(MinYear, year) + (Sums[row + tm.mon + 1] - Sums[row + 1]) + tm.mday
        /\ Span(MinYear, year) \in Int
    <3>1. year \in Int /\ tm.mday \in Int
      BY <2>4
    <3> QED
      BY <2>1, <2>4, <2>5, <3>1, RefDayIs DEF leap
  <2>8. RefDay(tm) = day
    BY <1>1, <1>5, <1>7, <2>4, <2>7
  <2>9. tm.mday \in 1 .. MonthLen(is_leap_year(tm.year + 1900), tm.mon + 1)
    BY <1>5, <2>3, <2>4, <2>6, TableSums
  <2> QED
    BY <2>4, <2>5, <2>8, <2>9 DEF tm
<1>9. CASE year = 2000
  <2> DEFINE first == [year |-> 100, mon |-> 1, mday |-> 29]
             end == [year |-> 100, mon |-> 11, mday |-> 31]
  <2>1. row = 0 /\ leap = TRUE /\ Row(TRUE) = 13 /\ YearLen(2000) = 366
    BY <1>4, <1>9 DEF leap, Row, YearLen
  <2>2. /\ Sums[1] = 0 /\ Sums[2] = 31 /\ Sums[3] = 59
        /\ Sums[14] = 365 /\ Sums[15] = 396 /\ Sums[25] = 700
        /\ month_days[1] = 31 /\ month_days[2] = 28 /\ month_days[14] = 31 /\ month_days[15] = 29
    BY DEF Sums, month_days
  <2>3. \A t : t.year + 1900 = 2000 /\ t.mon \in 0 .. 11 /\ t.mday \in Int =>
          /\ RefDay(t) = Span(MinYear, 2000) + (Sums[14 + t.mon] - 365) + t.mday
          /\ Span(MinYear, 2000) \in Int
    <3> SUFFICES ASSUME NEW t, t.year + 1900 = 2000, t.mon \in 0 .. 11, t.mday \in Int
                 PROVE  /\ RefDay(t) = Span(MinYear, 2000) + (Sums[14 + t.mon] - 365) + t.mday
                        /\ Span(MinYear, 2000) \in Int
      OBVIOUS
    <3>1. is_leap_year(2000) = TRUE /\ 2000 \in Int
      BY <1>9, <2>1 DEF leap
    <3>2. 13 + t.mon + 1 = 14 + t.mon /\ 13 + 1 = 14
      OBVIOUS
    <3> DEFINE r == Row(is_leap_year(2000))
    <3>3. /\ RefDay(t) = Span(MinYear, 2000) + (Sums[r + t.mon + 1] - Sums[r + 1]) + t.mday
          /\ Span(MinYear, 2000) \in Int
      BY <3>1, RefDayIs
    <3>4. r = 13
      BY <3>1 DEF Row
    <3> HIDE DEF r
    <3> QED
      BY <2>2, <3>2, <3>3, <3>4
  <2>4. /\ RefDay(first) = Span(MinYear, 2000) + 60
        /\ RefDay(end) = Span(MinYear, 2000) + 366
        /\ Span(MinYear, 2000) \in Int
    <3>1. /\ first.year + 1900 = 2000 /\ first.mon \in 0 .. 11 /\ first.mday \in Int
          /\ end.year + 1900 = 2000 /\ end.mon \in 0 .. 11 /\ end.mday \in Int
          /\ first.mon = 1 /\ first.mday = 29 /\ end.mon = 11 /\ end.mday = 31
      OBVIOUS
    <3> HIDE DEF first, end
    <3> QED
      BY <2>2, <2>3, <3>1
  <2>5. ~ (RefDay(first) <= day /\ day <= RefDay(end))
    <3>1. day \notin RefDay(first) .. RefDay(end)
      BY DEF Readable, Misread
    <3> HIDE DEF first, end
    <3> QED
      BY <2>4, <3>1
  <2> HIDE DEF first, end
  <2>6. d < 60
    BY <1>1, <1>9, <2>1, <2>4, <2>5
  <2>7. j \in {1, 2}
    <3> SUFFICES ASSUME 3 <= j  PROVE FALSE
      BY <1>5, <2>1
    <3>1. Sums[3] <= Sums[j]
      BY SumsGrow
    <3> QED
      BY <1>5, <1>7, <2>1, <2>2, <2>6, <3>1
  <2>8. tm.mon = j - 1 /\ tm.mday = rest /\ tm.year = 100 /\ tm.mon \in 0 .. 11
    BY <1>6, <1>9, <2>1, <2>7
  <2>9. Sums[14 + tm.mon] - 365 = Sums[j] - Sums[row + 1]
    BY <2>1, <2>2, <2>7, <2>8
  <2>10. RefDay(tm) = day
    <3>1. RefDay(tm) = Span(MinYear, 2000) + (Sums[14 + tm.mon] - 365) + tm.mday
      BY <2>3, <2>8
    <3> QED
      BY <1>1, <1>5, <1>7, <1>9, <2>4, <2>8, <2>9, <3>1
  <2>11. tm.mday \in 1 .. MonthLen(is_leap_year(tm.year + 1900), tm.mon + 1)
    <3>1. rest <= month_days[j] /\ is_leap_year(tm.year + 1900)
      BY <1>5, <1>9, <2>1, <2>7, <2>8 DEF leap
    <3>2. MonthLen(is_leap_year(tm.year + 1900), tm.mon + 1) = month_days[13 + j]
      <4>1. is_leap_year(tm.year + 1900) = TRUE /\ tm.mon + 1 = j
        BY <2>7, <2>8, <3>1 DEF is_leap_year
      <4>2. Row(is_leap_year(tm.year + 1900)) = 13
        BY <4>1 DEF Row
      <4> QED
        BY <4>1, <4>2 DEF MonthLen
    <3>3. rest \in Nat /\ rest <= month_days[13 + j] /\ month_days[13 + j] \in Nat
      BY <1>5, <2>2, <2>7, <3>1
    <3> QED
      BY <1>5, <2>8, <3>2, <3>3
  <2> QED
    BY <2>8, <2>10, <2>11 DEF tm
<1> QED
  BY <1>8, <1>9

\* What is read of any day is a number, readable or not.
LEMMA DateType ==
  ASSUME NEW day \in Nat
  PROVE  day_to_ymd(day).mday \in Int
<1>0. MinYear \in Nat /\ \A y : LeapRow(y) \in {0, 13}
  BY DEF MinYear, LeapRow, Row
<1>1. PICK year \in Nat, d \in Nat : afterYears[MinYear][day] = <<year, d>>
  <2>1. Stops(MinYear, day, afterYears[MinYear][day])
    BY <1>0, YearsRead
  <2> QED
    BY <2>1 DEF Stops
<1> DEFINE row == LeapRow(year)
<1>2. PICK j \in 0 .. 25, rest \in Nat : afterMonths[row + 1][d] = <<j, rest>>
  <2>1. row + 1 \in 0 .. 25
    BY <1>0
  <2> HIDE DEF row
  <2>2. Rests(row + 1, d, afterMonths[row + 1][d])
    BY <2>1, MonthsRead
  <2> QED
    BY <2>2 DEF Rests
<1>3. CASE day = 0
  BY <1>3, LastDateAssumption DEF day_to_ymd
<1>4. CASE day # 0
  BY <1>1, <1>2, <1>4 DEF day_to_ymd
<1> QED
  BY <1>3, <1>4

-----------------------------------------------------------------------------
(* Moments.                                                                *)

\* The next second, and the days that pass with it.
LEMMA NextSecond ==
  ASSUME NEW sec \in Seconds
  PROVE  (sec + 1) % SEC_IN_DAY = IF sec + 1 = SEC_IN_DAY THEN 0 ELSE sec + 1
<1>1. SEC_IN_DAY \in Nat \ {0} /\ sec \in Nat /\ sec < SEC_IN_DAY
  BY DayAssumption DEF Seconds
<1>2. \A n \in Nat \ {0}, k \in Nat : k < n => k % n = k
  OBVIOUS
<1>3. \A n \in Nat \ {0} : n % n = 0
  OBVIOUS
<1> QED
  BY <1>1, <1>2, <1>3

LEMMA AtNext ==
  ASSUME NEW day \in Int, NEW sec \in Int
  PROVE  /\ At(day, sec) \in Int
         /\ At(day, sec + 1) = At(day, sec) + 1
         /\ At(day + 1, 0) = At(day, SEC_IN_DAY)
         /\ At(day, 0) = At(day, SEC_IN_DAY) - SEC_IN_DAY
BY DayAssumption DEF At

LEMMA AtOnce ==
  ASSUME NEW day1 \in Int, NEW day2 \in Int, NEW sec1 \in Seconds, NEW sec2 \in Seconds,
         At(day1, sec1) = At(day2, sec2)
  PROVE  day1 = day2 /\ sec1 = sec2
<1>1. /\ SEC_IN_DAY \in Nat \ {0} /\ sec1 \in Nat /\ sec2 \in Nat
      /\ sec1 < SEC_IN_DAY /\ sec2 < SEC_IN_DAY
  BY DayAssumption DEF Seconds
<1>2. \A a, b \in Int, n \in Nat : a < b => a * n + n <= b * n
  <2>1. \A a, b \in Int, n \in Nat : a < b => (b - a - 1) * n >= 0
    OBVIOUS
  <2>2. \A a, b \in Int, n \in Nat : (b - a - 1) * n = b * n - a * n - n
    OBVIOUS
  <2> QED
    BY <2>1, <2>2
<1>3. day1 * SEC_IN_DAY \in Int /\ day2 * SEC_IN_DAY \in Int
  BY <1>1
<1>4. ~ (day1 < day2)
  BY <1>1, <1>2, <1>3 DEF At
<1>5. ~ (day2 < day1)
  BY <1>1, <1>2, <1>3 DEF At
<1>6. day1 = day2
  BY <1>4, <1>5
<1> QED
  BY <1>1, <1>3, <1>6 DEF At

-----------------------------------------------------------------------------
(* The steps.                                                              *)

\* A task's step leaves the other tasks where they are.
Alone(t) ==
  \A u \in Tasks \ {t} :
    /\ pc'[u] = pc[u] /\ op'[u] = op[u] /\ read'[u] = read[u]
    /\ arg'[u] = arg[u] /\ seen'[u] = seen[u] /\ turns'[u] = turns[u]

LEMMA StepAlone ==
  ASSUME TypeOK, NEW t \in Tasks, Step(t)
  PROVE  Alone(t)
<1> USE DEF TypeOK, Alone, tasks, regs
<1>1. CASE GetTime(t) \/ SetAlarm(t) \/ AlarmIrqAck(t)
  BY <1>1 DEF GetTime, SetAlarm, AlarmIrqAck, Begins, Goto
<1>2. CASE ReadDate(t) \/ ReadTime(t) \/ ReadDateAgain(t) \/ ReadTimeAgain(t)
  BY <1>2 DEF ReadDate, ReadTime, ReadDateAgain, ReadTimeAgain, Goto
<1>3. CASE GetReturns(t) \/ SetReturns(t) \/ SetFails(t) \/ AlarmRefused(t)
           \/ AlarmArm(t) \/ AlarmIrqDisable(t)
  BY <1>3 DEF GetReturns, SetReturns, SetFails, AlarmRefused, AlarmArm, AlarmIrqDisable,
              Returns, Goto
<1>4. CASE SetTime(t)
  BY <1>4 DEF SetTime, Begins, Quick, Goto
<1>5. CASE SetZero(t) \/ SetHms(t) \/ SetSettles(t) \/ SetYmd(t)
  BY <1>5 DEF SetZero, SetHms, SetSettles, SetYmd, SetWrites, Goto
<1>6. CASE AlarmAck(t) \/ AlarmProgram(t)
  BY <1>6 DEF AlarmAck, AlarmProgram, Goto
<1>7. CASE AlarmIrqEnable(t) \/ RegisterCallback(t) \/ Reinit(t)
  BY <1>7 DEF AlarmIrqEnable, RegisterCallback, Reinit, Quick
<1> QED
  BY <1>1, <1>2, <1>3, <1>4, <1>5, <1>6, <1>7 DEF Step

\* An alarm in the month that was read gets the number of its day.
LEMMA AlarmDayIs ==
  ASSUME TypeOK, NEW t \in Tasks, arg[t].tm.mday \in Int, DayRight(t)
  PROVE  RefDay(arg[t].tm) = AlarmDay(t) /\ AlarmDay(t) \in Int
<1> DEFINE date == day_to_ymd(read[t][1])
           tm == arg[t].tm
           year == date.year + 1900
           row == Row(is_leap_year(year))
<1>1. /\ tm.year = date.year /\ tm.mon = date.mon
      /\ ymd = read[t][1] /\ Readable(ymd) /\ ymd \in Nat
      /\ Got(t).mday = date.mday
  BY DEF DayRight, Got, TypeOK
<1>2. date.year \in Nat /\ date.mon \in 0 .. 11 /\ date.mday \in Int /\ RefDay(date) = ymd
  BY <1>1, DateIs
<1>3. year \in Int /\ tm.year + 1900 = year
  BY <1>1, <1>2
<1> HIDE DEF date, tm
<1>4. RefDay(date) = Span(MinYear, year) + (Sums[row + date.mon + 1] - Sums[row + 1]) + date.mday
  BY <1>2, <1>3, RefDayIs
<1>5. /\ RefDay(tm) = Span(MinYear, year) + (Sums[row + tm.mon + 1] - Sums[row + 1]) + tm.mday
      /\ Sums[row + tm.mon + 1] \in Nat /\ Sums[row + 1] \in Nat
      /\ Span(MinYear, year) \in Int
  BY <1>1, <1>2, <1>3, RefDayIs DEF tm
<1>6. AlarmDay(t) = tm.mday - date.mday + ymd /\ tm.mday \in Int
  BY <1>1 DEF AlarmDay, tm
<1> HIDE DEF year, row
<1>7. RefDay(tm) = tm.mday - date.mday + ymd
  <2> DEFINE start == Sums[row + tm.mon + 1]
  <2>1. Sums[row + date.mon + 1] = start
    BY <1>1
  <2> HIDE DEF start
  <2> QED
    BY <1>2, <1>4, <1>5, <1>6, <2>1 DEF start
<1>8. AlarmDay(t) \in Int
  BY <1>1, <1>2, <1>6
<1> QED
  BY <1>6, <1>7, <1>8 DEF tm

LEMMA StepTypes ==
  ASSUME DatesValid, AlarmsValid, TypeOK, CallInv, NEW t \in Tasks, Step(t)
  PROVE  TypeOK'
<1> USE DEF TypeOK, tasks, regs, Begins, Goto, Returns, Quick
<1>0. 0 \in Seconds
  BY DayAssumption DEF Seconds
<1>1. CASE GetTime(t)
  BY <1>1 DEF GetTime
<1>2. CASE SetAlarm(t)
  BY <1>2 DEF SetAlarm
<1>3. CASE ReadDate(t) \/ ReadTime(t)
  <2>1. read[t] \in Nat \X Seconds
    OBVIOUS
  <2>2. <<ymd, read[t][2]>> \in Nat \X Seconds /\ <<read[t][1], hms>> \in Nat \X Seconds
    BY <2>1
  <2>3. CASE ReadDate(t)
    <3> DEFINE pair == <<ymd, read[t][2]>>
    <3>1. read' = [read EXCEPT ![t] = pair] /\ pair \in Nat \X Seconds
      BY <2>2, <2>3 DEF ReadDate
    <3> HIDE DEF pair
    <3>2. read' \in [Tasks -> Nat \X Seconds]
      BY <3>1
    <3> QED
      BY <2>3, <3>2 DEF ReadDate
  <2>4. CASE ReadTime(t)
    <3> DEFINE pair == <<read[t][1], hms>>
    <3>1. read' = [read EXCEPT ![t] = pair] /\ pair \in Nat \X Seconds
      BY <2>2, <2>4 DEF ReadTime
    <3> HIDE DEF pair
    <3>2. read' \in [Tasks -> Nat \X Seconds]
      BY <3>1
    <3> QED
      BY <2>4, <3>2 DEF ReadTime
  <2> QED
    BY <1>3, <2>3, <2>4
<1>15. CASE ReadDateAgain(t) \/ ReadTimeAgain(t)
  BY <1>15 DEF ReadDateAgain, ReadTimeAgain
<1>16. ASSUME NEW from, Returns(t, from)
       PROVE  /\ pc' \in [Tasks -> {"idle", "date", "time", "date2", "time2", "got", "zero",
                                    "hms", "settle", "ymd", "last", "off", "arm"}]
              /\ op' \in [Tasks -> {NONE, "get", "set", "alarm", "irq"}]
              /\ read' \in [Tasks -> Nat \X Seconds]
              /\ DOMAIN arg' = Tasks /\ DOMAIN seen' = Tasks
              /\ turns' \in [Tasks -> Nat]
  <2>1. <<0, 0>> \in Nat \X Seconds
    BY <1>0
  <2> QED
    BY <1>16, <2>1
<1> HIDE DEF Returns
<1>4. CASE GetReturns(t) \/ SetFails(t) \/ AlarmRefused(t)
  BY <1>4, <1>16 DEF GetReturns, SetFails, AlarmRefused
<1>17. CASE SetReturns(t)
  BY <1>16, <1>17 DEF SetReturns
<1>5. CASE SetTime(t)
  <2>1. PICK tm \in Dates :
          IF tm.year + 1900 \in MinYear .. MaxYear
            THEN /\ Begins(t, "set", "zero")
                 /\ arg' = [arg EXCEPT ![t] = [date |-> SetDay(tm), time |-> tm.sec]]
                 /\ goal' = [NoGoal EXCEPT !.asked = At(RefDay(tm), tm.sec)]
                 /\ UNCHANGED <<regs, alrm, user_callback, read, ticks, seen, turns, due, rang,
                               missed>>
            ELSE /\ Quick(t)
                 /\ UNCHANGED <<regs, alrm, user_callback, ticks, goal, due, rang, missed>>
    BY <1>5 DEF SetTime
  <2>2. CASE tm.year + 1900 \in MinYear .. MaxYear
    <3>1. RefDay(tm) \in Int
      BY <2>2, SetDayIs DEF DatesValid
    <3>2. tm.sec \in Int
      BY <2>2 DEF DatesValid, Seconds
    <3>3. At(RefDay(tm), tm.sec) \in Int
      BY <3>1, <3>2, AtNext
    <3>4. goal' \in [asked : Int, shows : Int \cup {NONE}, dated : BOOLEAN, rolled : Nat,
                     set : BOOLEAN]
      <4>1. goal' = [NoGoal EXCEPT !.asked = At(RefDay(tm), tm.sec)]
        BY <2>1, <2>2
      <4> QED
        BY <3>3, <4>1 DEF NoGoal
    <3> DEFINE passed == [date |-> SetDay(tm), time |-> tm.sec]
    <3>5. /\ Begins(t, "set", "zero")
          /\ arg' = [arg EXCEPT ![t] = passed]
          /\ UNCHANGED <<regs, alrm, user_callback, read, ticks, seen, turns, due, rang,
                               missed>>
      BY <2>1, <2>2
    <3> HIDE DEF passed
    <3> QED
      BY <3>4, <3>5
  <2>3. CASE tm.year + 1900 \notin MinYear .. MaxYear
    BY <2>1, <2>3
  <2> QED
    BY <2>2, <2>3
<1>6. CASE SetZero(t)
  BY <1>0, <1>6 DEF SetZero, SetWrites
<1>7. CASE SetHms(t)
  <2>1. arg[t].time \in Seconds
    BY <1>7 DEF SetHms, SetWrites, CallInv, Placed, Stages
  <2> QED
    BY <1>7, <2>1 DEF SetHms, SetWrites
<1>8. CASE SetSettles(t)
  BY <1>8 DEF SetSettles
<1>9. CASE SetYmd(t)
  <2>1. arg[t].date \in Nat
    BY <1>9 DEF SetYmd, SetWrites, CallInv, Placed, Stages
  <2> QED
    BY <1>9, <2>1 DEF SetYmd, SetWrites
<1>10. CASE AlarmAck(t)
  BY <1>10 DEF AlarmAck, Acked, NotPending
<1>18. CASE AlarmIrqAck(t)
  BY <1>18 DEF AlarmIrqAck, Acked, NotPending
<1>11. CASE AlarmProgram(t)
  <2>1. arg[t].tm \in AlarmDates
    BY <1>11 DEF AlarmProgram, CallInv, Placed
  <2>2. arg[t].tm.mday \in Int /\ arg[t].tm.sec \in Seconds /\ arg[t].tm.sec \in Int
    BY <2>1 DEF AlarmsValid, Seconds
  <2>3. Got(t).mday \in Int
    BY DateType DEF Got
  <2>4. AlarmDay(t) \in Int
    BY <2>2, <2>3 DEF AlarmDay
  <2>5. due' \in Int \cup {NONE}
    <3>1. CASE DayRight(t)
      <4>1. At(RefDay(arg[t].tm), arg[t].tm.sec) \in Int
        BY <2>2, <3>1, AlarmDayIs, AtNext
      <4> QED
        BY <1>11, <4>1 DEF AlarmProgram
    <3>2. CASE ~ DayRight(t)
      BY <1>11, <3>2 DEF AlarmProgram
    <3> QED
      BY <3>1, <3>2
  <2> QED
    BY <1>11, <2>2, <2>4, <2>5 DEF AlarmProgram, Disabled
<1>19. ASSUME NEW to, NEW a,
              a \in [day : Int, sec : Seconds, en : BOOLEAN, irqEn : BOOLEAN, pend : BOOLEAN]
       PROVE  /\ Enabled(to, a) \in [day : Int, sec : Seconds, en : BOOLEAN, irqEn : BOOLEAN,
                                     pend : BOOLEAN]
              /\ StillDue(to) \in Int \cup {NONE} /\ TooLate(to) \in BOOLEAN
  BY <1>19 DEF Enabled, Disabled, Acked, StillDue, TooLate
<1>12. CASE AlarmArm(t)
  <2>1. [alrm EXCEPT !.irqEn = TRUE] \in [day : Int, sec : Seconds, en : BOOLEAN,
                                          irqEn : BOOLEAN, pend : BOOLEAN]
    OBVIOUS
  <2> QED
    BY <1>12, <1>16, <1>19, <2>1 DEF AlarmArm
<1>20. CASE AlarmIrqEnable(t)
  BY <1>19, <1>20 DEF AlarmIrqEnable
<1>13. CASE AlarmIrqDisable(t)
  BY <1>13, <1>16 DEF AlarmIrqDisable, Disabled
<1>14. CASE RegisterCallback(t) \/ Reinit(t)
  BY <1>14 DEF RegisterCallback, Reinit, Enabled, Disabled, Acked
<1> QED
  BY <1>1, <1>2, <1>3, <1>4, <1>5, <1>6, <1>7, <1>8, <1>9, <1>10, <1>11, <1>12, <1>13,
     <1>14, <1>15, <1>17, <1>18, <1>20 DEF Step

\* The clock goes on by a second.
LEMMA TickNow ==
  ASSUME TypeOK, Tick
  PROVE  /\ hms' \in Seconds /\ ymd' \in Nat /\ ymd <= ymd'
         /\ Now' = Now + 1 /\ Now \in Int
         /\ \A day \in Int : At(day, hms') = At(day, hms) + 1 - IF hms' = 0 THEN SEC_IN_DAY ELSE 0
<1>0. /\ SEC_IN_DAY \in Nat \ {0} /\ hms \in Seconds /\ hms \in Nat /\ hms < SEC_IN_DAY
      /\ ymd \in Nat /\ ymd \in Int /\ hms \in Int
  BY DayAssumption DEF TypeOK, Seconds
<1>5. \A day, sec \in Int :
        /\ At(day, sec) \in Int
        /\ At(day, sec + 1) = At(day, sec) + 1
        /\ At(day + 1, 0) = At(day, SEC_IN_DAY)
        /\ At(day, 0) = At(day, SEC_IN_DAY) - SEC_IN_DAY
  BY AtNext
<1>1. /\ hms' = IF hms + 1 = SEC_IN_DAY THEN 0 ELSE hms + 1
      /\ ymd' = IF hms' = 0 THEN ymd + 1 ELSE ymd
  BY <1>0, NextSecond DEF Tick
<1>2. hms' \in Seconds /\ ymd' \in Nat /\ ymd <= ymd'
  BY <1>0, <1>1 DEF Seconds
<1>3. ASSUME NEW day \in Int
      PROVE  At(day, hms') = At(day, hms) + 1 - IF hms' = 0 THEN SEC_IN_DAY ELSE 0
  <2>1. /\ At(day, hms) \in Int /\ At(day, hms + 1) = At(day, hms) + 1
        /\ At(day, 0) = At(day, SEC_IN_DAY) - SEC_IN_DAY
    BY <1>0, <1>5
  <2>2. CASE hms + 1 = SEC_IN_DAY
    BY <1>0, <1>1, <2>1, <2>2
  <2>3. CASE hms + 1 # SEC_IN_DAY
    BY <1>0, <1>1, <2>1, <2>3
  <2> QED
    BY <2>2, <2>3
<1>4. Now' = Now + 1 /\ Now \in Int
  <2>1. /\ At(ymd, hms) \in Int /\ At(ymd, hms + 1) = At(ymd, hms) + 1
        /\ At(ymd + 1, 0) = At(ymd, SEC_IN_DAY)
    BY <1>0, <1>5
  <2>2. CASE hms + 1 = SEC_IN_DAY
    BY <1>0, <1>1, <2>1, <2>2 DEF Now
  <2>3. CASE hms + 1 # SEC_IN_DAY
    BY <1>0, <1>1, <2>1, <2>3 DEF Now
  <2> QED
    BY <2>2, <2>3
<1> QED
  BY <1>2, <1>3, <1>4

LEMMA TickTypes ==
  ASSUME TypeOK, Tick
  PROVE  TypeOK'
<1>1. hms' \in Seconds /\ ymd' \in Nat
  BY TickNow
<1>2. alrm' \in [day : Int, sec : Seconds, en : BOOLEAN, irqEn : BOOLEAN, pend : BOOLEAN]
  BY DEF Tick, TypeOK
<1>3. DOMAIN seen' = Tasks /\ turns' \in [Tasks -> Nat]
  BY DEF Tick, Shows, TypeOK
<1>4. goal' \in [asked : Int, shows : Int \cup {NONE}, dated : BOOLEAN, rolled : Nat,
                 set : BOOLEAN]
  <2>1. CASE goal.shows = NONE
    BY <2>1 DEF Tick, TypeOK
  <2>2. CASE goal.shows # NONE
    <3>1. goal.shows + 1 \in Int /\ goal.rolled + 1 \in Nat
      BY <2>2 DEF TypeOK
    <3>2. goal' = [goal EXCEPT !.shows = goal.shows + 1,
                               !.rolled = IF hms' = 0 /\ ~ goal.dated THEN goal.rolled + 1
                                          ELSE goal.rolled]
      BY <2>2 DEF Tick
    <3> QED
      BY <3>1, <3>2 DEF TypeOK
  <2> QED
    BY <2>1, <2>2
<1> QED
  BY <1>1, <1>2, <1>3, <1>4 DEF Tick, TypeOK, tasks

LEMMA LandTypes ==
  ASSUME TypeOK, NEW r \in {"ymd", "hms"}, Lands(r)
  PROVE  TypeOK'
<1>1. /\ hms' \in Seconds /\ ymd' \in Nat /\ DOMAIN seen' = Tasks
      /\ turns' \in [Tasks -> Nat]
  BY DEF Lands, TypeOK, Settled, Shows
<1>2. acc' \in [ymd : Nat \cup {NONE}, hms : Seconds \cup {NONE}]
  BY DEF Lands, TypeOK
<1>3. goal' \in [asked : Int, shows : Int \cup {NONE}, dated : BOOLEAN, rolled : Nat,
                 set : BOOLEAN]
  BY DEF Lands, TypeOK
<1> QED
  BY <1>1, <1>2, <1>3 DEF Lands, TypeOK, tasks

LEMMA IrqTypes ==
  ASSUME TypeOK, AlarmIrq
  PROVE  TypeOK'
BY DEF TypeOK, AlarmIrq, regs, tasks

LEMMA StepCalls ==
  ASSUME TypeOK, CallInv, NEW t \in Tasks, Step(t), DatesValid
  PROVE  CallInv'
<1> USE DEF Placed
<1>1. ASSUME NEW u \in Tasks, u # t  PROVE Placed(u)'
  <2>1. Placed(u)
    BY DEF CallInv
  <2>2. pc'[u] = pc[u] /\ op'[u] = op[u] /\ arg'[u] = arg[u]
    BY <1>1, StepAlone DEF Alone
  <2> QED
    BY <2>1, <2>2
<1>0. Placed(t) /\ DOMAIN pc = Tasks /\ DOMAIN op = Tasks /\ DOMAIN arg = Tasks
  BY DEF TypeOK, CallInv
<1>2. Placed(t)'
  <2>1. CASE GetTime(t)
    BY <1>0, <2>1, NoneAssumption DEF GetTime, Begins, Goto, Stages
  <2>2. CASE SetAlarm(t)
    BY <1>0, <2>2, NoneAssumption DEF SetAlarm, Begins, Goto, Stages
  <2>3. CASE AlarmIrqAck(t)
    BY <1>0, <2>3, NoneAssumption DEF AlarmIrqAck, Begins, Goto, Stages
  <2>4. CASE SetTime(t)
    <3>1. PICK tm \in Dates :
            IF tm.year + 1900 \in MinYear .. MaxYear
              THEN /\ Begins(t, "set", "zero")
                   /\ arg' = [arg EXCEPT ![t] = [date |-> SetDay(tm), time |-> tm.sec]]
              ELSE Quick(t)
      BY <2>4 DEF SetTime
    <3>2. CASE tm.year + 1900 \in MinYear .. MaxYear
      <4>1. SetDay(tm) \in Nat /\ tm.sec \in Seconds
        BY <3>2, SetDayIs DEF DatesValid
      <4>2. Begins(t, "set", "zero")
        BY <3>1, <3>2
      <4>3. arg'[t].date = SetDay(tm) /\ arg'[t].time = tm.sec
        BY <1>0, <3>1, <3>2
      <4> QED
        BY <1>0, <4>1, <4>2, <4>3, NoneAssumption DEF Begins, Goto, Stages
    <3>3. CASE tm.year + 1900 \notin MinYear .. MaxYear
      BY <1>0, <3>1, <3>3 DEF Quick, tasks
    <3> QED
      BY <3>2, <3>3
  <2>5. ASSUME NEW from, Returns(t, from)  PROVE Placed(t)'
    BY <1>0, <2>5, NoneAssumption DEF Returns, Goto, Stages
  <2>6. CASE GetReturns(t) \/ SetReturns(t) \/ SetFails(t) \/ AlarmRefused(t)
             \/ AlarmArm(t) \/ AlarmIrqDisable(t)
    BY <2>5, <2>6 DEF GetReturns, SetReturns, SetFails, AlarmRefused, AlarmArm, AlarmIrqDisable
  <2>7. CASE ReadDate(t) \/ ReadTime(t) \/ ReadDateAgain(t) \/ ReadTimeAgain(t)
    BY <1>0, <2>7 DEF ReadDate, ReadTime, ReadDateAgain, ReadTimeAgain, Goto, Stages
  <2>8. CASE SetZero(t) \/ SetHms(t) \/ SetSettles(t) \/ SetYmd(t)
    BY <1>0, <2>8, NoneAssumption DEF SetZero, SetHms, SetSettles, SetYmd, SetWrites, Goto, Stages
  <2>9. CASE AlarmAck(t) \/ AlarmProgram(t)
    BY <1>0, <2>9, NoneAssumption DEF AlarmAck, AlarmProgram, Goto, Stages
  <2>10. CASE AlarmIrqEnable(t) \/ RegisterCallback(t) \/ Reinit(t)
    BY <1>0, <2>10 DEF AlarmIrqEnable, RegisterCallback, Reinit, Quick, tasks
  <2> HIDE DEF Placed
  <2> QED
    BY <2>1, <2>2, <2>3, <2>4, <2>6, <2>7, <2>8, <2>9, <2>10 DEF Step
<1> DEFINE OneAtATime == \/ op'[t] \in {NONE, "get"} \/ op'[t] = op[t]
                         \/ \A u \in Tasks : u # t => op[u] \in {NONE, "get"}
<1>3. OneAtATime
  <2>1. ASSUME NEW what, NEW to, Begins(t, what, to)  PROVE OneAtATime
    BY <1>0, <2>1 DEF Begins, Free
  <2>2. ASSUME NEW from, Returns(t, from)  PROVE OneAtATime
    BY <1>0, <2>2 DEF Returns
  <2>3. CASE op' = op
    BY <2>3
  <2>4. CASE GetTime(t) \/ SetAlarm(t) \/ AlarmIrqAck(t)
    BY <2>1, <2>4 DEF GetTime, SetAlarm, AlarmIrqAck
  <2>5. CASE SetTime(t)
    BY <2>1, <2>3, <2>5 DEF SetTime, Quick, tasks
  <2>6. CASE GetReturns(t) \/ SetReturns(t) \/ SetFails(t) \/ AlarmRefused(t)
             \/ AlarmArm(t) \/ AlarmIrqDisable(t)
    BY <2>2, <2>6 DEF GetReturns, SetReturns, SetFails, AlarmRefused, AlarmArm, AlarmIrqDisable
  <2>7. CASE ReadDate(t) \/ ReadTime(t) \/ ReadDateAgain(t) \/ ReadTimeAgain(t)
    BY <2>3, <2>7 DEF ReadDate, ReadTime, ReadDateAgain, ReadTimeAgain
  <2>8. CASE SetZero(t) \/ SetHms(t) \/ SetSettles(t) \/ SetYmd(t)
    BY <2>3, <2>8 DEF SetZero, SetHms, SetSettles, SetYmd, SetWrites
  <2>9. CASE AlarmAck(t) \/ AlarmProgram(t)
    BY <2>3, <2>9 DEF AlarmAck, AlarmProgram
  <2>10. CASE AlarmIrqEnable(t) \/ RegisterCallback(t) \/ Reinit(t)
    BY <2>3, <2>10 DEF AlarmIrqEnable, RegisterCallback, Reinit, Quick, tasks
  <2> HIDE DEF OneAtATime
  <2> QED
    BY <2>4, <2>5, <2>6, <2>7, <2>8, <2>9, <2>10 DEF Step
<1>4. \A u, w \in Tasks :
        op'[u] \notin {NONE, "get"} /\ op'[w] \notin {NONE, "get"} => u = w
  <2>1. \A u \in Tasks : u # t => op'[u] = op[u]
    BY StepAlone DEF Alone
  <2>2. \A u, w \in Tasks :
          op[u] \notin {NONE, "get"} /\ op[w] \notin {NONE, "get"} => u = w
    BY DEF CallInv
  <2> QED
    BY <1>3, <2>1, <2>2
<1>5. \A u \in Tasks : Placed(u)'
  BY <1>1, <1>2
<1> HIDE DEF Placed
<1> QED
  BY <1>4, <1>5 DEF CallInv


\* No step of a task moves the clock.
LEMMA StepClock ==
  ASSUME NEW t \in Tasks, Step(t)
  PROVE  ymd' = ymd /\ hms' = hms
<1> USE DEF regs
<1>1. CASE GetTime(t) \/ SetAlarm(t) \/ AlarmIrqAck(t) \/ SetTime(t)
  BY <1>1 DEF GetTime, SetAlarm, AlarmIrqAck, SetTime
<1>2. CASE GetReturns(t) \/ SetReturns(t) \/ SetFails(t) \/ AlarmRefused(t)
           \/ AlarmArm(t) \/ AlarmIrqDisable(t)
  BY <1>2 DEF GetReturns, SetReturns, SetFails, AlarmRefused, AlarmArm, AlarmIrqDisable
<1>3. CASE ReadDate(t) \/ ReadTime(t) \/ ReadDateAgain(t) \/ ReadTimeAgain(t)
  BY <1>3 DEF ReadDate, ReadTime, ReadDateAgain, ReadTimeAgain
<1>4. CASE SetZero(t) \/ SetHms(t) \/ SetSettles(t) \/ SetYmd(t)
  BY <1>4 DEF SetZero, SetHms, SetSettles, SetYmd, SetWrites
<1>5. CASE AlarmAck(t) \/ AlarmProgram(t)
  BY <1>5 DEF AlarmAck, AlarmProgram
<1>6. CASE AlarmIrqEnable(t) \/ RegisterCallback(t) \/ Reinit(t)
  BY <1>6 DEF AlarmIrqEnable, RegisterCallback, Reinit
<1> QED
  BY <1>1, <1>2, <1>3, <1>4, <1>5, <1>6 DEF Step

LEMMA StepReads ==
  ASSUME TypeOK, CallInv, ReadInv, NEW t \in Tasks, Step(t)
  PROVE  ReadInv'
<1>1. ymd' = ymd /\ hms' = hms
  BY StepClock
<1>2. ASSUME NEW u \in Tasks, u # t  PROVE Reads(u)'
  <2>1. Reads(u)
    BY DEF ReadInv, Reads
  <2>2. pc'[u] = pc[u] /\ read'[u] = read[u] /\ seen'[u] = seen[u]
        /\ turns'[u] = turns[u]
    BY <1>2, StepAlone DEF Alone
  <2> QED
    BY <1>1, <2>1, <2>2 DEF Reads, Away
<1>3. Reads(t)'
  <2>0. /\ Reads(t) /\ DOMAIN pc = Tasks /\ DOMAIN read = Tasks /\ DOMAIN seen = Tasks
        /\ ymd \in Nat /\ read[t] \in Nat \X Seconds
        /\ DOMAIN turns = Tasks /\ turns[t] \in Nat
    BY DEF TypeOK, ReadInv
  <2>1. CASE GetTime(t)
    BY <1>1, <2>0, <2>1 DEF GetTime, Begins, Goto, Reads
  <2>2. CASE SetAlarm(t)
    BY <1>1, <2>0, <2>2 DEF SetAlarm, Begins, Goto, Reads
  <2>3. CASE pc'[t] \in {"idle", "zero", "hms", "settle", "ymd", "last", "off", "arm"}
    BY <2>3 DEF Reads
  <2>4. CASE ReadDate(t)
    <3> DEFINE pair == <<ymd, read[t][2]>>
    <3>1. read' = [read EXCEPT ![t] = pair] /\ pair[1] = ymd
      BY <2>4 DEF ReadDate
    <3> HIDE DEF pair
    <3>2. /\ read'[t][1] = ymd /\ seen'[t] = seen[t] /\ pc'[t] = "time" /\ pc[t] = "date"
          /\ turns'[t] = 0
      BY <2>0, <2>4, <3>1 DEF ReadDate, Goto
    <3> QED
      BY <1>1, <2>0, <3>2 DEF Reads, Away
  <2>5. CASE ReadTime(t)
    <3> DEFINE pair == <<read[t][1], hms>>
    <3>1. read' = [read EXCEPT ![t] = pair] /\ pair[1] = read[t][1]
      BY <2>5 DEF ReadTime
    <3>2. read[t][1] = ymd => pair = <<ymd, hms>>
      OBVIOUS
    <3> HIDE DEF pair
    <3>3. /\ read'[t] = pair /\ seen'[t] = seen[t] /\ pc'[t] = "date2" /\ pc[t] = "time"
          /\ turns'[t] = turns[t]
      BY <2>0, <2>5, <3>1 DEF ReadTime, Goto
    <3>4. CASE read[t][1] = ymd
      BY <1>1, <2>0, <3>2, <3>3, <3>4 DEF Reads
    <3>5. CASE read[t][1] # ymd
      BY <1>1, <2>0, <3>1, <3>3, <3>5 DEF Reads, Away
    <3> QED
      BY <3>4, <3>5
  <2>6. CASE ReadDateAgain(t)
    <3>1. /\ read' = read /\ seen' = seen /\ turns' = turns /\ pc[t] = "date2"
          /\ pc'[t] = IF ymd = read[t][1] THEN "time2" ELSE "date"
      BY <2>0, <2>6 DEF ReadDateAgain, SameDate, Goto
    <3> QED
      BY <1>1, <2>0, <3>1 DEF Reads, Away
  <2>7. CASE ReadTimeAgain(t)
    <3>1. /\ read' = read /\ seen' = seen /\ turns' = turns /\ pc[t] = "time2"
          /\ pc'[t] = IF hms = read[t][2] THEN "got" ELSE "date"
      BY <2>0, <2>7 DEF ReadTimeAgain, Goto
    <3>2. read[t] = <<read[t][1], read[t][2]>>
      BY <2>0
    <3>3. ymd = read[t][1] /\ hms = read[t][2] => read[t] \in seen[t]
      BY <2>0, <3>1, <3>2 DEF Reads
    <3> QED
      BY <1>1, <2>0, <3>1, <3>3 DEF Reads, Away
  <2>8. CASE GetReturns(t) \/ SetReturns(t) \/ SetFails(t) \/ AlarmRefused(t)
             \/ AlarmArm(t) \/ AlarmIrqDisable(t)
    BY <2>0, <2>3, <2>8 DEF GetReturns, SetReturns, SetFails, AlarmRefused, AlarmArm,
                            AlarmIrqDisable, Returns, Goto
  <2>9. CASE SetZero(t) \/ SetHms(t) \/ SetSettles(t) \/ SetYmd(t)
    BY <2>0, <2>3, <2>9 DEF SetZero, SetHms, SetSettles, SetYmd, SetWrites, Goto
  <2>10. CASE AlarmAck(t) \/ AlarmProgram(t) \/ AlarmIrqAck(t)
    BY <2>0, <2>3, <2>10 DEF AlarmAck, AlarmProgram, AlarmIrqAck, Begins, Goto
  <2>11. CASE AlarmIrqEnable(t) \/ RegisterCallback(t) \/ Reinit(t)
    BY <2>0, <2>3, <2>11 DEF AlarmIrqEnable, RegisterCallback, Reinit, Quick, tasks
  <2>12. CASE SetTime(t)
    BY <2>0, <2>3, <2>12 DEF SetTime, Begins, Goto, Quick, tasks
  <2> QED
    BY <2>1, <2>2, <2>4, <2>5, <2>6, <2>7, <2>8, <2>9, <2>10, <2>11, <2>12 DEF Step
<1> QED
  BY <1>2, <1>3 DEF ReadInv, Reads

\* A change of the date counts for every task that is in the middle of a round.
LEMMA ShowReads ==
  ASSUME ReadInv, Shows, UNCHANGED tasks, turns \in [Tasks -> Nat]
  PROVE  ReadInv'
<1>1. ASSUME NEW t \in Tasks  PROVE Reads(t)'
  <2>1. Reads(t) /\ turns[t] \in Nat
    BY DEF ReadInv
  <2>2. pc' = pc /\ read' = read
    BY DEF tasks
  <2>3. seen'[t] = IF Reading(t) THEN seen[t] \cup {<<ymd', hms'>>} ELSE seen[t]
    BY DEF Shows
  <2>4. turns'[t] = IF InRound(t) /\ ymd' # ymd THEN turns[t] + 1 ELSE turns[t]
    BY DEF Shows
  <2>5. Away(t)' <= Away(t) + 1 /\ Away(t) <= Away(t)' + 1 /\ (ymd' = ymd => Away(t)' = Away(t))
        /\ Away(t) \in {0, 1} /\ Away(t)' \in {0, 1}
    BY <2>2 DEF Away
  <2>6. InRound(t) => \A n \in Nat :
          /\ turns[t] >= n + Away(t) => turns'[t] >= n + Away(t)'
          /\ turns[t] >= 2 - Away(t) => turns'[t] >= 2 - Away(t)'
    BY <2>1, <2>4, <2>5
  <2> HIDE DEF Away
  <2> QED
    BY <2>1, <2>2, <2>3, <2>4, <2>5, <2>6 DEF Reads, Reading, InRound
<1> QED
  BY <1>1 DEF ReadInv

LEMMA TickReads ==
  ASSUME TypeOK, ReadInv, Tick
  PROVE  ReadInv'
BY ShowReads DEF Tick, TypeOK

LEMMA LandReads ==
  ASSUME TypeOK, ReadInv, NEW r \in {"ymd", "hms"}, Lands(r)
  PROVE  ReadInv'
BY ShowReads DEF Lands, TypeOK

LEMMA IrqReads ==
  ASSUME ReadInv, AlarmIrq
  PROVE  ReadInv'
BY DEF ReadInv, Reads, Away, AlarmIrq, regs, tasks

\* Only a task's step moves a task.
LEMMA OtherCalls ==
  ASSUME CallInv, UNCHANGED tasks
  PROVE  CallInv'
BY DEF CallInv, Placed, tasks


LEMMA SetInit ==
  ASSUME Init
  PROVE  SetInv
BY NoneAssumption DEF Init, SetInv, NoGoal

\* A step that keeps the setting's registers and its history, and goes on with
\* no call of hal_rtc_settime.
LEMMA SetKept ==
  ASSUME SetInv, goal' = goal, acc' = acc, ymd' = ymd, hms' = hms,
         \A u \in Tasks : op'[u] = "set" => op[u] = "set" /\ pc'[u] = pc[u] /\ arg'[u] = arg[u]
  PROVE  SetInv'
<1>1. \A d : Timed(d) <=> Timed(d)'
  BY DEF Timed
<1>2. Done <=> Done'
  BY DEF Done, Now
<1>3. \A r : Settled(r) <=> Settled(r)'
  BY DEF Settled
<1>4. ASSUME NEW u \in Tasks, op'[u] = "set"  PROVE Setting(u)'
  <2>1. Setting(u) /\ pc'[u] = pc[u] /\ arg'[u] = arg[u]
    BY <1>4 DEF SetInv
  <2>2. Timed(arg[u].date) <=> Timed(arg[u].date)'
    BY <2>1 DEF Timed
  <2> QED
    BY <1>2, <1>3, <2>1, <2>2 DEF Setting
<1> QED
  BY <1>2, <1>3, <1>4 DEF SetInv

LEMMA StepSets ==
  ASSUME DatesValid, TypeOK, CallInv, SetInv, NEW t \in Tasks, Step(t)
  PROVE  SetInv'
<1>0. /\ ymd' = ymd /\ hms' = hms
      /\ \A u \in Tasks : u # t => op'[u] = op[u] /\ pc'[u] = pc[u] /\ arg'[u] = arg[u]
      /\ DOMAIN pc = Tasks /\ DOMAIN op = Tasks /\ DOMAIN arg = Tasks
  BY StepClock, StepAlone DEF Alone, TypeOK
<1>1. ASSUME goal' = goal, acc' = acc,
             op'[t] = "set" => op[t] = "set" /\ pc'[t] = pc[t] /\ arg'[t] = arg[t]
      PROVE  SetInv'
  BY <1>0, <1>1, SetKept
<1>2. CASE GetTime(t) \/ SetAlarm(t) \/ AlarmIrqAck(t)
  BY <1>0, <1>1, <1>2 DEF GetTime, SetAlarm, AlarmIrqAck, Begins, regs
<1>3. CASE GetReturns(t) \/ SetFails(t) \/ AlarmRefused(t) \/ AlarmArm(t) \/ AlarmIrqDisable(t)
  BY <1>0, <1>1, <1>3, NoneAssumption
     DEF GetReturns, SetFails, AlarmRefused, AlarmArm, AlarmIrqDisable, Returns, regs
<1>4. CASE ReadDate(t) \/ ReadTime(t) \/ ReadDateAgain(t) \/ ReadTimeAgain(t)
  <2>1. op[t] # "set"
    BY <1>4, NoneAssumption DEF CallInv, Placed, Stages, ReadDate, ReadTime, ReadDateAgain,
                                ReadTimeAgain, Goto
  <2> QED
    BY <1>0, <1>1, <1>4, <2>1 DEF ReadDate, ReadTime, ReadDateAgain, ReadTimeAgain, regs
<1>5. CASE AlarmAck(t) \/ AlarmProgram(t)
  BY <1>0, <1>1, <1>5 DEF AlarmAck, AlarmProgram, regs
<1>6. CASE AlarmIrqEnable(t) \/ RegisterCallback(t) \/ Reinit(t)
  BY <1>0, <1>1, <1>6 DEF AlarmIrqEnable, RegisterCallback, Reinit, Quick, tasks, regs
<1>7. CASE SetTime(t)
  <2>1. PICK tm \in Dates :
          IF tm.year + 1900 \in MinYear .. MaxYear
            THEN /\ Begins(t, "set", "zero")
                 /\ arg' = [arg EXCEPT ![t] = [date |-> SetDay(tm), time |-> tm.sec]]
                 /\ goal' = [NoGoal EXCEPT !.asked = At(RefDay(tm), tm.sec)]
                 /\ acc' = acc
            ELSE UNCHANGED <<op, pc, arg, goal, acc>>
    BY <1>7 DEF SetTime, Quick, tasks, regs
  <2>2. CASE tm.year + 1900 \in MinYear .. MaxYear
    <3>1. SetDay(tm) = RefDay(tm)
      BY <2>2, SetDayIs DEF DatesValid
    <3>2. /\ goal'.asked = At(SetDay(tm), tm.sec) /\ goal'.shows = NONE
          /\ goal'.dated = FALSE /\ goal'.rolled = 0 /\ goal'.set = FALSE
      BY <2>1, <2>2, <3>1 DEF NoGoal
    <3>3. arg'[t].date = SetDay(tm) /\ arg'[t].time = tm.sec /\ pc'[t] = "zero"
      BY <1>0, <2>1, <2>2 DEF Begins, Goto
    <3>4. \A u \in Tasks : u # t => op'[u] # "set"
      BY <1>0, <2>1, <2>2, NoneAssumption DEF Begins, Free
    <3>5. Setting(t)'
      BY <3>2, <3>3 DEF Setting, At
    <3> QED
      BY <3>2, <3>4, <3>5 DEF SetInv
  <2>3. CASE tm.year + 1900 \notin MinYear .. MaxYear
    BY <1>1, <2>1, <2>3
  <2> QED
    BY <2>2, <2>3
<1>8. CASE SetZero(t) \/ SetHms(t) \/ SetSettles(t) \/ SetYmd(t) \/ SetReturns(t)
  <2>0. op[t] = "set" /\ Setting(t) /\ goal.set = FALSE
        /\ arg[t].date \in Nat /\ arg[t].time \in Seconds
    BY <1>8 DEF SetZero, SetHms, SetSettles, SetYmd, SetReturns, SetWrites, Returns, Goto,
                CallInv, Placed, Stages, SetInv, TypeOK
  <2>1. \A u \in Tasks : u # t => op'[u] # "set"
    BY <1>0, <2>0, NoneAssumption DEF CallInv
  <2>2. arg[t].date # NONE /\ arg[t].time # NONE
    BY <2>0, NoneAssumption DEF Seconds
  <2>3. ASSUME goal' = goal, Setting(t)'  PROVE SetInv'
    BY <2>0, <2>1, <2>3 DEF SetInv
  <2>4. ASSUME goal' = goal
        PROVE  (Timed(arg[t].date)' <=> At(arg'[t].date, hms) = goal.shows - goal.rolled * SEC_IN_DAY
                                         /\ goal.shows # NONE /\ ~ goal.dated)
    BY <1>0, <2>4 DEF Timed, At
  <2>5. CASE SetZero(t)
    <3>1. goal' = goal /\ arg' = arg /\ pc[t] = "zero" /\ pc'[t] = "hms"
      BY <1>0, <2>5 DEF SetZero, SetWrites, Goto
    <3> QED
      BY <2>0, <2>3, <3>1 DEF Setting
  <2>6. CASE SetHms(t)
    <3>0. /\ goal' = goal /\ arg' = arg /\ pc[t] = "hms" /\ pc'[t] = "settle" /\ Waited(t)
          /\ acc' = [acc EXCEPT !["hms"] = IF Settled("hms") THEN arg[t].time ELSE @]
      BY <1>0, <2>6 DEF SetHms, SetWrites, Goto
    <3>5. WaitsFor[pc[t]] = "hms"
      BY <3>0 DEF WaitsFor
    <3>6. Settled("hms")
      BY <3>0, <3>5 DEF Waited
    <3>1. /\ goal' = goal /\ arg' = arg /\ pc[t] = "hms" /\ pc'[t] = "settle"
          /\ acc.hms = NONE
          /\ acc' = [acc EXCEPT !["hms"] = arg[t].time]
      BY <3>0, <3>6 DEF Settled
    <3>2. acc'.hms = arg[t].time
      BY <3>1 DEF TypeOK
    <3> QED
      BY <2>0, <2>2, <2>3, <3>1, <3>2 DEF Setting, Settled
  <2>7. CASE SetSettles(t)
    <3>1. /\ goal' = goal /\ arg' = arg /\ acc' = acc /\ pc[t] = "settle" /\ pc'[t] = "ymd"
          /\ Settled("hms")
      BY <1>0, <2>7 DEF SetSettles, Goto, Waited, WaitsFor, regs
    <3>2. Timed(arg[t].date) /\ Settled("hms")'
      BY <2>0, <3>1 DEF Setting, Settled
    <3>3. Timed(arg[t].date)'
      BY <1>0, <3>1, <3>2 DEF Timed
    <3> QED
      BY <2>0, <2>3, <3>1, <3>2, <3>3 DEF Setting
  <2>8. CASE SetYmd(t)
    <3>0. /\ goal' = goal /\ arg' = arg /\ pc[t] = "ymd" /\ pc'[t] = "last" /\ Waited(t)
          /\ acc' = [acc EXCEPT !["ymd"] = IF Settled("ymd") THEN arg[t].date ELSE @]
      BY <1>0, <2>8 DEF SetYmd, SetWrites, Goto
    <3>5. WaitsFor[pc[t]] = "ymd"
      BY <3>0 DEF WaitsFor
    <3>6. Settled("ymd")
      BY <3>0, <3>5 DEF Waited
    <3>1. /\ goal' = goal /\ arg' = arg /\ pc[t] = "ymd" /\ pc'[t] = "last"
          /\ acc.ymd = NONE
          /\ acc' = [acc EXCEPT !["ymd"] = arg[t].date]
      BY <3>0, <3>6 DEF Settled
    <3>2. acc'.ymd = arg[t].date /\ acc'.hms = acc.hms
      BY <3>1 DEF TypeOK
    <3>3. Timed(arg[t].date) /\ Settled("hms") /\ Settled("hms")'
      BY <2>0, <3>1, <3>2 DEF Setting, Settled
    <3>4. Timed(arg[t].date)'
      BY <1>0, <3>1, <3>3 DEF Timed
    <3> QED
      BY <2>0, <2>2, <2>3, <3>1, <3>2, <3>3, <3>4 DEF Setting, Settled
  <2>9. CASE SetReturns(t)
    <3>1. /\ goal' = [goal EXCEPT !.set = TRUE] /\ acc' = acc /\ pc[t] = "last"
          /\ op'[t] = NONE /\ Settled("ymd")
      BY <1>0, <2>9 DEF SetReturns, Returns, Goto, Waited, WaitsFor, regs
    <3>2. Done /\ Settled("hms")
      BY <2>0, <3>1 DEF Setting
    <3>3. /\ goal'.shows = goal.shows /\ goal'.dated = goal.dated /\ goal'.rolled = goal.rolled
      BY <3>1
    <3>4. Done' /\ Settled("hms")' /\ Settled("ymd")'
      BY <1>0, <3>1, <3>2, <3>3 DEF Done, Now, Settled
    <3>5. goal'.shows # NONE /\ \A u \in Tasks : op'[u] # "set"
      BY <2>1, <3>1, <3>2, <3>3, NoneAssumption DEF Done
    <3> QED
      BY <3>4, <3>5 DEF SetInv
  <2> QED
    BY <1>8, <2>5, <2>6, <2>7, <2>8, <2>9
<1> QED
  BY <1>2, <1>3, <1>4, <1>5, <1>6, <1>7, <1>8 DEF Step


\* A midnight before the date is set puts the clock a day behind.
LEMMA Midnight ==
  ASSUME NEW n \in Nat
  PROVE  /\ n * SEC_IN_DAY \in Int
         /\ (n + 1) * SEC_IN_DAY = n * SEC_IN_DAY + SEC_IN_DAY
         /\ 0 * SEC_IN_DAY = 0
BY DayAssumption

LEMMA TickSets ==
  ASSUME TypeOK, CallInv, SetInv, Tick
  PROVE  SetInv'
<1>0. /\ Now' = Now + 1 /\ Now \in Int /\ SEC_IN_DAY \in Int
      /\ \A day \in Int : At(day, hms') = At(day, hms) + 1 - IF hms' = 0 THEN SEC_IN_DAY ELSE 0
      /\ hms \in Int /\ \A day \in Int : At(day, hms) \in Int
  <2>1. hms \in Int /\ SEC_IN_DAY \in Int
    BY DayAssumption DEF TypeOK, Seconds
  <2> QED
    BY <2>1, TickNow, AtNext
<1>1. /\ pc' = pc /\ op' = op /\ arg' = arg /\ acc' = acc
      /\ goal' = IF goal.shows = NONE THEN goal
                 ELSE [goal EXCEPT !.shows = @ + 1,
                                   !.rolled = IF hms' = 0 /\ ~ goal.dated THEN @ + 1 ELSE @]
  BY DEF Tick, tasks
<1>2. /\ goal'.asked = goal.asked /\ goal'.dated = goal.dated /\ goal'.set = goal.set
      /\ goal.shows = NONE => goal'.shows = NONE /\ goal'.rolled = goal.rolled
      /\ goal.shows # NONE =>
           /\ goal.shows \in Int /\ goal'.shows = goal.shows + 1 /\ goal'.shows # NONE
           /\ goal'.rolled = IF hms' = 0 /\ ~ goal.dated THEN goal.rolled + 1 ELSE goal.rolled
      /\ goal.rolled \in Nat
  BY <1>1, NoneAssumption DEF TypeOK
<1>3. ASSUME NEW d \in Nat, Timed(d)  PROVE Timed(d)'
  <2>1. /\ goal.shows # NONE /\ ~ goal.dated /\ d \in Int
        /\ At(d, hms) = goal.shows - goal.rolled * SEC_IN_DAY
    BY <1>3 DEF Timed
  <2>2. At(d, hms)' = At(d, hms) + 1 - IF hms' = 0 THEN SEC_IN_DAY ELSE 0
    BY <1>0, <2>1 DEF At
  <2>3. goal'.rolled * SEC_IN_DAY
          = goal.rolled * SEC_IN_DAY + IF hms' = 0 THEN SEC_IN_DAY ELSE 0
    <3>1. CASE hms' = 0
      BY <1>2, <2>1, <3>1, Midnight
    <3>2. CASE hms' # 0
      <4>1. goal'.rolled = goal.rolled /\ goal.rolled * SEC_IN_DAY \in Int
        BY <1>2, <2>1, <3>2, Midnight
      <4> QED
        BY <3>2, <4>1
    <3> QED
      BY <3>1, <3>2
  <2>4. goal.rolled * SEC_IN_DAY \in Int
    BY <1>2, Midnight
  <2>5. goal.shows \in Int /\ goal'.shows = goal.shows + 1 /\ At(d, hms) \in Int
    BY <1>0, <1>2, <2>1
  <2>6. At(d, hms)' = goal'.shows - goal'.rolled * SEC_IN_DAY
    BY <1>0, <2>1, <2>2, <2>3, <2>4, <2>5
  <2> QED
    BY <1>2, <2>1, <2>6 DEF Timed
<1>4. ASSUME Done  PROVE Done'
  <2>1. /\ goal.shows # NONE /\ goal.dated
        /\ Now = goal.shows - goal.rolled * SEC_IN_DAY
    BY <1>4 DEF Done
  <2>2. /\ goal.shows \in Int /\ goal'.shows = goal.shows + 1 /\ goal'.rolled = goal.rolled
        /\ goal'.shows # NONE /\ goal'.dated = goal.dated
    BY <1>2, <2>1
  <2>3. goal.rolled * SEC_IN_DAY \in Int
    BY <1>2, Midnight
  <2>4. Now' = goal'.shows - goal'.rolled * SEC_IN_DAY
    BY <1>0, <2>1, <2>2, <2>3
  <2> QED
    BY <2>1, <2>2, <2>4 DEF Done
<1>5. \A r : Settled(r)' <=> Settled(r)
  BY <1>1 DEF Settled
<1>6. ASSUME NEW t \in Tasks, op'[t] = "set"  PROVE Setting(t)'
  <2>1. Setting(t) /\ arg[t].date \in Nat
    BY <1>1, <1>6 DEF SetInv, CallInv, Placed
  <2>2. ASSUME Timed(arg[t].date)  PROVE Timed(arg[t].date)'
    <3>1. PICK date \in Nat : date = arg[t].date
      BY <2>1
    <3>2. Timed(date)
      BY <2>2, <3>1 DEF Timed
    <3>3. Timed(date)'
      BY <1>3, <3>2
    <3> QED
      BY <1>1, <3>1, <3>3 DEF Timed, At
  <2>3. At(arg[t].date, arg[t].time)' = At(arg[t].date, arg[t].time)
    BY <1>1 DEF At
  <2> QED
    BY <1>1, <1>2, <1>4, <1>5, <2>1, <2>2, <2>3 DEF Setting
<1>7. goal'.shows = NONE => goal'.rolled = 0 /\ ~ goal'.dated
  BY <1>2 DEF SetInv
<1>8. goal'.set => Done' /\ Settled("hms")' /\ Settled("ymd")' /\ \A t \in Tasks : op'[t] # "set"
  BY <1>1, <1>2, <1>4, <1>5 DEF SetInv
<1> QED
  BY <1>6, <1>7, <1>8 DEF SetInv

\* The time takes effect while its task sleeps before it writes the date.
LEMMA HmsSets ==
  ASSUME TypeOK, CallInv, SetInv, Lands("hms")
  PROVE  SetInv'
<1>1. /\ ~ Settled("hms") /\ acc' = [acc EXCEPT !["hms"] = NONE]
      /\ hms' = acc.hms /\ ymd' = ymd
      /\ pc' = pc /\ op' = op /\ arg' = arg
      /\ goal' = [goal EXCEPT
           !.shows = IF \E t \in Tasks : pc[t] = "settle" THEN goal.asked ELSE @,
           !.dated = @ \/ \E t \in Tasks : pc[t] = "last"]
  BY DEF Lands, tasks
<1>2. /\ goal'.shows = IF \E t \in Tasks : pc[t] = "settle" THEN goal.asked ELSE goal.shows
      /\ goal'.dated = (goal.dated \/ \E t \in Tasks : pc[t] = "last")
      /\ goal'.rolled = goal.rolled /\ goal'.set = goal.set /\ goal'.asked = goal.asked
      /\ goal.asked # NONE
      /\ acc'.hms = NONE
  BY <1>1, NoneAssumption DEF TypeOK
<1>3. ~ goal.set
  BY <1>1 DEF SetInv
<1>4. \A t \in Tasks : pc[t] # "last"
  BY <1>1 DEF SetInv, CallInv, Placed, Stages, Setting
<1>5. goal'.shows = NONE => goal'.rolled = 0 /\ ~ goal'.dated
  BY <1>2, <1>4 DEF SetInv
<1>6. ASSUME NEW t \in Tasks, op'[t] = "set"  PROVE Setting(t)'
  <2>1. /\ op[t] = "set" /\ Setting(t) /\ pc[t] \in {"zero", "hms", "settle"}
        /\ arg[t].date \in Nat /\ arg[t].time \in Seconds
    BY <1>1, <1>4, <1>6 DEF SetInv, CallInv, Placed, Stages, Setting
  <2>2. \A u \in Tasks : pc[u] = "settle" => u = t
    BY <2>1, NoneAssumption DEF CallInv, Placed, Stages
  <2>3. goal.shows = NONE /\ goal.rolled = 0 /\ ~ goal.dated
    BY <1>1, <2>1 DEF Setting, SetInv
  <2>4. goal'.asked = At(arg[t].date, arg[t].time)'
    BY <1>1, <1>2, <2>1 DEF Setting, At
  <2>5. CASE pc[t] \in {"zero", "hms"}
    <3>1. goal'.shows = NONE
      BY <1>2, <2>2, <2>3, <2>5
    <3> QED
      BY <1>1, <2>4, <2>5, <3>1 DEF Setting
  <2>6. CASE pc[t] = "settle"
    <3>1. /\ hms' = arg[t].time /\ goal'.shows = goal.asked /\ ~ goal'.dated
          /\ goal'.rolled = 0 /\ goal'.shows # NONE
      BY <1>1, <1>2, <1>4, <2>1, <2>3, <2>6 DEF Setting
    <3>2. /\ At(arg[t].date, arg[t].time) = goal.asked
          /\ At(arg[t].date, arg[t].time) \in Int
      <4>1. arg[t].date \in Int /\ arg[t].time \in Int
        BY <2>1 DEF Seconds
      <4> QED
        BY <2>1, <4>1, AtNext DEF Setting
    <3>3. 0 * SEC_IN_DAY = 0
      BY Midnight
    <3>4. Timed(arg[t].date)'
      BY <1>1, <3>1, <3>2, <3>3 DEF Timed, At
    <3>5. Settled("hms")'
      BY <1>2 DEF Settled
    <3> QED
      BY <1>1, <2>4, <2>6, <3>4, <3>5 DEF Setting
  <2> QED
    BY <2>1, <2>5, <2>6
<1> QED
  BY <1>2, <1>3, <1>5, <1>6 DEF SetInv

LEMMA YmdSets ==
  ASSUME TypeOK, CallInv, SetInv, Lands("ymd")
  PROVE  SetInv'
<1>1. /\ ~ Settled("ymd") /\ acc' = [acc EXCEPT !["ymd"] = NONE]
      /\ hms' = hms /\ ymd' = acc.ymd
      /\ pc' = pc /\ op' = op /\ arg' = arg
      /\ goal' = [goal EXCEPT !.shows = @,
                              !.dated = @ \/ \E t \in Tasks : pc[t] = "last"]
  BY DEF Lands, tasks
<1>2. /\ goal'.shows = goal.shows
      /\ goal'.dated = (goal.dated \/ \E t \in Tasks : pc[t] = "last")
      /\ goal'.rolled = goal.rolled /\ goal'.set = goal.set /\ goal'.asked = goal.asked
      /\ acc'.ymd = NONE /\ acc'.hms = acc.hms
  BY <1>1 DEF TypeOK
<1>3. ~ goal.set
  BY <1>1 DEF SetInv
<1>4. \A t \in Tasks : pc[t] = "last" =>
        /\ acc.ymd = arg[t].date /\ Timed(arg[t].date) /\ Settled("hms")
  BY <1>1 DEF SetInv, CallInv, Placed, Stages, Setting
<1>5. goal'.shows = NONE => goal'.rolled = 0 /\ ~ goal'.dated
  BY <1>2, <1>4 DEF SetInv, Timed
<1>6. ASSUME NEW t \in Tasks, op'[t] = "set"  PROVE Setting(t)'
  <2>1. op[t] = "set" /\ Setting(t) /\ pc[t] \in Stages
    BY <1>1, <1>6 DEF SetInv, CallInv, Placed
  <2>2. \A u \in Tasks : pc[u] = "last" => u = t
    BY <2>1, NoneAssumption DEF CallInv, Placed, Stages
  <2>3. goal'.asked = At(arg[t].date, arg[t].time)'
    BY <1>1, <1>2, <2>1 DEF Setting, At
  <2>4. CASE pc[t] # "last"
    <3>1. goal'.dated = goal.dated
      BY <1>2, <2>2, <2>4 DEF TypeOK
    <3>2. Timed(arg[t].date)' <=> Timed(arg[t].date)
      BY <1>1, <1>2, <3>1 DEF Timed, At
    <3>3. Settled("hms")' <=> Settled("hms")
      BY <1>2 DEF Settled
    <3> QED
      BY <1>1, <1>2, <2>1, <2>3, <2>4, <3>2, <3>3 DEF Setting
  <2>5. CASE pc[t] = "last"
    <3>1. ymd' = arg[t].date /\ Timed(arg[t].date) /\ Settled("hms")
      BY <1>1, <1>4, <2>5
    <3>2. Done'
      BY <1>1, <1>2, <2>5, <3>1 DEF Done, Timed, Now, At
    <3>3. Settled("hms")' /\ Settled("ymd")'
      BY <1>2, <3>1 DEF Settled
    <3> QED
      BY <1>1, <2>3, <2>5, <3>2, <3>3 DEF Setting
  <2> QED
    BY <2>4, <2>5
<1> QED
  BY <1>2, <1>3, <1>5, <1>6 DEF SetInv

LEMMA IrqSets ==
  ASSUME SetInv, AlarmIrq
  PROVE  SetInv'
BY SetKept DEF AlarmIrq, regs, tasks


\* One moment is before another or not.
LEMMA NowType ==
  ASSUME TypeOK
  PROVE  Now \in Int /\ (due # NONE => due \in Int)
<1>1. ymd \in Int /\ hms \in Int
  BY DEF TypeOK, Seconds
<1> QED
  BY <1>1, AtNext DEF Now, TypeOK

LEMMA AlarmKept ==
  ASSUME AlarmInv, alrm' = alrm, due' = due, rang' = rang, ymd' = ymd, hms' = hms,
         \A u \in Tasks : pc'[u] = "off" /\ op'[u] = "alarm"
                            => pc[u] = "off" /\ op[u] = "alarm" /\ seen'[u] = seen[u]
  PROVE  AlarmInv'
<1>1. Now' = Now
  BY DEF Now, At
<1> QED
  BY <1>1 DEF AlarmInv, Slipped, At

\* The first part of AlarmInv.
DueInv ==
  due # NONE =>
    /\ due = At(alrm.day, alrm.sec)
    /\ IF Now < due THEN ~ rang /\ ~ alrm.pend ELSE alrm.en => rang # alrm.pend

LEMMA StepAlarms ==
  ASSUME AlarmsValid, TypeOK, CallInv, AlarmInv, NEW t \in Tasks, Step(t)
  PROVE  AlarmInv'
<1>0. /\ ymd' = ymd /\ hms' = hms /\ Now' = Now
      /\ \A u \in Tasks : u # t => op'[u] = op[u] /\ pc'[u] = pc[u] /\ seen'[u] = seen[u]
      /\ DOMAIN pc = Tasks /\ DOMAIN op = Tasks /\ DOMAIN seen = Tasks
  BY StepClock, StepAlone DEF Alone, TypeOK, Now, At
<1>1. ASSUME alrm' = alrm, due' = due, rang' = rang,
             pc'[t] = "off" /\ op'[t] = "alarm"
               => pc[t] = "off" /\ op[t] = "alarm" /\ seen'[t] = seen[t]
      PROVE  AlarmInv'
  BY <1>0, <1>1, AlarmKept
<1>2. ASSUME DueInv', \A u \in Tasks : op'[u] # "alarm"
      PROVE  AlarmInv'
  BY <1>2 DEF DueInv, AlarmInv
<1>3. ASSUME DueInv', ~ alrm'.pend
      PROVE  AlarmInv'
  BY <1>3 DEF DueInv, AlarmInv
<1>4. ASSUME op[t] \notin {NONE, "get"}, op'[t] # "alarm"
      PROVE  \A u \in Tasks : op'[u] # "alarm"
  BY <1>0, <1>4, NoneAssumption DEF CallInv
<1>5. DueInv /\ alrm.en \in BOOLEAN /\ alrm.pend \in BOOLEAN /\ rang \in BOOLEAN
  BY DEF AlarmInv, DueInv, TypeOK
<1>6. \A to, a : a \in [day : Int, sec : Seconds, en : BOOLEAN, irqEn : BOOLEAN, pend : BOOLEAN] =>
        /\ Enabled(to, a).day = a.day /\ Enabled(to, a).sec = a.sec
        /\ to => Enabled(to, a).en = TRUE /\ Enabled(to, a).pend = a.pend
        /\ ~ to => Enabled(to, a).en = FALSE /\ Enabled(to, a).pend = FALSE
  BY DEF Enabled, Disabled, Acked
<1>7. alrm \in [day : Int, sec : Seconds, en : BOOLEAN, irqEn : BOOLEAN, pend : BOOLEAN]
  BY DEF TypeOK
<1>8. CASE GetTime(t) \/ SetAlarm(t) \/ SetTime(t) \/ RegisterCallback(t)
  BY <1>0, <1>1, <1>8
     DEF GetTime, SetAlarm, SetTime, RegisterCallback, Begins, Goto, Quick, tasks
<1>9. CASE GetReturns(t) \/ SetReturns(t) \/ SetFails(t) \/ AlarmRefused(t)
  BY <1>0, <1>1, <1>9 DEF GetReturns, SetReturns, SetFails, AlarmRefused, Returns, Goto
<1>10. CASE ReadDate(t) \/ ReadTime(t) \/ ReadDateAgain(t) \/ ReadTimeAgain(t)
  BY <1>0, <1>1, <1>10 DEF ReadDate, ReadTime, ReadDateAgain, ReadTimeAgain, Goto
<1>11. CASE SetZero(t) \/ SetHms(t) \/ SetSettles(t) \/ SetYmd(t)
  BY <1>0, <1>1, <1>11 DEF SetZero, SetHms, SetSettles, SetYmd, SetWrites, Goto
<1>12. CASE AlarmAck(t) \/ AlarmIrqAck(t)
  <2>1. alrm' = Acked(alrm) /\ due' = NotPending /\ rang' = rang
    BY <1>12 DEF AlarmAck, AlarmIrqAck
  <2>2. /\ alrm'.pend = FALSE /\ alrm'.day = alrm.day /\ alrm'.sec = alrm.sec
        /\ alrm'.en = alrm.en
    BY <1>7, <2>1 DEF Acked
  <2>3. due' # NONE => due' = due /\ alrm.pend = FALSE
    BY <1>5, <2>1 DEF NotPending
  <2>4. DueInv'
    BY <1>0, <1>5, <2>1, <2>2, <2>3 DEF DueInv, At
  <2> QED
    BY <1>3, <2>2, <2>4
<1>13. CASE AlarmProgram(t)
  <2>1. /\ op[t] = "alarm" /\ pc[t] = "off" /\ pc'[t] = "arm" /\ op' = op
        /\ alrm' = [Disabled(alrm) EXCEPT !.day = AlarmDay(t), !.sec = arg[t].tm.sec]
        /\ due' = IF DayRight(t) /\ ~ Slipped(t) THEN At(RefDay(arg[t].tm), arg[t].tm.sec)
                  ELSE NONE
        /\ rang' = FALSE
    BY <1>0, <1>13 DEF AlarmProgram, Goto
  <2>2. /\ alrm'.day = AlarmDay(t) /\ alrm'.sec = arg[t].tm.sec /\ alrm'.en = FALSE
        /\ alrm'.pend = alrm.pend
    BY <1>7, <2>1 DEF Disabled
  <2>3. ~ Slipped(t) => ~ alrm.pend
    BY <2>1 DEF AlarmInv
  <2>4. arg[t].tm.mday \in Int
    BY <2>1 DEF CallInv, Placed, AlarmsValid
  <2>5. DayRight(t) => RefDay(arg[t].tm) = AlarmDay(t)
    BY <2>4, AlarmDayIs
  <2>6. DueInv'
    BY <2>1, <2>2, <2>3, <2>5 DEF DueInv, At
  <2>7. \A u \in Tasks : u # t => op'[u] # "alarm"
    BY <1>0, <2>1, NoneAssumption DEF CallInv
  <2> QED
    BY <2>1, <2>6, <2>7 DEF AlarmInv, DueInv
<1>14. ASSUME NEW to, NEW a, a \in [day : Int, sec : Seconds, en : BOOLEAN, irqEn : BOOLEAN,
                                     pend : BOOLEAN],
              a.day = alrm.day, a.sec = alrm.sec, a.en = alrm.en, a.pend = alrm.pend,
              alrm' = Enabled(to, a), due' = StillDue(to), rang' = rang
       PROVE  DueInv'
  <2>1. /\ alrm'.day = alrm.day /\ alrm'.sec = alrm.sec
        /\ to => alrm'.en = TRUE /\ alrm'.pend = alrm.pend
        /\ ~ to => alrm'.en = FALSE /\ alrm'.pend = FALSE
    BY <1>6, <1>14
  <2>2. due' # NONE => due' = due /\ (to => alrm.en \/ ~ (due <= Now))
    BY <1>14 DEF StillDue, TooLate
  <2>3. due # NONE => (~ (due <= Now) <=> Now < due)
    BY NowType
  <2>4. CASE due' = NONE
    BY <2>4 DEF DueInv
  <2>5. CASE due' # NONE
    <3>1. /\ due' = due /\ due = At(alrm.day, alrm.sec) /\ due = At(alrm.day, alrm.sec)'
          /\ IF Now < due THEN ~ rang /\ ~ alrm.pend ELSE alrm.en => rang # alrm.pend
          /\ to => alrm.en \/ Now < due
      BY <1>5, <2>1, <2>2, <2>3, <2>5 DEF DueInv, At
    <3>2. CASE Now < due
      BY <1>0, <1>5, <1>14, <2>1, <3>1, <3>2 DEF DueInv
    <3>3. CASE ~ (Now < due)
      BY <1>0, <1>5, <1>14, <2>1, <3>1, <3>3 DEF DueInv
    <3> QED
      BY <3>2, <3>3
  <2> QED
    BY <2>4, <2>5
<1>15. CASE AlarmArm(t)
  <2>1. /\ op'[t] # "alarm" /\ op[t] = "alarm"
        /\ alrm' = Enabled(arg[t].enabled, [alrm EXCEPT !.irqEn = TRUE])
        /\ due' = StillDue(arg[t].enabled) /\ rang' = rang
    BY <1>0, <1>15, NoneAssumption DEF AlarmArm, Returns, Goto, CallInv, Placed
  <2> DEFINE a == [alrm EXCEPT !.irqEn = TRUE]
  <2>2. /\ a \in [day : Int, sec : Seconds, en : BOOLEAN, irqEn : BOOLEAN, pend : BOOLEAN]
        /\ a.day = alrm.day /\ a.sec = alrm.sec /\ a.en = alrm.en /\ a.pend = alrm.pend
    BY <1>7
  <2>3. alrm' = Enabled(arg[t].enabled, a)
    BY <2>1
  <2> HIDE DEF a
  <2>4. DueInv'
    BY <1>14, <2>1, <2>2, <2>3
  <2> QED
    BY <1>2, <1>4, <2>1, <2>4, NoneAssumption
<1>16. CASE AlarmIrqEnable(t)
  <2>1. /\ alrm' = Enabled(TRUE, alrm) /\ due' = StillDue(TRUE) /\ rang' = rang /\ op' = op
        /\ \A u \in Tasks : op[u] \in {NONE, "get"}
    BY <1>16, NoneAssumption DEF AlarmIrqEnable, Quick, Free, tasks
  <2>2. DueInv'
    BY <1>7, <1>14, <2>1
  <2> QED
    BY <1>2, <2>1, <2>2, NoneAssumption
<1>17. CASE AlarmIrqDisable(t)
  <2>1. /\ op[t] = "irq" /\ op'[t] = NONE /\ alrm' = Disabled(alrm)
        /\ due' = due /\ rang' = rang
    BY <1>0, <1>17 DEF AlarmIrqDisable, Returns
  <2>2. /\ alrm'.day = alrm.day /\ alrm'.sec = alrm.sec /\ alrm'.en = FALSE
        /\ alrm'.pend = alrm.pend
    BY <1>7, <2>1 DEF Disabled
  <2>3. DueInv'
    BY <1>0, <1>5, <2>1, <2>2 DEF DueInv, At
  <2> QED
    BY <1>2, <1>4, <2>1, <2>3, NoneAssumption
<1>18. CASE Reinit(t)
  <2>1. alrm' = Enabled(FALSE, alrm) /\ due' = NONE
    BY <1>18 DEF Reinit
  <2>2. alrm'.pend = FALSE
    BY <1>6, <1>7, <2>1
  <2> QED
    BY <1>3, <2>1, <2>2 DEF DueInv
<1> QED
  BY <1>8, <1>9, <1>10, <1>11, <1>12, <1>13, <1>15, <1>16, <1>17, <1>18 DEF Step

\* The alarm goes off exactly as the clock comes to its moment.
LEMMA TickAlarms ==
  ASSUME TypeOK, AlarmInv, Tick
  PROVE  AlarmInv'
<1>1. /\ Now' = Now + 1 /\ Now \in Int /\ hms' \in Seconds /\ ymd' \in Nat
      /\ due # NONE => due \in Int
  BY TickNow, NowType
<1>2. /\ due' = due /\ rang' = rang /\ pc' = pc /\ op' = op
      /\ alrm' = [alrm EXCEPT !.pend = @ \/ (alrm.en /\ <<alrm.day, alrm.sec>> = <<ymd', hms'>>)]
      /\ seen' = [u \in Tasks |-> IF Reading(u) THEN seen[u] \cup {<<ymd', hms'>>} ELSE seen[u]]
  BY DEF Tick, tasks, Shows
<1>3. /\ alrm.day \in Int /\ alrm.sec \in Seconds /\ alrm.en \in BOOLEAN
      /\ alrm.pend \in BOOLEAN /\ rang \in BOOLEAN
  BY DEF TypeOK
<1> DEFINE comes == alrm.day = ymd' /\ alrm.sec = hms'
<1>4. /\ alrm'.day = alrm.day /\ alrm'.sec = alrm.sec /\ alrm'.en = alrm.en
      /\ alrm'.pend = (alrm.pend \/ (alrm.en /\ comes))
  BY <1>2 DEF TypeOK
<1>5. due # NONE => (due = Now' <=> comes)
  <2>1. due # NONE => due = At(alrm.day, alrm.sec)
    BY DEF AlarmInv
  <2>2. At(alrm.day, alrm.sec) = At(ymd', hms') => comes
    <3>1. ymd' \in Int
      BY <1>1
    <3> QED
      BY <1>1, <1>3, <3>1, AtOnce
  <2>3. Now' = At(ymd', hms')
    BY DEF Now, At
  <2> QED
    BY <2>1, <2>2, <2>3
<1> HIDE DEF comes
<1>6. DueInv'
  <2>1. CASE due = NONE
    BY <1>2, <2>1 DEF DueInv
  <2>2. CASE due # NONE
    <3>1. /\ due = At(alrm.day, alrm.sec)' /\ due \in Int
          /\ IF Now < due THEN ~ rang /\ ~ alrm.pend ELSE alrm.en => rang # alrm.pend
      BY <1>1, <1>4, <2>2 DEF AlarmInv, At
    <3>2. CASE Now + 1 < due
      <4>1. Now < due /\ due # Now + 1 /\ Now' < due
        BY <1>1, <3>1, <3>2
      <4>2. ~ rang /\ ~ alrm.pend /\ ~ comes
        BY <1>1, <1>5, <2>2, <3>1, <4>1
      <4> QED
        BY <1>2, <1>4, <3>1, <4>1, <4>2 DEF DueInv
    <3>3. CASE due = Now + 1
      <4>1. Now < due /\ ~ (Now' < due)
        BY <1>1, <3>1, <3>3
      <4>2. ~ rang /\ ~ alrm.pend /\ comes
        BY <1>1, <1>5, <2>2, <3>1, <3>3, <4>1
      <4> QED
        BY <1>2, <1>4, <3>1, <4>1, <4>2 DEF DueInv
    <3>4. CASE due < Now + 1
      <4>1. ~ (Now < due) /\ ~ (Now' < due) /\ due # Now + 1
        BY <1>1, <3>1, <3>4
      <4>2. (alrm.en => rang # alrm.pend) /\ ~ comes
        BY <1>1, <1>5, <2>2, <3>1, <4>1
      <4> QED
        BY <1>2, <1>3, <1>4, <3>1, <4>1, <4>2 DEF DueInv
    <3> QED
      BY <1>1, <3>1, <3>2, <3>3, <3>4
  <2> QED
    BY <2>1, <2>2
<1>7. ASSUME NEW u \in Tasks, pc'[u] = "off", op'[u] = "alarm", alrm'.pend
      PROVE  Slipped(u)'
  <2>1. seen'[u] = seen[u] \cup {<<ymd', hms'>>} /\ pc[u] = "off" /\ op[u] = "alarm"
    BY <1>2, <1>7 DEF Reading
  <2>2. CASE alrm.pend
    BY <1>4, <2>1, <2>2 DEF AlarmInv, Slipped
  <2>3. CASE ~ alrm.pend
    BY <1>3, <1>4, <1>7, <2>1, <2>3 DEF Slipped, comes
  <2> QED
    BY <2>2, <2>3
<1> QED
  BY <1>6, <1>7 DEF AlarmInv, DueInv

LEMMA LandAlarms ==
  ASSUME TypeOK, AlarmInv, NEW r \in {"ymd", "hms"}, Lands(r)
  PROVE  AlarmInv'
<1>1. due' = NONE /\ alrm' = alrm /\ pc' = pc /\ op' = op
  BY DEF Lands, tasks
<1>2. \A u \in Tasks : seen[u] \subseteq seen'[u]
  BY DEF Lands, Shows
<1> QED
  BY <1>1, <1>2 DEF AlarmInv, Slipped

LEMMA IrqAlarms ==
  ASSUME TypeOK, AlarmInv, AlarmIrq
  PROVE  AlarmInv'
<1>1. /\ alrm.pend /\ alrm' = [alrm EXCEPT !.pend = FALSE]
      /\ rang' = (rang \/ user_callback) /\ due' = IF user_callback THEN due ELSE NONE
      /\ Now' = Now
  BY DEF AlarmIrq, regs, Now, At
<1>2. /\ alrm'.pend = FALSE /\ alrm'.day = alrm.day /\ alrm'.sec = alrm.sec
  BY <1>1 DEF TypeOK
<1>3. due' # NONE => due' = due /\ rang' = TRUE
  BY <1>1 DEF TypeOK
<1>4. due # NONE => due = At(alrm.day, alrm.sec)' /\ ~ (Now < due)
  BY <1>1, <1>2 DEF AlarmInv, At
<1> QED
  BY <1>1, <1>2, <1>3, <1>4 DEF AlarmInv


LEMMA LateKept ==
  ASSUME LateInv, alrm' = alrm, due' = due \/ due' = NONE, rang' = rang, missed' = missed,
         ymd' = ymd, hms' = hms, \A u \in Tasks : pc'[u] = "arm" => pc[u] = "arm"
  PROVE  LateInv'
BY DEF LateInv, Unrung, Now, At

LEMMA StepLate ==
  ASSUME TypeOK, CallInv, AlarmInv, LateInv, NEW t \in Tasks, Step(t)
  PROVE  LateInv'
<1>0. /\ ymd' = ymd /\ hms' = hms /\ Now' = Now
      /\ \A u \in Tasks : u # t => op'[u] = op[u] /\ pc'[u] = pc[u]
      /\ DOMAIN pc = Tasks /\ DOMAIN op = Tasks
  BY StepClock, StepAlone DEF Alone, TypeOK, Now, At
<1>1. ASSUME alrm' = alrm, due' = due, rang' = rang, missed' = missed,
             pc'[t] = "arm" => pc[t] = "arm"
      PROVE  LateInv'
  BY <1>0, <1>1, LateKept
<1>2. alrm \in [day : Int, sec : Seconds, en : BOOLEAN, irqEn : BOOLEAN, pend : BOOLEAN]
  BY DEF TypeOK
<1>3. ASSUME op[t] \notin {NONE, "get"}
      PROVE  \A u \in Tasks : u # t => pc'[u] # "arm"
  BY <1>0, <1>3, NoneAssumption DEF CallInv, Placed
<1>4. ASSUME \A u \in Tasks : op[u] \in {NONE, "get"}
      PROVE  \A u \in Tasks : pc[u] # "arm"
  BY <1>4, NoneAssumption DEF CallInv, Placed
<1>5. ASSUME alrm'.day = alrm.day, alrm'.sec = alrm.sec, alrm'.pend => alrm.pend,
             rang' = rang, missed' => missed, \A u \in Tasks : pc'[u] # "arm"
      PROVE  LateInv'
  BY <1>0, <1>5 DEF LateInv, Unrung, At
<1>6. CASE GetTime(t) \/ SetAlarm(t) \/ SetTime(t) \/ RegisterCallback(t)
  BY <1>0, <1>1, <1>6
     DEF GetTime, SetAlarm, SetTime, RegisterCallback, Begins, Goto, Quick, tasks
<1>7. CASE GetReturns(t) \/ SetReturns(t) \/ SetFails(t) \/ AlarmRefused(t)
  BY <1>0, <1>1, <1>7 DEF GetReturns, SetReturns, SetFails, AlarmRefused, Returns, Goto
<1>8. CASE ReadDate(t) \/ ReadTime(t) \/ ReadDateAgain(t) \/ ReadTimeAgain(t)
  BY <1>0, <1>1, <1>8 DEF ReadDate, ReadTime, ReadDateAgain, ReadTimeAgain, Goto
<1>9. CASE SetZero(t) \/ SetHms(t) \/ SetSettles(t) \/ SetYmd(t)
  BY <1>0, <1>1, <1>9 DEF SetZero, SetHms, SetSettles, SetYmd, SetWrites, Goto
<1>10. CASE AlarmAck(t) \/ AlarmIrqAck(t)
  <2>1. /\ alrm' = Acked(alrm) /\ rang' = rang /\ missed' = missed /\ pc'[t] # "arm"
        /\ op[t] = "alarm" \/ \A u \in Tasks : op[u] \in {NONE, "get"}
    BY <1>0, <1>10, NoneAssumption DEF AlarmAck, AlarmIrqAck, Begins, Free, Goto
  <2>2. alrm'.day = alrm.day /\ alrm'.sec = alrm.sec /\ alrm'.pend = FALSE
    BY <1>2, <2>1 DEF Acked
  <2> QED
    BY <1>0, <1>3, <1>4, <1>5, <2>1, <2>2, NoneAssumption
<1>11. CASE AlarmProgram(t)
  <2>1. /\ op[t] = "alarm" /\ pc[t] = "off" /\ missed' = FALSE /\ rang' = FALSE
        /\ alrm' = [Disabled(alrm) EXCEPT !.day = AlarmDay(t), !.sec = arg[t].tm.sec]
        /\ due' # NONE => ~ Slipped(t)
    BY <1>0, <1>11 DEF AlarmProgram, Goto
  <2>2. alrm'.en = FALSE /\ alrm'.pend = alrm.pend
    BY <1>2, <2>1 DEF Disabled
  <2>3. due' # NONE => ~ alrm'.pend
    BY <2>1, <2>2 DEF AlarmInv
  <2> QED
    BY <2>1, <2>2, <2>3 DEF LateInv, Unrung
<1>12. CASE AlarmArm(t)
  <2>1. /\ op[t] = "alarm" /\ pc[t] = "arm" /\ pc'[t] = "idle" /\ rang' = rang
        /\ alrm' = Enabled(arg[t].enabled, [alrm EXCEPT !.irqEn = TRUE])
        /\ missed' = TooLate(arg[t].enabled)
    BY <1>0, <1>12 DEF AlarmArm, Returns, Goto, CallInv, Placed
  <2>2. alrm'.day = alrm.day /\ alrm'.sec = alrm.sec /\ (alrm'.pend => alrm.pend)
    BY <1>2, <2>1 DEF Enabled, Disabled, Acked
  <2>3. \A u \in Tasks : pc'[u] # "arm"
    BY <1>3, <2>1, NoneAssumption
  <2>4. missed' => Unrung /\ At(alrm.day, alrm.sec) <= Now
    BY <2>1 DEF TooLate, LateInv, AlarmInv
  <2> QED
    BY <1>0, <2>1, <2>2, <2>3, <2>4 DEF LateInv, Unrung, At
<1>13. CASE AlarmIrqEnable(t)
  <2>1. /\ alrm' = Enabled(TRUE, alrm) /\ rang' = rang /\ missed' = missed /\ pc' = pc
        /\ \A u \in Tasks : op[u] \in {NONE, "get"}
    BY <1>13, NoneAssumption DEF AlarmIrqEnable, Quick, Free, tasks
  <2>2. alrm'.day = alrm.day /\ alrm'.sec = alrm.sec /\ alrm'.pend = alrm.pend
    BY <1>2, <2>1 DEF Enabled
  <2> QED
    BY <1>4, <1>5, <2>1, <2>2
<1>14. CASE AlarmIrqDisable(t)
  <2>1. /\ op[t] = "irq" /\ pc'[t] = "idle" /\ alrm' = Disabled(alrm)
        /\ rang' = rang /\ missed' = missed
    BY <1>0, <1>14 DEF AlarmIrqDisable, Returns, Goto
  <2>2. alrm'.day = alrm.day /\ alrm'.sec = alrm.sec /\ alrm'.pend = alrm.pend
    BY <1>2, <2>1 DEF Disabled
  <2> QED
    BY <1>3, <1>5, <2>1, <2>2, NoneAssumption
<1>15. CASE Reinit(t)
  <2>1. /\ alrm' = Enabled(FALSE, alrm) /\ missed' = FALSE /\ pc' = pc
        /\ \A u \in Tasks : op[u] \in {NONE, "get"}
    BY <1>15, NoneAssumption DEF Reinit, Quick, Free, tasks
  <2> QED
    BY <1>4, <2>1 DEF LateInv
<1> QED
  BY <1>6, <1>7, <1>8, <1>9, <1>10, <1>11, <1>12, <1>13, <1>14, <1>15 DEF Step

\* A moment that is over does not come again.
LEMMA TickLate ==
  ASSUME TypeOK, LateInv, Tick
  PROVE  LateInv'
<1>1. Now' = Now + 1 /\ Now \in Int
  BY TickNow, NowType
<1>2. /\ due' = due /\ rang' = rang /\ missed' = missed /\ pc' = pc
      /\ alrm' = [alrm EXCEPT !.pend = @ \/ (alrm.en /\ <<alrm.day, alrm.sec>> = <<ymd', hms'>>)]
  BY DEF Tick, tasks
<1>3. /\ alrm'.day = alrm.day /\ alrm'.sec = alrm.sec /\ alrm'.en = alrm.en
      /\ alrm'.pend => alrm.pend \/ (alrm.en /\ At(alrm.day, alrm.sec) = Now')
  BY <1>2 DEF TypeOK, Now, At
<1>4. At(alrm.day, alrm.sec) \in Int
  BY AtNext DEF TypeOK, Seconds
<1>5. ASSUME missed  PROVE Unrung' /\ At(alrm.day, alrm.sec)' <= Now'
  <2>1. Unrung /\ At(alrm.day, alrm.sec) <= Now
    BY <1>5 DEF LateInv
  <2>2. At(alrm.day, alrm.sec)' = At(alrm.day, alrm.sec)
    BY <1>3 DEF At
  <2> QED
    BY <1>1, <1>2, <1>3, <1>4, <2>1, <2>2 DEF Unrung
<1> QED
  BY <1>2, <1>3, <1>5 DEF LateInv, Unrung

LEMMA LandLate ==
  ASSUME LateInv, NEW r \in {"ymd", "hms"}, Lands(r)
  PROVE  LateInv'
BY DEF LateInv, Lands, tasks

LEMMA IrqLate ==
  ASSUME TypeOK, LateInv, AlarmIrq
  PROVE  LateInv'
<1>1. /\ alrm.pend /\ alrm' = [alrm EXCEPT !.pend = FALSE] /\ missed' = missed
      /\ due' = IF user_callback THEN due ELSE NONE
      /\ pc' = pc
  BY DEF AlarmIrq, tasks
<1>2. ~ missed /\ \A u \in Tasks : pc[u] = "arm" => due = NONE
  BY <1>1 DEF LateInv, Unrung
<1>3. alrm'.en = alrm.en
  BY <1>1 DEF TypeOK
<1> QED
  BY <1>1, <1>2, <1>3 DEF LateInv

-----------------------------------------------------------------------------
(* The invariant and what follows from it.                                 *)

LEMMA InitInv ==
  ASSUME Init
  PROVE  IInv
<1>0. 0 \in Seconds
  BY DayAssumption DEF Seconds
<1>1. /\ ymd \in Nat /\ hms \in Seconds /\ user_callback \in BOOLEAN
      /\ acc = [ymd |-> NONE, hms |-> NONE]
      /\ alrm = [day |-> 0, sec |-> 0, en |-> FALSE, irqEn |-> FALSE, pend |-> FALSE]
      /\ pc = [t \in Tasks |-> "idle"] /\ op = [t \in Tasks |-> NONE]
      /\ read = [t \in Tasks |-> <<0, 0>>] /\ arg = [t \in Tasks |-> NONE]
      /\ seen = [t \in Tasks |-> {}] /\ turns = [t \in Tasks |-> 0]
      /\ goal = NoGoal /\ due = NONE /\ rang = FALSE /\ missed = FALSE
  BY <1>0, DaysAssumption DEF Init
<1>2. TypeOK
  <2>1. <<0, 0>> \in Nat \X Seconds
    BY <1>0
  <2>2. read \in [Tasks -> Nat \X Seconds]
    BY <1>1, <2>1
  <2>3. goal \in [asked : Int, shows : Int \cup {NONE}, dated : BOOLEAN, rolled : Nat,
                  set : BOOLEAN]
    BY <1>1 DEF NoGoal
  <2>4. /\ acc \in [ymd : Nat \cup {NONE}, hms : Seconds \cup {NONE}]
        /\ alrm \in [day : Int, sec : Seconds, en : BOOLEAN, irqEn : BOOLEAN, pend : BOOLEAN]
    BY <1>0, <1>1
  <2>5. /\ op \in [Tasks -> {NONE, "get", "set", "alarm", "irq"}]
        /\ pc \in [Tasks -> {"idle", "date", "time", "date2", "time2", "got", "zero", "hms",
                            "settle", "ymd", "last", "off", "arm"}]
        /\ DOMAIN arg = Tasks /\ DOMAIN seen = Tasks /\ turns \in [Tasks -> Nat]
    BY <1>1
  <2>6. rang \in BOOLEAN /\ missed \in BOOLEAN /\ due \in Int \cup {NONE}
    BY <1>1
  <2> QED
    BY <1>1, <2>2, <2>3, <2>4, <2>5, <2>6 DEF TypeOK
<1>3. CallInv
  BY <1>1, NoneAssumption DEF CallInv, Placed, Stages
<1>4. ReadInv
  BY <1>1 DEF ReadInv, Reads
<1>5. AlarmInv
  BY <1>1 DEF AlarmInv
<1>6. LateInv
  BY <1>1 DEF LateInv
<1> QED
  BY <1>2, <1>3, <1>4, <1>5, <1>6, SetInit DEF IInv

\* A step of the hardware and a stuttering step leave the tasks where they are.
LEMMA NextInv ==
  ASSUME DatesValid, AlarmsValid, IInv, [Next]_vars
  PROVE  IInv'
<1> USE DEF IInv
<1>1. ASSUME NEW t \in Tasks, Step(t)  PROVE IInv'
  BY <1>1, StepTypes, StepCalls, StepReads, StepSets, StepAlarms, StepLate
<1>2. CASE AlarmIrq
  <2>1. UNCHANGED tasks
    BY <1>2 DEF AlarmIrq
  <2> QED
    BY <1>2, <2>1, IrqTypes, OtherCalls, IrqReads, IrqSets, IrqAlarms, IrqLate
<1>3. CASE Tick
  <2>1. UNCHANGED tasks
    BY <1>3 DEF Tick
  <2> QED
    BY <1>3, <2>1, TickTypes, OtherCalls, TickReads, TickSets, TickAlarms, TickLate
<1>4. ASSUME NEW r \in {"ymd", "hms"}, Lands(r)  PROVE IInv'
  <2>1. UNCHANGED tasks
    BY <1>4 DEF Lands
  <2>2. SetInv'
    <3>1. CASE r = "ymd"
      BY <1>4, <3>1, YmdSets
    <3>2. CASE r = "hms"
      BY <1>4, <3>2, HmsSets
    <3> QED
      BY <3>1, <3>2
  <2> QED
    BY <1>4, <2>1, <2>2, LandTypes, OtherCalls, LandReads, LandAlarms, LandLate
<1>5. CASE UNCHANGED vars
  <2>1. /\ goal' = goal /\ acc' = acc /\ ymd' = ymd /\ hms' = hms /\ alrm' = alrm
        /\ due' = due /\ rang' = rang /\ missed' = missed /\ UNCHANGED tasks
        /\ seen' = seen /\ turns' = turns
        /\ user_callback' = user_callback
    BY <1>5 DEF vars, regs
  <2>2. TypeOK'
    BY <2>1 DEF TypeOK, tasks
  <2>3. CallInv'
    BY <2>1, OtherCalls
  <2>4. ReadInv'
    BY <2>1 DEF ReadInv, Reads, Away, tasks
  <2>5. SetInv'
    BY <2>1, SetKept DEF tasks
  <2>6. AlarmInv'
    BY <2>1, AlarmKept DEF tasks
  <2>7. LateInv'
    BY <2>1, LateKept DEF tasks
  <2> QED
    BY <2>2, <2>3, <2>4, <2>5, <2>6, <2>7
<1> QED
  BY <1>1, <1>2, <1>3, <1>4, <1>5 DEF Next

\* The inductive invariant of hal_rtc.c: where every task is in its call, what
\* a reader holds of the clock, how far a setting has come, and how the alarm
\* that is due stands to the clock.
THEOREM RtcInvariant == Spec => []IInv
<1>1. Init => IInv
  BY InitInv
<1>2. IInv /\ [Next]_vars => IInv'
  BY DatesAssumption, NextInv
<1> QED
  BY <1>1, <1>2, PTL DEF Spec

\* What hal_rtc_gettime has got when its four reads agree is one moment that
\* the clock showed, if the date did not change three times between the first and
\* the last of them, and, before 2300 and outside the misread days, a valid date.
THEOREM ReadIsRight == Spec => []GetIsRight
<1>1. ASSUME IInv  PROVE GetIsRight
  <2> SUFFICES ASSUME NEW t \in Tasks, pc[t] = "got"
               PROVE  /\ read[t] \in seen[t] \/ turns[t] >= 3
                      /\ Readable(read[t][1]) =>
                           rtc_valid_tm(Got(t)) /\ RefDay(Got(t)) = read[t][1]
    BY DEF GetIsRight
  <2>1. read[t] \in seen[t] \/ turns[t] >= 3
    BY <1>1 DEF IInv, ReadInv, Reads
  <2>2. ASSUME Readable(read[t][1])
        PROVE  rtc_valid_tm(Got(t)) /\ RefDay(Got(t)) = read[t][1]
    <3> DEFINE date == day_to_ymd(read[t][1])
    <3>1. read[t][1] \in Nat /\ read[t][2] \in Seconds
      BY <1>1 DEF IInv, TypeOK
    <3>2. /\ date.year \in Nat /\ date.year >= 70 /\ date.mon \in 0 .. 11
          /\ date.mday \in 1 .. MonthLen(is_leap_year(date.year + 1900), date.mon + 1)
          /\ RefDay(date) = read[t][1]
      BY <2>2, <3>1, DateIs
    <3>3. /\ Got(t).year = date.year /\ Got(t).mon = date.mon /\ Got(t).mday = date.mday
          /\ Got(t).sec = read[t][2]
      BY DEF Got
    <3> HIDE DEF date
    <3>4. RefDay(Got(t)) = RefDay(date)
      BY <3>3 DEF RefDay
    <3>5. date.mday >= 1
          /\ date.mday <= MonthLen(is_leap_year(date.year + 1900), date.mon + 1)
      BY <3>2
    <3>6. rtc_valid_tm(Got(t))
      BY <3>1, <3>2, <3>3, <3>5 DEF rtc_valid_tm
    <3> QED
      BY <3>2, <3>4, <3>6
  <2> QED
    BY <2>1, <2>2
<1> QED
  BY <1>1, RtcInvariant, PTL

\* When hal_rtc_settime returns 0 the clock shows the moment that was asked
\* for, a day less for each midnight between its two writes, and goes on so.
THEOREM SetExact == Spec => []SetIsExact
<1>1. IInv => SetIsExact
  BY DEF IInv, SetInv, Done, SetIsExact
<1> QED
  BY <1>1, RtcInvariant, PTL

\* An alarm that is due calls back once and not before its time; one that was
\* accepted and enabled when its time had come never calls back.  AlarmOnTime
\* names the accepted alarms that are not due.
THEOREM AlarmInTime == Spec => []AlarmOnTime
<1>1. IInv => AlarmOnTime
  BY DEF IInv, AlarmInv, LateInv, Unrung, AlarmOnTime
<1> QED
  BY <1>1, RtcInvariant, PTL

=============================================================================
