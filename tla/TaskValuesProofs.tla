--------------------------- MODULE TaskValuesProofs ---------------------------
(***************************************************************************)
(* Theorems about TaskValues, for any integers as hours, minutes and dates *)
(* and any set of requests, after lemmas about the calendar.               *)
(***************************************************************************)
EXTENDS TaskValues, FiniteSetTheorems, SequenceTheorems, WellFoundedInduction, TLAPS

-----------------------------------------------------------------------------
(* Months                                                                  *)

LEMMA YearBounds ==
    ASSUME NEW y \in Int
    PROVE  /\ YearStart(y) \in Int
           /\ 400 * YearStart(y) >= 146097 * y - 300
           /\ 400 * YearStart(y) <= 146097 * y + 600
BY DEF YearStart

LEMMA YearLength ==
    ASSUME NEW y \in Int
    PROVE  YearStart(y + 1) = YearStart(y) + (IF IsLeap(y) THEN 366 ELSE 365)
BY DEF YearStart, IsLeap

\* The days before month m of a year, m in 0 .. 11.
LEMMA DaysBefore ==
    /\ BeforeMonth[1] = 0    /\ BeforeMonth[2] = 31   /\ BeforeMonth[3] = 59
    /\ BeforeMonth[4] = 90   /\ BeforeMonth[5] = 120  /\ BeforeMonth[6] = 151
    /\ BeforeMonth[7] = 181  /\ BeforeMonth[8] = 212  /\ BeforeMonth[9] = 243
    /\ BeforeMonth[10] = 273 /\ BeforeMonth[11] = 304 /\ BeforeMonth[12] = 334
BY DEF BeforeMonth

Leap(y, m) == IF m > 1 /\ IsLeap(y) THEN 1 ELSE 0

LEMMA MonthInYear ==
    ASSUME NEW y \in Int, NEW m \in 0 .. 11
    PROVE  MonthStart(12 * y + m) = YearStart(y) + BeforeMonth[m + 1] + Leap(y, m)
<1>1. (12 * y + m) \div 12 = y /\ (12 * y + m) % 12 = m
  OBVIOUS
<1> QED
  BY <1>1 DEF MonthStart, Leap

LEMMA YearAndMonth ==
    ASSUME NEW n \in Int
    PROVE  /\ n \div 12 \in Int /\ n % 12 \in 0 .. 11
           /\ n = 12 * (n \div 12) + (n % 12)
OBVIOUS

LEMMA MonthBounds ==
    ASSUME NEW n \in Int
    PROVE  /\ MonthStart(n) \in Int
           /\ 1600 * MonthStart(n) >= 48699 * n - 4200
           /\ 1600 * MonthStart(n) <= 48699 * n + 3450
<1> DEFINE y == n \div 12
           m == n % 12
<1>1. y \in Int /\ m \in 0 .. 11 /\ n = 12 * y + m
  BY YearAndMonth
<1> HIDE DEF y, m
<1>2. MonthStart(n) = YearStart(y) + BeforeMonth[m + 1] + Leap(y, m)
  BY <1>1, MonthInYear
<1>3. Leap(y, m) = 0 \/ (m > 1 /\ Leap(y, m) = 1)
  BY DEF Leap
<1>4. \A k \in 0 .. 11 : /\ BeforeMonth[k + 1] \in Int
                         /\ 1600 * BeforeMonth[k + 1] >= 48699 * k - 3000
                         /\ 1600 * BeforeMonth[k + 1] <= 48699 * k + (IF k > 1 THEN -550 ELSE 1050)
  <2>1. \A k \in 0 .. 11 : k \in {0, 1, 2, 3, 4, 5, 6, 7, 8, 9, 10, 11}
    OBVIOUS
  <2> QED
    BY <2>1, DaysBefore
<1>5. /\ YearStart(y) \in Int
      /\ 1600 * YearStart(y) >= 584388 * y - 1200
      /\ 1600 * YearStart(y) <= 584388 * y + 2400
  BY <1>1, YearBounds
<1> QED
  BY <1>1, <1>2, <1>3, <1>4, <1>5

LEMMA MonthStartInt == ASSUME NEW n \in Int PROVE MonthStart(n) \in Int
BY MonthBounds

LEMMA MonthsRise ==
    ASSUME NEW a \in Int, NEW b \in Int, a < b
    PROVE  MonthStart(a) < MonthStart(b)
BY MonthBounds

LEMMA MonthsRiseWeakly ==
    ASSUME NEW a \in Int, NEW b \in Int, a <= b
    PROVE  MonthStart(a) <= MonthStart(b)
<1>1. CASE a < b
  BY <1>1, MonthsRise, MonthBounds
<1>2. CASE a = b
  BY <1>2, MonthBounds
<1> QED
  BY <1>1, <1>2

\* Every date lies in one month.
LEMMA MonthOfDate ==
    ASSUME NEW date \in Int
    PROVE  /\ MonthOf(date) \in Int
           /\ MonthStart(MonthOf(date)) <= date
           /\ date < MonthStart(MonthOf(date) + 1)
<1> DEFINE mean == (1600 * date) \div 48699
           In(month) == MonthStart(month) <= date /\ date < MonthStart(month + 1)
<1>1. mean \in Int /\ 48699 * mean <= 1600 * date /\ 1600 * date < 48699 * mean + 48699
  OBVIOUS
<1> HIDE DEF mean
<1>2. MonthStart(mean - 1) <= date /\ date < MonthStart(mean + 2)
  BY <1>1, MonthBounds
<1>3. \E month \in mean - 1 .. mean + 1 : In(month)
  <2>1. mean - 1 + 1 = mean /\ mean + 1 + 1 = mean + 2
    BY <1>1
  <2>2. MonthStart(mean) \in Int /\ MonthStart(mean + 1) \in Int
    BY <1>1, MonthBounds
  <2>3. In(mean - 1) \/ In(mean) \/ In(mean + 1)
    BY <1>2, <2>1, <2>2
  <2> QED
    BY <1>1, <2>3
<1>4. MonthOf(date) \in mean - 1 .. mean + 1 /\ In(MonthOf(date))
  BY <1>3 DEF MonthOf, mean
<1> QED
  BY <1>1, <1>4

-----------------------------------------------------------------------------
(* Spans of months                                                         *)

Span(n, months) == MonthStart(n + months) - MonthStart(n)

ShortestSpan == <<28, 59, 89, 120, 150, 181, 212, 242, 273, 303, 334, 365>>

LEMMA SpanLengths ==
    /\ ShortestSpan[1] = 28   /\ ShortestSpan[2] = 59   /\ ShortestSpan[3] = 89
    /\ ShortestSpan[4] = 120  /\ ShortestSpan[5] = 150  /\ ShortestSpan[6] = 181
    /\ ShortestSpan[7] = 212  /\ ShortestSpan[8] = 242  /\ ShortestSpan[9] = 273
    /\ ShortestSpan[10] = 303 /\ ShortestSpan[11] = 334 /\ ShortestSpan[12] = 365
BY DEF ShortestSpan

\* Spans of up to a year are at most three days longer than the shortest.
LEMMA SpanInYear ==
    ASSUME NEW n \in Int, NEW k \in 1 .. 12
    PROVE  Span(n, k) \in ShortestSpan[k] .. ShortestSpan[k] + 3
<1> DEFINE y == n \div 12
           m == n % 12
<1>1. y \in Int /\ m \in 0 .. 11 /\ n = 12 * y + m
  BY YearAndMonth
<1> HIDE DEF y, m
<1>2. MonthStart(n) = YearStart(y) + BeforeMonth[m + 1] + Leap(y, m)
  BY <1>1, MonthInYear
<1>3. /\ YearStart(y) \in Int
      /\ YearStart(y + 1) = YearStart(y) + (IF IsLeap(y) THEN 366 ELSE 365)
  BY <1>1, YearBounds, YearLength
<1>4. /\ m \in {0, 1, 2, 3, 4, 5, 6, 7, 8, 9, 10, 11}
      /\ k \in {1, 2, 3, 4, 5, 6, 7, 8, 9, 10, 11, 12}
  BY <1>1
<1>5. CASE m + k <= 11
  <2>1. n + k = 12 * y + (m + k) /\ m + k \in 0 .. 11
    BY <1>1, <1>5
  <2>2. MonthStart(n + k) = YearStart(y) + BeforeMonth[m + k + 1] + Leap(y, m + k)
    BY <1>1, <2>1, MonthInYear
  <2>3. Span(n, k) = BeforeMonth[m + k + 1] - BeforeMonth[m + 1] + Leap(y, m + k) - Leap(y, m)
    BY <1>2, <1>3, <1>4, <1>5, <2>2, DaysBefore DEF Span, Leap
  <2> QED
    BY <1>4, <1>5, <2>3, DaysBefore, SpanLengths DEF Leap
<1>6. CASE m + k >= 12
  <2>1. n + k = 12 * (y + 1) + (m + k - 12) /\ m + k - 12 \in 0 .. 11 /\ y + 1 \in Int
    BY <1>1, <1>6
  <2>2. MonthStart(n + k) =
           YearStart(y + 1) + BeforeMonth[m + k - 12 + 1] + Leap(y + 1, m + k - 12)
    BY <2>1, MonthInYear
  <2>3. Span(n, k) = BeforeMonth[m + k - 11] - BeforeMonth[m + 1]
                      + (IF IsLeap(y) THEN 366 ELSE 365) + Leap(y + 1, m + k - 12) - Leap(y, m)
    BY <1>2, <1>3, <1>4, <1>6, <2>2, DaysBefore DEF Span, Leap
  <2> QED
    BY <1>4, <1>6, <2>3, DaysBefore, SpanLengths DEF Leap
<1> QED
  BY <1>1, <1>5, <1>6

LEMMA SpansInYear ==
    ASSUME NEW a \in Int, NEW b \in Int, NEW k \in 1 .. 12
    PROVE  Span(a, k) - Span(b, k) <= 3
<1>1. ShortestSpan[k] \in Int
  <2>1. k \in {1, 2, 3, 4, 5, 6, 7, 8, 9, 10, 11, 12}
    OBVIOUS
  <2> QED
    BY <2>1, SpanLengths
<1>2. Span(a, k) \in ShortestSpan[k] .. ShortestSpan[k] + 3
  BY SpanInYear
<1>3. Span(b, k) \in ShortestSpan[k] .. ShortestSpan[k] + 3
  BY SpanInYear
<1> QED
  BY <1>1, <1>2, <1>3

LEMMA SpansOfAnyLength ==
    ASSUME NEW a \in Int, NEW b \in Int, NEW k \in Int
    PROVE  Span(a, k) \in Int /\ Span(a, k) - Span(b, k) <= 9
<1>1. a + k \in Int /\ b + k \in Int
  OBVIOUS
<1> QED
  BY <1>1, MonthBounds DEF Span

-----------------------------------------------------------------------------
(* Adding months to a date                                                 *)

LEMMA AddMonthsIn ==
    ASSUME NEW date \in Int, NEW k \in Int
    PROVE  /\ AddMonths(date, k) \in Int
           /\ MonthStart(MonthOf(date) + k) <= AddMonths(date, k)
           /\ AddMonths(date, k) < MonthStart(MonthOf(date) + k + 1)
<1> DEFINE n == MonthOf(date)
<1>1. n \in Int /\ MonthStart(n) <= date /\ MonthStart(n) \in Int
  BY MonthOfDate, MonthBounds
<1>2. /\ MonthStart(n + k) \in Int /\ MonthStart(n + k + 1) \in Int
      /\ MonthStart(n + k) < MonthStart(n + k + 1)
  <2>1. n + k \in Int /\ n + k + 1 \in Int /\ n + k < n + k + 1
    BY <1>1
  <2> HIDE DEF n
  <2> QED
    BY ONLY <2>1, MonthBounds, MonthsRise
<1> QED
  BY <1>1, <1>2 DEF AddMonths, MonthLength

LEMMA AddNoMonths ==
    ASSUME NEW date \in Int
    PROVE  AddMonths(date, 0) = date
<1> DEFINE n == MonthOf(date)
<1>1. n \in Int /\ MonthStart(n) <= date /\ date < MonthStart(n + 1)
  BY MonthOfDate
<1>2. MonthStart(n) \in Int /\ MonthStart(n + 1) \in Int /\ n + 0 = n
  BY <1>1, MonthBounds
<1> QED
  BY <1>1, <1>2 DEF AddMonths, MonthLength

\* The order of two dates survives, although the ends of months may merge.
LEMMA AddMonthsRises ==
    ASSUME NEW d \in Int, NEW e \in Int, NEW k \in Int, d <= e
    PROVE  AddMonths(d, k) <= AddMonths(e, k)
<1> DEFINE n == MonthOf(d)
           p == MonthOf(e)
<1>1. /\ n \in Int /\ MonthStart(n) <= d /\ d < MonthStart(n + 1)
      /\ p \in Int /\ MonthStart(p) <= e /\ e < MonthStart(p + 1)
  BY MonthOfDate
<1>2. /\ MonthStart(n) \in Int /\ MonthStart(p + 1) \in Int
      /\ MonthStart(n + k) \in Int /\ MonthStart(n + k + 1) \in Int
  <2>1. n \in Int /\ p + 1 \in Int /\ n + k \in Int /\ n + k + 1 \in Int
    BY <1>1
  <2> HIDE DEF n, p
  <2>2. MonthStart(n) \in Int /\ MonthStart(p + 1) \in Int
    BY ONLY <2>1, MonthStartInt
  <2>3. MonthStart(n + k) \in Int /\ MonthStart(n + k + 1) \in Int
    BY ONLY <2>1, MonthStartInt
  <2> QED
    BY <2>2, <2>3
<1>3. n <= p
  <2>1. p + 1 <= n => MonthStart(p + 1) <= MonthStart(n)
    BY <1>1, MonthsRiseWeakly
  <2> QED
    BY <1>1, <1>2, <2>1
<1>4. CASE n = p
  BY <1>1, <1>2, <1>4 DEF AddMonths, MonthLength
<1>5. CASE n < p
  <2>1. MonthStart(n + k + 1) <= MonthStart(p + k) /\ MonthStart(p + k) \in Int
    <3>1. n + k + 1 \in Int /\ p + k \in Int /\ n + k + 1 <= p + k
      BY <1>1, <1>5
    <3> HIDE DEF n, p
    <3> QED
      BY ONLY <3>1, MonthsRiseWeakly, MonthBounds
  <2> QED
    BY <1>2, <2>1, AddMonthsIn
<1> QED
  BY <1>1, <1>3, <1>4, <1>5

LEMMA AddMonthsForward ==
    ASSUME NEW date \in Int, NEW k \in Nat \ {0}
    PROVE  AddMonths(date, k) > date
<1> DEFINE n == MonthOf(date)
<1>1. n \in Int /\ date < MonthStart(n + 1)
  BY MonthOfDate
<1>2. MonthStart(n + 1) <= MonthStart(n + k)
  BY <1>1, MonthsRiseWeakly
<1>3. MonthStart(n + 1) \in Int /\ MonthStart(n + k) \in Int
  BY <1>1, MonthBounds
<1> QED
  BY <1>1, <1>2, <1>3, AddMonthsIn

LEMMA AddMonthsNeverBack ==
    ASSUME NEW date \in Int, NEW k \in Nat
    PROVE  /\ AddMonths(date, k) \in Int /\ AddMonths(date, k) >= date
           /\ k # 0 => AddMonths(date, k) > date
<1>1. AddMonths(date, k) \in Int
  BY AddMonthsIn
<1>2. CASE k = 0
  BY <1>2, AddNoMonths
<1>3. CASE k # 0
  <2>1. AddMonths(date, k) > date
    BY <1>3, AddMonthsForward
  <2> QED
    BY <1>1, <2>1
<1> QED
  BY <1>2, <1>3

\* By how much a date moves: by the span from its month, or, when it is cut
\* off at the end of a month, by no less than the span from the next one.
LEMMA AddMonthsMoves ==
    ASSUME NEW date \in Int, NEW k \in Int
    PROVE  \E a, b \in Int : /\ AddMonths(date, k) - date <= Span(a, k)
                            /\ AddMonths(date, k) - date >= Span(b, k)
<1> DEFINE n == MonthOf(date)
<1>1. n \in Int /\ MonthStart(n) <= date /\ date < MonthStart(n + 1)
  BY MonthOfDate
<1>2. /\ MonthStart(n) \in Int /\ MonthStart(n + 1) \in Int
      /\ MonthStart(n + k) \in Int /\ MonthStart(n + k + 1) \in Int
      /\ n + 1 + k = n + k + 1
  <2>1. n + 1 \in Int /\ n + k \in Int /\ n + k + 1 \in Int /\ n + 1 + k = n + k + 1
    BY <1>1
  <2> HIDE DEF n
  <2> QED
    BY <1>1, <2>1, MonthStartInt
<1>3. AddMonths(date, k) - date <= Span(n, k)
  BY <1>1, <1>2 DEF AddMonths, MonthLength, Span
<1>4. AddMonths(date, k) - date >= Span(n, k) \/ AddMonths(date, k) - date >= Span(n + 1, k)
  BY <1>1, <1>2 DEF AddMonths, MonthLength, Span
<1> QED
  BY <1>1, <1>3, <1>4

\* By how much the moves of two dates differ.
LEMMA MovesDiffer ==
    ASSUME NEW d \in Int, NEW e \in Int, NEW k \in Nat
    PROVE  LET change == (AddMonths(e, k) - AddMonths(d, k)) - (e - d) IN
           /\ change \in -9 .. 9
           /\ k <= 12 => change \in -3 .. 3
           /\ k = 0 => change = 0
<1>1. k \in Int /\ AddMonths(d, k) \in Int /\ AddMonths(e, k) \in Int
  BY AddMonthsIn
<1>2. PICK a, b \in Int : /\ AddMonths(d, k) - d <= Span(a, k)
                          /\ AddMonths(d, k) - d >= Span(b, k)
  BY <1>1, AddMonthsMoves
<1>3. PICK p, q \in Int : /\ AddMonths(e, k) - e <= Span(p, k)
                          /\ AddMonths(e, k) - e >= Span(q, k)
  BY <1>1, AddMonthsMoves
<1>4. /\ Span(a, k) \in Int /\ Span(b, k) \in Int /\ Span(p, k) \in Int /\ Span(q, k) \in Int
      /\ Span(a, k) - Span(q, k) <= 9 /\ Span(p, k) - Span(b, k) <= 9
  BY SpansOfAnyLength
<1>5. k \in 1 .. 12 => Span(a, k) - Span(q, k) <= 3 /\ Span(p, k) - Span(b, k) <= 3
  BY SpansInYear
<1>6. k = 0 => AddMonths(d, k) = d /\ AddMonths(e, k) = e
  BY AddNoMonths
<1> QED
  BY <1>1, <1>2, <1>3, <1>4, <1>5, <1>6

-----------------------------------------------------------------------------
(* Rows                                                                    *)

Dates     == Int \cup {NULL}
Intervals == [months : Int, days : Int]

Row == [start : Dates, end : Dates,
        estimate  : [days : Int, time : Int] \cup {NULL},
        frequency : Intervals \cup {NULL},
        isEvery   : BOOLEAN]

LEMMA NextIsMoved == \A r : NextOccurrence(r) = Moved(r, IntervalOf(r))
BY DEF NextOccurrence

LEMMA Added ==
    ASSUME NEW date \in Dates, NEW i, i.months \in Int, i.days \in Int
    PROVE  /\ date = NULL => AddInterval(date, i) = NULL
           /\ date # NULL =>
                 /\ date \in Int
                 /\ AddMonths(date, i.months) \in Int
                 /\ AddInterval(date, i) = AddMonths(date, i.months) + i.days
                 /\ AddInterval(date, i) \in Int /\ AddInterval(date, i) # NULL
<1>1. date # NULL => date \in Int
  BY DEF Dates
<1>2. date # NULL => AddMonths(date, i.months) \in Int
  BY <1>1, AddMonthsIn
<1> QED
  BY <1>1, <1>2, RequestAssumption DEF AddInterval

LEMMA MovedRow ==
    ASSUME NEW r \in Row, NEW i \in Intervals
    PROVE  /\ Moved(r, i) \in Row
           /\ Moved(r, i).start = AddInterval(r.start, i)
           /\ Moved(r, i).end = AddInterval(r.end, i)
           /\ Moved(r, i).estimate = r.estimate
           /\ Moved(r, i).frequency = r.frequency
           /\ Moved(r, i).isEvery = r.isEvery
<1>1. \A date \in Dates : AddInterval(date, i) \in Dates
  BY Added DEF Dates, Intervals
<1>2. AddInterval(r.start, i) \in Dates /\ AddInterval(r.end, i) \in Dates
  BY <1>1 DEF Row
<1> QED
  BY <1>2 DEF Moved, Row

LEMMA IntervalType ==
    ASSUME NEW r \in Row, r.frequency # NULL, ValidPeriod(r), today \in Int
    PROVE  /\ IntervalOf(r) \in Intervals
           /\ IntervalOf(r).months = r.frequency.months
           /\ IntervalOf(r).days =
                 r.frequency.days + (IF r.isEvery THEN 0 ELSE today - Anchor(r))
           /\ Anchor(r) \in Int
<1>1. Anchor(r) \in Int /\ r.frequency \in Intervals
  BY DEF Row, Dates, ValidPeriod, Anchor
<1> QED
  BY <1>1 DEF IntervalOf, Intervals

\* What an occurrence is next to the one it is made from.
LEMMA NextRow ==
    ASSUME NEW r \in Row, r.frequency # NULL, ValidPeriod(r), today \in Int
    PROVE  /\ NextOccurrence(r) \in Row
           /\ NextOccurrence(r).start = AddInterval(r.start, IntervalOf(r))
           /\ NextOccurrence(r).end = AddInterval(r.end, IntervalOf(r))
           /\ NextOccurrence(r).estimate = r.estimate
           /\ NextOccurrence(r).frequency = r.frequency
           /\ NextOccurrence(r).isEvery = r.isEvery
BY NextIsMoved, IntervalType, MovedRow

\* The end does not come before the start.
LEMMA NextPeriod ==
    ASSUME NEW r \in Row, r.frequency # NULL, ValidPeriod(r), today \in Int
    PROVE  ValidPeriod(NextOccurrence(r))
<1> DEFINE i == IntervalOf(r)
           n == NextOccurrence(r)
<1>1. i.months \in Int /\ i.days \in Int
  BY IntervalType DEF Intervals
<1>2. n.start = AddInterval(r.start, i) /\ n.end = AddInterval(r.end, i)
  BY NextRow
<1>3. r.start \in Dates /\ r.end \in Dates
  BY DEF Row
<1> HIDE DEF i, n
<1>4. /\ r.start # NULL => n.start = AddMonths(r.start, i.months) + i.days /\ n.start \in Int
      /\ r.end # NULL => n.end = AddMonths(r.end, i.months) + i.days /\ n.end \in Int
      /\ r.start = NULL => n.start = NULL
      /\ r.end = NULL => n.end = NULL
  BY <1>1, <1>2, <1>3, Added
<1>5. r.start # NULL /\ r.end # NULL =>
         AddMonths(r.start, i.months) <= AddMonths(r.end, i.months)
  BY <1>1, <1>3, AddMonthsRises DEF ValidPeriod, Dates
<1>6. n.start # NULL \/ n.end # NULL
  BY <1>4, RequestAssumption DEF ValidPeriod
<1>7. n.start # NULL /\ n.end # NULL => n.end >= n.start
  <2> SUFFICES ASSUME r.start # NULL, r.end # NULL PROVE n.end >= n.start
    BY <1>4
  <2>1. r.start \in Int /\ r.end \in Int
    BY <1>3 DEF Dates
  <2>2. AddMonths(r.start, i.months) \in Int /\ AddMonths(r.end, i.months) \in Int
    BY <1>1, <2>1, AddMonthsIn
  <2> QED
    BY <1>1, <1>4, <1>5, <2>2
<1> QED
  BY <1>6, <1>7 DEF ValidPeriod, n

\* The anchor moves past itself, and past today when the task was checked.
LEMMA NextAnchor ==
    ASSUME NEW r \in Row, r.frequency # NULL, ValidFrequency(r.frequency), ValidPeriod(r),
           today \in Int
    PROVE  Anchor(NextOccurrence(r)) > IF r.isEvery THEN Anchor(r) ELSE today
<1> DEFINE i == IntervalOf(r)
           n == NextOccurrence(r)
           a == Anchor(r)
<1>1. /\ a \in Int /\ i.months = r.frequency.months
      /\ i.days = r.frequency.days + (IF r.isEvery THEN 0 ELSE today - a)
      /\ i.months \in Int /\ r.frequency.days \in Int
  BY IntervalType DEF Intervals, Row
<1>2. n.start = AddInterval(r.start, i) /\ n.end = AddInterval(r.end, i)
      /\ r.start \in Dates /\ r.end \in Dates
  BY NextRow DEF Row
<1> HIDE DEF i, n
<1>3. Anchor(n) = AddMonths(a, i.months) + i.days
  <2>1. i.days \in Int
    BY IntervalType DEF Intervals, i
  <2>2. r.start # NULL => n.start # NULL /\ n.start = AddMonths(r.start, i.months) + i.days
    BY <1>1, <1>2, <2>1, Added
  <2>3. r.start = NULL => n.start = NULL
    BY <1>1, <1>2, <2>1, Added
  <2>4. r.end # NULL => n.end = AddMonths(r.end, i.months) + i.days
    BY <1>1, <1>2, <2>1, Added
  <2> QED
    BY <2>2, <2>3, <2>4 DEF Anchor, ValidPeriod
<1> HIDE DEF a
<1>4. /\ i.months >= 0 /\ r.frequency.days >= 0
      /\ i.months # 0 \/ r.frequency.days # 0
  BY <1>1 DEF ValidFrequency
<1>5. /\ AddMonths(a, i.months) \in Int /\ AddMonths(a, i.months) >= a
      /\ i.months # 0 => AddMonths(a, i.months) > a
  <2>1. a \in Int /\ i.months \in Nat
    BY <1>1, <1>4
  <2> QED
    BY ONLY <2>1, AddMonthsNeverBack
<1>6. Anchor(n) > IF r.isEvery THEN a ELSE today
  BY <1>1, <1>3, <1>4, <1>5
<1> QED
  BY <1>6 DEF n, a

LEMMA NextLength ==
    ASSUME NEW r \in Row, r.frequency # NULL, ValidFrequency(r.frequency), ValidPeriod(r),
           today \in Int
    PROVE  LET change == Length(NextOccurrence(r)) - Length(r) IN
           /\ change \in -9 .. 9
           /\ r.frequency.months <= 12 => change \in -3 .. 3
           /\ r.frequency.months = 0 => change = 0
<1> DEFINE i == IntervalOf(r)
           n == NextOccurrence(r)
<1>1. /\ i.months = r.frequency.months /\ i.days \in Int
      /\ i.months \in Nat /\ i.months \in Int
  BY IntervalType DEF Intervals, ValidFrequency
<1>2. n.start = AddInterval(r.start, i) /\ n.end = AddInterval(r.end, i)
      /\ r.start \in Dates /\ r.end \in Dates
  BY NextRow DEF Row
<1> HIDE DEF i, n
<1>3. CASE r.start = NULL \/ r.end = NULL
  <2>1. Length(r) = 0 /\ Length(n) = 0
    BY <1>2, <1>3 DEF Length, AddInterval
  <2> QED
    BY <2>1 DEF n
<1>4. CASE r.start # NULL /\ r.end # NULL
  <2>1. r.start \in Int /\ r.end \in Int
    BY <1>2, <1>4 DEF Dates
  <2>2. AddMonths(r.start, i.months) \in Int /\ AddMonths(r.end, i.months) \in Int
    BY <1>1, <1>2, <1>4, Added
  <2>3. /\ n.start = AddMonths(r.start, i.months) + i.days /\ n.start \in Int
        /\ n.end = AddMonths(r.end, i.months) + i.days /\ n.end \in Int
    BY <1>1, <1>2, <1>4, Added
  <2>4. Length(n) - Length(r) =
           (AddMonths(r.end, i.months) - AddMonths(r.start, i.months)) - (r.end - r.start)
    BY <1>1, <1>4, <2>1, <2>2, <2>3, RequestAssumption DEF Length
  <2>5. /\ Length(n) - Length(r) \in -9 .. 9
        /\ i.months <= 12 => Length(n) - Length(r) \in -3 .. 3
        /\ i.months = 0 => Length(n) - Length(r) = 0
    BY <1>1, <2>1, <2>4, MovesDiffer
  <2> QED
    BY <1>1, <2>5 DEF n
<1> QED
  BY <1>3, <1>4

-----------------------------------------------------------------------------
(* Estimates                                                               *)

LEMMA StoredEstimateType ==
    ASSUME NEW e \in [days : Int, hours : Int, minutes : Int]
    PROVE  StoredEstimate(e) \in [days : Int, time : Int]
<1>1. MinutesPerHour \in Int
  BY ValuesAssumption
<1>2. \A h, m \in Int : h * MinutesPerHour + m \in Int
  BY <1>1
<1> QED
  BY <1>2 DEF StoredEstimate

LEMMA StoredRequest ==
    ASSUME NEW request \in Asked
    PROVE  /\ Stored(request) \in Row
           /\ Stored(request).start = request.start
           /\ Stored(request).end = request.end
           /\ Stored(request).frequency = request.frequency
           /\ Stored(request).isEvery = request.isEvery
           /\ Stored(request).estimate =
                 IF request.estimate = NULL THEN NULL ELSE StoredEstimate(request.estimate)
<1>1. request.estimate # NULL =>
         StoredEstimate(request.estimate) \in [days : Int, time : Int]
  BY StoredEstimateType DEF Asked
<1> QED
  BY <1>1 DEF Stored, Asked, Row, Dates, Intervals

\* Storing and loading carries whole hours over from the minutes.
LEMMA EstimateComesBack ==
    ASSUME NEW e \in [days : Int, hours : Int, minutes : Int],
           FitsEstimate(StoredEstimate(e))
    PROVE  LET back == LoadedEstimate(StoredEstimate(e)) IN
           /\ back # NULL
           /\ back.days = e.days
           /\ TimeOf(back) = TimeOf(e)
           /\ back.minutes < MinutesPerHour
           /\ back.hours <= MaxInt
<1> DEFINE M == MinutesPerHour
           time == e.hours * M + e.minutes
           back == LoadedEstimate(StoredEstimate(e))
<1>1. M \in Nat /\ M > 0
  BY ValuesAssumption
<1>2. e.hours \in Int /\ e.minutes \in Int
  OBVIOUS
<1>3. time \in Int
  BY <1>1, <1>2
<1>4. \A t \in Int : /\ t = (t \div M) * M + (t % M)
                     /\ t \div M \in Int /\ t % M \in 0 .. M - 1
  BY <1>1
<1>5. back = [days |-> e.days, hours |-> time \div M, minutes |-> time % M]
  BY DEF LoadedEstimate, StoredEstimate
<1>6. back \in [days : Int, hours : Int, minutes : Int]
  BY <1>3, <1>4, <1>5
<1>7. TimeOf(e) = time
  BY DEF TimeOf
<1>8. time \div M <= MaxInt
  BY DEF FitsEstimate, StoredEstimate
<1> HIDE DEF time, back
<1>9. TimeOf(back) = time /\ back.minutes < M
  BY <1>1, <1>3, <1>4, <1>5 DEF TimeOf
<1> QED
  BY <1>5, <1>6, <1>7, <1>8, <1>9, RequestAssumption DEF back

-----------------------------------------------------------------------------
(* Induction over the depths of a recurrence.  The library's induction     *)
(* theorems take a predicate; that every set of numbers has a smallest     *)
(* member follows from the order of finite sets, without one.              *)

LEMMA Smallest ==
    ASSUME NEW T, T \subseteq Nat, T # {}
    PROVE  \E n \in T : \A m \in T : n <= m
<1>1. PICK k \in T : TRUE
  OBVIOUS
<1> DEFINE S == 0 .. k
           below == {0 .. n : n \in T \cap S}
<1>2. IsWellFoundedOn(StrictSubsetOrdering(S), SUBSET S)
  <2>1. FiniteSubsetsOf(S) = SUBSET S
    <3>1. IsFiniteSet(S)
      BY FS_Interval
    <3> QED
      BY <3>1, FS_FiniteSubsetsOfFinite
  <2>2. IsWellFoundedOn(StrictSubsetOrdering(S), FiniteSubsetsOf(S))
    BY FS_StrictSubsetOrderingWellFounded
  <2> QED
    BY <2>1, <2>2
<1>3. below \subseteq SUBSET S /\ below # {}
  OBVIOUS
<1>4. PICK x \in below : \A y \in below : ~ (<<y, x>> \in StrictSubsetOrdering(S))
  BY <1>2, <1>3, WFMin
<1>5. PICK n \in T \cap S : x = 0 .. n
  BY <1>4
<1>6. ASSUME NEW m \in T, m < n PROVE FALSE
  <2>1. m \in T \cap S /\ 0 .. m \in below
    BY <1>5, <1>6
  <2>2. 0 .. m \subseteq 0 .. n /\ 0 .. m # 0 .. n
    BY <1>5, <1>6
  <2> QED
    BY <2>1, <2>2, <1>3, <1>4, <1>5 DEF StrictSubsetOrdering
<1> QED
  BY <1>5, <1>6

\* A set of numbers that has 0 and the successor of each of its members below N.
LEMMA UpTo ==
    ASSUME NEW N \in Nat, NEW P, 0 \in P,
           \A n \in 0 .. N : n < N /\ n \in P => n + 1 \in P
    PROVE  0 .. N \subseteq P
<1> DEFINE T == {n \in 0 .. N : n \notin P}
<1> SUFFICES ASSUME T # {} PROVE FALSE
  OBVIOUS
<1>1. PICK n \in T : \A m \in T : n <= m
  <2>1. T \subseteq Nat
    OBVIOUS
  <2> HIDE DEF T
  <2> QED
    BY <2>1, Smallest
<1>2. n # 0 /\ n - 1 \in 0 .. N /\ n - 1 \in P
  BY <1>1
<1> QED
  BY <1>1, <1>2

Iterates(h, a, F, S, N) ==
    /\ h \in [0 .. N -> S]
    /\ h[0] = a
    /\ \A n \in 1 .. N : h[n] = F[h[n - 1]]

LEMMA Iteration ==
    ASSUME NEW S, NEW F \in [S -> S], NEW a \in S, NEW N \in Nat
    PROVE  \E h : Iterates(h, a, F, S, N)
<1> DEFINE P == {n \in Nat : \E h : Iterates(h, a, F, S, n)}
<1>1. 0 \in P
  <2>1. Iterates([i \in 0 .. 0 |-> a], a, F, S, 0)
    BY DEF Iterates
  <2> QED
    BY <2>1
<1>2. ASSUME NEW n \in Nat, n \in P PROVE n + 1 \in P
  <2>1. PICK h : Iterates(h, a, F, S, n)
    BY <1>2
  <2> DEFINE g == [i \in 0 .. n + 1 |-> IF i = n + 1 THEN F[h[n]] ELSE h[i]]
  <2>2. g \in [0 .. n + 1 -> S]
    BY <2>1 DEF Iterates
  <2>3. Iterates(g, a, F, S, n + 1)
    BY <2>1, <2>2 DEF Iterates
  <2> QED
    BY <2>3
<1>3. 0 .. N \subseteq P
  <2> HIDE DEF P
  <2> QED
    BY <1>1, <1>2, UpTo
<1> QED
  BY <1>3

\* The same of a g that is only known to go on from the members of S.
IteratesIn(g, a, F, S, N) ==
    g[0] = a /\ \A n \in 1 .. N : g[n - 1] \in S => g[n] = F[g[n - 1]]

LEMMA IterationIsUnique ==
    ASSUME NEW S, NEW F, NEW a, NEW N \in Nat, NEW M \in 0 .. N,
           NEW h, Iterates(h, a, F, S, N), NEW g, IteratesIn(g, a, F, S, M)
    PROVE  \A n \in 0 .. M : g[n] = h[n]
<1> DEFINE P == {n \in Nat : g[n] = h[n]}
<1>1. 0 \in P
  BY DEF Iterates, IteratesIn
<1>2. ASSUME NEW n \in 0 .. M, n < M, n \in P PROVE n + 1 \in P
  <2>1. n + 1 \in 1 .. M /\ n + 1 \in 1 .. N /\ (n + 1) - 1 = n /\ n \in 0 .. N
    BY <1>2
  <2>2. g[n] \in S
    BY <1>2, <2>1 DEF Iterates
  <2>3. g[n + 1] = F[g[n]] /\ h[n + 1] = F[h[n]]
    BY <2>1, <2>2 DEF Iterates, IteratesIn
  <2> QED
    BY <2>1, <2>3, <1>2
<1>3. 0 .. M \subseteq P
  <2>1. M \in Nat
    OBVIOUS
  <2> HIDE DEF P
  <2>2. \A n \in 0 .. M : n < M /\ n \in P => n + 1 \in P
    BY <1>2
  <2> QED
    BY ONLY <1>1, <2>1, <2>2, UpTo
<1> QED
  BY <1>3

\* The counts of two initial segments, one of which ends at N.
LEMMA CutOff ==
    ASSUME NEW N \in Nat, NEW H \in Nat, N <= H,
           NEW B \in SUBSET (0 .. H), \A n \in B : \A m \in 0 .. n : m \in B
    PROVE  LET A == B \cap (0 .. N) IN
           /\ IsFiniteSet(A) /\ IsFiniteSet(B)
           /\ IF Cardinality(A) >= N THEN Cardinality(A) <= Cardinality(B)
              ELSE Cardinality(A) = Cardinality(B)
<1> DEFINE A == B \cap (0 .. N)
<1>1. IsFiniteSet(0 .. N) /\ Cardinality(0 .. N) = N + 1 /\ IsFiniteSet(0 .. H)
  BY FS_Interval
<1>2. IsFiniteSet(B) /\ IsFiniteSet(A) /\ Cardinality(A) <= Cardinality(B)
  <2>1. IsFiniteSet(B)
    BY <1>1, FS_Subset
  <2>2. A \in SUBSET B
    OBVIOUS
  <2> QED
    BY <2>1, <2>2, FS_Subset
<1>3. Cardinality(A) \in Nat
  BY <1>2, FS_CardinalityType
<1>4. ASSUME Cardinality(A) < N PROVE A = B
  <2>1. A # 0 .. N
    <3> HIDE DEF A
    <3> QED
      BY <1>1, <1>4
  <2>2. PICK k \in 0 .. N : k \notin B
    BY <2>1
  <2>3. \A n \in B : n \in 0 .. H /\ n < k
    <3> SUFFICES ASSUME NEW n \in B, k <= n PROVE FALSE
      OBVIOUS
    <3> QED
      BY <2>2
  <2>4. B \subseteq 0 .. N
    BY <2>3
  <2> QED
    BY <2>4
<1> QED
  BY <1>2, <1>3, <1>4

-----------------------------------------------------------------------------
(* Occurrences of "every" recurrences                                      *)

\* The occurrences that an "every" recurrence with frequency f can have.
EveryRow(f) == {r \in Row : r.frequency = f /\ r.isEvery /\ ValidPeriod(r)}

Forward(f) == [r \in EveryRow(f) |-> Moved(r, f)]

\* An earlier date stays as it is, or moves on.
NotBack(d, e) == (d = NULL <=> e = NULL) /\ (d # NULL => d \in Int /\ e \in Int /\ d <= e)

LEMMA EveryMoves ==
    ASSUME NEW f \in Intervals, ValidFrequency(f), today \in Int, NEW r \in EveryRow(f)
    PROVE  /\ NextOccurrence(r) = Moved(r, f)
           /\ Moved(r, f) \in EveryRow(f)
           /\ NotBack(r.start, Moved(r, f).start) /\ NotBack(r.end, Moved(r, f).end)
<1>1. r \in Row /\ r.frequency = f /\ r.isEvery /\ ValidPeriod(r) /\ f # NULL
  BY RequestAssumption DEF EveryRow, Intervals
<1>2. NextOccurrence(r) = Moved(r, f)
  BY <1>1 DEF NextOccurrence, IntervalOf
<1>3. Moved(r, f) \in EveryRow(f)
  <2>1. ValidPeriod(NextOccurrence(r))
    BY <1>1, NextPeriod
  <2> QED
    BY <1>1, <1>2, <2>1, MovedRow DEF EveryRow
<1>4. ASSUME NEW d \in Dates PROVE NotBack(d, AddInterval(d, f))
  <2>1. f.months \in Nat /\ f.days \in Nat /\ f.months \in Int /\ f.days \in Int
    BY DEF ValidFrequency, Intervals
  <2>2. CASE d = NULL
    BY <2>1, <2>2, Added DEF NotBack
  <2>3. CASE d # NULL
    <3>1. /\ d \in Int /\ AddInterval(d, f) = AddMonths(d, f.months) + f.days
          /\ AddInterval(d, f) # NULL
      BY <2>1, <2>3, Added
    <3>2. AddMonths(d, f.months) \in Int /\ AddMonths(d, f.months) >= d
      BY ONLY <2>1, <3>1, AddMonthsNeverBack
    <3> QED
      BY <2>1, <2>3, <3>1, <3>2 DEF NotBack
  <2> QED
    BY <2>2, <2>3
<1>5. r.start \in Dates /\ r.end \in Dates
  BY <1>1 DEF Row
<1> QED
  BY <1>1, <1>2, <1>3, <1>4, <1>5, MovedRow

LEMMA ForwardIn ==
    ASSUME NEW f \in Intervals, ValidFrequency(f), today \in Int
    PROVE  Forward(f) \in [EveryRow(f) -> EveryRow(f)]
BY EveryMoves DEF Forward

\* An occurrence whose date has been reached comes after occurrences whose
\* date has been reached too, and whose anchor has.
LEMMA ReachedBefore ==
    ASSUME NEW f \in Intervals, ValidFrequency(f), today \in Int, NEW N \in Nat, NEW a,
           NEW h, Iterates(h, a, Forward(f), EveryRow(f), N),
           NEW date \in {"start", "end"}, NEW n \in 0 .. N, Reached(h[n][date])
    PROVE  \A m \in 0 .. n : Reached(h[m][date]) /\ Reached(Anchor(h[m]))
<1> DEFINE P == {k \in Nat : Reached(h[k][date]) => \A m \in 0 .. k : Reached(h[m][date])}
<1>1. 0 \in P
  OBVIOUS
<1>2. ASSUME NEW k \in 0 .. N, k < N, k \in P, Reached(h[k + 1][date])
      PROVE  Reached(h[k][date])
  <2>1. h[k] \in EveryRow(f) /\ k + 1 \in 1 .. N /\ (k + 1) - 1 = k
    BY <1>2 DEF Iterates
  <2>2. h[k + 1] = Moved(h[k], f)
    BY <2>1 DEF Iterates, Forward
  <2>3. NotBack(h[k].start, h[k + 1].start) /\ NotBack(h[k].end, h[k + 1].end)
    BY <2>1, <2>2, EveryMoves
  <2>4. NotBack(h[k][date], h[k + 1][date])
    BY <2>3
  <2> QED
    BY <1>2, <2>4 DEF NotBack, Reached
<1>3. 0 .. N \subseteq P
  <2>1. ASSUME NEW k \in 0 .. N, k < N, k \in P PROVE k + 1 \in P
    <3> SUFFICES ASSUME Reached(h[k + 1][date]), NEW m \in 0 .. k + 1 PROVE Reached(h[m][date])
      OBVIOUS
    <3>1. Reached(h[k][date])
      BY <1>2, <2>1
    <3>2. CASE m = k + 1
      BY <3>2
    <3>3. CASE m \in 0 .. k
      BY <2>1, <3>1, <3>3
    <3> QED
      BY <3>2, <3>3
  <2> HIDE DEF P
  <2>2. \A k \in 0 .. N : k < N /\ k \in P => k + 1 \in P
    BY <2>1
  <2> QED
    BY ONLY <1>1, <2>2, UpTo
<1>4. ASSUME NEW m \in 0 .. n, Reached(h[m][date]) PROVE Reached(Anchor(h[m]))
  <2>1. h[m] \in Row /\ ValidPeriod(h[m])
    BY DEF EveryRow, Iterates
  <2>2. Reached(h[m].start) \/ Reached(h[m].end)
    BY <1>4
  <2> QED
    BY <2>1, <2>2 DEF Row, Dates, ValidPeriod, Reached, Anchor
<1> QED
  BY <1>3, <1>4

EveryTask(r) ==
    /\ r \in Row /\ r.frequency # NULL /\ r.isEvery
    /\ ValidPeriod(r) /\ ValidFrequency(r.frequency)

\* The occurrences up to depth N, if the task is completed again and again.
EveryHistory(r, h, N) ==
    Iterates(h, r, Forward(r.frequency), EveryRow(r.frequency), N)

LEMMA EveryHistoryExists ==
    ASSUME NEW r, EveryTask(r), today \in Int, NEW N \in Nat
    PROVE  \E h : EveryHistory(r, h, N)
<1> DEFINE f == r.frequency
<1>1. f \in Intervals /\ ValidFrequency(f) /\ today \in Int /\ r \in EveryRow(f)
  BY DEF EveryTask, Row, EveryRow
<1>2. Forward(f) \in [EveryRow(f) -> EveryRow(f)]
  BY <1>1, ForwardIn
<1> QED
  BY <1>1, <1>2, Iteration DEF EveryHistory

\* What every_tasks computes.
LEMMA OccurrencesAre ==
    ASSUME NEW r, EveryTask(r), NEW N \in Nat, RECURRENCE_MAX \in 0 .. N,
           NEW h, EveryHistory(r, h, N)
    PROVE  \A n \in 0 .. RECURRENCE_MAX : Occurrences(r)[n] = h[n]
<1> DEFINE f == r.frequency
           R == RECURRENCE_MAX
           O == Occurrences(r)
           Solves(g) == g = [n \in 0 .. R |-> IF n = 0 THEN r ELSE Moved(g[n - 1], f)]
<1>1. Iterates(h, r, Forward(f), EveryRow(f), N)
  BY DEF EveryHistory
<1>2. \A e \in EveryRow(f) : Forward(f)[e] = Moved(e, f)
  BY DEF Forward
<1>3. \E g : Solves(g)
  <2> DEFINE g == [n \in 0 .. R |-> h[n]]
  <2>1. ASSUME NEW n \in 0 .. R PROVE g[n] = IF n = 0 THEN r ELSE Moved(g[n - 1], f)
    <3>1. CASE n = 0
      BY <1>1, <3>1 DEF Iterates
    <3>2. CASE n # 0
      <4>1. n \in 1 .. N /\ n - 1 \in 0 .. N /\ n - 1 \in 0 .. R
        BY <3>2
      <4>2. h[n] = Forward(f)[h[n - 1]] /\ h[n - 1] \in EveryRow(f)
        BY <1>1, <4>1 DEF Iterates
      <4> QED
        BY <1>2, <3>2, <4>1, <4>2
    <3> QED
      BY <3>1, <3>2
  <2>2. Solves(g)
    BY <2>1
  <2> QED
    BY <2>2
<1>4. Solves(O)
  BY <1>3 DEF Occurrences
<1>5. O[0] = r
  BY <1>4
<1>6. ASSUME NEW n \in 1 .. R, O[n - 1] \in EveryRow(f)
      PROVE  O[n] = Forward(f)[O[n - 1]]
  <2>1. n \in 0 .. R /\ n # 0
    OBVIOUS
  <2> HIDE DEF R, f, O
  <2>2. O[n] = Moved(O[n - 1], f)
    BY <1>4, <2>1
  <2> QED
    BY <1>2, <1>6, <2>2
<1>7. IteratesIn(O, r, Forward(f), EveryRow(f), R)
  BY <1>5, <1>6 DEF IteratesIn
<1>8. N \in Nat /\ R \in 0 .. N
  OBVIOUS
<1> DEFINE S == EveryRow(f)
           F == Forward(f)
<1> HIDE DEF Solves, f, S, F, R, O
<1>9. \A n \in 0 .. R : O[n] = h[n]
  <2>1. Iterates(h, r, F, S, N) /\ IteratesIn(O, r, F, S, R)
    BY <1>1, <1>7 DEF S, F
  <2> QED
    BY ONLY <2>1, <1>8, IterationIsUnique
<1> QED
  BY <1>9 DEF R, O

-----------------------------------------------------------------------------
(* Ranges.  An "every" row can be read on all later days, because its first *)
(* sum exists: the depths that are reached later start today or before.    *)

\* What is true of a row as long as nothing writes it.
Kept(r) ==
    /\ r \in Row
    /\ IsDate(r.start) /\ IsDate(r.end)
    /\ ValidPeriod(r)
    /\ r.estimate # NULL => FitsEstimate(r.estimate)
    /\ r.frequency # NULL => ValidFrequency(r.frequency)

Summable(r) == r.frequency # NULL /\ r.isEvery => Adds(Anchor(r), r.frequency)

LEMMA RangeTypes ==
    /\ FirstDay \in Int /\ LastDay \in Int /\ FirstToday \in Int /\ LastToday \in Int
    /\ LastTimestamp \in Int
    /\ RECURRENCE_MAX \in Nat \ {0}
    /\ FirstDay <= FirstToday /\ FirstToday <= LastToday /\ LastToday <= LastDay
    /\ 2 * LastDay - FirstDay + 9 * (RECURRENCE_MAX + 1) <= LastTimestamp
BY RangeAssumption, ValuesAssumption

LEMMA DatesAre ==
    ASSUME NEW r, Kept(r)
    PROVE  /\ Anchor(r) \in Int /\ FirstDay <= Anchor(r) /\ Anchor(r) <= LastDay
           /\ r.start \in Dates /\ r.end \in Dates
           /\ r.start # NULL => r.start \in Int /\ r.start <= LastDay /\ Anchor(r) = r.start
           /\ r.end # NULL => r.end \in Int /\ r.end <= LastDay /\ Anchor(r) <= r.end
           /\ r.start = NULL => Anchor(r) = r.end /\ r.end # NULL
BY RangeTypes DEF Kept, IsDate, ValidPeriod, Anchor, Row, Dates

\* How long after its anchor a task ends.
Lag(r) == IF r.end = NULL THEN 0 ELSE r.end - Anchor(r)

LEMMA EveryStep ==
    ASSUME NEW f \in Intervals, ValidFrequency(f), today \in Int, NEW r \in EveryRow(f)
    PROVE  /\ Anchor(r) \in Int /\ Anchor(Moved(r, f)) \in Int
           /\ Anchor(Moved(r, f)) = AddMonths(Anchor(r), f.months) + f.days
           /\ Lag(r) \in Int /\ Lag(Moved(r, f)) \in Int
           /\ Lag(Moved(r, f)) <= Lag(r) + 9
<1> DEFINE n == Moved(r, f)
           a == Anchor(r)
<1>1. f.months \in Nat /\ f.months \in Int /\ f.days \in Int
  BY DEF ValidFrequency, Intervals
<1>2. r \in Row /\ ValidPeriod(r) /\ r.start \in Dates /\ r.end \in Dates
  BY DEF EveryRow, Row
<1>3. n.start = AddInterval(r.start, f) /\ n.end = AddInterval(r.end, f)
  BY <1>2, MovedRow
<1> HIDE DEF n
<1>4. /\ r.start # NULL => r.start \in Int /\ n.start # NULL /\ n.start \in Int
                           /\ n.start = AddMonths(r.start, f.months) + f.days
      /\ r.end # NULL => r.end \in Int /\ n.end # NULL /\ n.end \in Int
                         /\ n.end = AddMonths(r.end, f.months) + f.days
      /\ r.start = NULL => n.start = NULL
      /\ r.end = NULL => n.end = NULL
  BY <1>1, <1>2, <1>3, Added
<1>5. a \in Int /\ Anchor(n) = AddMonths(a, f.months) + f.days /\ Anchor(n) \in Int
  BY <1>2, <1>4 DEF Anchor, ValidPeriod
<1>6. CASE r.end = NULL
  BY <1>4, <1>5, <1>6 DEF Lag, n
<1>7. CASE r.end # NULL
  <2>1. AddMonths(a, f.months) \in Int /\ AddMonths(r.end, f.months) \in Int
    BY <1>1, <1>4, <1>5, <1>7, AddMonthsIn
  <2>2. (AddMonths(r.end, f.months) - AddMonths(a, f.months)) - (r.end - a) \in -9 .. 9
    BY <1>1, <1>4, <1>5, <1>7, MovesDiffer
  <2>3. Lag(r) = r.end - a /\ Lag(n) = n.end - Anchor(n)
    BY <1>4, <1>7 DEF Lag
  <2> HIDE DEF a
  <2> QED
    BY <1>1, <1>4, <1>5, <1>7, <2>1, <2>2, <2>3 DEF n, a
<1> QED
  BY <1>6, <1>7

LEMMA HistorySteps ==
    ASSUME NEW r, EveryTask(r), today \in Int, NEW N \in Nat, NEW h, EveryHistory(r, h, N)
    PROVE  /\ h[0] = r
           /\ \A n \in 0 .. N : h[n] \in EveryRow(r.frequency)
           /\ \A n \in 0 .. N : n < N => h[n + 1] = Moved(h[n], r.frequency)
           /\ r.frequency \in Intervals
<1> DEFINE f == r.frequency
<1>1. /\ h[0] = r /\ f \in Intervals
      /\ \A n \in 0 .. N : h[n] \in EveryRow(f)
      /\ \A n \in 1 .. N : h[n] = Forward(f)[h[n - 1]]
  BY DEF EveryHistory, Iterates, EveryTask, Row
<1>2. ASSUME NEW n \in 0 .. N, n < N PROVE h[n + 1] = Moved(h[n], f)
  <2>1. n + 1 \in 1 .. N /\ (n + 1) - 1 = n
    BY <1>2
  <2>2. h[n + 1] = Forward(f)[h[n]] /\ h[n] \in EveryRow(f)
    BY <1>1, <2>1
  <2> QED
    BY <2>2 DEF Forward
<1> QED
  BY <1>1, <1>2

LEMMA LagGrows ==
    ASSUME NEW r, EveryTask(r), today \in Int, NEW N \in Nat, NEW h, EveryHistory(r, h, N)
    PROVE  \A n \in 0 .. N : Lag(h[n]) \in Int /\ Lag(h[n]) <= Lag(r) + 9 * n
<1> DEFINE P == {n \in Nat : Lag(h[n]) \in Int /\ Lag(h[n]) <= Lag(r) + 9 * n}
           f == r.frequency
<1>1. /\ h[0] = r /\ f \in Intervals /\ ValidFrequency(f)
      /\ \A n \in 0 .. N : h[n] \in EveryRow(f)
      /\ \A n \in 0 .. N : n < N => h[n + 1] = Moved(h[n], f)
  BY HistorySteps DEF EveryTask
<1> HIDE DEF f
<1>2. Lag(r) \in Int
  <2>1. r \in EveryRow(f)
    BY <1>1
  <2> QED
    BY <1>1, <2>1, EveryStep
<1>3. 0 \in P
  BY <1>1, <1>2
<1>4. ASSUME NEW n \in 0 .. N, n < N, n \in P PROVE n + 1 \in P
  <2>1. /\ Lag(h[n + 1]) \in Int /\ Lag(h[n + 1]) <= Lag(h[n]) + 9
    BY <1>1, <1>4, EveryStep
  <2> QED
    BY <1>2, <1>4, <2>1
<1>5. 0 .. N \subseteq P
  <2> HIDE DEF P
  <2>1. \A n \in 0 .. N : n < N /\ n \in P => n + 1 \in P
    BY <1>4
  <2> QED
    BY ONLY <1>3, <2>1, UpTo
<1> QED
  BY <1>5

\* Every sum of the query exists if the first one does.
LEMMA EveryComputes ==
    ASSUME NEW r, Kept(r), EveryTask(r), Summable(r), today \in FirstToday .. LastToday
    PROVE  Computes(r)
<1> DEFINE f == r.frequency
           R == RECURRENCE_MAX
           O == Occurrences(r)
           m == f.months
           Far == 2 * LastDay - FirstDay + 9 * (R + 1)
<1>1. /\ R \in Nat /\ R # 0 /\ R \in 0 .. R /\ 1 \in 0 .. R
      /\ today \in Int /\ today <= LastDay
      /\ LastDay \in Int /\ FirstDay \in Int /\ LastTimestamp \in Int /\ Far <= LastTimestamp
  BY RangeTypes
<1>2. PICK h : EveryHistory(r, h, R)
  BY <1>1, EveryHistoryExists
<1>3. \A n \in 0 .. R : O[n] = h[n]
  BY <1>1, <1>2, OccurrencesAre
<1>4. /\ h[0] = r /\ f \in Intervals
      /\ \A n \in 0 .. R : h[n] \in EveryRow(f)
      /\ \A n \in 0 .. R : n < R => h[n + 1] = Moved(h[n], f)
      /\ \A n \in 0 .. R : Lag(h[n]) \in Int /\ Lag(h[n]) <= Lag(r) + 9 * n
  BY <1>1, <1>2, HistorySteps, LagGrows
<1>5. ValidFrequency(f) /\ m \in Nat /\ m \in Int /\ f.days \in Nat
  BY <1>4 DEF EveryTask, ValidFrequency, Intervals
<1>6. /\ Anchor(r) \in Int /\ FirstDay <= Anchor(r) /\ Adds(Anchor(r), f)
      /\ Lag(r) \in Int /\ Lag(r) <= LastDay - FirstDay
  BY <1>1, DatesAre DEF Lag, EveryTask, Summable
<1> HIDE DEF O, f, m, R, Far
<1>7. ASSUME NEW n \in 0 .. R, n # R, \A k \in 1 .. n : Reached(Anchor(O[k]))
      PROVE  /\ Adds(Anchor(O[n]), f)
             /\ Reached(Anchor(O[n + 1])) => Adds(O[n].start, f) /\ Adds(O[n].end, f)
  <2> DEFINE e == h[n]
             x == h[n + 1]
             a == Anchor(e)
  <2>1. /\ n < R /\ n + 1 \in 0 .. R /\ n \in Int /\ O[n] = e /\ O[n + 1] = x
        /\ e \in EveryRow(f) /\ x = Moved(e, f)
    BY <1>1, <1>3, <1>4, <1>7
  <2>2. /\ a \in Int /\ Anchor(x) \in Int /\ AddMonths(a, m) \in Int
        /\ Anchor(x) = AddMonths(a, m) + f.days
    BY <1>1, <1>4, <1>5, <2>1, EveryStep, AddMonthsIn DEF m
  <2>3. /\ e.start \in Dates /\ e.end \in Dates
        /\ e.start # NULL => e.start = a
        /\ e.end # NULL => e.end \in Int /\ x.end = AddMonths(e.end, m) + f.days
                           /\ AddMonths(e.end, m) \in Int /\ x.end \in Int /\ x.end # NULL
    <3>1. e \in Row /\ x.end = AddInterval(e.end, f)
      BY <1>4, <2>1, MovedRow DEF EveryRow
    <3>2. e.start \in Dates /\ e.end \in Dates
      BY <3>1 DEF Row
    <3>3. e.end # NULL => e.end \in Int /\ x.end = AddMonths(e.end, m) + f.days
                          /\ AddMonths(e.end, m) \in Int /\ x.end \in Int /\ x.end # NULL
      BY <1>5, <3>1, <3>2, Added DEF m
    <3> QED
      BY <3>2, <3>3 DEF Anchor
  <2> HIDE DEF x
  <2>4. Adds(a, f)
    <3>1. CASE n = 0
      BY <1>4, <1>6, <3>1
    <3>2. CASE n # 0
      <4>1. Reached(a) /\ Reached(Anchor(h[1])) /\ h[1] = Moved(r, f)
        <5>1. n \in 1 .. n /\ 1 \in 1 .. n /\ n \in 0 .. R /\ 0 \in 0 .. R /\ 0 < R
          BY <1>1, <3>2
        <5>2. O[1] = h[1] /\ h[0 + 1] = Moved(h[0], f)
          BY <1>1, <1>3, <1>4, <5>1
        <5> QED
          BY <1>4, <1>7, <2>1, <5>1, <5>2
      <4>2. /\ Anchor(h[1]) = AddMonths(Anchor(r), m) + f.days
            /\ AddMonths(Anchor(r), m) \in Int
        <5>1. r \in EveryRow(f)
          BY <1>1, <1>4
        <5> QED
          BY <1>1, <1>4, <1>5, <1>6, <4>1, <5>1, EveryStep, AddMonthsIn DEF m
      <4>3. (AddMonths(a, m) - AddMonths(Anchor(r), m)) - (a - Anchor(r)) \in -9 .. 9
        BY <1>5, <1>6, <2>2, MovesDiffer
      <4>4. a <= today /\ Anchor(h[1]) <= today
        BY <4>1 DEF Reached
      <4>5. AddMonths(a, m) + f.days <= 2 * LastDay - FirstDay + 9
        <5> HIDE DEF a
        <5> QED
          BY <1>1, <1>5, <1>6, <2>2, <4>2, <4>3, <4>4
      <4> HIDE DEF a
      <4> QED
        BY <1>1, <1>5, <2>2, <4>5 DEF Adds, Far, m
    <3> QED
      BY <3>1, <3>2
  <2>5. ASSUME Reached(Anchor(x)) PROVE Adds(e.start, f) /\ Adds(e.end, f)
    <3>1. Adds(e.start, f)
      BY <2>3, <2>4 DEF Adds
    <3>2. CASE e.end = NULL
      BY <3>1, <3>2 DEF Adds
    <3>3. CASE e.end # NULL
      <4>1. x.end <= Far
        <5>1. Anchor(x) <= today /\ Lag(x) = x.end - Anchor(x)
          BY <2>3, <2>5, <3>3 DEF Reached, Lag
        <5>2. Lag(x) \in Int /\ Lag(x) <= Lag(r) + 9 * (n + 1)
          BY <1>4, <2>1 DEF x
        <5>3. 9 * (n + 1) <= 9 * (R + 1)
          BY <1>1, <2>1
        <5> QED
          BY <1>1, <1>6, <2>1, <2>2, <2>3, <3>3, <5>1, <5>2, <5>3 DEF Far
      <4> HIDE DEF e
      <4> QED
        BY <1>1, <1>5, <2>3, <3>1, <3>3, <4>1 DEF Adds, m, Far
    <3> QED
      BY <3>2, <3>3
  <2> QED
    BY <2>1, <2>4, <2>5
<1>8. Depths(O) = {n \in 0 .. R : \A k \in 1 .. n : Reached(Anchor(O[k]))}
  BY DEF Depths, R
<1> QED
  BY <1>7, <1>8 DEF Computes, O, R, f

\* A row can be read on any day if its first sum exists.
LEMMA CanBeRead ==
    ASSUME NEW r, Kept(r), today \in FirstToday .. LastToday
    PROVE  /\ Loads(r) <=> Summable(r)
           /\ Readable(r) <=> Summable(r)
<1>1. CASE r.frequency # NULL /\ r.isEvery
  <2>1. EveryTask(r) /\ today \in Int
    BY <1>1, RangeTypes DEF EveryTask, Kept
  <2>2. ASSUME Computes(r) PROVE Adds(Anchor(r), r.frequency)
    <3> DEFINE R == RECURRENCE_MAX
               O == Occurrences(r)
    <3>1. R \in Nat /\ R # 0 /\ R \in 0 .. R /\ 0 \in 0 .. R
      BY RangeTypes
    <3>2. PICK h : EveryHistory(r, h, R)
      BY <2>1, <3>1, EveryHistoryExists
    <3>3. O[0] = r
      BY <2>1, <3>1, <3>2, OccurrencesAre DEF EveryHistory, Iterates
    <3> HIDE DEF O
    <3>4. 0 \in Depths(O) \ {R}
      BY <3>1 DEF Depths
    <3> QED
      BY <2>2, <3>3, <3>4 DEF Computes, O
  <2>3. Summable(r) => Computes(r)
    BY <2>1, EveryComputes
  <2> QED
    BY <1>1, <2>2, <2>3 DEF Loads, Readable, Summable, Kept
<1>2. CASE ~ (r.frequency # NULL /\ r.isEvery)
  BY <1>2 DEF Loads, Readable, Summable, Kept
<1> QED
  BY <1>1, <1>2

LEMMA AddsEarlier ==
    ASSUME NEW a \in Int, NEW b \in Int, a <= b, NEW f \in Intervals, Adds(b, f)
    PROVE  Adds(a, f)
<1>1. f.months \in Int /\ f.days \in Int /\ b # NULL
  BY RequestAssumption DEF Intervals
<1>2. /\ AddMonths(a, f.months) \in Int /\ AddMonths(b, f.months) \in Int
      /\ AddMonths(a, f.months) <= AddMonths(b, f.months)
  BY <1>1, AddMonthsIn, AddMonthsRises
<1> QED
  BY <1>1, <1>2, RangeTypes DEF Adds

-----------------------------------------------------------------------------
(* The inductive invariant                                                 *)

\* An occurrence that was completed before the current one.
Shared(occurrence) ==
    /\ Kept(occurrence)
    /\ row.frequency # NULL
    /\ occurrence.frequency = row.frequency
    /\ occurrence.isEvery = row.isEvery

Inv ==
    /\ today \in FirstToday .. LastToday
    /\ row # NULL => Kept(row) /\ Summable(row)
    /\ past \in Seq(Row)
    /\ \A i \in DOMAIN past : Shared(past[i])
    /\ answered # NULL =>
          /\ answered \in Asked
          /\ row = Stored(answered)
          /\ Kept(row)

LEMMA InitInv == Init => Inv
<1> SUFFICES ASSUME Init PROVE Inv
  OBVIOUS
<1>1. past \in Seq(Row) /\ DOMAIN past = {}
  BY DEF Init
<1> QED
  BY <1>1, RangeTypes DEF Init, Inv

\* An update changes nothing of a completed occurrence but its frequency.
LEMMA JoinedAre ==
    ASSUME past \in Seq(Row), NEW request \in Asked
    PROVE  /\ Joined(request) \in Seq(Row)
           /\ Len(Joined(request)) <= Len(past)
           /\ \A i \in DOMAIN Joined(request) :
                 LET p == past[i]
                     q == Joined(request)[i]
                 IN  /\ i \in DOMAIN past /\ request.frequency # NULL
                     /\ q \in Row
                     /\ q.start = p.start /\ q.end = p.end /\ q.estimate = p.estimate
                     /\ q.frequency = request.frequency /\ q.isEvery = request.isEvery
<1>1. CASE request.frequency = NULL
  BY <1>1 DEF Joined
<1>2. CASE request.frequency # NULL
  <2> DEFINE With(p) == [p EXCEPT !.frequency = request.frequency, !.isEvery = request.isEvery]
  <2>1. request.frequency \in Intervals /\ request.isEvery \in BOOLEAN
    BY <1>2 DEF Asked, Intervals
  <2>2. ASSUME NEW p \in Row
        PROVE  /\ With(p) \in Row
               /\ With(p).start = p.start /\ With(p).end = p.end /\ With(p).estimate = p.estimate
               /\ With(p).frequency = request.frequency /\ With(p).isEvery = request.isEvery
    BY <2>1 DEF Row
  <2>3. Joined(request) = [i \in DOMAIN past |-> With(past[i])]
    BY <1>2 DEF Joined
  <2> HIDE DEF With
  <2>4. /\ DOMAIN past = 1 .. Len(past) /\ Len(past) \in Nat
        /\ \A i \in DOMAIN past : past[i] \in Row
    OBVIOUS
  <2>5. /\ Joined(request) \in [1 .. Len(past) -> Row]
        /\ DOMAIN Joined(request) = 1 .. Len(past)
        /\ \A i \in 1 .. Len(past) : Joined(request)[i] = With(past[i])
    BY <2>2, <2>3, <2>4
  <2>6. Joined(request) \in Seq(Row) /\ Len(Joined(request)) = Len(past)
    BY <2>4, <2>5
  <2> QED
    BY <1>2, <2>2, <2>4, <2>5, <2>6
<1> QED
  BY <1>1, <1>2

LEMMA WriteInv ==
    ASSUME Inv, NEW request \in Requests, Write(request)
    PROVE  Inv'
<1>1. request \in Asked /\ past \in Seq(Row) /\ today \in FirstToday .. LastToday
  BY RequestAssumption DEF Inv
<1>2. Kept(Stored(request))
  BY <1>1, StoredRequest DEF Write, Accepted, Kept, Readable, Loads
<1>3. Summable(Stored(request))
  BY <1>1, <1>2, CanBeRead DEF Write
<1>4. Joined(request) \in Seq(Row)
  BY <1>1, JoinedAre
<1>5. ASSUME NEW i \in DOMAIN Joined(request)
      PROVE  LET q == Joined(request)[i]
             IN  /\ Kept(q) /\ Stored(request).frequency # NULL
                 /\ q.frequency = Stored(request).frequency
                 /\ q.isEvery = Stored(request).isEvery
  <2> DEFINE p == past[i]
             q == Joined(request)[i]
  <2>1. /\ i \in DOMAIN past /\ request.frequency # NULL /\ q \in Row
        /\ q.start = p.start /\ q.end = p.end /\ q.estimate = p.estimate
        /\ q.frequency = request.frequency /\ q.isEvery = request.isEvery
    BY <1>1, <1>5, JoinedAre
  <2>2. Kept(p)
    BY <2>1 DEF Inv, Shared
  <2>3. ValidFrequency(request.frequency)
    BY <2>1 DEF Write, Accepted
  <2>4. /\ Stored(request).frequency = request.frequency
        /\ Stored(request).isEvery = request.isEvery
    BY <1>1, StoredRequest
  <2> HIDE DEF p, q
  <2>5. Kept(q)
    BY <2>1, <2>2, <2>3 DEF Kept, ValidPeriod
  <2> QED
    BY <2>1, <2>4, <2>5 DEF q
<1>6. row' = Stored(request) /\ past' = Joined(request) /\ answered' = request /\ today' = today
  BY DEF Write
<1> QED
  BY <1>1, <1>2, <1>3, <1>4, <1>5, <1>6 DEF Inv, Shared, Kept, Summable

LEMMA NextKept ==
    ASSUME NEW r, Kept(r), r.frequency # NULL, today \in Int,
           IsDate(NextOccurrence(r).start), IsDate(NextOccurrence(r).end)
    PROVE  Kept(NextOccurrence(r))
<1>1. r \in Row /\ ValidPeriod(r)
  BY DEF Kept
<1> QED
  BY <1>1, NextRow, NextPeriod DEF Kept

LEMMA CompleteInv == ASSUME Inv, Complete PROVE Inv'
<1> DEFINE n == NextOccurrence(row)
<1>1. /\ Kept(row) /\ row \in Row /\ row.frequency # NULL
      /\ past \in Seq(Row) /\ today \in Int /\ today \in FirstToday .. LastToday
  BY RangeTypes DEF Inv, Complete, Kept
<1>2. Kept(n) /\ Summable(n)
  <2>1. Kept(n)
    BY <1>1, NextKept DEF Complete, Completable, Readable, Loads
  <2> QED
    BY <1>1, <2>1, CanBeRead DEF Complete, Completable
<1>3. n.frequency = row.frequency /\ n.isEvery = row.isEvery
  BY <1>1, NextRow DEF Kept
<1> HIDE DEF n
<1>4. /\ <<row>> \o past \in Seq(Row)
      /\ \A i \in DOMAIN (<<row>> \o past) :
            (<<row>> \o past)[i] = row
            \/ \E j \in DOMAIN past : (<<row>> \o past)[i] = past[j]
  <2>1. <<row>> \in Seq(Row) /\ Len(<<row>>) = 1 /\ <<row>>[1] = row
    BY <1>1
  <2>2. /\ <<row>> \o past \in Seq(Row)
        /\ Len(<<row>> \o past) = 1 + Len(past)
        /\ \A i \in 1 .. 1 + Len(past) :
              (<<row>> \o past)[i] = IF i <= 1 THEN <<row>>[i] ELSE past[i - 1]
    BY <1>1, <2>1, ConcatProperties
  <2>3. DOMAIN (<<row>> \o past) = 1 .. 1 + Len(past) /\ DOMAIN past = 1 .. Len(past)
        /\ Len(past) \in Nat
    BY <1>1, <2>2
  <2> HIDE DEF n
  <2>4. ASSUME NEW i \in 1 .. 1 + Len(past), i # 1 PROVE i - 1 \in 1 .. Len(past)
    BY <2>3, <2>4
  <2> QED
    BY <2>1, <2>2, <2>3, <2>4
<1>5. row' = n /\ past' = <<row>> \o past /\ answered' = NULL /\ today' = today
  BY DEF Complete, n
<1>6. ASSUME NEW i \in DOMAIN past' PROVE Shared(past[i])'
  <2>1. past'[i] = row \/ \E j \in DOMAIN past : past'[i] = past[j]
    BY <1>4, <1>5, <1>6
  <2>2. \A j \in DOMAIN past : Shared(past[j])
    BY DEF Inv
  <2> QED
    BY <1>1, <1>3, <1>5, <2>1, <2>2 DEF Shared, Kept
<1> QED
  BY <1>1, <1>2, <1>4, <1>5, <1>6 DEF Inv, Kept, Summable

LEMMA ReopenInv == ASSUME Inv, Reopen PROVE Inv'
<1> DEFINE r == Head(past)
<1>1. past \in Seq(Row) /\ past # << >> /\ today \in FirstToday .. LastToday
  BY DEF Inv, Reopen
<1>2. /\ r = past[1] /\ 1 \in DOMAIN past
      /\ Tail(past) \in Seq(Row)
      /\ \A i \in DOMAIN Tail(past) : i + 1 \in DOMAIN past /\ Tail(past)[i] = past[i + 1]
  BY <1>1
<1>3. \A i \in DOMAIN past : Shared(past[i])
  BY DEF Inv
<1>4. Kept(r) /\ Summable(r)
  <2>1. Kept(r)
    BY <1>2, <1>3 DEF Shared
  <2> QED
    BY <1>1, <2>1, CanBeRead DEF Reopen
<1>5. row' = r /\ past' = Tail(past) /\ answered' = NULL /\ today' = today
  BY DEF Reopen
<1> HIDE DEF r
<1>6. ASSUME NEW i \in DOMAIN past' PROVE Shared(past[i])'
  <2>1. i + 1 \in DOMAIN past /\ past'[i] = past[i + 1]
    BY <1>2, <1>5, <1>6
  <2>2. Shared(past[i + 1]) /\ Shared(r)
    BY <1>2, <1>3, <2>1
  <2> QED
    BY <1>5, <2>1, <2>2 DEF Shared, Kept
<1> QED
  BY <1>1, <1>2, <1>4, <1>5, <1>6 DEF Inv, Kept, Summable

LEMMA NextInv == Inv /\ [Next]_vars => Inv'
<1> SUFFICES ASSUME Inv, [Next]_vars PROVE Inv'
  OBVIOUS
<1>1. CASE Tomorrow
  <2>1. today' \in FirstToday .. LastToday
    BY <1>1, RangeTypes DEF Tomorrow, Inv
  <2> QED
    BY <1>1, <2>1 DEF Tomorrow, Inv, Shared, Kept, Summable
<1>2. CASE UNCHANGED vars
  BY <1>2 DEF vars, Inv, Shared, Kept, Summable
<1>3. CASE Create \/ Update
  BY <1>3, WriteInv DEF Create, Update
<1> QED
  BY <1>1, <1>2, <1>3, CompleteInv, ReopenInv DEF Next

LEMMA InvHolds == Spec => []Inv
BY InitInv, NextInv, PTL DEF Spec

-----------------------------------------------------------------------------
(* Theorems                                                                *)

\* A completed occurrence that does not come after an "every" one can be read.
LEMMA InOrderSummable ==
    ASSUME Inv, row # NULL, NEW i \in DOMAIN past, InOrder(past[i])
    PROVE  Kept(past[i]) /\ Summable(past[i])
<1> DEFINE p == past[i]
<1>1. /\ Kept(row) /\ Summable(row) /\ Kept(p)
      /\ row.frequency # NULL /\ p.frequency = row.frequency /\ p.isEvery = row.isEvery
  BY DEF Inv, Shared
<1>2. Anchor(p) \in Int /\ Anchor(row) \in Int /\ row.frequency \in Intervals
  BY <1>1, DatesAre DEF Kept, Row
<1> HIDE DEF p
<1>3. row.isEvery => Adds(Anchor(p), row.frequency)
  BY <1>1, <1>2, AddsEarlier DEF Summable, InOrder, p
<1> QED
  BY <1>1, <1>3 DEF Summable, p

\* Every committed row can be read again, on every later day, and so can the
\* completed occurrences of a recurrence that do not come after it.
THEOREM ReadableHolds == Spec => []CommittedIsReadable
<1>1. ASSUME Inv, row # NULL
      PROVE  Readable(row) /\ \A i \in DOMAIN past : InOrder(past[i]) => Readable(past[i])
  <2>1. today \in FirstToday .. LastToday /\ Kept(row) /\ Summable(row)
    BY <1>1 DEF Inv
  <2>2. Readable(row)
    BY <2>1, CanBeRead
  <2>3. ASSUME NEW i \in DOMAIN past, InOrder(past[i]) PROVE Readable(past[i])
    <3>1. Kept(past[i]) /\ Summable(past[i])
      BY <1>1, <2>3, InOrderSummable
    <3> QED
      BY <2>1, <3>1, CanBeRead
  <2> QED
    BY <2>2, <2>3
<1>2. Inv => CommittedIsReadable
  BY <1>1 DEF CommittedIsReadable
<1> QED
  BY <1>2, InvHolds, PTL

\* The next occurrence has sums of its own, if it has dates: an interval that
\* moved one date to another moves that one hardly further.
LEMMA NextSummable ==
    ASSUME NEW r, Kept(r), r.frequency # NULL, today \in FirstToday .. LastToday,
           IsDate(NextOccurrence(r).start), IsDate(NextOccurrence(r).end)
    PROVE  Summable(NextOccurrence(r))
<1> DEFINE f == r.frequency
           n == NextOccurrence(r)
           a == Anchor(r)
           m == f.months
<1>1. today \in Int /\ Kept(n) /\ n.frequency = f
  BY RangeTypes, NextKept, NextRow DEF Kept
<1> SUFFICES ASSUME r.isEvery PROVE Adds(Anchor(n), f)
  BY <1>1, NextRow DEF Summable, Kept
<1>2. /\ f \in Intervals /\ ValidFrequency(f) /\ r \in EveryRow(f)
      /\ n = Moved(r, f)
  BY DEF Kept, Row, EveryRow, NextOccurrence, IntervalOf
<1>3. m \in Nat /\ m \in Int /\ f.days \in Nat
  BY <1>2 DEF ValidFrequency, Intervals
<1>4. /\ a \in Int /\ FirstDay <= a /\ Anchor(n) \in Int /\ Anchor(n) <= LastDay
  BY <1>1, DatesAre
<1>5. Anchor(n) = AddMonths(a, m) + f.days
  BY <1>1, <1>2, EveryStep
<1> HIDE DEF n, a, m, f
<1>6. AddMonths(a, m) \in Int /\ AddMonths(Anchor(n), m) \in Int
  BY <1>3, <1>4, AddMonthsIn
<1>7. (AddMonths(Anchor(n), m) - AddMonths(a, m)) - (Anchor(n) - a) \in -9 .. 9
  BY <1>3, <1>4, MovesDiffer
<1>8. AddMonths(Anchor(n), m) + f.days <= 2 * LastDay - FirstDay + 9
  BY <1>3, <1>4, <1>5, <1>6, <1>7, RangeTypes
<1> QED
  BY <1>3, <1>6, <1>8, RangeTypes DEF Adds, m

\* The sums that make the next occurrence exist, if its dates do.
LEMMA NextAdds ==
    ASSUME NEW r, Kept(r), r.frequency # NULL, today \in FirstToday .. LastToday,
           IsDate(NextOccurrence(r).start), IsDate(NextOccurrence(r).end)
    PROVE  Adds(r.start, IntervalOf(r)) /\ Adds(r.end, IntervalOf(r))
<1> DEFINE i == IntervalOf(r)
           n == NextOccurrence(r)
<1>1. /\ r \in Row /\ ValidPeriod(r) /\ today \in Int /\ ValidFrequency(r.frequency)
      /\ FirstDay <= today
  BY RangeTypes DEF Kept
<1>2. i.months \in Int /\ i.days \in Int /\ i.days >= FirstDay - LastDay
  <2>1. /\ i \in Intervals
        /\ i.days = r.frequency.days + (IF r.isEvery THEN 0 ELSE today - Anchor(r))
    BY <1>1, IntervalType
  <2>2. r.frequency.days >= 0 /\ r.frequency.days \in Int
    BY <1>1 DEF ValidFrequency, Row, Intervals
  <2>3. Anchor(r) \in Int /\ Anchor(r) <= LastDay
    BY DatesAre
  <2> QED
    BY <1>1, <2>1, <2>2, <2>3, RangeTypes DEF Intervals
<1>3. /\ n.start = AddInterval(r.start, i) /\ n.end = AddInterval(r.end, i)
      /\ r.start \in Dates /\ r.end \in Dates
  BY <1>1, NextRow DEF Row
<1> HIDE DEF i, n
<1>4. ASSUME NEW date \in Dates, IsDate(AddInterval(date, i)) PROVE Adds(date, i)
  <2>1. CASE date = NULL
    BY <2>1 DEF Adds
  <2>2. CASE date # NULL
    <3>1. /\ AddMonths(date, i.months) \in Int
          /\ AddInterval(date, i) = AddMonths(date, i.months) + i.days
          /\ AddInterval(date, i) # NULL
      BY <1>2, <2>2, Added
    <3>2. AddMonths(date, i.months) + i.days <= LastDay
      BY <1>4, <3>1 DEF IsDate
    <3>3. LastDay <= LastTimestamp /\ 2 * LastDay - FirstDay <= LastTimestamp
      BY RangeTypes
    <3> QED
      BY <1>2, <3>1, <3>2, <3>3, RangeTypes DEF Adds
  <2> QED
    BY <2>1, <2>2
<1>5. IsDate(n.start) /\ IsDate(n.end)
  BY DEF n
<1> QED
  BY <1>3, <1>4, <1>5 DEF i

\* Completing fails only on next dates beyond the last one, or on a previous
\* occurrence that comes after an "every" one.
THEOREM CompletionHolds == Spec => []CanComplete
<1>1. ASSUME Inv, Recurs,
             IsDate(NextOccurrence(row).start), IsDate(NextOccurrence(row).end),
             past # << >> => InOrder(Head(past))
      PROVE  Completable
  <2> DEFINE n == NextOccurrence(row)
  <2>1. /\ today \in FirstToday .. LastToday /\ today \in Int
        /\ row # NULL /\ row.frequency # NULL /\ Kept(row) /\ Summable(row)
    BY <1>1, RangeTypes DEF Inv, Recurs
  <2>2. Loads(row)
    BY <2>1, CanBeRead
  <2>3. Adds(row.start, IntervalOf(row)) /\ Adds(row.end, IntervalOf(row))
    BY <1>1, <2>1, NextAdds
  <2>4. Readable(n)
    <3>1. Kept(n) /\ Summable(n)
      BY <1>1, <2>1, NextKept, NextSummable
    <3> HIDE DEF n
    <3> QED
      BY <2>1, <3>1, CanBeRead
  <2>5. ASSUME past # << >> PROVE Loads(Head(past))
    <3>1. past \in Seq(Row)
      BY <1>1 DEF Inv
    <3>2. 1 \in DOMAIN past /\ Head(past) = past[1]
      BY <2>5, <3>1
    <3>3. Kept(past[1]) /\ Summable(past[1])
      BY <1>1, <2>1, <2>5, <3>2, InOrderSummable
    <3> QED
      BY <2>1, <3>2, <3>3, CanBeRead
  <2> QED
    BY <2>2, <2>3, <2>4, <2>5 DEF Completable, PreviousLoads
<1>2. Inv => CanComplete
  BY <1>1 DEF CanComplete
<1> QED
  BY <1>2, InvHolds, PTL

\* The answer to a request means what the request said, for any integers as
\* its hours and minutes.
THEOREM AnswersHold == Spec => []AnswerMeansRequest
<1>1. ASSUME Inv, answered # NULL
      PROVE  /\ [Loaded(row) EXCEPT !.estimate = NULL] = [answered EXCEPT !.estimate = NULL]
             /\ answered.estimate = NULL <=> Loaded(row).estimate = NULL
             /\ answered.estimate # NULL =>
                   /\ Loaded(row).estimate.days = answered.estimate.days
                   /\ TimeOf(Loaded(row).estimate) = TimeOf(answered.estimate)
                   /\ Loaded(row).estimate.minutes < MinutesPerHour
                   /\ Loaded(row).estimate.hours <= MaxInt
  <2> DEFINE asked == answered.estimate
             read == [row EXCEPT !.estimate =
                         IF @ = NULL THEN NULL ELSE LoadedEstimate(@)]
             blank == [start : Dates, end : Dates, estimate : {NULL},
                       frequency : Intervals \cup {NULL}, isEvery : BOOLEAN]
  <2>1. answered \in Asked /\ row = Stored(answered) /\ Kept(row)
    BY <1>1 DEF Inv
  <2>2. /\ row \in Row
        /\ row.start = answered.start /\ row.end = answered.end
        /\ row.frequency = answered.frequency /\ row.isEvery = answered.isEvery
        /\ row.estimate = IF asked = NULL THEN NULL ELSE StoredEstimate(asked)
    BY <2>1, StoredRequest
  <2>3. Loaded(row) = read
    BY DEF Loaded
  <2>4. read.estimate = IF row.estimate = NULL THEN NULL ELSE LoadedEstimate(row.estimate)
    BY <2>2 DEF Row
  <2>5. [read EXCEPT !.estimate = NULL] = [answered EXCEPT !.estimate = NULL]
    <3> DEFINE x == [read EXCEPT !.estimate = NULL]
               y == [answered EXCEPT !.estimate = NULL]
    <3>1. /\ x \in blank /\ x.start = row.start /\ x.end = row.end
          /\ x.frequency = row.frequency /\ x.isEvery = row.isEvery
      BY <2>2 DEF Row
    <3>2. /\ y \in blank /\ y.start = answered.start /\ y.end = answered.end
          /\ y.frequency = answered.frequency /\ y.isEvery = answered.isEvery
      BY <2>1 DEF Asked, Dates, Intervals
    <3> HIDE DEF x, y
    <3>3. x = y
      BY <2>2, <3>1, <3>2
    <3> QED
      BY <3>3 DEF x, y
  <2> HIDE DEF read
  <2>6. CASE asked = NULL
    BY <2>2, <2>3, <2>4, <2>5, <2>6
  <2>7. CASE asked # NULL
    <3>1. asked \in [days : Int, hours : Int, minutes : Int]
      BY <2>1, <2>7 DEF Asked
    <3>2. row.estimate = StoredEstimate(asked) /\ row.estimate # NULL
      BY <2>2, <2>7, <3>1, StoredEstimateType, RequestAssumption
    <3>3. FitsEstimate(StoredEstimate(asked))
      BY <2>1, <3>2 DEF Kept
    <3>4. read.estimate = LoadedEstimate(StoredEstimate(asked))
      BY <2>4, <3>2
    <3> QED
      BY <2>3, <2>5, <2>7, <3>1, <3>3, <3>4, EstimateComesBack
  <2> QED
    BY <2>6, <2>7
<1>2. Inv => AnswerMeansRequest
  BY <1>1 DEF AnswerMeansRequest
<1> QED
  BY <1>2, InvHolds, PTL

\* A step that lengthens the past has completed the current occurrence.
LEMMA CompletedStep ==
    ASSUME Inv, [Next]_vars, Completed
    PROVE  /\ row' = NextOccurrence(row) /\ today \in Int
           /\ row \in Row /\ row.frequency # NULL
           /\ ValidFrequency(row.frequency) /\ ValidPeriod(row)
<1>1. past \in Seq(Row) /\ Len(past) \in Nat
  BY DEF Inv
<1>2. ASSUME NEW request \in Requests, Write(request) PROVE FALSE
  <2>1. request \in Asked /\ past' = Joined(request)
    BY <1>2, RequestAssumption DEF Write
  <2>2. Joined(request) \in Seq(Row) /\ Len(Joined(request)) <= Len(past)
    BY <1>1, <2>1, JoinedAre
  <2>3. Len(Joined(request)) \in Nat
    BY <2>2
  <2> QED
    BY <1>1, <2>1, <2>2, <2>3 DEF Completed
<1>3. ~ Reopen
  <2> SUFFICES ASSUME Reopen PROVE FALSE
    OBVIOUS
  <2>1. past # << >> /\ past' = Tail(past)
    BY DEF Reopen
  <2>2. Len(Tail(past)) = Len(past) - 1
    BY <1>1, <2>1
  <2> QED
    BY <1>1, <2>1, <2>2 DEF Completed
<1>4. ~ Tomorrow /\ ~ UNCHANGED vars
  BY <1>1 DEF Tomorrow, vars, Completed
<1>5. Complete
  BY <1>2, <1>3, <1>4 DEF Next, Create, Update
<1> QED
  BY <1>5, RangeTypes DEF Complete, Inv, Kept

\* Completing moves a recurrence on, past the occurrence and, for a checked
\* one, past the day it was checked.
THEOREM MovesOnHolds == Spec => MovesOn
<1>1. Inv /\ [Next]_vars =>
         [Completed => Anchor(row') > IF row.isEvery THEN Anchor(row) ELSE today]_vars
  BY CompletedStep, NextAnchor
<1> QED
  BY <1>1, InvHolds, PTL DEF Spec, MovesOn

\* Occurrences keep their length, up to the days that months differ by.
THEOREM KeepsLengthHolds == Spec => KeepsLength
<1>1. Inv /\ [Next]_vars =>
         [Completed =>
             LET change == Length(row') - Length(row)
             IN  /\ change \in -9 .. 9
                 /\ row.frequency.months <= 12 => change \in -3 .. 3
                 /\ row.frequency.months = 0 => change = 0]_vars
  BY CompletedStep, NextLength
<1> QED
  BY <1>1, InvHolds, PTL DEF Spec, KeepsLength

-----------------------------------------------------------------------------
(* Pending occurrences                                                     *)

\* What completing the task again and again will show.
LEMMA CompletionsAre ==
    ASSUME Inv, Recurs, row.isEvery, NEW h, EveryHistory(row, h, Horizon), NEW date
    PROVE  Completions(date) =
              Cardinality({n \in 0 .. Horizon : \A m \in 0 .. n : Reached(h[m][date])})
<1> DEFINE f == row.frequency
           H == Horizon
           Solves(g) == g = [n \in 0 .. H |-> IF n = 0 THEN row ELSE NextOccurrence(g[n - 1])]
           r == CHOOSE g : Solves(g)
<1>1. Iterates(h, row, Forward(f), EveryRow(f), H) /\ H \in Nat
  BY ValuesAssumption DEF EveryHistory, Horizon
<1>2. ASSUME NEW s \in EveryRow(f) PROVE Forward(f)[s] = NextOccurrence(s)
  <2>1. f \in Intervals /\ ValidFrequency(f) /\ today \in Int
    BY RangeTypes DEF Inv, Recurs, Kept, Row
  <2> QED
    BY <1>2, <2>1, EveryMoves DEF Forward
<1>3. Solves(h)
  <2>1. ASSUME NEW n \in 0 .. H PROVE h[n] = IF n = 0 THEN row ELSE NextOccurrence(h[n - 1])
    <3>1. CASE n = 0
      BY <1>1, <3>1 DEF Iterates
    <3>2. CASE n # 0
      <4>1. n \in 1 .. H /\ n - 1 \in 0 .. H
        BY <1>1, <3>2
      <4> QED
        BY <1>1, <1>2, <3>2, <4>1 DEF Iterates
    <3> QED
      BY <3>1, <3>2
  <2> QED
    BY <1>1, <2>1 DEF Iterates
<1>4. Solves(r)
  BY <1>3
<1>5. r[0] = row
  <2> HIDE DEF r, H
  <2>1. 0 \in 0 .. H
    BY <1>1
  <2> QED
    BY <1>4, <2>1
<1>6. ASSUME NEW n \in 1 .. H, r[n - 1] \in EveryRow(f) PROVE r[n] = Forward(f)[r[n - 1]]
  <2> HIDE DEF r, H, f
  <2>1. n \in 0 .. H /\ n # 0
    BY <1>1
  <2>2. r[n] = NextOccurrence(r[n - 1])
    BY <1>4, <2>1
  <2> QED
    BY <1>2, <1>6, <2>2
<1>7. IteratesIn(r, row, Forward(f), EveryRow(f), H)
  BY <1>5, <1>6 DEF IteratesIn
<1>8. Completions(date) =
         Cardinality({n \in 0 .. H : \A m \in 0 .. n : Reached(r[m][date])})
  BY DEF Completions
<1> DEFINE S == EveryRow(f)
           F == Forward(f)
<1> HIDE DEF Solves, f, r, H, S, F
<1>9. \A n \in 0 .. H : r[n] = h[n]
  <2>1. /\ Iterates(h, row, F, S, H) /\ IteratesIn(r, row, F, S, H)
        /\ H \in Nat /\ H \in 0 .. H
    BY <1>1, <1>7 DEF S, F
  <2> QED
    BY ONLY <2>1, IterationIsUnique
<1>10. {n \in 0 .. H : \A m \in 0 .. n : Reached(r[m][date])}
         = {n \in 0 .. H : \A m \in 0 .. n : Reached(h[m][date])}
  <2>1. \A n \in 0 .. H : \A m \in 0 .. n : m \in 0 .. H /\ r[m] = h[m]
    BY <1>1, <1>9
  <2> QED
    BY <2>1
<1> QED
  BY <1>8, <1>10 DEF H

\* The count of get_tasks for one of the dates.
LEMMA CountReports ==
    ASSUME Inv, Recurs, row.isEvery, NEW date \in {"start", "end"}
    PROVE  Reports(Count(date), Completions(date))
<1> DEFINE R == RECURRENCE_MAX
           H == Horizon
           f == row.frequency
           O == Occurrences(row)
<1>0. EveryTask(row) /\ today \in Int
  BY RangeTypes DEF Inv, Recurs, Kept, EveryTask
<1>1. R \in Nat /\ H \in Nat /\ R \in 0 .. H
  BY ValuesAssumption DEF Horizon
<1>2. PICK h : EveryHistory(row, h, H)
  BY <1>0, <1>1, EveryHistoryExists
<1>3. \A n \in 0 .. R : O[n] = h[n]
  BY <1>0, <1>1, <1>2, OccurrencesAre
<1> DEFINE B == {n \in 0 .. H : \A m \in 0 .. n : Reached(h[m][date])}
           A == B \cap (0 .. R)
<1>4. Completions(date) = Cardinality(B)
  BY <1>2, CompletionsAre
<1>5. ASSUME NEW n \in 0 .. H, Reached(h[n][date])
      PROVE  \A m \in 0 .. n : Reached(h[m][date]) /\ Reached(Anchor(h[m]))
  <2>1. f \in Intervals /\ ValidFrequency(f) /\ today \in Int
    BY RangeTypes DEF Inv, Recurs, Kept, Row
  <2>2. Iterates(h, row, Forward(f), EveryRow(f), H)
    BY <1>2 DEF EveryHistory
  <2> HIDE DEF H, f
  <2> QED
    BY <1>1, <1>5, <2>1, <2>2, ReachedBefore
<1>6. {n \in Depths(O) : Reached(O[n][date])} = A
  <2> HIDE DEF H, O
  <2>1. ASSUME NEW n \in 0 .. R, \A m \in 1 .. n : Reached(Anchor(O[m])),
               Reached(O[n][date])
        PROVE  n \in A
    <3>1. n \in 0 .. H
      BY <1>1
    <3> QED
      BY <1>3, <1>5, <2>1, <3>1
  <2>2. ASSUME NEW n \in A
        PROVE  /\ n \in 0 .. R /\ Reached(O[n][date])
               /\ \A m \in 1 .. n : Reached(Anchor(O[m]))
    <3>1. n \in 0 .. H /\ n \in 0 .. R /\ n \in 0 .. n /\ Reached(h[n][date])
      BY <1>1
    <3>2. \A m \in 0 .. n : Reached(Anchor(h[m]))
      BY <1>5, <3>1
    <3> QED
      BY <1>1, <1>3, <3>1, <3>2
  <2> HIDE DEF A
  <2>3. A \subseteq 0 .. R
    BY <2>2
  <2> QED
    BY <2>1, <2>2, <2>3 DEF Depths
<1>7. Count(date) = Cardinality(A)
  BY <1>6 DEF Count
<1>8. /\ IF Cardinality(A) >= R THEN Cardinality(A) <= Cardinality(B)
         ELSE Cardinality(A) = Cardinality(B)
  <2>1. B \in SUBSET (0 .. H) /\ \A n \in B : \A m \in 0 .. n : m \in B
    BY <1>1
  <2> HIDE DEF B, H
  <2> QED
    BY <1>1, <2>1, CutOff
<1> QED
  BY <1>4, <1>7, <1>8 DEF Reports, IsLowerBound

\* For "every" recurrences get_tasks counts what completing the task again
\* and again will show, for any dates, frequency and RECURRENCE_MAX.
THEOREM PendingHolds == Spec => []PendingIsTrue
<1>1. Inv => PendingIsTrue
  BY CountReports DEF PendingIsTrue, NumReadyToStart, NumReachedDeadline
<1> QED
  BY <1>1, InvHolds, PTL
===============================================================================
