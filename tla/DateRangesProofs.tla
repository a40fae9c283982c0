-------------------------- MODULE DateRangesProofs --------------------------
(***************************************************************************)
(* Theorems of DateRanges, for any calendar of whole years, any chunk_days *)
(* and any range, and what they say about the periods of Windows.          *)
(*                                                                         *)
(* MonthStart is recursive: that it exists, and what holds of every month, *)
(* is shown of the first month that would be a counterexample.             *)
(***************************************************************************)
EXTENDS DateRanges, WellFoundedInduction, TLAPS

\* A set of numbers has a first one.
LEMMA FirstOf ==
  ASSUME NEW S \in SUBSET Nat, S # {}
  PROVE  \E n \in S : \A m \in S : n <= m
<1>1. PICK n \in S : \A m \in S : ~(<<m, n>> \in OpToRel(<, Nat))
  BY NatLessThanWellFounded, WFMin
<1>2. \A m \in S : ~(m < n)
  BY <1>1 DEF OpToRel
<1>3. QED
  BY <1>2

\* How many months the calendar has.
Months == 12 * Years

\* A month has 28 to 31 days.
LEMMA LengthOfMonth == \A k \in Nat : MonthLength(k) \in 28 .. 31
BY DEF MonthLength

\* What a calendar of the first n months is.
IsCalendar(F, n) ==
  /\ F \in [0 .. n -> Nat] /\ F[0] = 0
  /\ \A k \in 0 .. n - 1 : F[k + 1] = F[k] + MonthLength(k)

\* There is a calendar of any number of months ...
LEMMA CalendarExists == \E F : IsCalendar(F, Months)
<1>1. Months \in Nat
  BY DateAssumption DEF Months
<1> DEFINE Bad == {n \in Nat : ~ \E F : IsCalendar(F, n)}
<1>2. SUFFICES ASSUME Bad # {} PROVE FALSE
  BY <1>1
<1>3. PICK n \in Bad : \A m \in Bad : n <= m
  <2> HIDE DEF Bad
  <2>1. Bad \in SUBSET Nat
    BY DEF Bad
  <2>2. QED
    BY <1>2, <2>1, FirstOf
<1>4. n # 0
  <2>1. IsCalendar([k \in 0 .. 0 |-> 0], 0)
    BY DEF IsCalendar
  <2>2. QED
    BY <2>1
<1>5. n - 1 \in Nat /\ n - 1 \notin Bad
  BY <1>3, <1>4
<1>6. PICK F : IsCalendar(F, n - 1)
  BY <1>5
<1> DEFINE G == [k \in 0 .. n |-> IF k = n THEN F[n - 1] + MonthLength(n - 1) ELSE F[k]]
<1>7. IsCalendar(G, n)
  <2>1. F \in [0 .. n - 1 -> Nat] /\ MonthLength(n - 1) \in Nat
    <3>1. F \in [0 .. n - 1 -> Nat]
      BY <1>6 DEF IsCalendar
    <3>2. MonthLength(n - 1) \in 28 .. 31
      BY <1>5, LengthOfMonth
    <3>3. QED
      BY <3>1, <3>2
  <2>2. G \in [0 .. n -> Nat]
    BY <1>5, <2>1
  <2>3. G[0] = 0
    BY <1>4, <1>5, <1>6 DEF IsCalendar
  <2>4. ASSUME NEW k \in 0 .. n - 1 PROVE G[k + 1] = G[k] + MonthLength(k)
    <3>1. CASE k = n - 1
      BY <1>5, <3>1
    <3>2. CASE k # n - 1
      BY <1>5, <1>6, <3>2 DEF IsCalendar
    <3>3. QED
      BY <3>1, <3>2
  <2>5. QED
    BY <2>2, <2>3, <2>4 DEF IsCalendar
<1>8. QED
  BY <1>3, <1>7

\* ... and MonthStart is it.
LEMMA Calendar == IsCalendar(MonthStart, Months)
<1>1. Months \in Nat /\ \A k \in Nat : MonthLength(k) \in Nat
  BY DateAssumption, LengthOfMonth DEF Months
<1>2. PICK F : IsCalendar(F, Months)
  BY CalendarExists
<1>3. F = [k \in 0 .. Months |-> IF k = 0 THEN 0 ELSE F[k - 1] + MonthLength(k - 1)]
  <2> DEFINE H == [k \in 0 .. Months |-> IF k = 0 THEN 0 ELSE F[k - 1] + MonthLength(k - 1)]
  <2>1. ASSUME NEW k \in 0 .. Months PROVE F[k] = H[k]
    <3>1. CASE k = 0
      BY <1>2, <3>1 DEF IsCalendar
    <3>2. CASE k # 0
      <4>1. k - 1 \in 0 .. Months - 1 /\ (k - 1) + 1 = k
        BY <1>1, <3>2
      <4>2. F[(k - 1) + 1] = F[k - 1] + MonthLength(k - 1)
        BY <1>2, <4>1 DEF IsCalendar
      <4>3. QED
        BY <3>2, <4>1, <4>2
    <3>3. QED
      BY <3>1, <3>2
  <2>2. F \in [0 .. Months -> Nat]
    BY <1>2 DEF IsCalendar
  <2>3. F = H
    BY <2>1, <2>2
  <2>4. QED
    BY <2>3
<1>4. MonthStart = [k \in 0 .. Months |->
                     IF k = 0 THEN 0 ELSE MonthStart[k - 1] + MonthLength(k - 1)]
  BY <1>3 DEF MonthStart, Months
<1>5. /\ MonthStart[0] = 0
      /\ \A k \in 0 .. Months - 1 : MonthStart[k + 1] = MonthStart[k] + MonthLength(k)
  <2>1. MonthStart[0] = 0
    BY <1>1, <1>4
  <2>2. ASSUME NEW k \in 0 .. Months - 1
        PROVE  MonthStart[k + 1] = MonthStart[k] + MonthLength(k)
    <3>1. k + 1 \in 0 .. Months /\ k + 1 # 0 /\ (k + 1) - 1 = k
      BY <1>1
    <3>2. QED
      BY <1>4, <3>1
  <2>3. QED
    BY <2>1, <2>2
<1> DEFINE Bad == {k \in 0 .. Months : MonthStart[k] \notin Nat}
<1>6. Bad = {}
  <2> SUFFICES ASSUME Bad # {} PROVE FALSE
    OBVIOUS
  <2>1. PICK n \in Bad : \A m \in Bad : n <= m
    <3>1. Bad \in SUBSET Nat
      BY <1>1
    <3>2. QED
      BY <3>1, FirstOf
  <2>2. n # 0
    BY <1>5, <2>1
  <2>3. n - 1 \in 0 .. Months - 1 /\ (n - 1) + 1 = n
    BY <1>1, <2>1, <2>2
  <2>4. MonthStart[n - 1] \in Nat
    BY <1>1, <2>1, <2>3
  <2>5. MonthStart[n] = MonthStart[n - 1] + MonthLength(n - 1)
    BY <1>5, <2>3
  <2>6. MonthLength(n - 1) \in Nat
    BY <1>1, <2>3
  <2>7. QED
    BY <2>1, <2>4, <2>5, <2>6
<1>7. MonthStart \in [0 .. Months -> Nat]
  BY <1>4, <1>6
<1>8. QED
  BY <1>5, <1>7 DEF IsCalendar

-----------------------------------------------------------------------------
(* Months and years.                                                       *)

\* The calendar, month by month.
LEMMA MonthStarts ==
  /\ Months \in Nat /\ Months >= 12
  /\ MonthStart \in [0 .. Months -> Nat] /\ MonthStart[0] = 0
  /\ \A k \in 0 .. Months - 1 : MonthStart[k + 1] = MonthStart[k] + MonthLength(k)
  /\ \A k \in Nat : MonthLength(k) \in 28 .. 31
BY Calendar, LengthOfMonth, DateAssumption DEF IsCalendar, Months

\* A month starts on a day.
LEMMA StartIsDate == \A k \in 0 .. Months : MonthStart[k] \in Nat
BY MonthStarts

\* Every month starts later than those before it.
LEMMA MonthsGrow ==
  ASSUME NEW i \in 0 .. Months, NEW j \in 0 .. Months, i < j
  PROVE  MonthStart[i] < MonthStart[j]
<1> DEFINE Bad == {k \in 0 .. Months : i < k /\ ~(MonthStart[i] < MonthStart[k])}
<1> SUFFICES ASSUME Bad # {} PROVE FALSE
  OBVIOUS
<1>1. Bad \in SUBSET Nat
  BY MonthStarts
<1>2. PICK n \in Bad : \A m \in Bad : n <= m
  BY <1>1, FirstOf
<1>3. n - 1 \in 0 .. Months - 1 /\ (n - 1) + 1 = n /\ i <= n - 1
  BY <1>2, MonthStarts
<1>4. MonthStart[i] <= MonthStart[n - 1]
  <2>1. CASE i = n - 1
    BY <1>3, <2>1, MonthStarts
  <2>2. CASE i < n - 1
    BY <1>2, <1>3, <2>2, MonthStarts
  <2>3. QED
    BY <1>3, <2>1, <2>2
<1>5. MonthStart[n] = MonthStart[n - 1] + MonthLength(n - 1)
  BY <1>3, MonthStarts
<1>6. MonthLength(n - 1) \in 28 .. 31
  BY <1>3, MonthStarts
<1>7. MonthStart[i] \in Nat /\ MonthStart[n - 1] \in Nat /\ MonthStart[n] \in Nat
  <2>1. n \in 0 .. Months /\ n - 1 \in 0 .. Months
    BY <1>2, <1>3, MonthStarts
  <2>2. QED
    BY <2>1, StartIsDate
<1>8. QED
  BY <1>2, <1>4, <1>5, <1>6, <1>7

\* What Max chooses.
LEMMA MaxIs ==
  ASSUME NEW S \in SUBSET Int, NEW x \in S, \A y \in S : y <= x
  PROVE  Max(S) = x
<1>1. \A y \in S : x >= y
  OBVIOUS
<1>2. \A z \in S : (\A y \in S : z >= y) => z = x
  OBVIOUS
<1>3. (CHOOSE z \in S : \A y \in S : z >= y) = x
  BY <1>1, <1>2
<1>4. QED
  BY <1>3 DEF Max

\* The same for months that may be one.
LEMMA MonthsInOrder ==
  ASSUME NEW i \in 0 .. Months, NEW j \in 0 .. Months, i <= j
  PROVE  /\ MonthStart[i] \in Nat /\ MonthStart[j] \in Nat
         /\ MonthStart[i] <= MonthStart[j]
<1>1. MonthStart[i] \in Nat /\ MonthStart[j] \in Nat
  BY StartIsDate
<1>2. CASE i = j
  BY <1>1, <1>2
<1>3. CASE i < j
  BY <1>1, <1>3, MonthsGrow
<1>4. QED
  BY <1>1, <1>2, <1>3, MonthStarts

\* A day between the starts of two months is in the first.
LEMMA MonthIs ==
  ASSUME NEW d \in AllDays, NEW k \in 0 .. Months - 1,
         MonthStart[k] <= d, d < MonthStart[k + 1]
  PROVE  MonthOf(d) = k
<1> DEFINE S == {j \in 0 .. Months - 1 : MonthStart[j] <= d}
<1>1. S \in SUBSET Int /\ k \in S
  BY MonthStarts
<1>2. ASSUME NEW j \in S, ~(j <= k) PROVE FALSE
  <2>1. j \in 0 .. Months /\ k + 1 \in 0 .. Months /\ k + 1 <= j /\ d \in Int
    BY <1>2, MonthStarts DEF AllDays, Months
  <2>2. /\ MonthStart[k + 1] \in Nat /\ MonthStart[j] \in Nat
        /\ MonthStart[k + 1] <= MonthStart[j]
    BY <2>1, MonthsInOrder
  <2>3. MonthStart[j] <= d
    BY <1>2
  <2>4. QED
    BY <2>1, <2>2, <2>3
<1>3. Max(S) = k
  <2> HIDE DEF S
  <2>1. \A j \in S : j \in Int /\ k \in Int
    BY <1>1
  <2>2. \A j \in S : j <= k
    BY <1>2
  <2>3. QED
    BY <1>1, <2>2, MaxIs
<1>4. QED
  BY <1>3 DEF MonthOf, Months

\* Every day is in its month ...
LEMMA MonthOfDay ==
  ASSUME NEW d \in AllDays
  PROVE  /\ MonthOf(d) \in 0 .. Months - 1
         /\ MonthStart[MonthOf(d)] <= d /\ d < MonthStart[MonthOf(d) + 1]
<1> DEFINE After == {k \in 0 .. Months : d < MonthStart[k]}
<1>1. d \in Int /\ 0 <= d /\ d < MonthStart[Months] /\ Months \in 0 .. Months
  BY MonthStarts DEF AllDays, Months
<1>2. After \in SUBSET Nat /\ After # {}
  <2>1. After \in SUBSET Nat
    BY MonthStarts
  <2>2. Months \in After
    BY <1>1
  <2>3. QED
    BY <2>1, <2>2
<1>3. PICK n \in After : \A m \in After : n <= m
  BY <1>2, FirstOf
<1>4. n # 0 /\ n - 1 \in 0 .. Months - 1 /\ (n - 1) + 1 = n
  BY <1>1, <1>3, MonthStarts
<1>5. MonthStart[n - 1] <= d
  <2>1. n - 1 \in 0 .. Months /\ n - 1 \notin After
    BY <1>3, <1>4, MonthStarts
  <2>2. MonthStart[n - 1] \in Int
    BY <2>1, MonthStarts
  <2>3. QED
    BY <1>1, <2>1, <2>2
<1>6. MonthOf(d) = n - 1
  BY <1>3, <1>4, <1>5, MonthIs
<1>7. QED
  BY <1>3, <1>4, <1>5, <1>6

\* ... and in its year.
LEMMA YearOfDay ==
  ASSUME NEW d \in AllDays
  PROVE  /\ YearOf(d) \in 0 .. Years - 1
         /\ 12 * YearOf(d) \in 0 .. Months /\ 12 * YearOf(d) + 12 \in 0 .. Months
         /\ MonthStart[12 * YearOf(d)] <= d /\ d < MonthStart[12 * YearOf(d) + 12]
<1> DEFINE m == MonthOf(d)
<1>1. m \in 0 .. Months - 1 /\ MonthStart[m] <= d /\ d < MonthStart[m + 1]
  BY MonthOfDay
<1>2. YearOf(d) = m \div 12
  BY DEF YearOf
<1>3. Years \in Nat /\ Months = 12 * Years
  BY DateAssumption DEF Months
<1> HIDE DEF m
<1>4. m \div 12 \in 0 .. Years - 1 /\ 12 * (m \div 12) <= m /\ m < 12 * (m \div 12) + 12
  BY <1>1, <1>3
<1> DEFINE y == m \div 12
<1>5. y \in 0 .. Years - 1 /\ 12 * y <= m /\ m + 1 <= 12 * y + 12 /\ YearOf(d) = y
  BY <1>1, <1>2, <1>4
<1> HIDE DEF y
<1>6. 12 * y \in 0 .. Months /\ 12 * y + 12 \in 0 .. Months /\ m \in 0 .. Months
      /\ m + 1 \in 0 .. Months
  BY <1>1, <1>3, <1>5
<1>7. d \in Int
  BY MonthStarts DEF AllDays, Months
<1>8. /\ MonthStart[12 * y] \in Nat /\ MonthStart[m] \in Nat
      /\ MonthStart[12 * y] <= MonthStart[m]
  BY <1>5, <1>6, MonthsInOrder
<1>9. /\ MonthStart[m + 1] \in Nat /\ MonthStart[12 * y + 12] \in Nat
      /\ MonthStart[m + 1] <= MonthStart[12 * y + 12]
  BY <1>5, <1>6, MonthsInOrder
<1>10. MonthStart[12 * y] <= d /\ d < MonthStart[12 * y + 12]
  BY <1>1, <1>7, <1>8, <1>9
<1>11. QED
  BY <1>5, <1>6, <1>10

\* A day between the first days of two years is in the first.
LEMMA YearIs ==
  ASSUME NEW d \in AllDays, NEW y \in 0 .. Years - 1,
         MonthStart[12 * y] <= d, d < MonthStart[12 * y + 12]
  PROVE  YearOf(d) = y
<1> DEFINE m == MonthOf(d)
<1>1. m \in 0 .. Months - 1 /\ MonthStart[m] <= d /\ d < MonthStart[m + 1]
  BY MonthOfDay
<1>2. YearOf(d) = m \div 12
  BY DEF YearOf
<1>3. Years \in Nat /\ Months = 12 * Years /\ d \in Int
  BY DateAssumption, MonthStarts DEF Months, AllDays
<1> HIDE DEF m
<1>4. 12 * y \in 0 .. Months /\ 12 * y + 12 \in 0 .. Months /\ m \in 0 .. Months
      /\ m + 1 \in 0 .. Months
  BY <1>1, <1>3
<1>5. 12 * y <= m
  <2> SUFFICES ASSUME m + 1 <= 12 * y PROVE FALSE
    BY <1>4
  <2>1. /\ MonthStart[m + 1] \in Nat /\ MonthStart[12 * y] \in Nat
        /\ MonthStart[m + 1] <= MonthStart[12 * y]
    BY <1>4, MonthsInOrder
  <2>2. QED
    BY <1>1, <1>3, <2>1
<1>6. m < 12 * y + 12
  <2> SUFFICES ASSUME 12 * y + 12 <= m PROVE FALSE
    BY <1>4
  <2>1. /\ MonthStart[12 * y + 12] \in Nat /\ MonthStart[m] \in Nat
        /\ MonthStart[12 * y + 12] <= MonthStart[m]
    BY <1>4, MonthsInOrder
  <2>2. QED
    BY <1>1, <1>3, <2>1
<1>7. QED
  BY <1>2, <1>4, <1>5, <1>6

-----------------------------------------------------------------------------
(* Periods.                                                                *)

\* The last day of the period of d's file.
PeriodLast(d, interval) ==
  IF interval = "day" THEN MonthStart[12 * YearOf(d) + 12] - 1
                      ELSE MonthStart[MonthOf(d) + 1] - 1

\* The files of consecutive days are the same up to the last day of the period,
\* and the next day's is another.
LEMMA PeriodSpan ==
  ASSUME NEW d \in AllDays, NEW interval
  PROVE  /\ PeriodLast(d, interval) \in AllDays /\ d <= PeriodLast(d, interval)
         /\ \A e \in d .. PeriodLast(d, interval) :
              e \in AllDays /\ FileOf(e, interval) = FileOf(d, interval)
         /\ PeriodLast(d, interval) + 1 \in AllDays =>
              FileOf(PeriodLast(d, interval) + 1, interval) # FileOf(d, interval)
<1>1. /\ Months \in Nat /\ Months = 12 * Years /\ Years \in Nat /\ d \in Nat
      /\ AllDays = 0 .. MonthStart[Months] - 1 /\ MonthStart[Months] \in Nat
  <2>1. MonthStart[Months] \in Nat
    BY MonthStarts, StartIsDate
  <2>2. QED
    BY <2>1, MonthStarts, DateAssumption DEF AllDays, Months
<1>2. CASE interval = "day"
  <2> DEFINE y == YearOf(d)
             l == MonthStart[12 * y + 12] - 1
  <2>1. /\ y \in 0 .. Years - 1 /\ 12 * y \in 0 .. Months /\ 12 * y + 12 \in 0 .. Months
        /\ MonthStart[12 * y] <= d /\ d < MonthStart[12 * y + 12]
    BY YearOfDay
  <2>2. PeriodLast(d, interval) = l /\ FileOf(d, interval) = y
    BY <1>2 DEF PeriodLast, FileOf
  <2> HIDE DEF y
  <2>3. /\ MonthStart[12 * y + 12] \in Nat /\ MonthStart[12 * y] \in Nat
        /\ MonthStart[12 * y + 12] <= MonthStart[Months]
    BY <1>1, <2>1, MonthsInOrder
  <2>4. l \in AllDays /\ d <= l
    BY <1>1, <2>1, <2>3
  <2>5. ASSUME NEW e \in d .. l PROVE e \in AllDays /\ FileOf(e, interval) = y
    <3>1. e \in AllDays /\ MonthStart[12 * y] <= e /\ e < MonthStart[12 * y + 12]
      BY <1>1, <2>1, <2>3
    <3>2. YearOf(e) = y
      BY <2>1, <3>1, YearIs
    <3>3. QED
      BY <1>2, <3>1, <3>2 DEF FileOf
  <2>6. ASSUME l + 1 \in AllDays PROVE FileOf(l + 1, interval) # y
    <3>1. l + 1 = MonthStart[12 * y + 12]
      BY <2>3
    <3>2. l + 1 < MonthStart[12 * YearOf(l + 1) + 12]
      BY <2>6, YearOfDay
    <3>3. YearOf(l + 1) # y
      BY <2>3, <3>1, <3>2
    <3>4. QED
      BY <1>2, <3>3 DEF FileOf
  <2>7. QED
    BY <2>2, <2>4, <2>5, <2>6
<1>3. CASE interval # "day"
  <2> DEFINE m == MonthOf(d)
             l == MonthStart[m + 1] - 1
  <2>1. m \in 0 .. Months - 1 /\ MonthStart[m] <= d /\ d < MonthStart[m + 1]
    BY MonthOfDay
  <2>2. PeriodLast(d, interval) = l /\ FileOf(d, interval) = m
    BY <1>3 DEF PeriodLast, FileOf
  <2> HIDE DEF m
  <2>3. /\ MonthStart[m + 1] \in Nat /\ MonthStart[m] \in Nat
        /\ MonthStart[m + 1] <= MonthStart[Months]
    <3>1. m \in 0 .. Months /\ m + 1 \in 0 .. Months /\ Months \in 0 .. Months
          /\ m <= Months /\ m + 1 <= Months
      BY <1>1, <2>1
    <3>2. QED
      BY <3>1, MonthsInOrder
  <2>4. l \in AllDays /\ d <= l
    BY <1>1, <2>1, <2>3
  <2>5. ASSUME NEW e \in d .. l PROVE e \in AllDays /\ FileOf(e, interval) = m
    <3>1. e \in AllDays /\ MonthStart[m] <= e /\ e < MonthStart[m + 1]
      BY <1>1, <2>1, <2>3
    <3>2. MonthOf(e) = m
      BY <2>1, <3>1, MonthIs
    <3>3. QED
      BY <1>3, <3>1, <3>2 DEF FileOf
  <2>6. ASSUME l + 1 \in AllDays PROVE FileOf(l + 1, interval) # m
    <3>1. l + 1 = MonthStart[m + 1]
      BY <2>3
    <3>2. l + 1 < MonthStart[MonthOf(l + 1) + 1]
      BY <2>6, MonthOfDay
    <3>3. MonthOf(l + 1) # m
      BY <2>3, <3>1, <3>2
    <3>4. QED
      BY <1>3, <3>3 DEF FileOf
  <2>7. QED
    BY <2>2, <2>4, <2>5, <2>6
<1>4. QED
  BY <1>2, <1>3

\* 31 December is the last day of a year's period, and the first of January of
\* the next year the day after.
LEMMA YearEnds ==
  ASSUME NEW d \in AllDays
  PROVE  /\ Date(YearOf(d), 12, 31) = PeriodLast(d, "day")
         /\ Date(YearOf(d) + 1, 1, 1) = PeriodLast(d, "day") + 1
<1> DEFINE y == YearOf(d)
<1>1. /\ y \in 0 .. Years - 1 /\ 12 * y + 12 \in 0 .. Months /\ Years \in Nat
      /\ Months \in Nat
  BY YearOfDay, MonthStarts, DateAssumption
<1>2. PeriodLast(d, "day") = MonthStart[12 * y + 12] - 1
  BY DEF PeriodLast
<1>3. Date(y, 12, 31) = MonthStart[12 * y + 12 - 1] + 31 - 1
      /\ Date(y + 1, 1, 1) = MonthStart[12 * (y + 1) + 1 - 1] + 1 - 1
  BY DEF Date
<1> HIDE DEF y
<1>4. 12 * y + 12 - 1 = 12 * y + 11 /\ 12 * (y + 1) + 1 - 1 = 12 * y + 12
      /\ 12 * y + 11 \in 0 .. Months - 1 /\ (12 * y + 11) + 1 = 12 * y + 12
  BY <1>1
<1>5. MonthStart[12 * y + 12] = MonthStart[12 * y + 11] + MonthLength(12 * y + 11)
  BY <1>4, MonthStarts
<1>6. MonthLength(12 * y + 11) = 31
  <2>1. (12 * y + 11) % 12 = 11
    BY <1>1
  <2>2. QED
    BY <2>1 DEF MonthLength
<1>7. MonthStart[12 * y + 11] \in Nat /\ MonthStart[12 * y + 12] \in Nat
  <2>1. 12 * y + 11 \in 0 .. Months /\ 12 * y + 12 \in 0 .. Months
    BY <1>1
  <2>2. QED
    BY <2>1, StartIsDate
<1>8. Date(y, 12, 31) = MonthStart[12 * y + 12] - 1
  BY <1>3, <1>4, <1>5, <1>6, <1>7
<1>9. Date(y + 1, 1, 1) = MonthStart[12 * y + 12]
  BY <1>3, <1>4, <1>7
<1>10. QED
  BY <1>2, <1>7, <1>8, <1>9 DEF y

\* Day 0 of the next month is the last day of a month's period, and the first of
\* the next month the day after.
LEMMA MonthEnds ==
  ASSUME NEW d \in AllDays
  PROVE  /\ Date(YearOf(d), Month(d) + 1, 0) = PeriodLast(d, "15min")
         /\ Date(YearOf(d), Month(d) + 1, 1) = PeriodLast(d, "15min") + 1
<1> DEFINE m == MonthOf(d)
<1>1. m \in 0 .. Months - 1 /\ m + 1 \in 0 .. Months /\ Months \in Nat
  <2>1. m \in 0 .. Months - 1
    BY MonthOfDay
  <2> HIDE DEF m
  <2>2. QED
    BY <2>1, MonthStarts
<1>2. /\ Date(YearOf(d), Month(d) + 1, 0)
           = MonthStart[12 * (m \div 12) + ((m % 12) + 1 + 1) - 1] + 0 - 1
      /\ Date(YearOf(d), Month(d) + 1, 1)
           = MonthStart[12 * (m \div 12) + ((m % 12) + 1 + 1) - 1] + 1 - 1
  BY DEF Date, YearOf, Month
<1>3. PeriodLast(d, "15min") = MonthStart[m + 1] - 1
  BY DEF PeriodLast
<1> HIDE DEF m
<1>4. 12 * (m \div 12) + ((m % 12) + 1 + 1) - 1 = m + 1
  BY <1>1
<1>5. MonthStart[m + 1] \in Nat
  BY <1>1, StartIsDate
<1>6. QED
  BY <1>2, <1>3, <1>4, <1>5

-----------------------------------------------------------------------------
(* The loops.                                                              *)

\* The types of a loop's state; a cursor that is not past the end is a day.
LoopInv ==
  /\ loop \in {"chunk", "day", "15min"}
  /\ from \in AllDays /\ to \in AllDays
  /\ maxDays \in Nat /\ (loop = "chunk" => maxDays > 0)
  /\ cursor \in Nat /\ from <= cursor
  /\ out \in Seq(AllDays \X AllDays)

\* The inductive invariant.
RangesInv == LoopInv /\ Tiles /\ OneFile /\ AtMostMaxDays

\* It holds before the first range ...
LEMMA InitRanges == Init => RangesInv
<1> SUFFICES ASSUME Init PROVE RangesInv
  OBVIOUS
<1>1. AllDays \subseteq Nat
  BY MonthStarts DEF AllDays, Months
<1>2. from \in AllDays /\ to \in AllDays /\ cursor = from
  BY HorizonAssumption DEF Init
<1>3. maxDays \in Nat /\ (loop = "chunk" => maxDays > 0) /\ loop \in {"chunk", "day", "15min"}
  <2>1. CASE loop = "chunk"
    <3>1. maxDays \in MaxDays
      BY <2>1 DEF Init
    <3>2. QED
      BY <2>1, <3>1, DateAssumption
  <2>2. CASE loop # "chunk"
    BY <2>2 DEF Init
  <2>3. loop \in {"chunk", "day", "15min"}
    BY DEF Init
  <2>4. QED
    BY <2>1, <2>2, <2>3
<1>4. out = <<>> /\ out \in Seq(AllDays \X AllDays) /\ DOMAIN out = {}
  BY DEF Init
<1>5. LoopInv
  BY <1>1, <1>2, <1>3, <1>4 DEF LoopInv
<1>6. Tiles /\ OneFile /\ AtMostMaxDays
  BY <1>2, <1>4 DEF Tiles, OneFile, AtMostMaxDays
<1>7. QED
  BY <1>5, <1>6 DEF RangesInv

\* One more range, from the cursor to e, and the cursor moved past e.
LEMMA Emission ==
  ASSUME RangesInv, cursor <= to, UNCHANGED <<loop, from, to, maxDays>>,
         NEW e \in AllDays, cursor <= e, e <= to,
         out' = Append(out, <<cursor, e>>),
         cursor' \in Nat, cursor' > e,
         cursor' > to => e = to, cursor' <= to => cursor' = e + 1,
         loop # "chunk" =>
           /\ FileOf(cursor, loop) = FileOf(e, loop)
           /\ e = to \/ FileOf(e + 1, loop) # FileOf(e, loop),
         loop = "chunk" => e - cursor < maxDays
  PROVE  RangesInv'
<1> DEFINE n == Len(out)
<1>1. LoopInv /\ Tiles /\ OneFile /\ AtMostMaxDays
  BY DEF RangesInv
<1>2. AllDays \subseteq Nat /\ \A a \in Nat : (\E b \in AllDays : a <= b) => a \in AllDays
  BY MonthStarts DEF AllDays, Months
<1>3. cursor \in AllDays
  BY <1>1, <1>2 DEF LoopInv
<1>4. out \in Seq(AllDays \X AllDays) /\ n \in Nat /\ DOMAIN out = 1 .. n
  BY <1>1 DEF LoopInv
<1>5. /\ out' \in Seq(AllDays \X AllDays) /\ Len(out') = n + 1 /\ DOMAIN out' = 1 .. n + 1
      /\ out'[n + 1] = <<cursor, e>> /\ \A i \in 1 .. n : out'[i] = out[i]
  BY <1>3, <1>4
<1>6. ASSUME NEW i \in 1 .. n PROVE out[i][1] \in Nat /\ out[i][2] \in Nat
  <2>1. out[i] \in AllDays \X AllDays
    BY <1>4
  <2>2. out[i][1] \in AllDays /\ out[i][2] \in AllDays
    BY <2>1
  <2>3. QED
    BY <1>2, <2>2
<1>7. out'[n + 1][1] = cursor /\ out'[n + 1][2] = e
  BY <1>5
<1> HIDE DEF n
<1>8. LoopInv'
  <2>1. AllDays' = AllDays
    BY DEF AllDays
  <2>2. cursor' \in Nat /\ from <= cursor'
    <3>1. from \in Nat /\ from <= cursor /\ cursor \in Nat /\ e \in Nat
      BY <1>1, <1>2 DEF LoopInv
    <3>2. QED
      BY <3>1
  <2>3. out' \in Seq(AllDays \X AllDays)
    BY <1>5
  <2>4. /\ loop' \in {"chunk", "day", "15min"} /\ from' \in AllDays /\ to' \in AllDays
        /\ maxDays' \in Nat /\ (loop' = "chunk" => maxDays' > 0)
    BY <1>1 DEF LoopInv
  <2>5. from' <= cursor'
    BY <2>2
  <2>6. QED
    BY <2>1, <2>2, <2>3, <2>4, <2>5 DEF LoopInv
<1>9. Tiles'
  <2>1. ASSUME NEW i \in 1 .. n + 1
        PROVE  /\ out'[i][1] = IF i = 1 THEN from ELSE out'[i - 1][2] + 1
               /\ out'[i][1] <= out'[i][2]
    <3>1. CASE i = n + 1 /\ n = 0
      <4>1. cursor = from
        BY <1>1, <1>4, <3>1 DEF Tiles, n
      <4>2. QED
        BY <1>7, <3>1, <4>1
    <3>2. CASE i = n + 1 /\ n # 0
      <4>1. out # <<>> /\ n \in 1 .. n
        BY <1>4, <3>2 DEF n
      <4>2. out[n][2] = cursor - 1
        <5>1. out # <<>> => out[n][2] = IF cursor > to THEN to ELSE cursor - 1
          BY <1>1 DEF Tiles, n
        <5>2. ~(cursor > to)
          BY <1>1, <1>2 DEF LoopInv
        <5>3. QED
          BY <4>1, <5>1, <5>2
      <4>3. out'[n][2] = out[n][2] /\ cursor \in Nat
        BY <1>2, <1>3, <1>5, <4>1
      <4>4. i # 1 /\ i - 1 = n /\ out'[i][1] = cursor /\ out'[i][2] = e
        BY <1>4, <1>7, <3>2
      <4>5. out'[i - 1][2] = cursor - 1
        BY <4>2, <4>3, <4>4
      <4>6. cursor = (cursor - 1) + 1
        BY <4>3
      <4>7. QED
        BY <4>4, <4>5, <4>6
    <3>3. CASE i \in 1 .. n
      <4>1. /\ out[i][1] = IF i = 1 THEN from ELSE out[i - 1][2] + 1
            /\ out[i][1] <= out[i][2]
        BY <1>1, <1>4, <3>3 DEF Tiles
      <4>2. i # 1 => i - 1 \in 1 .. n
        BY <1>4, <3>3
      <4>3. QED
        BY <1>5, <3>3, <4>1, <4>2
    <3>4. QED
      BY <1>4, <3>1, <3>2, <3>3
  <2>2. out'[Len(out')][2] = IF cursor' > to THEN to ELSE cursor' - 1
    <3>1. out'[Len(out')][2] = e /\ e \in Nat /\ to \in Nat
      BY <1>1, <1>2, <1>5, <1>7 DEF LoopInv
    <3>2. QED
      BY <3>1
  <2>3. out' # <<>>
    BY <1>4, <1>5
  <2>4. from' = from /\ to' = to
    OBVIOUS
  <2>5. QED
    BY <1>5, <2>1, <2>2, <2>3, <2>4 DEF Tiles
<1>10. OneFile'
  <2> SUFFICES ASSUME loop # "chunk", NEW i \in 1 .. n + 1
               PROVE  /\ FileOf(out'[i][1], loop) = FileOf(out'[i][2], loop)
                      /\ \/ out'[i][2] = to
                         \/ FileOf(out'[i][2] + 1, loop) # FileOf(out'[i][2], loop)
    BY <1>5 DEF OneFile, FileOf, YearOf, MonthOf
  <2>1. CASE i = n + 1
    BY <1>7, <2>1
  <2>2. CASE i \in 1 .. n
    <3>1. /\ FileOf(out[i][1], loop) = FileOf(out[i][2], loop)
          /\ out[i][2] = to \/ FileOf(out[i][2] + 1, loop) # FileOf(out[i][2], loop)
      BY <1>1, <1>4, <2>2 DEF OneFile
    <3>2. QED
      BY <1>5, <2>2, <3>1
  <2>3. QED
    BY <1>4, <2>1, <2>2
<1>11. AtMostMaxDays'
  <2> SUFFICES ASSUME loop = "chunk", NEW i \in 1 .. n + 1
               PROVE  out'[i][2] - out'[i][1] < maxDays
    BY <1>5 DEF AtMostMaxDays
  <2>1. CASE i = n + 1
    BY <1>7, <2>1
  <2>2. CASE i \in 1 .. n
    BY <1>1, <1>4, <1>5, <2>2 DEF AtMostMaxDays
  <2>3. QED
    BY <1>4, <2>1, <2>2
<1>12. QED
  BY <1>8, <1>9, <1>10, <1>11 DEF RangesInv

\* A loop over periods, whose step emits the rest of the cursor's period.
LEMMA PeriodStep ==
  ASSUME RangesInv, cursor <= to, loop \in {"day", "15min"},
         UNCHANGED <<loop, from, to, maxDays>>,
         Emit(PeriodLast(cursor, loop)), cursor' = PeriodLast(cursor, loop) + 1
  PROVE  RangesInv'
<1> DEFINE l == PeriodLast(cursor, loop)
           e == Lesser(l, to)
<1>1. /\ AllDays \subseteq Nat /\ \A a \in Nat : (\E b \in AllDays : a <= b) => a \in AllDays
      /\ \A a, b \in Nat : b \in AllDays /\ a < b => a + 1 \in AllDays
  BY MonthStarts DEF AllDays, Months
<1>2. cursor \in Nat /\ to \in AllDays
  BY DEF RangesInv, LoopInv
<1>3. cursor \in AllDays
  BY <1>1, <1>2
<1>4. /\ l \in AllDays /\ cursor <= l
      /\ \A d \in cursor .. l : d \in AllDays /\ FileOf(d, loop) = FileOf(cursor, loop)
      /\ l + 1 \in AllDays => FileOf(l + 1, loop) # FileOf(cursor, loop)
  BY <1>3, PeriodSpan
<1>5. out' = Append(out, <<cursor, e>>) /\ cursor' = l + 1
  BY DEF Emit
<1> HIDE DEF l
<1>6. l \in Nat /\ to \in Nat
  BY <1>1, <1>2, <1>4
<1>7. /\ e \in AllDays /\ cursor <= e /\ e <= to /\ e <= l
      /\ e = to \/ e = l
  BY <1>1, <1>2, <1>4, <1>6 DEF Lesser
<1>8. e \in cursor .. l
  BY <1>1, <1>2, <1>6, <1>7
<1>9. FileOf(cursor, loop) = FileOf(e, loop)
  BY <1>4, <1>8
<1>10. e = to \/ FileOf(e + 1, loop) # FileOf(e, loop)
  <2> SUFFICES ASSUME e # to PROVE FileOf(e + 1, loop) # FileOf(e, loop)
    OBVIOUS
  <2>1. e = l /\ l < to
    BY <1>6, <1>7
  <2>2. l + 1 \in AllDays
    BY <1>1, <1>2, <1>6, <2>1
  <2>3. QED
    BY <1>4, <1>9, <2>1, <2>2
<1>11. /\ cursor' \in Nat /\ cursor' > e
       /\ (cursor' > to => e = to) /\ (cursor' <= to => cursor' = e + 1)
  BY <1>5, <1>6 DEF Lesser
<1> HIDE DEF e
<1>12. QED
  BY <1>5, <1>7, <1>9, <1>10, <1>11, Emission

\* ... and every turn of each loop keeps it.
LEMMA NextRanges == RangesInv /\ [Next]_vars => RangesInv'
<1> SUFFICES ASSUME RangesInv, [Next]_vars PROVE RangesInv'
  OBVIOUS
<1>1. /\ AllDays \subseteq Nat /\ \A a \in Nat : (\E b \in AllDays : a <= b) => a \in AllDays
  BY MonthStarts DEF AllDays, Months
<1>2. cursor \in Nat /\ to \in AllDays /\ maxDays \in Nat
  BY DEF RangesInv, LoopInv
<1>3. CASE Chunk
  <2> DEFINE e == Lesser(ChunkEnd, to)
  <2>1. /\ loop = "chunk" /\ cursor <= to /\ UNCHANGED <<loop, from, to, maxDays>>
        /\ out' = Append(out, <<cursor, e>>) /\ cursor' = e + 1
    BY <1>3 DEF Chunk, Emit
  <2>2. maxDays > 0 /\ to \in Nat
    BY <1>1, <1>2, <2>1 DEF RangesInv, LoopInv
  <2>3. e \in Nat /\ cursor <= e /\ e <= to /\ e - cursor < maxDays
    BY <1>2, <2>1, <2>2 DEF Lesser, ChunkEnd
  <2> HIDE DEF e
  <2>4. e \in AllDays
    BY <1>1, <1>2, <2>3
  <2>5. /\ cursor' \in Nat /\ cursor' > e
        /\ (cursor' > to => e = to) /\ (cursor' <= to => cursor' = e + 1)
    BY <2>1, <2>2, <2>3
  <2>6. QED
    BY <2>1, <2>3, <2>4, <2>5, Emission
<1>4. CASE SplitYear
  <2>1. /\ loop = "day" /\ cursor <= to /\ UNCHANGED <<loop, from, to, maxDays>>
        /\ Emit(Date(YearOf(cursor), 12, 31)) /\ cursor' = Date(YearOf(cursor) + 1, 1, 1)
    BY <1>4 DEF SplitYear, NextYear
  <2>2. cursor \in AllDays
    BY <1>1, <1>2, <2>1
  <2>3. /\ Date(YearOf(cursor), 12, 31) = PeriodLast(cursor, loop)
        /\ Date(YearOf(cursor) + 1, 1, 1) = PeriodLast(cursor, loop) + 1
    BY <2>1, <2>2, YearEnds
  <2>4. Emit(PeriodLast(cursor, loop)) /\ cursor' = PeriodLast(cursor, loop) + 1
    BY <2>1, <2>3
  <2>5. QED
    BY <2>1, <2>4, PeriodStep
<1>5. CASE SplitMonth
  <2>1. /\ loop = "15min" /\ cursor <= to /\ UNCHANGED <<loop, from, to, maxDays>>
        /\ Emit(Date(YearOf(cursor), Month(cursor) + 1, 0))
        /\ cursor' = Date(YearOf(cursor), Month(cursor) + 1, 1)
    BY <1>5 DEF SplitMonth, MonthEnd
  <2>2. cursor \in AllDays
    BY <1>1, <1>2, <2>1
  <2>3. /\ Date(YearOf(cursor), Month(cursor) + 1, 0) = PeriodLast(cursor, loop)
        /\ Date(YearOf(cursor), Month(cursor) + 1, 1) = PeriodLast(cursor, loop) + 1
    BY <2>1, <2>2, MonthEnds
  <2>4. Emit(PeriodLast(cursor, loop)) /\ cursor' = PeriodLast(cursor, loop) + 1
    BY <2>1, <2>3
  <2>5. QED
    BY <2>1, <2>4, PeriodStep
<1>6. CASE UNCHANGED vars
  BY <1>6 DEF vars, RangesInv, LoopInv, Tiles, OneFile, AtMostMaxDays, FileOf, YearOf, MonthOf
<1>7. QED
  BY <1>3, <1>4, <1>5, <1>6 DEF Next, Return

-----------------------------------------------------------------------------
(* The trading day before a date.                                          *)

\* LastTradingDay is the latest weekday of the week before a date.
LEMMA LatestOfWeek ==
  ASSUME NEW t \in Nat
  PROVE  LastTradingDay(t) = Max({d \in t - 7 .. t - 1 : Weekday(d) \in 1 .. 5})
<1> DEFINE S == {d \in t - 7 .. t - 1 : Weekday(d) \in 1 .. 5}
           x == LastTradingDay(t)
<1>1. S \in SUBSET Int
  OBVIOUS
<1>2. FirstWeekday \in 0 .. 6
  BY DateAssumption
<1> DEFINE w == Weekday(t - 1)
<1>3. w \in 0 .. 6 /\ w = (t - 1 + FirstWeekday) % 7
  BY <1>2 DEF Weekday
<1>4. /\ w # 0 => Weekday(t - 2) = w - 1
      /\ w = 0 => Weekday(t - 2) = 6
      /\ w = 0 => Weekday(t - 3) = 5
  BY <1>2 DEF Weekday
<1>5. /\ w = 6 => x = t - 2
      /\ w = 0 => x = t - 3
      /\ w \in 1 .. 5 => x = t - 1
  <2> HIDE DEF w
  <2>1. x = CASE w = 6 -> t - 2 [] w = 0 -> t - 3 [] OTHER -> t - 1
    BY DEF LastTradingDay, w
  <2>2. QED
    BY <2>1
<1> HIDE DEF x, w
<1>6. x \in t - 3 .. t - 1 /\ Weekday(x) \in 1 .. 5
  BY <1>3, <1>4, <1>5 DEF w
<1>7. ASSUME NEW d \in S PROVE d <= x
  <2>1. d \in Int /\ d <= t - 1 /\ Weekday(d) \in 1 .. 5
    OBVIOUS
  <2>2. d = t - 1 => Weekday(d) = w
    BY DEF w
  <2>3. d = t - 2 /\ w = 0 => Weekday(d) = 6
    BY <1>4
  <2>4. QED
    BY <1>3, <1>5, <2>1, <2>2, <2>3
<1>8. x \in S
  BY <1>6
<1> HIDE DEF S
<1>9. Max(S) = x
  BY <1>1, <1>7, <1>8, MaxIs
<1>10. QED
  BY <1>9 DEF S, x

-----------------------------------------------------------------------------
(* Theorems.                                                               *)

\* The loops, whatever they are given.
THEOREM RangesCorrect == Spec => []RangesInv
BY InitRanges, NextRanges, PTL DEF Spec

\* Whatever the range and chunk_days, the chunks and the sub-chunks follow one
\* another from the first day asked for to the last (chunkDateRange,
\* splitByYear, splitByMonth).
THEOREM RangesTile == Spec => []Tiles
<1>1. RangesInv => Tiles
  BY DEF RangesInv
<1>2. QED
  BY <1>1, RangesCorrect, PTL

\* Every sub-chunk is the part of the range in one calendar year or month, leap
\* years and the ends of years included (splitByYear, splitByMonth).
THEOREM SubChunksInOneFile == Spec => []OneFile
<1>1. RangesInv => OneFile
  BY DEF RangesInv
<1>2. QED
  BY <1>1, RangesCorrect, PTL

\* No chunk is longer than chunk_days (chunkDateRange).
THEOREM ChunksFit == Spec => []AtMostMaxDays
<1>1. RangesInv => AtMostMaxDays
  BY DEF RangesInv
<1>2. QED
  BY <1>1, RangesCorrect, PTL

\* lastTradingDay returns the latest weekday before any date.
THEOREM TradingDayIsLatest == Spec => []LatestWeekday
<1>1. RangesInv => LatestWeekday
  <2>1. AllDays \subseteq Nat
    BY MonthStarts DEF AllDays, Months
  <2>2. RangesInv => to \in Nat
    BY <2>1 DEF RangesInv, LoopInv
  <2>3. QED
    BY <2>2, LatestOfWeek DEF LatestWeekday
<1>2. QED
  BY <1>1, RangesCorrect, PTL

-----------------------------------------------------------------------------
(* What Windows takes for granted.                                         *)

\* Windows over the Gregorian calendar: a series per interval, and the periods
\* are the calendar's years and months.
Real == INSTANCE Windows WITH
  Series       <- {"day", "15min"},
  Intraday     <- {"15min"},
  LastDay      <- MonthStart[Months] - 1,
  BackfillFrom <- [s \in {"day", "15min"} |-> 1],
  ChunkDays    <- [s \in {"day", "15min"} |-> 1],
  PeriodEnd    <- [s \in {"day", "15min"} |-> [d \in AllDays |-> PeriodLast(d, s)]]

\* The years and the months of the calendar are periods as PeriodAssumption wants
\* them, which Backfill, Options and Extraction are proved from.
THEOREM CalendarHasPeriods == Real!PeriodAssumption
<1>1. SUFFICES ASSUME NEW s \in {"day", "15min"}, NEW d \in 1 .. MonthStart[Months] - 1
               PROVE  /\ d <= PeriodLast(d, s)
                      /\ \A e \in d .. PeriodLast(d, s) :
                           /\ e \in AllDays
                           /\ PeriodLast(e, s) = PeriodLast(d, s)
  <2>1. \A d \in 1 .. MonthStart[Months] - 1 : d \in AllDays
    BY DEF AllDays, Months
  <2>2. QED
    BY <1>1, <2>1 DEF Real!PeriodAssumption, Real!Day
<1>2. d \in AllDays
  BY DEF AllDays, Months
<1>3. /\ d <= PeriodLast(d, s)
      /\ \A e \in d .. PeriodLast(d, s) : e \in AllDays /\ FileOf(e, s) = FileOf(d, s)
  BY <1>2, PeriodSpan
<1>4. ASSUME NEW e \in d .. PeriodLast(d, s) PROVE PeriodLast(e, s) = PeriodLast(d, s)
  <2>1. FileOf(e, s) = FileOf(d, s)
    BY <1>3, <1>4
  <2>2. QED
    BY <2>1 DEF FileOf, PeriodLast
<1>5. QED
  BY <1>3, <1>4

\* What a step of a period loop does, in the words of Windows.
Slices ==
  loop # "chunk" /\ cursor <= to =>
    out' = Append(out, <<cursor, Real!SliceEnd(loop, cursor, to)>>)

\* splitByYear and splitByMonth cut a chunk where SliceEnd does: at the end of
\* the cursor's period or of the chunk.
THEOREM SlicesAreCalendar == Spec => [][Slices]_vars
<1>1. RangesInv /\ [Next]_vars => [Slices]_vars
  <2> SUFFICES ASSUME RangesInv, Next, loop # "chunk", cursor <= to
               PROVE  out' = Append(out, <<cursor, Real!SliceEnd(loop, cursor, to)>>)
    BY DEF Slices
  <2>1. /\ AllDays \subseteq Nat
        /\ \A a \in Nat : (\E b \in AllDays : a <= b) => a \in AllDays
    BY MonthStarts DEF AllDays, Months
  <2>2. cursor \in Nat /\ to \in AllDays /\ loop \in {"day", "15min"}
    BY DEF RangesInv, LoopInv
  <2>3. cursor \in AllDays
    BY <2>1, <2>2
  <2>4. Emit(PeriodLast(cursor, loop))
    <3>1. CASE SplitYear
      BY <2>3, <3>1, YearEnds DEF SplitYear
    <3>2. CASE SplitMonth
      BY <2>3, <3>2, MonthEnds DEF SplitMonth, MonthEnd
    <3>3. ~Chunk /\ ~Return
      <4>1. ~(cursor > to)
        BY <2>1, <2>2
      <4>2. QED
        BY <4>1 DEF Chunk, Return
    <3>4. QED
      BY <3>1, <3>2, <3>3 DEF Next
  <2>5. Real!SliceEnd(loop, cursor, to) = Lesser(PeriodLast(cursor, loop), to)
    BY <2>2, <2>3 DEF Real!SliceEnd, Real!Lesser, Lesser
  <2>6. QED
    BY <2>4, <2>5 DEF Emit
<1>2. QED
  BY <1>1, RangesCorrect, PTL DEF Spec
=============================================================================
