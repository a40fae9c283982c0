----------------------------- MODULE DateRanges -----------------------------
(***************************************************************************)
(* The loops that cut a range of dates into chunks and sub-chunks          *)
(* (chunkDateRange, splitByYear, splitByMonth) over the Gregorian calendar *)
(* as time.Date computes it, and the trading day before a date.            *)
(*                                                                         *)
(* A date is the number of days since 1 January of FirstYear.  Other       *)
(* modules take from here what they assume of chunks and periods.          *)
(***************************************************************************)
EXTENDS Integers, Sequences, FiniteSetsExt

CONSTANTS
  FirstYear,    \* the year that dates are counted from
  Years,        \* how many years the calendar has
  FirstWeekday, \* the weekday of day 0, Sunday being 0
  Dates,        \* the dates that a range may start or end on
  MaxDays,      \* the values of kite.chunk_days
  MaxChunks     \* bound: how many chunks a range may have

ASSUME DateAssumption ==
  /\ FirstYear \in Nat /\ Years \in Nat \ {0} /\ FirstWeekday \in 0 .. 6
  /\ Dates \subseteq Nat
  /\ MaxDays \subseteq Nat \ {0}

-----------------------------------------------------------------------------
(* The calendar.                                                           *)

Leap(year) == year % 4 = 0 /\ (year % 100 # 0 \/ year % 400 = 0)

\* Months are counted from January of FirstYear on, so that month 12 of a year
\* is January of the next, as time.Date normalises it.
MonthLength(k) ==
  CASE k % 12 = 1 -> IF Leap(FirstYear + k \div 12) THEN 29 ELSE 28
    [] k % 12 \in {3, 5, 8, 10} -> 30
    [] OTHER -> 31

MonthStart[k \in 0 .. 12 * Years] ==
  IF k = 0 THEN 0 ELSE MonthStart[k - 1] + MonthLength(k - 1)

AllDays == 0 .. MonthStart[12 * Years] - 1

\* The calendar is long enough for every range.
ASSUME HorizonAssumption == Dates \subseteq AllDays

\* time.Date(year, month, day) for year FirstYear + y; day 0 is the last day of
\* the month before.
Date(y, month, day) == MonthStart[12 * y + month - 1] + day - 1

MonthOf(d) == Max({k \in 0 .. 12 * Years - 1 : MonthStart[k] <= d})

YearOf(d) == MonthOf(d) \div 12

\* cursor.Month(), from 1 to 12.
Month(d) == (MonthOf(d) % 12) + 1

Weekday(d) == (d + FirstWeekday) % 7

\* The part of equityKey and futuresKey that depends on the date.
FileOf(d, interval) == IF interval = "day" THEN YearOf(d) ELSE MonthOf(d)

\* Mutant: only a Saturday is stepped over.
LastTradingDaySunday(today) ==
  IF Weekday(today - 1) = 6 THEN today - 2 ELSE today - 1

LastTradingDay(today) ==
  CASE Weekday(today - 1) = 6 -> today - 2
    [] Weekday(today - 1) = 0 -> today - 3
    [] OTHER -> today - 1

-----------------------------------------------------------------------------
(* The loops, one iteration per step.                                      *)

VARIABLES
  loop,      \* "chunk", or the interval whose periods split the range
  from, to,  \* the range
  maxDays,   \* only for "chunk"
  cursor,    \* where the loop stands
  out        \* the ranges so far

vars == <<loop, from, to, maxDays, cursor, out>>

Init ==
  /\ loop \in {"chunk", "day", "15min"}
  /\ from \in Dates /\ to \in Dates
  /\ IF loop = "chunk"
       THEN maxDays \in MaxDays /\ to - from <= MaxChunks * maxDays
       ELSE maxDays = 0
  /\ cursor = from
  /\ out = <<>>

Lesser(a, b) == IF a <= b THEN a ELSE b

Emit(end) == out' = Append(out, <<cursor, Lesser(end, to)>>)

\* Mutant: maxDays is added in full.
ChunkEndLong == cursor + maxDays

ChunkEnd == cursor + maxDays - 1

\* chunkDateRange.
Chunk ==
  /\ loop = "chunk" /\ cursor <= to
  /\ Emit(ChunkEnd)
  /\ cursor' = Lesser(ChunkEnd, to) + 1
  /\ UNCHANGED <<loop, from, to, maxDays>>

\* Mutant: the next year starts where this one did.
NextYearSame == Date(YearOf(cursor), 1, 1)

NextYear == Date(YearOf(cursor) + 1, 1, 1)

\* splitByYear.
SplitYear ==
  /\ loop = "day" /\ cursor <= to
  /\ Emit(Date(YearOf(cursor), 12, 31))
  /\ cursor' = NextYear
  /\ UNCHANGED <<loop, from, to, maxDays>>

\* Mutant: every month has 30 days.
MonthEndThirty == Date(YearOf(cursor), Month(cursor), 30)

MonthEnd == Date(YearOf(cursor), Month(cursor) + 1, 0)

\* splitByMonth.
SplitMonth ==
  /\ loop = "15min" /\ cursor <= to
  /\ Emit(MonthEnd)
  /\ cursor' = Date(YearOf(cursor), Month(cursor) + 1, 1)
  /\ UNCHANGED <<loop, from, to, maxDays>>

Return == cursor > to /\ UNCHANGED vars

Next == Chunk \/ SplitYear \/ SplitMonth \/ Return

Spec == Init /\ [][Next]_vars

-----------------------------------------------------------------------------
(* Properties.                                                             *)

\* The ranges follow one another without a gap or an overlap, none is empty, and
\* once the loop is over they end on the last day asked for: no day of a backfill
\* is fetched twice or not at all, and as every turn of a loop takes at least one
\* day from the range, the loops end (backfill.go:273-321).
Tiles ==
  /\ \A i \in DOMAIN out :
       /\ out[i][1] = IF i = 1 THEN from ELSE out[i - 1][2] + 1
       /\ out[i][1] <= out[i][2]
  /\ out # <<>> => out[Len(out)][2] = IF cursor > to THEN to ELSE cursor - 1
  /\ out = <<>> => cursor = from

\* A sub-chunk lies in one file, and reaches to the end of that file's period or
\* of the range, so that no file is read and written twice for one chunk
\* (backfill.go:287-288).
OneFile ==
  loop # "chunk" =>
    \A i \in DOMAIN out :
      /\ FileOf(out[i][1], loop) = FileOf(out[i][2], loop)
      /\ out[i][2] = to \/ FileOf(out[i][2] + 1, loop) # FileOf(out[i][2], loop)

\* Kite accepts at most so many days per request (backfill.go:273).
AtMostMaxDays ==
  loop = "chunk" => \A i \in DOMAIN out : out[i][2] - out[i][1] < maxDays

\* The last trading day is the latest weekday before the date
\* (shared.go:37-48).
LatestWeekday ==
  LastTradingDay(to) = Max({d \in to - 7 .. to - 1 : Weekday(d) \in 1 .. 5})
=============================================================================
