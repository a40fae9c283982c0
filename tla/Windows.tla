------------------------------ MODULE Windows ------------------------------
(***************************************************************************)
(* The calendar of an extraction and how it is cut up: the day a run ends  *)
(* on, the chunks of one fetch loop, the sub-chunks that stay within one   *)
(* file, and what a window of Kite's historical API covers.  DateRanges    *)
(* shows of the loops over real dates what is taken for granted here.      *)
(*                                                                         *)
(* A series is what has a checkpoint of its own: an instrument of an       *)
(* exchange at one interval, or an options underlying at one interval.  A  *)
(* candle file holds a series over one period (a calendar year for "day",  *)
(* a month for "15min") and is named here by the last day of that period.  *)
(***************************************************************************)
EXTENDS Integers

CONSTANTS
  Series,        \* (exchange, symbol, interval) or (underlying, interval)
  Intraday,      \* the series of interval "15min"; the others are "day"
  LastDay,       \* the horizon: days are 1..LastDay
  BackfillFrom,  \* extraction.<type>.backfill_from of a series
  ChunkDays,     \* kite.chunk_days of a series' interval (default applied)
  PeriodEnd      \* the last day of the period a day falls in

Day == 1 .. LastDay

\* The series of interval "day".
Daily == Series \ Intraday

\* Periods are intervals of days that tile the calendar.
ASSUME PeriodAssumption ==
  \A s \in Series : \A d \in Day :
    /\ d <= PeriodEnd[s][d]
    /\ \A e \in d .. PeriodEnd[s][d] : PeriodEnd[s][e] = PeriodEnd[s][d]

\* What a missing checkpoint row reads as.
NotFound == 0

\* Mutant: today is taken for a day that is over.
LastTradingDayToday(t) == t

\* Yesterday, or the Friday before it.  Day d is a Saturday when d % 7 = 6 and a
\* Sunday when it is 0.
LastTradingDay(t) ==
  CASE (t - 1) % 7 = 6 -> t - 2
    [] (t - 1) % 7 = 0 -> t - 3
    [] OTHER -> t - 1

Lesser(a, b) == IF a <= b THEN a ELSE b

\* Where chunkDateRange ends the chunk that starts at from.
ChunkEnd(s, from, end) == Lesser(from + ChunkDays[s] - 1, end)

\* Mutant: a chunk is not split at the end of a period.
SliceEndUnsplit(s, from, to) == to

\* Where splitByPeriod ends the sub-chunk that starts at from.
SliceEnd(s, from, to) == Lesser(PeriodEnd[s][from], to)

\* The days whose candles Kite returns for a window from midnight of one day to
\* midnight of another: a day candle carries the midnight of its day, an
\* intraday candle a later time, so the last day of its window falls outside.
DaysToMidnight(s, from, to) ==
  IF s \in Intraday THEN from .. to - 1 ELSE from .. to

\* The candle file the rows of a window that starts on day d belong to.
FileOf(s, d) == PeriodEnd[s][d]
=============================================================================
