----------------------------- MODULE MCBackfill -----------------------------
(***************************************************************************)
(* Small instances of Backfill, of two series.  Day 1 is a Monday.  The    *)
(* cfg files choose its interval, the horizon and what Kite does.          *)
(***************************************************************************)
EXTENDS Backfill

CONSTANTS
  s1, s2,        \* a series that fills, and one that is not to begin yet
  nse, bse,      \* their exchanges
  Boundary       \* the last day of the first period; the horizon ends the second

MCExchangeOf == [s \in Series |-> IF s = s1 THEN nse ELSE bse]
MCBackfillFrom == [s \in Series |-> IF s = s1 THEN 1 ELSE LastDay]
MCChunkDays == [s \in Series |-> 3]
MCPeriodEnd ==
  [s \in Series |-> [d \in Day |-> IF d <= Boundary THEN Boundary ELSE LastDay]]

\* Kite has a candle for every weekday except a holiday, day 3.
MCMarket == [s \in Series |-> {d \in Day : d % 7 \notin {0, 6}} \ {3}]

OneJob == {Series}
\* One after the other, as for two asset types or intervals.
TwoJobs == {{s} : s \in Series}
=============================================================================
