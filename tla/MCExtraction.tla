---------------------------- MODULE MCExtraction ----------------------------
(***************************************************************************)
(* Small instances of Extraction: one series, two periods.  Day 1 is a     *)
(* Monday; the series starts at FirstDay, so that a short run of days can  *)
(* still have a weekend in it.                                             *)
(***************************************************************************)
EXTENDS Extraction

CONSTANTS s1, nse, Boundary, FirstDay

MCExchangeOf == [s \in Series |-> nse]
MCBackfillFrom == [s \in Series |-> FirstDay]
MCChunkDays == [s \in Series |-> 2]
MCPeriodEnd ==
  [s \in Series |-> [d \in Day |-> IF d <= Boundary THEN Boundary ELSE LastDay]]
MCMarket == [s \in Series |-> {d \in FirstDay .. LastDay : d % 7 \notin {0, 6}}]
MCJobs == {Series}
MCPasses == <<Series>>
=============================================================================
