SPECIFICATION Spec
CONSTANTS
  s1 = s1
  nse = nse
  None = None
  NoSeries = NoSeries
  Series = {s1}
  LastDay = 8
  Boundary = 4
  FirstDay = 4
  MayOverlap = FALSE
  Intraday = {}
  FetchFaults = TRUE
  Jobs <- MCJobs
  Passes <- MCPasses
  ExchangeOf <- MCExchangeOf
  BackfillFrom <- MCBackfillFrom
  ChunkDays <- MCChunkDays
  PeriodEnd <- MCPeriodEnd
  Market <- MCMarket
INVARIANTS TypeOK OneFilePerDay
PROPERTIES GapsAreJumps RowsNeverLost CkptMonotone
