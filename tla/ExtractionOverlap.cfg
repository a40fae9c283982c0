SPECIFICATION Spec
CONSTANTS
  s1 = s1
  nse = nse
  None = None
  NoSeries = NoSeries
  Series = {s1}
  LastDay = 3
  Boundary = 3
  FirstDay = 1
  MayOverlap = TRUE
  Intraday = {}
  FetchFaults = FALSE
  Jobs <- MCJobs
  Passes <- MCPasses
  ExchangeOf <- MCExchangeOf
  BackfillFrom <- MCBackfillFrom
  ChunkDays <- MCChunkDays
  PeriodEnd <- MCPeriodEnd
  Market <- MCMarket

PROPERTIES RowsNeverLost
