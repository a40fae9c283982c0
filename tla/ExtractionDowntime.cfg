SPECIFICATION Spec
CONSTANTS
  s1 = s1
  nse = nse
  None = None
  NoSeries = NoSeries
  Series = {s1}
  LastDay = 3
  Boundary = 2
  FirstDay = 1
  MayOverlap = FALSE
  Intraday = {}
  FetchFaults = FALSE
  Jobs <- MCJobs
  Passes <- MCPasses
  ExchangeOf <- MCExchangeOf
  BackfillFrom <- MCBackfillFrom
  ChunkDays <- MCChunkDays
  PeriodEnd <- MCPeriodEnd
  Market <- MCMarket

PROPERTIES WeeklyFillsGaps
