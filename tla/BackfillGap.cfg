SPECIFICATION Spec
CONSTANTS
  s1 = s1
  s2 = s2
  nse = nse
  bse = bse
  None = None
  Series = {s1}
  LastDay = 5
  Boundary = 2
  Jobs <- OneJob
  Intraday = {}
  FetchFaults = TRUE
  ExchangeOf <- MCExchangeOf
  BackfillFrom <- MCBackfillFrom
  ChunkDays <- MCChunkDays
  PeriodEnd <- MCPeriodEnd
  Market <- MCMarket
INVARIANTS Covered

