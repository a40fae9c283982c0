SPECIFICATION Spec
CONSTANTS
  s1 = s1
  s2 = s2
  nse = nse
  bse = bse
  None = None
  Series = {s1, s2}
  LastDay = 7
  Boundary = 4
  Jobs <- TwoJobs
  Intraday = {}
  FetchFaults = TRUE
  ExchangeOf <- MCExchangeOf
  BackfillFrom <- MCBackfillFrom
  ChunkDays <- MCChunkDays
  PeriodEnd <- MCPeriodEnd
  Market <- MCMarket
INVARIANTS TypeOK NoSilentGap OneFilePerDay IInv
PROPERTIES BackfillFills CleanChunk CkptMonotone RowsNeverLost ImplementsArchive PassEnds
