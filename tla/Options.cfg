SPECIFICATION Spec
CONSTANTS
  u1 = u1
  u2 = u2
  near = near
  far = far
  other = other
  None = None
  MayOverlap = FALSE
  Series = {u1}
  Contracts = {near, far}
  PrefixOf = FALSE
  LastDay = 3
  Boundary = 1
  Intraday = {}
  FetchFaults = TRUE
  BackfillFrom <- MCBackfillFrom
  ChunkDays <- MCChunkDays
  PeriodEnd <- MCPeriodEnd
  Own <- MCOwn
  Matches <- MCMatches
  KeyOf <- MCKeyOf
  ListedOn <- MCListedOn
  Market <- MCMarket
INVARIANTS TypeOK BooksOK
PROPERTIES GapsPredateNightly KeysNeverLost CleanChunk WalkFills RunEnds
