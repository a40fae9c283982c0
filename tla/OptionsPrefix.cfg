SPECIFICATION Spec
CONSTANTS
  u1 = u1
  u2 = u2
  near = near
  far = far
  other = other
  None = None
  MayOverlap = FALSE
  Series = {u1, u2}
  Contracts = {far, other}
  PrefixOf = TRUE
  LastDay = 2
  Boundary = 1
  Intraday = {}
  FetchFaults = FALSE
  BackfillFrom <- MCBackfillFrom
  ChunkDays <- MCChunkDays
  PeriodEnd <- MCPeriodEnd
  Own <- MCOwn
  Matches <- MCMatches
  KeyOf <- MCKeyOf
  ListedOn <- MCListedOn
  Market <- MCMarket
INVARIANTS OwnContractsOnly
