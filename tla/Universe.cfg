SPECIFICATION Spec
CONSTANTS
  nse = nse
  nfo = nfo
  bank = bank
  mill = mill
  nifty = nifty
  vix = vix
  bankFut = bankFut
  bankCE = bankCE
  Latest = 2
  AddsColumn = {2}
  LastDay = 2
  FnOOnly = TRUE
  IncludeIndices = TRUE
  EquityExchanges = {nse}
  FuturesExchanges = {nfo}
  OptionsExchanges = {nfo}
  Indices = {nifty}
  Listed <- MCListed
INVARIANTS TypeOK Migrated AloneOpens LockedOnlyTogether NightlySeesAll BackfillLoads HiddenOnlyByNewDay
