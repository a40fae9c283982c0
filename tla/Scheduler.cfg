SPECIFICATION Spec
CONSTANTS
  nightly = nightly
  weekly = weekly
  Job = {nightly, weekly}
  MaxSessions = 2
  Calls = 1
  Runs <- MCRuns
  Work <- MCWork
INVARIANTS TypeOK RateBound LateFew NewestToken RedirectKept
PROPERTIES StopReturns
