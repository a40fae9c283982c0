SPECIFICATION Spec
CONSTANTS
  FirstYear = 2023
  Years = 3
  FirstWeekday = 0
  Dates <- MCDates
  MaxDays = {1, 2, 60}
  MaxChunks = 8
INVARIANTS Tiles OneFile AtMostMaxDays LatestWeekday
