SPECIFICATION Spec
CONSTANTS
  Reqs = {r1}
  Visits = {v1, v2, v3}
  Hashes = {h1, h2}
  DayLength = 2
  LastDay = 2
  MaxClock = 3
  None = None
SYMMETRY ClickSymmetry
INVARIANTS TypeOK ReportAddsUp ReportCountsWindow WindowsPartition DeletedHasNoStatistics
