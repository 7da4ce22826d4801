SPECIFICATION HSpec
CONSTANTS
  Reqs = {r1, r2}
  Codes = {c1}
  Counters = {}
  Urls = {u1, u2, bad, n}
  Tally = n
  ValidUrls = {u1, u2}
  Users = {ann, bob}
  Jobs <- OneCodeJobs
  Faults = {}
  MaxRetries = 2
  CacheTtl = 2
  RateWindow = 1
  Sec = 1
  MaxClock = 2
  CommitBeforeSend = TRUE
  None = None
  c1 = c1 c2 = c2 k = k u1 = u1 u2 = u2 bad = bad n = n ann = ann bob = bob
SYMMETRY ReqSymmetry
INVARIANT ExpiredIsGone
