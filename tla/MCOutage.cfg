SPECIFICATION FairSpec
CONSTANTS
  Reqs = {r1, r2}
  Codes = {c1}
  Counters = {}
  Urls = {u1, u2, bad, n}
  Tally = n
  ValidUrls = {u1, u2}
  Users = {ann, bob}
  Jobs <- FewJobs
  Faults = {"db"}
  MaxRetries = 2
  CacheTtl = 1
  RateWindow = 1
  Sec = 1
  MaxClock = 0
  CommitBeforeSend = TRUE
  None = None
  c1 = c1 c2 = c2 k = k u1 = u1 u2 = u2 bad = bad n = n ann = ann bob = bob
PROPERTY HitNeedsNoDatabase
