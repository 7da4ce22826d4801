SPECIFICATION Spec
CONSTANTS
  Reqs = {r1, r2, r3}
  Codes = {c1, c2, k}
  Counters = {k}
  Urls = {u1, u2, bad, n}
  Tally = n
  ValidUrls = {u1, u2}
  Users = {ann, bob}
  Jobs <- TwoCodeJobs
  Faults = {"db", "crash"}
  MaxRetries = 2
  CacheTtl = 1
  RateWindow = 1
  Sec = 1
  MaxClock = 1
  CommitBeforeSend = TRUE
  None = None
  c1 = c1 c2 = c2 k = k u1 = u1 u2 = u2 bad = bad n = n ann = ann bob = bob
SYMMETRY ReqSymmetry
INVARIANTS CacheInv AckInv AckedCreateDurable AckedDeleteDurable RowWaitsAreShort RedirectHasOrigin
PROPERTIES OnlyOwnersDelete StoreSpec
