SPECIFICATION Spec
CONSTANTS
  Calls = {r1, r2, r3}
  Users = {ann, bob, eve}
  Active = {ann, bob}
  Override <- Overrides
  Default = 1
  Window = 2
  Latency = 1
  Faults = {"redis", "db"}
  MaxClock = 3
  None = None
  ann = ann bob = bob eve = eve
SYMMETRY CallSymmetry
INVARIANTS TypeOK WindowQuota RefusedOnlyOverQuota RetryAfterReachesNextWindow
