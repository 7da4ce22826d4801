SPECIFICATION FairSpec
CONSTANTS
  Reqs = {r1, r2, r3}
  Kinds = {"write", "hit", "health"}
  PoolSize = 1
  MaxOverflow = 1
  MaxOutages = 1
  CommitBeforeSend = TRUE
  Idle = Idle
  Closed = Closed
  None = None
INVARIANTS TypeOK EndedHoldsNothing FailureExplained WaitsWithoutConnection SomebodyGoesOn
PROPERTY AllFinish

