SPECIFICATION Spec
CONSTANTS
  Reqs = {r1}
  Bodies <- SomeBodies
  DnsAnswers <- SomeAnswers
  Names <- SomeNames
  CodeLength = 8
  Minute = 1
  FirstInstant <- First
  LastInstant = 100000
  MaxDelay = 2
  MaxClock = 1
  None = None
INVARIANTS TypeOK AcceptedIsPublic RefusedForCause LivesItsTtl ServerErrorsExplained
           PathsKeepTheirHandlers
