SPECIFICATION Spec
CONSTANTS
  r1 = r1
  r2 = r2
  r3 = r3
  writer = writer
  reader = reader
  NoKey = NoKey
  Requests = {r1, r2, r3}
  Calls <- MCCalls
  ApiKeys <- MCApiKeys
  RateLimitEnabled = TRUE
  Threads = 1
  PoolSize = 1
  MaxOverflow = 1
  ExpectedRev = "head"
  MaxDisruptions = 1
INVARIANT DeniedKnowWhenToRetry
CHECK_DEADLOCK FALSE
