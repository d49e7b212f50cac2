SPECIFICATION FairSpec
CONSTANTS
  r1 = r1
  r2 = r2
  r3 = r3
  r4 = r4
  keyA = keyA
  glob = glob
  Requests = {r1, r2}
  Buckets <- MCBuckets
  PerKey <- OneKey
  Global = glob
  Capacity <- SlowCapacity
  Refill <- MCRefill
  TicksPerSecond = 2
  Cost = 3
  MaxClock = 3
  MaxLost = 1
INVARIANTS
  TypeOK
  AdmissionBound
  ExpiryIsHarmless
  PassersPay
PROPERTIES
  RetryAfterIsExact
  EveryRequestDecided
