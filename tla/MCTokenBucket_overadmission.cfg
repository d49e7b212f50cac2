SPECIFICATION Spec
CONSTANTS
  r1 = r1
  r2 = r2
  r3 = r3
  r4 = r4
  keyA = keyA
  glob = glob
  Requests = {r1, r2, r3, r4}
  Buckets <- MCBuckets
  PerKey <- OneKey
  Global = glob
  Capacity <- TightCapacity
  Refill <- MCRefill
  TicksPerSecond = 1
  Cost = 1
  MaxClock = 1
  MaxLost = 0
INVARIANT AdmissionRate
SYMMETRY Symmetry
