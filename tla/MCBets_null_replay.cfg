SPECIFICATION Spec
CONSTANTS
  Requests = {r1, r2, r3}
  k1 = k1
  k2 = k2
  x1 = x1
  x2 = x2
  NoKey = NoKey
  NoPair = NoPair
  Null = Null
  Keys <- MCKeys
  Pairs <- MCPairs
  Payloads <- MCNewPayloads
INVARIANT ReplayReturnsBet
