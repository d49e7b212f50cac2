SPECIFICATION FairSpec
CONSTANTS
  Requests = {r1, r2, r3}
  k1 = k1
  k2 = k2
  x1 = x1
  x2 = x2
  NoKey = NoKey
  NoPair = NoPair
  Null = Null
  Keys <- MCKeys
  Pairs <- MCPairs
  Payloads <- MCPayloads
INVARIANTS
  TypeOK
  OneBetPerKey
  ResponseMatchesTable
  ReplayOfStoredBet
  NullOnlyInRace
PROPERTIES
  ConflictIsForeign
  KeepsPromise
  EveryRequestAnswered
