SPECIFICATION FairSpec
CONSTANTS
  a = a
  b = b
  c = c
  Requests <- MCRequests
  Keys <- MCKeys
  Workloads <- MCWorkloads
INVARIANTS
  TypeOK
  BatchesAreAtomic
  RepeatedPredictionsAreUpserted
  OrderedBatchesNeverDeadlock
PROPERTIES
  KeepsPromise
  EveryBatchAnswered
