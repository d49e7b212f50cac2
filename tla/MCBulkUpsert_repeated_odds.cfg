SPECIFICATION Spec
CONSTANTS
  a = a
  b = b
  c = c
  Requests <- MCRequests
  Keys <- MCKeys
  Workloads <- OddsWorkloads
INVARIANT RepeatedKeysAreUpserted
