SPECIFICATION Spec
CONSTANTS
  Queries <- CursorQueries
  Ids <- ThreeIds
  Times <- ThreeTimes
  Absent = Absent
INVARIANT NoRowTwice
