SPECIFICATION FairSpec
CONSTANTS
  Queries <- MCQueries
  Ids <- ThreeIds
  Times <- ThreeTimes
  Absent = Absent
INVARIANTS
  TypeOK
  PagesAreSorted
  StableRowsOnce
  MissingRowsWereRaced
PROPERTY WalkEnds
