SPECIFICATION Spec
CONSTANTS
  m1 = m1
  m2 = m2
  m3 = m3
  o1 = o1
  q1 = q1
  b1 = b1
  b2 = b2
  p1 = p1
  Runs = {m1, m2, m3}
  Directions <- MCDirections
  Writers = {o1, b1, b2}
  Writes <- MCWrites
  Probes = {p1}
  Origins <- MCOrigins
  Expected = 3
  Strict = TRUE
  NoRevision = NoRevision
  MaxKills = 1
INVARIANTS
  TypeOK
  SchemaMatchesRevision
  IndexesHold
  ReadyMeansArbiters
 
CHECK_DEADLOCK FALSE
