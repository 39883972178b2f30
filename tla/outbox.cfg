\* Two pollers, three rows in batches of two, two attempts each.
CONSTANTS
  Pollers = {p1, p2}
  Ids <- ThreeRows
  Aggregates = {r1}
  None = None
  BatchSize = 2
  MaxRetries = 2
SPECIFICATION FairSpec
INVARIANTS
  TypeOK
  ClaimsExclusive
PROPERTIES
  ImplementsRelay
  EveryRowSettles
