\* Overlapping updates, deactivations and requests on one or two rules.
CONSTANTS
  p1 = p1  p2 = p2
  Workers = {w1, w2}
  Rules = {1, 2}
  Plans = {p1, p2}
  None = None
  MaxId = 3
SPECIFICATION FairSpec
INVARIANTS
  TypeOK
  EventOrder
  AuditTellsRow
  PlansOnRecord
PROPERTIES
  ColumnsAsAsked
  EveryCallEnds
