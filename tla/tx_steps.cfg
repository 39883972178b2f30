\* Overlapping calls on one request of two or three steps.
CONSTANTS
  Workers = {w1, w2}
  Requests = {r1}
  Resources = {k1}
  Actors = {u1, u2, u3}
  Descending = {r1}
  None = None
  Plans <- StepPlans
SYMMETRY Symmetry
SPECIFICATION Spec
INVARIANTS
  TypeOK
  QuorumSound
  ReviewInOrder
  VerdictJustified
  NoLockCircle
PROPERTIES
  SerialUnlessStale
  ImplementsRecord
