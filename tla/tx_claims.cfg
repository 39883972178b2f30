\* Two requests for one resource: create, cancel and revive.
CONSTANTS
  Workers = {w1, w2}
  Requests = {r1, r2}
  Resources = {k1}
  Actors = {u1, u2}
  Descending = {}
  None = None
  Plans <- OneStepPlan
SPECIFICATION FairSpec
INVARIANT OneClaimPerResource
PROPERTIES
  ImplementsRecord
  EveryCallEnds
