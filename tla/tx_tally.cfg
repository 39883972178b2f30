\* current_count is the number of approvals: two approvals overlap.
CONSTANTS
  Workers = {w1, w2}
  Requests = {r1}
  Resources = {k1}
  Actors = {u1, u2, u3}
  Descending = {r1}
  None = None
  Plans <- StepPlans
SPECIFICATION Spec
INVARIANT CountIsTally
