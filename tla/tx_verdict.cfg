\* A settled request keeps its status: two decisions overlap.
CONSTANTS
  Workers = {w1, w2}
  Requests = {r1}
  Resources = {k1}
  Actors = {u1, u2, u3}
  Descending = {}
  None = None
  Plans <- OneStepPlan
SPECIFICATION Spec
PROPERTY TerminalImmutable
