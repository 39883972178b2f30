\* Decisions are recorded only in review: a decision follows a cancellation.
CONSTANTS
  Requests = {r1}
  Resources = {k1}
  Actors = {u1, u2, u3}
  None = None
  Plans <- ServicePlans
SPECIFICATION Spec
PROPERTY DecisionsOnlyInReview
CHECK_DEADLOCK FALSE
