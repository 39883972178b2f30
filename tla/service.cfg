\* ApprovalService, two requests competing for one resource.
CONSTANTS
  Requests = {r1, r2}
  Resources = {k1}
  Actors = {u1, u2, u3}
  None = None
  Plans <- ServicePlans
SPECIFICATION Spec
INVARIANTS
  TypeOK
  StepChain
  ApprovedUpToGap
  QuorumExact
  EventsTellState
  CallsAudited
PROPERTY ImplementsLifecycle
\* Nothing is left to do once every request id is used and settled.
CHECK_DEADLOCK FALSE
