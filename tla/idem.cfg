\* Three calls with one key, for two workspaces, endpoints and processes.
CONSTANTS
  k1 = k1  w1 = w1  w2 = w2  e1 = e1  e2 = e2  p1 = p1  p2 = p2
  Calls = {c1, c2, c3}
  Keys = {k1}
  Workspaces = {w1, w2}
  Endpoints = {e1, e2}
  Processes = {p1, p2}
  Requests <- MCRequests
  None = None
SPECIFICATION FairSpec
\* Calls stop coming.
CHECK_DEADLOCK FALSE
INVARIANTS
  TypeOK
  KeyHeld
  ReplayFaithful
PROPERTIES
  ImplementsOnce
  EveryCallEnds
