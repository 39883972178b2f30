\* A call whose key is in the table, put there since its lookup or by another workspace.
CONSTANTS
  k1 = k1  w1 = w1  w2 = w2  e1 = e1  e2 = e2  p1 = p1  p2 = p2
  Calls = {c1, c2}
  Keys = {k1}
  Workspaces = {w1, w2}
  Endpoints = {e1, e2}
  Processes = {p1, p2}
  Requests <- MCRequests
  None = None
SPECIFICATION Spec
CHECK_DEADLOCK FALSE
INVARIANT NoKeyClash
