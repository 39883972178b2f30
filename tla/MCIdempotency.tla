--------------------------- MODULE MCIdempotency ---------------------------
(* Three calls with one key: the same request through two processes, and the *)
(* key used again for another endpoint and in another workspace.             *)
EXTENDS IdempotencyMiddleware

CONSTANTS k1, w1, w2, e1, e2, p1, p2

Request(w, e, p) == [key |-> k1, workspace |-> w, endpoint |-> e, process |-> p]

MCRequests ==
  {Request(w1, e1, p1), Request(w1, e1, p2), Request(w1, e2, p1), Request(w2, e1, p1)}

=============================================================================
