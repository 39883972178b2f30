--------------------------- MODULE MCOutboxPoller ---------------------------
(* Two pollers over a few rows.                                             *)
EXTENDS OutboxPoller

ThreeRows == 1 .. 3
TwoRows   == 1 .. 2

\* Rows become visible in the order of their ids: no commit is late, and what
\* overtakes whom is the poller's doing.
CommitsInIdOrder ==
  \A i, j \in Ids : j < i /\ row[i] = "committed" => row[j] # "inserted"

=============================================================================
