-------------------------- MODULE MCApprovalService --------------------------
(* Two requests over two resources; a requester and two other users.        *)
EXTENDS ApprovalService, TLC

\* A quorum of two followed by a single approval; a gap; no first step.
ServicePlans == {(1 :> 2) @@ (2 :> 1), (1 :> 1) @@ (3 :> 1), (2 :> 1)}

=============================================================================
