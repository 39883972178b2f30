---------------------------- MODULE MCApprovalTx ----------------------------
(* Small instances of ApprovalTx.                                           *)
EXTENDS ApprovalTx, TLC

\* A quorum of two, then a single approval; and a review long enough for a late
\* commit to activate again a step already passed.
StepPlans == {(1 :> 2) @@ (2 :> 1), (1 :> 1) @@ (2 :> 1) @@ (3 :> 1)}

\* One approval settles the request.
OneStepPlan == {1 :> 1}

Symmetry == Permutations(Workers)

=============================================================================
