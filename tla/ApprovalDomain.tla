--------------------------- MODULE ApprovalDomain ---------------------------
(***************************************************************************)
(* The pure rules of the domain layer: the request state machine and the   *)
(* effect of one decision on the steps of a request                        *)
(* (approval_service/domain).  Steps are a function from step orders to    *)
(* records [required, count, status]; decisions are a set of records       *)
(* [step, actor, action].  Nothing here changes state: the services apply  *)
(* these operators to the rows they have read.                             *)
(***************************************************************************)
EXTENDS Integers, FiniteSets

RequestStatus == {"pending", "in_review", "approved", "rejected", "cancelled"}
StepStatus    == {"pending", "active", "approved", "rejected"}
ActionType    == {"approve", "reject"}

TerminalStatuses == {"approved", "rejected", "cancelled"}

AllowedTransitions ==
  [s \in RequestStatus |->
     IF s = "pending" THEN {"in_review", "cancelled"}
     ELSE IF s = "in_review" THEN TerminalStatuses
     ELSE {}]

\* transition_to raises AlreadyResolved or InvalidStateTransition otherwise.
CanTransition(from, to) ==
  /\ from \notin TerminalStatuses
  /\ to \in AllowedTransitions[from]

-----------------------------------------------------------------------------
(* Steps. *)

\* The orders and quorums of a rule's step definitions, as a rule may hold
\* them: any finite set of positive orders, contiguous or not, or none at all.
\* (Two definitions of one order break the unique constraint on
\* (request, order): the request is never created.)
IsPlan(plan) ==
  /\ DOMAIN plan \subseteq Nat \ {0}
  /\ IsFiniteSet(DOMAIN plan)
  /\ plan \in [DOMAIN plan -> Nat \ {0}]

\* The rows of approval_steps: a table of step records by step order.
StepRecord == [required : Nat \ {0}, count : Nat, status : StepStatus]
IsStepTable(steps) ==
  /\ DOMAIN steps \subseteq Nat \ {0}
  /\ \A o \in DOMAIN steps : steps[o] \in StepRecord

\* Mutant: the requester is counted out of the quorum.
NewStepsDiscounted(plan) ==
  [o \in DOMAIN plan |->
     [required |-> plan[o] - 1, count |-> 0,
      status |-> IF o = 1 THEN "active" ELSE "pending"]]

\* The steps create_request inserts: only the step of order 1 is activated.
NewSteps(plan) ==
  [o \in DOMAIN plan |->
     [required |-> plan[o], count |-> 0,
      status |-> IF o = 1 THEN "active" ELSE "pending"]]

ActiveOrders(steps) == {o \in DOMAIN steps : steps[o].status = "active"}

\* The first of some steps in step order (the relationship is ordered); 0, which
\* is no order, stands for the None of next(..., None).
FirstOf(orders) ==
  IF orders = {} THEN 0 ELSE CHOOSE o \in orders : \A p \in orders : o <= p

ActiveStep(steps)    == FirstOf(ActiveOrders(steps))
NextActive(steps, o) == FirstOf(ActiveOrders(steps) \ {o})

\* ApprovalStep.record_decision past its checks: one rejection is enough, an
\* approval is counted against the quorum.
DecideStep(step, action) ==
  IF action = "reject"
  THEN [step EXCEPT !.status = "rejected"]
  ELSE [required |-> step.required, count |-> step.count + 1,
        status |-> IF step.count + 1 >= step.required THEN "approved" ELSE step.status]

-----------------------------------------------------------------------------
(* One decision on the step of order o. *)

Completes(steps, o, action) == DecideStep(steps[o], action).status = "approved"

\* Mutant: every approval moves the review on, quorum or not.
StepsAfterHasty(steps, o, action) ==
  [p \in DOMAIN steps |->
     IF p = o THEN DecideStep(steps[o], action)
     ELSE IF p = o + 1 /\ action = "approve"
          THEN [steps[p] EXCEPT !.status = "active"]
          ELSE steps[p]]

\* Mutant: the next step is the next in the list, whatever its order.
StepsAfterGap(steps, o, action) ==
  [p \in DOMAIN steps |->
     IF p = o THEN DecideStep(steps[o], action)
     ELSE IF /\ Completes(steps, o, action) /\ o < p
             /\ \A q \in DOMAIN steps : o < q => p <= q
          THEN [steps[p] EXCEPT !.status = "active"]
          ELSE steps[p]]

\* The decided step, and the step of the next order made active when there is one.
StepsAfter(steps, o, action) ==
  [p \in DOMAIN steps |->
     IF p = o THEN DecideStep(steps[o], action)
     ELSE IF p = o + 1 /\ Completes(steps, o, action)
          THEN [steps[p] EXCEPT !.status = "active"]
          ELSE steps[p]]

\* Mutant: the first step with its quorum settles the request.
VerdictHasty(steps, o, action) ==
  IF action = "reject" THEN "rejected"
  ELSE IF Completes(steps, o, action) THEN "approved"
  ELSE "none"

\* The status record_decision moves the request to; "none" when it returns None.
Verdict(steps, o, action) ==
  IF action = "reject" THEN "rejected"
  ELSE IF Completes(steps, o, action) /\ o + 1 \notin DOMAIN steps THEN "approved"
  ELSE "none"

\* Mutant: the step's earlier decisions are not looked at.
CanDecideAgain(status, requester, steps, decisions, actor, action) ==
  LET o == ActiveStep(steps) IN
  /\ actor # requester
  /\ o # 0
  /\ Verdict(steps, o, action) # "none" =>
       CanTransition(status, Verdict(steps, o, action))

\* The checks of ApprovalRequest.record_decision and ApprovalStep.record_decision.
\* The request's own status is looked at only when the decision would change it.
CanDecide(status, requester, steps, decisions, actor, action) ==
  LET o == ActiveStep(steps) IN
  /\ actor # requester
  /\ o # 0
  /\ \A d \in decisions : d.step = o => d.actor # actor
  /\ Verdict(steps, o, action) # "none" =>
       CanTransition(status, Verdict(steps, o, action))

=============================================================================
