--------------------------- MODULE ApprovalService ---------------------------
(***************************************************************************)
(* ApprovalService, one call at a time: each action is one HTTP request's  *)
(* whole transaction (create_request, cancel_request, make_decision), with *)
(* the rows it writes to audit_log and outbox.  A call whose checks fail   *)
(* rolls back and changes nothing, so it is no action here.  What happens  *)
(* when transactions overlap is the subject of module ApprovalTx.          *)
(***************************************************************************)
EXTENDS ApprovalRows, Sequences

VARIABLES
  audit,        \* request -> its audit_log rows, in the order written
  outbox        \* request -> its outbox rows, in the order written

vars == <<status, requester, resource, steps, decisions, audit, outbox>>

-----------------------------------------------------------------------------
(* Audit entries and outbox events. *)

\* The creation carries no status; a status change names the new one (in the
\* code as part of its type, "approval.request." and new_status).
RequestCreated    == [type |-> "request.created"]
StatusChanged(s)  == [type |-> "request.status", status |-> s]
StepActivated(o)  == [type |-> "step.activated", step |-> o]
DecisionMade(d)   == [type |-> "decision.made", decision |-> d]

OutboxEvent ==
  [type : {"request.created"}]
    \cup [type : {"request.status"}, status : RequestStatus]
    \cup [type : {"step.activated"}, step : Nat \ {0}]
    \cup [type : {"decision.made"}, decision : Decision]

AuditCreated(a)   == [action |-> "created", actor |-> a]
AuditCancelled(a) == [action |-> "cancelled", actor |-> a]
AuditDecision(d)  == [action |-> "decision_made", decision |-> d]

AuditAction ==
  {"created", "status_changed", "decision_made", "step_completed", "step_activated",
   "updated", "deactivated", "cancelled"}

\* Whatever the log might hold; the operations write three kinds of entries.
AuditEntry ==
  [action : AuditAction \ {"decision_made"}, actor : Actors]
    \cup [action : {"decision_made"}, decision : Decision]

ActivationEvents(o) == IF o = 0 THEN <<>> ELSE <<StepActivated(o)>>
\* Mutant: only an approval is announced.
VerdictEventsQuiet(v) == IF v = "approved" THEN <<StatusChanged(v)>> ELSE <<>>
VerdictEvents(v)    == IF v = "none" THEN <<>> ELSE <<StatusChanged(v)>>

-----------------------------------------------------------------------------

Init ==
  /\ RowsInit
  /\ audit = [r \in Requests |-> <<>>]
  /\ outbox = [r \in Requests |-> <<>>]

CreateRequest(r, a, k, plan) ==
  /\ CreateRows(r, a, k, plan)
  /\ audit' = [audit EXCEPT ![r] = Append(@, AuditCreated(a))]
  /\ outbox' = [outbox EXCEPT ![r] =
                  @ \o <<RequestCreated>>
                    \o ActivationEvents(ActiveStep(NewSteps(plan)))]

\* Mutant: transition_to is not consulted.
CancelRequestAnyway(r, a) ==
  /\ status[r] # "absent"
  /\ status' = [status EXCEPT ![r] = "cancelled"]
  /\ audit' = [audit EXCEPT ![r] = Append(@, AuditCancelled(a))]
  /\ outbox' = [outbox EXCEPT ![r] = Append(@, StatusChanged("cancelled"))]
  /\ UNCHANGED <<requester, resource, steps, decisions>>

\* Whoever calls: the actor is recorded, never compared with the requester.
CancelRequest(r, a) ==
  /\ CancelRows(r)
  /\ audit' = [audit EXCEPT ![r] = Append(@, AuditCancelled(a))]
  /\ outbox' = [outbox EXCEPT ![r] = Append(@, StatusChanged("cancelled"))]

MakeDecision(r, a, action) ==
  LET o       == ActiveStep(steps[r])
      d       == [step |-> o, actor |-> a, action |-> action]
      verdict == Verdict(steps[r], o, action)
      after   == StepsAfter(steps[r], o, action)
  IN
  /\ DecideRows(r, a, action)
  /\ audit' = [audit EXCEPT ![r] = Append(@, AuditDecision(d))]
  /\ outbox' = [outbox EXCEPT ![r] =
                  @ \o <<DecisionMade(d)>> \o VerdictEvents(verdict)
                    \o ActivationEvents(NextActive(after, o))]

Next ==
  \E r \in Requests, a \in Actors :
    \/ \E k \in Resources, plan \in Plans : CreateRequest(r, a, k, plan)
    \/ CancelRequest(r, a)
    \/ \E action \in ActionType : MakeDecision(r, a, action)

Spec == Init /\ [][Next]_vars

-----------------------------------------------------------------------------
(* Properties. *)

\* Types: the rows, and what is logged about them, are rows the handlers write.
TypeOK ==
  /\ RowsTypeOK
  /\ audit \in [Requests -> Seq(AuditEntry)]
  /\ outbox \in [Requests -> Seq(OutboxEvent)]

\* The last member of a set of indices of a sequence of events.
Latest(S) == CHOOSE i \in S : \A j \in S : j <= i

\* A consumer that reads a request's outbox events in order knows its status,
\* every decision and the step under review: a creation, which comes first, and
\* from then on the request is in review, for no event announces that; one change
\* of status, to the final one; each decision; and the step activated last is the
\* active one, if any is.
EventsTellState ==
  \A r \in Requests : status[r] # "absent" =>
    LET events      == outbox[r]
        Of(type)    == {i \in DOMAIN events : events[i].type = type}
        activations == Of("step.activated")
    IN  /\ Of("request.created") = {1}
        /\ IF status[r] = "in_review" THEN Of("request.status") = {}
           ELSE \E i \in DOMAIN events :
                  Of("request.status") = {i} /\ events[i].status = status[r]
        /\ {events[i].decision : i \in Of("decision.made")} = decisions[r]
        /\ ActiveStep(steps[r]) # 0 =>
             /\ activations # {}
             /\ events[Latest(activations)].step = ActiveStep(steps[r])

\* The audit log records the calls made about a request, each once, and nothing
\* else: first the creation, by the requester, every decision, and the
\* cancellation of a cancelled request.  That the review began, that a step was
\* activated or completed, and that a verdict was reached have no entry.
CallsAudited ==
  \A r \in Requests : status[r] # "absent" =>
    LET entries       == audit[r]
        Of(act)       == {i \in DOMAIN entries : entries[i].action = act}
        cancellations == IF status[r] = "cancelled" THEN 1 ELSE 0
    IN  /\ Of("created") = {1} /\ entries[1].actor = requester[r]
        /\ {entries[i].decision : i \in Of("decision_made")} = decisions[r]
        /\ Cardinality(Of("cancelled")) = cancellations
        /\ Len(entries) = 1 + Cardinality(decisions[r]) + cancellations

\* Decisions are recorded only while the request is in review (DESIGN.md: "Any
\* attempt to mutate a resolved request returns 409 Conflict").
DecisionsOnlyInReview ==
  [][\A r \in Requests : decisions'[r] # decisions[r] => status[r] = "in_review"]_vars

=============================================================================
