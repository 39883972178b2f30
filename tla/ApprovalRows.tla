---------------------------- MODULE ApprovalRows ----------------------------
(***************************************************************************)
(* The rows of approval_requests, approval_steps and approval_decisions,   *)
(* and what create_request, cancel_request and make_decision do to them    *)
(* when nothing else happens meanwhile.  ApprovalService adds what the     *)
(* same transactions write to audit_log and outbox; ApprovalTx lets the    *)
(* transactions overlap.                                                   *)
(*                                                                         *)
(* A resource stands for the unique index's key: workspace, external       *)
(* resource id and resource type.  A plan stands for the steps of the rule *)
(* that was found or named.                                                *)
(***************************************************************************)
EXTENDS ApprovalDomain

CONSTANTS
  Requests,     \* request ids (uuid4)
  Resources,    \* unique-index keys
  Actors,       \* users: requesters and approvers
  Plans,        \* the step definitions rules hold
  None          \* no requester, no resource: the row does not exist

ASSUME NoneAssumption == None \notin Requests \cup Resources \cup Actors
ASSUME PlansAssumption == \A plan \in Plans : IsPlan(plan)

VARIABLES
  status,       \* request -> status, or "absent" before the INSERT
  requester,    \* request -> requester_id
  resource,     \* request -> the key it occupies in the unique index
  steps,        \* request -> its approval_steps rows
  decisions     \* request -> its approval_decisions rows

db == <<status, requester, resource, steps, decisions>>

-----------------------------------------------------------------------------

RowsInit ==
  /\ status = [r \in Requests |-> "absent"]
  /\ requester = [r \in Requests |-> None]
  /\ resource = [r \in Requests |-> None]
  /\ steps = [r \in Requests |-> <<>>]
  /\ decisions = [r \in Requests |-> {}]

\* Mutant: the index the error message suggests, over the unresolved requests.
OccupyingUnresolved == RequestStatus \ TerminalStatuses

\* The partial unique index holds every request that is not cancelled.
Occupying == RequestStatus \ {"cancelled"}

Occupied(k) == \E q \in Requests : resource[q] = k /\ status[q] \in Occupying

CreateRows(r, a, k, plan) ==
  /\ status[r] = "absent"
  /\ ~Occupied(k)
  /\ status' = [status EXCEPT ![r] = "in_review"]
  /\ requester' = [requester EXCEPT ![r] = a]
  /\ resource' = [resource EXCEPT ![r] = k]
  /\ steps' = [steps EXCEPT ![r] = NewSteps(plan)]
  /\ UNCHANGED decisions

\* The steps keep their statuses.
CancelRows(r) ==
  /\ status[r] # "absent"
  /\ CanTransition(status[r], "cancelled")
  /\ status' = [status EXCEPT ![r] = "cancelled"]
  /\ UNCHANGED <<requester, resource, steps, decisions>>

DecideRows(r, a, action) ==
  LET o       == ActiveStep(steps[r])
      verdict == Verdict(steps[r], o, action)
  IN
  /\ status[r] # "absent"
  /\ CanDecide(status[r], requester[r], steps[r], decisions[r], a, action)
  /\ decisions' = [decisions EXCEPT ![r] =
                     @ \cup {[step |-> o, actor |-> a, action |-> action]}]
  /\ steps' = [steps EXCEPT ![r] = StepsAfter(steps[r], o, action)]
  /\ status' = [status EXCEPT ![r] = IF verdict = "none" THEN @ ELSE verdict]
  /\ UNCHANGED <<requester, resource>>

RowsNext ==
  \E r \in Requests :
    \/ CancelRows(r)
    \/ \E a \in Actors :
         \/ \E k \in Resources, plan \in Plans : CreateRows(r, a, k, plan)
         \/ \E action \in ActionType : DecideRows(r, a, action)

\* What the tables hold when calls are served one at a time.
RowsSpec == RowsInit /\ [][RowsNext]_db

-----------------------------------------------------------------------------
(* Properties. *)

Decision == [step : Nat, actor : Actors, action : ActionType]

\* Types: every row has a legal status, every step and decision is a row the
\* handlers write, every decision names a step of its request, which exists.
RowsTypeOK ==
  /\ status \in [Requests -> RequestStatus \cup {"absent"}]
  /\ requester \in [Requests -> Actors \cup {None}]
  /\ resource \in [Requests -> Resources \cup {None}]
  /\ steps = [r \in Requests |-> steps[r]]
  /\ \A r \in Requests : IsStepTable(steps[r])
  /\ decisions \in [Requests -> SUBSET Decision]
  /\ \A r \in Requests :
       /\ \A d \in decisions[r] : d.step \in DOMAIN steps[r]
       /\ status[r] = "absent" => decisions[r] = {}

\* The review of request r has reached the step of order at (0: it has none).
ReviewAt(r, at) ==
  /\ 1 .. at \subseteq DOMAIN steps[r]
  /\ \A o \in DOMAIN steps[r] :
       /\ o < at => steps[r][o].status = "approved"
       /\ o > at => steps[r][o].status = "pending"
  /\ at = 0 => 1 \notin DOMAIN steps[r] /\ status[r] \in {"in_review", "cancelled"}
  /\ at # 0 =>
       \/ status[r] \in {"in_review", "cancelled"} /\ steps[r][at].status = "active"
       \/ status[r] = "rejected" /\ steps[r][at].status = "rejected"
       \/ /\ status[r] = "approved" /\ steps[r][at].status = "approved"
          /\ at + 1 \notin DOMAIN steps[r]

\* The review walks the steps 1, 2, ... in order and never skips, repeats or
\* leaves one: behind the step under review everything is approved, ahead of it
\* everything is untouched, and the step itself says what the request's status
\* says (a cancelled request keeps its step active).  It never jumps a gap in the
\* orders: the request is approved in front of it.
StepChain ==
  \A r \in Requests : status[r] # "absent" =>
    \E at \in {0} \cup DOMAIN steps[r] : ReviewAt(r, at)

\* The orders 1, 2, ... up to the first that is missing.
Chain(orders) == {o \in orders : 1 .. o \subseteq orders}

\* A request is approved exactly when all its steps up to the first gap in their
\* orders are, which without a gap is the documented rule that all are.  Behind
\* a gap the steps are untouched, and nothing will ever touch them.
ApprovedUpToGap ==
  \A r \in Requests : status[r] # "absent" =>
    LET chain == Chain(DOMAIN steps[r]) IN
    /\ status[r] = "approved" <=>
         chain # {} /\ \A o \in chain : steps[r][o].status = "approved"
    /\ \A o \in DOMAIN steps[r] \ chain : steps[r][o].status = "pending"

Approvers(r, o) ==
  {a \in Actors : [step |-> o, actor |-> a, action |-> "approve"] \in decisions[r]}

IsRejected(r, o) == \E d \in decisions[r] : d.step = o /\ d.action = "reject"

\* current_count is the number of users who approved the step, none of them the
\* requester and nobody deciding twice; a step is approved exactly when they
\* reach required_count and rejected exactly when somebody rejected it.
QuorumExact ==
  \A r \in Requests :
    /\ \A d \in decisions[r] : d.actor # requester[r]
    /\ \A d, e \in decisions[r] : d.step = e.step /\ d.actor = e.actor => d = e
    /\ \A o \in DOMAIN steps[r] :
         LET step == steps[r][o] IN
         /\ step.count = Cardinality(Approvers(r, o))
         /\ step.count <= step.required
         /\ step.status = "approved" <=> step.count = step.required
         /\ step.status = "rejected" <=> IsRejected(r, o)
         /\ step.status = "pending" => step.count = 0

\* A resource is claimed by the request that occupies its key.
Claim ==
  [k \in Resources |->
     IF Occupied(k)
     THEN CHOOSE q \in Requests : resource[q] = k /\ status[q] \in Occupying
     ELSE None]

\* A resource never has two requests that are not cancelled, not even when a
\* decision revives a request cancelled under its feet.
OneClaimPerResource ==
  \A q, r \in Requests :
    status[q] \in Occupying /\ status[r] \in Occupying /\ resource[q] = resource[r] => q = r

\* Served one at a time, the calls implement RequestLifecycle: a resource is
\* claimed by the one request that occupies its key in the unique index.
Lifecycle == INSTANCE RequestLifecycle WITH phase <- status, claim <- Claim
ImplementsLifecycle == Lifecycle!LSpec

=============================================================================
