-------------------------- MODULE ApprovalRowsProofs --------------------------
(***************************************************************************)
(* The rows of ApprovalRows for every set of requests, resources, users    *)
(* and plans: the operators of the domain layer, type correctness, the     *)
(* order of the review, the exactness of the quorum count, and that the    *)
(* calls, served one at a time, implement RequestLifecycle.                *)
(***************************************************************************)
EXTENDS ApprovalRows, FiniteSetTheorems, WellFoundedInduction, TLAPS

-----------------------------------------------------------------------------
(* The operators of the domain layer. *)

\* next(..., None) over ordered steps: 0 for no step, else the least order.
LEMMA FirstOfIsLeast ==
  ASSUME NEW orders \in SUBSET (Nat \ {0})
  PROVE  /\ orders = {} => FirstOf(orders) = 0
         /\ orders # {} => /\ FirstOf(orders) \in orders
                           /\ \A p \in orders : FirstOf(orders) <= p
<1>1. orders = {} => FirstOf(orders) = 0
  BY DEF FirstOf
<1>2. ASSUME orders # {}
      PROVE  /\ FirstOf(orders) \in orders
             /\ \A p \in orders : FirstOf(orders) <= p
  <2> DEFINE Less == {pair \in Nat \X Nat : pair[1] < pair[2]}
  <2>1. IsWellFoundedOn(Less, Nat)
    BY NatLessThanWellFounded, Zenon DEF OpToRel
  <2>2. orders \subseteq Nat
    OBVIOUS
  <2>3. PICK o \in orders : \A p \in orders : ~ (<<p, o>> \in Less)
    <3> HIDE DEF Less
    <3> QED  BY <1>2, <2>1, <2>2, WFMin
  <2>4. ASSUME NEW p \in orders PROVE o <= p
    <3>1. <<p, o>> \notin Less
      BY <2>3
    <3>2. p \in Nat /\ o \in Nat
      OBVIOUS
    <3>3. QED  BY <3>1, <3>2
  <2>5. QED
    BY <1>2, <2>4 DEF FirstOf
<1>3. QED
  BY <1>1, <1>2

\* _get_active_step finds a step exactly when one is active, and returns one.
LEMMA ActiveStepIsActive ==
  ASSUME NEW rows, IsStepTable(rows)
  PROVE  /\ ActiveStep(rows) \in Nat
         /\ ActiveStep(rows) = 0 <=> ActiveOrders(rows) = {}
         /\ ActiveStep(rows) # 0 =>
              /\ ActiveStep(rows) \in DOMAIN rows
              /\ rows[ActiveStep(rows)].status = "active"
<1>1. ActiveOrders(rows) \in SUBSET (Nat \ {0})
  BY DEF ActiveOrders, IsStepTable
<1>2. QED
  BY <1>1, FirstOfIsLeast DEF ActiveStep, ActiveOrders

\* The step whose activation is announced is one of the other active steps.
LEMMA NextActiveIsActive ==
  ASSUME NEW rows, NEW o, IsStepTable(rows)
  PROVE  /\ NextActive(rows, o) \in Nat
         /\ NextActive(rows, o) # 0 =>
              /\ NextActive(rows, o) \in DOMAIN rows
              /\ NextActive(rows, o) # o
              /\ rows[NextActive(rows, o)].status = "active"
<1>1. ActiveOrders(rows) \ {o} \in SUBSET (Nat \ {0})
  BY DEF ActiveOrders, IsStepTable
<1>2. QED
  BY <1>1, FirstOfIsLeast DEF NextActive, ActiveOrders

\* A rule's step definitions give a well-typed table with nothing decided.
LEMMA NewStepsTable ==
  ASSUME NEW plan, IsPlan(plan)
  PROVE  /\ IsStepTable(NewSteps(plan))
         /\ DOMAIN NewSteps(plan) = DOMAIN plan
         /\ \A o \in DOMAIN plan :
              /\ NewSteps(plan)[o].required = plan[o]
              /\ NewSteps(plan)[o].count = 0
              /\ NewSteps(plan)[o].status = IF o = 1 THEN "active" ELSE "pending"
BY DEF IsPlan, IsStepTable, NewSteps, StepRecord, StepStatus

\* What ApprovalStep.record_decision does to a step.
LEMMA DecideStepEffect ==
  ASSUME NEW step \in StepRecord, NEW action \in ActionType
  PROVE  /\ DecideStep(step, action) \in StepRecord
         /\ DecideStep(step, action).required = step.required
         /\ action = "reject" =>
              /\ DecideStep(step, action).count = step.count
              /\ DecideStep(step, action).status = "rejected"
         /\ action = "approve" =>
              /\ DecideStep(step, action).count = step.count + 1
              /\ DecideStep(step, action).status =
                   IF step.count + 1 >= step.required THEN "approved" ELSE step.status
<1>1. CASE action = "reject"
  BY <1>1 DEF DecideStep, StepRecord, StepStatus
<1>2. CASE action = "approve"
  <2>1. DecideStep(step, action) =
          [required |-> step.required, count |-> step.count + 1,
           status |-> IF step.count + 1 >= step.required THEN "approved" ELSE step.status]
    BY <1>2 DEF DecideStep
  <2>2. QED
    BY <1>2, <2>1 DEF StepRecord, StepStatus
<1>3. QED
  BY <1>1, <1>2 DEF ActionType

\* A decision touches its own step and, when that is complete, the next one.
LEMMA StepsAfterEffect ==
  ASSUME NEW rows, IsStepTable(rows), NEW o \in DOMAIN rows, NEW action \in ActionType
  PROVE  /\ IsStepTable(StepsAfter(rows, o, action))
         /\ DOMAIN StepsAfter(rows, o, action) = DOMAIN rows
         /\ StepsAfter(rows, o, action)[o] = DecideStep(rows[o], action)
         /\ \A p \in DOMAIN rows \ {o} :
              LET new == StepsAfter(rows, o, action)[p] IN
              /\ new.required = rows[p].required
              /\ new.count = rows[p].count
              /\ new.status = IF p = o + 1 /\ Completes(rows, o, action)
                              THEN "active" ELSE rows[p].status
<1>1. \A p \in DOMAIN rows : rows[p] \in StepRecord
  BY DEF IsStepTable
<1>2. DecideStep(rows[o], action) \in StepRecord
  BY <1>1, DecideStepEffect
<1>3. DOMAIN StepsAfter(rows, o, action) = DOMAIN rows
  BY DEF StepsAfter
<1>4. StepsAfter(rows, o, action)[o] = DecideStep(rows[o], action)
  BY DEF StepsAfter
<1>5. ASSUME NEW p \in DOMAIN rows \ {o}
      PROVE  LET new == StepsAfter(rows, o, action)[p] IN
             /\ new \in StepRecord
             /\ new.required = rows[p].required
             /\ new.count = rows[p].count
             /\ new.status = IF p = o + 1 /\ Completes(rows, o, action)
                             THEN "active" ELSE rows[p].status
  BY <1>1 DEF StepsAfter, StepRecord, StepStatus
<1>6. IsStepTable(StepsAfter(rows, o, action))
  BY <1>2, <1>3, <1>4, <1>5 DEF IsStepTable
<1>7. QED
  BY <1>3, <1>4, <1>5, <1>6

\* record_decision asks for a terminal status or for none.
LEMMA VerdictType ==
  ASSUME NEW rows, NEW o, NEW action
  PROVE  /\ Verdict(rows, o, action) \in {"approved", "rejected", "none"}
         /\ Verdict(rows, o, action) # "none" =>
              Verdict(rows, o, action) \in TerminalStatuses
BY DEF Verdict, TerminalStatuses

-----------------------------------------------------------------------------
(* Types. *)

\* A decision that passes the checks is on an active step of its request.
LEMMA DecidedStepFacts ==
  ASSUME RowsTypeOK, NEW r \in Requests, NEW a \in Actors, NEW action \in ActionType,
         CanDecide(status[r], requester[r], steps[r], decisions[r], a, action)
  PROVE  LET o == ActiveStep(steps[r]) IN
         /\ o \in DOMAIN steps[r]
         /\ o \in Nat \ {0}
         /\ steps[r][o] \in StepRecord
         /\ steps[r][o].status = "active"
         /\ [step |-> o, actor |-> a, action |-> action] \in Decision
<1>1. IsStepTable(steps[r])
  BY DEF RowsTypeOK
<1>2. ActiveStep(steps[r]) # 0
  BY DEF CanDecide
<1>3. ActiveStep(steps[r]) \in DOMAIN steps[r] /\ steps[r][ActiveStep(steps[r])].status = "active"
  BY <1>1, <1>2, ActiveStepIsActive
<1>4. QED
  BY <1>1, <1>3 DEF IsStepTable, Decision

\* create_request writes well-typed rows, and no decision.
LEMMA CreateRowsType ==
  ASSUME RowsTypeOK, NEW r \in Requests, NEW a \in Actors, NEW k \in Resources,
         NEW plan \in Plans, CreateRows(r, a, k, plan)
  PROVE  RowsTypeOK'
<1>1. IsStepTable(NewSteps(plan)) /\ DOMAIN NewSteps(plan) = DOMAIN plan
  BY PlansAssumption, NewStepsTable
<1>2. steps' = [q \in Requests |-> steps'[q]] /\ \A q \in Requests : IsStepTable(steps'[q])
  BY <1>1 DEF CreateRows, RowsTypeOK
<1>3. status' \in [Requests -> RequestStatus \cup {"absent"}]
  BY DEF CreateRows, RowsTypeOK, RequestStatus
<1>4. /\ requester' \in [Requests -> Actors \cup {None}]
      /\ resource' \in [Requests -> Resources \cup {None}]
  BY DEF CreateRows, RowsTypeOK
<1>5. \A q \in Requests : /\ \A d \in decisions'[q] : d.step \in DOMAIN steps'[q]
                          /\ status'[q] = "absent" => decisions'[q] = {}
  <2>1. ASSUME NEW q \in Requests, q # r
        PROVE  /\ \A d \in decisions'[q] : d.step \in DOMAIN steps'[q]
               /\ status'[q] = "absent" => decisions'[q] = {}
    BY <2>1 DEF CreateRows, RowsTypeOK
  <2>2. decisions'[r] = {}
    BY DEF CreateRows, RowsTypeOK
  <2>3. QED  BY <2>1, <2>2
<1>6. decisions' \in [Requests -> SUBSET Decision]
  BY DEF CreateRows, RowsTypeOK
<1>7. QED
  BY <1>2, <1>3, <1>4, <1>5, <1>6 DEF RowsTypeOK

\* cancel_request keeps every row well typed.
LEMMA CancelRowsType ==
  ASSUME RowsTypeOK, NEW r \in Requests, CancelRows(r)
  PROVE  RowsTypeOK'
<1>1. status' \in [Requests -> RequestStatus \cup {"absent"}]
  BY DEF CancelRows, RowsTypeOK, RequestStatus
<1>2. \A q \in Requests : status'[q] = "absent" => status[q] = "absent"
  BY DEF CancelRows, RowsTypeOK
<1>3. QED
  BY <1>1, <1>2 DEF CancelRows, RowsTypeOK

\* make_decision writes well-typed rows, and its decision names a step there is.
LEMMA DecideRowsType ==
  ASSUME RowsTypeOK, NEW r \in Requests, NEW a \in Actors, NEW action \in ActionType,
         DecideRows(r, a, action)
  PROVE  RowsTypeOK'
<1> DEFINE o       == ActiveStep(steps[r])
           d       == [step |-> o, actor |-> a, action |-> action]
           verdict == Verdict(steps[r], o, action)
           after   == StepsAfter(steps[r], o, action)
<1>1. o \in DOMAIN steps[r] /\ d \in Decision /\ IsStepTable(steps[r])
  BY DecidedStepFacts DEF DecideRows, RowsTypeOK
<1>2. IsStepTable(after) /\ DOMAIN after = DOMAIN steps[r]
  BY <1>1, StepsAfterEffect
<1>3. verdict \in {"approved", "rejected", "none"}
  BY VerdictType
<1>4. /\ decisions' = [decisions EXCEPT ![r] = @ \cup {d}]
      /\ steps' = [steps EXCEPT ![r] = after]
      /\ status' = [status EXCEPT ![r] = IF verdict = "none" THEN @ ELSE verdict]
      /\ status[r] # "absent"
      /\ UNCHANGED <<requester, resource>>
  BY DEF DecideRows
<1> HIDE DEF o, d, verdict, after
<1>5. status' \in [Requests -> RequestStatus \cup {"absent"}]
  BY <1>3, <1>4 DEF RowsTypeOK, RequestStatus
<1>6. steps' = [q \in Requests |-> steps'[q]] /\ \A q \in Requests : IsStepTable(steps'[q])
  BY <1>2, <1>4 DEF RowsTypeOK
<1>7. decisions' \in [Requests -> SUBSET Decision]
  BY <1>1, <1>4 DEF RowsTypeOK
<1>8. ASSUME NEW q \in Requests
      PROVE  /\ \A e \in decisions'[q] : e.step \in DOMAIN steps'[q]
             /\ status'[q] = "absent" => decisions'[q] = {}
  <2>1. CASE q # r
    BY <2>1, <1>4 DEF RowsTypeOK
  <2>2. CASE q = r
    <3>1. \A e \in decisions[r] \cup {d} : e.step \in DOMAIN steps[r]
      BY <1>1 DEF RowsTypeOK, d
    <3>2. status'[r] # "absent"
      BY <1>3, <1>4 DEF RowsTypeOK
    <3>3. QED
      BY <2>2, <3>1, <3>2, <1>2, <1>4 DEF RowsTypeOK
  <2>3. QED  BY <2>1, <2>2
<1>9. QED
  BY <1>4, <1>5, <1>6, <1>7, <1>8 DEF RowsTypeOK

\* Every reachable state of the rows is well typed.
LEMMA RowsAreTyped == RowsSpec => []RowsTypeOK
<1>1. RowsInit => RowsTypeOK
  BY DEF RowsInit, RowsTypeOK, IsStepTable
<1>2. RowsTypeOK /\ [RowsNext]_db => RowsTypeOK'
  <2> SUFFICES ASSUME RowsTypeOK, [RowsNext]_db PROVE RowsTypeOK'
    OBVIOUS
  <2>1. CASE UNCHANGED db
    BY <2>1 DEF db, RowsTypeOK
  <2>2. QED
    BY <2>1, CreateRowsType, CancelRowsType, DecideRowsType DEF RowsNext
<1>3. QED
  BY <1>1, <1>2, PTL DEF RowsSpec


-----------------------------------------------------------------------------
(* The order of the review. *)

\* The step a decision lands on is the one the review has reached.
LEMMA ActiveIsUnderReview ==
  ASSUME RowsTypeOK, NEW r \in Requests, NEW at \in {0} \cup DOMAIN steps[r],
         ReviewAt(r, at), ActiveStep(steps[r]) # 0
  PROVE  /\ at = ActiveStep(steps[r])
         /\ status[r] \in {"in_review", "cancelled"}
<1>1. IsStepTable(steps[r])
  BY DEF RowsTypeOK
<1>2. /\ ActiveStep(steps[r]) \in DOMAIN steps[r]
      /\ steps[r][ActiveStep(steps[r])].status = "active"
  BY <1>1, ActiveStepIsActive
<1>3. DOMAIN steps[r] \subseteq Nat \ {0}
  BY <1>1 DEF IsStepTable
<1>4. at = ActiveStep(steps[r])
  BY <1>2, <1>3 DEF ReviewAt
<1>5. QED
  BY <1>2, <1>3, <1>4 DEF ReviewAt

\* A created request starts its review at step 1, or has none to start at.
LEMMA CreateRowsChain ==
  ASSUME RowsTypeOK, StepChain, NEW r \in Requests, NEW a \in Actors, NEW k \in Resources,
         NEW plan \in Plans, CreateRows(r, a, k, plan)
  PROVE  StepChain'
<1>1. /\ DOMAIN NewSteps(plan) = DOMAIN plan
      /\ DOMAIN plan \subseteq Nat \ {0}
      /\ \A o \in DOMAIN plan :
           NewSteps(plan)[o].status = IF o = 1 THEN "active" ELSE "pending"
  BY PlansAssumption, NewStepsTable DEF IsPlan
<1>2. steps'[r] = NewSteps(plan) /\ status'[r] = "in_review"
  BY DEF CreateRows, RowsTypeOK
<1>3. \E at \in {0} \cup DOMAIN steps'[r] : ReviewAt(r, at)'
  <2>1. CASE 1 \in DOMAIN plan
    <3>1. ReviewAt(r, 1)'
      BY <1>1, <1>2, <2>1 DEF ReviewAt
    <3>2. QED  BY <1>1, <1>2, <2>1, <3>1
  <2>2. CASE 1 \notin DOMAIN plan
    <3>1. ReviewAt(r, 0)'
      BY <1>1, <1>2, <2>2 DEF ReviewAt
    <3>2. QED  BY <3>1
  <2>3. QED  BY <2>1, <2>2
<1>4. ASSUME NEW q \in Requests, q # r, status'[q] # "absent"
      PROVE  \E at \in {0} \cup DOMAIN steps'[q] : ReviewAt(q, at)'
  <2>1. status'[q] = status[q] /\ steps'[q] = steps[q]
    BY <1>4 DEF CreateRows, RowsTypeOK
  <2>2. PICK at \in {0} \cup DOMAIN steps[q] : ReviewAt(q, at)
    BY <1>4, <2>1 DEF StepChain
  <2>3. ReviewAt(q, at)'
    BY <2>1, <2>2 DEF ReviewAt
  <2>4. QED
    BY <2>1, <2>2, <2>3
<1>5. QED
  BY <1>3, <1>4 DEF StepChain

\* cancel_request leaves the steps where the review had reached.
LEMMA CancelRowsChain ==
  ASSUME RowsTypeOK, StepChain, NEW r \in Requests, CancelRows(r)
  PROVE  StepChain'
<1>1. UNCHANGED steps /\ status' = [status EXCEPT ![r] = "cancelled"]
  BY DEF CancelRows
<1>2. status[r] = "in_review"
  <2>1. PICK at \in {0} \cup DOMAIN steps[r] : ReviewAt(r, at)
    BY DEF CancelRows, StepChain
  <2>2. status[r] \notin {"approved", "rejected", "cancelled"}
    BY DEF CancelRows, CanTransition, TerminalStatuses
  <2>3. QED
    BY <2>1, <2>2 DEF ReviewAt
<1>3. ASSUME NEW q \in Requests, status'[q] # "absent"
      PROVE  \E at \in {0} \cup DOMAIN steps'[q] : ReviewAt(q, at)'
  <2>1. PICK at \in {0} \cup DOMAIN steps[q] : ReviewAt(q, at)
    BY <1>1, <1>2, <1>3 DEF StepChain, RowsTypeOK
  <2>2. ReviewAt(q, at)'
    BY <1>1, <1>2, <2>1 DEF ReviewAt, RowsTypeOK
  <2>3. QED
    BY <1>1, <2>1, <2>2
<1>4. QED
  BY <1>3 DEF StepChain

\* make_decision stays on its step, ends the review there, or moves it to the next.
LEMMA DecideRowsChain ==
  ASSUME RowsTypeOK, StepChain, NEW r \in Requests, NEW a \in Actors,
         NEW action \in ActionType, DecideRows(r, a, action)
  PROVE  StepChain'
<1> DEFINE o       == ActiveStep(steps[r])
           verdict == Verdict(steps[r], o, action)
           after   == StepsAfter(steps[r], o, action)
<1>1. /\ o \in DOMAIN steps[r] /\ o \in Nat \ {0}
      /\ steps[r][o] \in StepRecord /\ steps[r][o].status = "active"
      /\ IsStepTable(steps[r])
  BY DecidedStepFacts DEF DecideRows, RowsTypeOK
<1>2. PICK at \in {0} \cup DOMAIN steps[r] : ReviewAt(r, at)
  BY DEF DecideRows, StepChain
<1>3. at = o /\ status[r] \in {"in_review", "cancelled"}
  BY <1>1, <1>2, ActiveIsUnderReview
<1>4. /\ steps' = [steps EXCEPT ![r] = after]
      /\ status' = [status EXCEPT ![r] = IF verdict = "none" THEN @ ELSE verdict]
  BY DEF DecideRows
<1>5. /\ DOMAIN after = DOMAIN steps[r]
      /\ after[o] = DecideStep(steps[r][o], action)
      /\ \A p \in DOMAIN steps[r] \ {o} :
           after[p].status = IF p = o + 1 /\ Completes(steps[r], o, action)
                             THEN "active" ELSE steps[r][p].status
  BY <1>1, StepsAfterEffect
<1>6. /\ action = "reject" => after[o].status = "rejected"
      /\ action = "approve" => after[o].status \in {"active", "approved"}
      /\ Completes(steps[r], o, action) <=> after[o].status = "approved"
  BY <1>1, <1>5, DecideStepEffect DEF Completes
<1>7. verdict = IF action = "reject" THEN "rejected"
                ELSE IF after[o].status = "approved" /\ o + 1 \notin DOMAIN steps[r]
                THEN "approved" ELSE "none"
  BY <1>6 DEF Verdict
<1>8. steps'[r] = after /\ status'[r] = IF verdict = "none" THEN status[r] ELSE verdict
  BY <1>4 DEF RowsTypeOK
<1>9. /\ 1 .. o \subseteq DOMAIN steps[r]
      /\ \A p \in DOMAIN steps[r] : /\ p < o => steps[r][p].status = "approved"
                                    /\ p > o => steps[r][p].status = "pending"
      /\ DOMAIN steps[r] \subseteq Nat \ {0}
  BY <1>1, <1>2, <1>3 DEF ReviewAt, IsStepTable
<1> HIDE DEF o, verdict, after
<1>10. \E new \in {0} \cup DOMAIN steps'[r] : ReviewAt(r, new)'
  <2>1. CASE action = "reject" \/ after[o].status = "active"
    <3>1. ReviewAt(r, at)'
      BY <2>1, <1>1, <1>3, <1>5, <1>6, <1>7, <1>8, <1>9 DEF ReviewAt
    <3>2. QED  BY <3>1, <1>1, <1>3, <1>5, <1>8
  <2>2. CASE action = "approve" /\ after[o].status = "approved" /\ o + 1 \notin DOMAIN steps[r]
    <3>1. ReviewAt(r, at)'
      BY <2>2, <1>1, <1>3, <1>5, <1>6, <1>7, <1>8, <1>9 DEF ReviewAt
    <3>2. QED  BY <3>1, <1>1, <1>3, <1>5, <1>8
  <2>3. CASE action = "approve" /\ after[o].status = "approved" /\ o + 1 \in DOMAIN steps[r]
    <3>1. ReviewAt(r, at + 1)'
      BY <2>3, <1>1, <1>3, <1>5, <1>6, <1>7, <1>8, <1>9 DEF ReviewAt
    <3>2. QED  BY <2>3, <3>1, <1>3, <1>5, <1>8
  <2>4. QED
    BY <2>1, <2>2, <2>3, <1>6 DEF ActionType
<1>11. ASSUME NEW q \in Requests, q # r, status'[q] # "absent"
       PROVE  \E new \in {0} \cup DOMAIN steps'[q] : ReviewAt(q, new)'
  <2>1. status'[q] = status[q] /\ steps'[q] = steps[q]
    BY <1>4, <1>11 DEF RowsTypeOK
  <2>2. PICK new \in {0} \cup DOMAIN steps[q] : ReviewAt(q, new)
    BY <1>11, <2>1 DEF StepChain
  <2>3. ReviewAt(q, new)'
    BY <2>1, <2>2 DEF ReviewAt
  <2>4. QED
    BY <2>1, <2>2, <2>3
<1>12. QED
  BY <1>10, <1>11 DEF StepChain

\* The review of every request walks its steps in order and agrees with the
\* request's status.
THEOREM RowsFollowChain == RowsSpec => []StepChain
<1>1. RowsInit => StepChain
  BY DEF RowsInit, StepChain
<1>2. RowsTypeOK /\ StepChain /\ [RowsNext]_db => StepChain'
  <2> SUFFICES ASSUME RowsTypeOK, StepChain, [RowsNext]_db PROVE StepChain'
    OBVIOUS
  <2>1. ASSUME NEW r \in Requests, NEW a \in Actors, NEW k \in Resources,
               NEW plan \in Plans, CreateRows(r, a, k, plan)
        PROVE  StepChain'
    BY <2>1, CreateRowsChain
  <2>2. ASSUME NEW r \in Requests, CancelRows(r)
        PROVE  StepChain'
    BY <2>2, CancelRowsChain
  <2>3. ASSUME NEW r \in Requests, NEW a \in Actors, NEW action \in ActionType,
               DecideRows(r, a, action)
        PROVE  StepChain'
    BY <2>3, DecideRowsChain
  <2>4. CASE UNCHANGED db
    BY <2>4 DEF db, StepChain, ReviewAt
  <2>5. QED
    BY <2>1, <2>2, <2>3, <2>4 DEF RowsNext
<1>3. QED
  BY <1>1, <1>2, RowsAreTyped, PTL DEF RowsSpec

\* Where a review has got to says which steps are approved.
LEMMA ReviewApproves ==
  ASSUME RowsTypeOK, NEW r \in Requests, NEW at \in {0} \cup DOMAIN steps[r], ReviewAt(r, at)
  PROVE  LET chain == Chain(DOMAIN steps[r]) IN
         /\ status[r] = "approved" <=>
              chain # {} /\ \A o \in chain : steps[r][o].status = "approved"
         /\ \A o \in DOMAIN steps[r] \ chain : steps[r][o].status = "pending"
<1>1. /\ DOMAIN steps[r] \subseteq Nat \ {0} /\ at \in Nat
      /\ at # 0 => at \in DOMAIN steps[r]
  BY DEF RowsTypeOK, IsStepTable
<1>2. PICK chain : chain = Chain(DOMAIN steps[r])
  OBVIOUS
<1>3. /\ chain \subseteq DOMAIN steps[r]
      /\ \A o \in chain : 1 .. o \subseteq DOMAIN steps[r]
      /\ \A o \in DOMAIN steps[r] \ chain : ~(1 .. o \subseteq DOMAIN steps[r])
      /\ at # 0 => at \in chain
  BY <1>1, <1>2 DEF Chain, ReviewAt
<1>4. \A o \in DOMAIN steps[r] \ chain : steps[r][o].status = "pending"
  <2> SUFFICES ASSUME NEW o \in DOMAIN steps[r], o \notin chain
               PROVE  o > at
    BY <1>1 DEF ReviewAt
  <2>1. CASE o <= at
    <3>1. 1 .. o \subseteq 1 .. at
      BY <1>1, <2>1
    <3>2. QED
      BY <1>3, <3>1 DEF ReviewAt
  <2>2. QED
    BY <1>1, <2>1
<1>5. CASE at = 0
  <2>1. chain = {}
    <3> SUFFICES ASSUME NEW o \in chain PROVE FALSE
      OBVIOUS
    <3>1. o \in Nat \ {0} /\ 1 \in 1 .. o
      BY <1>1, <1>3
    <3>2. QED
      BY <1>3, <1>5, <3>1 DEF ReviewAt
  <2>2. status[r] # "approved"
    BY <1>5 DEF ReviewAt
  <2>3. QED
    BY <1>2, <1>4, <2>1, <2>2
<1>6. CASE at # 0
  <2>1. status[r] = "approved" <=> steps[r][at].status = "approved"
    BY <1>6 DEF ReviewAt
  <2>2. ASSUME status[r] = "approved", NEW o \in chain
        PROVE  steps[r][o].status = "approved"
    <3>1. o \in Nat \ {0} /\ o \in DOMAIN steps[r] /\ at + 1 \notin DOMAIN steps[r]
      BY <1>1, <1>3, <1>6, <2>2 DEF ReviewAt
    <3>2. at + 1 \notin 1 .. o
      BY <1>3, <3>1
    <3>3. o <= at
      BY <1>1, <3>1, <3>2
    <3>4. QED
      BY <1>1, <2>1, <2>2, <3>1, <3>3 DEF ReviewAt
  <2>3. QED
    BY <1>2, <1>3, <1>4, <1>6, <2>1, <2>2
<1>7. QED
  BY <1>5, <1>6

\* A request is approved exactly when its steps up to the first gap in their
\* orders are; behind a gap nothing is ever touched.
THEOREM RowsApproveUpToGap == RowsSpec => []ApprovedUpToGap
<1>1. RowsTypeOK /\ StepChain => ApprovedUpToGap
  BY ReviewApproves DEF StepChain, ApprovedUpToGap
<1>2. QED
  BY <1>1, RowsAreTyped, RowsFollowChain, PTL

-----------------------------------------------------------------------------
(* The quorum. *)

\* Needed beside QuorumExact: cardinalities are about finite sets of approvers.
VotesFinite == \A r \in Requests : \A o \in Nat : IsFiniteSet(Approvers(r, o))

QuorumInv == QuorumExact /\ VotesFinite

\* QuorumExact says of each request apart what it says of all.
QuorumOf(r) ==
  /\ \A d \in decisions[r] : d.actor # requester[r]
  /\ \A d, e \in decisions[r] : d.step = e.step /\ d.actor = e.actor => d = e
  /\ \A o \in DOMAIN steps[r] :
       LET step == steps[r][o] IN
       /\ step.count = Cardinality(Approvers(r, o))
       /\ step.count <= step.required
       /\ step.status = "approved" <=> step.count = step.required
       /\ step.status = "rejected" <=> IsRejected(r, o)
       /\ step.status = "pending" => step.count = 0
  /\ \A o \in Nat : IsFiniteSet(Approvers(r, o))

\* The quorum invariant speaks of one request at a time.
LEMMA QuorumInvByRequest == QuorumInv <=> \A r \in Requests : QuorumOf(r)
BY DEF QuorumInv, QuorumExact, VotesFinite, QuorumOf

\* A request whose rows do not change keeps its quorum.
LEMMA QuorumFrame ==
  ASSUME NEW q \in Requests, QuorumOf(q),
         steps'[q] = steps[q], decisions'[q] = decisions[q], requester'[q] = requester[q]
  PROVE  QuorumOf(q)'
<1>1. \A o : Approvers(q, o)' = Approvers(q, o) /\ (IsRejected(q, o)' <=> IsRejected(q, o))
  BY DEF Approvers, IsRejected
<1>2. QED
  BY <1>1 DEF QuorumOf

\* A created request has no decision and no count above zero.
LEMMA CreateRowsQuorum ==
  ASSUME RowsTypeOK, QuorumInv, NEW r \in Requests, NEW a \in Actors, NEW k \in Resources,
         NEW plan \in Plans, CreateRows(r, a, k, plan)
  PROVE  QuorumInv'
<1>1. decisions'[r] = {} /\ steps'[r] = NewSteps(plan)
  BY DEF CreateRows, RowsTypeOK
<1>2. \A o : Approvers(r, o)' = {} /\ ~IsRejected(r, o)'
  BY <1>1 DEF Approvers, IsRejected
<1>3. \A o \in DOMAIN steps'[r] :
        /\ steps'[r][o] \in StepRecord
        /\ steps'[r][o].count = 0
        /\ steps'[r][o].status \in {"active", "pending"}
  BY <1>1, PlansAssumption, NewStepsTable DEF IsStepTable
<1>4. QuorumOf(r)'
  <2>1. \A o \in DOMAIN steps'[r] : steps'[r][o].required \in Nat \ {0}
    BY <1>3 DEF StepRecord
  <2>2. Cardinality({}) = 0 /\ IsFiniteSet({})
    BY FS_EmptySet
  <2>3. QED
    BY <1>1, <1>2, <1>3, <2>1, <2>2 DEF QuorumOf
<1>5. ASSUME NEW q \in Requests, q # r PROVE QuorumOf(q)'
  BY <1>5, QuorumInvByRequest, QuorumFrame DEF CreateRows, RowsTypeOK
<1>6. (\A q \in Requests : QuorumOf(q))'
  BY <1>4, <1>5
<1>7. QED
  BY <1>6 DEF QuorumInv, QuorumExact, VotesFinite, QuorumOf

\* make_decision counts a new approver once, and marks the step when the count
\* reaches its quorum.
LEMMA DecideRowsQuorum ==
  ASSUME RowsTypeOK, StepChain, QuorumInv, NEW r \in Requests, NEW a \in Actors,
         NEW action \in ActionType, DecideRows(r, a, action)
  PROVE  QuorumInv'
<1>1. PICK o \in DOMAIN steps[r] :
        /\ o = ActiveStep(steps[r])
        /\ o \in Nat \ {0}
        /\ steps[r][o] \in StepRecord
        /\ steps[r][o].status = "active"
  BY DecidedStepFacts DEF DecideRows
<1>2. PICK d \in Decision : d = [step |-> o, actor |-> a, action |-> action]
  BY <1>1, DecidedStepFacts DEF DecideRows
<1>3. PICK after : after = StepsAfter(steps[r], o, action)
  OBVIOUS
<1>4. /\ decisions' = [decisions EXCEPT ![r] = @ \cup {d}]
      /\ steps' = [steps EXCEPT ![r] = after]
      /\ requester' = requester
      /\ a # requester[r]
      /\ \A e \in decisions[r] : e.step = o => e.actor # a
  BY <1>1, <1>2, <1>3 DEF DecideRows, CanDecide
<1>5. decisions'[r] = decisions[r] \cup {d} /\ steps'[r] = after
  BY <1>4 DEF RowsTypeOK
<1>6. QuorumOf(r)
  BY QuorumInvByRequest
<1>7. IsStepTable(steps[r])
  BY DEF RowsTypeOK
<1>8. /\ DOMAIN after = DOMAIN steps[r]
      /\ after[o] = DecideStep(steps[r][o], action)
      /\ \A p \in DOMAIN steps[r] \ {o} :
           /\ after[p].required = steps[r][p].required
           /\ after[p].count = steps[r][p].count
           /\ after[p].status = IF p = o + 1 /\ Completes(steps[r], o, action)
                                THEN "active" ELSE steps[r][p].status
  BY <1>1, <1>3, <1>7, StepsAfterEffect
<1>9. \A p \in Nat \ {o} : Approvers(r, p)' = Approvers(r, p)
  BY <1>2, <1>5 DEF Approvers
<1>10. \A p : IsRejected(r, p)' <=> IsRejected(r, p) \/ (p = o /\ action = "reject")
  BY <1>2, <1>5 DEF IsRejected
<1>11. /\ action = "reject" => Approvers(r, o)' = Approvers(r, o)
       /\ action = "approve" => Approvers(r, o)' = Approvers(r, o) \cup {a}
       /\ a \notin Approvers(r, o)
  BY <1>2, <1>4, <1>5 DEF Approvers
<1>12. /\ \A p \in Nat : IsFiniteSet(Approvers(r, p)')
       /\ action = "approve" =>
            Cardinality(Approvers(r, o)') = Cardinality(Approvers(r, o)) + 1
  <2>1. \A p \in Nat : IsFiniteSet(Approvers(r, p))
    BY <1>6 DEF QuorumOf
  <2>2. /\ IsFiniteSet(Approvers(r, o) \cup {a})
        /\ Cardinality(Approvers(r, o) \cup {a}) = Cardinality(Approvers(r, o)) + 1
    BY <2>1, <1>1, <1>11, FS_AddElement
  <2>3. QED
    BY <2>1, <2>2, <1>9, <1>11 DEF ActionType
<1>13. QuorumOf(r)'
  <2>1. /\ \A e \in decisions'[r] : e.actor # requester'[r]
        /\ \A e, f \in decisions'[r] : e.step = f.step /\ e.actor = f.actor => e = f
    BY <1>2, <1>4, <1>5, <1>6 DEF QuorumOf
  <2>2. ASSUME NEW p \in DOMAIN after
        PROVE  /\ after[p].count = Cardinality(Approvers(r, p)')
               /\ after[p].count <= after[p].required
               /\ after[p].status = "approved" <=> after[p].count = after[p].required
               /\ after[p].status = "rejected" <=> IsRejected(r, p)'
               /\ after[p].status = "pending" => after[p].count = 0
    <3>1. CASE p = o
      <4>1. /\ steps[r][o].count \in Nat /\ steps[r][o].required \in Nat
            /\ steps[r][o].count = Cardinality(Approvers(r, o))
            /\ steps[r][o].count < steps[r][o].required
            /\ ~IsRejected(r, o)
        BY <1>1, <1>6 DEF QuorumOf, StepRecord
      <4>2. after[o].required = steps[r][o].required
        BY <1>1, <1>8, DecideStepEffect
      <4>3. CASE action = "reject"
        BY <3>1, <4>1, <4>2, <4>3, <1>1, <1>8, <1>10, <1>11, DecideStepEffect
      <4>4. CASE action = "approve"
        <5>1. /\ after[o].count = steps[r][o].count + 1
              /\ after[o].status = IF after[o].count >= after[o].required
                                   THEN "approved" ELSE "active"
          BY <4>2, <4>4, <1>1, <1>8, DecideStepEffect
        <5>2. QED
          BY <3>1, <4>1, <4>2, <4>4, <5>1, <1>10, <1>12
      <4>5. QED  BY <4>3, <4>4 DEF ActionType
    <3>2. CASE p # o
      <4>1. p \in Nat /\ steps[r][p] \in StepRecord
        BY <1>7, <1>8 DEF IsStepTable
      <4>2. p = o + 1 => steps[r][p].status = "pending"
        <5>1. PICK at \in {0} \cup DOMAIN steps[r] : ReviewAt(r, at)
          BY DEF DecideRows, StepChain
        <5>2. at = o
          BY <1>1, <5>1, ActiveIsUnderReview
        <5>3. QED
          BY <1>1, <1>8, <5>1, <5>2 DEF ReviewAt
      <4>3. QED
        BY <3>2, <4>1, <4>2, <1>6, <1>8, <1>9, <1>10 DEF QuorumOf, StepRecord
    <3>3. QED  BY <3>1, <3>2
  <2>3. QED
    BY <2>1, <2>2, <1>5, <1>12 DEF QuorumOf
<1>14. ASSUME NEW q \in Requests, q # r PROVE QuorumOf(q)'
  BY <1>14, <1>4, QuorumInvByRequest, QuorumFrame DEF RowsTypeOK
<1>15. (\A q \in Requests : QuorumOf(q))'
  BY <1>13, <1>14
<1>16. QED
  BY <1>15 DEF QuorumInv, QuorumExact, VotesFinite, QuorumOf

\* Every step counts exactly the users who approved it, and is approved exactly
\* when they are as many as it requires.
THEOREM RowsCountQuorum == RowsSpec => []QuorumExact
<1>1. RowsInit => QuorumInv
  <2>1. SUFFICES ASSUME RowsInit, NEW r \in Requests PROVE QuorumOf(r)
    BY DEF QuorumInv, QuorumExact, VotesFinite, QuorumOf
  <2>2. decisions[r] = {} /\ DOMAIN steps[r] = {}
    BY <2>1 DEF RowsInit
  <2>3. \A o : Approvers(r, o) = {}
    BY <2>2 DEF Approvers
  <2>4. QED
    BY <2>2, <2>3, FS_EmptySet DEF QuorumOf
<1>2. RowsTypeOK /\ StepChain /\ QuorumInv /\ [RowsNext]_db => QuorumInv'
  <2> SUFFICES ASSUME RowsTypeOK, StepChain, QuorumInv, [RowsNext]_db PROVE QuorumInv'
    OBVIOUS
  <2>1. ASSUME NEW r \in Requests, NEW a \in Actors, NEW k \in Resources,
               NEW plan \in Plans, CreateRows(r, a, k, plan)
        PROVE  QuorumInv'
    BY <2>1, CreateRowsQuorum
  <2>2. ASSUME UNCHANGED <<requester, steps, decisions>>
        PROVE  QuorumInv'
    <3>1. (\A q \in Requests : QuorumOf(q))'
      BY <2>2, QuorumInvByRequest, QuorumFrame
    <3>2. QED  BY <3>1 DEF QuorumInv, QuorumExact, VotesFinite, QuorumOf
  <2>3. ASSUME NEW r \in Requests, NEW a \in Actors, NEW action \in ActionType,
               DecideRows(r, a, action)
        PROVE  QuorumInv'
    BY <2>3, DecideRowsQuorum
  <2>4. QED
    BY <2>1, <2>2, <2>3 DEF RowsNext, db, CancelRows
<1>3. QED
  BY <1>1, <1>2, RowsAreTyped, RowsFollowChain, PTL DEF RowsSpec, QuorumInv

-----------------------------------------------------------------------------
(* Refinement: the claims of RequestLifecycle. *)

\* An existing request names a resource and is never seen pending, and a
\* resource has one claimant: what makes Claim a function of the unique index.
ClaimInv ==
  /\ OneClaimPerResource
  /\ \A r \in Requests : /\ status[r] # "pending"
                         /\ status[r] # "absent" => resource[r] \in Resources

\* No request exists before the first call.
LEMMA ClaimInvInit == RowsInit => ClaimInv
BY DEF RowsInit, ClaimInv, OneClaimPerResource, Occupying, RequestStatus

\* A verdict is reached from in_review only, and so is a cancellation.
LEMMA OnlyFromReview ==
  ASSUME RowsTypeOK, ClaimInv, NEW r \in Requests, status[r] # "absent",
         NEW target \in TerminalStatuses, CanTransition(status[r], target)
  PROVE  status[r] = "in_review"
BY DEF RowsTypeOK, ClaimInv, CanTransition, TerminalStatuses, RequestStatus

\* No handler leaves two requests in one unique-index key, or one half created.
LEMMA ClaimInvNext == RowsTypeOK /\ ClaimInv /\ [RowsNext]_db => ClaimInv'
<1> SUFFICES ASSUME RowsTypeOK, ClaimInv, [RowsNext]_db PROVE ClaimInv'
  OBVIOUS
<1>1. ASSUME NEW r \in Requests, NEW a \in Actors, NEW k \in Resources,
             NEW plan \in Plans, CreateRows(r, a, k, plan)
      PROVE  ClaimInv'
  BY <1>1 DEF CreateRows, ClaimInv, OneClaimPerResource, Occupied, RowsTypeOK
<1>2. ASSUME NEW r \in Requests, CancelRows(r)
      PROVE  ClaimInv'
  BY <1>2 DEF CancelRows, ClaimInv, OneClaimPerResource, Occupying, RowsTypeOK
<1>3. ASSUME NEW r \in Requests, NEW a \in Actors, NEW action \in ActionType,
             DecideRows(r, a, action)
      PROVE  ClaimInv'
  <2>1. PICK verdict \in {"approved", "rejected", "none"} :
          /\ status' = [status EXCEPT ![r] = IF verdict = "none" THEN @ ELSE verdict]
          /\ verdict # "none" => CanTransition(status[r], verdict)
          /\ UNCHANGED resource
          /\ status[r] # "absent"
    BY <1>3, VerdictType DEF DecideRows, CanDecide
  <2>2. verdict # "none" => status[r] = "in_review"
    BY <2>1, OnlyFromReview DEF TerminalStatuses
  <2>3. QED
    BY <2>1, <2>2 DEF ClaimInv, OneClaimPerResource, Occupying, RequestStatus, RowsTypeOK
<1>4. CASE UNCHANGED db
  BY <1>4 DEF db, ClaimInv, OneClaimPerResource
<1>5. QED
  BY <1>1, <1>2, <1>3, <1>4 DEF RowsNext

\* Claim is the one claimant where there is one, and None elsewhere.
LEMMA ClaimIsClaimant ==
  ClaimInv =>
    /\ \A k \in Resources : ~Occupied(k) => Claim[k] = None
    /\ \A q \in Requests : status[q] \in Occupying => Claim[resource[q]] = q
<1>1. ASSUME ClaimInv, NEW q \in Requests, status[q] \in Occupying
      PROVE  Claim[resource[q]] = q
  <2>1. resource[q] \in Resources
    BY <1>1 DEF ClaimInv, Occupying, RequestStatus
  <2>2. Occupied(resource[q])
    BY <1>1 DEF Occupied
  <2>3. \A p \in Requests : resource[p] = resource[q] /\ status[p] \in Occupying => p = q
    BY <1>1 DEF ClaimInv, OneClaimPerResource
  <2>4. QED
    BY <1>1, <2>1, <2>2, <2>3 DEF Claim
<1>2. ASSUME NEW k \in Resources, ~Occupied(k) PROVE Claim[k] = None
  BY <1>2 DEF Claim
<1>3. QED
  BY <1>1, <1>2

\* The same in the next state.
LEMMA ClaimIsClaimantNext ==
  (ClaimInv =>
    /\ \A k \in Resources : ~Occupied(k) => Claim[k] = None
    /\ \A q \in Requests : status[q] \in Occupying => Claim[resource[q]] = q)'
BY ClaimIsClaimant, PTL

\* Claim is a function on the resources in both states of a step.
LEMMA ClaimIsFunction ==
  /\ Claim = [k \in Resources |-> Claim[k]]
  /\ Claim' = [k \in Resources |-> Claim'[k]]
BY DEF Claim

\* A claim changes only when a request starts or stops occupying the key.
LEMMA ClaimElsewhere ==
  ASSUME ClaimInv, ClaimInv', NEW k \in Resources,
         \A q \in Requests : resource'[q] = k /\ status'[q] \in Occupying
                               <=> resource[q] = k /\ status[q] \in Occupying
  PROVE  Claim'[k] = Claim[k]
<1>1. CASE Occupied(k)
  <2>1. PICK q \in Requests : resource[q] = k /\ status[q] \in Occupying
    BY <1>1 DEF Occupied
  <2>2. Claim[k] = q /\ Claim'[k] = q
    BY <2>1, ClaimIsClaimant, ClaimIsClaimantNext
  <2>3. QED  BY <2>2
<1>2. CASE ~Occupied(k)
  <2>1. ~Occupied(k)'
    BY <1>2 DEF Occupied
  <2>2. QED
    BY <1>2, <2>1, ClaimIsClaimant, ClaimIsClaimantNext
<1>3. QED  BY <1>1, <1>2

\* create_request opens a request on a resource nobody claims.
LEMMA CreateRowsOpens ==
  ASSUME RowsTypeOK, ClaimInv, ClaimInv', NEW r \in Requests, NEW a \in Actors,
         NEW k \in Resources, NEW plan \in Plans, CreateRows(r, a, k, plan)
  PROVE  Lifecycle!Open(r, k)
<1>1. /\ status[r] = "absent"
      /\ ~Occupied(k)
      /\ status' = [status EXCEPT ![r] = "in_review"]
      /\ resource' = [resource EXCEPT ![r] = k]
  BY DEF CreateRows
<1>2. status'[r] \in Occupying /\ resource'[r] = k
  BY <1>1 DEF RowsTypeOK, Occupying, RequestStatus
<1>3. Claim[k] = None /\ Claim'[k] = r
  BY <1>1, <1>2, ClaimIsClaimant, ClaimIsClaimantNext
<1>4. ASSUME NEW j \in Resources, j # k PROVE Claim'[j] = Claim[j]
  BY <1>1, <1>2, <1>4, ClaimElsewhere DEF RowsTypeOK, Occupying, RequestStatus
<1>5. Claim' = [Claim EXCEPT ![k] = r]
  BY <1>3, <1>4, ClaimIsFunction
<1>6. QED
  BY <1>1, <1>3, <1>5 DEF Lifecycle!Open

\* cancel_request withdraws a request in review and frees its resource.
LEMMA CancelRowsWithdraws ==
  ASSUME RowsTypeOK, ClaimInv, ClaimInv', NEW r \in Requests, CancelRows(r)
  PROVE  \E k \in Resources : Lifecycle!Withdraw(r, k)
<1>1. /\ status[r] = "in_review"
      /\ status' = [status EXCEPT ![r] = "cancelled"]
      /\ UNCHANGED resource
  BY OnlyFromReview DEF CancelRows, TerminalStatuses
<1>2. PICK k \in Resources : k = resource[r]
  BY <1>1 DEF ClaimInv
<1>3. status[r] \in Occupying /\ status'[r] \notin Occupying
  BY <1>1 DEF RowsTypeOK, Occupying, RequestStatus
<1>4. Claim[k] = r
  BY <1>2, <1>3, ClaimIsClaimant
<1>5. ~Occupied(k)'
  BY <1>1, <1>2, <1>3 DEF Occupied, ClaimInv, OneClaimPerResource, RowsTypeOK
<1>6. Claim'[k] = None
  BY <1>5, ClaimIsClaimantNext
<1>7. ASSUME NEW j \in Resources, j # k PROVE Claim'[j] = Claim[j]
  BY <1>1, <1>2, <1>7, ClaimElsewhere DEF RowsTypeOK
<1>8. Claim' = [Claim EXCEPT ![k] = None]
  BY <1>6, <1>7, ClaimIsFunction
<1>9. QED
  BY <1>1, <1>2, <1>4, <1>8 DEF Lifecycle!Withdraw

\* make_decision concludes a request in review, or changes no status at all.
LEMMA DecideRowsConcludes ==
  ASSUME RowsTypeOK, ClaimInv, ClaimInv', NEW r \in Requests, NEW a \in Actors,
         NEW action \in ActionType, DecideRows(r, a, action)
  PROVE  \/ \E verdict \in {"approved", "rejected"} : Lifecycle!Conclude(r, verdict)
         \/ UNCHANGED <<status, Claim>>
<1>1. PICK verdict \in {"approved", "rejected", "none"} :
        /\ status' = [status EXCEPT ![r] = IF verdict = "none" THEN @ ELSE verdict]
        /\ verdict # "none" => CanTransition(status[r], verdict)
        /\ UNCHANGED resource
        /\ status[r] # "absent"
  BY VerdictType DEF DecideRows, CanDecide
<1>2. CASE verdict = "none"
  <2>1. UNCHANGED status
    BY <1>1, <1>2 DEF RowsTypeOK
  <2>2. UNCHANGED Claim
    BY <1>1, <2>1, ClaimElsewhere, ClaimIsFunction
  <2>3. QED  BY <2>1, <2>2
<1>3. CASE verdict # "none"
  <2>1. status[r] = "in_review"
    BY <1>1, <1>3, OnlyFromReview DEF TerminalStatuses
  <2>2. \A q \in Requests : status'[q] \in Occupying <=> status[q] \in Occupying
    BY <1>1, <1>3, <2>1 DEF RowsTypeOK, Occupying, RequestStatus
  <2>3. UNCHANGED Claim
    BY <1>1, <2>2, ClaimElsewhere, ClaimIsFunction
  <2>4. QED
    BY <1>1, <1>3, <2>1, <2>3 DEF Lifecycle!Conclude
<1>4. QED
  BY <1>2, <1>3

\* The service implements RequestLifecycle: a request goes through one review to
\* one final status, and holds its resource from creation until cancellation.
THEOREM RowsImplementLifecycle == RowsSpec => ImplementsLifecycle
<1>1. RowsInit => Lifecycle!LInit
  BY DEF RowsInit, Lifecycle!LInit, Claim, Occupied, Occupying, RequestStatus
<1>2. RowsTypeOK /\ ClaimInv /\ ClaimInv' /\ [RowsNext]_db => [Lifecycle!LNext]_(Lifecycle!lvars)
  <2> SUFFICES ASSUME RowsTypeOK, ClaimInv, ClaimInv', [RowsNext]_db
               PROVE  Lifecycle!LNext \/ UNCHANGED <<status, Claim>>
    BY DEF Lifecycle!lvars
  <2>1. ASSUME NEW r \in Requests, NEW a \in Actors, NEW k \in Resources,
               NEW plan \in Plans, CreateRows(r, a, k, plan)
        PROVE  Lifecycle!LNext
    BY <2>1, CreateRowsOpens DEF Lifecycle!LNext
  <2>2. ASSUME NEW r \in Requests, CancelRows(r)
        PROVE  Lifecycle!LNext
    BY <2>2, CancelRowsWithdraws DEF Lifecycle!LNext
  <2>3. ASSUME NEW r \in Requests, NEW a \in Actors, NEW action \in ActionType,
               DecideRows(r, a, action)
        PROVE  Lifecycle!LNext \/ UNCHANGED <<status, Claim>>
    BY <2>3, DecideRowsConcludes DEF Lifecycle!LNext
  <2>4. CASE UNCHANGED db
    BY <2>4 DEF db, Claim, Occupied
  <2>5. QED
    BY <2>1, <2>2, <2>3, <2>4 DEF RowsNext
<1>3. QED
  BY <1>1, <1>2, RowsAreTyped, ClaimInvInit, ClaimInvNext, PTL
  DEF RowsSpec, ImplementsLifecycle, Lifecycle!LSpec

\* Served one at a time, no call takes a settled request to another status.
LEMMA SettledStays ==
  ASSUME RowsTypeOK, [RowsNext]_db, NEW r \in Requests,
         status[r] \in TerminalStatuses
  PROVE  status'[r] = status[r]
<1>1. status[r] # "absent"
  BY DEF TerminalStatuses
<1>2. ASSUME NEW q \in Requests, CancelRows(q) PROVE status'[r] = status[r]
  BY <1>2 DEF CancelRows, CanTransition, RowsTypeOK
<1>3. ASSUME NEW q \in Requests, NEW a \in Actors, NEW action \in ActionType,
             DecideRows(q, a, action)
      PROVE  status'[r] = status[r]
  <2>1. PICK verdict : /\ status' = [status EXCEPT ![q] = IF verdict = "none" THEN @ ELSE verdict]
                       /\ verdict # "none" => CanTransition(status[q], verdict)
    BY <1>3 DEF DecideRows, CanDecide
  <2>2. QED
    BY <2>1 DEF CanTransition, RowsTypeOK
<1>4. ASSUME NEW q \in Requests, NEW a \in Actors, NEW k \in Resources,
             NEW plan \in Plans, CreateRows(q, a, k, plan)
      PROVE  status'[r] = status[r]
  BY <1>1, <1>4 DEF CreateRows, RowsTypeOK
<1>5. QED
  BY <1>2, <1>3, <1>4 DEF RowsNext, db

=============================================================================
