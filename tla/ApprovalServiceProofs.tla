------------------------ MODULE ApprovalServiceProofs ------------------------
(***************************************************************************)
(* ApprovalService for every set of requests, resources, users and plans:  *)
(* it treats the rows as ApprovalRows says, so that what is proved of them *)
(* holds; the outbox tells the state of a request; and the audit log       *)
(* records the calls made about it.                                        *)
(***************************************************************************)
EXTENDS ApprovalService, ApprovalRowsProofs, SequenceTheorems

-----------------------------------------------------------------------------
(* Types. *)

\* What a handler appends to the outbox is a sequence of events.
LEMMA EventTypes ==
  /\ <<RequestCreated>> \in Seq(OutboxEvent)
  /\ \A d \in Decision : <<DecisionMade(d)>> \in Seq(OutboxEvent)
  /\ \A o \in Nat : ActivationEvents(o) \in Seq(OutboxEvent)
  /\ \A v \in {"approved", "rejected", "none"} : VerdictEvents(v) \in Seq(OutboxEvent)
<1>1. RequestCreated \in OutboxEvent /\ \A s \in RequestStatus : StatusChanged(s) \in OutboxEvent
  BY DEF RequestCreated, StatusChanged, OutboxEvent
<1>2. \A d \in Decision : DecisionMade(d) \in OutboxEvent
  BY DEF DecisionMade, OutboxEvent
<1>3. \A o \in Nat \ {0} : StepActivated(o) \in OutboxEvent
  BY DEF StepActivated, OutboxEvent
<1>4. \A e \in OutboxEvent : <<e>> \in Seq(OutboxEvent)
  OBVIOUS
<1>5. \A o \in Nat : ActivationEvents(o) \in Seq(OutboxEvent)
  BY <1>3, <1>4 DEF ActivationEvents
<1>6. \A v \in {"approved", "rejected", "none"} : VerdictEvents(v) \in Seq(OutboxEvent)
  BY <1>1, <1>4 DEF VerdictEvents, RequestStatus
<1>7. QED
  BY <1>1, <1>2, <1>4, <1>5, <1>6

\* Whatever a call logs, it does to the rows what ApprovalRows says.
LEMMA ServiceIsRows == Spec => RowsSpec
<1>1. Init => RowsInit
  BY DEF Init
<1>2. [Next]_vars => [RowsNext]_db
  BY DEF Next, vars, CreateRequest, CancelRequest, MakeDecision, RowsNext, db
<1>3. QED
  BY <1>1, <1>2, PTL DEF Spec, RowsSpec

\* What is logged of a request is well typed.
LogTypeOK ==
  /\ audit \in [Requests -> Seq(AuditEntry)]
  /\ outbox \in [Requests -> Seq(OutboxEvent)]

\* create_request logs a creation and the step it activates.
LEMMA CreateRequestLog ==
  ASSUME LogTypeOK, NEW r \in Requests, NEW a \in Actors, NEW k \in Resources,
         NEW plan \in Plans, CreateRequest(r, a, k, plan)
  PROVE  LogTypeOK'
<1>1. audit' \in [Requests -> Seq(AuditEntry)]
  <2>1. AuditCreated(a) \in AuditEntry
    BY DEF AuditCreated, AuditEntry, AuditAction
  <2>2. QED
    BY <2>1, AppendProperties DEF CreateRequest, LogTypeOK
<1>2. outbox' \in [Requests -> Seq(OutboxEvent)]
  <2>1. ActiveStep(NewSteps(plan)) \in Nat
    BY PlansAssumption, NewStepsTable, ActiveStepIsActive
  <2>2. <<RequestCreated>> \o ActivationEvents(ActiveStep(NewSteps(plan)))
          \in Seq(OutboxEvent)
    BY <2>1, EventTypes, ConcatProperties
  <2>3. QED
    BY <2>1, <2>2, EventTypes, ConcatProperties DEF CreateRequest, LogTypeOK
<1>3. QED
  BY <1>1, <1>2 DEF LogTypeOK

\* cancel_request logs the cancellation.
LEMMA CancelRequestLog ==
  ASSUME LogTypeOK, NEW r \in Requests, NEW a \in Actors, CancelRequest(r, a)
  PROVE  LogTypeOK'
<1>1. AuditCancelled(a) \in AuditEntry
  BY DEF AuditCancelled, AuditEntry, AuditAction
<1>2. StatusChanged("cancelled") \in OutboxEvent
  BY DEF StatusChanged, OutboxEvent, RequestStatus
<1>3. QED
  BY <1>1, <1>2, AppendProperties DEF CancelRequest, LogTypeOK

\* make_decision logs the decision, its verdict and the step it activates.
LEMMA MakeDecisionLog ==
  ASSUME RowsTypeOK, LogTypeOK, NEW r \in Requests, NEW a \in Actors,
         NEW action \in ActionType, MakeDecision(r, a, action)
  PROVE  LogTypeOK'
<1>1. PICK o, d, verdict, after :
        /\ o = ActiveStep(steps[r])
        /\ d = [step |-> o, actor |-> a, action |-> action]
        /\ verdict = Verdict(steps[r], o, action)
        /\ after = StepsAfter(steps[r], o, action)
  OBVIOUS
<1>2. /\ CanDecide(status[r], requester[r], steps[r], decisions[r], a, action)
      /\ audit' = [audit EXCEPT ![r] = Append(@, AuditDecision(d))]
      /\ outbox' = [outbox EXCEPT ![r] = @ \o <<DecisionMade(d)>> \o VerdictEvents(verdict)
                                           \o ActivationEvents(NextActive(after, o))]
  BY <1>1 DEF MakeDecision, DecideRows
<1>3. o \in DOMAIN steps[r] /\ d \in Decision /\ IsStepTable(steps[r])
  BY <1>1, <1>2, DecidedStepFacts DEF RowsTypeOK
<1>4. verdict \in {"approved", "rejected", "none"} /\ NextActive(after, o) \in Nat
  BY <1>1, <1>3, VerdictType, StepsAfterEffect, NextActiveIsActive
<1>5. audit' \in [Requests -> Seq(AuditEntry)]
  <2>1. AuditDecision(d) \in AuditEntry
    BY <1>3 DEF AuditDecision, AuditEntry
  <2>2. QED
    BY <1>2, <2>1, AppendProperties DEF LogTypeOK
<1>6. outbox' \in [Requests -> Seq(OutboxEvent)]
  <2>1. outbox[r] \o <<DecisionMade(d)>> \o VerdictEvents(verdict)
          \o ActivationEvents(NextActive(after, o)) \in Seq(OutboxEvent)
    BY <1>3, <1>4, EventTypes, ConcatProperties DEF LogTypeOK
  <2>2. QED
    BY <1>2, <2>1 DEF LogTypeOK
<1>7. QED
  BY <1>5, <1>6 DEF LogTypeOK

\* Every reachable state is well typed.
THEOREM TypeCorrect == Spec => []TypeOK
<1>1. Init => LogTypeOK
  BY DEF Init, LogTypeOK
<1>2. RowsTypeOK /\ LogTypeOK /\ [Next]_vars => LogTypeOK'
  <2> SUFFICES ASSUME RowsTypeOK, LogTypeOK, [Next]_vars PROVE LogTypeOK'
    OBVIOUS
  <2>1. CASE UNCHANGED vars
    BY <2>1 DEF vars, LogTypeOK
  <2>2. QED
    BY <2>1, CreateRequestLog, CancelRequestLog, MakeDecisionLog DEF Next
<1>3. RowsTypeOK /\ LogTypeOK => TypeOK
  BY DEF TypeOK, LogTypeOK
<1>4. QED
  BY <1>1, <1>2, <1>3, ServiceIsRows, RowsAreTyped, PTL DEF Spec

-----------------------------------------------------------------------------
(* What the rows go through, whatever is logged about them. *)

\* The review of every request walks its steps in order and agrees with the
\* request's status.
THEOREM ReviewFollowsChain == Spec => []StepChain
BY ServiceIsRows, RowsFollowChain, PTL

\* A request is approved exactly when its steps up to the first gap in their
\* orders are: all of them, as documented, if there is no gap.
THEOREM ReviewApprovesUpToGap == Spec => []ApprovedUpToGap
BY ServiceIsRows, RowsApproveUpToGap, PTL

\* Every step counts exactly the users who approved it, and is approved exactly
\* when they are as many as it requires.
THEOREM QuorumIsExact == Spec => []QuorumExact
BY ServiceIsRows, RowsCountQuorum, PTL

\* The service implements RequestLifecycle: a request goes through one review to
\* one final status, and holds its resource from creation until cancellation.
THEOREM ServiceImplementsLifecycle == Spec => ImplementsLifecycle
BY ServiceIsRows, RowsImplementLifecycle, PTL

-----------------------------------------------------------------------------
(* Sequences of events. *)

OfType(events, type) == {i \in DOMAIN events : events[i].type = type}
Told(events) == {events[i].decision : i \in OfType(events, "decision.made")}

\* The one change of status told is to s; in_review is not told.
StatusTold(events, s) ==
  IF s = "in_review" THEN OfType(events, "request.status") = {}
  ELSE \E i \in DOMAIN events :
         OfType(events, "request.status") = {i} /\ events[i].status = s

\* The last event of its type.
IsLast(events, type, e) ==
  \E i \in OfType(events, type) :
    events[i] = e /\ \A j \in OfType(events, type) : j <= i

LEMMA LastIsLatest ==
  ASSUME NEW events \in Seq(OutboxEvent), NEW type, NEW e, IsLast(events, type, e)
  PROVE  OfType(events, type) # {} /\ events[Latest(OfType(events, type))] = e
<1>1. PICK i \in OfType(events, type) :
        events[i] = e /\ \A j \in OfType(events, type) : j <= i
  BY DEF IsLast
<1>2. OfType(events, type) \subseteq Nat
  BY DEF OfType
<1>3. Latest(OfType(events, type)) = i
  <2>1. \A k \in OfType(events, type) : (\A j \in OfType(events, type) : j <= k) => k = i
    BY <1>1, <1>2
  <2>2. QED
    BY <1>1, <2>1 DEF Latest
<1>4. QED
  BY <1>1, <1>3

\* What one more event tells.
LEMMA AppendTells ==
  ASSUME NEW s \in Seq(OutboxEvent), NEW x \in OutboxEvent
  PROVE  /\ Append(s, x) \in Seq(OutboxEvent)
         /\ IsLast(Append(s, x), x.type, x)
         /\ \A type, e : type # x.type /\ IsLast(s, type, e) => IsLast(Append(s, x), type, e)
         /\ Told(Append(s, x)) =
              Told(s) \cup (IF x.type = "decision.made" THEN {x.decision} ELSE {})
<1>1. PICK t \in Seq(OutboxEvent) : t = Append(s, x)
  BY AppendProperties
<1>2. /\ Len(t) = Len(s) + 1 /\ Len(s) \in Nat /\ t[Len(s) + 1] = x
      /\ \A i \in 1 .. Len(s) : t[i] = s[i]
      /\ DOMAIN s = 1 .. Len(s) /\ DOMAIN t = 1 .. Len(t)
  BY <1>1, AppendProperties
<1>3. \A type : OfType(t, type) =
        OfType(s, type) \cup (IF x.type = type THEN {Len(s) + 1} ELSE {})
  BY <1>2 DEF OfType
<1>4. \A type : OfType(s, type) \subseteq 1 .. Len(s)
  BY <1>2 DEF OfType
<1>5. IsLast(t, x.type, x)
  BY <1>2, <1>3, <1>4 DEF IsLast
<1>6. ASSUME NEW type, NEW e, type # x.type, IsLast(s, type, e)
      PROVE  IsLast(t, type, e)
  <2>1. OfType(t, type) = OfType(s, type)
    BY <1>3, <1>6
  <2>2. QED
    BY <1>2, <1>4, <1>6, <2>1 DEF IsLast
<1>7. Told(t) = Told(s) \cup (IF x.type = "decision.made" THEN {x.decision} ELSE {})
  <2>1. \A i \in OfType(s, "decision.made") : t[i].decision = s[i].decision
    BY <1>2, <1>4
  <2>2. QED
    BY <1>2, <1>3, <2>1 DEF Told
<1>8. QED
  BY <1>1, <1>5, <1>6, <1>7

\* An event is one more of its own type and none of another.
LEMMA AppendOfType ==
  ASSUME NEW s \in Seq(OutboxEvent), NEW x \in OutboxEvent, NEW type
  PROVE  /\ x.type = type => OfType(Append(s, x), type) = OfType(s, type) \cup {Len(s) + 1}
         /\ x.type # type => OfType(Append(s, x), type) = OfType(s, type)
<1>1. PICK t \in Seq(OutboxEvent) : t = Append(s, x)
  BY AppendProperties
<1>2. /\ Len(t) = Len(s) + 1 /\ Len(s) \in Nat /\ t[Len(s) + 1] = x
      /\ \A i \in 1 .. Len(s) : t[i] = s[i]
      /\ DOMAIN s = 1 .. Len(s) /\ DOMAIN t = 1 .. Len(t)
  BY <1>1, AppendProperties
<1>3. QED
  BY <1>1, <1>2 DEF OfType

\* An event of another type tells no status.
LEMMA AppendKeepsStatus ==
  ASSUME NEW s \in Seq(OutboxEvent), NEW x \in OutboxEvent, x.type # "request.status",
         NEW st, StatusTold(s, st)
  PROVE  StatusTold(Append(s, x), st)
<1>1. OfType(Append(s, x), "request.status") = OfType(s, "request.status")
  BY AppendOfType
<1>2. \A i \in DOMAIN s : i \in DOMAIN Append(s, x) /\ Append(s, x)[i] = s[i]
  BY AppendProperties
<1>3. QED
  BY <1>1, <1>2 DEF StatusTold

\* The first change of status is the one told.
LEMMA AppendTellsStatus ==
  ASSUME NEW s \in Seq(OutboxEvent), NEW x \in OutboxEvent, x.type = "request.status",
         StatusTold(s, "in_review"), NEW st, x.status = st, st # "in_review"
  PROVE  StatusTold(Append(s, x), st)
<1>1. OfType(Append(s, x), "request.status") = {Len(s) + 1}
  <2>1. OfType(Append(s, x), "request.status") = OfType(s, "request.status") \cup {Len(s) + 1}
    BY AppendOfType
  <2>2. QED
    BY <2>1 DEF StatusTold
<1>2. Len(s) + 1 \in DOMAIN Append(s, x) /\ Append(s, x)[Len(s) + 1] = x
  BY AppendProperties
<1>3. QED
  BY <1>1, <1>2 DEF StatusTold

\* An event that is announced or not.
LEMMA ConcatIsAppend ==
  ASSUME NEW s \in Seq(OutboxEvent), NEW x \in OutboxEvent
  PROVE  s \o <<x>> = Append(s, x) /\ s \o <<>> = s
BY AppendIsConcat, ConcatEmptySeq

-----------------------------------------------------------------------------
(* The outbox. *)

\* What the events of request r have told.
EventsOf(r) ==
  IF status[r] = "absent" THEN outbox[r] = <<>>
  ELSE /\ OfType(outbox[r], "request.created") = {1}
       /\ StatusTold(outbox[r], status[r])
       /\ Told(outbox[r]) = decisions[r]
       /\ ActiveStep(steps[r]) # 0 =>
            IsLast(outbox[r], "step.activated", StepActivated(ActiveStep(steps[r])))

EventsInv == \A r \in Requests : EventsOf(r)

LEMMA EventsFrame ==
  ASSUME NEW q \in Requests, EventsOf(q), outbox'[q] = outbox[q], status'[q] = status[q],
         steps'[q] = steps[q], decisions'[q] = decisions[q]
  PROVE  EventsOf(q)'
BY DEF EventsOf

LEMMA EventsTell ==
  ASSUME TypeOK, EventsInv
  PROVE  EventsTellState
<1> SUFFICES ASSUME NEW r \in Requests, status[r] # "absent"
             PROVE  /\ OfType(outbox[r], "request.created") = {1}
                    /\ StatusTold(outbox[r], status[r])
                    /\ Told(outbox[r]) = decisions[r]
                    /\ ActiveStep(steps[r]) # 0 =>
                         /\ OfType(outbox[r], "step.activated") # {}
                         /\ outbox[r][Latest(OfType(outbox[r], "step.activated"))].step =
                              ActiveStep(steps[r])
  BY DEF EventsTellState, OfType, Told, StatusTold
<1>1. EventsOf(r) /\ outbox[r] \in Seq(OutboxEvent)
  BY DEF EventsInv, TypeOK, RowsTypeOK
<1>2. \A o : StepActivated(o).step = o
  BY DEF StepActivated
<1>3. QED
  BY <1>1, <1>2, LastIsLatest DEF EventsOf

\* The kinds of events.
LEMMA EventKinds ==
  /\ RequestCreated \in OutboxEvent /\ RequestCreated.type = "request.created"
  /\ \A s \in RequestStatus : /\ StatusChanged(s) \in OutboxEvent
                              /\ StatusChanged(s).type = "request.status"
                              /\ StatusChanged(s).status = s
  /\ \A d \in Decision : /\ DecisionMade(d) \in OutboxEvent
                         /\ DecisionMade(d).type = "decision.made"
                         /\ DecisionMade(d).decision = d
  /\ \A o \in Nat \ {0} : StepActivated(o) \in OutboxEvent
                          /\ StepActivated(o).type = "step.activated"
BY DEF RequestCreated, StatusChanged, DecisionMade, StepActivated, OutboxEvent

\* The step announced is the one a sequence that may end with it tells.
LEMMA ActivationTells ==
  ASSUME NEW s \in Seq(OutboxEvent), NEW o \in Nat
  PROVE  LET t == s \o ActivationEvents(o) IN
         /\ t \in Seq(OutboxEvent)
         /\ o # 0 => IsLast(t, "step.activated", StepActivated(o))
         /\ o = 0 => t = s
         /\ OfType(t, "request.created") = OfType(s, "request.created")
         /\ \A st : StatusTold(s, st) => StatusTold(t, st)
         /\ Told(t) = Told(s)
<1>1. CASE o = 0
  <2>1. s \o ActivationEvents(o) = s
    BY <1>1, ConcatEmptySeq DEF ActivationEvents
  <2>2. QED
    BY <1>1, <2>1
<1>2. CASE o # 0
  <2>1. StepActivated(o) \in OutboxEvent /\ StepActivated(o).type = "step.activated"
    BY <1>2, EventKinds
  <2>2. s \o ActivationEvents(o) = Append(s, StepActivated(o))
    BY <1>2, <2>1, ConcatIsAppend DEF ActivationEvents
  <2>3. Told(Append(s, StepActivated(o))) = Told(s)
    BY <2>1, AppendTells
  <2>4. OfType(Append(s, StepActivated(o)), "request.created") = OfType(s, "request.created")
    BY <2>1, AppendOfType
  <2>5. \A st : StatusTold(s, st) => StatusTold(Append(s, StepActivated(o)), st)
    BY <2>1, AppendKeepsStatus
  <2>6. QED
    BY <1>2, <2>1, <2>2, <2>3, <2>4, <2>5, AppendTells
<1>3. QED
  BY <1>1, <1>2

LEMMA CreateRequestEvents ==
  ASSUME TypeOK, EventsInv, NEW r \in Requests, NEW a \in Actors, NEW k \in Resources,
         NEW plan \in Plans, CreateRequest(r, a, k, plan)
  PROVE  EventsInv'
<1>1. /\ IsStepTable(NewSteps(plan))
      /\ outbox[r] = <<>> /\ decisions'[r] = {}
  BY PlansAssumption, NewStepsTable
  DEF CreateRequest, CreateRows, EventsInv, EventsOf, TypeOK, RowsTypeOK
<1>2. PICK o \in Nat : o = ActiveStep(NewSteps(plan))
  BY <1>1, ActiveStepIsActive
<1>3. PICK x \in OutboxEvent : x = RequestCreated /\ x.type = "request.created"
  BY EventKinds
<1>4. PICK s \in Seq(OutboxEvent) : s = Append(<<>>, x) /\ s = <<>> \o <<x>>
  <2>1. <<>> \in Seq(OutboxEvent)
    OBVIOUS
  <2>2. QED
    BY <2>1, ConcatIsAppend, AppendTells
<1>5. OfType(s, "request.created") = {1} /\ StatusTold(s, "in_review") /\ Told(s) = {}
  <2>1. PICK e \in Seq(OutboxEvent) : e = <<>>
    <3>1. <<>> \in Seq(OutboxEvent)
      OBVIOUS
    <3>2. QED
      BY <3>1
  <2>2. (\A type : OfType(e, type) = {}) /\ Told(e) = {} /\ Len(e) = 0
    BY <2>1 DEF Told, OfType
  <2>3. Told(s) = {}
    BY <1>3, <1>4, <2>1, <2>2, AppendTells
  <2>4. StatusTold(s, "in_review")
    BY <1>3, <1>4, <2>1, <2>2, AppendKeepsStatus DEF StatusTold
  <2>5. OfType(s, "request.created") = {1}
    <3>1. OfType(Append(e, x), "request.created") = OfType(e, "request.created") \cup {Len(e) + 1}
      BY <1>3, AppendOfType
    <3>2. QED
      BY <1>4, <2>1, <2>2, <3>1
  <2>6. QED
    BY <2>3, <2>4, <2>5
<1>6. PICK t : t = s \o ActivationEvents(o)
  OBVIOUS
<1>7. /\ OfType(t, "request.created") = {1} /\ StatusTold(t, "in_review") /\ Told(t) = {}
      /\ o # 0 => IsLast(t, "step.activated", StepActivated(o))
  BY <1>5, <1>6, ActivationTells
<1>8. /\ status'[r] = "in_review" /\ steps'[r] = NewSteps(plan)
      /\ outbox'[r] = outbox[r] \o <<RequestCreated>>
                        \o ActivationEvents(ActiveStep(NewSteps(plan)))
  BY DEF CreateRequest, CreateRows, TypeOK, RowsTypeOK
<1>9. outbox'[r] = t
  BY <1>1, <1>2, <1>3, <1>4, <1>6, <1>8
<1>10. EventsOf(r)'
  BY <1>1, <1>2, <1>3, <1>7, <1>8, <1>9 DEF EventsOf
<1>11. ASSUME NEW q \in Requests, q # r PROVE EventsOf(q)'
  BY <1>11, EventsFrame DEF CreateRequest, CreateRows, TypeOK, RowsTypeOK, EventsInv
<1>12. QED
  BY <1>10, <1>11 DEF EventsInv

LEMMA CancelRequestEvents ==
  ASSUME TypeOK, StepChain, EventsInv, NEW r \in Requests, NEW a \in Actors,
         CancelRequest(r, a)
  PROVE  EventsInv'
<1>1. PICK s \in Seq(OutboxEvent) : s = outbox[r]
  BY DEF TypeOK, RowsTypeOK
<1>2. PICK x \in OutboxEvent :
        x = StatusChanged("cancelled") /\ x.type = "request.status" /\ x.status = "cancelled"
  BY EventKinds DEF RequestStatus
<1>3. /\ status[r] = "in_review" /\ status'[r] = "cancelled"
      /\ steps'[r] = steps[r] /\ decisions'[r] = decisions[r]
      /\ outbox'[r] = Append(s, x)
  <2>1. status[r] \in RequestStatus /\ status[r] \notin TerminalStatuses
    BY DEF CancelRequest, CancelRows, CanTransition, TypeOK, RowsTypeOK
  <2>2. status[r] # "pending"
    BY <2>1 DEF StepChain, ReviewAt, RequestStatus
  <2>3. status[r] = "in_review"
    BY <2>1, <2>2 DEF RequestStatus, TerminalStatuses
  <2>4. QED
    BY <1>1, <1>2, <2>3 DEF CancelRequest, CancelRows, TypeOK, RowsTypeOK
<1>4. EventsOf(r)
  BY DEF EventsInv
<1>5. PICK t : t = Append(s, x)
  OBVIOUS
<1>6. /\ Told(t) = Told(s)
      /\ OfType(t, "request.created") = OfType(s, "request.created")
      /\ StatusTold(s, "in_review") => StatusTold(t, "cancelled")
      /\ \A e : IsLast(s, "step.activated", e) => IsLast(t, "step.activated", e)
  <2>1. /\ Told(t) = Told(s)
        /\ \A e : IsLast(s, "step.activated", e) => IsLast(t, "step.activated", e)
    BY <1>2, <1>5, AppendTells
  <2>2. OfType(t, "request.created") = OfType(s, "request.created")
    BY <1>2, <1>5, AppendOfType
  <2>3. QED
    BY <1>2, <1>5, <2>1, <2>2, AppendTellsStatus
<1>7. EventsOf(r)'
  BY <1>1, <1>2, <1>3, <1>4, <1>5, <1>6 DEF EventsOf
<1>8. ASSUME NEW q \in Requests, q # r PROVE EventsOf(q)'
  BY <1>8, EventsFrame DEF CancelRequest, CancelRows, TypeOK, RowsTypeOK, EventsInv
<1>9. QED
  BY <1>7, <1>8 DEF EventsInv

\* After a decision no step but the one announced, or the one decided, is active.
LEMMA ReviewMovesOn ==
  ASSUME TypeOK, StepChain, NEW r \in Requests, NEW a \in Actors, NEW action \in ActionType,
         status[r] # "absent",
         CanDecide(status[r], requester[r], steps[r], decisions[r], a, action),
         NEW o, o = ActiveStep(steps[r]),
         NEW after, after = StepsAfter(steps[r], o, action)
  PROVE  /\ NextActive(after, o) \in Nat
         /\ NextActive(after, o) # 0 => ActiveStep(after) = NextActive(after, o)
         /\ NextActive(after, o) = 0 => ActiveStep(after) \in {0, o}
<1>1. /\ o \in DOMAIN steps[r] /\ o \in Nat \ {0} /\ steps[r][o] \in StepRecord
      /\ IsStepTable(steps[r])
  BY DecidedStepFacts DEF TypeOK, RowsTypeOK
<1>2. PICK at \in {0} \cup DOMAIN steps[r] : ReviewAt(r, at)
  BY DEF StepChain
<1>3. at = o
  BY <1>1, <1>2, ActiveIsUnderReview DEF TypeOK
<1>4. /\ IsStepTable(after) /\ DOMAIN after = DOMAIN steps[r]
      /\ after[o] = DecideStep(steps[r][o], action)
      /\ \A p \in DOMAIN steps[r] \ {o} :
           after[p].status = IF p = o + 1 /\ Completes(steps[r], o, action)
                             THEN "active" ELSE steps[r][p].status
  BY <1>1, StepsAfterEffect
<1>5. \A p \in DOMAIN steps[r] \ {o} : p \in Nat /\ steps[r][p].status # "active"
  BY <1>1, <1>2, <1>3 DEF ReviewAt, IsStepTable
<1>6. ActiveOrders(after) \subseteq {o} \/ ActiveOrders(after) \subseteq {o + 1}
  BY <1>1, <1>4, <1>5 DEF ActiveOrders, Completes
<1>7. /\ ActiveOrders(after) \in SUBSET (Nat \ {0})
      /\ ActiveOrders(after) \ {o} \in SUBSET (Nat \ {0})
  BY <1>4 DEF ActiveOrders, IsStepTable
<1>8. /\ ActiveOrders(after) = {} => ActiveStep(after) = 0
      /\ ActiveOrders(after) # {} => ActiveStep(after) \in ActiveOrders(after)
      /\ ActiveOrders(after) \ {o} = {} => NextActive(after, o) = 0
      /\ ActiveOrders(after) \ {o} # {} => NextActive(after, o) \in ActiveOrders(after) \ {o}
  BY <1>7, FirstOfIsLeast DEF ActiveStep, NextActive
<1>9. QED
  BY <1>1, <1>6, <1>7, <1>8

LEMMA MakeDecisionEvents ==
  ASSUME TypeOK, StepChain, EventsInv, NEW r \in Requests, NEW a \in Actors,
         NEW action \in ActionType, MakeDecision(r, a, action)
  PROVE  EventsInv'
<1>1. PICK o, d, verdict, after :
        /\ o = ActiveStep(steps[r])
        /\ d = [step |-> o, actor |-> a, action |-> action]
        /\ verdict = Verdict(steps[r], o, action)
        /\ after = StepsAfter(steps[r], o, action)
  OBVIOUS
<1>2. /\ status[r] # "absent"
      /\ CanDecide(status[r], requester[r], steps[r], decisions[r], a, action)
      /\ decisions' = [decisions EXCEPT ![r] = @ \cup {d}]
      /\ steps' = [steps EXCEPT ![r] = after]
      /\ status' = [status EXCEPT ![r] = IF verdict = "none" THEN @ ELSE verdict]
      /\ outbox' = [outbox EXCEPT ![r] = @ \o <<DecisionMade(d)>> \o VerdictEvents(verdict)
                                           \o ActivationEvents(NextActive(after, o))]
  BY <1>1 DEF MakeDecision, DecideRows
<1>3. d \in Decision /\ o # 0
  BY <1>1, <1>2, DecidedStepFacts DEF TypeOK
<1>4. verdict \in {"approved", "rejected", "none"}
  BY <1>1, VerdictType
<1>5. PICK next \in Nat : next = NextActive(after, o)
  BY <1>1, <1>2, ReviewMovesOn
<1>6. /\ next # 0 => ActiveStep(after) = next
      /\ next = 0 => ActiveStep(after) \in {0, o}
  BY <1>1, <1>2, <1>5, ReviewMovesOn
<1>7. PICK s \in Seq(OutboxEvent) : s = outbox[r]
  BY DEF TypeOK, RowsTypeOK
<1>8. /\ OfType(s, "request.created") = {1} /\ StatusTold(s, status[r])
      /\ Told(s) = decisions[r] /\ IsLast(s, "step.activated", StepActivated(o))
  BY <1>1, <1>2, <1>3, <1>7 DEF EventsInv, EventsOf
<1>9. PICK x \in OutboxEvent :
        x = DecisionMade(d) /\ x.type = "decision.made" /\ x.decision = d
  BY <1>3, EventKinds
<1>10. PICK s1 \in Seq(OutboxEvent) : s1 = Append(s, x) /\ s1 = s \o <<x>>
  BY ConcatIsAppend, AppendTells
<1>11. /\ OfType(s1, "request.created") = {1} /\ StatusTold(s1, status[r])
       /\ Told(s1) = decisions[r] \cup {d} /\ IsLast(s1, "step.activated", StepActivated(o))
  <2>1. Told(s1) = Told(s) \cup {d}
    BY <1>9, <1>10, AppendTells
  <2>2. /\ OfType(s1, "request.created") = OfType(s, "request.created")
        /\ StatusTold(s1, status[r])
    <3>1. OfType(Append(s, x), "request.created") = OfType(s, "request.created")
      BY <1>9, AppendOfType
    <3>2. PICK st : st = status[r]
      OBVIOUS
    <3>3. StatusTold(Append(s, x), st)
      BY <1>8, <1>9, <3>2, AppendKeepsStatus
    <3>4. QED
      BY <1>10, <3>1, <3>2, <3>3
  <2>3. \A e : IsLast(s, "step.activated", e) => IsLast(s1, "step.activated", e)
    BY <1>9, <1>10, AppendTells
  <2>4. QED
    BY <1>8, <2>1, <2>2, <2>3
<1>12. PICK st : st = IF verdict = "none" THEN status[r] ELSE verdict
  OBVIOUS
<1>13. PICK s2 \in Seq(OutboxEvent) : s2 = s1 \o VerdictEvents(verdict)
  BY <1>4, EventTypes, ConcatProperties
<1>14. /\ OfType(s2, "request.created") = {1} /\ StatusTold(s2, st)
       /\ Told(s2) = decisions[r] \cup {d} /\ IsLast(s2, "step.activated", StepActivated(o))
  <2>1. CASE verdict = "none"
    <3>1. s2 = s1
      BY <1>13, <2>1, ConcatEmptySeq DEF VerdictEvents
    <3>2. QED
      BY <1>11, <1>12, <2>1, <3>1
  <2>2. CASE verdict # "none"
    <3>1. verdict \in RequestStatus /\ verdict # "in_review"
      BY <1>4, <2>2 DEF RequestStatus
    <3>2. status[r] = "in_review"
      <4>1. CanTransition(status[r], verdict) /\ status[r] \in RequestStatus
        BY <1>1, <1>2, <2>2 DEF CanDecide, TypeOK, RowsTypeOK
      <4>2. QED
        BY <1>4, <2>2, <4>1
        DEF CanTransition, AllowedTransitions, RequestStatus, TerminalStatuses
    <3>3. PICK y \in OutboxEvent :
            y = StatusChanged(verdict) /\ y.type = "request.status" /\ y.status = verdict
      BY <3>1, EventKinds
    <3>4. s2 = Append(s1, y)
      BY <1>13, <2>2, <3>3, ConcatIsAppend DEF VerdictEvents
    <3>5. /\ OfType(Append(s1, y), "request.created") = OfType(s1, "request.created")
          /\ StatusTold(s1, "in_review") => StatusTold(Append(s1, y), verdict)
          /\ Told(Append(s1, y)) = Told(s1)
          /\ \A e : IsLast(s1, "step.activated", e) => IsLast(Append(s1, y), "step.activated", e)
      <4>1. /\ Told(Append(s1, y)) = Told(s1)
            /\ \A e : IsLast(s1, "step.activated", e) => IsLast(Append(s1, y), "step.activated", e)
        BY <3>3, AppendTells
      <4>2. OfType(Append(s1, y), "request.created") = OfType(s1, "request.created")
        BY <3>3, AppendOfType
      <4>3. QED
        BY <3>1, <3>3, <4>1, <4>2, AppendTellsStatus
    <3>6. QED
      BY <1>11, <1>12, <2>2, <3>2, <3>4, <3>5
  <2>3. QED  BY <2>1, <2>2
<1>15. PICK t : t = s2 \o ActivationEvents(next)
  OBVIOUS
<1>16. /\ OfType(t, "request.created") = {1} /\ StatusTold(t, st) /\ Told(t) = decisions[r] \cup {d}
       /\ next # 0 => IsLast(t, "step.activated", StepActivated(next))
       /\ next = 0 => IsLast(t, "step.activated", StepActivated(o))
  BY <1>14, <1>15, ActivationTells
<1>17. /\ status'[r] = st /\ steps'[r] = after /\ decisions'[r] = decisions[r] \cup {d}
       /\ outbox'[r] = t /\ st # "absent"
  BY <1>2, <1>4, <1>5, <1>7, <1>9, <1>10, <1>12, <1>13, <1>15 DEF TypeOK, RowsTypeOK
<1>18. EventsOf(r)'
  BY <1>6, <1>16, <1>17 DEF EventsOf
<1>19. ASSUME NEW q \in Requests, q # r PROVE EventsOf(q)'
  BY <1>2, <1>19, EventsFrame DEF TypeOK, RowsTypeOK, EventsInv
<1>20. QED
  BY <1>18, <1>19 DEF EventsInv

\* For any rules and any calls: whoever reads a request's outbox events in order
\* knows its status, the step under review and every decision.
THEOREM EventsAreTelling == Spec => []EventsTellState
<1>1. Init => EventsInv
  BY DEF Init, RowsInit, EventsInv, EventsOf
<1>2. TypeOK /\ StepChain /\ EventsInv /\ [Next]_vars => EventsInv'
  <2> SUFFICES ASSUME TypeOK, StepChain, EventsInv, [Next]_vars PROVE EventsInv'
    OBVIOUS
  <2>1. CASE UNCHANGED vars
    BY <2>1 DEF vars, EventsInv, EventsOf
  <2>2. QED
    BY <2>1, CreateRequestEvents, CancelRequestEvents, MakeDecisionEvents DEF Next
<1>3. QED
  BY <1>1, <1>2, EventsTell, TypeCorrect, ReviewFollowsChain, PTL DEF Spec

-----------------------------------------------------------------------------
(* The audit log. *)

OfAction(entries, act) == {i \in DOMAIN entries : entries[i].action = act}
Recorded(entries) == {entries[i].decision : i \in OfAction(entries, "decision_made")}

\* What the audit log of request r records.
AuditOf(r) ==
  IF status[r] = "absent" THEN audit[r] = <<>> /\ decisions[r] = {}
  ELSE /\ OfAction(audit[r], "created") = {1} /\ audit[r][1] = AuditCreated(requester[r])
       /\ Recorded(audit[r]) = decisions[r]
       /\ IsFiniteSet(decisions[r])
       /\ IF status[r] = "cancelled"
          THEN /\ \E i : OfAction(audit[r], "cancelled") = {i}
               /\ Len(audit[r]) = 2 + Cardinality(decisions[r])
          ELSE /\ OfAction(audit[r], "cancelled") = {}
               /\ Len(audit[r]) = 1 + Cardinality(decisions[r])

AuditInv == \A r \in Requests : AuditOf(r)

LEMMA AuditFrame ==
  ASSUME NEW q \in Requests, AuditOf(q), audit'[q] = audit[q], status'[q] = status[q],
         requester'[q] = requester[q], decisions'[q] = decisions[q]
  PROVE  AuditOf(q)'
BY DEF AuditOf

LEMMA AuditAccounts ==
  ASSUME TypeOK, AuditInv
  PROVE  CallsAudited
<1> SUFFICES ASSUME NEW r \in Requests, status[r] # "absent"
             PROVE  /\ OfAction(audit[r], "created") = {1}
                    /\ audit[r][1].actor = requester[r]
                    /\ Recorded(audit[r]) = decisions[r]
                    /\ Cardinality(OfAction(audit[r], "cancelled")) =
                         IF status[r] = "cancelled" THEN 1 ELSE 0
                    /\ Len(audit[r]) = 1 + Cardinality(decisions[r])
                                         + (IF status[r] = "cancelled" THEN 1 ELSE 0)
  BY DEF CallsAudited, OfAction, Recorded
<1>1. AuditOf(r)
  BY DEF AuditInv
<1>2. AuditCreated(requester[r]).actor = requester[r]
  BY DEF AuditCreated
<1>3. Cardinality(decisions[r]) \in Nat
  BY <1>1, FS_CardinalityType DEF AuditOf
<1>4. Cardinality(OfAction(audit[r], "cancelled")) = IF status[r] = "cancelled" THEN 1 ELSE 0
  BY <1>1, FS_EmptySet, FS_Singleton DEF AuditOf
<1>5. Len(audit[r]) = 1 + Cardinality(decisions[r])
                       + (IF status[r] = "cancelled" THEN 1 ELSE 0)
  BY <1>1, <1>3 DEF AuditOf
<1>6. QED
  BY <1>1, <1>2, <1>4, <1>5 DEF AuditOf

\* One more entry.
LEMMA AppendRecords ==
  ASSUME NEW s \in Seq(AuditEntry), NEW x \in AuditEntry
  PROVE  /\ \A act : OfAction(Append(s, x), act) =
                      OfAction(s, act) \cup (IF x.action = act THEN {Len(s) + 1} ELSE {})
         /\ Recorded(Append(s, x)) =
              Recorded(s) \cup (IF x.action = "decision_made" THEN {x.decision} ELSE {})
         /\ Append(s, x)[Len(s) + 1] = x
         /\ Len(Append(s, x)) = Len(s) + 1
         /\ \A i \in DOMAIN s : Append(s, x)[i] = s[i]
<1>1. PICK t \in Seq(AuditEntry) : t = Append(s, x)
  BY AppendProperties
<1>2. /\ Len(t) = Len(s) + 1 /\ Len(s) \in Nat /\ t[Len(s) + 1] = x
      /\ \A i \in 1 .. Len(s) : t[i] = s[i]
      /\ DOMAIN s = 1 .. Len(s) /\ DOMAIN t = 1 .. Len(t)
  BY <1>1, AppendProperties
<1>3. \A act : OfAction(t, act) =
        OfAction(s, act) \cup (IF x.action = act THEN {Len(s) + 1} ELSE {})
  BY <1>2 DEF OfAction
<1>4. \A act : OfAction(s, act) \subseteq 1 .. Len(s)
  BY <1>2 DEF OfAction
<1>5. Recorded(t) = Recorded(s) \cup (IF x.action = "decision_made" THEN {x.decision} ELSE {})
  <2>1. \A i \in OfAction(s, "decision_made") : t[i].decision = s[i].decision
    BY <1>2, <1>4
  <2>2. QED
    BY <1>2, <1>3, <2>1 DEF Recorded
<1>6. QED
  BY <1>1, <1>2, <1>3, <1>5

\* An entry is one more of its own kind and none of another.
LEMMA AppendOfKind ==
  ASSUME NEW s \in Seq(AuditEntry), NEW x \in AuditEntry, NEW act
  PROVE  /\ x.action = act => OfAction(Append(s, x), act) = OfAction(s, act) \cup {Len(s) + 1}
         /\ x.action # act => OfAction(Append(s, x), act) = OfAction(s, act)
         /\ x.action # "decision_made" => Recorded(Append(s, x)) = Recorded(s)
<1>1. OfAction(Append(s, x), act) =
        OfAction(s, act) \cup (IF x.action = act THEN {Len(s) + 1} ELSE {})
  BY AppendRecords
<1>2. ASSUME x.action # "decision_made" PROVE Recorded(Append(s, x)) = Recorded(s)
  <2>1. Recorded(Append(s, x)) =
          Recorded(s) \cup (IF x.action = "decision_made" THEN {x.decision} ELSE {})
    BY AppendRecords
  <2>2. QED
    BY <1>2, <2>1
<1>3. QED
  BY <1>1, <1>2

\* The kinds of entries.
LEMMA EntryKinds ==
  /\ \A a \in Actors : /\ AuditCreated(a) \in AuditEntry /\ AuditCreated(a).action = "created"
                       /\ AuditCancelled(a) \in AuditEntry
                       /\ AuditCancelled(a).action = "cancelled"
  /\ \A d \in Decision : /\ AuditDecision(d) \in AuditEntry
                         /\ AuditDecision(d).action = "decision_made"
                         /\ AuditDecision(d).decision = d
BY DEF AuditCreated, AuditCancelled, AuditDecision, AuditEntry, AuditAction

LEMMA CreateRequestAudit ==
  ASSUME TypeOK, AuditInv, NEW r \in Requests, NEW a \in Actors, NEW k \in Resources,
         NEW plan \in Plans, CreateRequest(r, a, k, plan)
  PROVE  AuditInv'
<1>1. audit[r] = <<>> /\ decisions[r] = {}
  BY DEF CreateRequest, CreateRows, AuditInv, AuditOf
<1>2. PICK x \in AuditEntry : x = AuditCreated(a) /\ x.action = "created"
  BY EntryKinds
<1>3. PICK s \in Seq(AuditEntry) : s = <<>>
  <2>1. <<>> \in Seq(AuditEntry)
    OBVIOUS
  <2>2. QED
    BY <2>1
<1>4. PICK t : t = Append(s, x)
  OBVIOUS
<1>5. /\ status'[r] = "in_review" /\ requester'[r] = a /\ decisions'[r] = {}
      /\ audit'[r] = t
  BY <1>1, <1>2, <1>3, <1>4 DEF CreateRequest, CreateRows, TypeOK, RowsTypeOK
<1>6. (\A act : OfAction(s, act) = {}) /\ Recorded(s) = {}
  BY <1>3 DEF OfAction, Recorded
<1>7. /\ OfAction(t, "created") = {1} /\ t[1] = x /\ Recorded(t) = {}
      /\ OfAction(t, "cancelled") = {} /\ Len(t) = 1
  <2>1. Len(s) + 1 = 1
    BY <1>3
  <2>2. OfAction(t, "created") = OfAction(s, "created") \cup {Len(s) + 1}
    BY <1>2, <1>4, AppendOfKind
  <2>3. OfAction(t, "cancelled") = OfAction(s, "cancelled")
    BY <1>2, <1>4, AppendOfKind
  <2>4. Recorded(t) = Recorded(s)
    BY <1>2, <1>4, AppendOfKind
  <2>5. t[Len(s) + 1] = x /\ Len(t) = Len(s) + 1
    BY <1>4, AppendRecords
  <2>6. QED
    BY <1>6, <2>1, <2>2, <2>3, <2>4, <2>5
<1>8. AuditOf(r)'
  BY <1>2, <1>5, <1>7, FS_EmptySet DEF AuditOf
<1>9. ASSUME NEW q \in Requests, q # r PROVE AuditOf(q)'
  BY <1>9, AuditFrame DEF CreateRequest, CreateRows, TypeOK, RowsTypeOK, AuditInv
<1>10. QED
  BY <1>8, <1>9 DEF AuditInv

LEMMA CancelRequestAudit ==
  ASSUME TypeOK, AuditInv, NEW r \in Requests, NEW a \in Actors, CancelRequest(r, a)
  PROVE  AuditInv'
<1>1. PICK s \in Seq(AuditEntry) : s = audit[r]
  BY DEF TypeOK, RowsTypeOK
<1>2. PICK x \in AuditEntry : x = AuditCancelled(a) /\ x.action = "cancelled"
  BY EntryKinds
<1>3. PICK t : t = Append(s, x)
  OBVIOUS
<1>4. /\ status[r] # "absent" /\ status[r] # "cancelled" /\ status'[r] = "cancelled"
      /\ requester'[r] = requester[r] /\ decisions'[r] = decisions[r]
      /\ audit'[r] = t
  BY <1>1, <1>2, <1>3
  DEF CancelRequest, CancelRows, CanTransition, TerminalStatuses, TypeOK, RowsTypeOK
<1>5. AuditOf(r) /\ 1 \in DOMAIN s
  BY <1>1, <1>4 DEF AuditInv, AuditOf, OfAction
<1>6. /\ OfAction(t, "created") = OfAction(s, "created") /\ t[1] = s[1]
      /\ Recorded(t) = Recorded(s)
      /\ OfAction(t, "cancelled") = OfAction(s, "cancelled") \cup {Len(s) + 1}
      /\ Len(t) = Len(s) + 1
  <2>1. OfAction(t, "created") = OfAction(s, "created")
    BY <1>2, <1>3, AppendOfKind
  <2>2. OfAction(t, "cancelled") = OfAction(s, "cancelled") \cup {Len(s) + 1}
    BY <1>2, <1>3, AppendOfKind
  <2>3. Recorded(t) = Recorded(s)
    BY <1>2, <1>3, AppendOfKind
  <2>4. t[1] = s[1] /\ Len(t) = Len(s) + 1
    BY <1>3, <1>5, AppendRecords
  <2>5. QED
    BY <2>1, <2>2, <2>3, <2>4
<1>7. /\ OfAction(s, "cancelled") = {} /\ Len(s) = 1 + Cardinality(decisions[r])
      /\ Cardinality(decisions[r]) \in Nat
  BY <1>1, <1>4, <1>5, FS_CardinalityType DEF AuditOf
<1>8. AuditOf(r)'
  <2>1. PICK D : D = decisions[r]
    OBVIOUS
  <2>2. Len(t) = 2 + Cardinality(D)
    BY <1>6, <1>7, <2>1
  <2>3. \E i : OfAction(t, "cancelled") = {i}
    BY <1>6, <1>7
  <2>4. /\ OfAction(t, "created") = {1} /\ t[1] = AuditCreated(requester[r])
        /\ Recorded(t) = D /\ IsFiniteSet(D)
    BY <1>1, <1>4, <1>5, <1>6, <2>1 DEF AuditOf
  <2>5. QED
    BY <1>4, <2>1, <2>2, <2>3, <2>4 DEF AuditOf
<1>9. ASSUME NEW q \in Requests, q # r PROVE AuditOf(q)'
  BY <1>9, AuditFrame DEF CancelRequest, CancelRows, TypeOK, RowsTypeOK, AuditInv
<1>10. QED
  BY <1>8, <1>9 DEF AuditInv

LEMMA MakeDecisionAudit ==
  ASSUME TypeOK, AuditInv, NEW r \in Requests, NEW a \in Actors,
         NEW action \in ActionType, MakeDecision(r, a, action)
  PROVE  AuditInv'
<1>1. PICK o, d, verdict :
        /\ o = ActiveStep(steps[r])
        /\ d = [step |-> o, actor |-> a, action |-> action]
        /\ verdict = Verdict(steps[r], o, action)
  OBVIOUS
<1>2. /\ status[r] # "absent"
      /\ CanDecide(status[r], requester[r], steps[r], decisions[r], a, action)
      /\ decisions' = [decisions EXCEPT ![r] = @ \cup {d}]
      /\ status' = [status EXCEPT ![r] = IF verdict = "none" THEN @ ELSE verdict]
      /\ audit' = [audit EXCEPT ![r] = Append(@, AuditDecision(d))]
      /\ requester' = requester
  BY <1>1 DEF MakeDecision, DecideRows
<1>3. d \in Decision
  BY <1>1, <1>2, DecidedStepFacts DEF TypeOK
<1>4. d \notin decisions[r]
  BY <1>1, <1>2 DEF CanDecide
<1>5. /\ verdict \in {"approved", "rejected", "none"}
      /\ verdict # "none" => status[r] # "cancelled"
  BY <1>1, <1>2, VerdictType DEF CanDecide, CanTransition, TerminalStatuses
<1>6. PICK s \in Seq(AuditEntry) : s = audit[r]
  BY DEF TypeOK, RowsTypeOK
<1>7. PICK x \in AuditEntry :
        x = AuditDecision(d) /\ x.action = "decision_made" /\ x.decision = d
  BY <1>3, EntryKinds
<1>8. PICK t : t = Append(s, x)
  OBVIOUS
<1>9. /\ audit'[r] = t /\ decisions'[r] = decisions[r] \cup {d}
      /\ requester'[r] = requester[r] /\ status'[r] # "absent"
      /\ status'[r] = "cancelled" <=> status[r] = "cancelled"
  BY <1>2, <1>5, <1>6, <1>7, <1>8 DEF TypeOK, RowsTypeOK
<1>10. AuditOf(r) /\ 1 \in DOMAIN s
  BY <1>2, <1>6 DEF AuditInv, AuditOf, OfAction
<1>11. /\ OfAction(t, "created") = OfAction(s, "created") /\ t[1] = s[1]
       /\ Recorded(t) = Recorded(s) \cup {d}
       /\ OfAction(t, "cancelled") = OfAction(s, "cancelled")
       /\ Len(t) = Len(s) + 1 /\ Len(s) \in Nat
  <2>1. OfAction(t, "created") = OfAction(s, "created")
    BY <1>7, <1>8, AppendOfKind
  <2>2. OfAction(t, "cancelled") = OfAction(s, "cancelled")
    BY <1>7, <1>8, AppendOfKind
  <2>3. t[1] = s[1] /\ Recorded(t) = Recorded(s) \cup {d} /\ Len(t) = Len(s) + 1
    BY <1>7, <1>8, <1>10, AppendRecords
  <2>4. QED
    BY <2>1, <2>2, <2>3
<1>12. /\ IsFiniteSet(decisions[r] \cup {d})
       /\ Cardinality(decisions[r] \cup {d}) = Cardinality(decisions[r]) + 1
       /\ Cardinality(decisions[r]) \in Nat
  <2>1. IsFiniteSet(decisions[r])
    BY <1>2, <1>6, <1>10 DEF AuditOf
  <2>2. QED
    BY <1>4, <2>1, FS_AddElement, FS_CardinalityType
<1>13. AuditOf(r)'
  <2>1. PICK D : D = decisions[r] \cup {d}
    OBVIOUS
  <2>2. Len(t) = (IF status[r] = "cancelled" THEN 2 ELSE 1) + Cardinality(D)
    <3>1. Len(s) = (IF status[r] = "cancelled" THEN 2 ELSE 1) + Cardinality(decisions[r])
      BY <1>2, <1>6, <1>10 DEF AuditOf
    <3>2. PICK n \in Nat, k \in {1, 2} :
            /\ n = Cardinality(decisions[r])
            /\ k = (IF status[r] = "cancelled" THEN 2 ELSE 1)
      BY <1>12
    <3>3. Len(s) = k + n /\ Len(t) = Len(s) + 1 /\ Cardinality(D) = n + 1
      BY <1>11, <1>12, <2>1, <3>1, <3>2
    <3>4. Len(t) = k + Cardinality(D)
      BY <3>3
    <3>5. QED
      BY <3>2, <3>4
  <2>3. IF status[r] = "cancelled" THEN \E i : OfAction(t, "cancelled") = {i}
                                   ELSE OfAction(t, "cancelled") = {}
    BY <1>2, <1>6, <1>10, <1>11 DEF AuditOf
  <2>4. /\ OfAction(t, "created") = {1} /\ t[1] = AuditCreated(requester[r])
        /\ Recorded(t) = D /\ IsFiniteSet(D)
    BY <1>2, <1>6, <1>10, <1>11, <1>12, <2>1 DEF AuditOf
  <2>5. QED
    BY <1>9, <2>1, <2>2, <2>3, <2>4 DEF AuditOf
<1>14. ASSUME NEW q \in Requests, q # r PROVE AuditOf(q)'
  BY <1>2, <1>14, AuditFrame DEF TypeOK, RowsTypeOK, AuditInv
<1>15. QED
  BY <1>13, <1>14 DEF AuditInv

\* For any rules and any calls: the audit log records a request's creation, every
\* decision and its cancellation, each once, and nothing else.
THEOREM CallsAreAudited == Spec => []CallsAudited
<1>1. Init => AuditInv
  BY DEF Init, RowsInit, AuditInv, AuditOf
<1>2. TypeOK /\ AuditInv /\ [Next]_vars => AuditInv'
  <2> SUFFICES ASSUME TypeOK, AuditInv, [Next]_vars PROVE AuditInv'
    OBVIOUS
  <2>1. CASE UNCHANGED vars
    BY <2>1 DEF vars, AuditInv, AuditOf
  <2>2. QED
    BY <2>1, CreateRequestAudit, CancelRequestAudit, MakeDecisionAudit DEF Next
<1>3. QED
  BY <1>1, <1>2, AuditAccounts, TypeCorrect, PTL DEF Spec

=============================================================================
