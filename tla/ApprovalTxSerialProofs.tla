------------------------ MODULE ApprovalTxSerialProofs ------------------------
(***************************************************************************)
(* What overlapping changes, for every set of workers, requests,           *)
(* resources, users and plans: only a call whose rows have changed since   *)
(* it read them does what no order of the calls would do, and even then    *)
(* ApprovalTx implements ReviewRecord.                                     *)
(***************************************************************************)
EXTENDS ApprovalTxProofs

-----------------------------------------------------------------------------
(* The checks a call has passed, on the rows it has read. *)

CheckedOK(w) ==
  /\ call[w] \in CancelCall => CanTransition(seen[w].status, "cancelled")
  /\ HasPassed(w) /\ DecidedVerdict(w) # "none" =>
       CanTransition(seen[w].status, DecidedVerdict(w))

CheckedInv == \A w \in Workers : CheckedOK(w)

\* The others keep what they have read.
LEMMA OthersChecked ==
  ASSUME CheckedInv, NEW w \in Workers, OnlyWorker(w), CheckedOK(w)'
  PROVE  CheckedInv'
<1>1. ASSUME NEW v \in Workers, v # w PROVE CheckedOK(v)'
  <2>1. pc'[v] = pc[v] /\ call'[v] = call[v] /\ seen'[v] = seen[v]
    BY <1>1 DEF OnlyWorker
  <2>2. CheckedOK(v)
    BY DEF CheckedInv
  <2>3. QED
    BY <2>1, <2>2 DEF CheckedOK, HasPassed, DecidedVerdict, DecidedStep
<1>2. QED
  BY <1>1 DEF CheckedInv

LEMMA GiveUpChecked ==
  ASSUME TypeInv, CheckedInv, NEW w \in Workers, EndCall(w)
  PROVE  CheckedInv'
<1>1. OnlyWorker(w) /\ call'[w] = NoCall
  BY EndCallFacts
<1>2. CheckedOK(w)'
  BY <1>1, CallsDiffer DEF CheckedOK, HasPassed
<1>3. QED
  BY <1>1, <1>2, OthersChecked

LEMMA BeginChecked ==
  ASSUME TypeInv, CheckedInv, NEW w \in Workers, Begin(w)
  PROVE  CheckedInv'
<1>1. ASSUME NEW r \in Requests, NEW a \in Actors, NEW k \in Resources, NEW plan \in Plans,
             BeginCreate(w, r, a, k, plan)
      PROVE  CheckedInv'
  <2>1. PICK c \in CreateCall :
          c = [kind |-> "create", r |-> r, actor |-> a, k |-> k, plan |-> plan]
    BY DEF CreateCall
  <2>2. OnlyWorker(w) /\ call'[w] = c
    BY <1>1, <2>1 DEF BeginCreate, OnlyWorker, TypeInv, TypeOK
  <2>3. CheckedOK(w)'
    BY <2>2, CallsDiffer DEF CheckedOK, HasPassed
  <2>4. QED
    BY <2>2, <2>3, OthersChecked
<1>2. ASSUME NEW r \in Requests, BeginCancel(w, r)
      PROVE  CheckedInv'
  <2>1. PICK c \in CancelCall : c = [kind |-> "cancel", r |-> r]
    BY DEF CancelCall
  <2>2. OnlyWorker(w) /\ call'[w] = c
    BY <1>2, <2>1 DEF BeginCancel, OnlyWorker, TypeInv, TypeOK
  <2>3. seen[w] = [status |-> seen[w].status, steps |-> seen[w].steps]
    BY DEF TypeInv, WorkerOK
  <2>4. seen'[w].status = status[r] /\ CanTransition(status[r], "cancelled")
    BY <1>2, <2>3 DEF BeginCancel, TypeInv
  <2>5. CheckedOK(w)'
    BY <2>2, <2>4, CallsDiffer DEF CheckedOK, HasPassed
  <2>6. QED
    BY <2>2, <2>5, OthersChecked
<1>3. ASSUME NEW r \in Requests, NEW a \in Actors, NEW action \in ActionType,
             BeginDecide(w, r, a, action)
      PROVE  CheckedInv'
  <2>1. PICK c \in DecideCall : c = [kind |-> "decide", r |-> r, actor |-> a, action |-> action]
    BY DEF DecideCall
  <2>2. OnlyWorker(w) /\ call'[w] = c /\ pc'[w] = "read_steps"
    BY <1>3, <2>1 DEF BeginDecide, OnlyWorker, TypeInv, TypeOK
  <2>3. CheckedOK(w)'
    BY <2>2, CallsDiffer DEF CheckedOK, HasPassed
  <2>4. QED
    BY <2>2, <2>3, OthersChecked
<1>4. QED
  BY <1>1, <1>2, <1>3 DEF Begin

LEMMA StatementChecked ==
  ASSUME TypeInv, CheckedInv, NEW w \in Workers,
         ReadSteps(w) \/ ReadDecisions(w) \/ InsertDecision(w) \/ Lock(w)
  PROVE  CheckedInv'
<1>1. WorkerOK(w) /\ CheckedOK(w)
  BY DEF TypeInv, CheckedInv
<1>2. CASE ReadSteps(w)
  <2>1. call[w] \in DecideCall
    BY <1>1, <1>2 DEF ReadSteps, WorkerOK
  <2>2. OnlyWorker(w) /\ call'[w] = call[w] /\ pc'[w] = "read_decisions"
    BY <1>2 DEF ReadSteps, OnlyWorker, TypeInv, TypeOK
  <2>3. CheckedOK(w)'
    BY <2>1, <2>2, CallsDiffer DEF CheckedOK, HasPassed
  <2>4. QED
    BY <2>2, <2>3, OthersChecked
<1>3. CASE EndCall(w)
  BY <1>3, GiveUpChecked
<1>4. CASE ReadDecisions(w) /\ ~EndCall(w)
  <2>1. call[w] \in DecideCall
    BY <1>1, <1>4 DEF ReadDecisions, WorkerOK
  <2>2. CanDecide(seen[w].status, requester[call[w].r], seen[w].steps,
                  decisions[call[w].r], call[w].actor, call[w].action)
    BY <1>4 DEF ReadDecisions
  <2>3. DecidedVerdict(w) # "none" => CanTransition(seen[w].status, DecidedVerdict(w))
    BY <2>2 DEF CanDecide, DecidedVerdict, DecidedStep
  <2>4. OnlyWorker(w) /\ UNCHANGED <<call, seen>>
    BY <1>4 DEF ReadDecisions, OnlyWorker, TypeInv, TypeOK
  <2>5. CheckedOK(w)'
    BY <2>1, <2>3, <2>4, CallsDiffer DEF CheckedOK, DecidedVerdict, DecidedStep
  <2>6. QED
    BY <2>4, <2>5, OthersChecked
<1>5. CASE (InsertDecision(w) \/ Lock(w)) /\ ~EndCall(w)
  <2>1. UNCHANGED <<call, seen>> /\ (HasPassed(w)' => HasPassed(w))
    BY <1>1, <1>5 DEF InsertDecision, Lock, WorkerOK, HasPassed
  <2>2. OnlyWorker(w)
    BY <1>5 DEF InsertDecision, Lock, OnlyWorker, TypeInv, TypeOK
  <2>3. CheckedOK(w)'
    BY <1>1, <2>1 DEF CheckedOK, DecidedVerdict, DecidedStep
  <2>4. QED
    BY <2>2, <2>3, OthersChecked
<1>6. QED
  BY <1>2, <1>3, <1>4, <1>5

LEMMA CheckedStep ==
  ASSUME TypeInv, CheckedInv, [Next]_vars
  PROVE  CheckedInv'
<1>1. CASE UNCHANGED vars
  BY <1>1 DEF vars, CheckedInv, CheckedOK, HasPassed, DecidedVerdict, DecidedStep
<1>2. ASSUME NEW w \in Workers,
             Abort(w) \/ CommitCreate(w) \/ CommitCancel(w) \/ CommitDecide(w)
      PROVE  CheckedInv'
  BY <1>2, GiveUpChecked DEF Abort, CommitCreate, CommitCancel, CommitDecide
<1>3. QED
  BY <1>1, <1>2, BeginChecked, StatementChecked DEF Next, Step, Quiet

LEMMA CheckedInit == Init => CheckedInv
BY CallsDiffer DEF Init, CheckedInv, CheckedOK, HasPassed

-----------------------------------------------------------------------------
(* Commits as the operations of ApprovalRows. *)

\* The index entry w has locked is free, whatever w has read.
LEMMA CommitCreateRows ==
  ASSUME TypeInv, LockInv, NEW w \in Workers, CommitCreate(w)
  PROVE  \E r \in Requests, a \in Actors, k \in Resources, plan \in Plans :
           CreateRows(r, a, k, plan)
<1>1. PICK r \in Requests, a \in Actors, k \in Resources, plan \in Plans :
        Created(w, r, a, k, plan)
  BY CreateFacts
<1>2. LocksOK(w) /\ todo[w] = <<>> /\ decisions' = decisions
  BY DEF LockInv, CommitCreate, Ready
<1>3. call[w].k = k
  BY <1>1 DEF Created
<1>4. KeyEntry(k) \in held[w]
  BY <1>1, <1>2, <1>3 DEF LocksOK, Wants, Created
<1>5. ~Occupied(k)
  BY <1>2, <1>4 DEF LocksOK
<1>6. CreateRows(r, a, k, plan)
  BY <1>1, <1>2, <1>5 DEF CreateRows, Created
<1>7. QED
  BY <1>6

LEMMA CommitCancelRows ==
  ASSUME TypeInv, CheckedInv, NEW w \in Workers, CommitCancel(w), ~Stale(w)
  PROVE  RowsNext
<1>1. call[w].kind = "cancel" /\ call[w] \in CancelCall
  BY CallKinds DEF CommitCancel, Ready
<1>2. PICK r \in Requests : call[w].r = r
  BY <1>1 DEF CancelCall
<1>3. status[r] # "absent" /\ CanTransition(seen[w].status, "cancelled")
  BY <1>1, <1>2 DEF TypeInv, WorkerOK, CheckedInv, CheckedOK
<1>4. seen[w].status = status[r]
  BY <1>2 DEF Stale
<1>5. CancelRows(r)
  BY <1>2, <1>3, <1>4 DEF CommitCancel, CancelRows
<1>6. QED
  BY <1>5 DEF RowsNext

\* Over the rows it has read, the columns the ORM writes are what the domain
\* objects hold.
LEMMA FreshMerge ==
  ASSUME TypeInv, NEW w \in Workers, HasPassed(w), seen[w].steps = steps[call[w].r]
  PROVE  MergedSteps(w) = DecidedSteps(w)
<1>1. PICK ss, new, o, action : /\ ss = steps[call[w].r] /\ new = DecidedSteps(w)
                                /\ o = DecidedStep(w) /\ action = call[w].action
  OBVIOUS
<1>2. /\ IsStepTable(ss) /\ o \in DOMAIN ss /\ action \in ActionType
      /\ new = StepsAfter(ss, o, action)
  BY <1>1, PassedFacts DEF DecidedSteps
<1>3. /\ DOMAIN new = DOMAIN ss /\ new[o] = DecideStep(ss[o], action)
      /\ \A p \in DOMAIN ss \ {o} : new[p].required = ss[p].required
      /\ IsStepTable(new)
  BY <1>2, StepsAfterEffect
<1>4. ss[o] \in StepRecord
  BY <1>2 DEF IsStepTable
<1>5. new[o].required = ss[o].required
  BY <1>2, <1>3, <1>4, DecideStepEffect
<1>6. \A p \in DOMAIN ss :
        [required |-> ss[p].required, count |-> new[p].count, status |-> new[p].status] = new[p]
  BY <1>3, <1>5 DEF IsStepTable, StepRecord
<1>7. MergedSteps(w) =
        [p \in DOMAIN ss |->
           [required |-> ss[p].required, count |-> new[p].count, status |-> new[p].status]]
  BY <1>1 DEF MergedSteps, Written
<1>8. new = [p \in DOMAIN ss |-> new[p]]
  BY <1>2 DEF StepsAfter
<1>9. QED
  BY <1>1, <1>6, <1>7, <1>8

LEMMA CommitDecideRows ==
  ASSUME TypeInv, ReviewInv, CheckedInv, NEW w \in Workers, CommitDecide(w), ~Stale(w)
  PROVE  RowsNext
<1>1. PICK r \in Requests, a \in Actors, action \in ActionType, o \in Nat \ {0},
          verdict \in {"approved", "rejected", "none"} :
        Decided(w, r, a, action, o, verdict)
  BY DecideFacts
<1>2. /\ call[w].r = r /\ call[w].actor = a /\ call[w].action = action
      /\ call[w].kind = "decide"
      /\ HasPassed(w) /\ HasInserted(w) /\ o = DecidedStep(w) /\ verdict = DecidedVerdict(w)
      /\ status[r] # "absent"
  BY <1>1 DEF Decided
<1>3. seen[w].status = status[r] /\ seen[w].steps = steps[r]
  BY <1>2 DEF Stale
<1>4. /\ o = ActiveStep(steps[r]) /\ verdict = Verdict(steps[r], o, action)
      /\ MergedSteps(w) = StepsAfter(steps[r], o, action)
  BY <1>2, <1>3, FreshMerge DEF DecidedStep, DecidedVerdict, DecidedSteps
<1>5. a # requester[r] /\ \A d \in decisions[r] : d.step = o => d.actor # a
  BY <1>2 DEF ReviewInv, ReadOK
<1>6. verdict # "none" => CanTransition(status[r], verdict)
  BY <1>2, <1>3 DEF CheckedInv, CheckedOK
<1>7. CanDecide(status[r], requester[r], steps[r], decisions[r], a, action)
  BY <1>4, <1>5, <1>6 DEF CanDecide
<1>8. DecideRows(r, a, action)
  BY <1>1, <1>2, <1>4, <1>7 DEF DecideRows, Decided
<1>9. QED
  BY <1>8 DEF RowsNext

\* The steps that touch the tables.
LEMMA OnlyCommitsChange ==
  ASSUME [Next]_vars, ~UNCHANGED db
  PROVE  \E w \in Workers : CommitCreate(w) \/ CommitCancel(w) \/ CommitDecide(w)
<1>1. ~UNCHANGED vars
  BY DEF vars, db
<1>2. PICK w \in Workers : Begin(w) \/ Step(w) \/ Abort(w)
  BY <1>1 DEF Next, Quiet
<1>3. ~Begin(w) /\ ~Abort(w)
  BY DEF Begin, BeginCreate, BeginCancel, BeginDecide, Abort
<1>4. ~ReadSteps(w) /\ ~ReadDecisions(w) /\ ~InsertDecision(w) /\ ~Lock(w)
  BY DEF ReadSteps, ReadDecisions, InsertDecision, Lock
<1>5. QED
  BY <1>2, <1>3, <1>4 DEF Step

\* A commit that is not one of the operations is of a call that read too early.
LEMMA CommitIsSerialUnlessStale ==
  ASSUME TypeInv, LockInv, ReviewInv, CheckedInv, NEW w \in Workers,
         CommitCreate(w) \/ CommitCancel(w) \/ CommitDecide(w)
  PROVE  RowsNext \/ (pc[w] = "write" /\ pc'[w] = "idle" /\ Stale(w) /\ ~CommitCreate(w))
<1>1. CASE CommitCreate(w)
  BY <1>1, CommitCreateRows DEF RowsNext
<1>2. CASE ~CommitCreate(w)
  <2>1. pc[w] = "write" /\ EndCall(w)
    BY <1>2 DEF CommitCancel, CommitDecide, Ready
  <2>2. pc'[w] = "idle"
    BY <2>1, EndCallFacts
  <2>3. QED
    BY <1>2, <2>1, <2>2, CommitCancelRows, CommitDecideRows
<1>3. QED
  BY <1>1, <1>2

LEMMA CheckedAlways == Spec => [](TypeInv /\ LockInv /\ ReviewInv /\ CheckedInv)
BY TypeInit, TypeStep, LockInit, LockStep, ReviewInit, ReviewStep, CheckedInit, CheckedStep,
   PTL DEF Spec

\* Of all the commits of overlapping transactions only those of cancel_request and
\* make_decision whose request has changed since they read it do what serial calls
\* would not: a creation never does, and everybody else's checks still hold of the
\* rows that are written.
THEOREM OnlyStaleCommitsMatter == Spec => SerialUnlessStale
<1>1. ASSUME TypeInv, LockInv, ReviewInv, CheckedInv, [Next]_vars
      PROVE  \/ UNCHANGED db
             \/ RowsNext
             \/ \E w \in Workers : pc[w] = "write" /\ pc'[w] = "idle" /\ Stale(w)
  BY <1>1, OnlyCommitsChange, CommitIsSerialUnlessStale
<1>2. TypeInv /\ LockInv /\ ReviewInv /\ CheckedInv /\ [Next]_vars =>
        [\/ UNCHANGED db
         \/ RowsNext
         \/ \E w \in Workers : pc[w] = "write" /\ pc'[w] = "idle" /\ Stale(w)]_vars
  BY <1>1
<1>3. QED
  BY <1>2, CheckedAlways, PTL DEF Spec, SerialUnlessStale

-----------------------------------------------------------------------------
(* Calls that are served one at a time on each request. *)

\* No two calls are about the same request at once, whatever else overlaps.
Apart ==
  \A v, w \in Workers :
    v # w /\ call[v] # NoCall /\ call[w] # NoCall => call[v].r # call[w].r

\* What worker w has read is what the rows are.
CurrentOK(w) ==
  /\ call[w] \in CancelCall \cup DecideCall => seen[w].status = status[call[w].r]
  /\ HasRead(w) => seen[w].steps = steps[call[w].r]

CurrentInv == \A w \in Workers : CurrentOK(w)

\* A commit of another request leaves what w has read current.
LEMMA OthersCurrent ==
  ASSUME CurrentInv, NEW w \in Workers, OnlyWorker(w), CurrentOK(w)',
         \A v \in Workers \ {w} : call[v] # NoCall =>
           /\ status'[call[v].r] = status[call[v].r]
           /\ steps'[call[v].r] = steps[call[v].r]
  PROVE  CurrentInv'
<1>1. ASSUME NEW v \in Workers, v # w PROVE CurrentOK(v)'
  <2>1. pc'[v] = pc[v] /\ call'[v] = call[v] /\ seen'[v] = seen[v]
    BY <1>1 DEF OnlyWorker
  <2>2. CurrentOK(v)
    BY DEF CurrentInv
  <2>3. call[v] \in CancelCall \cup DecideCall => call[v] # NoCall
    BY CallsDiffer
  <2>4. QED
    BY <1>1, <2>1, <2>2, <2>3 DEF CurrentOK, HasRead
<1>2. QED
  BY <1>1 DEF CurrentInv

LEMMA GiveUpCurrent ==
  ASSUME TypeInv, CurrentInv, NEW w \in Workers, EndCall(w),
         \A v \in Workers \ {w} : call[v] # NoCall =>
           /\ status'[call[v].r] = status[call[v].r]
           /\ steps'[call[v].r] = steps[call[v].r]
  PROVE  CurrentInv'
<1>1. OnlyWorker(w) /\ call'[w] = NoCall
  BY EndCallFacts
<1>2. CurrentOK(w)'
  BY <1>1, CallsDiffer DEF CurrentOK, HasRead
<1>3. QED
  BY <1>1, <1>2, OthersCurrent

\* A statement that leaves the rows alone.
LEMMA QuietCurrent ==
  ASSUME TypeInv, CurrentInv, NEW w \in Workers, UNCHANGED db,
         Begin(w) \/ ReadSteps(w) \/ ReadDecisions(w) \/ InsertDecision(w) \/ Lock(w)
  PROVE  CurrentInv'
<1>1. /\ UNCHANGED <<status, steps>> /\ WorkerOK(w) /\ CurrentOK(w)
      /\ seen[w] = [status |-> seen[w].status, steps |-> seen[w].steps]
  BY DEF db, TypeInv, WorkerOK, CurrentInv
<1>2. CASE EndCall(w)
  BY <1>1, <1>2, GiveUpCurrent
<1>3. ASSUME NEW r \in Requests, NEW a \in Actors, NEW k \in Resources, NEW plan \in Plans,
             BeginCreate(w, r, a, k, plan)
      PROVE  CurrentInv'
  <2>1. PICK c \in CreateCall :
          c = [kind |-> "create", r |-> r, actor |-> a, k |-> k, plan |-> plan]
    BY DEF CreateCall
  <2>2. OnlyWorker(w) /\ call'[w] = c
    BY <1>3, <2>1 DEF BeginCreate, OnlyWorker, TypeInv, TypeOK
  <2>3. CurrentOK(w)'
    BY <2>2, CallsDiffer DEF CurrentOK, HasRead
  <2>4. QED
    BY <1>1, <2>2, <2>3, OthersCurrent
<1>4. ASSUME NEW r \in Requests, BeginCancel(w, r)
      PROVE  CurrentInv'
  <2>1. PICK c \in CancelCall : c = [kind |-> "cancel", r |-> r]
    BY DEF CancelCall
  <2>2. OnlyWorker(w) /\ call'[w] = c
    BY <1>4, <2>1 DEF BeginCancel, OnlyWorker, TypeInv, TypeOK
  <2>3. seen'[w].status = status[r] /\ c.r = r
    BY <1>1, <1>4, <2>1 DEF BeginCancel, TypeInv
  <2>4. CurrentOK(w)'
    BY <1>1, <2>2, <2>3, CallsDiffer DEF CurrentOK, HasRead
  <2>5. QED
    BY <1>1, <2>2, <2>4, OthersCurrent
<1>5. ASSUME NEW r \in Requests, NEW a \in Actors, NEW action \in ActionType,
             BeginDecide(w, r, a, action)
      PROVE  CurrentInv'
  <2>1. PICK c \in DecideCall : c = [kind |-> "decide", r |-> r, actor |-> a, action |-> action]
    BY DEF DecideCall
  <2>2. OnlyWorker(w) /\ call'[w] = c /\ pc'[w] = "read_steps"
    BY <1>5, <2>1 DEF BeginDecide, OnlyWorker, TypeInv, TypeOK
  <2>3. seen'[w].status = status[r] /\ c.r = r
    BY <1>1, <1>5, <2>1 DEF BeginDecide, TypeInv
  <2>4. CurrentOK(w)'
    BY <1>1, <2>2, <2>3 DEF CurrentOK, HasRead
  <2>5. QED
    BY <1>1, <2>2, <2>4, OthersCurrent
<1>6. CASE ReadSteps(w)
  <2>1. OnlyWorker(w) /\ call'[w] = call[w]
    BY <1>6 DEF ReadSteps, OnlyWorker, TypeInv, TypeOK
  <2>2. seen'[w].steps = steps[call[w].r] /\ seen'[w].status = seen[w].status
    BY <1>1, <1>6 DEF ReadSteps, TypeInv
  <2>3. CurrentOK(w)'
    BY <1>1, <2>1, <2>2 DEF CurrentOK, HasRead
  <2>4. QED
    BY <1>1, <2>1, <2>3, OthersCurrent
<1>7. CASE (ReadDecisions(w) \/ InsertDecision(w) \/ Lock(w)) /\ ~EndCall(w)
  <2>1. UNCHANGED <<call, seen>> /\ (HasRead(w)' => HasRead(w))
    BY <1>1, <1>7 DEF ReadDecisions, InsertDecision, Lock, WorkerOK, HasRead
  <2>2. OnlyWorker(w)
    BY <1>7 DEF ReadDecisions, InsertDecision, Lock, OnlyWorker, TypeInv, TypeOK
  <2>3. CurrentOK(w)'
    BY <1>1, <2>1 DEF CurrentOK
  <2>4. QED
    BY <1>1, <2>2, <2>3, OthersCurrent
<1>8. QED
  BY <1>2, <1>3, <1>4, <1>5, <1>6, <1>7 DEF Begin

\* A commit changes the rows of its own call's request.
LEMMA CommitsTheirOwn ==
  ASSUME TypeInv, NEW w \in Workers,
         CommitCreate(w) \/ CommitCancel(w) \/ CommitDecide(w)
  PROVE  /\ EndCall(w) /\ call[w] # NoCall
         /\ \A q \in Requests : q # call[w].r =>
              status'[q] = status[q] /\ steps'[q] = steps[q]
<1>1. EndCall(w) /\ call[w] # NoCall
  BY DEF CommitCreate, CommitCancel, CommitDecide, Ready, NoCall
<1>2. ASSUME NEW q \in Requests, q # call[w].r
      PROVE  status'[q] = status[q] /\ steps'[q] = steps[q]
  BY <1>2 DEF CommitCreate, CommitCancel, CommitDecide, TypeInv, TypeOK
<1>3. QED
  BY <1>1, <1>2

LEMMA CurrentStep ==
  ASSUME TypeInv, CurrentInv, Apart, [Next]_vars
  PROVE  CurrentInv'
<1>1. CASE UNCHANGED vars
  BY <1>1 DEF vars, CurrentInv, CurrentOK, HasRead
<1>2. ASSUME NEW w \in Workers, Abort(w)
      PROVE  CurrentInv'
  BY <1>2, GiveUpCurrent DEF Abort, db
<1>3. ASSUME NEW w \in Workers, CommitCreate(w) \/ CommitCancel(w) \/ CommitDecide(w)
      PROVE  CurrentInv'
  <2>1. /\ EndCall(w) /\ call[w] # NoCall
        /\ \A q \in Requests : q # call[w].r =>
             status'[q] = status[q] /\ steps'[q] = steps[q]
    BY <1>3, CommitsTheirOwn
  <2>2. \A v \in Workers \ {w} : call[v] # NoCall =>
          call[v].r \in Requests /\ call[v].r # call[w].r
    BY <2>1, CallKinds DEF Apart
  <2>3. QED
    BY <2>1, <2>2, GiveUpCurrent
<1>4. ASSUME NEW w \in Workers,
             Begin(w) \/ ReadSteps(w) \/ ReadDecisions(w) \/ InsertDecision(w) \/ Lock(w)
      PROVE  CurrentInv'
  <2>1. UNCHANGED db
    BY <1>4 DEF Begin, BeginCreate, BeginCancel, BeginDecide, ReadSteps, ReadDecisions,
                InsertDecision, Lock
  <2>2. QED
    BY <1>4, <2>1, QuietCurrent
<1>5. QED
  BY <1>1, <1>2, <1>3, <1>4 DEF Next, Step, Quiet

LEMMA CurrentInit == Init => CurrentInv
BY CallsDiffer DEF Init, CurrentInv, CurrentOK, HasRead

\* What has stayed current is not stale at its commit.
LEMMA CurrentIsSerial ==
  ASSUME TypeInv, LockInv, ReviewInv, CheckedInv, CurrentInv, [Next]_vars
  PROVE  [RowsNext]_db
<1>1. ASSUME NEW w \in Workers, CommitCancel(w) \/ CommitDecide(w)
      PROVE  ~Stale(w)
  <2>1. /\ call[w] \in CancelCall \cup DecideCall /\ pc[w] = "write"
        /\ call[w].kind = "decide" => call[w] \in DecideCall
    BY <1>1, CallKinds DEF CommitCancel, CommitDecide, Ready
  <2>2. seen[w].status = status[call[w].r]
    BY <2>1 DEF CurrentInv, CurrentOK
  <2>3. call[w].kind = "decide" => seen[w].steps = steps[call[w].r]
    BY <2>1 DEF CurrentInv, CurrentOK, HasRead
  <2>4. QED
    BY <2>2, <2>3 DEF Stale
<1>2. QED
  BY <1>1, OnlyCommitsChange, CommitIsSerialUnlessStale

\* As long as no two calls are about the same request at once, overlapping is
\* invisible: the tables of ApprovalTx behave like those of ApprovalService.  Row
\* locks, the unique indexes and the checks of the domain suffice; what they do not
\* give is the order of two calls on one request.
THEOREM ApartIsSerial == Spec /\ []Apart => RowsSpec
<1>1. Init => RowsInit
  BY DEF Init
<1>2. TypeInv /\ LockInv /\ ReviewInv /\ CheckedInv /\ CurrentInv /\ [Next]_vars =>
        [RowsNext]_db
  BY CurrentIsSerial
<1>3. TypeInv /\ CurrentInv /\ Apart /\ [Next]_vars => CurrentInv'
  BY CurrentStep
<1>4. QED
  BY <1>1, <1>2, <1>3, CurrentInit, CheckedAlways, PTL DEF Spec, RowsSpec

\* In particular a service with a single connection serves its calls as
\* ApprovalService does.
THEOREM AloneIsSerial ==
  ASSUME \A v, w \in Workers : v = w
  PROVE  Spec => RowsSpec
<1>1. Apart
  BY DEF Apart
<1>2. []Apart
  BY <1>1, PTL
<1>3. QED
  BY <1>2, ApartIsSerial

\* What holds of calls served one at a time then holds: the review walks its steps
\* in order and agrees with the request's status,
THEOREM ApartFollowsChain == Spec /\ []Apart => []StepChain
BY ApartIsSerial, RowsFollowChain, PTL

\* a step counts exactly its approvers,
THEOREM ApartCountsQuorum == Spec /\ []Apart => []QuorumExact
BY ApartIsSerial, RowsCountQuorum, PTL

\* and a request goes through one review to one final status.
THEOREM ApartImplementsLifecycle == Spec /\ []Apart => ImplementsLifecycle
BY ApartIsSerial, RowsImplementLifecycle, PTL

\* So do the two promises that overlapping calls on one request break: current_count
\* is the number of approvals recorded for the step,
THEOREM ApartTalliesCount == Spec /\ []Apart => []CountIsTally
<1>1. QuorumExact => CountIsTally
  BY DEF QuorumExact, CountIsTally
<1>2. QED
  BY <1>1, ApartCountsQuorum, PTL

\* and a settled request keeps its status.
THEOREM ApartSettlesOnce == Spec /\ []Apart => TerminalImmutable
<1>1. RowsTypeOK /\ [RowsNext]_db =>
        [\A r \in Requests : status[r] \in TerminalStatuses => status'[r] = status[r]]_vars
  BY SettledStays
<1>2. QED
  BY <1>1, ApartIsSerial, RowsAreTyped, PTL DEF RowsSpec, TerminalImmutable

-----------------------------------------------------------------------------
(* ApprovalTx implements ReviewRecord. *)

\* The approvals the steps of a table require, and of all the requests.
QuorumsOf(ss) == [o \in DOMAIN ss |-> ss[o].required]
Required == [r \in Requests |-> QuorumsOf(steps[r])]

\* Request q occupies the key k.
Occupies(q, k) == resource[q] = k /\ status[q] \in Occupying

\* Claim is the one occupant where there is one, and None elsewhere.
LEMMA ClaimIsOccupant ==
  OneClaimPerResource =>
    \A k \in Resources :
      /\ ~Occupied(k) => Claim[k] = None
      /\ \A q \in Requests : Occupies(q, k) => Claim[k] = q
<1>1. ASSUME OneClaimPerResource, NEW k \in Resources, NEW q \in Requests, Occupies(q, k)
      PROVE  Claim[k] = q
  <2>1. Occupied(k)
    BY <1>1 DEF Occupied, Occupies
  <2>2. \A p \in Requests : resource[p] = k /\ status[p] \in Occupying => p = q
    BY <1>1 DEF OneClaimPerResource, Occupies
  <2>3. QED
    BY <1>1, <2>1, <2>2 DEF Claim, Occupies
<1>2. ASSUME NEW k \in Resources, ~Occupied(k) PROVE Claim[k] = None
  BY <1>2 DEF Claim
<1>3. QED
  BY <1>1, <1>2

\* The same in the next state.
LEMMA ClaimIsOccupantNext ==
  (OneClaimPerResource =>
    \A k \in Resources :
      /\ ~Occupied(k) => Claim[k] = None
      /\ \A q \in Requests : Occupies(q, k) => Claim[k] = q)'
BY ClaimIsOccupant, PTL

\* A claim changes only when a request starts or stops occupying the key.
LEMMA ClaimStays ==
  ASSUME OneClaimPerResource, OneClaimPerResource', NEW k \in Resources,
         \A q \in Requests : Occupies(q, k)' <=> Occupies(q, k)
  PROVE  Claim'[k] = Claim[k]
<1>1. CASE Occupied(k)
  <2>1. PICK q \in Requests : Occupies(q, k)
    BY <1>1 DEF Occupied, Occupies
  <2>2. Claim[k] = q
    BY <2>1, ClaimIsOccupant
  <2>3. Claim'[k] = q
    BY <2>1, ClaimIsOccupantNext
  <2>4. QED
    BY <2>2, <2>3
<1>2. CASE ~Occupied(k)
  <2>1. ~Occupied(k)'
    BY <1>2 DEF Occupied, Occupies
  <2>2. QED
    BY <1>2, <2>1, ClaimIsOccupant, ClaimIsOccupantNext
<1>3. QED
  BY <1>1, <1>2

\* A step about request r and its key k gives the claim of k another value at most.
LEMMA ClaimChanges ==
  ASSUME OneClaimPerResource, OneClaimPerResource', NEW r \in Requests, NEW k \in Resources,
         \A q \in Requests \ {r} : status'[q] = status[q] /\ resource'[q] = resource[q],
         Occupies(r, k) \/ status[r] \notin Occupying,
         Occupies(r, k)' \/ status'[r] \notin Occupying
  PROVE  /\ Claim' = [Claim EXCEPT ![k] = Claim'[k]]
         /\ Claim'[k] = Claim[k] => Claim' = Claim
<1>1. ASSUME NEW j \in Resources, j # k PROVE Claim'[j] = Claim[j]
  <2>1. \A q \in Requests \ {r} : Occupies(q, j)' <=> Occupies(q, j)
    BY DEF Occupies
  <2>2. ~Occupies(r, j) /\ ~Occupies(r, j)'
    BY <1>1 DEF Occupies
  <2>3. QED
    BY <2>1, <2>2, ClaimStays
<1>2. /\ Claim = [j \in Resources |-> Claim[j]]
      /\ Claim' = [j \in Resources |-> Claim'[j]]
  BY DEF Claim
<1>3. QED
  BY <1>1, <1>2

\* A creation that commits submits its request for a resource nobody claims.
LEMMA CommitCreateSubmits ==
  ASSUME TypeInv, LockInv, LockInv', NEW w \in Workers, CommitCreate(w)
  PROVE  Record!RNext
<1>1. PICK r \in Requests, a \in Actors, k \in Resources, plan \in Plans :
        CreateRows(r, a, k, plan)
  BY CommitCreateRows
<1>2. /\ status[r] = "absent" /\ ~Occupied(k)
      /\ status' = [status EXCEPT ![r] = "in_review"]
      /\ requester' = [requester EXCEPT ![r] = a]
      /\ resource' = [resource EXCEPT ![r] = k]
      /\ steps' = [steps EXCEPT ![r] = NewSteps(plan)]
      /\ UNCHANGED decisions
  BY <1>1 DEF CreateRows
<1>3. Occupies(r, k)' /\ status[r] \notin Occupying
  BY <1>2 DEF Occupies, Occupying, RequestStatus, TypeInv, TypeOK
<1>4. Claim[k] = None /\ Claim'[k] = r
  BY <1>2, <1>3, ClaimIsOccupant, ClaimIsOccupantNext DEF LockInv
<1>5. \A q \in Requests \ {r} : status'[q] = status[q] /\ resource'[q] = resource[q]
  BY <1>2 DEF TypeInv, TypeOK
<1>6. Claim' = [Claim EXCEPT ![k] = r]
  BY <1>3, <1>4, <1>5, ClaimChanges DEF LockInv
<1>7. QuorumsOf(NewSteps(plan)) = plan
  <2>1. IsPlan(plan)
    BY PlansAssumption
  <2>2. /\ DOMAIN NewSteps(plan) = DOMAIN plan
        /\ \A o \in DOMAIN plan : NewSteps(plan)[o].required = plan[o]
    BY <2>1, NewStepsTable
  <2>3. plan = [o \in DOMAIN plan |-> plan[o]]
    BY <2>1 DEF IsPlan
  <2>4. QED
    BY <2>2, <2>3 DEF QuorumsOf
<1>8. Required' = [Required EXCEPT ![r] = plan]
  <2>1. \A q \in Requests : steps'[q] = IF q = r THEN NewSteps(plan) ELSE steps[q]
    BY <1>2 DEF TypeInv
  <2>2. QED
    BY <1>7, <2>1 DEF Required
<1>9. Record!Submit(r, a, k, plan)
  BY <1>2, <1>4, <1>6, <1>8 DEF Record!Submit, Required, QuorumsOf
<1>10. QED
  BY <1>9 DEF Record!RNext

\* A cancellation that commits withdraws its request, or finds it withdrawn.
LEMMA CommitCancelWithdraws ==
  ASSUME TypeInv, LockInv, LockInv', NEW w \in Workers, CommitCancel(w)
  PROVE  Record!RNext \/ UNCHANGED <<db, Claim>>
<1>1. call[w].kind = "cancel" /\ call[w] \in CancelCall
  BY CallKinds DEF CommitCancel, Ready
<1>2. PICK r \in Requests : call[w].r = r
  BY <1>1 DEF CancelCall
<1>3. status[r] # "absent"
  BY <1>1, <1>2 DEF TypeInv, WorkerOK
<1>4. PICK k \in Resources : resource[r] = k
  BY <1>3, HasResource
<1>5. /\ status' = [status EXCEPT ![r] = "cancelled"]
      /\ UNCHANGED <<requester, resource, steps, decisions>>
  BY <1>2 DEF CommitCancel
<1>6. /\ status'[r] = "cancelled" /\ status'[r] \notin Occupying
      /\ \A q \in Requests \ {r} : status'[q] = status[q] /\ resource'[q] = resource[q]
  BY <1>5 DEF TypeInv, TypeOK, Occupying
<1>7. CASE status[r] = "cancelled"
  <2>1. UNCHANGED <<status, resource>>
    BY <1>5, <1>7 DEF TypeInv, TypeOK
  <2>2. \A q \in Requests : Occupies(q, k)' <=> Occupies(q, k)
    BY <2>1 DEF Occupies
  <2>3. Claim'[k] = Claim[k]
    BY <2>2, ClaimStays DEF LockInv
  <2>4. status[r] \notin Occupying
    BY <1>7 DEF Occupying
  <2>5. UNCHANGED Claim
    BY <1>6, <2>3, <2>4, ClaimChanges DEF LockInv
  <2>6. QED
    BY <1>5, <2>1, <2>5 DEF db
<1>8. CASE status[r] # "cancelled"
  <2>1. Occupies(r, k)
    BY <1>3, <1>4, <1>8 DEF Occupies, Occupying, TypeInv, TypeOK
  <2>2. Claim[k] = r
    BY <2>1, ClaimIsOccupant DEF LockInv
  <2>3. ~Occupied(k)'
    BY <1>4, <1>6, <2>1 DEF Occupied, Occupies, LockInv, OneClaimPerResource
  <2>4. Claim'[k] = None
    BY <2>3, ClaimIsOccupantNext DEF LockInv
  <2>5. Claim' = [Claim EXCEPT ![k] = None]
    BY <1>6, <2>1, <2>4, ClaimChanges DEF LockInv
  <2>6. Record!Withdraw(r)
    BY <1>3, <1>4, <1>5, <1>8, <2>2, <2>5 DEF Record!Withdraw
  <2>7. QED
    BY <2>6 DEF Record!RNext
<1>9. QED
  BY <1>7, <1>8

\* A decision that commits has the quorum it reports: what it read of the tally was
\* not too high, and its own approval is one more.
LEMMA DecidedQuorum ==
  ASSUME TypeInv, ReviewInv, NEW w \in Workers, NEW r \in Requests, NEW a \in Actors,
         NEW action \in ActionType, NEW o \in Nat \ {0},
         NEW verdict \in {"approved", "rejected", "none"},
         Decided(w, r, a, action, o, verdict), verdict = "approved"
  PROVE  /\ action = "approve" /\ o + 1 \notin DOMAIN steps[r]
         /\ Quorum(steps[r], decisions'[r], o)
<1>1. PICK sn, ss, ds, more :
        /\ sn = seen[w].steps /\ ss = steps[r] /\ ds = decisions[r]
        /\ more = ds \cup {[step |-> o, actor |-> a, action |-> action]}
  OBVIOUS
<1>2. /\ call[w].r = r /\ call[w].actor = a /\ call[w].action = action
      /\ HasRead(w) /\ HasPassed(w) /\ HasInserted(w) /\ o = DecidedStep(w)
      /\ verdict = Verdict(sn, o, action)
  BY <1>1 DEF Decided, DecidedVerdict
<1>3. decisions'[r] = more
  BY <1>1 DEF Decided, TypeInv
<1>4. /\ IsStepTable(sn) /\ DOMAIN sn = DOMAIN ss /\ o \in DOMAIN ss
      /\ sn[o].status = "active" /\ IsStepTable(ss)
  BY <1>1, <1>2, PassedFacts DEF TypeInv, TypeOK
<1>5. action = "approve" /\ Completes(sn, o, action) /\ o + 1 \notin DOMAIN sn
  BY <1>2 DEF Verdict, ActionType
<1>6. sn[o] \in StepRecord /\ ss[o] \in StepRecord
  BY <1>4 DEF IsStepTable
<1>7. sn[o].count + 1 >= sn[o].required
  BY <1>4, <1>5, <1>6, DecideStepEffect DEF Completes
<1>8. /\ sn[o].required = ss[o].required
      /\ sn[o].count <= Cardinality(Supporters(ds, o))
  BY <1>1, <1>2, <1>4 DEF ReviewInv, ReadOK, SeenOK
<1>9. /\ \A p \in Nat : IsFiniteSet(Supporters(ds, p))
      /\ \A d \in ds : d.step = o => d.actor # a
  BY <1>1, <1>2 DEF ReviewInv, ReviewOK, ReadOK
<1>10. /\ Cardinality(Supporters(ds, o)) \in Nat
       /\ Cardinality(Supporters(more, o)) = Cardinality(Supporters(ds, o)) + 1
  <2>1. a \notin Supporters(ds, o)
    <3>1. [step |-> o, actor |-> a, action |-> "approve"] \notin ds
      BY <1>9
    <3>2. QED
      BY <3>1 DEF Supporters
  <2>2. QED
    BY <1>1, <1>5, <1>9, <2>1, TallyGrows
<1>11. sn[o].count \in Nat /\ sn[o].required \in Nat /\ Cardinality(Supporters(more, o)) \in Nat
  BY <1>6, <1>10 DEF StepRecord
<1>12. Cardinality(Supporters(more, o)) >= ss[o].required
  BY <1>7, <1>8, <1>10, <1>11
<1>13. QED
  BY <1>1, <1>3, <1>4, <1>5, <1>12 DEF Quorum

\* The claim of a decided request: kept, or taken back where nobody holds it.
LEMMA DecidedClaim ==
  ASSUME TypeInv, LockInv, LockInv', NEW w \in Workers, CommitDecide(w),
         NEW r \in Requests, NEW a \in Actors,
         NEW action \in ActionType, NEW o \in Nat \ {0},
         NEW verdict \in {"approved", "rejected", "none"},
         Decided(w, r, a, action, o, verdict)
  PROVE  \/ status'[r] = "cancelled" /\ UNCHANGED Claim
         \/ /\ status'[r] # "cancelled"
            /\ Claim[resource[r]] \in {r, None}
            /\ Claim' = [Claim EXCEPT ![resource[r]] = r]
<1>1. /\ status[r] # "absent" /\ call[w].r = r /\ HasInserted(w) /\ verdict = DecidedVerdict(w)
      /\ status'[r] = IF verdict = "none" THEN status[r] ELSE verdict
      /\ \A q \in Requests \ {r} : status'[q] = status[q] /\ resource'[q] = resource[q]
      /\ resource' = resource
  BY DEF Decided, TypeInv, TypeOK
<1>2. PICK k \in Resources : resource[r] = k
  BY <1>1, HasResource
<1>3. LocksOK(w) /\ todo[w] = <<>>
  BY DEF LockInv, CommitDecide, Ready
<1>4. verdict # "none" => RequestRow(r) \in held[w]
  BY <1>1, <1>3 DEF LocksOK, Wants
<1>5. RequestRow(r) \in held[w] => status[r] \in Occupying \/ ~Occupied(k)
  BY <1>1, <1>2, <1>3 DEF LocksOK, Wants
<1>6. verdict # "none" => verdict \in Occupying
  BY DEF Occupying, RequestStatus
<1>7. status[r] \in RequestStatus /\ (status[r] \notin Occupying <=> status[r] = "cancelled")
  BY <1>1 DEF TypeInv, TypeOK, Occupying
<1>8. CASE status'[r] = "cancelled"
  <2>1. status[r] = "cancelled"
    BY <1>1, <1>6, <1>8 DEF Occupying
  <2>2. \A q \in Requests : Occupies(q, k)' <=> Occupies(q, k)
    BY <1>1, <1>8, <2>1 DEF Occupies
  <2>3. Claim'[k] = Claim[k]
    BY <2>2, ClaimStays DEF LockInv
  <2>4. status[r] \notin Occupying /\ status'[r] \notin Occupying
    BY <1>7, <1>8, <2>1
  <2>5. UNCHANGED Claim
    BY <1>1, <2>3, <2>4, ClaimChanges DEF LockInv
  <2>6. QED
    BY <1>8, <2>5
<1>9. CASE status'[r] # "cancelled"
  <2>1. Occupies(r, k)'
    BY <1>1, <1>2, <1>6, <1>7, <1>9 DEF Occupies
  <2>2. Claim'[k] = r
    BY <2>1, ClaimIsOccupantNext DEF LockInv
  <2>3. CASE status[r] \in Occupying
    <3>1. Occupies(r, k)
      BY <1>2, <2>3 DEF Occupies
    <3>2. Claim[k] = r
      BY <3>1, ClaimIsOccupant DEF LockInv
    <3>3. Claim' = [Claim EXCEPT ![k] = Claim'[k]]
      BY <1>1, <2>1, <3>1, ClaimChanges DEF LockInv
    <3>4. QED
      BY <1>2, <1>9, <2>2, <3>2, <3>3
  <2>4. CASE status[r] \notin Occupying
    <3>1. verdict # "none"
      BY <1>1, <1>7, <1>9, <2>4
    <3>2. ~Occupied(k)
      BY <1>4, <1>5, <2>4, <3>1
    <3>3. Claim[k] = None
      BY <3>2, ClaimIsOccupant DEF LockInv
    <3>4. Claim' = [Claim EXCEPT ![k] = Claim'[k]]
      BY <1>1, <2>1, <2>4, ClaimChanges DEF LockInv
    <3>5. QED
      BY <1>2, <1>9, <2>2, <3>3, <3>4
  <2>5. QED
    BY <2>3, <2>4
<1>10. QED
  BY <1>8, <1>9

\* The record counts a quorum as the steps do.
LEMMA SameCardinality == \A S : Record!Cardinality(S) = Cardinality(S)
BY DEF Cardinality, Record!Cardinality

LEMMA CompleteIsQuorum ==
  ASSUME NEW ss, NEW ds, NEW required, NEW o, required[o] = ss[o].required
  PROVE  Record!Complete(required, ds, o) <=> Quorum(ss, ds, o)
<1>1. Record!InFavour(ds, o) = Supporters(ds, o)
  BY DEF Record!InFavour, Supporters
<1>2. Record!Cardinality(Record!InFavour(ds, o)) = Cardinality(Supporters(ds, o))
  BY <1>1, SameCardinality
<1>3. QED
  BY <1>2 DEF Record!Complete, Quorum

\* A decision that commits casts one vote, on a step whose turn it is.
LEMMA CommitDecideCasts ==
  ASSUME TypeInv, LockInv, LockInv', ReviewInv, NEW w \in Workers, CommitDecide(w)
  PROVE  Record!RNext
<1>1. PICK r \in Requests, a \in Actors, action \in ActionType, o \in Nat \ {0},
          verdict \in {"approved", "rejected", "none"} :
        Decided(w, r, a, action, o, verdict)
  BY DecideFacts
<1>2. PICK v : v = [step |-> o, actor |-> a, action |-> action]
  OBVIOUS
<1>3. /\ status[r] # "absent" /\ UNCHANGED <<requester, resource>>
      /\ decisions' = [decisions EXCEPT ![r] = @ \cup {v}]
      /\ steps' = [steps EXCEPT ![r] = MergedSteps(w)]
      /\ status' = [status EXCEPT ![r] = IF verdict = "none" THEN @ ELSE verdict]
  BY <1>1, <1>2 DEF Decided
<1>4. /\ call[w].r = r /\ call[w].actor = a /\ call[w].action = action
      /\ HasRead(w) /\ HasPassed(w) /\ HasInserted(w) /\ o = DecidedStep(w)
      /\ verdict = Verdict(seen[w].steps, o, action) /\ o \in DOMAIN steps[r]
  BY <1>1 DEF Decided, DecidedVerdict
<1>5. UNCHANGED Required
  <2>1. QuorumsOf(MergedSteps(w)) = QuorumsOf(steps[r])
    <3>1. /\ DOMAIN MergedSteps(w) = DOMAIN steps[r]
          /\ \A p \in DOMAIN steps[r] : MergedSteps(w)[p].required = steps[r][p].required
      BY <1>4, MergedEffect
    <3>2. QED
      BY <3>1 DEF QuorumsOf
  <2>2. \A q \in Requests : steps'[q] = IF q = r THEN MergedSteps(w) ELSE steps[q]
    BY <1>3 DEF TypeInv
  <2>3. QED
    BY <2>1, <2>2 DEF Required
<1>6. /\ Reached(steps[r], decisions[r], o) /\ a # requester[r]
      /\ \A d \in decisions[r] : d.step = o => d.actor # a
  <2>1. seen[w].steps[o].status = "active"
    BY <1>4, PassedFacts
  <2>2. QED
    BY <1>4, <2>1 DEF ReviewInv, ReadOK, SeenOK
<1>7. /\ Required[r] = QuorumsOf(steps[r]) /\ DOMAIN Required[r] = DOMAIN steps[r]
      /\ \A p \in DOMAIN steps[r] : Required[r][p] = steps[r][p].required
  BY DEF Required, QuorumsOf
<1>8. v \in Record!Ballots(r)
  BY <1>2, <1>4, <1>7 DEF Record!Ballots, Required, QuorumsOf, ActionType
<1>9. PICK outcome : outcome = status'[r]
  OBVIOUS
<1>10. outcome \in Record!Outcomes(r, v, decisions[r] \cup {v})
  <2>1. status'[r] = IF verdict = "none" THEN status[r] ELSE verdict
    BY <1>3 DEF TypeInv, TypeOK
  <2>2. CASE action = "reject"
    <3>1. verdict = "rejected"
      BY <1>4, <2>2 DEF Verdict
    <3>2. QED
      BY <1>2, <1>9, <2>1, <2>2, <3>1 DEF Record!Outcomes
  <2>3. CASE action # "reject" /\ verdict = "none"
    BY <1>2, <1>9, <2>1, <2>3 DEF Record!Outcomes
  <2>4. CASE action # "reject" /\ verdict = "approved"
    <3>1. o + 1 \notin DOMAIN steps[r] /\ Quorum(steps[r], decisions'[r], o)
      BY <1>1, <2>4, DecidedQuorum
    <3>2. decisions'[r] = decisions[r] \cup {v}
      BY <1>3 DEF TypeInv
    <3>3. Record!Complete(Required[r], decisions[r] \cup {v}, o)
      BY <1>4, <1>7, <3>1, <3>2, CompleteIsQuorum
    <3>4. QED
      BY <1>2, <1>7, <1>9, <2>1, <2>4, <3>1, <3>3 DEF Record!Outcomes, Required, QuorumsOf
  <2>5. verdict = "rejected" => action = "reject"
    BY <1>4 DEF Verdict
  <2>6. QED
    BY <2>2, <2>3, <2>4, <2>5
<1>11. v.step = 1 \/ (v.step - 1 \in DOMAIN Required[r]
                       /\ Record!Complete(Required[r], decisions[r], v.step - 1))
  BY <1>2, <1>6, <1>7, CompleteIsQuorum DEF Reached
<1>12. status' = [status EXCEPT ![r] = outcome]
  BY <1>3, <1>9 DEF TypeInv, TypeOK
<1>13. \/ outcome = "cancelled" /\ UNCHANGED Claim
       \/ /\ outcome # "cancelled"
          /\ Claim[resource[r]] \in {r, None}
          /\ Claim' = [Claim EXCEPT ![resource[r]] = r]
  BY <1>1, <1>9, DecidedClaim
<1>14. Record!Cast(r, v, outcome)
  BY <1>2, <1>3, <1>5, <1>6, <1>11, <1>12, <1>13 DEF Record!Cast, Required, QuorumsOf
<1>15. QED
  BY <1>8, <1>10, <1>14 DEF Record!RNext

\* Overlapping calls may overrule a verdict or a cancellation, and overlook a
\* completed quorum, but every history of the tables is one of ReviewRecord: votes
\* are cast once per user and step, on a step whose turn it is, and stay; approval
\* takes the last quorum and rejection a vote against; and a resource is claimed by
\* one request at a time.
THEOREM TxImplementsRecord == Spec => ImplementsRecord
<1>1. Init => Record!RInit
  <2> SUFFICES ASSUME Init PROVE Record!RInit
    OBVIOUS
  <2>1. \A r \in Requests : status[r] \notin Occupying
    BY DEF Init, RowsInit, Occupying, RequestStatus
  <2>2. Claim = [k \in Resources |-> None]
    BY <2>1 DEF Claim, Occupied
  <2>3. Required = [r \in Requests |-> <<>>]
    <3>1. QuorumsOf(<<>>) = <<>>
      BY DEF QuorumsOf
    <3>2. QED
      BY <3>1 DEF Init, RowsInit, Required
  <2>4. QED
    BY <2>2, <2>3 DEF Init, RowsInit, Record!RInit, Required, QuorumsOf
<1>2. TypeInv /\ LockInv /\ LockInv' /\ ReviewInv /\ [Next]_vars =>
        [Record!RNext]_(Record!rvars)
  <2> SUFFICES ASSUME TypeInv, LockInv, LockInv', ReviewInv, [Next]_vars
               PROVE  Record!RNext \/ UNCHANGED Record!rvars
    OBVIOUS
  <2>1. UNCHANGED <<db, Claim>> => UNCHANGED Record!rvars
    BY DEF Record!rvars, db
  <2>2. CASE UNCHANGED db
    BY <2>1, <2>2 DEF db, Claim, Occupied
  <2>3. CASE ~UNCHANGED db
    BY <2>1, <2>3, OnlyCommitsChange, CommitCreateSubmits, CommitCancelWithdraws,
       CommitDecideCasts
  <2>4. QED
    BY <2>2, <2>3
<1>3. QED
  BY <1>1, <1>2, CheckedAlways, PTL DEF Spec, ImplementsRecord, Record!RSpec

=============================================================================
