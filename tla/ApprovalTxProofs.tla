--------------------------- MODULE ApprovalTxProofs ---------------------------
(***************************************************************************)
(* ApprovalTx for every set of workers, requests, resources, users and     *)
(* plans: what stale reads and lost updates cannot break.                  *)
(***************************************************************************)
EXTENDS ApprovalTx, ApprovalRowsProofs

-----------------------------------------------------------------------------
(* Calls, rows and types. *)

CreateCall == [kind : {"create"}, r : Requests, actor : Actors, k : Resources, plan : Plans]
CancelCall == [kind : {"cancel"}, r : Requests]
DecideCall == [kind : {"decide"}, r : Requests, actor : Actors, action : ActionType]

\* Worker w decides, and has read the steps; it has passed the checks; and it has
\* inserted its decision.
HasRead(w)   == call[w] \in DecideCall /\ pc[w] \in {"read_decisions", "insert", "write"}
HasPassed(w) == call[w] \in DecideCall /\ pc[w] \in {"insert", "write"}
HasInserted(w) == call[w] \in DecideCall /\ pc[w] = "write"

\* What belongs together in one worker.
WorkerOK(w) ==
  /\ pc[w] = "idle" <=> call[w] = NoCall
  /\ pc[w] \in {"read_steps", "read_decisions", "insert"} => call[w] \in DecideCall
  /\ seen[w] = [status |-> seen[w].status, steps |-> seen[w].steps]
  /\ call[w] \in CreateCall => status[call[w].r] = "absent"
  /\ call[w] \in CancelCall \cup DecideCall => status[call[w].r] # "absent"
  /\ HasRead(w) => IsStepTable(seen[w].steps) /\ DOMAIN seen[w].steps = DOMAIN steps[call[w].r]
  /\ HasPassed(w) => DecidedStep(w) # 0

TypeInv ==
  /\ TypeOK
  /\ DOMAIN steps = Requests /\ DOMAIN decisions = Requests
  /\ DOMAIN seen = Workers /\ DOMAIN todo = Workers /\ DOMAIN held = Workers
  /\ call \in [Workers -> {NoCall} \cup CreateCall \cup CancelCall \cup DecideCall]
  /\ \A r \in Requests : status[r] = "absent" => decisions[r] = {}
  /\ \A w \in Workers : WorkerOK(w)
  /\ \A v, w \in Workers : v # w /\ call[v] # NoCall /\ call[w] \in CreateCall => call[v].r # call[w].r

\* The kind of a call says which fields it has.
LEMMA CallKinds ==
  ASSUME TypeInv, NEW w \in Workers
  PROVE  /\ call[w].kind = "create" => call[w] \in CreateCall
         /\ call[w].kind = "cancel" => call[w] \in CancelCall
         /\ call[w].kind = "decide" => call[w] \in DecideCall
         /\ call[w] # NoCall => call[w] \in CreateCall \cup CancelCall \cup DecideCall
         /\ call[w] # NoCall => call[w].r \in Requests
<1>1. call[w] \in {NoCall} \cup CreateCall \cup CancelCall \cup DecideCall
  BY DEF TypeInv
<1>2. /\ NoCall.kind = "none"
      /\ \A c \in CreateCall : c.kind = "create"
      /\ \A c \in CancelCall : c.kind = "cancel"
      /\ \A c \in DecideCall : c.kind = "decide"
  BY DEF NoCall, CreateCall, CancelCall, DecideCall
<1>3. \A c \in CreateCall \cup CancelCall \cup DecideCall : c.r \in Requests
  BY DEF CreateCall, CancelCall, DecideCall
<1>4. QED
  BY <1>1, <1>2, <1>3

\* The sets of calls are disjoint.
LEMMA CallsDiffer ==
  /\ NoCall \notin CreateCall \cup CancelCall \cup DecideCall
  /\ \A c \in CreateCall : c \notin CancelCall \cup DecideCall /\ c.kind = "create"
  /\ \A c \in CancelCall : c \notin CreateCall \cup DecideCall /\ c.kind = "cancel"
  /\ \A c \in DecideCall : c \notin CreateCall \cup CancelCall /\ c.kind = "decide"
BY DEF NoCall, CreateCall, CancelCall, DecideCall

\* A step concerns one worker.
OnlyWorker(w) ==
  /\ DOMAIN seen' = Workers /\ DOMAIN todo' = Workers /\ DOMAIN held' = Workers
  /\ \A v \in Workers \ {w} :
       /\ pc'[v] = pc[v] /\ call'[v] = call[v] /\ seen'[v] = seen[v]
       /\ todo'[v] = todo[v] /\ held'[v] = held[v]

\* The end of a call leaves its worker idle and empty-handed.
LEMMA EndCallFacts ==
  ASSUME TypeInv, NEW w \in Workers, EndCall(w)
  PROVE  /\ OnlyWorker(w)
         /\ pc'[w] = "idle" /\ call'[w] = NoCall /\ todo'[w] = <<>> /\ held'[w] = {}
         /\ seen'[w] = NoRows
         /\ pc' \in [Workers -> {"idle", "read_steps", "read_decisions", "insert", "write"}]
         /\ call' \in [Workers -> {NoCall} \cup CreateCall \cup CancelCall \cup DecideCall]
BY DEF EndCall, TypeInv, TypeOK, OnlyWorker

\* A worker's own state stays legal when its request keeps its row and its steps.
LEMMA OtherWorkerOK ==
  ASSUME TypeInv, NEW w \in Workers, OnlyWorker(w), NEW v \in Workers \ {w},
         call[v] # NoCall =>
           /\ status'[call[v].r] = "absent" <=> status[call[v].r] = "absent"
           /\ DOMAIN steps'[call[v].r] = DOMAIN steps[call[v].r]
  PROVE  WorkerOK(v)'
<1>1. /\ pc'[v] = pc[v] /\ call'[v] = call[v] /\ seen'[v] = seen[v]
  BY DEF OnlyWorker
<1>2. WorkerOK(v)
  BY DEF TypeInv
<1>3. call[v] \in CreateCall \cup CancelCall \cup DecideCall => call[v] # NoCall
  BY CallsDiffer
<1>4. QED
  BY <1>1, <1>2, <1>3 DEF WorkerOK, HasRead, HasPassed, DecidedStep

\* An idle worker is legal.
LEMMA IdleWorkerOK ==
  ASSUME NEW w \in Workers, pc'[w] = "idle", call'[w] = NoCall, seen'[w] = NoRows
  PROVE  WorkerOK(w)'
BY CallsDiffer DEF WorkerOK, HasRead, HasPassed, NoRows

\* A step that leaves the rows alone.
LEMMA QuietType ==
  ASSUME TypeInv, NEW w \in Workers, OnlyWorker(w), UNCHANGED db, WorkerOK(w)',
         pc' \in [Workers -> {"idle", "read_steps", "read_decisions", "insert", "write"}],
         call' \in [Workers -> {NoCall} \cup CreateCall \cup CancelCall \cup DecideCall],
         pc'[w] = "idle" => held'[w] = {} /\ todo'[w] = <<>>,
         \A v \in Workers \ {w} : call[v] # NoCall /\ call'[w] # NoCall =>
           /\ call'[w] \in CreateCall => call[v].r # call'[w].r
           /\ call[v] \in CreateCall => call[v].r # call'[w].r
  PROVE  TypeInv'
<1>1. \A v \in Workers \ {w} : WorkerOK(v)'
  BY OtherWorkerOK DEF db
<1>2. TypeOK'
  <2>1. \A v \in Workers : pc'[v] = "idle" => held'[v] = {} /\ todo'[v] = <<>>
    BY DEF OnlyWorker, TypeInv, TypeOK
  <2>2. QED
    BY <2>1 DEF TypeInv, TypeOK, db
<1>3. \A v, u \in Workers : v # u /\ call'[v] # NoCall /\ call'[u] \in CreateCall =>
        call'[v].r # call'[u].r
  BY CallsDiffer DEF OnlyWorker, TypeInv
<1>4. QED
  BY <1>1, <1>2, <1>3 DEF TypeInv, OnlyWorker, db

\* A call that ends without a commit.
LEMMA GiveUpType ==
  ASSUME TypeInv, NEW w \in Workers, EndCall(w), UNCHANGED db
  PROVE  TypeInv'
BY EndCallFacts, IdleWorkerOK, QuietType

\* A call that begins.
LEMMA BeginType ==
  ASSUME TypeInv, NEW w \in Workers, Begin(w)
  PROVE  TypeInv'
<1>1. ASSUME NEW r \in Requests, NEW a \in Actors, NEW k \in Resources, NEW plan \in Plans,
             BeginCreate(w, r, a, k, plan)
      PROVE  TypeInv'
  <2>1. PICK c \in CreateCall :
          c = [kind |-> "create", r |-> r, actor |-> a, k |-> k, plan |-> plan]
    BY DEF CreateCall
  <2>2. /\ pc' = [pc EXCEPT ![w] = "write"] /\ call' = [call EXCEPT ![w] = c]
        /\ todo' = [todo EXCEPT ![w] = <<KeyEntry(k)>>]
        /\ UNCHANGED <<db, seen, held>>
        /\ c.r = r /\ status[r] = "absent"
        /\ \A v \in Workers : call[v] # NoCall => call[v].r # r
    BY <1>1, <2>1 DEF BeginCreate
  <2>3. OnlyWorker(w) /\ call'[w] = c /\ pc'[w] = "write" /\ seen'[w] = seen[w]
    BY <2>2 DEF OnlyWorker, TypeInv, TypeOK
  <2>4. c # NoCall /\ c \notin CancelCall \cup DecideCall
    BY CallsDiffer
  <2>5. WorkerOK(w)'
    BY <2>2, <2>3, <2>4 DEF WorkerOK, HasRead, HasPassed, db, TypeInv
  <2>6. /\ pc' \in [Workers -> {"idle", "read_steps", "read_decisions", "insert", "write"}]
        /\ call' \in [Workers -> {NoCall} \cup CreateCall \cup CancelCall \cup DecideCall]
    BY <2>2 DEF TypeInv, TypeOK
  <2>7. QED
    BY <2>2, <2>3, <2>5, <2>6, QuietType
<1>2. ASSUME NEW r \in Requests, BeginCancel(w, r)
      PROVE  TypeInv'
  <2>1. PICK c \in CancelCall : c = [kind |-> "cancel", r |-> r]
    BY DEF CancelCall
  <2>2. /\ pc' = [pc EXCEPT ![w] = "write"] /\ call' = [call EXCEPT ![w] = c]
        /\ seen' = [seen EXCEPT ![w].status = status[r]]
        /\ todo' = [todo EXCEPT ![w] = <<RequestRow(r)>>]
        /\ UNCHANGED <<db, held>>
        /\ c.r = r /\ status[r] # "absent"
    BY <1>2, <2>1 DEF BeginCancel
  <2>3. /\ OnlyWorker(w) /\ call'[w] = c /\ pc'[w] = "write"
        /\ seen'[w] = [status |-> seen'[w].status, steps |-> seen'[w].steps]
    BY <2>2 DEF OnlyWorker, TypeInv, TypeOK, WorkerOK
  <2>4. c # NoCall /\ c \notin CreateCall \cup DecideCall
    BY CallsDiffer
  <2>5. WorkerOK(w)'
    BY <2>2, <2>3, <2>4 DEF WorkerOK, HasRead, HasPassed, db, TypeInv
  <2>6. /\ pc' \in [Workers -> {"idle", "read_steps", "read_decisions", "insert", "write"}]
        /\ call' \in [Workers -> {NoCall} \cup CreateCall \cup CancelCall \cup DecideCall]
    BY <2>2 DEF TypeInv, TypeOK
  <2>7. \A v \in Workers \ {w} : call[v] \in CreateCall => call[v].r # c.r
    BY <2>2 DEF TypeInv, WorkerOK
  <2>8. QED
    BY <2>2, <2>3, <2>4, <2>5, <2>6, <2>7, QuietType
<1>3. ASSUME NEW r \in Requests, NEW a \in Actors, NEW action \in ActionType,
             BeginDecide(w, r, a, action)
      PROVE  TypeInv'
  <2>1. PICK c \in DecideCall : c = [kind |-> "decide", r |-> r, actor |-> a, action |-> action]
    BY DEF DecideCall
  <2>2. /\ pc' = [pc EXCEPT ![w] = "read_steps"] /\ call' = [call EXCEPT ![w] = c]
        /\ seen' = [seen EXCEPT ![w].status = status[r]]
        /\ UNCHANGED <<db, todo, held>>
        /\ c.r = r /\ status[r] # "absent"
    BY <1>3, <2>1 DEF BeginDecide
  <2>3. OnlyWorker(w) /\ call'[w] = c /\ pc'[w] = "read_steps"
    BY <2>2 DEF OnlyWorker, TypeInv, TypeOK
  <2>4. c # NoCall /\ c \notin CreateCall \cup CancelCall
    BY CallsDiffer
  <2>5. WorkerOK(w)'
    <3>1. seen'[w] = [status |-> seen'[w].status, steps |-> seen'[w].steps]
      BY <2>2 DEF TypeInv, WorkerOK
    <3>2. QED
      BY <2>2, <2>3, <2>4, <3>1 DEF WorkerOK, HasRead, HasPassed, db
  <2>6. /\ pc' \in [Workers -> {"idle", "read_steps", "read_decisions", "insert", "write"}]
        /\ call' \in [Workers -> {NoCall} \cup CreateCall \cup CancelCall \cup DecideCall]
    BY <2>2 DEF TypeInv, TypeOK
  <2>7. \A v \in Workers \ {w} : call[v] \in CreateCall => call[v].r # c.r
    BY <2>2 DEF TypeInv, WorkerOK
  <2>8. QED
    BY <2>2, <2>3, <2>4, <2>5, <2>6, <2>7, QuietType
<1>4. QED
  BY <1>1, <1>2, <1>3 DEF Begin

\* A decision past its checks is on an active step of what it has read.
LEMMA PassedFacts ==
  ASSUME TypeInv, NEW w \in Workers, HasPassed(w)
  PROVE  /\ call[w] \in DecideCall /\ call[w].r \in Requests /\ call[w].action \in ActionType
         /\ IsStepTable(seen[w].steps) /\ DOMAIN seen[w].steps = DOMAIN steps[call[w].r]
         /\ DecidedStep(w) \in DOMAIN steps[call[w].r] /\ DecidedStep(w) \in Nat \ {0}
         /\ seen[w].steps[DecidedStep(w)].status = "active"
         /\ status[call[w].r] # "absent"
<1>1. call[w] \in DecideCall /\ HasRead(w)
  BY DEF HasPassed, HasRead
<1>2. WorkerOK(w)
  BY DEF TypeInv
<1>3. IsStepTable(seen[w].steps) /\ DOMAIN seen[w].steps = DOMAIN steps[call[w].r]
  BY <1>1, <1>2 DEF WorkerOK
<1>4. DecidedStep(w) # 0
  BY <1>2 DEF WorkerOK
<1>5. DecidedStep(w) \in DOMAIN seen[w].steps /\ seen[w].steps[DecidedStep(w)].status = "active"
  BY <1>3, <1>4, ActiveStepIsActive DEF DecidedStep
<1>6. DOMAIN seen[w].steps \subseteq Nat \ {0}
  BY <1>3 DEF IsStepTable
<1>7. QED
  BY <1>1, <1>2, <1>3, <1>5, <1>6 DEF WorkerOK, DecideCall

\* A worker goes on to its next statement, with the call it has.
LEMMA MoveOnType ==
  ASSUME TypeInv, NEW w \in Workers, OnlyWorker(w), UNCHANGED <<db, call>>, WorkerOK(w)',
         NEW p \in {"read_decisions", "insert", "write"}, pc' = [pc EXCEPT ![w] = p]
  PROVE  TypeInv'
<1>1. pc' \in [Workers -> {"idle", "read_steps", "read_decisions", "insert", "write"}]
      /\ pc'[w] # "idle"
  BY DEF TypeInv, TypeOK
<1>2. call' \in [Workers -> {NoCall} \cup CreateCall \cup CancelCall \cup DecideCall]
  BY DEF TypeInv
<1>3. \A v \in Workers \ {w} : call[v] # NoCall /\ call'[w] # NoCall =>
        /\ call'[w] \in CreateCall => call[v].r # call'[w].r
        /\ call[v] \in CreateCall => call[v].r # call'[w].r
  BY DEF TypeInv
<1>4. QED
  BY <1>1, <1>2, <1>3, QuietType

\* The statements of a call before its commit.
LEMMA StatementType ==
  ASSUME TypeInv, NEW w \in Workers,
         ReadSteps(w) \/ ReadDecisions(w) \/ InsertDecision(w) \/ Lock(w)
  PROVE  TypeInv'
<1>1. WorkerOK(w) /\ pc[w] \in {"idle", "read_steps", "read_decisions", "insert", "write"}
  BY DEF TypeInv, TypeOK
<1>2. CASE ReadSteps(w)
  <2>1. call[w] \in DecideCall /\ call[w].r \in Requests
    BY <1>1, <1>2 DEF ReadSteps, WorkerOK, DecideCall
  <2>2. /\ seen' = [seen EXCEPT ![w].steps = steps[call[w].r]]
        /\ pc' = [pc EXCEPT ![w] = "read_decisions"]
        /\ UNCHANGED <<db, call, todo, held>>
    BY <1>2 DEF ReadSteps
  <2>3. OnlyWorker(w) /\ call'[w] = call[w] /\ pc'[w] = "read_decisions"
    BY <2>2 DEF OnlyWorker, TypeInv, TypeOK
  <2>4. /\ seen'[w] = [status |-> seen'[w].status, steps |-> seen'[w].steps]
        /\ seen'[w].steps = steps[call[w].r]
    BY <1>1, <2>2 DEF TypeInv, WorkerOK
  <2>5. IsStepTable(steps[call[w].r])
    BY <2>1 DEF TypeInv, TypeOK
  <2>6. IsStepTable(seen'[w].steps) /\ DOMAIN seen'[w].steps = DOMAIN steps'[call'[w].r]
    BY <2>2, <2>3, <2>4, <2>5 DEF db
  <2>7. WorkerOK(w)'
    BY <1>1, <2>1, <2>2, <2>3, <2>4, <2>6, CallsDiffer DEF WorkerOK, HasRead, HasPassed, db
  <2>8. QED
    BY <2>2, <2>3, <2>7, MoveOnType
<1>3. CASE ReadDecisions(w)
  <2>1. CASE EndCall(w)
    BY <1>3, <2>1, GiveUpType DEF ReadDecisions
  <2>2. CASE ~EndCall(w)
    <3>1. /\ CanDecide(seen[w].status, requester[call[w].r], seen[w].steps,
                       decisions[call[w].r], call[w].actor, call[w].action)
          /\ pc[w] = "read_decisions" /\ pc' = [pc EXCEPT ![w] = "insert"]
          /\ UNCHANGED <<db, call, seen, todo, held>>
      BY <1>3, <2>2 DEF ReadDecisions
    <3>2. DecidedStep(w) # 0
      BY <3>1 DEF CanDecide, DecidedStep
    <3>3. OnlyWorker(w) /\ call'[w] = call[w] /\ pc'[w] = "insert" /\ seen'[w] = seen[w]
      BY <3>1 DEF OnlyWorker, TypeInv, TypeOK
    <3>4. DecidedStep(w)' # 0
      BY <3>1, <3>2 DEF DecidedStep
    <3>5. call[w] \in DecideCall
      BY <1>1, <3>1 DEF WorkerOK
    <3>6. WorkerOK(w)'
      BY <1>1, <3>1, <3>3, <3>4, <3>5, CallsDiffer DEF WorkerOK, HasRead, HasPassed, db
    <3>7. QED
      BY <3>1, <3>3, <3>6, MoveOnType
  <2>3. QED  BY <2>1, <2>2
<1>4. CASE InsertDecision(w)
  <2>1. CASE EndCall(w)
    BY <1>4, <2>1, GiveUpType DEF InsertDecision
  <2>2. CASE ~EndCall(w)
    <3>1. PICK entry :
            /\ pc[w] = "insert" /\ pc' = [pc EXCEPT ![w] = "write"]
            /\ held' = [held EXCEPT ![w] = @ \cup {entry}]
            /\ todo' = [todo EXCEPT ![w] = DecisionRows(w)]
            /\ UNCHANGED <<db, call, seen>>
      BY <1>4, <2>2 DEF InsertDecision
    <3>2. OnlyWorker(w) /\ call'[w] = call[w] /\ pc'[w] = "write" /\ seen'[w] = seen[w]
      BY <3>1 DEF OnlyWorker, TypeInv, TypeOK
    <3>3. DecidedStep(w)' = DecidedStep(w)
      BY <3>1 DEF DecidedStep
    <3>4. call[w] \in DecideCall
      BY <1>1, <3>1 DEF WorkerOK
    <3>5. WorkerOK(w)'
      BY <1>1, <3>1, <3>2, <3>3, <3>4, CallsDiffer DEF WorkerOK, HasRead, HasPassed, db
    <3>6. QED
      BY <3>1, <3>2, <3>5, MoveOnType
  <2>3. QED  BY <2>1, <2>2
<1>5. CASE Lock(w)
  <2>1. CASE EndCall(w)
    BY <1>5, <2>1, GiveUpType DEF Lock
  <2>2. CASE ~EndCall(w)
    <3>1. PICK row, rest :
            /\ pc[w] = "write"
            /\ held' = [held EXCEPT ![w] = @ \cup {row}]
            /\ todo' = [todo EXCEPT ![w] = rest]
            /\ UNCHANGED <<db, pc, call, seen>>
      BY <1>5, <2>2 DEF Lock
    <3>2. OnlyWorker(w) /\ call'[w] = call[w] /\ pc'[w] = "write" /\ seen'[w] = seen[w]
      BY <3>1 DEF OnlyWorker, TypeInv, TypeOK
    <3>3. DecidedStep(w)' = DecidedStep(w)
      BY <3>1 DEF DecidedStep
    <3>4. WorkerOK(w)'
      BY <1>1, <3>1, <3>2, <3>3 DEF WorkerOK, HasRead, HasPassed, db
    <3>5. pc' = [pc EXCEPT ![w] = "write"]
      BY <3>1 DEF TypeInv, TypeOK
    <3>6. QED
      BY <3>1, <3>2, <3>4, <3>5, MoveOnType
  <2>3. QED  BY <2>1, <2>2
<1>6. QED
  BY <1>2, <1>3, <1>4, <1>5

\* A commit of legal rows: the others' requests keep their row and their steps.
LEMMA CommitType ==
  ASSUME TypeInv, NEW w \in Workers, EndCall(w), call[w] # NoCall,
         status' \in [Requests -> RequestStatus \cup {"absent"}],
         requester' \in [Requests -> Actors \cup {None}],
         resource' \in [Requests -> Resources \cup {None}],
         DOMAIN steps' = Requests, DOMAIN decisions' = Requests,
         \A r \in Requests :
           /\ IsStepTable(steps'[r])
           /\ decisions'[r] \subseteq
                [step : DOMAIN steps'[r], actor : Actors, action : ActionType],
         \A r \in Requests : status'[r] = "absent" => decisions'[r] = {},
         \A v \in Workers \ {w} : call[v] # NoCall =>
           /\ status'[call[v].r] = "absent" <=> status[call[v].r] = "absent"
           /\ DOMAIN steps'[call[v].r] = DOMAIN steps[call[v].r]
  PROVE  TypeInv'
<1>1. /\ OnlyWorker(w)
      /\ pc'[w] = "idle" /\ call'[w] = NoCall /\ todo'[w] = <<>> /\ held'[w] = {}
      /\ seen'[w] = NoRows
      /\ pc' \in [Workers -> {"idle", "read_steps", "read_decisions", "insert", "write"}]
      /\ call' \in [Workers -> {NoCall} \cup CreateCall \cup CancelCall \cup DecideCall]
  BY EndCallFacts
<1>2. \A v \in Workers : WorkerOK(v)'
  BY <1>1, OtherWorkerOK, IdleWorkerOK
<1>3. \A v \in Workers : pc'[v] = "idle" => held'[v] = {} /\ todo'[v] = <<>>
  BY <1>1 DEF OnlyWorker, TypeInv, TypeOK
<1>4. TypeOK'
  BY <1>1, <1>3 DEF TypeOK
<1>5. \A v, u \in Workers : v # u /\ call'[v] # NoCall /\ call'[u] \in CreateCall =>
        call'[v].r # call'[u].r
  BY <1>1, CallsDiffer DEF OnlyWorker, TypeInv
<1>6. QED
  BY <1>1, <1>2, <1>4, <1>5 DEF TypeInv, OnlyWorker

\* What a create call that commits has inserted.
Created(w, r, a, k, plan) ==
  /\ call[w] = [kind |-> "create", r |-> r, actor |-> a, k |-> k, plan |-> plan]
  /\ call[w] \in CreateCall
  /\ status[r] = "absent"
  /\ status' = [status EXCEPT ![r] = "in_review"]
  /\ requester' = [requester EXCEPT ![r] = a]
  /\ resource' = [resource EXCEPT ![r] = k]
  /\ steps' = [steps EXCEPT ![r] = NewSteps(plan)]
  /\ IsPlan(plan)
  /\ \A v \in Workers \ {w} : call[v] # NoCall => call[v].r # r

\* The same, of the call's own fields.
LEMMA CreateFacts ==
  ASSUME TypeInv, NEW w \in Workers, CommitCreate(w)
  PROVE  \E r \in Requests, a \in Actors, k \in Resources, plan \in Plans : Created(w, r, a, k, plan)
<1>1. call[w].kind = "create" /\ call[w] \in CreateCall
  BY CallKinds DEF CommitCreate, Ready
<1>2. PICK r \in Requests, a \in Actors, k \in Resources, plan \in Plans :
        call[w] = [kind |-> "create", r |-> r, actor |-> a, k |-> k, plan |-> plan]
  BY <1>1 DEF CreateCall
<1>3. status[r] = "absent"
  BY <1>1, <1>2 DEF TypeInv, WorkerOK
<1>4. \A v \in Workers \ {w} : call[v] # NoCall => call[v].r # r
  BY <1>1, <1>2 DEF TypeInv
<1>5. Created(w, r, a, k, plan)
  BY <1>1, <1>2, <1>3, <1>4, PlansAssumption DEF CommitCreate, Created
<1>6. QED
  BY <1>5

LEMMA CommitCreateType ==
  ASSUME TypeInv, NEW w \in Workers, CommitCreate(w)
  PROVE  TypeInv'
<1>1. PICK r \in Requests, a \in Actors, k \in Resources, plan \in Plans : Created(w, r, a, k, plan)
  BY CreateFacts
<1> USE DEF Created
<1>2. EndCall(w) /\ decisions' = decisions
  BY DEF CommitCreate
<1>3. IsStepTable(NewSteps(plan))
  BY <1>1, NewStepsTable
<1>4. /\ status' \in [Requests -> RequestStatus \cup {"absent"}]
      /\ requester' \in [Requests -> Actors \cup {None}]
      /\ resource' \in [Requests -> Resources \cup {None}]
      /\ DOMAIN steps' = Requests /\ DOMAIN decisions' = Requests
  BY <1>1, <1>2 DEF TypeInv, TypeOK, RequestStatus
<1>5. \A v \in Workers \ {w} : call[v] # NoCall =>
        /\ status'[call[v].r] = "absent" <=> status[call[v].r] = "absent"
        /\ DOMAIN steps'[call[v].r] = DOMAIN steps[call[v].r]
  BY <1>1, CallKinds DEF TypeInv, TypeOK
<1>6. \A q \in Requests :
        /\ IsStepTable(steps'[q])
        /\ decisions'[q] \subseteq
             [step : DOMAIN steps'[q], actor : Actors, action : ActionType]
        /\ status'[q] = "absent" => decisions'[q] = {}
  <2> SUFFICES ASSUME NEW q \in Requests
               PROVE  /\ IsStepTable(steps'[q])
                      /\ decisions'[q] \subseteq
                           [step : DOMAIN steps'[q], actor : Actors, action : ActionType]
                      /\ status'[q] = "absent" => decisions'[q] = {}
    OBVIOUS
  <2>1. CASE q = r
    BY <1>1, <1>2, <1>3, <2>1 DEF TypeInv, TypeOK
  <2>2. CASE q # r
    BY <1>1, <1>2, <2>2 DEF TypeInv, TypeOK
  <2>3. QED  BY <2>1, <2>2
<1>7. call[w] # NoCall
  BY <1>1, CallsDiffer
<1>8. QED
  BY <1>2, <1>4, <1>5, <1>6, <1>7, CommitType

LEMMA CommitCancelType ==
  ASSUME TypeInv, NEW w \in Workers, CommitCancel(w)
  PROVE  TypeInv'
<1>1. call[w].kind = "cancel" /\ call[w] \in CancelCall
  BY CallKinds DEF CommitCancel, Ready
<1>2. PICK r \in Requests : call[w].r = r
  BY <1>1 DEF CancelCall
<1>3. status[r] # "absent"
  BY <1>1, <1>2 DEF TypeInv, WorkerOK
<1>4. /\ EndCall(w) /\ UNCHANGED <<requester, resource, steps, decisions>>
      /\ status' = [status EXCEPT ![r] = "cancelled"]
  BY <1>2 DEF CommitCancel
<1>5. /\ status' \in [Requests -> RequestStatus \cup {"absent"}]
      /\ \A q \in Requests : status'[q] = "absent" <=> status[q] = "absent"
  BY <1>3, <1>4 DEF TypeInv, TypeOK, RequestStatus
<1>6. \A v \in Workers \ {w} : call[v] # NoCall =>
        /\ status'[call[v].r] = "absent" <=> status[call[v].r] = "absent"
        /\ DOMAIN steps'[call[v].r] = DOMAIN steps[call[v].r]
  BY <1>4, <1>5, CallKinds
<1>7. call[w] # NoCall
  BY <1>1, CallsDiffer
<1>8. /\ requester' \in [Requests -> Actors \cup {None}]
      /\ resource' \in [Requests -> Resources \cup {None}]
      /\ DOMAIN steps' = Requests /\ DOMAIN decisions' = Requests
      /\ \A q \in Requests :
           /\ IsStepTable(steps'[q])
           /\ decisions'[q] \subseteq
                [step : DOMAIN steps'[q], actor : Actors, action : ActionType]
      /\ \A q \in Requests : status'[q] = "absent" => decisions'[q] = {}
  BY <1>4, <1>5 DEF TypeInv, TypeOK
<1>9. QED
  BY <1>4, <1>5, <1>6, <1>7, <1>8, CommitType

\* A decision that commits, in terms of the steps it has read.
Decided(w, r, a, action, o, verdict) ==
  /\ call[w] = [kind |-> "decide", r |-> r, actor |-> a, action |-> action]
  /\ HasInserted(w) /\ HasPassed(w) /\ HasRead(w)
  /\ o = DecidedStep(w) /\ o \in DOMAIN steps[r] /\ verdict = DecidedVerdict(w)
  /\ verdict \in {"approved", "rejected", "none"}
  /\ status[r] # "absent"
  /\ decisions' = [decisions EXCEPT ![r] =
                     @ \cup {[step |-> o, actor |-> a, action |-> action]}]
  /\ steps' = [steps EXCEPT ![r] = MergedSteps(w)]
  /\ status' = [status EXCEPT ![r] = IF verdict = "none" THEN @ ELSE verdict]
  /\ UNCHANGED <<requester, resource>>
  /\ EndCall(w)

\* The same, of the call's own fields.
LEMMA DecideFacts ==
  ASSUME TypeInv, NEW w \in Workers, CommitDecide(w)
  PROVE  \E r \in Requests, a \in Actors, action \in ActionType, o \in Nat \ {0},
           verdict \in {"approved", "rejected", "none"} :
           Decided(w, r, a, action, o, verdict)
<1>1. call[w].kind = "decide" /\ call[w] \in DecideCall /\ pc[w] = "write"
  BY CallKinds DEF CommitDecide, Ready
<1>2. PICK r \in Requests, a \in Actors, action \in ActionType :
        call[w] = [kind |-> "decide", r |-> r, actor |-> a, action |-> action]
  BY <1>1 DEF DecideCall
<1>3. HasInserted(w) /\ HasPassed(w) /\ HasRead(w)
  BY <1>1 DEF HasInserted, HasPassed, HasRead
<1>4. /\ DecidedStep(w) \in DOMAIN steps[r] /\ DecidedStep(w) \in Nat \ {0}
      /\ status[r] # "absent"
  BY <1>2, <1>3, PassedFacts
<1>5. PICK o \in Nat \ {0} : o = DecidedStep(w)
  BY <1>4
<1>6. PICK verdict : verdict = DecidedVerdict(w)
  OBVIOUS
<1>7. verdict \in {"approved", "rejected", "none"}
  BY <1>6, VerdictType DEF DecidedVerdict
<1>8. status' = [status EXCEPT ![r] = IF verdict = "none" THEN @ ELSE verdict]
  BY <1>2, <1>6 DEF CommitDecide, Written
<1>9. /\ decisions' = [decisions EXCEPT ![r] =
                         @ \cup {[step |-> o, actor |-> a, action |-> action]}]
      /\ steps' = [steps EXCEPT ![r] = MergedSteps(w)]
      /\ UNCHANGED <<requester, resource>>
      /\ EndCall(w)
  BY <1>2, <1>5 DEF CommitDecide
<1>10. Decided(w, r, a, action, o, verdict)
  BY <1>2, <1>3, <1>4, <1>5, <1>6, <1>7, <1>8, <1>9 DEF Decided
<1>11. QED
  BY <1>7, <1>10

\* The rows the ORM updates: what the decision changed, over what the row has become.
LEMMA MergedEffect ==
  ASSUME TypeInv, NEW w \in Workers, HasPassed(w)
  PROVE  /\ IsStepTable(MergedSteps(w))
         /\ DOMAIN MergedSteps(w) = DOMAIN steps[call[w].r]
         /\ \A o \in DOMAIN steps[call[w].r] :
              /\ MergedSteps(w)[o].required = steps[call[w].r][o].required
              /\ MergedSteps(w)[o].count =
                   Written(steps[call[w].r][o].count, seen[w].steps[o].count,
                           DecidedSteps(w)[o].count)
              /\ MergedSteps(w)[o].status =
                   Written(steps[call[w].r][o].status, seen[w].steps[o].status,
                           DecidedSteps(w)[o].status)
<1> DEFINE now == steps[call[w].r]
           new == DecidedSteps(w)
<1>1. /\ call[w].r \in Requests /\ call[w].action \in ActionType
      /\ IsStepTable(seen[w].steps) /\ DOMAIN seen[w].steps = DOMAIN now
      /\ DecidedStep(w) \in DOMAIN seen[w].steps
  BY PassedFacts
<1>2. IsStepTable(new) /\ DOMAIN new = DOMAIN now
  BY <1>1, StepsAfterEffect DEF DecidedSteps
<1>3. IsStepTable(now)
  BY <1>1 DEF TypeInv, TypeOK
<1>4. DOMAIN MergedSteps(w) = DOMAIN now
  BY DEF MergedSteps
<1>5. ASSUME NEW o \in DOMAIN now
      PROVE  /\ MergedSteps(w)[o] \in StepRecord
             /\ MergedSteps(w)[o].required = now[o].required
             /\ MergedSteps(w)[o].count = Written(now[o].count, seen[w].steps[o].count, new[o].count)
             /\ MergedSteps(w)[o].status = Written(now[o].status, seen[w].steps[o].status, new[o].status)
  <2>1. now[o] \in StepRecord /\ new[o] \in StepRecord
    BY <1>2, <1>3 DEF IsStepTable
  <2>2. PICK count : count = Written(now[o].count, seen[w].steps[o].count, new[o].count)
    OBVIOUS
  <2>3. PICK st : st = Written(now[o].status, seen[w].steps[o].status, new[o].status)
    OBVIOUS
  <2>4. MergedSteps(w)[o] = [required |-> now[o].required, count |-> count, status |-> st]
    BY <2>2, <2>3 DEF MergedSteps
  <2>5. count \in Nat /\ st \in StepStatus /\ now[o].required \in Nat \ {0}
    BY <2>1, <2>2, <2>3 DEF Written, StepRecord
  <2>6. QED
    BY <2>2, <2>3, <2>4, <2>5 DEF StepRecord
<1>6. IsStepTable(MergedSteps(w))
  BY <1>3, <1>4, <1>5 DEF IsStepTable
<1>7. QED
  BY <1>4, <1>5, <1>6

LEMMA CommitDecideType ==
  ASSUME TypeInv, NEW w \in Workers, CommitDecide(w)
  PROVE  TypeInv'
<1>1. PICK r \in Requests, a \in Actors, action \in ActionType, o \in Nat \ {0},
          verdict \in {"approved", "rejected", "none"} :
        Decided(w, r, a, action, o, verdict)
  BY DecideFacts
<1> USE DEF Decided
<1>2. IsStepTable(MergedSteps(w)) /\ DOMAIN MergedSteps(w) = DOMAIN steps[r]
  BY <1>1, MergedEffect
<1>3. /\ status' \in [Requests -> RequestStatus \cup {"absent"}]
      /\ \A q \in Requests : status'[q] = "absent" <=> status[q] = "absent"
  BY <1>1 DEF TypeInv, TypeOK, RequestStatus
<1>4. \A q \in Requests : IsStepTable(steps'[q]) /\ DOMAIN steps'[q] = DOMAIN steps[q]
  BY <1>1, <1>2 DEF TypeInv, TypeOK
<1>5. \A q \in Requests : decisions'[q] \subseteq
        [step : DOMAIN steps'[q], actor : Actors, action : ActionType]
  BY <1>1, <1>4 DEF TypeInv, TypeOK
<1>6. \A q \in Requests : status'[q] = "absent" => decisions'[q] = {}
  BY <1>1, <1>3 DEF TypeInv
<1>7. /\ requester' \in [Requests -> Actors \cup {None}]
      /\ resource' \in [Requests -> Resources \cup {None}]
      /\ DOMAIN steps' = Requests /\ DOMAIN decisions' = Requests
  BY <1>1 DEF TypeInv, TypeOK
<1>8. \A v \in Workers \ {w} : call[v] # NoCall =>
        /\ status'[call[v].r] = "absent" <=> status[call[v].r] = "absent"
        /\ DOMAIN steps'[call[v].r] = DOMAIN steps[call[v].r]
  BY <1>3, <1>4, CallKinds
<1>9. call[w] # NoCall
  BY <1>1, CallsDiffer DEF HasRead
<1>10. QED
  BY <1>1, <1>3, <1>4, <1>5, <1>6, <1>7, <1>8, <1>9, CommitType

LEMMA TypeStep ==
  ASSUME TypeInv, [Next]_vars
  PROVE  TypeInv'
<1>1. CASE UNCHANGED vars
  BY <1>1 DEF vars, TypeInv, TypeOK, WorkerOK, HasRead, HasPassed, DecidedStep
<1>2. ASSUME NEW w \in Workers, Abort(w)
      PROVE  TypeInv'
  BY <1>2, GiveUpType DEF Abort
<1>3. QED
  BY <1>1, <1>2, BeginType, StatementType, CommitCreateType, CommitCancelType,
     CommitDecideType DEF Next, Step, Quiet

LEMMA TypeInit == Init => TypeInv
<1> SUFFICES ASSUME Init PROVE TypeInv
  OBVIOUS
<1>1. IsStepTable(<<>>)
  BY DEF IsStepTable
<1>2. TypeOK
  BY <1>1 DEF Init, RowsInit, TypeOK
<1>3. \A w \in Workers : WorkerOK(w)
  BY CallsDiffer DEF Init, RowsInit, WorkerOK, HasRead, HasPassed, NoRows
<1>4. QED
  BY <1>2, <1>3, CallsDiffer DEF Init, RowsInit, TypeInv

\* Every committed row is legal and idle workers hold nothing, whatever the
\* overlapping transactions of approval_service.py read and write.
THEOREM TypeCorrect == Spec => []TypeOK
<1>1. TypeInv => TypeOK
  BY DEF TypeInv
<1>2. QED
  BY <1>1, TypeInit, TypeStep, PTL DEF Spec

-----------------------------------------------------------------------------
(* Locks. *)

Row == {RequestRow(r) : r \in Requests} \cup {KeyEntry(k) : k \in Resources}
         \cup {StepRow(r, o) : r \in Requests, o \in Nat}

\* Worker w has locked the row, or is about to.
Wants(w, row) == row \in held[w] \/ (todo[w] # <<>> /\ Head(todo[w]) = row)

\* What a worker has locked says what nobody else can have done meanwhile: a
\* held index key is free, and a decision holds its request, and the key of a
\* request that was cancelled under its feet.
LocksOK(w) ==
  /\ todo[w] \in Seq(Row)
  /\ pc[w] # "write" => held[w] = {}
  /\ \A k \in Resources : KeyEntry(k) \in held[w] => ~Occupied(k)
  /\ \A k \in Resources : call[w] \in CreateCall /\ call[w].k = k => Wants(w, KeyEntry(k))
  /\ \A r \in Requests : call[w].r = r =>
       /\ call[w] \in CancelCall => Wants(w, RequestRow(r))
       /\ HasInserted(w) /\ DecidedVerdict(w) # "none" => Wants(w, RequestRow(r))
       /\ \A k \in Resources :
            HasInserted(w) /\ RequestRow(r) \in held[w] /\ resource[r] = k =>
              status[r] \in Occupying \/ Wants(w, KeyEntry(k))

LockInv ==
  /\ \A v, w \in Workers : v # w => held[v] \cap held[w] = {}
  /\ \A w \in Workers : LocksOK(w)
  /\ \A r \in Requests : status[r] = "absent" <=> resource[r] = None
  /\ OneClaimPerResource

\* Rows of different kinds are different rows.
LEMMA RowsDiffer ==
  /\ \A r, k : RequestRow(r) # KeyEntry(k)
  /\ \A r, o, a, q : DecisionEntry(r, o, a) # RequestRow(q)
  /\ \A r, o, a, k : DecisionEntry(r, o, a) # KeyEntry(k)
  /\ \A r, q : RequestRow(r) = RequestRow(q) => r = q
  /\ \A k, l : KeyEntry(k) = KeyEntry(l) => k = l
  /\ \A r, o, a, b : DecisionEntry(r, o, a) = DecisionEntry(r, o, b) => a = b
BY DEF RequestRow, KeyEntry, DecisionEntry

\* A request that exists is of a resource.
LEMMA HasResource ==
  ASSUME TypeInv, LockInv, NEW r \in Requests, status[r] # "absent"
  PROVE  resource[r] \in Resources /\ resource[r] # None
BY NoneAssumption DEF TypeInv, TypeOK, LockInv

\* A worker's locks mean the same after another worker's step, when that step
\* occupies no key it holds and cancels no request it holds.
LEMMA OtherLocksOK ==
  ASSUME TypeInv, LockInv, NEW w \in Workers, OnlyWorker(w), NEW v \in Workers \ {w},
         \A k \in Resources : KeyEntry(k) \in held[v] /\ Occupied(k)' => Occupied(k),
         call[v] \in DecideCall =>
           /\ resource'[call[v].r] = resource[call[v].r]
           /\ RequestRow(call[v].r) \in held[v] /\ status[call[v].r] \in Occupying =>
                status'[call[v].r] \in Occupying
  PROVE  LocksOK(v)'
<1>1. /\ pc'[v] = pc[v] /\ call'[v] = call[v] /\ seen'[v] = seen[v]
      /\ todo'[v] = todo[v] /\ held'[v] = held[v]
  BY DEF OnlyWorker
<1>2. LocksOK(v)
  BY DEF LockInv
<1>3. HasInserted(v)' <=> HasInserted(v)
  BY <1>1 DEF HasInserted
<1>4. DecidedVerdict(v)' = DecidedVerdict(v)
  BY <1>1 DEF DecidedVerdict, DecidedStep
<1>5. \A row : Wants(v, row)' <=> Wants(v, row)
  BY <1>1 DEF Wants
<1>6. HasInserted(v) => call[v] \in DecideCall
  BY DEF HasInserted
<1>7. \A k \in Resources : (KeyEntry(k) \in held[v])' => ~Occupied(k)'
  BY <1>1, <1>2 DEF LocksOK
<1>8. \A r \in Requests, k \in Resources :
        call[v].r = r /\ HasInserted(v) /\ RequestRow(r) \in held[v] /\ resource'[r] = k =>
          status'[r] \in Occupying \/ Wants(v, KeyEntry(k))
  BY <1>2, <1>6 DEF LocksOK
<1>9. QED
  BY <1>1, <1>2, <1>3, <1>4, <1>5, <1>7, <1>8 DEF LocksOK

\* An idle worker.
LEMMA IdleLocksOK ==
  ASSUME NEW w \in Workers,
         pc'[w] = "idle", call'[w] = NoCall, todo'[w] = <<>>, held'[w] = {}
  PROVE  LocksOK(w)'
BY CallsDiffer DEF LocksOK, HasInserted

\* A step that leaves the rows alone.
LEMMA QuietLocks ==
  ASSUME TypeInv, LockInv, NEW w \in Workers, OnlyWorker(w), UNCHANGED db, LocksOK(w)',
         \A v \in Workers \ {w} : held[v] \cap held'[w] = {}
  PROVE  LockInv'
<1>1. \A v \in Workers \ {w} : LocksOK(v)'
  BY OtherLocksOK DEF db, Occupied
<1>2. \A v, u \in Workers : v # u => held'[v] \cap held'[u] = {}
  BY DEF OnlyWorker, LockInv
<1>3. QED
  BY <1>1, <1>2 DEF LockInv, db, OneClaimPerResource

LEMMA GiveUpLocks ==
  ASSUME TypeInv, LockInv, NEW w \in Workers, EndCall(w), UNCHANGED db
  PROVE  LockInv'
BY EndCallFacts, IdleLocksOK, QuietLocks

LEMMA BeginLocks ==
  ASSUME TypeInv, LockInv, NEW w \in Workers, Begin(w)
  PROVE  LockInv'
<1>0. LocksOK(w) /\ pc[w] = "idle" /\ held[w] = {}
  BY DEF TypeInv, TypeOK, LockInv, Begin, BeginCreate, BeginCancel, BeginDecide
<1>1. ASSUME NEW r \in Requests, NEW a \in Actors, NEW k \in Resources, NEW plan \in Plans,
             BeginCreate(w, r, a, k, plan)
      PROVE  LockInv'
  <2>1. PICK c \in CreateCall :
          c = [kind |-> "create", r |-> r, actor |-> a, k |-> k, plan |-> plan]
    BY DEF CreateCall
  <2>2. /\ pc' = [pc EXCEPT ![w] = "write"] /\ call' = [call EXCEPT ![w] = c]
        /\ todo' = [todo EXCEPT ![w] = <<KeyEntry(k)>>]
        /\ UNCHANGED <<db, seen, held>>
    BY <1>1, <2>1 DEF BeginCreate
  <2>3. /\ OnlyWorker(w) /\ call'[w] = c /\ held'[w] = {} /\ todo'[w] = <<KeyEntry(k)>>
        /\ pc'[w] = "write"
    BY <1>0, <2>2 DEF OnlyWorker, TypeInv, TypeOK
  <2>4. c \notin CancelCall \cup DecideCall /\ c.k = k
    BY <2>1, CallsDiffer
  <2>5. <<KeyEntry(k)>> \in Seq(Row) /\ <<KeyEntry(k)>> # <<>> /\ Head(<<KeyEntry(k)>>) = KeyEntry(k)
    BY DEF Row
  <2>6. LocksOK(w)'
    BY <2>3, <2>4, <2>5 DEF LocksOK, HasInserted, Wants
  <2>7. QED
    BY <2>2, <2>3, <2>6, QuietLocks
<1>2. ASSUME NEW r \in Requests, BeginCancel(w, r)
      PROVE  LockInv'
  <2>1. PICK c \in CancelCall : c = [kind |-> "cancel", r |-> r]
    BY DEF CancelCall
  <2>2. /\ pc' = [pc EXCEPT ![w] = "write"] /\ call' = [call EXCEPT ![w] = c]
        /\ seen' = [seen EXCEPT ![w].status = status[r]]
        /\ todo' = [todo EXCEPT ![w] = <<RequestRow(r)>>]
        /\ UNCHANGED <<db, held>>
    BY <1>2, <2>1 DEF BeginCancel
  <2>3. /\ OnlyWorker(w) /\ call'[w] = c /\ held'[w] = {} /\ todo'[w] = <<RequestRow(r)>>
        /\ pc'[w] = "write"
    BY <1>0, <2>2 DEF OnlyWorker, TypeInv, TypeOK
  <2>4. c \notin CreateCall \cup DecideCall /\ c.r = r
    BY <2>1, CallsDiffer
  <2>5. /\ <<RequestRow(r)>> \in Seq(Row) /\ <<RequestRow(r)>> # <<>>
        /\ Head(<<RequestRow(r)>>) = RequestRow(r)
    BY DEF Row
  <2>6. LocksOK(w)'
    BY <2>3, <2>4, <2>5 DEF LocksOK, HasInserted, Wants
  <2>7. QED
    BY <2>2, <2>3, <2>6, QuietLocks
<1>3. ASSUME NEW r \in Requests, NEW a \in Actors, NEW action \in ActionType,
             BeginDecide(w, r, a, action)
      PROVE  LockInv'
  <2>1. PICK c \in DecideCall : c = [kind |-> "decide", r |-> r, actor |-> a, action |-> action]
    BY DEF DecideCall
  <2>2. /\ pc' = [pc EXCEPT ![w] = "read_steps"] /\ call' = [call EXCEPT ![w] = c]
        /\ seen' = [seen EXCEPT ![w].status = status[r]]
        /\ UNCHANGED <<db, todo, held>>
    BY <1>3, <2>1 DEF BeginDecide
  <2>3. /\ OnlyWorker(w) /\ call'[w] = c /\ held'[w] = {} /\ todo'[w] = todo[w]
        /\ pc'[w] = "read_steps"
    BY <1>0, <2>2 DEF OnlyWorker, TypeInv, TypeOK
  <2>4. c \notin CreateCall \cup CancelCall
    BY <2>1, CallsDiffer
  <2>5. LocksOK(w)'
    BY <1>0, <2>3, <2>4 DEF LocksOK, HasInserted
  <2>6. QED
    BY <2>2, <2>3, <2>5, QuietLocks
<1>4. QED
  BY <1>1, <1>2, <1>3 DEF Begin

\* The rows a decision updates; the request is the first of them.
LEMMA DecisionRowsFacts ==
  ASSUME TypeInv, NEW w \in Workers, HasPassed(w)
  PROVE  /\ DecisionRows(w) \in Seq(Row)
         /\ DecidedVerdict(w) # "none" =>
              DecisionRows(w) # <<>> /\ Head(DecisionRows(w)) = RequestRow(call[w].r)
<1>1. /\ call[w].r \in Requests /\ call[w].action \in ActionType
      /\ IsStepTable(seen[w].steps) /\ DecidedStep(w) \in DOMAIN seen[w].steps
      /\ DecidedStep(w) \in Nat
  BY PassedFacts
<1>2. NextActive(DecidedSteps(w), DecidedStep(w)) \in Nat
  BY <1>1, StepsAfterEffect, NextActiveIsActive DEF DecidedSteps
<1>3. PICK r \in Requests, o \in Nat, next \in Nat :
        /\ r = call[w].r /\ o = DecidedStep(w)
        /\ next = NextActive(DecidedSteps(w), DecidedStep(w))
  BY <1>1, <1>2
<1>4. PICK front :
        front = IF DecidedVerdict(w) = "none" THEN <<>> ELSE <<RequestRow(r)>>
  OBVIOUS
<1>5. PICK back :
        back = IF next = 0 THEN <<StepRow(r, o)>>
               ELSE IF r \in Descending THEN <<StepRow(r, next), StepRow(r, o)>>
               ELSE <<StepRow(r, o), StepRow(r, next)>>
  OBVIOUS
<1>6. DecisionRows(w) = front \o back
  BY <1>3, <1>4, <1>5 DEF DecisionRows
<1>7. RequestRow(r) \in Row /\ StepRow(r, o) \in Row /\ StepRow(r, next) \in Row
  BY DEF Row
<1>8. front \in Seq(Row)
  BY <1>4, <1>7
<1>9. back \in Seq(Row)
  BY <1>5, <1>7
<1>10. DecidedVerdict(w) # "none" =>
         DecisionRows(w) # <<>> /\ Head(DecisionRows(w)) = RequestRow(r)
  <2> HAVE DecidedVerdict(w) # "none"
  <2>1. front = <<RequestRow(r)>>
    BY <1>4
  <2>2. Len(front \o back) > 0 /\ (front \o back)[1] = RequestRow(r)
    BY <1>7, <1>9, <2>1
  <2>3. front \o back \in Seq(Row)
    BY <1>8, <1>9
  <2>4. QED
    BY <1>6, <2>2, <2>3
<1>11. QED
  BY <1>3, <1>6, <1>8, <1>9, <1>10

LEMMA ReadLocks ==
  ASSUME TypeInv, LockInv, NEW w \in Workers, ReadSteps(w) \/ ReadDecisions(w)
  PROVE  LockInv'
<1>1. /\ LocksOK(w) /\ pc[w] \in {"read_steps", "read_decisions"} /\ held[w] = {}
      /\ call[w] \in DecideCall /\ call[w] \notin CreateCall \cup CancelCall
  <2>1. LocksOK(w) /\ pc[w] \in {"read_steps", "read_decisions"} /\ WorkerOK(w)
    BY DEF LockInv, ReadSteps, ReadDecisions, TypeInv
  <2>2. QED
    BY <2>1, CallsDiffer DEF LocksOK, WorkerOK
<1>2. CASE EndCall(w) /\ UNCHANGED db
  BY <1>2, GiveUpLocks
<1>3. CASE ~(EndCall(w) /\ UNCHANGED db)
  <2>1. PICK p \in {"read_decisions", "insert"} :
          pc' = [pc EXCEPT ![w] = p] /\ UNCHANGED <<db, call, todo, held>>
    BY <1>3 DEF ReadSteps, ReadDecisions
  <2>2. DOMAIN seen' = Workers /\ \A v \in Workers \ {w} : seen'[v] = seen[v]
    BY <1>3 DEF ReadSteps, ReadDecisions, TypeInv
  <2>3. OnlyWorker(w) /\ pc'[w] = p
    BY <2>1, <2>2 DEF OnlyWorker, TypeInv, TypeOK
  <2>4. LocksOK(w)'
    BY <1>1, <2>1, <2>3 DEF LocksOK, HasInserted
  <2>5. QED
    BY <1>1, <2>1, <2>3, <2>4, QuietLocks
<1>4. QED
  BY <1>2, <1>3

LEMMA InsertLocks ==
  ASSUME TypeInv, LockInv, NEW w \in Workers, InsertDecision(w)
  PROVE  LockInv'
<1>1. LocksOK(w) /\ WorkerOK(w) /\ pc[w] = "insert"
  BY DEF LockInv, InsertDecision, TypeInv
<1>2. /\ held[w] = {} /\ call[w] \in DecideCall /\ call[w] \notin CreateCall \cup CancelCall
      /\ HasPassed(w)
  BY <1>1, CallsDiffer DEF LocksOK, WorkerOK, HasPassed
<1>3. CASE EndCall(w)
  BY <1>3, GiveUpLocks DEF InsertDecision
<1>4. CASE ~EndCall(w)
  <2>1. PICK entry, rows :
          /\ entry = DecisionEntry(call[w].r, DecidedStep(w), call[w].actor)
          /\ rows = DecisionRows(w)
          /\ ~Busy(w, entry)
          /\ held' = [held EXCEPT ![w] = @ \cup {entry}]
          /\ todo' = [todo EXCEPT ![w] = rows]
          /\ pc' = [pc EXCEPT ![w] = "write"]
          /\ UNCHANGED <<db, call, seen>>
    BY <1>4 DEF InsertDecision
  <2>2. /\ OnlyWorker(w) /\ held'[w] = {entry} /\ todo'[w] = rows /\ pc'[w] = "write"
    BY <1>2, <2>1 DEF OnlyWorker, TypeInv, TypeOK
  <2>3. /\ rows \in Seq(Row)
        /\ DecidedVerdict(w) # "none" => rows # <<>> /\ Head(rows) = RequestRow(call[w].r)
    BY <1>2, <2>1, DecisionRowsFacts
  <2>4. \A v \in Workers \ {w} : held[v] \cap held'[w] = {}
    BY <2>1, <2>2 DEF Busy, Holds
  <2>5. /\ \A k : KeyEntry(k) \notin held'[w]
        /\ \A r : RequestRow(r) \notin held'[w]
    BY <2>1, <2>2, RowsDiffer
  <2>6. DecidedVerdict(w)' = DecidedVerdict(w)
    BY <2>1 DEF DecidedVerdict, DecidedStep
  <2>7. \A r \in Requests :
          call'[w].r = r /\ DecidedVerdict(w)' # "none" => Wants(w, RequestRow(r))'
    BY <2>1, <2>2, <2>3, <2>6 DEF Wants
  <2>8. LocksOK(w)'
    BY <1>2, <2>1, <2>2, <2>3, <2>5, <2>7 DEF LocksOK
  <2>9. QED
    BY <2>1, <2>2, <2>4, <2>8, QuietLocks
<1>5. QED
  BY <1>3, <1>4

\* One statement of the flush locks the row it writes, or enters the key as well.
LEMMA LockLocks ==
  ASSUME TypeInv, LockInv, NEW w \in Workers, Lock(w)
  PROVE  LockInv'
<1>1. LocksOK(w) /\ WorkerOK(w) /\ pc[w] = "write" /\ todo[w] # <<>> /\ todo[w] \in Seq(Row)
  BY DEF LockInv, Lock, TypeInv, LocksOK
<1>2. CASE EndCall(w)
  BY <1>2, GiveUpLocks DEF Lock
<1>3. CASE ~EndCall(w)
  <2>1. PICK row, r, front :
          /\ row = Head(todo[w]) /\ r = call[w].r
          /\ front = IF call[w].kind = "decide" /\ row = RequestRow(r) /\ status[r] \notin Occupying
                     THEN <<KeyEntry(resource[r])>> ELSE <<>>
          /\ ~Busy(w, row)
          /\ ~(\E k \in Resources : row = KeyEntry(k) /\ Occupied(k))
          /\ held' = [held EXCEPT ![w] = @ \cup {row}]
          /\ todo' = [todo EXCEPT ![w] = front \o Tail(@)]
          /\ UNCHANGED <<db, pc, call, seen>>
    BY <1>3 DEF Lock
  <2>2. /\ OnlyWorker(w) /\ held'[w] = held[w] \cup {row} /\ todo'[w] = front \o Tail(todo[w])
        /\ pc'[w] = "write" /\ call'[w] = call[w]
    BY <1>1, <2>1 DEF OnlyWorker, TypeInv, TypeOK
  <2>3. r \in Requests /\ call[w] # NoCall
    BY <1>1, <2>1, CallKinds DEF WorkerOK
  <2>4. row \in Row /\ Tail(todo[w]) \in Seq(Row)
    BY <1>1, <2>1
  <2>5. /\ front \in Seq(Row)
        /\ call[w] \in DecideCall /\ row = RequestRow(r) /\ status[r] \notin Occupying =>
             \A k \in Resources : resource[r] = k => front = <<KeyEntry(k)>>
    <3>1. CASE call[w].kind = "decide" /\ row = RequestRow(r) /\ status[r] \notin Occupying
      <4>1. status[r] # "absent"
        BY <1>1, <2>1, <3>1, CallKinds DEF WorkerOK
      <4>2. KeyEntry(resource[r]) \in Row
        BY <2>3, <4>1, HasResource DEF Row
      <4>3. front = <<KeyEntry(resource[r])>>
        BY <2>1, <3>1
      <4>4. QED
        BY <4>2, <4>3
    <3>2. CASE ~(call[w].kind = "decide" /\ row = RequestRow(r) /\ status[r] \notin Occupying)
      BY <2>1, <3>2, CallsDiffer
    <3>3. QED  BY <3>1, <3>2
  <2>6. todo'[w] \in Seq(Row)
    BY <2>2, <2>4, <2>5
  <2>7. \A old : Wants(w, old) => old \in held'[w]
    BY <2>1, <2>2 DEF Wants
  <2>8. \A old : old \in held'[w] => Wants(w, old)'
    BY DEF Wants
  <2>9. \A k \in Resources : KeyEntry(k) \in held'[w] => ~Occupied(k)
    BY <1>1, <2>1, <2>2 DEF LocksOK
  <2>10. \A k \in Resources : Occupied(k)' <=> Occupied(k)
    BY <2>1 DEF Occupied, db
  <2>11. \A k \in Resources :
           HasInserted(w) /\ RequestRow(r) \in held'[w] /\ resource[r] = k =>
             status[r] \in Occupying \/ Wants(w, KeyEntry(k))'
    <3> SUFFICES ASSUME NEW k \in Resources, HasInserted(w), RequestRow(r) \in held'[w],
                        resource[r] = k, status[r] \notin Occupying
                 PROVE  Wants(w, KeyEntry(k))'
      OBVIOUS
    <3>1. CASE RequestRow(r) \in held[w]
      BY <1>1, <2>1, <2>3, <2>7, <2>8, <3>1 DEF LocksOK
    <3>2. CASE row = RequestRow(r)
      <4>1. front = <<KeyEntry(k)>>
        BY <2>5, <3>2 DEF HasInserted
      <4>2. /\ Len(front \o Tail(todo[w])) > 0
            /\ (front \o Tail(todo[w]))[1] = KeyEntry(k)
        BY <2>4, <4>1
      <4>3. PICK rest \in Seq(Row) : rest = todo'[w] /\ rest = front \o Tail(todo[w])
        BY <2>2, <2>6
      <4>4. rest # <<>> /\ Head(rest) = KeyEntry(k)
        BY <4>2, <4>3
      <4>5. QED
        BY <4>3, <4>4 DEF Wants
    <3>3. QED
      BY <2>2, <3>1, <3>2
  <2>12. HasInserted(w)' <=> HasInserted(w)
    BY <1>1, <2>2 DEF HasInserted
  <2>13. DecidedVerdict(w)' = DecidedVerdict(w)
    BY <2>1 DEF DecidedVerdict, DecidedStep
  <2>14. LocksOK(w)'
    <3>1. \A k \in Resources : call[w] \in CreateCall /\ call[w].k = k => Wants(w, KeyEntry(k))'
      BY <1>1, <2>7, <2>8 DEF LocksOK
    <3>2. /\ call[w] \in CancelCall => Wants(w, RequestRow(r))'
          /\ HasInserted(w) /\ DecidedVerdict(w) # "none" => Wants(w, RequestRow(r))'
      BY <1>1, <2>1, <2>3, <2>7, <2>8 DEF LocksOK
    <3>3. \A k \in Resources : (KeyEntry(k) \in held[w])' => ~Occupied(k)'
      BY <2>9, <2>10
    <3>4. status' = status /\ resource' = resource
      BY <2>1 DEF db
    <3>5. QED
      BY <2>1, <2>2, <2>3, <2>6, <2>11, <2>12, <2>13, <3>1, <3>2, <3>3, <3>4 DEF LocksOK
  <2>15. \A v \in Workers \ {w} : held[v] \cap held'[w] = {}
    BY <2>1, <2>2 DEF Busy, Holds, LockInv
  <2>16. QED
    BY <2>1, <2>2, <2>14, <2>15, QuietLocks
<1>4. QED
  BY <1>2, <1>3

\* The effect of a commit on the claims: at most one request, whose key the worker
\* holds, enters the index.
LEMMA CommitLocks ==
  ASSUME TypeInv, LockInv, NEW w \in Workers, EndCall(w),
         NEW r \in Requests, NEW k \in Resources,
         resource' = [resource EXCEPT ![r] = k],
         DOMAIN status' = Requests,
         status'[r] # "absent",
         \A q \in Requests \ {r} : status'[q] = status[q],
         status[r] = "absent" \/ resource[r] = k,
         status[r] = "absent" => \A v \in Workers \ {w} : call[v] # NoCall => call[v].r # r,
         \/ status[r] \in Occupying /\ status'[r] \in Occupying
         \/ status[r] \notin Occupying /\ KeyEntry(k) \in held[w]
         \/ status'[r] \notin Occupying /\ RequestRow(r) \in held[w]
  PROVE  LockInv'
<1>1. /\ OnlyWorker(w)
      /\ pc'[w] = "idle" /\ call'[w] = NoCall /\ todo'[w] = <<>> /\ held'[w] = {}
  BY EndCallFacts
<1>2. LocksOK(w) /\ resource \in [Requests -> Resources \cup {None}]
  BY DEF LockInv, TypeInv, TypeOK
<1>3. \A q \in Requests \ {r} : resource'[q] = resource[q]
  BY <1>2
<1>4. resource'[r] = k
  BY <1>2
<1>5. ASSUME NEW q \in Requests \ {r}, status'[r] \in Occupying, status[q] \in Occupying,
             resource[q] = k
      PROVE  FALSE
  <2>1. CASE status[r] \in Occupying
    BY <1>5, <2>1 DEF LockInv, OneClaimPerResource, Occupying, RequestStatus
  <2>2. CASE status[r] \notin Occupying
    <3>1. ~Occupied(k)
      BY <1>2, <1>5, <2>2 DEF LocksOK
    <3>2. QED
      BY <1>5, <3>1 DEF Occupied
  <2>3. QED  BY <2>1, <2>2
<1>6. OneClaimPerResource'
  <2>1. \A q \in Requests \ {r} : ~(status'[r] \in Occupying /\ status'[q] \in Occupying
                                     /\ resource'[r] = resource'[q])
    BY <1>3, <1>4, <1>5
  <2>2. \A p, q \in Requests \ {r} :
          status'[p] \in Occupying /\ status'[q] \in Occupying /\ resource'[p] = resource'[q]
            => p = q
    BY <1>3 DEF LockInv, OneClaimPerResource
  <2>3. QED
    BY <2>1, <2>2 DEF OneClaimPerResource
<1>7. ASSUME NEW v \in Workers \ {w} PROVE LocksOK(v)'
  <2>1. held[v] \cap held[w] = {} /\ LocksOK(v)
    BY DEF LockInv
  <2>2. \A l \in Resources : KeyEntry(l) \in held[v] /\ Occupied(l)' => Occupied(l)
    <3> SUFFICES ASSUME NEW l \in Resources, KeyEntry(l) \in held[v], Occupied(l)'
                 PROVE  Occupied(l)
      OBVIOUS
    <3>1. PICK q \in Requests : resource'[q] = l /\ status'[q] \in Occupying
      BY DEF Occupied
    <3>2. CASE q # r
      BY <1>3, <3>1, <3>2 DEF Occupied
    <3>3. CASE q = r
      <4>1. l = k
        BY <1>4, <3>1, <3>3
      <4>2. status[r] \in Occupying
        BY <2>1, <3>1, <3>3, <4>1
      <4>3. resource[r] = k
        BY <4>2 DEF Occupying, RequestStatus
      <4>4. QED
        BY <4>1, <4>2, <4>3 DEF Occupied
    <3>4. QED  BY <3>2, <3>3
  <2>3. call[v] \in DecideCall =>
          /\ resource'[call[v].r] = resource[call[v].r]
          /\ RequestRow(call[v].r) \in held[v] /\ status[call[v].r] \in Occupying =>
               status'[call[v].r] \in Occupying
    <3> HAVE call[v] \in DecideCall
    <3>1. call[v].r \in Requests /\ call[v] # NoCall
      BY CallsDiffer DEF DecideCall
    <3>2. CASE call[v].r = r
      <4>1. resource[r] = k
        BY <3>1, <3>2
      <4>2. QED
        BY <1>4, <2>1, <3>2, <4>1
    <3>3. CASE call[v].r # r
      BY <1>3, <3>1, <3>3
    <3>4. QED  BY <3>2, <3>3
  <2>4. QED
    BY <1>1, <2>2, <2>3, OtherLocksOK
<1>8. LocksOK(w)'
  BY <1>1, IdleLocksOK
<1>9. \A v, u \in Workers : v # u => held'[v] \cap held'[u] = {}
  BY <1>1 DEF OnlyWorker, LockInv
<1>10. \A q \in Requests : status'[q] = "absent" <=> resource'[q] = None
  BY <1>3, <1>4, NoneAssumption DEF LockInv
<1>11. QED
  BY <1>6, <1>7, <1>8, <1>9, <1>10 DEF LockInv

LEMMA CommitCreateLocks ==
  ASSUME TypeInv, LockInv, NEW w \in Workers, CommitCreate(w)
  PROVE  LockInv'
<1>1. PICK r \in Requests, a \in Actors, k \in Resources, plan \in Plans :
        Created(w, r, a, k, plan)
  BY CreateFacts
<1>2. LocksOK(w) /\ todo[w] = <<>> /\ EndCall(w)
  BY DEF LockInv, CommitCreate, Ready
<1>3. call[w].k = k
  BY <1>1 DEF Created
<1>4. KeyEntry(k) \in held[w]
  BY <1>1, <1>2, <1>3 DEF LocksOK, Wants, Created
<1>5. status \in [Requests -> RequestStatus \cup {"absent"}]
  BY DEF TypeInv, TypeOK
<1>6. /\ DOMAIN status' = Requests /\ status'[r] # "absent"
      /\ \A q \in Requests \ {r} : status'[q] = status[q]
      /\ status[r] = "absent" /\ status[r] \notin Occupying
      /\ resource' = [resource EXCEPT ![r] = k]
      /\ \A v \in Workers \ {w} : call[v] # NoCall => call[v].r # r
  BY <1>1, <1>5 DEF Created, Occupying, RequestStatus
<1>7. QED
  BY <1>2, <1>4, <1>6, CommitLocks

LEMMA CommitCancelLocks ==
  ASSUME TypeInv, LockInv, NEW w \in Workers, CommitCancel(w)
  PROVE  LockInv'
<1>1. call[w].kind = "cancel" /\ call[w] \in CancelCall
  BY CallKinds DEF CommitCancel, Ready
<1>2. PICK r \in Requests : call[w].r = r
  BY <1>1 DEF CancelCall
<1>3. status[r] # "absent"
  BY <1>1, <1>2 DEF TypeInv, WorkerOK
<1>4. PICK k \in Resources : resource[r] = k
  BY <1>3, HasResource
<1>5. RequestRow(r) \in held[w]
  BY <1>1, <1>2 DEF LockInv, LocksOK, Wants, CommitCancel, Ready
<1>6. /\ EndCall(w) /\ resource' = resource
      /\ status' = [status EXCEPT ![r] = "cancelled"]
  BY <1>2 DEF CommitCancel
<1>7. /\ DOMAIN status' = Requests /\ status'[r] = "cancelled"
      /\ \A q \in Requests \ {r} : status'[q] = status[q]
      /\ resource' = [resource EXCEPT ![r] = k]
  BY <1>4, <1>6 DEF TypeInv, TypeOK
<1>8. status'[r] # "absent" /\ status'[r] \notin Occupying
  BY <1>7 DEF Occupying
<1>9. EndCall(w)
  BY <1>6
<1>10. QED
  BY <1>3, <1>4, <1>5, <1>7, <1>8, <1>9, CommitLocks

LEMMA CommitDecideLocks ==
  ASSUME TypeInv, LockInv, NEW w \in Workers, CommitDecide(w)
  PROVE  LockInv'
<1>1. PICK r \in Requests, a \in Actors, action \in ActionType, o \in Nat \ {0},
          verdict \in {"approved", "rejected", "none"} :
        Decided(w, r, a, action, o, verdict)
  BY DecideFacts
<1> USE DEF Decided
<1>2. status[r] # "absent" /\ call[w].r = r
  BY <1>1
<1>3. PICK k \in Resources : resource[r] = k
  BY <1>2, HasResource
<1>4. LocksOK(w) /\ todo[w] = <<>>
  BY DEF LockInv, CommitDecide, Ready
<1>5. verdict # "none" => RequestRow(r) \in held[w]
  BY <1>1, <1>2, <1>4 DEF LocksOK, Wants
<1>6. RequestRow(r) \in held[w] => status[r] \in Occupying \/ KeyEntry(k) \in held[w]
  BY <1>1, <1>2, <1>3, <1>4 DEF LocksOK, Wants
<1>7. /\ DOMAIN status' = Requests
      /\ status'[r] = IF verdict = "none" THEN status[r] ELSE verdict
      /\ \A q \in Requests \ {r} : status'[q] = status[q]
      /\ resource' = [resource EXCEPT ![r] = k]
      /\ EndCall(w)
  BY <1>1, <1>3 DEF TypeInv, TypeOK
<1>8. CASE verdict = "none" /\ status[r] \notin Occupying
  <2>1. UNCHANGED <<status, resource>>
    BY <1>1, <1>8 DEF TypeInv, TypeOK
  <2>2. /\ OnlyWorker(w)
        /\ pc'[w] = "idle" /\ call'[w] = NoCall /\ todo'[w] = <<>> /\ held'[w] = {}
    BY <1>7, EndCallFacts
  <2>3. \A v \in Workers \ {w} : LocksOK(v)'
    BY <2>1, <2>2, OtherLocksOK DEF Occupied
  <2>4. LocksOK(w)'
    BY <2>2, IdleLocksOK
  <2>5. \A v, u \in Workers : v # u => held'[v] \cap held'[u] = {}
    BY <2>2 DEF OnlyWorker, LockInv
  <2>6. QED
    BY <2>1, <2>3, <2>4, <2>5 DEF LockInv, OneClaimPerResource
<1>9. CASE ~(verdict = "none" /\ status[r] \notin Occupying)
  <2>1. verdict # "none" => verdict \in Occupying
    BY <1>1 DEF Occupying, RequestStatus
  <2>2. status'[r] # "absent"
    BY <1>1, <1>2, <1>7
  <2>3. \/ status[r] \in Occupying /\ status'[r] \in Occupying
        \/ status[r] \notin Occupying /\ KeyEntry(k) \in held[w]
    BY <1>5, <1>6, <1>7, <1>9, <2>1
  <2>4. QED
    BY <1>2, <1>3, <1>7, <2>2, <2>3, CommitLocks
<1>10. QED
  BY <1>8, <1>9

LEMMA LockStep ==
  ASSUME TypeInv, LockInv, [Next]_vars
  PROVE  LockInv'
<1>1. CASE UNCHANGED vars
  BY <1>1 DEF vars, LockInv, LocksOK, Wants, HasInserted, DecidedVerdict, DecidedStep,
              Occupied, OneClaimPerResource
<1>2. ASSUME NEW w \in Workers, Abort(w)
      PROVE  LockInv'
  BY <1>2, GiveUpLocks DEF Abort
<1>3. QED
  BY <1>1, <1>2, BeginLocks, ReadLocks, InsertLocks, LockLocks, CommitCreateLocks,
     CommitCancelLocks, CommitDecideLocks DEF Next, Step, Quiet

LEMMA LockInit == Init => LockInv
<1> SUFFICES ASSUME Init PROVE LockInv
  OBVIOUS
<1>1. \A w \in Workers : LocksOK(w)
  BY CallsDiffer DEF Init, RowsInit, LocksOK, HasInserted
<1>2. OneClaimPerResource
  BY DEF Init, RowsInit, OneClaimPerResource, Occupying, RequestStatus
<1>3. QED
  BY <1>1, <1>2 DEF Init, RowsInit, LockInv

\* However many connections create, cancel and decide at once, the partial unique
\* index leaves a resource one request that is not cancelled; a decision that
\* revives a cancelled request enters the index again first.
THEOREM OneClaim == Spec => []OneClaimPerResource
<1>1. LockInv => OneClaimPerResource
  BY DEF LockInv
<1>2. QED
  BY <1>1, TypeInit, TypeStep, LockInit, LockStep, PTL DEF Spec

-----------------------------------------------------------------------------
(* The review. *)

Supporters(ds, o) == {a \in Actors : [step |-> o, actor |-> a, action |-> "approve"] \in ds}
Quorum(ss, ds, o) == Cardinality(Supporters(ds, o)) >= ss[o].required

\* A step is the first, or the one ahead of it has its quorum.
Reached(ss, ds, o) == o = 1 \/ (o - 1 \in DOMAIN ss /\ Quorum(ss, ds, o - 1))

\* A request of status st and requester u, with steps ss and decisions ds: its
\* counters claim no approval that is not recorded.
ReviewOK(st, u, ss, ds) ==
  /\ \A o \in Nat : IsFiniteSet(Supporters(ds, o))
  /\ \A o \in DOMAIN ss :
       /\ ss[o].count <= Cardinality(Supporters(ds, o))
       /\ ss[o].status = "approved" => Quorum(ss, ds, o)
       /\ ss[o].status # "pending" => Reached(ss, ds, o)
  /\ \A d \in ds : Reached(ss, ds, d.step) /\ d.actor # u
  /\ \A d, e \in ds : d.step = e.step /\ d.actor = e.actor => d = e
  /\ st = "approved" => \E o \in DOMAIN ss : o + 1 \notin DOMAIN ss /\ Quorum(ss, ds, o)
  /\ st = "rejected" => \E d \in ds : d.action = "reject"

\* What a decision has read of the steps may be old, but no step it saw was ahead
\* of the decisions recorded since.
SeenOK(sn, ss, ds) ==
  \A o \in DOMAIN ss :
    /\ sn[o].required = ss[o].required
    /\ sn[o].count <= Cardinality(Supporters(ds, o))
    /\ sn[o].status # "pending" => Reached(ss, ds, o)

ReadOK(w) ==
  \A r \in Requests : call[w].r = r =>
    /\ HasRead(w) => SeenOK(seen[w].steps, steps[r], decisions[r])
    /\ HasPassed(w) => call[w].actor # requester[r]
    /\ HasInserted(w) =>
         /\ DecisionEntry(r, DecidedStep(w), call[w].actor) \in held[w]
         /\ \A d \in decisions[r] : d.step = DecidedStep(w) => d.actor # call[w].actor

ReviewInv ==
  /\ \A r \in Requests : ReviewOK(status[r], requester[r], steps[r], decisions[r])
  /\ \A w \in Workers : ReadOK(w)

\* A request nobody has decided on.
LEMMA FreshReview ==
  ASSUME NEW st, NEW u, NEW ss, IsStepTable(ss), st \notin {"approved", "rejected"},
         \A o \in DOMAIN ss : ss[o].count = 0 /\ (o = 1 \/ ss[o].status = "pending"),
         \A o \in DOMAIN ss : ss[o].status # "approved"
  PROVE  ReviewOK(st, u, ss, {})
<1>1. \A o : Supporters({}, o) = {}
  BY DEF Supporters
<1>2. IsFiniteSet({}) /\ Cardinality({}) = 0
  BY FS_EmptySet
<1>3. \A o \in DOMAIN ss : ss[o].count <= Cardinality(Supporters({}, o))
  BY <1>1, <1>2
<1>4. \A o \in DOMAIN ss : ss[o].status # "pending" => Reached(ss, {}, o)
  BY DEF Reached
<1>5. QED
  BY <1>1, <1>2, <1>3, <1>4 DEF ReviewOK

\* One more decision: no tally falls, and a user counted for the first time counts.
LEMMA TallyGrows ==
  ASSUME NEW ds, NEW o \in Nat, NEW a \in Actors, NEW action \in ActionType,
         \A p \in Nat : IsFiniteSet(Supporters(ds, p)),
         NEW more, more = ds \cup {[step |-> o, actor |-> a, action |-> action]}
  PROVE  /\ \A p \in Nat :
              /\ IsFiniteSet(Supporters(more, p))
              /\ Cardinality(Supporters(ds, p)) \in Nat
              /\ Cardinality(Supporters(more, p)) \in Nat
              /\ Cardinality(Supporters(ds, p)) <= Cardinality(Supporters(more, p))
         /\ action = "approve" /\ a \notin Supporters(ds, o) =>
              Cardinality(Supporters(more, o)) = Cardinality(Supporters(ds, o)) + 1
<1>1. \A p \in Nat : Supporters(more, p) =
        IF p = o /\ action = "approve" THEN Supporters(ds, p) \cup {a} ELSE Supporters(ds, p)
  <2> TAKE p \in Nat
  <2>1. \A b \in Actors :
          [step |-> p, actor |-> b, action |-> "approve"] = [step |-> o, actor |-> a, action |-> action]
            <=> p = o /\ b = a /\ action = "approve"
    OBVIOUS
  <2>2. \A b \in Actors :
          b \in Supporters(more, p) <=>
            b \in Supporters(ds, p) \/ (p = o /\ b = a /\ action = "approve")
    BY <2>1 DEF Supporters
  <2>3. Supporters(more, p) \subseteq Actors /\ Supporters(ds, p) \subseteq Actors
    BY DEF Supporters
  <2>4. QED
    BY <2>2, <2>3
<1>2. ASSUME NEW p \in Nat
      PROVE  /\ IsFiniteSet(Supporters(ds, p) \cup {a})
             /\ Cardinality(Supporters(ds, p)) \in Nat
             /\ Cardinality(Supporters(ds, p) \cup {a}) =
                  IF a \in Supporters(ds, p) THEN Cardinality(Supporters(ds, p))
                  ELSE Cardinality(Supporters(ds, p)) + 1
  BY FS_AddElement, FS_CardinalityType
<1>3. ASSUME NEW p \in Nat
      PROVE  /\ IsFiniteSet(Supporters(more, p))
             /\ Cardinality(Supporters(ds, p)) \in Nat
             /\ Cardinality(Supporters(more, p)) \in Nat
             /\ Cardinality(Supporters(ds, p)) <= Cardinality(Supporters(more, p))
  <2>1. CASE p = o /\ action = "approve"
    <3>1. Supporters(more, p) = Supporters(ds, p) \cup {a}
      BY <1>1, <2>1
    <3>2. /\ IsFiniteSet(Supporters(more, p))
          /\ Cardinality(Supporters(more, p)) =
               IF a \in Supporters(ds, p) THEN Cardinality(Supporters(ds, p))
               ELSE Cardinality(Supporters(ds, p)) + 1
      BY <1>2, <3>1
    <3>3. PICK n : n = Cardinality(Supporters(ds, p)) /\ n \in Nat
      BY <1>2
    <3>4. QED
      BY <3>2, <3>3
  <2>2. CASE ~(p = o /\ action = "approve")
    <3>1. Supporters(more, p) = Supporters(ds, p)
      BY <1>1, <2>2
    <3>2. IsFiniteSet(Supporters(more, p)) /\ Cardinality(Supporters(more, p)) \in Nat
      BY <1>2, <3>1
    <3>3. PICK n : n = Cardinality(Supporters(more, p)) /\ n \in Nat
      BY <3>2
    <3>4. n = Cardinality(Supporters(ds, p))
      BY <3>1, <3>3
    <3>5. QED
      BY <3>2, <3>3, <3>4
  <2>3. QED  BY <2>1, <2>2
<1>4. action = "approve" /\ a \notin Supporters(ds, o) =>
        Cardinality(Supporters(more, o)) = Cardinality(Supporters(ds, o)) + 1
  <2> HAVE action = "approve" /\ a \notin Supporters(ds, o)
  <2>1. Supporters(more, o) = Supporters(ds, o) \cup {a}
    BY <1>1
  <2>2. QED
    BY <1>2, <2>1
<1>5. QED
  BY <1>3, <1>4

\* What was reached stays reached.
LEMMA ReachedStays ==
  ASSUME NEW ss, NEW mg, NEW ds, NEW more, IsStepTable(ss), IsStepTable(mg),
         DOMAIN mg = DOMAIN ss,
         \A p \in DOMAIN ss : mg[p].required = ss[p].required,
         \A p \in Nat :
           /\ Cardinality(Supporters(ds, p)) \in Nat
           /\ Cardinality(Supporters(more, p)) \in Nat
           /\ Cardinality(Supporters(ds, p)) <= Cardinality(Supporters(more, p))
  PROVE  /\ \A p \in DOMAIN ss : Quorum(ss, ds, p) => Quorum(mg, more, p)
         /\ \A p : Reached(ss, ds, p) => Reached(mg, more, p)
<1>1. ASSUME NEW p \in DOMAIN ss, Quorum(ss, ds, p) PROVE Quorum(mg, more, p)
  <2>1. p \in Nat /\ ss[p].required \in Nat
    BY DEF IsStepTable, StepRecord
  <2>2. QED
    BY <1>1, <2>1 DEF Quorum
<1>2. QED
  BY <1>1 DEF Reached

\* The rows a decision leaves are those of a sound review, however old the steps
\* it read: it adds one approval to a count that was not too high.
LEMMA MergedReview ==
  ASSUME NEW st, NEW u, NEW ss, NEW ds, ReviewOK(st, u, ss, ds), IsStepTable(ss),
         NEW sn, SeenOK(sn, ss, ds), IsStepTable(sn), DOMAIN sn = DOMAIN ss,
         NEW o \in DOMAIN ss, sn[o].status = "active",
         NEW a \in Actors, a # u, \A d \in ds : d.step = o => d.actor # a,
         NEW action \in ActionType,
         NEW more, more = ds \cup {[step |-> o, actor |-> a, action |-> action]},
         NEW new, new = StepsAfter(sn, o, action),
         NEW mg, IsStepTable(mg), DOMAIN mg = DOMAIN ss,
         \A p \in DOMAIN ss :
           /\ mg[p].required = ss[p].required
           /\ mg[p].count = Written(ss[p].count, sn[p].count, new[p].count)
           /\ mg[p].status = Written(ss[p].status, sn[p].status, new[p].status),
         NEW now, now = Written(st, "none", Verdict(sn, o, action))
  PROVE  ReviewOK(now, u, mg, more)
<1>1. /\ \A p \in DOMAIN ss : p \in Nat \ {0}
      /\ \A p \in DOMAIN ss : ss[p].count \in Nat /\ ss[p].required \in Nat
      /\ \A p \in DOMAIN ss : sn[p] \in StepRecord /\ sn[p].count \in Nat /\ sn[p].required \in Nat
  BY DEF IsStepTable, StepRecord
<1>2. /\ \A p \in Nat :
           /\ IsFiniteSet(Supporters(more, p))
           /\ Cardinality(Supporters(ds, p)) \in Nat
           /\ Cardinality(Supporters(more, p)) \in Nat
           /\ Cardinality(Supporters(ds, p)) <= Cardinality(Supporters(more, p))
      /\ action = "approve" /\ a \notin Supporters(ds, o) =>
           Cardinality(Supporters(more, o)) = Cardinality(Supporters(ds, o)) + 1
  BY <1>1, TallyGrows DEF ReviewOK
<1>3. a \notin Supporters(ds, o)
  BY DEF Supporters
<1>4. /\ \A p \in DOMAIN ss : Quorum(ss, ds, p) => Quorum(mg, more, p)
      /\ \A p : Reached(ss, ds, p) => Reached(mg, more, p)
  <2>1. \A p \in DOMAIN ss : mg[p].required = ss[p].required
    OBVIOUS
  <2>2. QED
    BY <1>2, <2>1, ReachedStays
<1>5. /\ new[o] = DecideStep(sn[o], action)
      /\ \A p \in DOMAIN ss \ {o} :
           /\ new[p].count = sn[p].count
           /\ new[p].status = IF p = o + 1 /\ Completes(sn, o, action)
                              THEN "active" ELSE sn[p].status
  BY StepsAfterEffect
<1>6. /\ action = "reject" =>
           new[o].count = sn[o].count /\ new[o].status = "rejected"
      /\ action = "approve" =>
           /\ new[o].count = sn[o].count + 1
           /\ new[o].status = IF sn[o].count + 1 >= sn[o].required THEN "approved" ELSE "active"
  BY <1>1, <1>5, DecideStepEffect
<1>7. \A p \in DOMAIN ss : sn[p].count <= Cardinality(Supporters(ds, p))
                            /\ sn[p].required = ss[p].required
  BY DEF SeenOK
<1>8. action = "approve" => sn[o].count + 1 <= Cardinality(Supporters(more, o))
  BY <1>1, <1>2, <1>3, <1>7
<1>9. new[o].status = "approved" => action = "approve" /\ Quorum(mg, more, o)
  <2> HAVE new[o].status = "approved"
  <2>1. action = "approve" /\ sn[o].count + 1 >= sn[o].required
    BY <1>6 DEF ActionType
  <2>2. sn[o].required = mg[o].required /\ sn[o].required \in Nat /\ sn[o].count \in Nat
    BY <1>1, <1>7
  <2>3. Cardinality(Supporters(more, o)) \in Nat
    BY <1>1, <1>2
  <2>4. Cardinality(Supporters(more, o)) >= sn[o].required
    BY <1>8, <2>1, <2>2, <2>3
  <2>5. QED
    BY <2>1, <2>2, <2>4 DEF Quorum
<1>10. Completes(sn, o, action) => Quorum(mg, more, o)
  BY <1>5, <1>9 DEF Completes
<1>11. Reached(mg, more, o)
  BY <1>4 DEF SeenOK
<1>12. ASSUME NEW p \in DOMAIN mg
       PROVE  /\ mg[p].count <= Cardinality(Supporters(more, p))
              /\ mg[p].status = "approved" => Quorum(mg, more, p)
              /\ mg[p].status # "pending" => Reached(mg, more, p)
  <2>1. /\ ss[p].count <= Cardinality(Supporters(ds, p))
        /\ ss[p].status = "approved" => Quorum(mg, more, p)
        /\ ss[p].status # "pending" => Reached(mg, more, p)
    BY <1>4 DEF ReviewOK
  <2>2. mg[p].count \in {ss[p].count, new[p].count} /\ mg[p].status \in {ss[p].status, new[p].status}
        /\ (new[p].count = sn[p].count => mg[p].count = ss[p].count)
        /\ (new[p].status = sn[p].status => mg[p].status = ss[p].status)
    BY DEF Written
  <2>3. ss[p].count <= Cardinality(Supporters(more, p))
    <3>1. p \in Nat /\ ss[p].count \in Nat
      BY <1>1
    <3>2. /\ Cardinality(Supporters(ds, p)) \in Nat
          /\ Cardinality(Supporters(more, p)) \in Nat
          /\ Cardinality(Supporters(ds, p)) <= Cardinality(Supporters(more, p))
      BY <1>2, <3>1
    <3>3. QED
      BY <2>1, <3>1, <3>2
  <2>4. CASE p = o
    <3>1. mg[p].count <= Cardinality(Supporters(more, p))
      BY <1>6, <1>8, <2>2, <2>3, <2>4 DEF ActionType
    <3>2. QED
      BY <1>9, <1>11, <2>1, <2>2, <2>4, <3>1
  <2>5. CASE p # o
    <3>1. mg[p].count = ss[p].count
      BY <1>5, <2>2, <2>5
    <3>2. CASE p = o + 1 /\ Completes(sn, o, action)
      <4>1. new[p].status = "active"
        BY <1>5, <2>5, <3>2
      <4>2. p - 1 = o
        BY <1>1, <3>2
      <4>3. Reached(mg, more, p)
        BY <1>10, <3>2, <4>2 DEF Reached
      <4>4. QED
        BY <2>1, <2>2, <2>3, <3>1, <4>1, <4>3
    <3>3. CASE ~(p = o + 1 /\ Completes(sn, o, action))
      BY <1>5, <2>1, <2>2, <2>3, <2>5, <3>1, <3>3
    <3>4. QED  BY <3>2, <3>3
  <2>6. QED  BY <2>4, <2>5
<1>13. PICK d0 : d0 = [step |-> o, actor |-> a, action |-> action]
  OBVIOUS
<1>14. \A d \in more : Reached(mg, more, d.step) /\ d.actor # u
  <2> TAKE d \in more
  <2>1. CASE d \in ds
    BY <1>4, <2>1 DEF ReviewOK
  <2>2. CASE d = d0
    BY <1>11, <1>13, <2>2
  <2>3. QED  BY <1>13, <2>1, <2>2
<1>15. \A d, e \in more : d.step = e.step /\ d.actor = e.actor => d = e
  BY <1>13 DEF ReviewOK
<1>16. now = "approved" =>
         \E p \in DOMAIN mg : p + 1 \notin DOMAIN mg /\ Quorum(mg, more, p)
  <2>1. CASE now = st
    BY <1>4, <2>1 DEF ReviewOK
  <2>2. CASE now # st
    BY <1>10, <2>2 DEF Written, Verdict
  <2>3. QED  BY <2>1, <2>2
<1>17. now = "rejected" => \E d \in more : d.action = "reject"
  <2>1. CASE now = st
    BY <2>1 DEF ReviewOK
  <2>2. CASE now # st
    BY <1>13, <2>2 DEF Written, Verdict
  <2>3. QED  BY <2>1, <2>2
<1>18. QED
  BY <1>2, <1>12, <1>14, <1>15, <1>16, <1>17 DEF ReviewOK

\* What a worker has read stays sound while another worker steps, when its request
\* keeps its requester, falls in no tally, and gains no decision of the same user
\* on the same step.
LEMMA OtherReadOK ==
  ASSUME TypeInv, ReviewInv, NEW w \in Workers, OnlyWorker(w), NEW v \in Workers \ {w},
         \A r \in Requests : call[v] \in DecideCall /\ call[v].r = r =>
           /\ requester'[r] = requester[r]
           /\ HasRead(v) /\ SeenOK(seen[v].steps, steps[r], decisions[r]) =>
                SeenOK(seen[v].steps, steps'[r], decisions'[r])
           /\ HasInserted(v) => \A d \in decisions'[r] :
                d \in decisions[r] \/ d.step # DecidedStep(v) \/ d.actor # call[v].actor
  PROVE  ReadOK(v)'
<1>1. /\ pc'[v] = pc[v] /\ call'[v] = call[v] /\ seen'[v] = seen[v] /\ held'[v] = held[v]
  BY DEF OnlyWorker
<1>2. /\ HasRead(v)' <=> HasRead(v)
      /\ HasPassed(v)' <=> HasPassed(v)
      /\ HasInserted(v)' <=> HasInserted(v)
  BY <1>1 DEF HasRead, HasPassed, HasInserted
<1>3. DecidedStep(v)' = DecidedStep(v)
  BY <1>1 DEF DecidedStep
<1>4. HasRead(v) \/ HasPassed(v) \/ HasInserted(v) => call[v] \in DecideCall
  BY DEF HasRead, HasPassed, HasInserted
<1>5. ReadOK(v)
  BY DEF ReviewInv
<1>6. ASSUME NEW r \in Requests, call[v].r = r
      PROVE  /\ HasRead(v) => SeenOK(seen[v].steps, steps'[r], decisions'[r])
             /\ HasPassed(v) => call[v].actor # requester'[r]
             /\ HasInserted(v) =>
                  /\ DecisionEntry(r, DecidedStep(v), call[v].actor) \in held[v]
                  /\ \A d \in decisions'[r] : d.step = DecidedStep(v) => d.actor # call[v].actor
  BY <1>4, <1>5, <1>6 DEF ReadOK
<1>7. QED
  BY <1>1, <1>2, <1>3, <1>6 DEF ReadOK

\* A call that has read nothing yet, or no call.
LEMMA FreshReadOK ==
  ASSUME NEW w \in Workers, ~HasRead(w)'
  PROVE  ReadOK(w)'
BY DEF ReadOK, HasRead, HasPassed, HasInserted

\* A step that leaves the rows alone.
LEMMA QuietReview ==
  ASSUME TypeInv, ReviewInv, NEW w \in Workers, OnlyWorker(w), UNCHANGED db, ReadOK(w)'
  PROVE  ReviewInv'
<1>1. \A v \in Workers \ {w} : ReadOK(v)'
  BY OtherReadOK DEF db
<1>2. QED
  BY <1>1 DEF ReviewInv, db

LEMMA GiveUpReview ==
  ASSUME TypeInv, ReviewInv, NEW w \in Workers, EndCall(w), UNCHANGED db
  PROVE  ReviewInv'
<1>1. OnlyWorker(w) /\ call'[w] = NoCall
  BY EndCallFacts
<1>2. ~HasRead(w)'
  BY <1>1, CallsDiffer DEF HasRead
<1>3. QED
  BY <1>1, <1>2, FreshReadOK, QuietReview

LEMMA BeginReview ==
  ASSUME TypeInv, ReviewInv, NEW w \in Workers, Begin(w)
  PROVE  ReviewInv'
<1>1. PICK c \in CreateCall \cup CancelCall \cup DecideCall,
           p \in {"write", "read_steps"} :
        /\ pc' = [pc EXCEPT ![w] = p] /\ call' = [call EXCEPT ![w] = c]
        /\ c \in DecideCall => p = "read_steps"
        /\ UNCHANGED <<db, held>>
  <2>1. ASSUME NEW r \in Requests, NEW a \in Actors, NEW k \in Resources, NEW plan \in Plans,
               BeginCreate(w, r, a, k, plan)
        PROVE  \E c \in CreateCall :
                 /\ pc' = [pc EXCEPT ![w] = "write"] /\ call' = [call EXCEPT ![w] = c]
                 /\ UNCHANGED <<db, held>>
    BY <2>1 DEF BeginCreate, CreateCall
  <2>2. ASSUME NEW r \in Requests, BeginCancel(w, r)
        PROVE  \E c \in CancelCall :
                 /\ pc' = [pc EXCEPT ![w] = "write"] /\ call' = [call EXCEPT ![w] = c]
                 /\ UNCHANGED <<db, held>>
    BY <2>2 DEF BeginCancel, CancelCall
  <2>3. ASSUME NEW r \in Requests, NEW a \in Actors, NEW action \in ActionType,
               BeginDecide(w, r, a, action)
        PROVE  \E c \in DecideCall :
                 /\ pc' = [pc EXCEPT ![w] = "read_steps"] /\ call' = [call EXCEPT ![w] = c]
                 /\ UNCHANGED <<db, held>>
    BY <2>3 DEF BeginDecide, DecideCall
  <2>4. QED
    BY <2>1, <2>2, <2>3, CallsDiffer DEF Begin
<1>2. DOMAIN seen' = Workers /\ DOMAIN todo' = Workers
      /\ \A v \in Workers \ {w} : seen'[v] = seen[v] /\ todo'[v] = todo[v]
  BY DEF Begin, BeginCreate, BeginCancel, BeginDecide, TypeInv
<1>3. OnlyWorker(w) /\ call'[w] = c /\ pc'[w] = p
  BY <1>1, <1>2 DEF OnlyWorker, TypeInv, TypeOK
<1>4. ~HasRead(w)'
  BY <1>1, <1>3 DEF HasRead
<1>5. QED
  BY <1>1, <1>3, <1>4, FreshReadOK, QuietReview

LEMMA ReadStepsReview ==
  ASSUME TypeInv, ReviewInv, NEW w \in Workers, ReadSteps(w)
  PROVE  ReviewInv'
<1>1. call[w] \in DecideCall /\ call[w].r \in Requests /\ WorkerOK(w)
  BY DEF ReadSteps, TypeInv, WorkerOK, DecideCall
<1>2. PICK r \in Requests : r = call[w].r
  BY <1>1
<1>3. /\ seen' = [seen EXCEPT ![w].steps = steps[r]]
      /\ pc' = [pc EXCEPT ![w] = "read_decisions"]
      /\ UNCHANGED <<db, call, todo, held>>
  BY <1>2 DEF ReadSteps
<1>4. OnlyWorker(w) /\ call'[w] = call[w] /\ pc'[w] = "read_decisions"
  BY <1>3 DEF OnlyWorker, TypeInv, TypeOK
<1>5. seen'[w].steps = steps[r]
  BY <1>1, <1>3 DEF TypeInv, WorkerOK
<1>6. SeenOK(steps[r], steps[r], decisions[r])
  BY DEF ReviewInv, ReviewOK, SeenOK
<1>7. ~HasPassed(w)' /\ ~HasInserted(w)'
  BY <1>4 DEF HasPassed, HasInserted
<1>8. ReadOK(w)'
  BY <1>2, <1>3, <1>4, <1>5, <1>6, <1>7 DEF ReadOK, db
<1>9. QED
  BY <1>3, <1>4, <1>8, QuietReview

LEMMA ReadDecisionsReview ==
  ASSUME TypeInv, ReviewInv, NEW w \in Workers, ReadDecisions(w)
  PROVE  ReviewInv'
<1>1. call[w] \in DecideCall /\ ReadOK(w) /\ HasRead(w)
  BY DEF ReadDecisions, TypeInv, WorkerOK, ReviewInv, HasRead
<1>2. CASE EndCall(w)
  BY <1>2, GiveUpReview DEF ReadDecisions
<1>3. CASE ~EndCall(w)
  <2>1. /\ CanDecide(seen[w].status, requester[call[w].r], seen[w].steps,
                     decisions[call[w].r], call[w].actor, call[w].action)
        /\ pc' = [pc EXCEPT ![w] = "insert"]
        /\ UNCHANGED <<db, call, seen, todo, held>>
    BY <1>3 DEF ReadDecisions
  <2>2. call[w].actor # requester[call[w].r]
    BY <2>1 DEF CanDecide
  <2>3. OnlyWorker(w) /\ call'[w] = call[w] /\ pc'[w] = "insert" /\ seen'[w] = seen[w]
    BY <2>1 DEF OnlyWorker, TypeInv, TypeOK
  <2>4. ~HasInserted(w)'
    BY <2>3 DEF HasInserted
  <2>5. ReadOK(w)'
    BY <1>1, <2>1, <2>2, <2>3, <2>4 DEF ReadOK, db
  <2>6. QED
    BY <2>1, <2>3, <2>5, QuietReview
<1>4. QED
  BY <1>2, <1>3

LEMMA InsertReview ==
  ASSUME TypeInv, ReviewInv, NEW w \in Workers, InsertDecision(w)
  PROVE  ReviewInv'
<1>1. /\ call[w] \in DecideCall /\ ReadOK(w) /\ HasRead(w) /\ HasPassed(w)
  BY DEF InsertDecision, TypeInv, WorkerOK, ReviewInv, HasRead, HasPassed
<1>2. CASE EndCall(w)
  BY <1>2, GiveUpReview DEF InsertDecision
<1>3. CASE ~EndCall(w)
  <2>1. PICK entry :
          /\ entry = DecisionEntry(call[w].r, DecidedStep(w), call[w].actor)
          /\ ~(\E d \in decisions[call[w].r] : d.step = DecidedStep(w) /\ d.actor = call[w].actor)
          /\ held' = [held EXCEPT ![w] = @ \cup {entry}]
          /\ todo' = [todo EXCEPT ![w] = DecisionRows(w)]
          /\ pc' = [pc EXCEPT ![w] = "write"]
          /\ UNCHANGED <<db, call, seen>>
    BY <1>3 DEF InsertDecision
  <2>2. /\ OnlyWorker(w) /\ held'[w] = held[w] \cup {entry}
        /\ pc'[w] = "write" /\ call'[w] = call[w] /\ seen'[w] = seen[w]
    BY <2>1 DEF OnlyWorker, TypeInv, TypeOK
  <2>3. DecidedStep(w)' = DecidedStep(w)
    BY <2>1 DEF DecidedStep
  <2>4. entry \in held'[w]
    BY <2>2
  <2>5. ReadOK(w)'
    BY <1>1, <2>1, <2>2, <2>3, <2>4 DEF ReadOK, db
  <2>6. QED
    BY <2>1, <2>2, <2>5, QuietReview
<1>4. QED
  BY <1>2, <1>3

LEMMA LockReview ==
  ASSUME TypeInv, ReviewInv, NEW w \in Workers, Lock(w)
  PROVE  ReviewInv'
<1>1. CASE EndCall(w)
  BY <1>1, GiveUpReview DEF Lock
<1>2. CASE ~EndCall(w)
  <2>1. PICK row, rest :
          /\ pc[w] = "write"
          /\ held' = [held EXCEPT ![w] = @ \cup {row}]
          /\ todo' = [todo EXCEPT ![w] = rest]
          /\ UNCHANGED <<db, pc, call, seen>>
    BY <1>2 DEF Lock
  <2>2. /\ OnlyWorker(w) /\ held'[w] = held[w] \cup {row}
        /\ pc'[w] = pc[w] /\ call'[w] = call[w] /\ seen'[w] = seen[w]
    BY <2>1 DEF OnlyWorker, TypeInv, TypeOK
  <2>3. DecidedStep(w)' = DecidedStep(w)
    BY <2>1 DEF DecidedStep
  <2>4. ReadOK(w)
    BY DEF ReviewInv
  <2>5. /\ HasRead(w)' <=> HasRead(w)
        /\ HasPassed(w)' <=> HasPassed(w)
        /\ HasInserted(w)' <=> HasInserted(w)
    BY <2>2 DEF HasRead, HasPassed, HasInserted
  <2>6. ReadOK(w)'
    BY <2>1, <2>2, <2>3, <2>4, <2>5 DEF ReadOK, db
  <2>7. QED
    BY <2>1, <2>2, <2>6, QuietReview
<1>3. QED
  BY <1>1, <1>2

\* The end of a call whose rows are a sound review.
LEMMA CommitReview ==
  ASSUME TypeInv, ReviewInv, NEW w \in Workers, EndCall(w),
         \A r \in Requests : ReviewOK(status'[r], requester'[r], steps'[r], decisions'[r]),
         \A v \in Workers \ {w}, r \in Requests : call[v] \in DecideCall /\ call[v].r = r =>
           /\ requester'[r] = requester[r]
           /\ HasRead(v) /\ SeenOK(seen[v].steps, steps[r], decisions[r]) =>
                SeenOK(seen[v].steps, steps'[r], decisions'[r])
           /\ HasInserted(v) => \A d \in decisions'[r] :
                d \in decisions[r] \/ d.step # DecidedStep(v) \/ d.actor # call[v].actor
  PROVE  ReviewInv'
<1>1. OnlyWorker(w) /\ call'[w] = NoCall
  BY EndCallFacts
<1>2. ~HasRead(w)'
  BY <1>1, CallsDiffer DEF HasRead
<1>3. ReadOK(w)'
  BY <1>2, FreshReadOK
<1>4. \A v \in Workers \ {w} : ReadOK(v)'
  BY <1>1, OtherReadOK
<1>5. QED
  BY <1>3, <1>4 DEF ReviewInv

LEMMA CommitCreateReview ==
  ASSUME TypeInv, ReviewInv, NEW w \in Workers, CommitCreate(w)
  PROVE  ReviewInv'
<1>1. PICK r \in Requests, a \in Actors, k \in Resources, plan \in Plans :
        Created(w, r, a, k, plan)
  BY CreateFacts
<1>2. EndCall(w) /\ decisions' = decisions
  BY DEF CommitCreate
<1>3. decisions'[r] = {}
  BY <1>1, <1>2 DEF Created, TypeInv
<1>4. /\ status'[r] = "in_review" /\ steps'[r] = NewSteps(plan)
      /\ \A q \in Requests \ {r} :
           /\ status'[q] = status[q] /\ requester'[q] = requester[q]
           /\ steps'[q] = steps[q] /\ decisions'[q] = decisions[q]
  BY <1>1, <1>2 DEF Created, TypeInv, TypeOK
<1>5. /\ IsStepTable(NewSteps(plan))
      /\ \A o \in DOMAIN NewSteps(plan) :
           /\ NewSteps(plan)[o].count = 0
           /\ NewSteps(plan)[o].status # "approved"
           /\ o = 1 \/ NewSteps(plan)[o].status = "pending"
  BY <1>1, NewStepsTable DEF Created
<1>6. ReviewOK("in_review", requester'[r], NewSteps(plan), {})
  BY <1>5, FreshReview
<1>7. \A q \in Requests : ReviewOK(status'[q], requester'[q], steps'[q], decisions'[q])
  <2> TAKE q \in Requests
  <2>1. CASE q = r
    BY <1>3, <1>4, <1>6, <2>1
  <2>2. CASE q # r
    BY <1>4, <2>2 DEF ReviewInv
  <2>3. QED  BY <2>1, <2>2
<1>8. \A v \in Workers \ {w}, q \in Requests : call[v] \in DecideCall /\ call[v].r = q =>
        q \in Requests \ {r}
  BY <1>1, CallsDiffer DEF Created
<1>9. QED
  BY <1>2, <1>4, <1>7, <1>8, CommitReview

LEMMA CommitCancelReview ==
  ASSUME TypeInv, ReviewInv, NEW w \in Workers, CommitCancel(w)
  PROVE  ReviewInv'
<1>1. call[w].kind = "cancel" /\ call[w] \in CancelCall
  BY CallKinds DEF CommitCancel, Ready
<1>2. PICK r \in Requests : call[w].r = r
  BY <1>1 DEF CancelCall
<1>3. /\ EndCall(w) /\ UNCHANGED <<requester, resource, steps, decisions>>
      /\ status' = [status EXCEPT ![r] = "cancelled"]
  BY <1>2 DEF CommitCancel
<1>4. \A q \in Requests : status'[q] = status[q] \/ status'[q] = "cancelled"
  BY <1>3 DEF TypeInv, TypeOK
<1>5. \A q \in Requests : ReviewOK(status'[q], requester[q], steps[q], decisions[q])
  BY <1>4 DEF ReviewInv, ReviewOK
<1>6. QED
  BY <1>3, <1>5, CommitReview

LEMMA CommitDecideReview ==
  ASSUME TypeInv, LockInv, ReviewInv, NEW w \in Workers, CommitDecide(w)
  PROVE  ReviewInv'
<1>1. PICK r \in Requests, a \in Actors, action \in ActionType, o \in Nat \ {0},
          verdict \in {"approved", "rejected", "none"} :
        Decided(w, r, a, action, o, verdict)
  BY DecideFacts
<1>2. /\ call[w].r = r /\ call[w].actor = a /\ call[w].action = action
      /\ HasRead(w) /\ HasPassed(w) /\ HasInserted(w) /\ o = DecidedStep(w)
      /\ EndCall(w)
  BY <1>1 DEF Decided
<1>3. ReadOK(w) /\ ReviewOK(status[r], requester[r], steps[r], decisions[r])
  BY DEF ReviewInv
<1>4. /\ SeenOK(seen[w].steps, steps[r], decisions[r])
      /\ a # requester[r]
      /\ \A d \in decisions[r] : d.step = o => d.actor # a
      /\ DecisionEntry(r, o, a) \in held[w]
  BY <1>2, <1>3 DEF ReadOK
<1>5. /\ IsStepTable(seen[w].steps) /\ DOMAIN seen[w].steps = DOMAIN steps[r]
      /\ o \in DOMAIN steps[r] /\ seen[w].steps[o].status = "active"
      /\ IsStepTable(steps[r])
  BY <1>2, PassedFacts DEF TypeInv, TypeOK
<1>6. PICK more, mg, new :
        /\ more = decisions[r] \cup {[step |-> o, actor |-> a, action |-> action]}
        /\ mg = MergedSteps(w) /\ new = StepsAfter(seen[w].steps, o, action)
  OBVIOUS
<1>7. /\ IsStepTable(mg) /\ DOMAIN mg = DOMAIN steps[r]
      /\ \A p \in DOMAIN steps[r] :
           /\ mg[p].required = steps[r][p].required
           /\ mg[p].count = Written(steps[r][p].count, seen[w].steps[p].count, new[p].count)
           /\ mg[p].status = Written(steps[r][p].status, seen[w].steps[p].status, new[p].status)
  <2>1. DecidedSteps(w) = new
    BY <1>2, <1>6 DEF DecidedSteps
  <2>2. QED
    BY <1>2, <1>6, <2>1, MergedEffect
<1>8. /\ decisions'[r] = more /\ steps'[r] = mg /\ requester' = requester
      /\ status'[r] = Written(status[r], "none", verdict)
      /\ \A q \in Requests \ {r} :
           status'[q] = status[q] /\ steps'[q] = steps[q] /\ decisions'[q] = decisions[q]
  BY <1>1, <1>6 DEF Decided, TypeInv, TypeOK, Written
<1>9. verdict = Verdict(seen[w].steps, o, action)
  BY <1>1, <1>2 DEF Decided, DecidedVerdict
<1>10. ReviewOK(status'[r], requester[r], mg, more)
  <2>1. PICK st, u, ss, ds, sn :
          /\ st = status[r] /\ u = requester[r] /\ ss = steps[r] /\ ds = decisions[r]
          /\ sn = seen[w].steps
    OBVIOUS
  <2>2. PICK now : now = Written(st, "none", Verdict(sn, o, action))
    OBVIOUS
  <2>3. /\ ReviewOK(st, u, ss, ds) /\ IsStepTable(ss)
        /\ SeenOK(sn, ss, ds) /\ IsStepTable(sn) /\ DOMAIN sn = DOMAIN ss
        /\ o \in DOMAIN ss /\ sn[o].status = "active"
        /\ a # u /\ \A d \in ds : d.step = o => d.actor # a
    BY <1>3, <1>4, <1>5, <2>1
  <2>4. /\ more = ds \cup {[step |-> o, actor |-> a, action |-> action]}
        /\ new = StepsAfter(sn, o, action)
    BY <1>6, <2>1
  <2>5. /\ IsStepTable(mg) /\ DOMAIN mg = DOMAIN ss
        /\ \A p \in DOMAIN ss :
             /\ mg[p].required = ss[p].required
             /\ mg[p].count = Written(ss[p].count, sn[p].count, new[p].count)
             /\ mg[p].status = Written(ss[p].status, sn[p].status, new[p].status)
    BY <1>7, <2>1
  <2>6. ReviewOK(now, u, mg, more)
    BY <2>2, <2>3, <2>4, <2>5, MergedReview
  <2>7. status'[r] = now
    BY <1>8, <1>9, <2>1, <2>2
  <2>8. QED
    BY <2>1, <2>6, <2>7
<1>11. \A q \in Requests : ReviewOK(status'[q], requester'[q], steps'[q], decisions'[q])
  <2> TAKE q \in Requests
  <2>1. CASE q = r
    BY <1>8, <1>10, <2>1
  <2>2. CASE q # r
    BY <1>8, <2>2 DEF ReviewInv
  <2>3. QED  BY <2>1, <2>2
<1>12. \A p \in Nat :
         /\ Cardinality(Supporters(decisions[r], p)) \in Nat
         /\ Cardinality(Supporters(more, p)) \in Nat
         /\ Cardinality(Supporters(decisions[r], p)) <= Cardinality(Supporters(more, p))
  BY <1>3, <1>6, TallyGrows DEF ReviewOK
<1>13. \A p : Reached(steps[r], decisions[r], p) => Reached(mg, more, p)
  <2>1. \A p \in DOMAIN steps[r] : mg[p].required = steps[r][p].required
    BY <1>7
  <2>2. QED
    BY <1>5, <1>7, <1>12, <2>1, ReachedStays
<1>14. ASSUME NEW v \in Workers \ {w}, call[v] \in DecideCall, call[v].r = r
       PROVE  /\ HasRead(v) /\ SeenOK(seen[v].steps, steps[r], decisions[r]) =>
                   SeenOK(seen[v].steps, mg, more)
              /\ HasInserted(v) => \A d \in more :
                   d \in decisions[r] \/ d.step # DecidedStep(v) \/ d.actor # call[v].actor
  <2>1. ASSUME HasRead(v), SeenOK(seen[v].steps, steps[r], decisions[r]), NEW p \in DOMAIN mg
        PROVE  /\ seen[v].steps[p].required = mg[p].required
               /\ seen[v].steps[p].count <= Cardinality(Supporters(more, p))
               /\ seen[v].steps[p].status # "pending" => Reached(mg, more, p)
    <3>1. p \in DOMAIN steps[r] /\ p \in Nat
      BY <1>5, <1>7 DEF IsStepTable
    <3>2. /\ seen[v].steps[p].required = steps[r][p].required
          /\ seen[v].steps[p].count <= Cardinality(Supporters(decisions[r], p))
          /\ seen[v].steps[p].status # "pending" => Reached(steps[r], decisions[r], p)
      BY <2>1, <3>1 DEF SeenOK
    <3>3. IsStepTable(seen[v].steps) /\ DOMAIN seen[v].steps = DOMAIN steps[r]
      BY <1>14, <2>1 DEF TypeInv, WorkerOK
    <3>4. seen[v].steps[p].count \in Nat
      BY <3>1, <3>3 DEF IsStepTable, StepRecord
    <3>5. QED
      BY <1>7, <1>12, <1>13, <3>1, <3>2, <3>4
  <2>2. HasInserted(v) => \A d \in more :
          d \in decisions[r] \/ d.step # DecidedStep(v) \/ d.actor # call[v].actor
    <3> SUFFICES ASSUME HasInserted(v), NEW d \in more, d \notin decisions[r],
                        d.step = DecidedStep(v), d.actor = call[v].actor
                 PROVE  FALSE
      OBVIOUS
    <3>1. DecidedStep(v) = o /\ call[v].actor = a
      BY <1>6
    <3>2. DecisionEntry(r, o, a) \in held[v]
      BY <1>14, <3>1 DEF ReviewInv, ReadOK
    <3>3. held[v] \cap held[w] = {}
      BY DEF LockInv
    <3>4. QED
      BY <1>4, <3>2, <3>3
  <2>3. QED
    BY <2>1, <2>2 DEF SeenOK
<1>15. \A v \in Workers \ {w}, q \in Requests : call[v] \in DecideCall /\ call[v].r = q =>
         /\ requester'[q] = requester[q]
         /\ HasRead(v) /\ SeenOK(seen[v].steps, steps[q], decisions[q]) =>
              SeenOK(seen[v].steps, steps'[q], decisions'[q])
         /\ HasInserted(v) => \A d \in decisions'[q] :
              d \in decisions[q] \/ d.step # DecidedStep(v) \/ d.actor # call[v].actor
  <2> TAKE v \in Workers \ {w}, q \in Requests
  <2>1. CASE q = r
    BY <1>8, <1>14, <2>1
  <2>2. CASE q # r
    BY <1>8, <2>2
  <2>3. QED  BY <2>1, <2>2
<1>16. QED
  BY <1>2, <1>11, <1>15, CommitReview

LEMMA ReviewStep ==
  ASSUME TypeInv, LockInv, ReviewInv, [Next]_vars
  PROVE  ReviewInv'
<1>1. CASE UNCHANGED vars
  BY <1>1 DEF vars, ReviewInv, ReadOK, HasRead, HasPassed, HasInserted, DecidedStep
<1>2. ASSUME NEW w \in Workers, Abort(w)
      PROVE  ReviewInv'
  BY <1>2, GiveUpReview DEF Abort
<1>3. QED
  BY <1>1, <1>2, BeginReview, ReadStepsReview, ReadDecisionsReview, InsertReview, LockReview,
     CommitCreateReview, CommitCancelReview, CommitDecideReview DEF Next, Step, Quiet

LEMMA ReviewInit == Init => ReviewInv
<1> SUFFICES ASSUME Init PROVE ReviewInv
  OBVIOUS
<1>1. \A w \in Workers : ReadOK(w)
  BY CallsDiffer DEF Init, RowsInit, ReadOK, HasRead, HasPassed, HasInserted
<1>2. IsStepTable(<<>>) /\ DOMAIN <<>> = {}
  BY DEF IsStepTable
<1>3. ReviewOK("absent", None, <<>>, {})
  BY <1>2, FreshReview
<1>4. QED
  BY <1>1, <1>3 DEF Init, RowsInit, ReviewInv

LEMMA ReviewAlways == Spec => [](TypeInv /\ ReviewInv)
BY TypeInit, TypeStep, LockInit, LockStep, ReviewInit, ReviewStep, PTL DEF Spec

\* The quorum is counted from decisions of different users, none of them the
\* requester, however old the rows are that make_decision read: a lost update can
\* lose a count, never add one.
THEOREM QuorumIsSound == Spec => []QuorumSound
<1>1. TypeInv /\ ReviewInv => QuorumSound
  BY DEF ReviewInv, ReviewOK, QuorumSound, HasQuorum, Quorum, Approvers, Supporters
<1>2. QED
  BY <1>1, ReviewAlways, PTL

\* Overlapping decisions cannot reach a step ahead of its turn: who activates it has
\* counted the quorum of the one ahead, and nothing takes a decision back.
THEOREM ReviewIsInOrder == Spec => []ReviewInOrder
<1>1. ASSUME TypeInv, ReviewInv PROVE ReviewInOrder
  <2>1. ASSUME NEW r \in Requests, NEW o \in DOMAIN steps[r] \ {1},
               Reached(steps[r], decisions[r], o)
        PROVE  o - 1 \in DOMAIN steps[r] /\ HasQuorum(r, o - 1)
    BY <2>1 DEF Reached, Quorum, HasQuorum, Approvers, Supporters
  <2>2. \A r \in Requests : ReviewOK(status[r], requester[r], steps[r], decisions[r])
    BY <1>1 DEF ReviewInv
  <2>3. QED
    BY <2>1, <2>2 DEF ReviewOK, ReviewInOrder
<1>2. QED
  BY <1>1, ReviewAlways, PTL

\* No interleaving approves a request without the quorum of a last step, or rejects
\* one that nobody rejected.
THEOREM VerdictIsJustified == Spec => []VerdictJustified
<1>1. TypeInv /\ ReviewInv => VerdictJustified
  BY DEF ReviewInv, ReviewOK, VerdictJustified, HasQuorum, Quorum, Approvers, Supporters
<1>2. QED
  BY <1>1, ReviewAlways, PTL

=============================================================================
