----------------------------- MODULE ApprovalTx -----------------------------
(***************************************************************************)
(* ApprovalService with overlapping transactions.  A worker is one         *)
(* database connection of the pool, serving one call after another; a call *)
(* is one READ COMMITTED transaction of PostgreSQL.  Every SELECT sees the *)
(* rows committed when it runs and takes no lock; the domain checks run on *)
(* what was read; an INSERT or UPDATE waits for the transaction that holds *)
(* the same row or unique-index entry; locks are held to the end; and the  *)
(* ORM writes, by primary key, only the columns whose value it changed,    *)
(* whatever the row has become.                                            *)
(*                                                                         *)
(* Because a written row stays locked until the transaction ends, its new  *)
(* values are applied at Commit.  audit_log and outbox rows are inserted   *)
(* by the same transaction without waiting for anybody: module             *)
(* ApprovalService says what they hold.                                    *)
(***************************************************************************)
EXTENDS ApprovalRows, Sequences

CONSTANTS
  Workers,      \* connections of the pool
  Descending    \* requests whose step ids (uuid4) sort against the step order

ASSUME DescendingAssumption == Descending \subseteq Requests

\* The rows of ApprovalRows are the committed ones.
VARIABLES
  pc,      \* worker -> the statement it is about to run
  call,    \* worker -> the call it serves
  seen,    \* worker -> the rows its SELECTs returned
  todo,    \* worker -> rows and entries it has still to lock, in order
  held     \* worker -> rows and entries it has locked

vars == <<status, requester, resource, steps, decisions, pc, call, seen, todo, held>>

NoCall == [kind |-> "none"]
NoRows == [status |-> "absent", steps |-> <<>>]

-----------------------------------------------------------------------------
(* Locks. *)

RequestRow(r)        == <<"request", r>>
StepRow(r, o)        == <<"step", r, o>>
KeyEntry(k)          == <<"key", k>>            \* ix_approval_requests_unique_active
DecisionEntry(r, o, a) == <<"decision", r, o, a>>  \* unique (step_id, actor_id)

\* Transaction v has locked the row, or has inserted into the index key or is
\* updating the request that occupies it.
Holds(v, row) ==
  \/ row \in held[v]
  \/ \E q \in Requests : /\ status[q] \in Occupying
                         /\ row = KeyEntry(resource[q])
                         /\ RequestRow(q) \in held[v]
Busy(w, row) == \E v \in Workers \ {w} : Holds(v, row)

-----------------------------------------------------------------------------

Init ==
  /\ RowsInit
  /\ pc = [w \in Workers |-> "idle"]
  /\ call = [w \in Workers |-> NoCall]
  /\ seen = [w \in Workers |-> NoRows]
  /\ todo = [w \in Workers |-> <<>>]
  /\ held = [w \in Workers |-> {}]

\* Mutant: the session is returned to the pool with its transaction open.
EndCallLeaking(w) ==
  /\ pc' = [pc EXCEPT ![w] = "idle"]
  /\ call' = [call EXCEPT ![w] = NoCall]
  /\ seen' = [seen EXCEPT ![w] = NoRows]
  /\ todo' = [todo EXCEPT ![w] = <<>>]
  /\ UNCHANGED held

\* The end of the transaction: locks released, the session's objects discarded.
EndCall(w) ==
  /\ pc' = [pc EXCEPT ![w] = "idle"]
  /\ call' = [call EXCEPT ![w] = NoCall]
  /\ seen' = [seen EXCEPT ![w] = NoRows]
  /\ todo' = [todo EXCEPT ![w] = <<>>]
  /\ held' = [held EXCEPT ![w] = {}]

\* create_request: a fresh request id, and the INSERT that enters the index.
BeginCreate(w, r, a, k, plan) ==
  /\ pc[w] = "idle"
  /\ status[r] = "absent"
  /\ \A v \in Workers : call[v] # NoCall => call[v].r # r
  /\ pc' = [pc EXCEPT ![w] = "write"]
  /\ call' = [call EXCEPT ![w] =
                [kind |-> "create", r |-> r, actor |-> a, k |-> k, plan |-> plan]]
  /\ todo' = [todo EXCEPT ![w] = <<KeyEntry(k)>>]
  /\ UNCHANGED <<db, seen, held>>

\* Mutant: any request that exists may be cancelled.
BeginCancelAnyway(w, r) ==
  /\ pc[w] = "idle"
  /\ status[r] # "absent"
  /\ pc' = [pc EXCEPT ![w] = "write"]
  /\ call' = [call EXCEPT ![w] = [kind |-> "cancel", r |-> r]]
  /\ seen' = [seen EXCEPT ![w].status = status[r]]
  /\ todo' = [todo EXCEPT ![w] = <<RequestRow(r)>>]
  /\ UNCHANGED <<db, held>>

\* cancel_request up to its flush: the status read is all its check looks at.
BeginCancel(w, r) ==
  /\ pc[w] = "idle"
  /\ status[r] # "absent"
  /\ CanTransition(status[r], "cancelled")
  /\ pc' = [pc EXCEPT ![w] = "write"]
  /\ call' = [call EXCEPT ![w] = [kind |-> "cancel", r |-> r]]
  /\ seen' = [seen EXCEPT ![w].status = status[r]]
  /\ todo' = [todo EXCEPT ![w] = <<RequestRow(r)>>]
  /\ UNCHANGED <<db, held>>

\* make_decision: get_request_by_id is three SELECTs.
BeginDecide(w, r, a, action) ==
  /\ pc[w] = "idle"
  /\ status[r] # "absent"
  /\ pc' = [pc EXCEPT ![w] = "read_steps"]
  /\ call' = [call EXCEPT ![w] =
                [kind |-> "decide", r |-> r, actor |-> a, action |-> action]]
  /\ seen' = [seen EXCEPT ![w].status = status[r]]
  /\ UNCHANGED <<db, todo, held>>

ReadSteps(w) ==
  /\ pc[w] = "read_steps"
  /\ pc' = [pc EXCEPT ![w] = "read_decisions"]
  /\ seen' = [seen EXCEPT ![w].steps = steps[call[w].r]]
  /\ UNCHANGED <<db, call, todo, held>>

\* The last SELECT and the domain checks, which raise (and roll back) or not.
ReadDecisions(w) ==
  LET c == call[w] IN
  /\ pc[w] = "read_decisions"
  /\ UNCHANGED db
  /\ IF CanDecide(seen[w].status, requester[c.r], seen[w].steps, decisions[c.r],
                  c.actor, c.action)
     THEN /\ pc' = [pc EXCEPT ![w] = "insert"]
          /\ UNCHANGED <<call, seen, todo, held>>
     ELSE EndCall(w)

-----------------------------------------------------------------------------
(* What a decision changes, computed from the rows it read. *)

DecidedStep(w)  == ActiveStep(seen[w].steps)
DecidedSteps(w) == StepsAfter(seen[w].steps, DecidedStep(w), call[w].action)
DecidedVerdict(w) == Verdict(seen[w].steps, DecidedStep(w), call[w].action)

\* Mutant: the rows are updated in the order make_decision changes them.
DecisionRowsAsChanged(w) ==
  LET r    == call[w].r
      o    == DecidedStep(w)
      next == NextActive(DecidedSteps(w), o)
  IN  <<StepRow(r, o)>>
      \o (IF DecidedVerdict(w) = "none" THEN <<>> ELSE <<RequestRow(r)>>)
      \o (IF next = 0 THEN <<>> ELSE <<StepRow(r, next)>>)

\* The flush updates the request before its steps, and the steps by primary key.
DecisionRows(w) ==
  LET r    == call[w].r
      o    == DecidedStep(w)
      next == NextActive(DecidedSteps(w), o)
  IN  (IF DecidedVerdict(w) = "none" THEN <<>> ELSE <<RequestRow(r)>>)
      \o (IF next = 0 THEN <<StepRow(r, o)>>
          ELSE IF r \in Descending THEN <<StepRow(r, next), StepRow(r, o)>>
          ELSE <<StepRow(r, o), StepRow(r, next)>>)

\* Mutant: no unique constraint on (step, actor).
InsertDecisionTwice(w) ==
  LET entry == DecisionEntry(call[w].r, DecidedStep(w), call[w].actor) IN
  /\ pc[w] = "insert"
  /\ UNCHANGED db
  /\ pc' = [pc EXCEPT ![w] = "write"]
  /\ held' = [held EXCEPT ![w] = @ \cup {entry}]
  /\ todo' = [todo EXCEPT ![w] = DecisionRows(w)]
  /\ UNCHANGED <<call, seen>>

\* create_decision: the unique constraint on (step, actor) is the last word.
InsertDecision(w) ==
  LET c     == call[w]
      entry == DecisionEntry(c.r, DecidedStep(w), c.actor)
  IN
  /\ pc[w] = "insert"
  /\ ~Busy(w, entry)
  /\ UNCHANGED db
  /\ IF \E d \in decisions[c.r] : d.step = DecidedStep(w) /\ d.actor = c.actor
     THEN EndCall(w)
     ELSE /\ pc' = [pc EXCEPT ![w] = "write"]
          /\ held' = [held EXCEPT ![w] = @ \cup {entry}]
          /\ todo' = [todo EXCEPT ![w] = DecisionRows(w)]
          /\ UNCHANGED <<call, seen>>

\* Mutant: the unique index is consulted by the INSERT of a request only.
LockUnindexed(w) ==
  LET row == Head(todo[w]) IN
  /\ pc[w] = "write"
  /\ todo[w] # <<>>
  /\ ~Busy(w, row)
  /\ UNCHANGED db
  /\ IF \E k \in Resources : row = KeyEntry(k) /\ Occupied(k)
     THEN EndCall(w)
     ELSE /\ held' = [held EXCEPT ![w] = @ \cup {row}]
          /\ todo' = [todo EXCEPT ![w] = Tail(@)]
          /\ UNCHANGED <<pc, call, seen>>

\* One UPDATE or INSERT of the flush.  A key already occupied is a unique
\* violation.  An update that takes a request which has been cancelled meanwhile
\* to another status enters it in the partial index again.
Lock(w) ==
  LET row     == Head(todo[w])
      r       == call[w].r
      reenter == call[w].kind = "decide" /\ row = RequestRow(r) /\ status[r] \notin Occupying
  IN
  /\ pc[w] = "write"
  /\ todo[w] # <<>>
  /\ ~Busy(w, row)
  /\ UNCHANGED db
  /\ IF \E k \in Resources : row = KeyEntry(k) /\ Occupied(k)
     THEN EndCall(w)
     ELSE /\ held' = [held EXCEPT ![w] = @ \cup {row}]
          /\ todo' = [todo EXCEPT ![w] =
                        (IF reenter THEN <<KeyEntry(resource[r])>> ELSE <<>>) \o Tail(@)]
          /\ UNCHANGED <<pc, call, seen>>

\* A column is written only when the session changed the value it had loaded.
Written(now, loaded, new) == IF new = loaded THEN now ELSE new

MergedSteps(w) ==
  LET now == steps[call[w].r] loaded == seen[w].steps new == DecidedSteps(w) IN
  [o \in DOMAIN now |->
     [required |-> now[o].required,
      count    |-> Written(now[o].count, loaded[o].count, new[o].count),
      status   |-> Written(now[o].status, loaded[o].status, new[o].status)]]

Ready(w, kind) == pc[w] = "write" /\ todo[w] = <<>> /\ call[w].kind = kind

CommitCreate(w) ==
  LET c == call[w] IN
  /\ Ready(w, "create")
  /\ status' = [status EXCEPT ![c.r] = "in_review"]
  /\ requester' = [requester EXCEPT ![c.r] = c.actor]
  /\ resource' = [resource EXCEPT ![c.r] = c.k]
  /\ steps' = [steps EXCEPT ![c.r] = NewSteps(c.plan)]
  /\ UNCHANGED decisions
  /\ EndCall(w)

\* Mutant: what was decided goes with the cancelled request.
CommitCancelClearing(w) ==
  /\ Ready(w, "cancel")
  /\ status' = [status EXCEPT ![call[w].r] = "cancelled"]
  /\ decisions' = [decisions EXCEPT ![call[w].r] = {}]
  /\ UNCHANGED <<requester, resource, steps>>
  /\ EndCall(w)

CommitCancel(w) ==
  /\ Ready(w, "cancel")
  /\ status' = [status EXCEPT ![call[w].r] = "cancelled"]
  /\ UNCHANGED <<requester, resource, steps, decisions>>
  /\ EndCall(w)

\* Mutant: the request's row is written back as it was read.
CommitDecideWhole(w) ==
  LET c == call[w] IN
  /\ Ready(w, "decide")
  /\ decisions' = [decisions EXCEPT ![c.r] =
        @ \cup {[step |-> DecidedStep(w), actor |-> c.actor, action |-> c.action]}]
  /\ steps' = [steps EXCEPT ![c.r] = MergedSteps(w)]
  /\ status' = [status EXCEPT ![c.r] =
        IF DecidedVerdict(w) = "none" THEN seen[w].status ELSE DecidedVerdict(w)]
  /\ UNCHANGED <<requester, resource>>
  /\ EndCall(w)

CommitDecide(w) ==
  LET c == call[w] IN
  /\ Ready(w, "decide")
  /\ decisions' = [decisions EXCEPT ![c.r] =
        @ \cup {[step |-> DecidedStep(w), actor |-> c.actor, action |-> c.action]}]
  /\ steps' = [steps EXCEPT ![c.r] = MergedSteps(w)]
  /\ status' = [status EXCEPT ![c.r] = Written(@, "none", DecidedVerdict(w))]
  /\ UNCHANGED <<requester, resource>>
  /\ EndCall(w)

\* The process dies, the client disconnects or the connection is lost: rollback.
Abort(w) ==
  /\ pc[w] # "idle"
  /\ EndCall(w)
  /\ UNCHANGED db

Begin(w) ==
  \E r \in Requests :
    \/ BeginCancel(w, r)
    \/ \E a \in Actors :
         \/ \E k \in Resources, plan \in Plans : BeginCreate(w, r, a, k, plan)
         \/ \E action \in ActionType : BeginDecide(w, r, a, action)

Step(w) ==
  \/ ReadSteps(w) \/ ReadDecisions(w) \/ InsertDecision(w) \/ Lock(w)
  \/ CommitCreate(w) \/ CommitCancel(w) \/ CommitDecide(w)

\* Nobody calls any more: the only way the system may stop.
Quiet == (\A w \in Workers : pc[w] = "idle") /\ UNCHANGED vars

Next == (\E w \in Workers : Begin(w) \/ Step(w) \/ Abort(w)) \/ Quiet

Spec == Init /\ [][Next]_vars

\* A transaction runs its next statement when it need not wait, and a waiting one
\* is not overtaken for ever: the lock queue of the database is first come, first
\* served.
FairSpec == Spec /\ \A w \in Workers : SF_vars(Step(w))

-----------------------------------------------------------------------------
(* Properties. *)

\* Types: every committed row is legal, and a worker holds or wants no row
\* unless it serves a call.
TypeOK ==
  /\ status \in [Requests -> RequestStatus \cup {"absent"}]
  /\ requester \in [Requests -> Actors \cup {None}]
  /\ resource \in [Requests -> Resources \cup {None}]
  /\ \A r \in Requests :
       /\ IsStepTable(steps[r])
       /\ decisions[r] \subseteq [step : DOMAIN steps[r], actor : Actors, action : ActionType]
  /\ pc \in [Workers -> {"idle", "read_steps", "read_decisions", "insert", "write"}]
  /\ \A w \in Workers : pc[w] = "idle" => held[w] = {} /\ todo[w] = <<>>

HasQuorum(r, o) == Cardinality(Approvers(r, o)) >= steps[r][o].required

\* However transactions overlap, no step is approved by fewer different users
\* than it requires, or with the help of the requester, and nobody both approves
\* and rejects a step.
QuorumSound ==
  \A r \in Requests :
    /\ \A d, e \in decisions[r] : d.step = e.step /\ d.actor = e.actor => d = e
    /\ \A o \in DOMAIN steps[r] : steps[r][o].status = "approved" => HasQuorum(r, o)
    /\ \A d \in decisions[r] : d.actor # requester[r]

\* However transactions overlap, nothing happens to a step before the one ahead
\* of it has its quorum.
ReviewInOrder ==
  \A r \in Requests : \A o \in DOMAIN steps[r] \ {1} :
    \/ steps[r][o].status = "pending" /\ \A d \in decisions[r] : d.step # o
    \/ o - 1 \in DOMAIN steps[r] /\ HasQuorum(r, o - 1)

\* An approved request has passed a last step, with quorum; a rejected one has
\* been rejected by somebody.
VerdictJustified ==
  \A r \in Requests :
    /\ status[r] = "approved" =>
         \E o \in DOMAIN steps[r] : o + 1 \notin DOMAIN steps[r] /\ HasQuorum(r, o)
    /\ status[r] = "rejected" => \E d \in decisions[r] : d.action = "reject"

\* Who w waits for before its next INSERT or UPDATE.
WaitsFor(w) ==
  LET wanted == IF pc[w] = "insert"
                THEN {DecisionEntry(call[w].r, DecidedStep(w), call[w].actor)}
                ELSE IF todo[w] # <<>> THEN {Head(todo[w])} ELSE {}
  IN  {v \in Workers \ {w} : \E row \in wanted : Holds(v, row)}

\* No transactions wait for each other in a circle, whichever steps their
\* decisions are on: the database never has a deadlock to break.
NoLockCircle ==
  \A S \in (SUBSET Workers) \ {{}} : \E w \in S : WaitsFor(w) \cap S = {}

\* Every transaction ends: no lock is waited for forever.
EveryCallEnds == \A w \in Workers : pc[w] # "idle" ~> pc[w] = "idle"

\* The rows of the request w's call is about are no longer what the call has read
\* of them (a creation has found no row, a cancellation reads the status only).
Stale(w) ==
  \/ seen[w].status # status[call[w].r]
  \/ call[w].kind = "decide" /\ seen[w].steps # steps[call[w].r]

\* Overlapping does no harm by itself: every change of the tables is one that the
\* operations make one at a time, except the commit of a call whose rows have
\* changed since it read them.
SerialUnlessStale ==
  [][\/ UNCHANGED db
     \/ RowsNext
     \/ \E w \in Workers : pc[w] = "write" /\ pc'[w] = "idle" /\ Stale(w)]_vars

\* And whatever those late commits do, the service keeps the record of the review
\* that ReviewRecord describes.
Record ==
  INSTANCE ReviewRecord
    WITH phase <- status, author <- requester, home <- resource, votes <- decisions,
         quorum <- [r \in Requests |-> [o \in DOMAIN steps[r] |-> steps[r][o].required]],
         claim <- Claim, Quorums <- Plans
ImplementsRecord == Record!RSpec

\* A settled request keeps its status.
TerminalImmutable ==
  [][\A r \in Requests : status[r] \in TerminalStatuses => status'[r] = status[r]]_vars

\* current_count is the number of approvals recorded for the step.
CountIsTally ==
  \A r \in Requests : \A o \in DOMAIN steps[r] :
    steps[r][o].count = Cardinality(Approvers(r, o))

=============================================================================
