# TLA+ models of the approval service

This directory holds TLA+ modules, TLC configurations and TLAPS proofs for
`approval-service` (FastAPI, SQLAlchemy, PostgreSQL).  Paths below are relative
to `src/approval-service/src/approval_service/` unless they start with `src/`.

## 1. The system

The service runs approval requests.  A *rule* (per workspace and resource type)
holds step definitions: order, role, number of approvals.  A *request* is created
for an external resource, copies the steps of its rule, is reviewed step by step
and ends approved, rejected or cancelled.  Every change writes an audit row and
outbox rows in its own transaction; a poller is to publish the outbox.

### Inventory

| Component | State it keeps | Operations | Interacts with |
|---|---|---|---|
| Domain rules (`domain/`) | none of its own: objects built from rows | `transition_to`, `cancel`, `record_decision`, `_get_active_step` | called by ApprovalService |
| ApprovalService (`application/services/approval_service.py`) | `approval_requests`, `approval_steps`, `approval_decisions` | `create_request`, `cancel_request`, `make_decision` | rules (read), audit and outbox writers, all in one transaction |
| Transactions (`dependencies.py`, repositories, schema) | the session's loaded rows, row locks, unique-index entries | SELECT, flush, commit, rollback | PostgreSQL, other workers through the shared rows |
| Audit writer | `audit_log`, append only | `log` | every operation that changes something |
| Outbox writer | `outbox`, append only | `write` | every operation that changes something; read by the poller |
| Outbox poller (`infrastructure/outbox/publisher.py`) | `published_at`, `retry_count` | `start`, `stop`, `_poll_batch` | outbox rows, a publisher, other pollers (SKIP LOCKED) |
| Idempotency middleware (`api/middleware/idempotency.py`) | `idempotency_keys` | `dispatch` (two transactions around the handler), `cleanup_expired_keys` | wraps the API handlers, other calls with the same key |
| RuleService (`application/services/rule_service.py`) | `approval_rules` with a version | `create_rule`, `update_rule`, `deactivate_rule` | read by `create_request`; audit and outbox |
| API, error handler, workspace dependency, logging, configuration | none that outlives a call | validation, mapping of errors, filters | in front of the services |

`main.py` installs neither the idempotency middleware nor a poller; both are
complete components with their own tests or documentation and are listed as such.

### What is hard, and what makes each component correct

* **ApprovalService, one call at a time.**  A decision changes a step, perhaps the
  next one, perhaps the request, and three kinds of derived rows.  The long runs of
  legal calls matter: rules with a gap in their orders or without a step 1,
  decisions after a cancellation, a resource submitted again.  Correct means: the
  review walks its steps in order (`StepChain`) and approves when they are done, all
  of them or those up to a gap in their orders (`ApprovedUpToGap`), the count is the
  number of approvers (`QuorumExact`), events and audit log tell of a request what
  they are to tell and no more (`EventsTellState`, `CallsAudited`), and seen from
  outside a request has one life and a resource one claimant
  (`ImplementsLifecycle`).  The documents promise more of approval, events and audit
  log than the code does (section 4).
* **Overlapping transactions.**  `get_db_session` opens one READ COMMITTED
  transaction per call and nothing is read FOR UPDATE: every check may be stale
  when the UPDATE it guards is run.  Correct means: what the unique constraints and
  the write-by-column behaviour still guarantee (`QuorumSound`, `ReviewInOrder`,
  `VerdictJustified`, `OneClaimPerResource`), which together with what a late call may
  do make the record of a review (`ImplementsRecord`), no harm but by calls whose rows
  have changed since they read them (`SerialUnlessStale`), no lock circle
  (`NoLockCircle`), and every call ends (`EveryCallEnds`).  Two documented promises do
  not survive the overlap (section 4).
* **Outbox poller.**  A crash between publish and commit, a failing publisher,
  several pollers, ids that become visible out of order.  Correct means: one poller
  per row (`ClaimsExclusive`), nothing marked that was not sent and nothing given up
  too early (`ImplementsRelay`), every row settled in the end (`EveryRowSettles`).
  The documented order within an aggregate is not kept (section 4).
* **Idempotency middleware.**  A lookup before the lock, two transactions with the
  handler in between, crashes and expiry.  Correct means: while a key is remembered
  one call acts and all are told its answer (`ImplementsOnce`, `KeyHeld`), an answer
  goes to the same request only (`ReplayFaithful`), nobody waits for ever
  (`EveryCallEnds`).  What a duplicate and another workspace are told differs from
  the documents (section 4).
* **RuleService.**  The version check is a read, not a condition of the UPDATE, so
  of two overlapping updates with one version neither fails (section 4).  Correct
  means what is left: a rule's columns change only to what somebody asked for
  (`ColumnsAsAsked`), its events carry ids in the order of its changes
  (`EventOrder`), the audit log is the rule's history as long as no update was stale
  (`AuditTellsRow`), a request copies steps the rule really had (`PlansOnRecord`),
  and every call ends (`EveryCallEnds`).

Every hazard is listed at its line in `PROJECT.json`, with the properties that
watch it or the reason there is none yet.

## 2. The modules

| Module | Models | Kind |
|---|---|---|
| `ApprovalDomain` | `domain/`: state machine, effect of one decision | operators only |
| `RequestLifecycle` | what the service promises of a request and a resource | abstract specification |
| `ReviewRecord` | what is left of that promise when calls on one request overlap | abstract specification |
| `ApprovalRows` | requests, steps and decisions, and what each operation does to them by itself | state machine; implements `RequestLifecycle` |
| `ApprovalService` | the three operations, each one whole transaction, with audit and outbox rows | state machine; adds to `ApprovalRows` |
| `ApprovalTx` | the same operations as overlapping transactions of several workers | state machine; implements `ReviewRecord` |
| `EventRelay` | what the outbox promises of an event | abstract specification |
| `OutboxPoller` | the outbox table, its writers and the pollers | state machine; implements `EventRelay` |
| `OncePerKey` | what an idempotency key promises | abstract specification |
| `IdempotencyMiddleware` | `dispatch` around a handler, and the cleanup of expired keys | state machine; implements `OncePerKey` |
| `RuleService` | creating, updating and deactivating rules with overlapping transactions, and `create_request` as their reader | state machine |
| `MCApprovalService`, `MCApprovalTx`, `MCOutboxPoller`, `MCIdempotency`, `MCRuleService` | the plans, rows and requests of the instances, symmetry | model checking |
| `ApprovalRowsProofs` | lemmas about the operators of `ApprovalDomain`, theorems about `ApprovalRows` | proofs |
| `ApprovalServiceProofs` | theorems about `ApprovalService`: its rows, events and audit log | proofs |
| `ApprovalTxProofs`, `ApprovalTxOrderProofs`, `ApprovalTxSerialProofs` | theorems about the overlapping transactions: their rows; the order of their locks; how they differ from serial calls | proofs |
| `OutboxPollerProofs`, `IdempotencyProofs`, `RuleServiceProofs` | theorems about the poller, the middleware and the rules | proofs |

`ApprovalDomain` and `ApprovalRows` are used by both models of the operations.  The poller reads the
table the operations write, the middleware wraps them; each of the two is modelled
with the other side reduced to what it sees of it: a writer is a transaction that
inserts a row and then commits or rolls back, a handler is a transaction that
commits, refuses or raises.

### State and actions

`ApprovalDomain` applies to one request's steps, a function from step order to
`[required, count, status]`, and decisions, a set of `[step, actor, action]`.
`CanDecide` is every check of `ApprovalRequest.record_decision` and
`ApprovalStep.record_decision` in one predicate: not the requester, some step is
active, the actor has not decided on it, and *if* the decision settles the request,
its status allows that.  `DecideStep`, `StepsAfter` and `Verdict` are their effects.
`ActiveStep` is the first active step in step order, because the relationship is
ordered; 0 stands for none.

`ApprovalRows` has one variable per column that matters (`status`, `requester`,
`resource`) or table (`steps`, `decisions`), each a function of the request.  A request
that does not exist has the status `"absent"`.  A resource is the key of the partial
unique index.  `CreateRows`, `CancelRows` and `DecideRows` are what the three operations
do to these rows, checks included; `RowsSpec` is what the tables hold when calls are
served one at a time, and `StepChain`, `ApprovedUpToGap`, `QuorumExact` and
`ImplementsLifecycle` are stated of it.

`ApprovalService` adds the tables `audit` and `outbox`; its three actions do to the rows
what those of `ApprovalRows` do and append what the same transaction writes there.  A
call that fails its checks rolls back and is no action.  `CreateRequest` takes the plan
of whatever rule was found; the status `pending`, which no other transaction ever sees,
is passed over within the action.  Of the events' payloads the model keeps the new
status of a `RequestStatusChangedEvent`, the step of an activation and the decision;
a `RequestCreatedEvent` has no status.  An audit entry may have any `AuditAction` of
the code, though the operations write three of them for a request.

`ApprovalTx` splits each call at the points where others can come between:

| Action | Statement |
|---|---|
| `BeginCreate`, `BeginCancel`, `BeginDecide` | the call and the first SELECT |
| `ReadSteps`, `ReadDecisions` | the two `selectinload` queries; then the domain checks |
| `InsertDecision` | the flush of `create_decision`, under `unique (step_id, actor_id)` |
| `Lock` | one INSERT or UPDATE of the flush, waiting while another transaction holds the row or entry |
| `CommitCreate`, `CommitCancel`, `CommitDecide` | the commit in `get_db_session` |
| `Abort` | exception, lost client, lost connection, crash: rollback |

New values become visible at the commit, and the rows concerned stay locked from
their UPDATE to the commit, so the model applies them there.  `Written` says what
SQLAlchemy does: an UPDATE sets the columns whose value differs from the one
loaded, by primary key, whatever the row has become.  An UPDATE of the request row
that takes a meanwhile cancelled request to another status enters the partial index
again and waits for, or collides with, whoever holds the key.  The flush sorts
requests before steps and steps by primary key; ids are random, so `Descending`
names the requests whose ids run against the step order.  The foreign keys take
KEY SHARE locks that do not conflict with UPDATEs of other columns, and are left
out.

`ReviewRecord` sees a request's phase, author, resource, required quorums and votes, and
the claim on each resource.  It keeps every rule about votes (one per user and step, not
by the author, a step only after the quorum of the one ahead) and ties each verdict to
the vote that justifies it, but lets a late vote overrule a verdict or a withdrawal, and
a completed quorum go unnoticed: that is what lost updates can do.

`OutboxPoller` has the table (`row`, `aggregate`, `published`, `retries`) and for
each poller its loop (`running`) and its batch (`claimed`, and of it `done` and
`failed`, the two lists of ids).  `Write` draws the next id at the flush, `EndWrite`
makes the row visible or leaves a gap.

| Action | Code |
|---|---|
| `Start`, `Stop` | the same; the loop ends after the batch in hand |
| `Poll` | the SELECT: unpublished, below `max_retries`, not locked by another, first `batch_size` by id |
| `PublishOk`, `PublishFails` | one round of the loop over the batch; a publish that raises may have gone out |
| `Finish` | the two UPDATEs and the commit |
| `Crash` | an exception outside the inner `try`, a lost connection, the end of the process: rollback, and the loop is over |

PostgreSQL looks at a row again once it has locked it, so a row published between
the SELECT's snapshot and the lock is not taken; `Poll` is one step for that reason.
The model keeps which events have gone out (`delivered`), not how often: sending
again after a crash is allowed by the promise of at least once.

`IdempotencyMiddleware` has for each call what it carries and how far it has come,
for each key the call that inserted its row, and the calls with a stored answer
(`is_processing` false), with an effect, and with a reply.

| Action | Code |
|---|---|
| `Receive`, `Lookup` | the headers; `_get_existing_key` and the three early returns, in their order |
| `Lock` | `pg_advisory_xact_lock(hash(key) % 2**31)`; the hash differs from process to process |
| `Insert` | the INSERT of the claim with its commit; a row with the same key fails it |
| `Handle`, `Raise` | `call_next`, which returns a response after the handler's commit or refusal, or raises |
| `Store`, `Respond` | the second transaction; the response |
| `Die` | the call ends anywhere, without a reply |
| `Cleanup` | `cleanup_expired_keys`, of a row whose call is over |

A stored row always has a body, so the lookup never goes on past an answered row.
That `Cleanup` waits for the call to be over is the assumption that no call outlives
`ttl_hours`; the `DELETE` itself goes by `expires_at` alone, and what it would do to a
call still under way is outside the model.  The replay ignores the request's body, as
the documents say.

`RuleService` has the rules of one workspace and resource type, named by their
`created_at`, since `find_matching_rule` takes the newest active one (two rules
created at the same instant are left out).  Each has its row (steps, activity,
version), its audit entries and its outbox rows in the order of their commits; a
worker has the call it serves with the row its SELECT returned and the outbox id it
has drawn.  Steps are a member of `Plans`; name, description and conditions are
further columns of the same kind.

| Action | Code |
|---|---|
| `CreateRule` | `create_rule`; nobody sees the row or its event before the commit, so it is one step |
| `BeginChange` | the SELECT of `update_rule` or `deactivate_rule` and the version check |
| `Flush` | the UPDATE, waiting for the transaction that has updated the row |
| `WriteEvent` | the audit entry and the outbox row, which draws its id |
| `CommitChange` | the commit: columns whose value differs from the one loaded, and always the version |
| `BeginRequest`, `CommitRequest` | `create_request`: the SELECT of the rule, by id or by match, and the commit of the copied steps |
| `Abort` | rollback; a drawn id is not given back |

## 3. The runs

| Run | Instance | Checks |
|---|---|---|
| `service` | 2 requests, 1 resource, 3 users, 3 plans | `TypeOK`, `StepChain`, `ApprovedUpToGap`, `QuorumExact`, `EventsTellState`, `CallsAudited`, `ImplementsLifecycle` |
| `tx_steps` | 2 workers, 1 request, 3 users, plans of two and three steps | `TypeOK`, `QuorumSound`, `ReviewInOrder`, `VerdictJustified`, `NoLockCircle`, `SerialUnlessStale`, `ImplementsRecord` |
| `tx_claims` | 2 workers, 2 requests, 1 resource, 2 users, one-step plan | `OneClaimPerResource`, `ImplementsRecord`, `EveryCallEnds` |
| `outbox` | 2 pollers, 3 rows of one aggregate, batches of 2, 2 attempts | `TypeOK`, `ClaimsExclusive`, `ImplementsRelay`, `EveryRowSettles` |
| `idem` | 3 calls with one key; 2 processes, endpoints and workspaces | `TypeOK`, `KeyHeld`, `ReplayFaithful`, `ImplementsOnce`, `EveryCallEnds` |
| `rules` | 2 workers, 2 rules, 2 plans, no call begins once three outbox ids are drawn | `TypeOK`, `EventOrder`, `AuditTellsRow`, `PlansOnRecord`, `ColumnsAsAsked`, `EveryCallEnds` |
| `tx_verdict`, `tx_tally`, `service_cancelled` | as above | one documented promise each, violated (section 4) |
| `outbox_order` | 1 poller, 2 rows that become visible in the order of their ids | `AggregateOrder`, violated |
| `idem_clash` | 2 calls, 2 workspaces | `NoKeyClash`, violated |
| `rules_stale` | 2 workers, 1 rule | `StaleUpdatesRefused`, violated |

**Why these bounds are enough to be interesting.**  Two requests for one resource
are needed to compete for it, and to use it again after a cancellation.  Three
users are a requester and the two approvers of a quorum of two, or one who approves
and one who rejects.  The plans are a quorum of two followed by another step, a gap
(1, 3), and no step 1; for overlapping calls, a review of three steps, because a
late commit of a decision on step 1 can then find step 3 under review and activate
step 2 again.  Two workers are two transactions in every interleaving; a worker
serves call after call, so a slow transaction overlaps any number of others.  The
second request in `tx_claims` is what a cancelled request meets when a decision
revives it.  Nothing grows without bound: request ids are used once, decisions are
limited by the unique constraint, and so audit and outbox are finite.

Three outbox rows with batches of two leave one row over for the other poller, let a
row commit after larger ids were taken, and let one batch hold a success and a
failure; two attempts are one that is counted and one that is the last.  Three calls
with one key are the first call, a duplicate and a retry after the row was cleaned
up; the requests are the same request through two processes, another endpoint and
another workspace.  Keys do not interact (a collision of their hashes only adds a
wait), so one is enough.

`outbox_order` has a state constraint, `CommitsInIdOrder`, so that its counterexample
shows the cause the finding is about, a publish that fails.  Without it the shortest
one is a late commit: the row with the smaller id is not there yet when the poller
looks.

Three outbox ids (`MaxId`) are a creation and two changes; the calls under way when
the third is drawn still end, so that two changes read one version, one of them
overtakes the other, and a third comes late with what it has read before both.  Two
rules are the newest that matches and the older one that takes its place when it is
deactivated; two plans tell a change of steps from none.

**Symmetry** of the workers is used in `tx_steps` (safety only), not in
`tx_claims`, which checks liveness.  **Deadlock** is not checked in the runs of
`ApprovalService`: once every id is used and settled nothing is left to do.
`ApprovalTx` has the disjunct `Quiet` (nobody calls any more) and is checked; since
a transaction can always abort, circles of waiting are the business of
`NoLockCircle`.  It is not checked in the runs of the middleware, where calls stop
coming, and is checked in those of the poller.  `RuleService` has `Quiet` too and is
checked.

**Fairness** (`FairSpec`, for the liveness properties only).  `ApprovalTx`: strong fairness of each
worker's next statement.  A statement that need not wait is run by the event loop
and the database; one that waits is served in the order of the database's lock
queue, so it is not overtaken for ever although others may take the lock meanwhile.
`Abort` and the calls themselves are never assumed to happen.  `OutboxPoller`: weak
fairness of each poller's next step, because `start` loops and awaits nothing but
the database, the publisher and a sleep; that pollers crash, stop or are started is
left open, and `EveryRowSettles` has it as a premise that each of them in the end
stays up or stays down and one stays up.  A poller that is stopped finishes its
batch, a crashed one has released it.  `IdempotencyMiddleware`: weak fairness of each
call's next step; a call that waits for the advisory lock waits for transactions
that insert and commit without waiting for it.  `RuleService`: strong fairness of each worker's
next statement, since the row lock is given in the order it was asked for.

Every property of a passing run has a mutant, an operator beside the original that
makes a plausible mistake; replacing the original by it breaks the property.

## 4. What the runs show

What holds under any overlap of the instances: an approved step has as many
approve rows, by different users none of whom is the requester, as it requires; no
step is touched before the one ahead of it has its quorum; an approved request has
a last step with quorum and a rejected one a rejection; no resource has two
requests outside `cancelled`, even when a late decision brings a cancelled request
back; transactions neither wait in a circle nor for ever.  Lost updates err on the
safe side: the count never exceeds the approvals.  Every commit does what the operation
would do by itself on the rows as they are, except that of a cancellation or decision
whose request has changed since it was read (`SerialUnlessStale`): creations are
serialized by the unique index, and calls on different requests do not meet elsewhere.
What those late commits do stays within `ReviewRecord`.

What does not hold, each with the run that shows it:

* `tx_verdict`: a settled request can change its status.  Two calls read
  `in_review`; both pass; the second UPDATE overwrites the first.  `DESIGN.md` says
  terminal states are immutable and a second attempt gets 409.
* `tx_tally`: two overlapping approvals both store the count 1.  With exactly
  `required_count` possible approvers the step can then never complete.
* `service_cancelled`: a cancelled request still takes decisions that do not settle
  it, because the request's status is consulted only by `transition_to`.
* `outbox_order`: an event whose publish fails is overtaken by the later events of
  its aggregate, in the same batch.  Two events of one request are committed in the
  order of their ids; one poller takes both, the publish of the first raises, and the
  loop goes on to the second.  A late commit of a smaller id and a second poller
  break the order too (`Orderly` in section 5 names all three causes).
* `idem_clash`: the INSERT of a claim can meet a row with its key and answer 500
  from the primary key.  Either two calls both look the key up before one of them has
  committed its claim and pass the lock one after the other, where the documents
  promise the second 409; or the row belongs to another workspace, since the primary
  key is the key alone while the lookup is by workspace.
* `rules_stale`: an update given version 1 replaces version 2.  Both updates read
  version 1, and the UPDATE is by primary key.  The stale one then writes version 2
  again, or a lower one when several have passed it; versions repeat or go back.

All but `service_cancelled`, which needs no overlap, come from steps that meet at the
wrong moment or, in `outbox_order`, from a failed publish.  Section 5 proves for each of
these five promises a premise under which it holds.

Three more disagreements with the documents need no particular behaviour to show: the
code simply does something else, always.  Here the property states what the code does,
run `service` confirms it, and the finding in `PROJECT.json` names that run and property
and quotes the document.

* `ApprovedUpToGap`: a rule with orders 1 and 3 approves the request after step 1, and
  step 3 stays pending for ever, since the next step is looked for at order + 1.
  `DESIGN.md` and the design document approve when *all* steps are approved, which is
  what the property says of orders without a gap; nothing keeps a rule from having
  one.
* `EventsTellState`: no event says that a review has begun.  `create_request` moves the
  request to `in_review` itself and writes `approval.request.created`, which names no
  status; the first decision changes no status.  `DESIGN.md` has
  `approval.request.in_review` sent on the first decision, the design document
  `approval.request.status_changed` on every change.  A consumer has to take the
  creation for the beginning of the review, as the property does.
* `CallsAudited`: of a request the audit log holds the creation, the decisions and the
  cancellation, and nothing else.  The entries `status_changed`, `step_activated` and
  `step_completed` that the documents list, and for which `AuditAction` has names, are
  written by nothing.  Verdicts and steps can be worked out from the decisions and the
  rule, but the log alone does not have them.

A smaller observation has no property: a repeated DELETE of a rule, which is documented
as idempotent by nature, raises the version once more and writes another audit entry
and event.

`RuleService` models the service with the commit its caller is meant to make.  The
handler of PUT reads `updated_at` from the row it has just updated
(`api/v1/routers/rules.py:134`); the column has `onupdate=func.now()`, so the ORM
does not know the new value and has to load it, which asyncio does not let it do
there.  Such a call ends as `Abort` after `WriteEvent`, one of the outcomes the model
has at that point; the properties hold of it too, and `rules_stale` is about
`update_rule` with a caller that commits.

What holds of rules under any overlap: an update of the steps does not undo an
overlapping deactivation or the other way round, because each sets only the columns
it changed; the ids of a rule's events follow its commits, because they are drawn
while the row is locked; a request has steps its rule is on record for, even when it
was changed or deactivated while the request was made.  The audit log keeps the
row's history only while versions are not repeated: a stale update records as the old
state what it read.

The poller keeps at-least-once delivery under crashes of either poller at any point,
and commits out of id order lose nothing, since a late row is simply still
unpublished.  Under the middleware no two calls act on one key while its row is
there, whether or not they share the advisory lock: the primary key alone does it
(the proof never mentions the lock).  A call that dies or whose handler raises after
the claim leaves its row in processing, and its retries are told 409 until
the row is cleaned up; no code in the repository runs the cleanup.

`LoggingEventPublisher`, the only publisher here, is handed a base `DomainEvent`
whose `event_type` raises: with it every publish fails.  That is one of the
behaviours of `outbox`, in which every row ends given up.

## 5. What is proved

**The service**, for every set of requests, resources and users and every set of
plans a rule may hold (`PlansAssumption`: positive orders, finitely many, positive
quorums; nothing about gaps), with `None` none of them (`NoneAssumption`).  What the
tables hold is proved once, of `ApprovalRows`, and inherited by both models above it:
by `ApprovalService`, each of whose steps is one of `RowsNext` or leaves the rows alone
(`ServiceIsRows`: `Spec => RowsSpec`), and by `ApprovalTx` as far as its calls keep
apart.

| `ApprovalRowsProofs` | `ApprovalServiceProofs` | States |
|---|---|---|
| `RowsAreTyped` | `TypeCorrect` | `[]RowsTypeOK`; with the logs, `[]TypeOK` |
| `RowsFollowChain` | `ReviewFollowsChain` | `[]StepChain` |
| `RowsCountQuorum` | `QuorumIsExact` | `[]QuorumExact` |
| `RowsImplementLifecycle` | `ServiceImplementsLifecycle` | `ImplementsLifecycle` |
| `RowsApproveUpToGap` | `ReviewApprovesUpToGap` | `[]ApprovedUpToGap` |
| | `EventsAreTelling` | `[]EventsTellState` |
| | `CallsAreAudited` | `[]CallsAudited` |

The argument is layered.  `RowsTypeOK` is inductive: it includes that every decision
names a step of its request.  `StepChain` is inductive with it: for each
request there is a step `at` the review has reached, and the active step, if any, is
that one (`ActiveIsUnderReview`); so a decision lands on `at`, and `at + 1` is
pending when it is activated.  `QuorumExact` needs both, and the finiteness of the
sets of approvers, which the induction carries along (`QuorumInv`): `StepChain` says
the step to be activated is pending and so has the count 0.  The refinement needs
`ClaimInv`: no two requests in one index key, every existing request has a resource,
and none is seen `pending`.  It makes `Claim`, the refinement mapping's CHOOSE, a
function of the index (`ClaimIsClaimant`), so that each operation changes exactly
the claim it should (`ClaimElsewhere`).  `ApprovedUpToGap` follows from `StepChain`: where a
review has got to says which steps are approved (`ReviewApproves`).  `EventsInv` puts the
property's "latest activation" as an existential that survives the appending of other
types (`AppendTells`); it needs `StepChain`, without which the step announced by a
decision need not be the active one (`ReviewMovesOn`) and a request might be `pending`.
That a status is told only once rests on `transition_to`: a request that is cancelled or
settled leaves `in_review`, and no event told that it was there.  `AuditInv` counts the
entries against the decisions and carries the finiteness of these along; that each
decision is recorded exactly once rests on the check that refuses a second one.

**The poller** (`OutboxPollerProofs`), for any pollers, any set of natural numbers as
ids, any batch size and retry limit of at least 1 (`IdsAssumption`,
`LimitsAssumption`, `NoneAssumption`): `PollerTypeCorrect`, `OnePollerPerRow`
(`ClaimsExclusive`) and `PollerImplementsRelay`.  `TypeOK` and `ClaimsExclusive` are
inductive together: a claimed row stays to be published because nobody else marks
it, and nobody else marks it because claims are disjoint.  The refinement follows
action by action; `Finish` settles the published rows and those whose count reaches
the limit (`FinishSettles`).

`OrderlyKeepsOrder` is `Spec /\ []Orderly => AggregateOrder`, the property that
`outbox_order` violates.  `Orderly` says that one poller at a time has a batch, that no
publish fails, and that events of one aggregate become visible in the order of their
ids; crashes stay allowed.  TLC finds `AggregateOrder` violated when any one of the
three is dropped, so this is what the documented order costs.  The invariant
(`OrderInv`) is that a batch lacks no earlier event of an aggregate that has not been
sent: a batch is the least of the rows to be published, and none of these has been
tried in vain.

**The middleware** (`IdempotencyProofs`), for any calls, keys, workspaces, endpoints,
processes and any set of requests made of them (`RequestsAssumption`), calls, refusals
and `None` being different things (`CallsAssumption`): `MiddlewareTypeCorrect`, `KeyIsHeld`,
`ReplaysAreFaithful`, `MiddlewareImplementsOnce` and `KeysApartNeverClash`.  The
invariant adds to the properties how far a call with an effect or a stored answer has
come (`Progress`); without it a call could act twice.  `AnswerKeeps` and `AnswerTells` treat at once
every way in which `dispatch` ends.

`KeysApartNeverClash` is `Spec /\ []KeysApart => []NoKeyClash`, the property that
`idem_clash` violates.  `KeysApart` says that the calls with one key are of one workspace
and that no two of them are between lookup and claim at once; retries, duplicates that
come later, crashes and cleanups stay allowed.  TLC finds a clash when either half is
dropped.  Its invariant is that a call between lookup and claim has no row in its way;
that a claim is visible to the next lookup needs `KeyHeld`.

**The overlapping transactions** (`ApprovalTxProofs`), for any number of workers, any
requests, resources, users and plans, and any set of requests whose ids run against
the step order (`NoneAssumption`, `PlansAssumption`, `DescendingAssumption`):

| Theorem | States |
|---|---|
| `TypeCorrect` | `Spec => []TypeOK` |
| `OneClaim` | `Spec => []OneClaimPerResource` |
| `QuorumIsSound` | `Spec => []QuorumSound` |
| `ReviewIsInOrder` | `Spec => []ReviewInOrder` |
| `VerdictIsJustified` | `Spec => []VerdictJustified` |

Three layers of invariant.  `TypeInv` adds to `TypeOK` which fields a call has at each
statement.  `LockInv` says what a lock is good for: a key a worker has locked is
occupied by nobody and locked by nobody else, and a call that is about to commit has
locked, or still wants, its request's row and, if it brings the request back, its
key; so no commit makes a second claim.  `ReviewInv` says of each
request's rows what `QuorumSound`, `ReviewInOrder` and `VerdictJustified` need, and of
each worker that what it has read still bounds the rows from below (`ReadOK`):
decisions are never deleted, a step that was seen no longer pending has been reached,
that is, the step ahead of it has its quorum for ever, a
count that was seen is at most the number of approvers by now.  That is why a late
commit that writes an old count or activates a step a second time does no harm:
counts err downwards, quorums do not go away.

`NoDeadlock` (`ApprovalTxOrderProofs`) is `Spec => []NoLockCircle`.  Its invariant
`OrderInv` says of each worker that everything it still wants comes after everything
it has locked, in the order decision entry, request row, index key, step rows by id
(`Descending` says in which direction the ids of a request's steps run), and that a
decision that wants a key has locked its request.  In a circle take, of the workers of one
request, the one waiting for the last of its steps (`LastStep`: there are finitely
many): the worker it waits for is ahead of it and waits for something later, which
does not exist.

**Overlapping against serial calls** (`ApprovalTxSerialProofs`), for the same constants.
`Apart` says that no two calls are about the same request at once, and nothing about
calls on different requests, whichever resources they compete for.

| Theorem | States |
|---|---|
| `OnlyStaleCommitsMatter` | `Spec => SerialUnlessStale` |
| `ApartIsSerial` | `Spec /\ []Apart => RowsSpec` |
| `AloneIsSerial` | with one worker, `Spec => RowsSpec` |
| `ApartFollowsChain`, `ApartCountsQuorum`, `ApartImplementsLifecycle` | `Spec /\ []Apart` implies `[]StepChain`, `[]QuorumExact`, `ImplementsLifecycle` |
| `ApartTalliesCount` | `Spec /\ []Apart => []CountIsTally`, violated by `tx_tally` without `Apart` |
| `ApartSettlesOnce` | `Spec /\ []Apart => TerminalImmutable`, violated by `tx_verdict` without `Apart` |
| `TxImplementsRecord` | `Spec => ImplementsRecord` |

`CheckedInv` says that each call has passed its checks on the rows it has read.  So when
these are still the rows at the commit, its commit is `CreateRows`, `CancelRows` or
`DecideRows`: the key a creation has locked is free (`CommitCreateRows`), and the columns
the ORM writes over the rows it has read make what the domain objects hold
(`FreshMerge`).  `CurrentInv` says that under `Apart` what a call has read stays what the
rows are, since every commit changes the rows of its own request only
(`CommitsTheirOwn`).  For the refinement, `LockInv` makes the claim of a resource the one
occupant of its key (`ClaimIsOccupant`) and keeps it free for the request that takes it
back (`DecidedClaim`); `ReviewInv` bounds what a decision has read from below, so that a
quorum it reports is complete (`DecidedQuorum`) and the step it votes on is one whose turn
it is (`CommitDecideCasts`).

**The rules** (`RuleServiceProofs`), for any workers, plans, any natural numbers as
rules and any bound (`RulesAssumption`, `MaxIdAssumption`, `NoneAssumption`):
`TypeCorrect`, `ChangesAreAsked` (`ColumnsAsAsked`), `EventsInOrder` (`EventOrder`),
`AuditIsHistory` (`AuditTellsRow`) and `StepsAreOnRecord` (`PlansOnRecord`).
`EventInv` says that a row is locked by one worker at most and that the id a worker
has drawn is above all earlier ids of its rule's events.  `AuditInv` adds to
`AuditTellsRow` that, while the versions count up, the version a call has read is at
most the row's, and that a call that has read the row's version has read the row.
`PlanInv` says that the steps of each rule, and those a `create_request` under way has
read, are on record, and that a deletion asks for no steps.

Under `Apart`, here that no two changes of one rule are served at once, `ApartRefusesStale`
proves `StaleUpdatesRefused`, which `rules_stale` violates, and `ApartCountsVersions` that
the recorded versions count up always, which is the premise of `AuditTellsRow`: then the
audit log is the rule's history without exception.  Both rest on `CurrentInv`, that a
change is computed from the row as it still is; a row lock taken by the SELECT would
ensure it.

The theorems with `[]Apart`, `[]KeysApart` or `[]Orderly` as a premise say what the
violated promises need; they are not claims about the service as deployed, which
ensures none of the three.

Only model-checked: liveness (`EveryCallEnds`, `EveryRowSettles`), which is out of the
prover's reach.  Every invariant, action property and refinement of the passing runs is
proved.

## 6. What is not modelled

Reads that change nothing (lists, single reads, the audit query), pagination,
response shapes, error formatting, the workspace filter (part of the resource key),
timestamps, titles, payloads, comments, roles (`approver_role` is stored and never
compared with anything), logging, configuration.  Foreign keys to workspaces and
rules always hold because nothing deletes them.  The overflow of SMALLINT orders and
quorums fails the INSERT and rolls back.  A rule with two definitions of one order
fails the same way.  Of the poller: the sleep between polls and the content of the
published event.  Of the middleware: calls without a key or a valid workspace, which
pass through; the bodies; the headers of a replayed answer.

## 7. Plan

Done: the domain, the service and its lifecycle, overlapping transactions and how they
differ from serial calls, the poller, the middleware and the rules, with the proofs of
section 5.  Next, in this order:

1. Compositions: outbox ids against commit order (`ApprovalTx` with a poller); the
   middleware around a service call that is retried.
2. Weaker premises: which overlaps of two calls on one request are harmless, as theorems
   beside `ApartIsSerial`.
