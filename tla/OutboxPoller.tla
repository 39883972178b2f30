---------------------------- MODULE OutboxPoller ----------------------------
(***************************************************************************)
(* The outbox table, the transactions that write to it and the OutboxPoller*)
(* tasks that read it.  A row's id is drawn when it is inserted and is     *)
(* visible when its transaction commits, so rows appear out of id order.   *)
(* A poller claims a batch with FOR UPDATE SKIP LOCKED, publishes it row   *)
(* by row and marks all of it at one commit; until then a crash takes the  *)
(* marks back, not what has been published.                                *)
(*                                                                         *)
(* A transaction writes one row here: the rows of one transaction appear   *)
(* together and in id order, which adds no order of its own.               *)
(***************************************************************************)
EXTENDS Integers, FiniteSets

CONSTANTS
  Pollers,      \* OutboxPoller tasks, one or more processes
  Ids,          \* outbox.id
  Aggregates,   \* aggregate_id: requests and rules
  None,
  BatchSize,    \* batch_size
  MaxRetries    \* max_retries

ASSUME IdsAssumption == Ids \subseteq Nat
ASSUME NoneAssumption == None \notin Aggregates
ASSUME LimitsAssumption == BatchSize \in Nat \ {0} /\ MaxRetries \in Nat \ {0}

VARIABLES
  row,          \* id -> "free", "inserted", "committed", "void" (rolled back)
  aggregate,    \* id -> aggregate_id
  published,    \* ids with a published_at
  retries,      \* id -> retry_count
  running,      \* poller -> its loop runs
  claimed,      \* poller -> the rows of its batch, locked
  done,         \* poller -> published_ids
  failed,       \* poller -> failed_ids
  delivered     \* ids whose event has reached the consumers at least once

table == <<row, aggregate, published, retries>>
vars  == <<row, aggregate, published, retries, running, claimed, done, failed, delivered>>

Init ==
  /\ row = [i \in Ids |-> "free"]
  /\ aggregate = [i \in Ids |-> None]
  /\ published = {}
  /\ retries = [i \in Ids |-> 0]
  /\ running = [p \in Pollers |-> FALSE]
  /\ claimed = [p \in Pollers |-> {}]
  /\ done = [p \in Pollers |-> {}]
  /\ failed = [p \in Pollers |-> {}]
  /\ delivered = {}

-----------------------------------------------------------------------------
(* The writers. *)

\* DatabaseOutboxWriter.write: the flush draws the next id.
Write(i, a) ==
  /\ row[i] = "free"
  /\ \A j \in Ids : j < i => row[j] # "free"
  /\ row' = [row EXCEPT ![i] = "inserted"]
  /\ aggregate' = [aggregate EXCEPT ![i] = a]
  /\ UNCHANGED <<published, retries, running, claimed, done, failed, delivered>>

\* The writing transaction commits, or rolls back and leaves a gap.
EndWrite(i, outcome) ==
  /\ row[i] = "inserted"
  /\ row' = [row EXCEPT ![i] = outcome]
  /\ UNCHANGED <<aggregate, published, retries, running, claimed, done, failed, delivered>>

-----------------------------------------------------------------------------
(* The pollers. *)

Start(p) ==
  /\ ~running[p] /\ claimed[p] = {}
  /\ running' = [running EXCEPT ![p] = TRUE]
  /\ UNCHANGED <<table, claimed, done, failed, delivered>>

\* The loop ends after the batch in hand.
Stop(p) ==
  /\ running[p]
  /\ running' = [running EXCEPT ![p] = FALSE]
  /\ UNCHANGED <<table, claimed, done, failed, delivered>>

Unpublished == {i \in Ids : row[i] = "committed" /\ i \notin published}
Retriable   == {i \in Unpublished : retries[i] < MaxRetries}
Unlocked(p) == {i \in Ids : \A q \in Pollers \ {p} : i \notin claimed[q]}

\* ORDER BY id LIMIT batch_size.
Batch(rows) == {i \in rows : Cardinality({j \in rows : j < i}) < BatchSize}

\* Mutant: no FOR UPDATE SKIP LOCKED.
PollUnlocked(p) ==
  /\ running[p] /\ claimed[p] = {}
  /\ Retriable # {}
  /\ claimed' = [claimed EXCEPT ![p] = Batch(Retriable)]
  /\ UNCHANGED <<table, running, done, failed, delivered>>

\* Mutant: retry_count <= max_retries.
PollOnceMore(p) ==
  LET rows == {i \in Unpublished : retries[i] <= MaxRetries} \cap Unlocked(p) IN
  /\ running[p] /\ claimed[p] = {}
  /\ rows # {}
  /\ claimed' = [claimed EXCEPT ![p] = Batch(rows)]
  /\ UNCHANGED <<table, running, done, failed, delivered>>

\* The SELECT of _poll_batch; with no row the poller sleeps and nothing changes.
Poll(p) ==
  LET rows == Retriable \cap Unlocked(p) IN
  /\ running[p] /\ claimed[p] = {}
  /\ rows # {}
  /\ claimed' = [claimed EXCEPT ![p] = Batch(rows)]
  /\ UNCHANGED <<table, running, done, failed, delivered>>

\* The next row of the batch, in id order.
IsNext(p, i) ==
  LET rest == claimed[p] \ (done[p] \cup failed[p]) IN
  i \in rest /\ \A j \in rest : i <= j

PublishOk(p, i) ==
  /\ IsNext(p, i)
  /\ done' = [done EXCEPT ![p] = @ \cup {i}]
  /\ delivered' = delivered \cup {i}
  /\ UNCHANGED <<table, running, claimed, failed>>

\* publish raises, before or after the event went out; the batch goes on.
PublishFails(p, i) ==
  /\ IsNext(p, i)
  /\ failed' = [failed EXCEPT ![p] = @ \cup {i}]
  /\ delivered' \in {delivered, delivered \cup {i}}
  /\ UNCHANGED <<table, running, claimed, done>>

EndBatch(p) ==
  /\ claimed' = [claimed EXCEPT ![p] = {}]
  /\ done' = [done EXCEPT ![p] = {}]
  /\ failed' = [failed EXCEPT ![p] = {}]

\* Mutant: the whole batch is marked.
FinishAll(p) ==
  /\ claimed[p] # {} /\ claimed[p] = done[p] \cup failed[p]
  /\ published' = published \cup claimed[p]
  /\ EndBatch(p)
  /\ UNCHANGED <<row, aggregate, retries, running, delivered>>

\* Mutant: a failure is not counted.
FinishUncounted(p) ==
  /\ claimed[p] # {} /\ claimed[p] = done[p] \cup failed[p]
  /\ published' = published \cup done[p]
  /\ EndBatch(p)
  /\ UNCHANGED <<row, aggregate, retries, running, delivered>>

\* The two UPDATEs and the commit.
Finish(p) ==
  /\ claimed[p] # {} /\ claimed[p] = done[p] \cup failed[p]
  /\ published' = published \cup done[p]
  /\ retries' = [i \in Ids |-> IF i \in failed[p] THEN retries[i] + 1 ELSE retries[i]]
  /\ EndBatch(p)
  /\ UNCHANGED <<row, aggregate, running, delivered>>

\* The process dies or the connection is lost: locks and marks are rolled back,
\* the loop is gone.
Crash(p) ==
  /\ running[p] \/ claimed[p] # {}
  /\ running' = [running EXCEPT ![p] = FALSE]
  /\ EndBatch(p)
  /\ UNCHANGED <<table, delivered>>

Advance(p) == Poll(p) \/ (\E i \in Ids : PublishOk(p, i) \/ PublishFails(p, i)) \/ Finish(p)

Next ==
  \/ \E i \in Ids :
       (\E a \in Aggregates : Write(i, a)) \/ \E o \in {"committed", "void"} : EndWrite(i, o)
  \/ \E p \in Pollers : Start(p) \/ Stop(p) \/ Advance(p) \/ Crash(p)

Spec == Init /\ [][Next]_vars

\* A running poller polls again, and publishes and commits the batch it has.
FairSpec == Spec /\ \A p \in Pollers : WF_vars(Advance(p))

-----------------------------------------------------------------------------
(* Properties. *)

\* Types; a batch's rows are published or failed, not both; and no row is tried
\* more than max_retries times to the end.
TypeOK ==
  /\ row \in [Ids -> {"free", "inserted", "committed", "void"}]
  /\ aggregate \in [Ids -> Aggregates \cup {None}]
  /\ published \subseteq Ids /\ delivered \subseteq Ids
  /\ retries \in [Ids -> 0 .. MaxRetries]
  /\ running \in [Pollers -> BOOLEAN]
  /\ claimed \in [Pollers -> SUBSET Ids]
  /\ done \in [Pollers -> SUBSET Ids]
  /\ failed \in [Pollers -> SUBSET Ids]
  /\ \A p \in Pollers :
       done[p] \cup failed[p] \subseteq claimed[p] /\ done[p] \cap failed[p] = {}

\* A row is in one poller's hands at most, and only while it is to be published:
\* what one poller has published and committed no other sends again.
ClaimsExclusive ==
  /\ \A p, q \in Pollers : p # q => claimed[p] \cap claimed[q] = {}
  /\ \A p \in Pollers : claimed[p] \subseteq Retriable /\ done[p] \subseteq delivered

\* The poller is a relay: nothing is marked published that has not been sent, and
\* a row is given up only when its retries are used up.
Relay == INSTANCE EventRelay WITH
  Events    <- Ids,
  accepted  <- {i \in Ids : row[i] = "committed"},
  sent      <- delivered,
  confirmed <- published,
  dropped   <- {i \in Ids : retries[i] >= MaxRetries}
ImplementsRelay == Relay!RSpec

\* Every poller in the end stays up or stays down, and one stays up: then every
\* committed row is published or given up, whatever the others left behind.
EveryRowSettles ==
  (/\ \A p \in Pollers : <>[]running[p] \/ <>[]~running[p]
   /\ \E p \in Pollers : <>[]running[p]) =>
    \A i \in Ids : row[i] = "committed" ~> i \in published \/ retries[i] = MaxRetries

\* The events of one aggregate go out in the order of their ids.
AggregateOrder ==
  [][\A i \in delivered' \ delivered, j \in Ids :
       j < i /\ row[j] = "committed" /\ aggregate[j] = aggregate[i] => j \in delivered]_vars

=============================================================================
