------------------------- MODULE OutboxPollerProofs -------------------------
(***************************************************************************)
(* OutboxPoller for any number of pollers, rows and retries: one poller per*)
(* row, the relay it promises, and when it keeps the order of the events.  *)
(***************************************************************************)
EXTENDS OutboxPoller, FiniteSetTheorems, TLAPS

\* A batch only has rows it was selected from.
LEMMA BatchIsSelected ==
  ASSUME NEW rows PROVE Batch(rows) \subseteq rows
BY DEF Batch

-----------------------------------------------------------------------------
(* Types and claims, which need each other: a claimed row has a retry left. *)

HandsInv == TypeOK /\ ClaimsExclusive

\* Before the first row nothing is claimed.
LEMMA HandsInvInit == Init => HandsInv
BY LimitsAssumption
DEF Init, HandsInv, TypeOK, ClaimsExclusive, Retriable, Unpublished

\* A writer's step leaves every claimed row committed.
LEMMA WritersKeepHands ==
  ASSUME HandsInv, NEW i \in Ids,
         \/ \E a \in Aggregates : Write(i, a)
         \/ \E o \in {"committed", "void"} : EndWrite(i, o)
  PROVE  HandsInv'
<1>1. CASE \E a \in Aggregates : Write(i, a)
  <2>1. TypeOK'
    BY <1>1 DEF HandsInv, TypeOK, Write
  <2>2. ClaimsExclusive'
    BY <1>1 DEF HandsInv, TypeOK, ClaimsExclusive, Write, Retriable, Unpublished
  <2>3. QED  BY <2>1, <2>2 DEF HandsInv
<1>2. CASE \E o \in {"committed", "void"} : EndWrite(i, o)
  <2>1. TypeOK'
    BY <1>2 DEF HandsInv, TypeOK, EndWrite
  <2>2. ClaimsExclusive'
    BY <1>2 DEF HandsInv, TypeOK, ClaimsExclusive, EndWrite, Retriable, Unpublished
  <2>3. QED  BY <2>1, <2>2 DEF HandsInv
<1>3. QED  BY <1>1, <1>2

\* A poller takes retriable rows nobody else has.
LEMMA PollKeepsHands ==
  ASSUME HandsInv, NEW p \in Pollers, Poll(p)
  PROVE  HandsInv'
<1>1. PICK rows \in SUBSET Ids :
        /\ rows \subseteq Retriable \cap Unlocked(p)
        /\ claimed[p] = {}
        /\ claimed' = [claimed EXCEPT ![p] = rows]
        /\ UNCHANGED <<table, running, done, failed, delivered>>
  BY BatchIsSelected DEF Poll, Unlocked
<1>2. Retriable' = Retriable
  BY <1>1 DEF Retriable, Unpublished, table
<1>3. done[p] = {} /\ failed[p] = {}
  BY <1>1 DEF HandsInv, TypeOK
<1>4. TypeOK'
  BY <1>1, <1>3 DEF HandsInv, TypeOK, table
<1>5. ClaimsExclusive'
  <2>1. ASSUME NEW q \in Pollers, NEW s \in Pollers, q # s
        PROVE  claimed'[q] \cap claimed'[s] = {}
    BY <1>1, <2>1 DEF HandsInv, TypeOK, ClaimsExclusive, Unlocked
  <2>2. ASSUME NEW q \in Pollers
        PROVE  claimed'[q] \subseteq Retriable' /\ done'[q] \subseteq delivered'
    BY <1>1, <1>2 DEF HandsInv, TypeOK, ClaimsExclusive
  <2>3. QED  BY <2>1, <2>2 DEF ClaimsExclusive
<1>6. QED
  BY <1>4, <1>5 DEF HandsInv

\* Publishing a row puts it in one of the two lists of its batch.
LEMMA PublishKeepsHands ==
  ASSUME HandsInv, NEW p \in Pollers, NEW i \in Ids, PublishOk(p, i) \/ PublishFails(p, i)
  PROVE  HandsInv'
<1>1. i \in claimed[p] /\ i \notin done[p] /\ i \notin failed[p]
  BY DEF PublishOk, PublishFails, IsNext
<1>2. /\ UNCHANGED <<table, running, claimed>>
      /\ delivered \subseteq delivered' /\ delivered' \subseteq delivered \cup {i}
      /\ \/ /\ done' = [done EXCEPT ![p] = @ \cup {i}]
            /\ UNCHANGED failed
            /\ i \in delivered'
         \/ /\ failed' = [failed EXCEPT ![p] = @ \cup {i}]
            /\ UNCHANGED done
  BY DEF PublishOk, PublishFails
<1>3. TypeOK'
  BY <1>1, <1>2 DEF HandsInv, TypeOK, table
<1>4. ClaimsExclusive'
  <2>1. Retriable' = Retriable
    BY <1>2 DEF Retriable, Unpublished, table
  <2>2. \A q \in Pollers : done'[q] \subseteq delivered'
    BY <1>2 DEF HandsInv, TypeOK, ClaimsExclusive
  <2>3. QED
    BY <1>2, <2>1, <2>2 DEF HandsInv, ClaimsExclusive
<1>5. QED
  BY <1>3, <1>4 DEF HandsInv

\* The commit of a batch leaves every other batch as retriable as it was.
LEMMA FinishKeepsHands ==
  ASSUME HandsInv, NEW p \in Pollers, Finish(p)
  PROVE  HandsInv'
<1>1. /\ claimed[p] = done[p] \cup failed[p]
      /\ published' = published \cup done[p]
      /\ retries' = [i \in Ids |-> IF i \in failed[p] THEN retries[i] + 1 ELSE retries[i]]
      /\ claimed' = [claimed EXCEPT ![p] = {}]
      /\ done' = [done EXCEPT ![p] = {}]
      /\ failed' = [failed EXCEPT ![p] = {}]
      /\ UNCHANGED <<row, aggregate, running, delivered>>
  BY DEF Finish, EndBatch
<1>2. \A i \in failed[p] : retries[i] < MaxRetries
  BY <1>1 DEF HandsInv, ClaimsExclusive, Retriable
<1>3. retries' \in [Ids -> 0 .. MaxRetries]
  BY <1>1, <1>2, LimitsAssumption DEF HandsInv, TypeOK
<1>4. TypeOK'
  BY <1>1, <1>3 DEF HandsInv, TypeOK
<1>5. ClaimsExclusive'
  <2>1. ASSUME NEW q \in Pollers PROVE claimed'[q] \subseteq Retriable'
    <3>1. CASE q = p
      BY <1>1, <3>1 DEF HandsInv, TypeOK
    <3>2. CASE q # p
      <4>1. claimed'[q] = claimed[q] /\ claimed[q] \cap claimed[p] = {}
        BY <1>1, <3>2 DEF HandsInv, TypeOK, ClaimsExclusive
      <4>2. claimed[q] \subseteq Retriable
        BY DEF HandsInv, ClaimsExclusive
      <4>3. \A i \in claimed[q] : /\ i \in Ids /\ row[i] = "committed"
                                  /\ i \notin published /\ retries[i] < MaxRetries
                                  /\ i \notin done[p] /\ i \notin failed[p]
        BY <1>1, <4>1, <4>2 DEF Retriable, Unpublished
      <4>4. QED
        BY <1>1, <4>1, <4>3 DEF Retriable, Unpublished
    <3>3. QED  BY <3>1, <3>2
  <2>2. \A q, s \in Pollers : q # s => claimed'[q] \cap claimed'[s] = {}
    BY <1>1 DEF HandsInv, TypeOK, ClaimsExclusive
  <2>3. \A q \in Pollers : done'[q] \subseteq delivered'
    BY <1>1 DEF HandsInv, TypeOK, ClaimsExclusive
  <2>4. QED
    BY <2>1, <2>2, <2>3 DEF ClaimsExclusive
<1>6. QED
  BY <1>4, <1>5 DEF HandsInv

\* Starting, stopping and dying only empty a poller's hands.
LEMMA ControlKeepsHands ==
  ASSUME HandsInv, NEW p \in Pollers, Start(p) \/ Stop(p) \/ Crash(p)
  PROVE  HandsInv'
<1>1. /\ UNCHANGED <<table, delivered>>
      /\ running' \in [Pollers -> BOOLEAN]
      /\ \/ UNCHANGED <<claimed, done, failed>>
         \/ /\ claimed' = [claimed EXCEPT ![p] = {}]
            /\ done' = [done EXCEPT ![p] = {}]
            /\ failed' = [failed EXCEPT ![p] = {}]
  BY DEF Start, Stop, Crash, EndBatch, HandsInv, TypeOK
<1>2. TypeOK'
  BY <1>1 DEF HandsInv, TypeOK, table
<1>3. Retriable' = Retriable
  BY <1>1 DEF Retriable, Unpublished, table
<1>4. ClaimsExclusive'
  BY <1>1, <1>3 DEF HandsInv, TypeOK, ClaimsExclusive
<1>5. QED
  BY <1>2, <1>4 DEF HandsInv

\* Types and claims hold in every reachable state.
LEMMA HandsInvariant == Spec => []HandsInv
<1>1. HandsInv /\ [Next]_vars => HandsInv'
  <2> SUFFICES ASSUME HandsInv, [Next]_vars PROVE HandsInv'
    OBVIOUS
  <2>1. CASE UNCHANGED vars
    BY <2>1 DEF vars, HandsInv, TypeOK, ClaimsExclusive, Retriable, Unpublished
  <2>2. QED
    BY <2>1, WritersKeepHands, PollKeepsHands, PublishKeepsHands, FinishKeepsHands,
       ControlKeepsHands DEF Next, Advance
<1>2. QED
  BY <1>1, HandsInvInit, PTL DEF Spec

\* Every reachable state is well typed, retry_count never above max_retries.
THEOREM PollerTypeCorrect == Spec => []TypeOK
BY HandsInvariant, PTL DEF HandsInv

\* A row is in one poller's hands at most, and only while it is to be published.
THEOREM OnePollerPerRow == Spec => []ClaimsExclusive
BY HandsInvariant, PTL DEF HandsInv

-----------------------------------------------------------------------------
(* Refinement. *)

\* A commit of a batch settles what it published and what it has given up.
LEMMA FinishSettles ==
  ASSUME HandsInv, NEW p \in Pollers, Finish(p)
  PROVE  \E settled, lost \in SUBSET Ids : Relay!Settle(settled, lost)
<1>1. /\ claimed[p] = done[p] \cup failed[p] /\ done[p] \cap failed[p] = {}
      /\ published' = published \cup done[p]
      /\ retries' = [i \in Ids |-> IF i \in failed[p] THEN retries[i] + 1 ELSE retries[i]]
      /\ UNCHANGED <<row, delivered>>
      /\ done[p] \subseteq Ids /\ failed[p] \subseteq Ids
      /\ done[p] \subseteq delivered
  BY DEF Finish, HandsInv, TypeOK, ClaimsExclusive
<1>2. PICK givenUp \in SUBSET Ids : givenUp = {i \in failed[p] : retries[i] + 1 >= MaxRetries}
  BY <1>1
<1>3. \A i \in claimed[p] : /\ i \in Ids /\ row[i] = "committed" /\ i \notin published
                            /\ retries[i] < MaxRetries
  BY DEF HandsInv, ClaimsExclusive, Retriable, Unpublished
<1>4. MaxRetries \in Nat /\ \A i \in Ids : retries[i] \in Nat
  BY LimitsAssumption DEF HandsInv, TypeOK
<1>5. {i \in Ids : retries'[i] >= MaxRetries} = {i \in Ids : retries[i] >= MaxRetries} \cup givenUp
  BY <1>1, <1>2, <1>3, <1>4
<1>6. /\ done[p] \cup givenUp
           \subseteq {i \in Ids : row[i] = "committed"}
                       \ (published \cup {i \in Ids : retries[i] >= MaxRetries})
      /\ done[p] \cap givenUp = {}
  BY <1>1, <1>2, <1>3, <1>4
<1>7. Relay!Settle(done[p], givenUp)
  BY <1>1, <1>5, <1>6 DEF Relay!Settle, Relay!Open
<1>8. done[p] \in SUBSET Ids
  BY <1>1
<1>9. QED
  BY <1>7, <1>8

\* Whoever polls and whatever fails, the outbox is a relay: nothing is marked
\* published that was not sent, nothing is sent after it was settled, and nothing
\* is given up before max_retries failures.
THEOREM PollerImplementsRelay == Spec => ImplementsRelay
<1>1. Init => Relay!RInit
  BY LimitsAssumption DEF Init, Relay!RInit
<1>2. HandsInv /\ [Next]_vars => [Relay!RNext]_(Relay!rvars)
  <2> SUFFICES ASSUME HandsInv, [Next]_vars
               PROVE  [Relay!RNext]_(Relay!rvars)
    OBVIOUS
  <2>1. ASSUME NEW i \in Ids, NEW a \in Aggregates, Write(i, a)
        PROVE  UNCHANGED Relay!rvars
    BY <2>1 DEF Write, Relay!rvars, HandsInv, TypeOK
  <2>2. ASSUME NEW i \in Ids, NEW o \in {"committed", "void"}, EndWrite(i, o)
        PROVE  Relay!Accept(i) \/ UNCHANGED Relay!rvars
    BY <2>2 DEF EndWrite, Relay!Accept, Relay!rvars, HandsInv, TypeOK
  <2>3. ASSUME NEW p \in Pollers, Start(p) \/ Stop(p) \/ Crash(p) \/ Poll(p)
        PROVE  UNCHANGED Relay!rvars
    BY <2>3 DEF Start, Stop, Crash, Poll, table, Relay!rvars
  <2>4. ASSUME NEW p \in Pollers, NEW i \in Ids, PublishOk(p, i) \/ PublishFails(p, i)
        PROVE  Relay!Send(i) \/ UNCHANGED Relay!rvars
    <3>1. i \in Retriable
      BY <2>4 DEF PublishOk, PublishFails, IsNext, HandsInv, ClaimsExclusive
    <3>2. /\ row[i] = "committed" /\ i \notin published
          /\ ~(retries[i] >= MaxRetries)
      BY <3>1, LimitsAssumption DEF Retriable, Unpublished, HandsInv, TypeOK
    <3>3. i \in Relay!Open
      BY <3>2 DEF Relay!Open
    <3>4. /\ UNCHANGED <<row, published, retries>>
          /\ delivered' = delivered \/ delivered' = delivered \cup {i}
      BY <2>4 DEF PublishOk, PublishFails, table
    <3>5. QED
      BY <3>3, <3>4 DEF Relay!Send, Relay!rvars
  <2>5. ASSUME NEW p \in Pollers, Finish(p)
        PROVE  Relay!RNext
    BY <2>5, FinishSettles DEF Relay!RNext
  <2>6. CASE UNCHANGED vars
    BY <2>6 DEF vars, Relay!rvars
  <2>7. QED
    BY <2>1, <2>2, <2>3, <2>4, <2>5, <2>6 DEF Next, Advance, Relay!RNext
<1>3. QED
  BY <1>1, <1>2, HandsInvariant, PTL DEF Spec, ImplementsRelay, Relay!RSpec

-----------------------------------------------------------------------------
(* The order of the events. *)

\* No two pollers have a batch at once, no publish fails, and the events of one
\* aggregate become visible in the order of their ids.
Orderly ==
  /\ \A p, q \in Pollers : p # q => claimed[p] = {} \/ claimed[q] = {}
  /\ \A p \in Pollers : failed[p] = {}
  /\ \A i, j \in Ids :
       j < i /\ row[i] = "committed" /\ aggregate[j] = aggregate[i] => row[j] # "inserted"

\* The events of i's aggregate that ought to have been sent before i.
Earlier(i) ==
  {j \in Ids : j < i /\ row[j] = "committed" /\ aggregate[j] = aggregate[i]}

\* Nothing has been tried in vain, and a batch lacks no earlier event that has not
\* been sent.
OrderInv ==
  /\ \A i \in Ids : retries[i] = 0
  /\ published \subseteq delivered
  /\ \A p \in Pollers : \A i \in claimed[p] : Earlier(i) \subseteq delivered \cup claimed[p]

\* A batch has the rows of the least ids.
LEMMA BatchIsLeast ==
  ASSUME NEW rows \in SUBSET Ids, NEW i \in Batch(rows), NEW j \in rows, j < i
  PROVE  j \in Batch(rows)
<1>1. i \in Nat /\ j \in Nat /\ \A k \in rows : k \in Nat
  BY IdsAssumption DEF Batch
<1>2. PICK S, T : S = {k \in rows : k < j} /\ T = {k \in rows : k < i}
  OBVIOUS
<1>3. S \subseteq T /\ T \subseteq 0 .. i
  <2>1. \A k \in S : k \in rows /\ k \in Nat /\ k < j
    BY <1>1, <1>2
  <2>2. \A k \in S : k < i
    BY <1>1, <2>1
  <2>3. \A k \in T : k \in Nat /\ k < i
    BY <1>1, <1>2
  <2>4. S \subseteq T
    BY <1>2, <2>1, <2>2
  <2>5. \A k \in T : k \in 0 .. i
    <3> SUFFICES ASSUME NEW k \in T PROVE k \in 0 .. i
      OBVIOUS
    <3>1. k \in Nat /\ k < i /\ i \in Nat
      BY <1>1, <2>3
    <3>2. QED  BY <3>1
  <2>6. QED
    BY <2>4, <2>5
<1>4. IsFiniteSet(0 .. i)
  BY <1>1, FS_Interval
<1>5. IsFiniteSet(T)
  BY <1>3, <1>4, FS_Subset
<1>6. IsFiniteSet(S) /\ Cardinality(S) <= Cardinality(T)
  BY <1>3, <1>5, FS_Subset
<1>7. Cardinality(S) \in Nat /\ Cardinality(T) \in Nat
  BY <1>5, <1>6, FS_CardinalityType
<1>8. Cardinality(T) < BatchSize
  BY <1>2 DEF Batch
<1>9. Cardinality(S) < BatchSize
  BY <1>6, <1>7, <1>8, LimitsAssumption
<1>10. QED
  BY <1>2, <1>9 DEF Batch

\* Steps that leave the rows, the marks and the batches alone, or let go of a batch.
LEMMA OrderUntouched ==
  ASSUME HandsInv, OrderInv, UNCHANGED table, delivered \subseteq delivered',
         \A p \in Pollers : claimed'[p] = claimed[p] \/ claimed'[p] = {}
  PROVE  OrderInv'
<1>1. \A i : Earlier(i)' = Earlier(i)
  BY DEF Earlier, table
<1>2. ASSUME NEW p \in Pollers, NEW i \in claimed'[p]
      PROVE  Earlier(i)' \subseteq delivered' \cup claimed'[p]
  <2>1. claimed'[p] = claimed[p] /\ i \in claimed[p]
    BY <1>2
  <2>2. QED
    BY <1>1, <2>1 DEF OrderInv
<1>3. /\ \A i \in Ids : retries'[i] = 0
      /\ published' \subseteq delivered'
  BY DEF OrderInv, table
<1>4. QED
  BY <1>2, <1>3 DEF OrderInv

\* A batch is selected with all the events that precede its own.
LEMMA PollKeepsOrder ==
  ASSUME HandsInv, OrderInv, Orderly, Orderly', NEW p \in Pollers, Poll(p)
  PROVE  OrderInv'
<1>1. PICK rows \in SUBSET Ids :
        /\ rows = Retriable \cap Unlocked(p)
        /\ claimed' = [claimed EXCEPT ![p] = Batch(rows)]
        /\ UNCHANGED <<table, delivered>>
  <2>1. Retriable \cap Unlocked(p) \in SUBSET Ids
    BY DEF Unlocked
  <2>2. QED
    BY <2>1 DEF Poll
<1>2. \A i : Earlier(i)' = Earlier(i)
  BY <1>1 DEF Earlier, table
<1>3. claimed'[p] = Batch(rows) /\ \A q \in Pollers \ {p} : claimed'[q] = claimed[q]
  BY <1>1 DEF HandsInv, TypeOK
<1>4. ASSUME NEW i \in Batch(rows) PROVE Earlier(i) \subseteq delivered \cup Batch(rows)
  <2>1. \A q \in Pollers \ {p} : claimed[q] = {}
    BY <1>3, <1>4 DEF Orderly
  <2>2. SUFFICES ASSUME NEW j \in Earlier(i), j \notin delivered PROVE j \in Batch(rows)
    OBVIOUS
  <2>3. j \in Ids /\ row[j] = "committed" /\ j \notin published /\ retries[j] = 0
    BY <2>2 DEF Earlier, OrderInv
  <2>4. j \in rows
    BY <1>1, <2>1, <2>3, LimitsAssumption DEF Retriable, Unpublished, Unlocked
  <2>5. j < i
    BY DEF Earlier
  <2>6. QED
    BY <2>4, <2>5, BatchIsLeast
<1>5. ASSUME NEW q \in Pollers, NEW i \in claimed'[q]
      PROVE  Earlier(i)' \subseteq delivered' \cup claimed'[q]
  BY <1>1, <1>2, <1>3, <1>4, <1>5 DEF OrderInv
<1>6. /\ \A i \in Ids : retries'[i] = 0
      /\ published' \subseteq delivered'
  BY <1>1 DEF OrderInv, table
<1>7. QED
  BY <1>5, <1>6 DEF OrderInv

\* A row that appears precedes no claimed row of its aggregate.
LEMMA WritersKeepOrder ==
  ASSUME HandsInv, OrderInv, Orderly, NEW i \in Ids,
         \/ \E a \in Aggregates : Write(i, a)
         \/ \E o \in {"committed", "void"} : EndWrite(i, o)
  PROVE  OrderInv'
<1>1. /\ UNCHANGED <<published, retries, claimed, delivered>>
      /\ row[i] # "committed"
      /\ \A j \in Ids \ {i} : row'[j] = row[j] /\ aggregate'[j] = aggregate[j]
      /\ row'[i] = "committed" => row[i] = "inserted" /\ aggregate'[i] = aggregate[i]
  BY DEF Write, EndWrite, HandsInv, TypeOK
<1>2. ASSUME NEW p \in Pollers, NEW k \in claimed[p]
      PROVE  Earlier(k)' \subseteq delivered \cup claimed[p]
  <2>1. k \in Ids /\ row[k] = "committed" /\ k # i
    BY <1>1, <1>2 DEF HandsInv, ClaimsExclusive, Retriable, Unpublished
  <2>2. i \notin Earlier(k)'
    BY <1>1, <2>1 DEF Earlier, Orderly
  <2>3. Earlier(k)' \subseteq Earlier(k)
    BY <1>1, <2>1, <2>2 DEF Earlier
  <2>4. QED
    BY <1>2, <2>3 DEF OrderInv
<1>3. QED
  BY <1>1, <1>2 DEF OrderInv

\* The commit of a batch marks what has been sent.
LEMMA FinishKeepsOrder ==
  ASSUME HandsInv, OrderInv, Orderly, NEW p \in Pollers, Finish(p)
  PROVE  OrderInv'
<1>1. /\ published' = published \cup done[p]
      /\ retries' = [i \in Ids |-> IF i \in failed[p] THEN retries[i] + 1 ELSE retries[i]]
      /\ claimed' = [claimed EXCEPT ![p] = {}]
      /\ UNCHANGED <<row, aggregate, delivered>>
  BY DEF Finish, EndBatch
<1>2. failed[p] = {} /\ done[p] \subseteq delivered
  BY DEF Orderly, HandsInv, ClaimsExclusive
<1>3. \A i : Earlier(i)' = Earlier(i)
  BY <1>1 DEF Earlier
<1>4. \A q \in Pollers : claimed'[q] = claimed[q] \/ claimed'[q] = {}
  BY <1>1 DEF HandsInv, TypeOK
<1>5. ASSUME NEW q \in Pollers, NEW i \in claimed'[q]
      PROVE  Earlier(i)' \subseteq delivered' \cup claimed'[q]
  <2>1. claimed'[q] = claimed[q]
    BY <1>4, <1>5
  <2>2. QED
    BY <1>1, <1>3, <1>5, <2>1 DEF OrderInv
<1>6. (\A i \in Ids : retries'[i] = 0) /\ published' \subseteq delivered'
  BY <1>1, <1>2 DEF OrderInv
<1>7. QED
  BY <1>5, <1>6 DEF OrderInv

LEMMA OrderStep == HandsInv /\ OrderInv /\ Orderly /\ Orderly' /\ [Next]_vars => OrderInv'
<1> SUFFICES ASSUME HandsInv, OrderInv, Orderly, Orderly', [Next]_vars PROVE OrderInv'
  OBVIOUS
<1>1. ASSUME NEW p \in Pollers, Start(p) \/ Stop(p) \/ Crash(p) PROVE OrderInv'
  BY <1>1, OrderUntouched DEF Start, Stop, Crash, EndBatch, HandsInv, TypeOK
<1>2. ASSUME NEW p \in Pollers, NEW i \in Ids, PublishOk(p, i) \/ PublishFails(p, i)
      PROVE  OrderInv'
  BY <1>2, OrderUntouched DEF PublishOk, PublishFails
<1>3. CASE UNCHANGED vars
  BY <1>3, OrderUntouched DEF vars, table
<1>4. QED
  BY <1>1, <1>2, <1>3, PollKeepsOrder, WritersKeepOrder, FinishKeepsOrder DEF Next, Advance

\* The event that is sent next lacks no earlier one.
LEMMA NextIsInOrder ==
  ASSUME HandsInv, OrderInv, NEW p \in Pollers, NEW i \in Ids,
         PublishOk(p, i) \/ PublishFails(p, i)
  PROVE  delivered' \subseteq delivered \cup {i} /\ Earlier(i) \subseteq delivered \cup failed[p]
<1>1. delivered' \subseteq delivered \cup {i}
  BY DEF PublishOk, PublishFails
<1>2. PICK rest : /\ rest = claimed[p] \ (done[p] \cup failed[p])
                  /\ i \in rest /\ \A j \in rest : i <= j
  BY DEF PublishOk, PublishFails, IsNext
<1>3. Earlier(i) \subseteq delivered \cup claimed[p] /\ done[p] \subseteq delivered
  BY <1>2 DEF OrderInv, HandsInv, ClaimsExclusive
<1>4. ASSUME NEW j \in Earlier(i) PROVE j \notin rest
  <2>1. j < i /\ i \in Nat /\ j \in Nat
    BY IdsAssumption DEF Earlier
  <2>2. QED
    BY <1>2, <2>1
<1>5. QED
  BY <1>1, <1>2, <1>3, <1>4

\* The events of one aggregate are sent in the order of their ids, crashes and any
\* batch size notwithstanding, as long as one poller works at a time, no publish
\* fails and the events commit in that order (those of a rule do: RuleService).
\* Without one of the three the order is lost.
THEOREM OrderlyKeepsOrder == Spec /\ []Orderly => AggregateOrder
<1>1. Init => OrderInv
  BY DEF Init, OrderInv
<1>2. HandsInv /\ OrderInv /\ Orderly /\ [Next]_vars =>
        [\A i \in delivered' \ delivered, j \in Ids :
           j < i /\ row[j] = "committed" /\ aggregate[j] = aggregate[i] => j \in delivered]_vars
  <2> SUFFICES ASSUME HandsInv, OrderInv, Orderly, [Next]_vars,
                      NEW i \in delivered' \ delivered, NEW j \in Earlier(i)
               PROVE  j \in delivered
    BY DEF Earlier
  <2>1. ASSUME NEW p \in Pollers, NEW k \in Ids, PublishOk(p, k) \/ PublishFails(p, k)
        PROVE  j \in delivered
    BY <2>1, NextIsInOrder DEF Orderly
  <2>2. QED
    BY <2>1 DEF Next, Advance, Write, EndWrite, Start, Stop, Poll, Finish, Crash, vars
<1>3. QED
  BY <1>1, <1>2, OrderStep, HandsInvariant, PTL DEF Spec, AggregateOrder

=============================================================================
