------------------------ MODULE ApprovalTxOrderProofs ------------------------
(***************************************************************************)
(* No set of transactions of ApprovalTx, however many workers there are,   *)
(* waits in a circle: every call takes its locks in one order.             *)
(***************************************************************************)
EXTENDS ApprovalTxProofs

-----------------------------------------------------------------------------
(* The order of locks. *)

Rank(x) ==
  IF x[1] = "decision" THEN 1
  ELSE IF x[1] = "request" THEN 2
  ELSE IF x[1] = "key" THEN 3
  ELSE 4

\* The flush updates steps by primary key: up or down the step order.
Ahead(r, o, p) == IF r \in Descending THEN p < o ELSE o < p

\* Row x is locked before row y by every call that locks both.
Before(x, y) ==
  \/ Rank(x) < Rank(y)
  \/ \E r \in Requests, o, p \in Nat : x = StepRow(r, o) /\ y = StepRow(r, p) /\ Ahead(r, o, p)

InOrder(s) == \A i, j \in 1 .. Len(s) : i < j => Before(s[i], s[j])

\* The rows a worker has locked or is to lock.
Touched(w) == held[w] \cup {todo[w][i] : i \in 1 .. Len(todo[w])}

\* A worker's locks come in order, and are those of its request; only a decision
\* that found its request cancelled is still to enter a key.
OrderOK(w) ==
  /\ InOrder(todo[w])
  /\ \A x \in held[w] : \A i \in 1 .. Len(todo[w]) : Before(x, todo[w][i])
  /\ \A r \in Requests : call[w].r = r =>
       /\ call[w] \in CreateCall => \A x \in Touched(w) : Rank(x) = 3
       /\ \A q \in Requests : RequestRow(q) \in Touched(w) => q = r
       /\ \A q \in Requests, o \in Nat : StepRow(q, o) \in Touched(w) =>
            q = r /\ o \in DOMAIN steps[r]
       /\ call[w] \notin CreateCall =>
            \A i \in 1 .. Len(todo[w]) : Rank(todo[w][i]) = 3 =>
              RequestRow(r) \in held[w] /\ status[r] \notin Occupying

OrderInv ==
  /\ \A r \in Requests : IsFiniteSet(DOMAIN steps[r])
  /\ \A w \in Workers : OrderOK(w)

\* The kinds of rows.
LEMMA RowRanks ==
  /\ \A r, o, a : Rank(DecisionEntry(r, o, a)) = 1
  /\ \A r : Rank(RequestRow(r)) = 2
  /\ \A k : Rank(KeyEntry(k)) = 3
  /\ \A r, o : Rank(StepRow(r, o)) = 4
  /\ \A x : Rank(x) \in 1 .. 4
  /\ \A x \in Row : /\ Rank(x) # 1
                    /\ Rank(x) = 2 => \E r \in Requests : x = RequestRow(r)
                    /\ Rank(x) = 3 => \E k \in Resources : x = KeyEntry(k)
                    /\ Rank(x) = 4 => \E r \in Requests, o \in Nat : x = StepRow(r, o)
<1>1. /\ \A r, o, a : Rank(DecisionEntry(r, o, a)) = 1
      /\ \A r : Rank(RequestRow(r)) = 2
      /\ \A k : Rank(KeyEntry(k)) = 3
      /\ \A r, o : Rank(StepRow(r, o)) = 4
  BY DEF Rank, DecisionEntry, RequestRow, KeyEntry, StepRow
<1>2. \A x : Rank(x) \in 1 .. 4
  BY DEF Rank
<1>3. QED
  BY <1>1, <1>2 DEF Row

LEMMA StepRowsDiffer == \A r, q, o, p : StepRow(r, o) = StepRow(q, p) => r = q /\ o = p
BY DEF StepRow

\* What the order means for rows of the kinds that matter.
LEMMA BeforeFacts ==
  /\ \A x, y : Before(x, y) /\ Rank(x) # 4 => Rank(x) < Rank(y)
  /\ \A x, y : Before(x, y) /\ Rank(x) = 4 =>
       \E r \in Requests, o, p \in Nat : x = StepRow(r, o) /\ y = StepRow(r, p) /\ Ahead(r, o, p)
  /\ \A x, y : Before(x, y) => Rank(x) < Rank(y) \/ Rank(y) = 4
<1>1. \A x, y : Rank(x) < Rank(y) => Rank(x) # 4
  BY RowRanks
<1>2. QED
  BY <1>1, RowRanks DEF Before

\* Of finitely many steps one is the last in the order of locking.
LEMMA LastStep ==
  ASSUME NEW r, NEW T \in SUBSET Nat, IsFiniteSet(T), T # {}
  PROVE  \E o \in T : \A p \in T : ~Ahead(r, o, p)
<1> DEFINE From(o) == {p \in T : p = o \/ Ahead(r, o, p)}
<1> DEFINE Sizes == {Cardinality(From(o)) + 1 : o \in T}
<1>1. \A o \in T : IsFiniteSet(From(o)) /\ Cardinality(From(o)) \in Nat
  BY FS_Subset, FS_CardinalityType
<1>2. Sizes \in SUBSET (Nat \ {0}) /\ Sizes # {}
  <2> HIDE DEF From
  <2>1. \A o \in T : Cardinality(From(o)) + 1 \in Nat \ {0}
    BY <1>1
  <2> QED  BY <2>1
<1>3. FirstOf(Sizes) \in Sizes /\ \A n \in Sizes : FirstOf(Sizes) <= n
  <2> HIDE DEF Sizes
  <2> QED  BY <1>2, FirstOfIsLeast
<1>4. PICK o \in T : FirstOf(Sizes) = Cardinality(From(o)) + 1
  BY <1>3
<1>5. \A p \in T : Cardinality(From(o)) + 1 <= Cardinality(From(p)) + 1
  BY <1>3, <1>4
<1>6. ASSUME NEW p \in T, Ahead(r, o, p) PROVE FALSE
  <2>1. From(p) \subseteq From(o)
    <3>1. \A q \in T : Ahead(r, p, q) => Ahead(r, o, q)
      BY <1>6 DEF Ahead
    <3>2. QED
      BY <1>6, <3>1
  <2>2. o \in From(o) /\ o \notin From(p)
    BY <1>6 DEF Ahead
  <2>3. From(p) # From(o)
    BY <2>2
  <2>4. Cardinality(From(p)) < Cardinality(From(o))
    <3> HIDE DEF From
    <3>1. /\ Cardinality(From(p)) <= Cardinality(From(o))
          /\ Cardinality(From(p)) = Cardinality(From(o)) => From(o) = From(p)
      BY <1>1, <2>1, FS_Subset
    <3>2. Cardinality(From(p)) \in Nat /\ Cardinality(From(o)) \in Nat
      BY <1>1
    <3>3. QED
      BY <2>3, <3>1, <3>2
  <2>5. QED
    <3> HIDE DEF From
    <3>1. Cardinality(From(o)) + 1 <= Cardinality(From(p)) + 1
      BY <1>5
    <3> QED  BY <1>1, <2>4, <3>1
<1>7. QED
  BY <1>6

-----------------------------------------------------------------------------
(* No circle. *)

\* The row worker w is to lock next.
WantsNext(w, row) ==
  IF pc[w] = "insert"
  THEN row = DecisionEntry(call[w].r, DecidedStep(w), call[w].actor)
  ELSE todo[w] # <<>> /\ row = Head(todo[w])

\* Who waits, waits for somebody who holds the row.
LEMMA WaitFacts ==
  ASSUME NEW w \in Workers, NEW v \in WaitsFor(w)
  PROVE  \E row : WantsNext(w, row) /\ Holds(v, row)
BY DEF WaitsFor, WantsNext

\* The next row is the first that is left.
LEMMA NextIsFirst ==
  ASSUME TypeInv, LockInv, NEW w \in Workers, pc[w] # "insert", NEW row, WantsNext(w, row)
  PROVE  /\ row \in Row /\ row \in Touched(w)
         /\ 1 \in 1 .. Len(todo[w]) /\ row = todo[w][1]
<1>1. todo[w] \in Seq(Row) /\ todo[w] # <<>> /\ row = Head(todo[w])
  BY DEF WantsNext, LockInv, LocksOK
<1>2. 1 \in 1 .. Len(todo[w]) /\ row = todo[w][1] /\ row \in Row
  BY <1>1
<1>3. QED
  BY <1>2 DEF Touched

\* Whoever holds a row, or the key of the request it updates, is about to lock a
\* row that comes later in the order.
LEMMA HolderIsAhead ==
  ASSUME TypeInv, LockInv, OrderInv, NEW v \in Workers, NEW x, Holds(v, x),
         NEW y, WantsNext(v, y)
  PROVE  Before(x, y) /\ y \in Row
<1>1. LocksOK(v) /\ OrderOK(v) /\ WorkerOK(v)
  BY DEF LockInv, OrderInv, TypeInv
<1>2. pc[v] = "write"
  BY <1>1 DEF Holds, LocksOK
<1>3. /\ y \in Row /\ y \in Touched(v)
      /\ 1 \in 1 .. Len(todo[v]) /\ y = todo[v][1]
  BY <1>2, NextIsFirst
<1>4. \A z \in held[v] : Before(z, y)
  BY <1>1, <1>3 DEF OrderOK
<1>5. CASE x \in held[v]
  BY <1>3, <1>4, <1>5
<1>6. ASSUME NEW q \in Requests, status[q] \in Occupying, x = KeyEntry(resource[q]),
             RequestRow(q) \in held[v]
      PROVE  Before(x, y)
  <2>1. Rank(y) > 2
    <3>1. Before(RequestRow(q), y)
      BY <1>4, <1>6
    <3>2. QED
      BY <3>1, RowRanks, BeforeFacts
  <2>2. PICK r \in Requests : call[v].r = r
    BY <1>1, <1>2, CallKinds DEF WorkerOK
  <2>3. RequestRow(q) \in Touched(v)
    BY <1>6 DEF Touched
  <2>4. q = r
    BY <1>1, <2>2, <2>3 DEF OrderOK
  <2>5. call[v] \notin CreateCall
    BY <1>1, <2>2, <2>3, RowRanks DEF OrderOK
  <2>6. Rank(y) # 3
    BY <1>1, <1>3, <1>6, <2>2, <2>4, <2>5 DEF OrderOK
  <2>7. Rank(x) = 3 /\ Rank(y) \in 1 .. 4
    BY <1>6, RowRanks
  <2>8. QED
    BY <2>1, <2>6, <2>7 DEF Before
<1>7. QED
  BY <1>3, <1>5, <1>6 DEF Holds

\* No circle of waiting workers: each would be ahead of the one that waits for it.
LEMMA InOrderNoCircle ==
  ASSUME TypeInv, LockInv, OrderInv
  PROVE  NoLockCircle
<1> SUFFICES ASSUME NEW S \in (SUBSET Workers) \ {{}},
                    \A w \in S : WaitsFor(w) \cap S # {}
             PROVE  FALSE
  BY DEF NoLockCircle
<1>1. \A w \in S : \E x : WantsNext(w, x)
  BY WaitFacts
<1>2. ASSUME NEW w \in S, NEW x, WantsNext(w, x)
      PROVE  \E v \in S, y \in Row : WantsNext(v, y) /\ Before(x, y)
  <2>1. PICK v \in S : v \in WaitsFor(w)
    OBVIOUS
  <2>2. Holds(v, x)
    BY <1>2, <2>1, WaitFacts DEF WantsNext
  <2>3. PICK y : WantsNext(v, y)
    BY <1>1
  <2>4. QED
    BY <2>2, <2>3, HolderIsAhead
<1>3. \A x, y : Before(x, y) => Rank(x) < Rank(y) \/ Rank(y) = 4
  BY BeforeFacts
<1>4. \E w \in S, x \in Row : WantsNext(w, x) /\ Rank(x) = 4
  <2>0. PICK w0 : w0 \in S
    OBVIOUS
  <2>1. PICK x0 : WantsNext(w0, x0)
    BY <1>1, <2>0
  <2>2. PICK w1 \in S, x1 \in Row : WantsNext(w1, x1) /\ Before(x0, x1)
    BY <1>2, <2>0, <2>1
  <2>3. PICK w2 \in S, x2 \in Row : WantsNext(w2, x2) /\ Before(x1, x2)
    BY <1>2, <2>2
  <2>4. PICK w3 \in S, x3 \in Row : WantsNext(w3, x3) /\ Before(x2, x3)
    BY <1>2, <2>3
  <2>5. Rank(x1) # 1
    BY <2>2, RowRanks
  <2>6. Rank(x1) \in 1 .. 4 /\ Rank(x2) \in 1 .. 4 /\ Rank(x3) \in 1 .. 4
    BY RowRanks
  <2>7. /\ Rank(x1) < Rank(x2) \/ Rank(x2) = 4
        /\ Rank(x2) < Rank(x3) \/ Rank(x3) = 4
    BY <1>3, <2>3, <2>4
  <2>8. Rank(x2) = 4 \/ Rank(x3) = 4
    BY <2>5, <2>6, <2>7
  <2>9. QED
    BY <2>3, <2>4, <2>8
<1>5. PICK w \in S, r \in Requests, o \in Nat : WantsNext(w, StepRow(r, o))
  BY <1>4, RowRanks
<1> DEFINE T == {p \in Nat : \E v \in S : WantsNext(v, StepRow(r, p))}
<1>6. T \in SUBSET Nat /\ T # {}
  BY <1>5
<1>7. T \subseteq DOMAIN steps[r]
  <2> SUFFICES ASSUME NEW p \in Nat, NEW v \in S, WantsNext(v, StepRow(r, p))
               PROVE  p \in DOMAIN steps[r]
    OBVIOUS
  <2>1. pc[v] # "insert"
    BY RowRanks DEF WantsNext
  <2>2. StepRow(r, p) \in Touched(v) /\ todo[v] # <<>>
    BY <2>1, NextIsFirst DEF WantsNext
  <2>3. OrderOK(v) /\ WorkerOK(v) /\ pc[v] # "idle"
    BY <2>2 DEF OrderInv, TypeInv, TypeOK
  <2>4. PICK q \in Requests : call[v].r = q
    BY <2>3, CallKinds DEF WorkerOK
  <2>5. QED
    BY <2>2, <2>3, <2>4 DEF OrderOK
<1>8. IsFiniteSet(T)
  BY <1>7, FS_Subset DEF OrderInv
<1>9. PICK last \in T : \A p \in T : ~Ahead(r, last, p)
  <2> HIDE DEF T
  <2> QED  BY <1>6, <1>8, LastStep
<1>10. PICK v \in S : WantsNext(v, StepRow(r, last)) /\ last \in Nat
  BY <1>9
<1>11. PICK u \in S, y \in Row : WantsNext(u, y) /\ Before(StepRow(r, last), y)
  BY <1>2, <1>10
<1>12. PICK q \in Requests, n, p \in Nat :
         StepRow(r, last) = StepRow(q, n) /\ y = StepRow(q, p) /\ Ahead(q, n, p)
  BY <1>11, RowRanks, BeforeFacts
<1>13. y = StepRow(r, p) /\ Ahead(r, last, p)
  BY <1>12, StepRowsDiffer
<1>14. p \in T
  BY <1>11, <1>12, <1>13
<1>15. QED
  BY <1>9, <1>13, <1>14

-----------------------------------------------------------------------------
(* Every call keeps the order. *)

\* An idle worker touches nothing.
LEMMA IdleOrderOK ==
  ASSUME NEW w \in Workers, call'[w] = NoCall, todo'[w] = <<>>, held'[w] = {}
  PROVE  OrderOK(w)'
BY CallsDiffer DEF OrderOK, InOrder, Touched

\* Another worker's step, when it leaves this worker's request its steps and does
\* not bring it back while this worker has locked it.
LEMMA OtherOrderOK ==
  ASSUME TypeInv, OrderInv, NEW w \in Workers, OnlyWorker(w), NEW v \in Workers \ {w},
         \A r \in Requests : call[v].r = r /\ call[v] # NoCall =>
           /\ DOMAIN steps'[r] = DOMAIN steps[r]
           /\ RequestRow(r) \in held[v] /\ status[r] \notin Occupying =>
                status'[r] \notin Occupying
  PROVE  OrderOK(v)'
<1>1. /\ call'[v] = call[v] /\ todo'[v] = todo[v] /\ held'[v] = held[v]
  BY DEF OnlyWorker
<1>2. OrderOK(v)
  BY DEF OrderInv
<1>3. CASE call[v] = NoCall
  <2>1. todo[v] = <<>> /\ held[v] = {}
    BY <1>3 DEF TypeInv, TypeOK, WorkerOK
  <2>2. QED
    BY <1>1, <1>3, <2>1, IdleOrderOK
<1>4. CASE call[v] # NoCall
  <2>1. Touched(v)' = Touched(v)
    BY <1>1 DEF Touched
  <2>2. InOrder(todo[v])' /\ \A x \in held[v] : \A i \in 1 .. Len(todo[v]) : Before(x, todo[v][i])
    BY <1>1, <1>2 DEF OrderOK, InOrder
  <2>3. ASSUME NEW r \in Requests, call[v].r = r
        PROVE  /\ call[v] \in CreateCall => \A x \in Touched(v) : Rank(x) = 3
               /\ \A q \in Requests : RequestRow(q) \in Touched(v) => q = r
               /\ \A q \in Requests, o \in Nat : StepRow(q, o) \in Touched(v) =>
                    q = r /\ o \in DOMAIN steps'[r]
               /\ call[v] \notin CreateCall =>
                    \A i \in 1 .. Len(todo[v]) : Rank(todo[v][i]) = 3 =>
                      RequestRow(r) \in held[v] /\ status'[r] \notin Occupying
    BY <1>2, <1>4, <2>3 DEF OrderOK
  <2>4. QED
    BY <1>1, <2>1, <2>2, <2>3 DEF OrderOK
<1>5. QED
  BY <1>3, <1>4

\* A step that leaves the rows alone.
LEMMA QuietOrder ==
  ASSUME TypeInv, OrderInv, NEW w \in Workers, OnlyWorker(w), UNCHANGED db, OrderOK(w)'
  PROVE  OrderInv'
<1>1. \A v \in Workers \ {w} : OrderOK(v)'
  BY OtherOrderOK DEF db
<1>2. QED
  BY <1>1 DEF OrderInv, db

LEMMA GiveUpOrder ==
  ASSUME TypeInv, OrderInv, NEW w \in Workers, EndCall(w), UNCHANGED db
  PROVE  OrderInv'
BY EndCallFacts, IdleOrderOK, QuietOrder

\* One row to lock, and none locked.
LEMMA SingleRowOrder ==
  ASSUME NEW w \in Workers, NEW row, todo'[w] = <<row>>, held'[w] = {}
  PROVE  /\ Touched(w)' = {row}
         /\ InOrder(todo[w])'
         /\ \A i \in 1 .. Len(todo'[w]) : todo'[w][i] = row
<1>1. PICK s : s = <<row>>
  OBVIOUS
<1>2. Len(s) = 1 /\ s[1] = row /\ s = todo'[w]
  BY <1>1
<1>3. QED
  BY <1>2 DEF Touched, InOrder

LEMMA BeginOrder ==
  ASSUME TypeInv, OrderInv, NEW w \in Workers, Begin(w)
  PROVE  OrderInv'
<1>0. pc[w] = "idle" /\ held[w] = {} /\ todo[w] = <<>>
  BY DEF TypeInv, TypeOK, Begin, BeginCreate, BeginCancel, BeginDecide
<1>1. ASSUME NEW r \in Requests, NEW a \in Actors, NEW k \in Resources, NEW plan \in Plans,
             BeginCreate(w, r, a, k, plan)
      PROVE  OrderInv'
  <2>1. PICK c \in CreateCall :
          c = [kind |-> "create", r |-> r, actor |-> a, k |-> k, plan |-> plan]
    BY DEF CreateCall
  <2>2. /\ pc' = [pc EXCEPT ![w] = "write"] /\ call' = [call EXCEPT ![w] = c]
        /\ todo' = [todo EXCEPT ![w] = <<KeyEntry(k)>>]
        /\ UNCHANGED <<db, seen, held>>
    BY <1>1, <2>1 DEF BeginCreate
  <2>3. OnlyWorker(w) /\ call'[w] = c /\ held'[w] = {} /\ todo'[w] = <<KeyEntry(k)>>
    BY <1>0, <2>2 DEF OnlyWorker, TypeInv, TypeOK
  <2>4. Touched(w)' = {KeyEntry(k)} /\ InOrder(todo[w])'
    BY <2>3, SingleRowOrder
  <2>5. OrderOK(w)'
    BY <2>3, <2>4, RowRanks DEF OrderOK
  <2>6. QED
    BY <2>2, <2>3, <2>5, QuietOrder
<1>2. ASSUME NEW r \in Requests, BeginCancel(w, r)
      PROVE  OrderInv'
  <2>1. PICK c \in CancelCall : c = [kind |-> "cancel", r |-> r]
    BY DEF CancelCall
  <2>2. /\ pc' = [pc EXCEPT ![w] = "write"] /\ call' = [call EXCEPT ![w] = c]
        /\ seen' = [seen EXCEPT ![w].status = status[r]]
        /\ todo' = [todo EXCEPT ![w] = <<RequestRow(r)>>]
        /\ UNCHANGED <<db, held>>
    BY <1>2, <2>1 DEF BeginCancel
  <2>3. OnlyWorker(w) /\ call'[w] = c /\ held'[w] = {} /\ todo'[w] = <<RequestRow(r)>>
    BY <1>0, <2>2 DEF OnlyWorker, TypeInv, TypeOK
  <2>4. /\ Touched(w)' = {RequestRow(r)} /\ InOrder(todo[w])'
        /\ \A i \in 1 .. Len(todo'[w]) : todo'[w][i] = RequestRow(r)
    BY <2>3, SingleRowOrder
  <2>5. c \notin CreateCall /\ c.r = r
    BY <2>1, CallsDiffer
  <2>6. /\ Rank(RequestRow(r)) # 3
        /\ \A q : RequestRow(q) = RequestRow(r) => q = r
        /\ \A q, o : StepRow(q, o) # RequestRow(r)
    BY RowRanks, RowsDiffer
  <2>7. OrderOK(w)'
    BY <2>3, <2>4, <2>5, <2>6 DEF OrderOK
  <2>8. QED
    BY <2>2, <2>3, <2>7, QuietOrder
<1>3. ASSUME NEW r \in Requests, NEW a \in Actors, NEW action \in ActionType,
             BeginDecide(w, r, a, action)
      PROVE  OrderInv'
  <2>1. PICK c : call' = [call EXCEPT ![w] = c] /\ UNCHANGED <<db, todo, held>>
    BY <1>3 DEF BeginDecide
  <2>2. OnlyWorker(w) /\ held'[w] = {} /\ todo'[w] = <<>>
    BY <1>0, <1>3 DEF BeginDecide, OnlyWorker, TypeInv, TypeOK
  <2>3. OrderOK(w)'
    BY <2>2 DEF OrderOK, InOrder, Touched
  <2>4. QED
    BY <2>1, <2>2, <2>3, QuietOrder
<1>4. QED
  BY <1>1, <1>2, <1>3 DEF Begin

LEMMA ReadOrder ==
  ASSUME TypeInv, OrderInv, NEW w \in Workers, ReadSteps(w) \/ ReadDecisions(w)
  PROVE  OrderInv'
<1>1. CASE EndCall(w) /\ UNCHANGED db
  BY <1>1, GiveUpOrder
<1>2. CASE ~(EndCall(w) /\ UNCHANGED db)
  <2>1. UNCHANGED <<db, call, todo, held>>
    BY <1>2 DEF ReadSteps, ReadDecisions
  <2>2. OnlyWorker(w)
    BY <1>2, <2>1 DEF ReadSteps, ReadDecisions, OnlyWorker, TypeInv, TypeOK
  <2>3. OrderOK(w)'
    BY <2>1 DEF OrderInv, OrderOK, Touched, db
  <2>4. QED
    BY <2>1, <2>2, <2>3, QuietOrder
<1>3. QED
  BY <1>1, <1>2

\* The concatenation of two sequences of rows.
LEMMA ConcatRows ==
  ASSUME NEW front \in Seq(Row), NEW back \in Seq(Row)
  PROVE  /\ front \o back \in Seq(Row)
         /\ \A i \in 1 .. Len(front \o back) :
              \/ i \in 1 .. Len(front) /\ (front \o back)[i] = front[i]
              \/ /\ i - Len(front) \in 1 .. Len(back)
                 /\ (front \o back)[i] = back[i - Len(front)]
OBVIOUS

LEMMA ConcatInOrder ==
  ASSUME NEW front \in Seq(Row), NEW back \in Seq(Row), InOrder(front), InOrder(back),
         \A i \in 1 .. Len(front), j \in 1 .. Len(back) : Before(front[i], back[j])
  PROVE  InOrder(front \o back)
<1> DEFINE all == front \o back
<1> SUFFICES ASSUME NEW i \in 1 .. Len(all), NEW j \in 1 .. Len(all), i < j
             PROVE  Before(all[i], all[j])
  BY DEF InOrder
<1>1. /\ \/ i \in 1 .. Len(front) /\ all[i] = front[i]
         \/ i - Len(front) \in 1 .. Len(back) /\ all[i] = back[i - Len(front)]
      /\ \/ j \in 1 .. Len(front) /\ all[j] = front[j]
         \/ j - Len(front) \in 1 .. Len(back) /\ all[j] = back[j - Len(front)]
  BY ConcatRows
<1>2. Len(front) \in Nat /\ Len(all) \in Nat
  BY ConcatRows
<1> HIDE DEF all
<1>3. CASE i \in 1 .. Len(front) /\ all[i] = front[i]
  <2>1. CASE j \in 1 .. Len(front) /\ all[j] = front[j]
    BY <1>3, <2>1 DEF InOrder
  <2>2. CASE j - Len(front) \in 1 .. Len(back) /\ all[j] = back[j - Len(front)]
    BY <1>3, <2>2
  <2>3. QED  BY <1>1, <2>1, <2>2
<1>4. CASE i - Len(front) \in 1 .. Len(back) /\ all[i] = back[i - Len(front)]
  <2>1. j \notin 1 .. Len(front) /\ i - Len(front) < j - Len(front)
    BY <1>2, <1>4
  <2>2. QED
    BY <1>1, <1>4, <2>1 DEF InOrder
<1>5. QED
  BY <1>1, <1>3, <1>4

\* The step a decision activates comes after the one it decides.
LEMMA NextIsLater ==
  ASSUME TypeInv, NEW w \in Workers, HasPassed(w), NEW next,
         next = NextActive(DecidedSteps(w), DecidedStep(w)), next # 0
  PROVE  next \in DOMAIN steps[call[w].r] /\ next \in Nat /\ DecidedStep(w) < next
<1>1. PICK ss, o : ss = seen[w].steps /\ o = DecidedStep(w)
  OBVIOUS
<1>2. /\ IsStepTable(ss) /\ o \in DOMAIN ss /\ o \in Nat /\ call[w].action \in ActionType
      /\ DOMAIN ss = DOMAIN steps[call[w].r]
  BY <1>1, PassedFacts
<1>3. PICK after : after = StepsAfter(ss, o, call[w].action)
  OBVIOUS
<1>4. /\ IsStepTable(after) /\ DOMAIN after = DOMAIN ss
      /\ \A p \in DOMAIN ss \ {o} :
           after[p].status = "active" => p = o + 1 \/ ss[p].status = "active"
  BY <1>2, <1>3, StepsAfterEffect
<1>5. next \in DOMAIN ss /\ next # o /\ after[next].status = "active" /\ next \in Nat
  BY <1>1, <1>3, <1>4, NextActiveIsActive DEF DecidedSteps
<1>6. ActiveOrders(ss) \in SUBSET (Nat \ {0})
  BY <1>2 DEF ActiveOrders, IsStepTable
<1>7. \A p \in ActiveOrders(ss) : o <= p
  BY <1>1, <1>6, FirstOfIsLeast DEF DecidedStep, ActiveStep
<1>8. next = o + 1 \/ next \in ActiveOrders(ss)
  BY <1>4, <1>5 DEF ActiveOrders
<1>9. QED
  BY <1>1, <1>2, <1>5, <1>7, <1>8

\* The rows of a decision come in order: its request, then its steps.
LEMMA DecisionRowsInOrder ==
  ASSUME TypeInv, NEW w \in Workers, HasPassed(w), NEW r \in Requests, call[w].r = r
  PROVE  /\ DecisionRows(w) \in Seq(Row) /\ InOrder(DecisionRows(w))
         /\ \A i \in 1 .. Len(DecisionRows(w)) :
              \/ DecisionRows(w)[i] = RequestRow(r)
              \/ \E o \in DOMAIN steps[r] : DecisionRows(w)[i] = StepRow(r, o)
<1>1. DecidedStep(w) \in DOMAIN steps[r] /\ DecidedStep(w) \in Nat
  BY PassedFacts
<1>2. PICK o \in Nat : o = DecidedStep(w) /\ o \in DOMAIN steps[r]
  BY <1>1
<1>3. NextActive(DecidedSteps(w), DecidedStep(w)) \in Nat
  BY NextIsLater
<1>4. PICK next \in Nat : next = NextActive(DecidedSteps(w), DecidedStep(w))
  BY <1>3
<1>5. next # 0 => next \in DOMAIN steps[r] /\ o < next
  BY <1>2, <1>4, NextIsLater
<1>6. PICK front :
        front = IF DecidedVerdict(w) = "none" THEN <<>> ELSE <<RequestRow(r)>>
  OBVIOUS
<1>7. PICK back :
        back = IF next = 0 THEN <<StepRow(r, o)>>
               ELSE IF r \in Descending THEN <<StepRow(r, next), StepRow(r, o)>>
               ELSE <<StepRow(r, o), StepRow(r, next)>>
  OBVIOUS
<1>8. DecisionRows(w) = front \o back
  BY <1>2, <1>4, <1>6, <1>7 DEF DecisionRows
<1>9. RequestRow(r) \in Row /\ StepRow(r, o) \in Row /\ StepRow(r, next) \in Row
  BY DEF Row
<1>10. /\ front \in Seq(Row) /\ \A i \in 1 .. Len(front) : front[i] = RequestRow(r)
       /\ Len(front) \in {0, 1}
  BY <1>6, <1>9
<1>11. /\ back \in Seq(Row) /\ InOrder(back)
       /\ \A i \in 1 .. Len(back) :
            back[i] = StepRow(r, o) \/ (next # 0 /\ back[i] = StepRow(r, next))
  <2>1. CASE next = 0
    <3>1. back \in Seq(Row) /\ Len(back) = 1 /\ back[1] = StepRow(r, o)
      BY <1>7, <1>9, <2>1
    <3>2. QED
      BY <3>1 DEF InOrder
  <2>2. CASE next # 0 /\ r \in Descending
    <3>1. /\ back \in Seq(Row) /\ Len(back) = 2
          /\ back[1] = StepRow(r, next) /\ back[2] = StepRow(r, o)
      BY <1>7, <1>9, <2>2
    <3>2. Before(StepRow(r, next), StepRow(r, o))
      BY <1>5, <2>2 DEF Before, Ahead
    <3>3. QED
      BY <2>2, <3>1, <3>2 DEF InOrder
  <2>3. CASE next # 0 /\ r \notin Descending
    <3>1. /\ back \in Seq(Row) /\ Len(back) = 2
          /\ back[1] = StepRow(r, o) /\ back[2] = StepRow(r, next)
      BY <1>7, <1>9, <2>3
    <3>2. Before(StepRow(r, o), StepRow(r, next))
      BY <1>5, <2>3 DEF Before, Ahead
    <3>3. QED
      BY <2>3, <3>1, <3>2 DEF InOrder
  <2>4. QED  BY <2>1, <2>2, <2>3
<1>12. \A p : Before(RequestRow(r), StepRow(r, p))
  BY RowRanks DEF Before
<1>13. InOrder(front)
  BY <1>10 DEF InOrder
<1>14. InOrder(front \o back)
  BY <1>10, <1>11, <1>12, <1>13, ConcatInOrder
<1>15. \A i \in 1 .. Len(front \o back) :
         \/ (front \o back)[i] = RequestRow(r)
         \/ \E p \in DOMAIN steps[r] : (front \o back)[i] = StepRow(r, p)
  BY <1>2, <1>5, <1>10, <1>11, ConcatRows
<1>16. front \o back \in Seq(Row)
  BY <1>10, <1>11, ConcatRows
<1>17. QED
  BY <1>8, <1>14, <1>15, <1>16

LEMMA InsertOrder ==
  ASSUME TypeInv, LockInv, OrderInv, NEW w \in Workers, InsertDecision(w)
  PROVE  OrderInv'
<1>1. LocksOK(w) /\ WorkerOK(w) /\ pc[w] = "insert"
  BY DEF LockInv, InsertDecision, TypeInv
<1>2. held[w] = {} /\ call[w] \in DecideCall /\ call[w] \notin CreateCall /\ HasPassed(w)
  BY <1>1, CallsDiffer DEF LocksOK, WorkerOK, HasPassed
<1>3. CASE EndCall(w)
  BY <1>3, GiveUpOrder DEF InsertDecision
<1>4. CASE ~EndCall(w)
  <2>1. PICK entry, rows :
          /\ entry = DecisionEntry(call[w].r, DecidedStep(w), call[w].actor)
          /\ rows = DecisionRows(w)
          /\ held' = [held EXCEPT ![w] = @ \cup {entry}]
          /\ todo' = [todo EXCEPT ![w] = rows]
          /\ UNCHANGED <<db, call, seen>>
    BY <1>4 DEF InsertDecision
  <2>2. OnlyWorker(w) /\ held'[w] = {entry} /\ todo'[w] = rows /\ call'[w] = call[w]
    BY <1>2, <1>4, <2>1 DEF InsertDecision, OnlyWorker, TypeInv, TypeOK
  <2>3. PICK r \in Requests : call[w].r = r
    BY <1>2 DEF DecideCall
  <2>4. /\ rows \in Seq(Row) /\ InOrder(rows)
        /\ \A i \in 1 .. Len(rows) :
             rows[i] = RequestRow(r) \/ \E o \in DOMAIN steps[r] : rows[i] = StepRow(r, o)
    BY <1>2, <2>1, <2>3, DecisionRowsInOrder
  <2>5. Rank(entry) = 1 /\ \A i \in 1 .. Len(rows) : Rank(rows[i]) \in {2, 4}
    BY <2>1, <2>4, RowRanks
  <2>6. \A i \in 1 .. Len(rows) : Before(entry, rows[i])
    BY <2>5 DEF Before
  <2>7. \A x \in {entry} \cup {rows[i] : i \in 1 .. Len(rows)} :
          x = entry \/ x = RequestRow(r) \/ \E o \in DOMAIN steps[r] : x = StepRow(r, o)
    BY <2>4
  <2>8. /\ \A q \in Requests : RequestRow(q) \in Touched(w)' => q = r
        /\ \A q \in Requests, o \in Nat : StepRow(q, o) \in Touched(w)' =>
             q = r /\ o \in DOMAIN steps[r]
    <3>1. Touched(w)' = {entry} \cup {rows[i] : i \in 1 .. Len(rows)}
      BY <2>2 DEF Touched
    <3>2. /\ \A q : RequestRow(q) # entry
          /\ \A q, o : StepRow(q, o) # entry /\ StepRow(q, o) # RequestRow(r)
          /\ \A q, o : RequestRow(q) # StepRow(r, o)
      BY <2>1, RowRanks
    <3>3. QED
      BY <2>7, <3>1, <3>2, RowsDiffer, StepRowsDiffer
  <2>9. InOrder(todo[w])' /\ steps' = steps
    BY <2>1, <2>2, <2>4 DEF InOrder, db
  <2>10. OrderOK(w)'
    BY <1>2, <2>2, <2>3, <2>5, <2>6, <2>8, <2>9 DEF OrderOK
  <2>11. QED
    BY <2>1, <2>2, <2>10, QuietOrder
<1>5. QED
  BY <1>3, <1>4

LEMMA LockOrder ==
  ASSUME TypeInv, LockInv, OrderInv, NEW w \in Workers, Lock(w)
  PROVE  OrderInv'
<1>1. LocksOK(w) /\ WorkerOK(w) /\ OrderOK(w) /\ pc[w] = "write" /\ todo[w] # <<>>
  BY DEF LockInv, Lock, TypeInv, OrderInv
<1>2. CASE EndCall(w)
  BY <1>2, GiveUpOrder DEF Lock
<1>3. CASE ~EndCall(w)
  <2>1. PICK row, r, front :
          /\ row = Head(todo[w]) /\ r = call[w].r
          /\ front = IF call[w].kind = "decide" /\ row = RequestRow(r) /\ status[r] \notin Occupying
                     THEN <<KeyEntry(resource[r])>> ELSE <<>>
          /\ held' = [held EXCEPT ![w] = @ \cup {row}]
          /\ todo' = [todo EXCEPT ![w] = front \o Tail(@)]
          /\ UNCHANGED <<db, pc, call, seen>>
    BY <1>3 DEF Lock
  <2>2. /\ OnlyWorker(w) /\ held'[w] = held[w] \cup {row} /\ todo'[w] = front \o Tail(todo[w])
        /\ call'[w] = call[w]
    BY <1>1, <2>1 DEF OnlyWorker, TypeInv, TypeOK
  <2>3. r \in Requests /\ call[w] # NoCall
    BY <1>1, <2>1, CallKinds DEF WorkerOK
  <2>4. PICK s \in Seq(Row) : s = todo[w] /\ s # <<>>
    BY <1>1 DEF LocksOK
  <2>5. PICK rest \in Seq(Row) : rest = Tail(s)
    <3>1. Tail(s) \in Seq(Row)
      BY <2>4
    <3>2. QED
      BY <3>1
  <2>6. /\ 1 \in 1 .. Len(s) /\ row = s[1] /\ row \in Row
        /\ Len(rest) = Len(s) - 1 /\ Len(s) \in Nat
        /\ \A i \in 1 .. Len(rest) : i + 1 \in 1 .. Len(s) /\ rest[i] = s[i + 1]
    BY <2>1, <2>4, <2>5
  <2>7. /\ InOrder(s)
        /\ \A x \in held[w] : \A i \in 1 .. Len(s) : Before(x, s[i])
    BY <1>1, <2>4 DEF OrderOK
  <2>8. /\ call[w] \in CreateCall => \A x \in Touched(w) : Rank(x) = 3
        /\ \A q \in Requests : RequestRow(q) \in Touched(w) => q = r
        /\ \A q \in Requests, o \in Nat : StepRow(q, o) \in Touched(w) =>
             q = r /\ o \in DOMAIN steps[r]
        /\ call[w] \notin CreateCall =>
             \A i \in 1 .. Len(s) : Rank(s[i]) = 3 =>
               RequestRow(r) \in held[w] /\ status[r] \notin Occupying
    BY <1>1, <2>1, <2>3, <2>4 DEF OrderOK
  <2>9. /\ InOrder(rest)
        /\ \A x \in held[w] \cup {row} : \A i \in 1 .. Len(rest) : Before(x, rest[i])
    <3>1. InOrder(rest)
      BY <2>6, <2>7 DEF InOrder
    <3>2. \A i \in 1 .. Len(rest) : Before(row, rest[i])
      <4> SUFFICES ASSUME NEW i \in 1 .. Len(rest) PROVE Before(row, rest[i])
        OBVIOUS
      <4>1. i + 1 \in 1 .. Len(s) /\ 1 < i + 1 /\ rest[i] = s[i + 1]
        BY <2>6
      <4>2. QED
        BY <2>6, <2>7, <4>1 DEF InOrder
    <3>3. QED
      BY <2>6, <2>7, <3>1, <3>2
  <2>10. /\ \A x \in held[w] : x \in Touched(w)
         /\ \A i \in 1 .. Len(s) : s[i] \in Touched(w)
    BY <2>4 DEF Touched
  <2>11. row \in Touched(w) /\ \A i \in 1 .. Len(rest) : rest[i] \in Touched(w)
    BY <2>6, <2>10
  <2>12. CASE call[w].kind = "decide" /\ row = RequestRow(r) /\ status[r] \notin Occupying
    <3>1. PICK key : key = KeyEntry(resource[r]) /\ front = <<key>>
      BY <2>1, <2>12
    <3>2. key \in Row
      <4>1. status[r] # "absent"
        BY <1>1, <2>1, <2>12, CallKinds DEF WorkerOK
      <4>2. QED
        BY <2>3, <3>1, <4>1, HasResource DEF Row
    <3>3. call[w] \notin CreateCall
      BY <2>12, CallsDiffer
    <3>4. RequestRow(r) \notin held[w]
      <4>1. Rank(RequestRow(r)) = 2
        BY RowRanks
      <4>2. ~Before(RequestRow(r), RequestRow(r))
        BY <4>1, BeforeFacts
      <4>3. QED
        BY <2>6, <2>7, <2>12, <4>2
    <3>5. \A i \in 1 .. Len(rest) : Rank(rest[i]) = 4
      <4> SUFFICES ASSUME NEW i \in 1 .. Len(rest) PROVE Rank(rest[i]) = 4
        OBVIOUS
      <4>1. Before(RequestRow(r), rest[i])
        BY <2>9, <2>12
      <4>2. Rank(RequestRow(r)) = 2 /\ Rank(rest[i]) \in 1 .. 4
        BY RowRanks
      <4>3. Rank(rest[i]) > 2
        BY <4>1, <4>2, BeforeFacts
      <4>4. Rank(rest[i]) # 3
        BY <2>6, <2>8, <3>3, <3>4
      <4>5. QED
        BY <4>2, <4>3, <4>4
    <3>6. /\ front \in Seq(Row) /\ Len(front) = 1 /\ front[1] = key
          /\ Rank(key) = 3
      BY <3>1, <3>2, RowRanks
    <3>7. PICK t \in Seq(Row) : t = todo'[w] /\ t = front \o rest
      <4>1. front \o rest \in Seq(Row)
        BY <2>5, <3>6, ConcatRows
      <4>2. todo'[w] = front \o rest
        BY <2>2, <2>4, <2>5
      <4>3. QED
        BY <4>1, <4>2
    <3>8. InOrder(front)
      BY <3>6 DEF InOrder
    <3>9. \A i \in 1 .. Len(rest) : Before(key, rest[i])
      BY <3>5, <3>6 DEF Before
    <3>10. InOrder(t)
      BY <2>9, <3>6, <3>7, <3>8, <3>9, ConcatInOrder
    <3>11. \A i \in 1 .. Len(t) : t[i] = key \/ \E j \in 1 .. Len(rest) : t[i] = rest[j]
      <4>1. \A i \in 1 .. Len(t) :
              \/ i \in 1 .. Len(front) /\ t[i] = front[i]
              \/ i - Len(front) \in 1 .. Len(rest) /\ t[i] = rest[i - Len(front)]
        <5>1. \A i \in 1 .. Len(front \o rest) :
                \/ i \in 1 .. Len(front) /\ (front \o rest)[i] = front[i]
                \/ /\ i - Len(front) \in 1 .. Len(rest)
                   /\ (front \o rest)[i] = rest[i - Len(front)]
          BY <2>5, <3>6, ConcatRows
        <5>2. QED
          BY <3>7, <5>1
      <4>2. QED
        BY <3>6, <4>1
    <3>12. \A x \in held[w] \cup {row} : Before(x, key)
      <4>1. \A x \in held[w] : Rank(x) < 2
        <5> SUFFICES ASSUME NEW x \in held[w] PROVE Rank(x) < 2
          OBVIOUS
        <5>1. Before(x, RequestRow(r)) /\ Rank(RequestRow(r)) = 2
          BY <2>6, <2>7, <2>12, RowRanks
        <5>2. QED
          BY <5>1, BeforeFacts
      <4>2. \A x \in held[w] : Rank(x) \in 1 .. 4 /\ Rank(x) < 3
        BY <4>1, RowRanks
      <4>3. Rank(row) < 3
        BY <2>12, RowRanks
      <4>4. QED
        BY <3>6, <4>2, <4>3 DEF Before
    <3>13. \A x \in held'[w] : \A i \in 1 .. Len(t) : Before(x, t[i])
      BY <2>2, <2>9, <3>11, <3>12
    <3>14. \A x \in Touched(w)' : x \in Touched(w) \/ x = key
      <4>1. Touched(w)' = held'[w] \cup {t[i] : i \in 1 .. Len(t)}
        BY <3>7 DEF Touched
      <4>2. QED
        BY <2>2, <2>10, <2>11, <3>11, <4>1
    <3>15. /\ \A q : RequestRow(q) # key
           /\ \A q, o : StepRow(q, o) # key
      BY <3>6, RowRanks
    <3>16. RequestRow(r) \in held'[w] /\ status'[r] \notin Occupying /\ steps' = steps
      BY <2>1, <2>2, <2>12 DEF db
    <3>17. OrderOK(w)'
      BY <2>1, <2>2, <2>8, <3>3, <3>7, <3>10, <3>13, <3>14, <3>15, <3>16 DEF OrderOK
    <3>18. QED
      BY <2>1, <2>2, <3>17, QuietOrder
  <2>13. CASE ~(call[w].kind = "decide" /\ row = RequestRow(r) /\ status[r] \notin Occupying)
    <3>1. front = <<>>
      BY <2>1, <2>13
    <3>2. todo'[w] = rest
      BY <2>2, <2>4, <2>5, <3>1
    <3>3. \A x \in Touched(w)' : x \in Touched(w)
      <4>1. Touched(w)' = held'[w] \cup {rest[i] : i \in 1 .. Len(rest)}
        BY <3>2 DEF Touched
      <4>2. QED
        BY <2>2, <2>10, <2>11, <4>1
    <3>4. status' = status /\ steps' = steps
      BY <2>1 DEF db
    <3>5. call[w] \notin CreateCall =>
            \A i \in 1 .. Len(rest) : Rank(rest[i]) = 3 =>
              RequestRow(r) \in held'[w] /\ status[r] \notin Occupying
      BY <2>2, <2>6, <2>8
    <3>6. InOrder(todo[w])'
      BY <2>9, <3>2 DEF InOrder
    <3>7. OrderOK(w)'
      BY <2>1, <2>2, <2>8, <2>9, <3>2, <3>3, <3>4, <3>5, <3>6 DEF OrderOK
    <3>8. QED
      BY <2>1, <2>2, <3>7, QuietOrder
  <2>14. QED
    BY <2>12, <2>13
<1>4. QED
  BY <1>2, <1>3

\* A commit of one request's rows: it keeps the steps of a request that exists and
\* brings a request back only under its row lock.
LEMMA CommitOrder ==
  ASSUME TypeInv, LockInv, OrderInv, NEW w \in Workers, EndCall(w),
         NEW r \in Requests,
         \A q \in Requests \ {r} : status'[q] = status[q] /\ steps'[q] = steps[q],
         IsFiniteSet(DOMAIN steps'[r]),
         \/ \A v \in Workers \ {w} : call[v] # NoCall => call[v].r # r
         \/ /\ DOMAIN steps'[r] = DOMAIN steps[r]
            /\ status'[r] = status[r] \/ RequestRow(r) \in held[w]
  PROVE  OrderInv'
<1>1. /\ OnlyWorker(w)
      /\ pc'[w] = "idle" /\ call'[w] = NoCall /\ todo'[w] = <<>> /\ held'[w] = {}
  BY EndCallFacts
<1>2. OrderOK(w)'
  BY <1>1, IdleOrderOK
<1>3. ASSUME NEW v \in Workers \ {w} PROVE OrderOK(v)'
  <2>1. held[v] \cap held[w] = {}
    BY DEF LockInv
  <2>2. \A q \in Requests : call[v].r = q /\ call[v] # NoCall =>
          /\ DOMAIN steps'[q] = DOMAIN steps[q]
          /\ RequestRow(q) \in held[v] /\ status[q] \notin Occupying =>
               status'[q] \notin Occupying
    BY <2>1
  <2>3. QED
    BY <1>1, <2>2, OtherOrderOK
<1>4. \A q \in Requests : IsFiniteSet(DOMAIN steps'[q])
  BY DEF OrderInv
<1>5. QED
  BY <1>2, <1>3, <1>4 DEF OrderInv

LEMMA CommitCreateOrder ==
  ASSUME TypeInv, LockInv, OrderInv, NEW w \in Workers, CommitCreate(w)
  PROVE  OrderInv'
<1>1. PICK r \in Requests, a \in Actors, k \in Resources, plan \in Plans :
        Created(w, r, a, k, plan)
  BY CreateFacts
<1>2. EndCall(w)
  BY DEF CommitCreate
<1>3. DOMAIN NewSteps(plan) = DOMAIN plan /\ IsFiniteSet(DOMAIN plan)
  BY <1>1, NewStepsTable DEF Created, IsPlan
<1>4. /\ steps'[r] = NewSteps(plan)
      /\ \A q \in Requests \ {r} : status'[q] = status[q] /\ steps'[q] = steps[q]
      /\ \A v \in Workers \ {w} : call[v] # NoCall => call[v].r # r
  BY <1>1 DEF Created, TypeInv, TypeOK
<1>5. QED
  BY <1>2, <1>3, <1>4, CommitOrder

LEMMA CommitCancelOrder ==
  ASSUME TypeInv, LockInv, OrderInv, NEW w \in Workers, CommitCancel(w)
  PROVE  OrderInv'
<1>1. call[w].kind = "cancel" /\ call[w] \in CancelCall
  BY CallKinds DEF CommitCancel, Ready
<1>2. PICK r \in Requests : call[w].r = r
  BY <1>1 DEF CancelCall
<1>3. RequestRow(r) \in held[w]
  BY <1>1, <1>2 DEF LockInv, LocksOK, Wants, CommitCancel, Ready
<1>4. /\ EndCall(w) /\ steps' = steps
      /\ status' = [status EXCEPT ![r] = "cancelled"]
  BY <1>2 DEF CommitCancel
<1>5. \A q \in Requests \ {r} : status'[q] = status[q]
  BY <1>4 DEF TypeInv, TypeOK
<1>6. IsFiniteSet(DOMAIN steps'[r])
  BY <1>4 DEF OrderInv
<1>7. EndCall(w) /\ \A q \in Requests : steps'[q] = steps[q]
  BY <1>4
<1>8. QED
  BY <1>3, <1>5, <1>6, <1>7, CommitOrder

LEMMA CommitDecideOrder ==
  ASSUME TypeInv, LockInv, OrderInv, NEW w \in Workers, CommitDecide(w)
  PROVE  OrderInv'
<1>1. PICK r \in Requests, a \in Actors, action \in ActionType, o \in Nat \ {0},
          verdict \in {"approved", "rejected", "none"} :
        Decided(w, r, a, action, o, verdict)
  BY DecideFacts
<1> USE DEF Decided
<1>2. call[w].r = r /\ EndCall(w)
  BY <1>1
<1>3. LocksOK(w) /\ todo[w] = <<>>
  BY DEF LockInv, CommitDecide, Ready
<1>4. verdict # "none" => RequestRow(r) \in held[w]
  BY <1>1, <1>2, <1>3 DEF LocksOK, Wants
<1>5. DOMAIN MergedSteps(w) = DOMAIN steps[r]
  BY <1>2 DEF MergedSteps
<1>6. /\ steps'[r] = MergedSteps(w)
      /\ \A q \in Requests \ {r} : status'[q] = status[q] /\ steps'[q] = steps[q]
      /\ status'[r] = IF verdict = "none" THEN status[r] ELSE verdict
  BY <1>1 DEF TypeInv, TypeOK
<1>7. DOMAIN steps'[r] = DOMAIN steps[r] /\ IsFiniteSet(DOMAIN steps'[r])
  BY <1>5, <1>6 DEF OrderInv
<1>8. status'[r] = status[r] \/ RequestRow(r) \in held[w]
  BY <1>4, <1>6
<1>9. QED
  BY <1>2, <1>6, <1>7, <1>8, CommitOrder

LEMMA OrderStep ==
  ASSUME TypeInv, LockInv, OrderInv, [Next]_vars
  PROVE  OrderInv'
<1>1. CASE UNCHANGED vars
  <2>1. ASSUME NEW w \in Workers PROVE OrderOK(w)'
    <3>1. OrderOK(w) /\ UNCHANGED <<call, todo, held, status, steps>>
      BY <1>1 DEF OrderInv, vars
    <3>2. QED
      BY <3>1 DEF OrderOK, Touched, InOrder
  <2>2. QED
    BY <1>1, <2>1 DEF vars, OrderInv
<1>2. ASSUME NEW w \in Workers, Abort(w)
      PROVE  OrderInv'
  BY <1>2, GiveUpOrder DEF Abort
<1>3. QED
  BY <1>1, <1>2, BeginOrder, ReadOrder, InsertOrder, LockOrder, CommitCreateOrder,
     CommitCancelOrder, CommitDecideOrder DEF Next, Step, Quiet

LEMMA OrderInit == Init => OrderInv
<1> SUFFICES ASSUME Init PROVE OrderInv
  OBVIOUS
<1>1. \A w \in Workers : OrderOK(w)
  BY DEF Init, RowsInit, OrderOK, InOrder, Touched
<1>2. \A r \in Requests : DOMAIN steps[r] = {}
  BY DEF Init, RowsInit
<1>3. QED
  BY <1>1, <1>2, FS_EmptySet DEF OrderInv

\* However many connections create, cancel and decide at once, on whatever steps
\* and with whatever primary keys, they never wait for each other in a circle.
THEOREM NoDeadlock == Spec => []NoLockCircle
<1>1. TypeInv /\ LockInv /\ OrderInv => NoLockCircle
  BY InOrderNoCircle
<1>2. QED
  BY <1>1, TypeInit, TypeStep, LockInit, LockStep, OrderInit, OrderStep, PTL DEF Spec

=============================================================================
