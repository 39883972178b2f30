-------------------------- MODULE RuleServiceProofs --------------------------
(***************************************************************************)
(* RuleService for every set of workers, rules and step definitions: what  *)
(* the row lock and the writing by column still guarantee although the     *)
(* version is compared with a stale read.                                  *)
(***************************************************************************)
EXTENDS RuleService, SequenceTheorems, TLAPS

-----------------------------------------------------------------------------
(* Types. *)

ChangeCall  == [kind : Change, r : Rules, ask : Ask, read : Row]
RequestCall == [kind : {"request"}, r : Rules, plan : Plans]

\* The kind of a call says which fields it has.
LEMMA CallKinds ==
  ASSUME TypeOK, NEW w \in Workers
  PROVE  /\ call[w].kind \in Change => call[w] \in ChangeCall
         /\ call[w].kind = "request" => call[w] \in RequestCall
         /\ pc[w] # "idle" => call[w] \in ChangeCall \cup RequestCall
         /\ pc[w] \in {"flushed", "written"} => call[w] \in ChangeCall
<1>1. call[w] \in {NoCall} \cup ChangeCall \cup RequestCall
  BY DEF TypeOK, ChangeCall, RequestCall
<1>2. /\ NoCall.kind = "none"
      /\ \A c \in ChangeCall : c.kind \in Change
      /\ \A c \in RequestCall : c.kind = "request"
  BY DEF NoCall, ChangeCall, RequestCall
<1>3. /\ pc[w] = "idle" <=> call[w] = NoCall
      /\ pc[w] \in {"flushed", "written"} => call[w].kind \in Change
  BY DEF TypeOK
<1>4. "none" \notin Change /\ "request" \notin Change /\ "none" # "request"
  BY DEF Change
<1>5. CASE call[w] = NoCall
  BY <1>2, <1>3, <1>4, <1>5
<1>6. CASE call[w] \in ChangeCall
  BY <1>2, <1>3, <1>4, <1>6
<1>7. CASE call[w] \in RequestCall
  BY <1>2, <1>3, <1>4, <1>7
<1>8. QED
  BY <1>1, <1>5, <1>6, <1>7

\* What the assignments and the UPDATE make of a row are rows.
LEMMA ChangedTypes ==
  ASSUME NEW c \in ChangeCall, NEW now \in Row
  PROVE  /\ Changed(c) \in Row
         /\ Changed(c).version = c.read.version + 1
         /\ Written(now, c) \in Row
         /\ Written(now, c).version = c.read.version + 1
         /\ Entry(c) \in AuditEntry
         /\ Entry(c).new.version = c.read.version + 1
<1>1. c.read \in Row /\ c.ask \in Ask /\ c.kind \in Change
  BY DEF ChangeCall
<1>2. Given(c.ask.plan, c.read.plan) \in Plans /\ Given(c.ask.active, c.read.active) \in BOOLEAN
  BY <1>1 DEF Given, Ask, Row
<1>3. Changed(c) \in Row /\ Changed(c).version = c.read.version + 1
  BY <1>1, <1>2 DEF Changed, Row
<1>4. Written(now, c) \in Row /\ Written(now, c).version = c.read.version + 1
  BY <1>1, <1>3 DEF Written, Row
<1>5. Entry(c) \in AuditEntry /\ Entry(c).new.version = c.read.version + 1
  <2>1. \A s \in Row : s \in Snapshot /\ [s EXCEPT !.plan = None] \in Snapshot
                       /\ [s EXCEPT !.plan = None].version = s.version
    BY DEF Row, Snapshot
  <2>2. CASE c.kind = "update"
    BY <1>1, <1>3, <2>1, <2>2 DEF Entry, AuditEntry
  <2>3. CASE c.kind = "delete"
    BY <1>1, <1>3, <2>1, <2>3 DEF Entry, AuditEntry
  <2>4. QED  BY <1>1, <2>2, <2>3 DEF Change
<1>6. QED
  BY <1>3, <1>4, <1>5

\* The end of a call, however it ends, leaves the workers well typed.
LEMMA EndCallType ==
  ASSUME TypeOK, NEW w \in Workers, EndCall(w), rule' \in [Rules -> Row \cup {None}],
         \A r \in Rules : rule'[r] = None <=> rule[r] = None
  PROVE  /\ pc' \in [Workers -> {"idle", "read", "flushed", "written"}]
         /\ call' \in [Workers -> {NoCall} \cup ChangeCall \cup RequestCall]
         /\ drawn' \in [Workers -> Nat]
         /\ \A v \in Workers :
              /\ pc'[v] = "idle" <=> call'[v] = NoCall
              /\ pc'[v] \in {"flushed", "written"} => call'[v].kind \in Change
              /\ pc'[v] # "idle" => rule'[call'[v].r] # None
              /\ pc'[v] # "written" <=> drawn'[v] = 0
<1>1. /\ pc' \in [Workers -> {"idle", "read", "flushed", "written"}]
      /\ call' \in [Workers -> {NoCall} \cup ChangeCall \cup RequestCall]
      /\ drawn' \in [Workers -> Nat]
  BY DEF EndCall, TypeOK, ChangeCall, RequestCall
<1>2. pc'[w] = "idle" /\ call'[w] = NoCall /\ drawn'[w] = 0
  BY DEF EndCall, TypeOK
<1>3. ASSUME NEW v \in Workers, v # w
      PROVE  /\ pc'[v] = "idle" <=> call'[v] = NoCall
             /\ pc'[v] \in {"flushed", "written"} => call'[v].kind \in Change
             /\ pc'[v] # "idle" => rule'[call'[v].r] # None
             /\ pc'[v] # "written" <=> drawn'[v] = 0
  <2>1. pc'[v] = pc[v] /\ call'[v] = call[v] /\ drawn'[v] = drawn[v]
    BY <1>3 DEF EndCall, TypeOK
  <2>2. pc[v] # "idle" => call[v].r \in Rules
    BY CallKinds DEF ChangeCall, RequestCall
  <2>3. QED
    BY <2>1, <2>2 DEF TypeOK
<1>4. QED
  BY <1>1, <1>2, <1>3

\* create_rule puts a legal row and its record in place.
LEMMA CreateRuleType ==
  ASSUME TypeOK, NEW w \in Workers, NEW r \in Rules, NEW plan \in Plans, CreateRule(w, r, plan)
  PROVE  TypeOK'
<1> DEFINE row   == [plan |-> plan, active |-> TRUE, version |-> 1]
           entry == [action |-> "created", old |-> None,
                     new |-> [plan |-> plan, active |-> None, version |-> None]]
           event == [id |-> nextId, version |-> None]
<1>1. row \in Row /\ entry \in AuditEntry /\ event \in OutboxRow /\ row # None
  <2>1. nextId \in Nat \ {0}
    BY DEF TypeOK
  <2>2. row \in Row /\ event \in OutboxRow
    BY <2>1 DEF Row, OutboxRow
  <2>3. entry \in AuditEntry
    BY DEF AuditEntry, Snapshot
  <2>4. QED
    BY <2>2, <2>3, NoneAssumption
<1>2. /\ rule' = [rule EXCEPT ![r] = row]
      /\ audit' = [audit EXCEPT ![r] = <<entry>>]
      /\ events' = [events EXCEPT ![r] = <<event>>]
      /\ nextId' = nextId + 1
      /\ UNCHANGED <<requests, pc, call, drawn>>
  BY DEF CreateRule
<1> HIDE DEF row, entry, event
<1>3. <<entry>> \in Seq(AuditEntry) /\ <<event>> \in Seq(OutboxRow) /\ <<entry>> # <<>>
  BY <1>1
<1>4. /\ rule' \in [Rules -> Row \cup {None}]
      /\ audit' \in [Rules -> Seq(AuditEntry)]
      /\ events' \in [Rules -> Seq(OutboxRow)]
      /\ nextId' \in Nat \ {0}
  BY <1>1, <1>2, <1>3 DEF TypeOK
<1>5. \A q \in Rules : rule'[q] = None <=> audit'[q] = <<>>
  BY <1>1, <1>2, <1>3 DEF TypeOK
<1>6. ASSUME NEW v \in Workers, pc'[v] # "idle" PROVE rule'[call'[v].r] # None
  <2>1. call[v].r \in Rules /\ rule[call[v].r] # None
    BY <1>2, <1>6, CallKinds DEF TypeOK, ChangeCall, RequestCall
  <2>2. QED
    BY <1>1, <1>2, <2>1 DEF TypeOK
<1>7. QED
  BY <1>2, <1>4, <1>5, <1>6 DEF TypeOK

\* A call that begins holds a row of its rule, or the steps of one.
LEMMA BeginType ==
  ASSUME TypeOK, NEW w \in Workers, NEW r \in Rules, rule[r] # None,
         NEW c \in ChangeCall \cup RequestCall, c.r = r, pc[w] = "idle",
         pc' = [pc EXCEPT ![w] = "read"], call' = [call EXCEPT ![w] = c],
         UNCHANGED <<db, nextId, drawn>>
  PROVE  TypeOK'
<1>1. c # NoCall
  BY DEF NoCall, ChangeCall, RequestCall, Change
<1>2. /\ pc' \in [Workers -> {"idle", "read", "flushed", "written"}]
      /\ call' \in [Workers -> {NoCall} \cup ChangeCall \cup RequestCall]
  BY DEF TypeOK, ChangeCall, RequestCall
<1>3. ASSUME NEW v \in Workers
      PROVE  /\ pc'[v] = "idle" <=> call'[v] = NoCall
             /\ pc'[v] \in {"flushed", "written"} => call'[v].kind \in Change
             /\ pc'[v] # "idle" => rule'[call'[v].r] # None
             /\ pc'[v] # "written" <=> drawn'[v] = 0
  <2>1. CASE v = w
    BY <1>1, <2>1 DEF TypeOK, db
  <2>2. CASE v # w
    BY <2>2 DEF TypeOK, db
  <2>3. QED  BY <2>1, <2>2
<1>4. QED
  BY <1>2, <1>3 DEF TypeOK, db, ChangeCall, RequestCall

\* The UPDATE and the INSERTs of a change move its call on.
LEMMA MoveOnType ==
  ASSUME TypeOK, NEW w \in Workers, Flush(w) \/ WriteEvent(w)
  PROVE  TypeOK'
<1>1. call[w].kind \in Change /\ pc[w] # "idle"
  BY DEF Flush, WriteEvent, TypeOK
<1>2. CASE Flush(w)
  <2>1. ASSUME NEW v \in Workers
        PROVE  /\ pc'[v] = "idle" <=> call'[v] = NoCall
               /\ pc'[v] \in {"flushed", "written"} => call'[v].kind \in Change
               /\ pc'[v] # "idle" => rule'[call'[v].r] # None
               /\ pc'[v] # "written" <=> drawn'[v] = 0
    BY <1>1, <1>2 DEF Flush, TypeOK, db
  <2>2. QED
    BY <1>2, <2>1 DEF Flush, TypeOK, db
<1>3. CASE WriteEvent(w)
  <2>1. nextId \in Nat \ {0} /\ nextId' \in Nat \ {0} /\ drawn' \in [Workers -> Nat]
    BY <1>3 DEF WriteEvent, TypeOK
  <2>2. ASSUME NEW v \in Workers
        PROVE  /\ pc'[v] = "idle" <=> call'[v] = NoCall
               /\ pc'[v] \in {"flushed", "written"} => call'[v].kind \in Change
               /\ pc'[v] # "idle" => rule'[call'[v].r] # None
               /\ pc'[v] # "written" <=> drawn'[v] = 0
    BY <1>1, <1>3, <2>1 DEF WriteEvent, TypeOK, db
  <2>3. QED
    BY <1>3, <2>1, <2>2 DEF WriteEvent, TypeOK, db
<1>4. QED
  BY <1>2, <1>3

\* What the commit of an update or a deactivation does, to whom.
LEMMA CommitChangeFacts ==
  ASSUME TypeOK, NEW w \in Workers, CommitChange(w)
  PROVE  \E c \in ChangeCall, r \in Rules, event \in OutboxRow :
           /\ c = call[w] /\ r = c.r /\ rule[r] \in Row
           /\ event.id = drawn[w] /\ event.version \in {None, Entry(c).new.version}
           /\ audit[r] \in Seq(AuditEntry) /\ audit[r] # <<>> /\ Entry(c) \in AuditEntry
           /\ events[r] \in Seq(OutboxRow)
           /\ rule' = [rule EXCEPT ![r] = Written(rule[r], c)]
           /\ audit' = [audit EXCEPT ![r] = Append(audit[r], Entry(c))]
           /\ events' = [events EXCEPT ![r] = Append(events[r], event)]
           /\ UNCHANGED <<nextId, requests>>
           /\ pc[w] = "written" /\ EndCall(w)
<1>1. PICK c \in ChangeCall : c = call[w]
  BY CallKinds DEF CommitChange
<1>2. PICK r \in Rules : r = c.r
  BY DEF ChangeCall
<1>3. rule[r] \in Row /\ audit[r] # <<>>
  BY <1>1, <1>2 DEF CommitChange, TypeOK
<1>4. audit[r] \in Seq(AuditEntry) /\ events[r] \in Seq(OutboxRow)
  BY DEF TypeOK
<1>5. Entry(c) \in AuditEntry /\ Changed(c) \in Row /\ Entry(c).new.version = Changed(c).version
  BY <1>3, ChangedTypes
<1>6. PICK version \in (Nat \ {0}) \cup {None} :
        version = IF c.kind = "update" THEN Changed(c).version ELSE None
  BY <1>5 DEF Row
<1>7. drawn[w] \in Nat \ {0}
  BY DEF CommitChange, TypeOK
<1>8. PICK event \in OutboxRow : event = [id |-> drawn[w], version |-> version]
  BY <1>7 DEF OutboxRow
<1>9. event.id = drawn[w] /\ event.version \in {None, Entry(c).new.version}
  BY <1>5, <1>6, <1>8
<1>10. /\ rule' = [rule EXCEPT ![r] = Written(rule[r], c)]
       /\ audit' = [audit EXCEPT ![r] = Append(audit[r], Entry(c))]
       /\ events' = [events EXCEPT ![r] = Append(events[r], event)]
       /\ UNCHANGED <<nextId, requests>>
       /\ pc[w] = "written" /\ EndCall(w)
  BY <1>1, <1>2, <1>6, <1>8 DEF CommitChange
<1>11. QED
  BY <1>1, <1>2, <1>3, <1>4, <1>5, <1>9, <1>10

\* The commit of an update or a deactivation puts legal rows in place.
LEMMA CommitChangeType ==
  ASSUME TypeOK, NEW w \in Workers, CommitChange(w)
  PROVE  TypeOK'
<1>1. PICK c \in ChangeCall, r \in Rules, event \in OutboxRow :
        /\ rule[r] \in Row /\ audit[r] # <<>>
        /\ audit[r] \in Seq(AuditEntry) /\ events[r] \in Seq(OutboxRow)
        /\ Entry(c) \in AuditEntry
        /\ rule' = [rule EXCEPT ![r] = Written(rule[r], c)]
        /\ audit' = [audit EXCEPT ![r] = Append(audit[r], Entry(c))]
        /\ events' = [events EXCEPT ![r] = Append(events[r], event)]
        /\ UNCHANGED <<nextId, requests>>
        /\ EndCall(w)
  BY CommitChangeFacts
<1>3. rule[r] \in Row /\ audit[r] # <<>>
  BY <1>1
<1>5. /\ rule' = [rule EXCEPT ![r] = Written(rule[r], c)]
      /\ audit' = [audit EXCEPT ![r] = Append(audit[r], Entry(c))]
      /\ events' = [events EXCEPT ![r] = Append(events[r], event)]
      /\ UNCHANGED <<nextId, requests>>
      /\ EndCall(w)
  BY <1>1
<1>6. Written(rule[r], c) \in Row /\ Written(rule[r], c) # None
  BY <1>3, ChangedTypes, NoneAssumption
<1>7. /\ Append(audit[r], Entry(c)) \in Seq(AuditEntry)
      /\ Append(audit[r], Entry(c)) # <<>>
      /\ Append(events[r], event) \in Seq(OutboxRow)
  BY <1>1, AppendProperties
<1>8. /\ rule' \in [Rules -> Row \cup {None}]
      /\ audit' \in [Rules -> Seq(AuditEntry)]
      /\ events' \in [Rules -> Seq(OutboxRow)]
      /\ \A q \in Rules : rule'[q] = None <=> rule[q] = None
      /\ \A q \in Rules : rule'[q] = None <=> audit'[q] = <<>>
  BY <1>3, <1>5, <1>6, <1>7, NoneAssumption DEF TypeOK
<1>9. /\ pc' \in [Workers -> {"idle", "read", "flushed", "written"}]
      /\ call' \in [Workers -> {NoCall} \cup ChangeCall \cup RequestCall]
      /\ drawn' \in [Workers -> Nat]
      /\ \A v \in Workers :
           /\ pc'[v] = "idle" <=> call'[v] = NoCall
           /\ pc'[v] \in {"flushed", "written"} => call'[v].kind \in Change
           /\ pc'[v] # "idle" => rule'[call'[v].r] # None
           /\ pc'[v] # "written" <=> drawn'[v] = 0
  <2>1. rule' \in [Rules -> Row \cup {None}] /\ \A q \in Rules : rule'[q] = None <=> rule[q] = None
    BY <1>8
  <2>2. EndCall(w)
    BY <1>5
  <2>3. QED
    BY <2>1, <2>2, EndCallType
<1>10. nextId' \in Nat \ {0} /\ requests' \subseteq [rule : Rules, plan : Plans]
  BY <1>5 DEF TypeOK
<1>11. QED
  BY <1>8, <1>9, <1>10 DEF TypeOK, ChangeCall, RequestCall

\* Every step keeps the types.
LEMMA TypeStep == TypeOK /\ [Next]_vars => TypeOK'
<1> SUFFICES ASSUME TypeOK, [Next]_vars PROVE TypeOK'
  OBVIOUS
<1>1. ASSUME NEW w \in Workers, NEW r \in Rules, NEW plan \in Plans, CreateRule(w, r, plan)
      PROVE  TypeOK'
  BY <1>1, CreateRuleType
<1>2. ASSUME NEW w \in Workers, NEW r \in Rules, NEW kind \in Change, NEW ask \in Ask,
             BeginChange(w, r, kind, ask)
      PROVE  TypeOK'
  <2>1. PICK c : c = [kind |-> kind, r |-> r, ask |-> ask, read |-> rule[r]]
    OBVIOUS
  <2>2. c \in ChangeCall /\ c.r = r
    BY <1>2, <2>1 DEF BeginChange, ChangeCall, TypeOK
  <2>3. QED
    BY <1>2, <2>1, <2>2, BeginType DEF BeginChange, MayBegin
<1>3. ASSUME NEW w \in Workers, NEW r \in Rules, NEW byId \in BOOLEAN, BeginRequest(w, r, byId)
      PROVE  TypeOK'
  <2>1. PICK c : c = [kind |-> "request", r |-> r, plan |-> rule[r].plan]
    OBVIOUS
  <2>2. rule[r] \in Row
    BY <1>3 DEF BeginRequest, TypeOK
  <2>3. c \in RequestCall /\ c.r = r
    BY <2>1, <2>2 DEF RequestCall, Row
  <2>4. QED
    BY <1>3, <2>1, <2>3, BeginType DEF BeginRequest, MayBegin
<1>4. ASSUME NEW w \in Workers, Flush(w) \/ WriteEvent(w) PROVE TypeOK'
  BY <1>4, MoveOnType
<1>5. ASSUME NEW w \in Workers, CommitChange(w) PROVE TypeOK'
  BY <1>5, CommitChangeType
<1>6. ASSUME NEW w \in Workers, CommitRequest(w) PROVE TypeOK'
  <2>1. call[w] \in RequestCall
    BY <1>6, CallKinds DEF CommitRequest
  <2>2. requests' \subseteq [rule : Rules, plan : Plans]
    BY <1>6, <2>1 DEF CommitRequest, TypeOK, RequestCall
  <2>3. QED
    BY <1>6, <2>2, EndCallType DEF CommitRequest, TypeOK, ChangeCall, RequestCall
<1>7. ASSUME NEW w \in Workers, Abort(w) PROVE TypeOK'
  BY <1>7, EndCallType DEF Abort, TypeOK, db, ChangeCall, RequestCall
<1>8. CASE UNCHANGED vars
  BY <1>8 DEF vars, TypeOK
<1>9. QED
  BY <1>1, <1>2, <1>3, <1>4, <1>5, <1>6, <1>7, <1>8 DEF Next, Begin, Step, Quiet

\* Every reachable state is well typed.
THEOREM TypeCorrect == Spec => []TypeOK
<1>1. Init => TypeOK
  BY DEF Init, TypeOK, NoCall
<1>2. QED
  BY <1>1, TypeStep, PTL DEF Spec

\* A rule's steps and its activity change only to what the committing call asked for.
THEOREM ChangesAreAsked == Spec => ColumnsAsAsked
<1>1. TypeOK /\ [Next]_vars =>
        [\A r \in Rules : rule[r] # None /\ rule'[r] # rule[r] =>
           \E w \in Workers :
             /\ pc[w] = "written" /\ pc'[w] = "idle" /\ call[w].r = r
             /\ rule'[r].plan \in {rule[r].plan, call[w].ask.plan}
             /\ rule'[r].active \in {rule[r].active, call[w].ask.active}]_vars
  <2> SUFFICES ASSUME TypeOK, [Next]_vars,
                      NEW r \in Rules, rule[r] # None, rule'[r] # rule[r]
               PROVE  \E w \in Workers :
                        /\ pc[w] = "written" /\ pc'[w] = "idle" /\ call[w].r = r
                        /\ rule'[r].plan \in {rule[r].plan, call[w].ask.plan}
                        /\ rule'[r].active \in {rule[r].active, call[w].ask.active}
    OBVIOUS
  <2>1. PICK w \in Workers : CommitChange(w)
    <3>1. ASSUME NEW w \in Workers, NEW q \in Rules, NEW plan \in Plans, CreateRule(w, q, plan)
          PROVE  FALSE
      BY <3>1 DEF CreateRule, TypeOK
    <3>2. QED
      BY <3>1 DEF Next, Begin, Step, Quiet, BeginChange, BeginRequest, Flush, WriteEvent,
                  CommitRequest, Abort, db, vars
  <2>2. PICK c \in ChangeCall, q \in Rules :
          /\ c = call[w] /\ q = c.r
          /\ rule' = [rule EXCEPT ![q] = Written(rule[q], c)]
          /\ pc[w] = "written" /\ EndCall(w)
    BY <2>1, CommitChangeFacts
  <2>3. q = r /\ rule'[r] = Written(rule[r], c)
    BY <2>2 DEF TypeOK
  <2>4. /\ Written(rule[r], c).plan \in {rule[r].plan, c.ask.plan}
        /\ Written(rule[r], c).active \in {rule[r].active, c.ask.active}
    BY DEF Written, Changed, Given
  <2>5. pc'[w] = "idle"
    BY <2>2 DEF EndCall, TypeOK
  <2>6. QED
    BY <2>2, <2>3, <2>4, <2>5
<1>2. QED
  BY <1>1, TypeCorrect, PTL DEF Spec, ColumnsAsAsked

-----------------------------------------------------------------------------
(* Events. *)

Updating(w) == pc[w] \in {"flushed", "written"}

\* The row lock is exclusive, and an id that has been drawn under it is larger
\* than those of the rule's earlier events.
EventInv ==
  /\ \A v, w \in Workers : v # w /\ Updating(v) /\ Updating(w) => call[v].r # call[w].r
  /\ \A r \in Rules : \A i \in 1 .. Len(events[r]) : events[r][i].id < nextId
  /\ \A w \in Workers : pc[w] = "written" =>
       /\ drawn[w] < nextId
       /\ \A i \in 1 .. Len(events[call[w].r]) : events[call[w].r][i].id < drawn[w]
  /\ EventOrder

\* Event ids are numbers.
LEMMA EventIds ==
  ASSUME TypeOK
  PROVE  \A r \in Rules : \A i \in 1 .. Len(events[r]) : events[r][i].id \in Nat
<1> SUFFICES ASSUME NEW r \in Rules, NEW i \in 1 .. Len(events[r])
             PROVE  events[r][i].id \in Nat
  OBVIOUS
<1>1. events[r] \in Seq(OutboxRow)
  BY DEF TypeOK
<1>2. events[r][i] \in OutboxRow
  BY <1>1, ElementOfSeq
<1>3. QED
  BY <1>2 DEF OutboxRow

\* Calls that begin, read or roll back leave the events and the locks of others.
LEMMA EventsUntouched ==
  ASSUME EventInv, UNCHANGED <<audit, events, nextId>>,
         \A v \in Workers : pc'[v] \in {"flushed", "written"} =>
           pc'[v] = pc[v] /\ call'[v] = call[v] /\ drawn'[v] = drawn[v]
  PROVE  EventInv'
<1>1. \A v \in Workers : Updating(v)' => Updating(v) /\ call'[v] = call[v]
  BY DEF Updating
<1>2. EventOrder'
  BY DEF EventInv, EventOrder
<1>3. QED
  BY <1>1, <1>2 DEF EventInv

\* The end of a call without a commit of events.
LEMMA EndCallUntouched ==
  ASSUME TypeOK, EventInv, NEW w \in Workers, EndCall(w), UNCHANGED <<audit, events, nextId>>
  PROVE  EventInv'
<1>1. \A v \in Workers : pc'[v] \in {"flushed", "written"} =>
        pc'[v] = pc[v] /\ call'[v] = call[v] /\ drawn'[v] = drawn[v]
  BY DEF EndCall, TypeOK
<1>2. QED
  BY <1>1, EventsUntouched

\* A rule's first event has the largest id so far.
LEMMA CreateRuleEvents ==
  ASSUME TypeOK, EventInv, NEW w \in Workers, NEW r \in Rules, NEW plan \in Plans,
         CreateRule(w, r, plan)
  PROVE  EventInv'
<1>1. PICK entry, event :
        /\ event = [id |-> nextId, version |-> None]
        /\ audit' = [audit EXCEPT ![r] = <<entry>>]
        /\ events' = [events EXCEPT ![r] = <<event>>]
        /\ nextId' = nextId + 1
        /\ UNCHANGED <<pc, call, drawn>>
        /\ rule[r] = None
  BY DEF CreateRule
<1>2. event.id = nextId /\ event.version = None /\ nextId \in Nat
  BY <1>1 DEF TypeOK
<1>3. /\ events'[r] = <<event>> /\ audit'[r] = <<entry>>
      /\ \A q \in Rules \ {r} : events'[q] = events[q] /\ audit'[q] = audit[q]
  BY <1>1 DEF TypeOK
<1>4. \A v \in Workers : Updating(v) => call[v].r \in Rules \ {r}
  BY <1>1, CallKinds DEF TypeOK, Updating, ChangeCall
<1>5. \A q \in Rules : \A i \in 1 .. Len(events[q]) : events[q][i].id \in Nat
  BY EventIds
<1>6. \A q \in Rules : \A i \in 1 .. Len(events'[q]) : events'[q][i].id < nextId'
  <2>1. \A i \in 1 .. Len(events'[r]) : events'[r][i].id < nextId'
    BY <1>1, <1>2, <1>3
  <2>2. ASSUME NEW q \in Rules \ {r}
        PROVE  \A i \in 1 .. Len(events'[q]) : events'[q][i].id < nextId'
    BY <1>1, <1>2, <1>3, <1>5, <2>2 DEF EventInv
  <2>3. QED  BY <2>1, <2>2
<1>7. \A v, u \in Workers : v # u /\ Updating(v)' /\ Updating(u)' => call'[v].r # call'[u].r
  BY <1>1 DEF EventInv, Updating
<1>8. ASSUME NEW v \in Workers, pc'[v] = "written"
      PROVE  /\ drawn'[v] < nextId'
             /\ \A i \in 1 .. Len(events'[call'[v].r]) : events'[call'[v].r][i].id < drawn'[v]
  <2>1. pc[v] = "written" /\ call'[v] = call[v] /\ drawn'[v] = drawn[v] /\ drawn[v] \in Nat
    BY <1>1, <1>8 DEF TypeOK
  <2>2. call[v].r \in Rules \ {r}
    BY <1>4, <2>1 DEF Updating
  <2>3. QED
    BY <1>1, <1>2, <1>3, <2>1, <2>2 DEF EventInv
<1>9. EventOrder'
  <2>1. /\ Len(events'[r]) = Len(audit'[r])
        /\ \A i, j \in 1 .. Len(events'[r]) : i < j => events'[r][i].id < events'[r][j].id
        /\ \A i \in 1 .. Len(events'[r]) :
             events'[r][i].version \in {None, audit'[r][i].new.version}
    BY <1>2, <1>3
  <2>2. QED
    BY <1>3, <2>1 DEF EventInv, EventOrder
<1>10. QED
  BY <1>6, <1>7, <1>8, <1>9 DEF EventInv

\* The event of a change follows the rule's earlier ones.
LEMMA CommitChangeEvents ==
  ASSUME TypeOK, EventInv, NEW w \in Workers, CommitChange(w)
  PROVE  EventInv'
<1>1. PICK c \in ChangeCall, r \in Rules, event \in OutboxRow, entry \in AuditEntry :
        /\ c = call[w] /\ r = c.r /\ entry = Entry(c)
        /\ event.id = drawn[w] /\ event.version \in {None, entry.new.version}
        /\ audit[r] \in Seq(AuditEntry) /\ events[r] \in Seq(OutboxRow)
        /\ audit' = [audit EXCEPT ![r] = Append(audit[r], entry)]
        /\ events' = [events EXCEPT ![r] = Append(events[r], event)]
        /\ UNCHANGED nextId
        /\ pc[w] = "written" /\ EndCall(w)
  BY CommitChangeFacts
<1>2. /\ events'[r] = Append(events[r], event) /\ audit'[r] = Append(audit[r], entry)
      /\ \A q \in Rules \ {r} : events'[q] = events[q] /\ audit'[q] = audit[q]
  BY <1>1 DEF TypeOK
<1>3. /\ Len(events'[r]) = Len(events[r]) + 1
      /\ events'[r][Len(events[r]) + 1] = event
      /\ \A i \in 1 .. Len(events[r]) : events'[r][i] = events[r][i]
      /\ Len(audit'[r]) = Len(audit[r]) + 1
      /\ audit'[r][Len(audit[r]) + 1] = entry
      /\ \A i \in 1 .. Len(audit[r]) : audit'[r][i] = audit[r][i]
      /\ Len(events[r]) \in Nat
  BY <1>1, <1>2, AppendProperties, LenProperties
<1>4. /\ drawn[w] < nextId
      /\ \A i \in 1 .. Len(events[r]) : events[r][i].id < drawn[w]
  BY <1>1 DEF EventInv
<1>5. \A v \in Workers : Updating(v)' =>
        v # w /\ Updating(v) /\ call'[v] = call[v] /\ drawn'[v] = drawn[v] /\ pc'[v] = pc[v]
        /\ call[v].r # r
  <2>1. Updating(w)
    BY <1>1 DEF Updating
  <2>2. \A v \in Workers : Updating(v)' =>
          v # w /\ Updating(v) /\ call'[v] = call[v] /\ drawn'[v] = drawn[v] /\ pc'[v] = pc[v]
    BY <1>1 DEF EndCall, TypeOK, Updating
  <2>3. QED
    BY <1>1, <2>1, <2>2 DEF EventInv
<1>6. \A q \in Rules : \A i \in 1 .. Len(events'[q]) : events'[q][i].id < nextId'
  BY <1>1, <1>2, <1>3, <1>4 DEF EventInv
<1>7. \A v, u \in Workers : v # u /\ Updating(v)' /\ Updating(u)' => call'[v].r # call'[u].r
  BY <1>5 DEF EventInv
<1>8. ASSUME NEW v \in Workers, pc'[v] = "written"
      PROVE  /\ drawn'[v] < nextId'
             /\ \A i \in 1 .. Len(events'[call'[v].r]) : events'[call'[v].r][i].id < drawn'[v]
  <2>1. /\ Updating(v) /\ call'[v] = call[v] /\ drawn'[v] = drawn[v] /\ pc[v] = "written"
        /\ call[v].r # r
    BY <1>5, <1>8 DEF Updating
  <2>2. call[v].r \in Rules \ {r}
    BY <2>1, CallKinds DEF Updating, ChangeCall
  <2>3. QED
    BY <1>1, <1>2, <2>1, <2>2 DEF EventInv
<1>9. EventOrder'
  <2>1. Len(events[r]) = Len(audit[r])
    BY DEF EventInv, EventOrder
  <2>2. \A i, j \in 1 .. Len(events'[r]) : i < j => events'[r][i].id < events'[r][j].id
    <3> SUFFICES ASSUME NEW i \in 1 .. Len(events'[r]), NEW j \in 1 .. Len(events'[r]), i < j
                 PROVE  events'[r][i].id < events'[r][j].id
      OBVIOUS
    <3>1. i \in 1 .. Len(events[r])
      BY <1>3
    <3>2. CASE j = Len(events[r]) + 1
      BY <1>1, <1>3, <1>4, <3>1, <3>2
    <3>3. CASE j # Len(events[r]) + 1
      <4>1. j \in 1 .. Len(events[r])
        BY <1>3, <3>3
      <4>2. QED
        BY <1>3, <3>1, <4>1 DEF EventInv, EventOrder
    <3>4. QED  BY <3>2, <3>3
  <2>3. \A i \in 1 .. Len(events'[r]) : events'[r][i].version \in {None, audit'[r][i].new.version}
    <3> SUFFICES ASSUME NEW i \in 1 .. Len(events'[r])
                 PROVE  events'[r][i].version \in {None, audit'[r][i].new.version}
      OBVIOUS
    <3>1. CASE i = Len(events[r]) + 1
      BY <1>1, <1>3, <2>1, <3>1
    <3>2. CASE i # Len(events[r]) + 1
      <4>1. i \in 1 .. Len(events[r]) /\ i \in 1 .. Len(audit[r])
        BY <1>3, <2>1, <3>2
      <4>2. QED
        BY <1>3, <4>1 DEF EventInv, EventOrder
    <3>3. QED  BY <3>1, <3>2
  <2>4. Len(events'[r]) = Len(audit'[r])
    BY <1>3, <2>1
  <2>5. QED
    BY <1>2, <2>2, <2>3, <2>4 DEF EventInv, EventOrder
<1>10. QED
  BY <1>6, <1>7, <1>8, <1>9 DEF EventInv

\* Every step keeps the order of the events.
LEMMA EventStep == TypeOK /\ EventInv /\ [Next]_vars => EventInv'
<1> SUFFICES ASSUME TypeOK, EventInv, [Next]_vars PROVE EventInv'
  OBVIOUS
<1>1. ASSUME NEW w \in Workers, NEW r \in Rules, NEW plan \in Plans, CreateRule(w, r, plan)
      PROVE  EventInv'
  BY <1>1, CreateRuleEvents
<1>2. ASSUME NEW w \in Workers, NEW r \in Rules,
             \/ \E kind \in Change, ask \in Ask : BeginChange(w, r, kind, ask)
             \/ \E byId \in BOOLEAN : BeginRequest(w, r, byId)
      PROVE  EventInv'
  <2>1. /\ UNCHANGED <<audit, events, nextId>>
        /\ \A v \in Workers : pc'[v] \in {"flushed", "written"} =>
             pc'[v] = pc[v] /\ call'[v] = call[v] /\ drawn'[v] = drawn[v]
    BY <1>2 DEF BeginChange, BeginRequest, TypeOK, db
  <2>2. QED
    BY <2>1, EventsUntouched
<1>3. ASSUME NEW w \in Workers, Flush(w) PROVE EventInv'
  <2>1. /\ pc' = [pc EXCEPT ![w] = "flushed"] /\ UNCHANGED <<audit, events, nextId, call, drawn>>
        /\ ~Held(w, call[w].r)
    BY <1>3 DEF Flush, db
  <2>2. \A v, u \in Workers : v # u /\ Updating(v)' /\ Updating(u)' => call'[v].r # call'[u].r
    BY <2>1 DEF EventInv, Updating, Held, TypeOK
  <2>3. EventOrder'
    BY <2>1 DEF EventInv, EventOrder
  <2>4. QED
    BY <2>1, <2>2, <2>3 DEF EventInv, TypeOK
<1>4. ASSUME NEW w \in Workers, WriteEvent(w) PROVE EventInv'
  <2>1. /\ pc[w] = "flushed"
        /\ pc' = [pc EXCEPT ![w] = "written"] /\ drawn' = [drawn EXCEPT ![w] = nextId]
        /\ nextId' = nextId + 1 /\ UNCHANGED <<audit, events, call>>
    BY <1>4 DEF WriteEvent, db
  <2>2. \A v \in Workers : Updating(v)' <=> Updating(v)
    BY <2>1 DEF Updating, TypeOK
  <2>3. nextId \in Nat /\ (\A v \in Workers : drawn[v] \in Nat)
        /\ (\A q \in Rules : \A i \in 1 .. Len(events[q]) : events[q][i].id \in Nat)
    BY EventIds DEF TypeOK
  <2>4. \A q \in Rules : \A i \in 1 .. Len(events'[q]) : events'[q][i].id < nextId'
    BY <2>1, <2>3 DEF EventInv
  <2>5. ASSUME NEW v \in Workers, pc'[v] = "written"
        PROVE  /\ drawn'[v] < nextId'
               /\ \A i \in 1 .. Len(events'[call'[v].r]) : events'[call'[v].r][i].id < drawn'[v]
    <3>1. CASE v = w
      <4>1. call[w].r \in Rules
        BY <2>1, CallKinds DEF ChangeCall
      <4>2. drawn'[v] = nextId
        BY <2>1, <3>1 DEF TypeOK
      <4>3. QED
        BY <2>1, <2>3, <3>1, <4>1, <4>2 DEF EventInv
    <3>2. CASE v # w
      <4>1. pc[v] = "written" /\ drawn'[v] = drawn[v]
        BY <2>1, <2>5, <3>2 DEF TypeOK
      <4>2. QED
        BY <2>1, <2>3, <4>1 DEF EventInv
    <3>3. QED  BY <3>1, <3>2
  <2>6. EventOrder'
    BY <2>1 DEF EventInv, EventOrder
  <2>7. QED
    BY <2>1, <2>2, <2>4, <2>5, <2>6 DEF EventInv
<1>5. ASSUME NEW w \in Workers, CommitChange(w) PROVE EventInv'
  BY <1>5, CommitChangeEvents
<1>6. ASSUME NEW w \in Workers, CommitRequest(w) \/ Abort(w) PROVE EventInv'
  BY <1>6, EndCallUntouched DEF CommitRequest, Abort, db
<1>7. CASE UNCHANGED vars
  BY <1>7, EventsUntouched DEF vars
<1>8. QED
  BY <1>1, <1>2, <1>3, <1>4, <1>5, <1>6, <1>7 DEF Next, Begin, Step, Quiet

\* A rule's events have the order of its changes.
THEOREM EventsInOrder == Spec => []EventOrder
<1>1. Init => EventInv
  BY DEF Init, EventInv, EventOrder, Updating
<1>2. EventInv => EventOrder
  BY DEF EventInv
<1>3. QED
  BY <1>1, <1>2, EventStep, TypeCorrect, PTL DEF Spec

-----------------------------------------------------------------------------
(* The audit log. *)

\* While the versions on record count up, a call that has read a version other than
\* the present one has read a smaller one, and one that has read the present
\* version has read the present row.
AuditInv ==
  /\ AuditTellsRow
  /\ \A w \in Workers : call[w].kind \in Change /\ Continuous(audit[call[w].r]) =>
       /\ call[w].read.version <= rule[call[w].r].version
       /\ call[w].read.version = rule[call[w].r].version => call[w].read = rule[call[w].r]

\* Steps that leave the rules and their record alone, and read the present row.
LEMMA AuditUntouched ==
  ASSUME TypeOK, AuditInv, UNCHANGED <<rule, audit>>,
         \A v \in Workers : call'[v].kind \in Change =>
           call'[v] = call[v] \/ (call'[v].r \in Rules /\ rule[call'[v].r] # None
                                  /\ call'[v].read = rule[call'[v].r])
  PROVE  AuditInv'
<1>1. AuditTellsRow'
  BY DEF AuditInv, AuditTellsRow
<1>2. ASSUME NEW v \in Workers, call'[v].kind \in Change, Continuous(audit'[call'[v].r])
      PROVE  /\ call'[v].read.version <= rule'[call'[v].r].version
             /\ call'[v].read.version = rule'[call'[v].r].version =>
                  call'[v].read = rule'[call'[v].r]
  <2>1. CASE call'[v] = call[v]
    BY <1>1, <1>2, <2>1 DEF AuditInv
  <2>2. CASE /\ call'[v].r \in Rules /\ rule[call'[v].r] # None
             /\ call'[v].read = rule[call'[v].r]
    <3>1. rule[call'[v].r].version \in Nat
      BY <2>2 DEF TypeOK, Row
    <3>2. QED
      BY <2>2, <3>1
  <2>3. QED  BY <1>2, <2>1, <2>2
<1>3. QED
  BY <1>1, <1>2 DEF AuditInv

\* The record of a creation tells the new row.
LEMMA CreateRuleAudit ==
  ASSUME TypeOK, AuditInv, NEW w \in Workers, NEW r \in Rules, NEW plan \in Plans,
         CreateRule(w, r, plan)
  PROVE  AuditInv'
<1>1. PICK row, entry :
        /\ row = [plan |-> plan, active |-> TRUE, version |-> 1]
        /\ entry.new = [plan |-> plan, active |-> None, version |-> None]
        /\ rule' = [rule EXCEPT ![r] = row]
        /\ audit' = [audit EXCEPT ![r] = <<entry>>]
        /\ UNCHANGED <<pc, call>>
        /\ rule[r] = None
  <2>1. PICK entry : entry = [action |-> "created", old |-> None,
                              new |-> [plan |-> plan, active |-> None, version |-> None]]
    OBVIOUS
  <2>2. QED
    BY <2>1 DEF CreateRule
<1>2. /\ rule'[r] = row /\ audit'[r] = <<entry>>
      /\ \A q \in Rules \ {r} : rule'[q] = rule[q] /\ audit'[q] = audit[q]
  BY <1>1 DEF TypeOK
<1>3. \A q \in Rules \ {r} : Continuous(audit'[q]) <=> Continuous(audit[q])
  BY <1>2
<1>4. Agree(entry.new, row)
  BY <1>1 DEF Agree
<1>5. AuditTellsRow'
  <2>1. /\ rule'[r].version = Len(audit'[r])
        /\ Agree(audit'[r][Len(audit'[r])].new, rule'[r])
        /\ \A i \in 2 .. Len(audit'[r]) : Agree(audit'[r][i - 1].new, audit'[r][i].old)
    <3>1. Len(audit'[r]) = 1 /\ audit'[r][1] = entry /\ 2 .. 1 = {}
      BY <1>2
    <3>2. rule'[r].version = 1
      BY <1>1, <1>2
    <3>3. QED
      BY <1>2, <1>4, <3>1, <3>2
  <2>2. QED
    BY <1>2, <1>3, <2>1 DEF AuditInv, AuditTellsRow
<1>6. \A v \in Workers : call[v].kind \in Change => call[v].r \in Rules \ {r}
  <2>1. \A v \in Workers : call[v].kind \in Change => pc[v] # "idle" /\ call[v].r \in Rules
    BY CallKinds DEF TypeOK, ChangeCall, NoCall, Change
  <2>2. QED
    BY <1>1, <2>1 DEF TypeOK
<1>7. QED
  BY <1>1, <1>2, <1>3, <1>5, <1>6 DEF AuditInv

\* A commit that keeps the versions counting up has read the row it replaces.
LEMMA CommitChangeAudit ==
  ASSUME TypeOK, AuditInv, NEW w \in Workers, CommitChange(w)
  PROVE  AuditInv'
<1>1. PICK c \in ChangeCall, r \in Rules :
        /\ c = call[w] /\ r = c.r /\ rule[r] \in Row
        /\ audit[r] \in Seq(AuditEntry) /\ audit[r] # <<>> /\ Entry(c) \in AuditEntry
        /\ rule' = [rule EXCEPT ![r] = Written(rule[r], c)]
        /\ audit' = [audit EXCEPT ![r] = Append(audit[r], Entry(c))]
        /\ EndCall(w)
  BY CommitChangeFacts
<1>2. PICK row \in Row, entry \in AuditEntry, n \in Nat \ {0} :
        row = Written(rule[r], c) /\ entry = Entry(c) /\ n = Len(audit[r])
  <2>1. Len(audit[r]) \in Nat \ {0}
    BY <1>1, EmptySeq, LenProperties
  <2>2. QED
    BY <1>1, <2>1, ChangedTypes
<1>3. /\ rule'[r] = row /\ audit'[r] = Append(audit[r], entry)
      /\ \A q \in Rules \ {r} : rule'[q] = rule[q] /\ audit'[q] = audit[q]
  BY <1>1, <1>2 DEF TypeOK
<1>4. /\ Len(audit'[r]) = n + 1
      /\ audit'[r][n + 1] = entry
      /\ \A i \in 1 .. n : audit'[r][i] = audit[r][i]
  BY <1>1, <1>2, <1>3, AppendProperties
<1>5. /\ row.version = c.read.version + 1 /\ entry.new.version = c.read.version + 1
      /\ c.read \in Row /\ c.read.version \in Nat /\ c.kind \in Change
  BY <1>1, <1>2, ChangedTypes DEF ChangeCall, Row
<1>6. \A q \in Rules \ {r} : Continuous(audit'[q]) <=> Continuous(audit[q])
  BY <1>3
<1>7. ASSUME Continuous(audit'[r]) PROVE Continuous(audit[r]) /\ c.read.version = n
  <2>1. \A i \in 2 .. n + 1 : audit'[r][i].new.version = i
    BY <1>4, <1>7 DEF Continuous
  <2>2. Continuous(audit[r])
    BY <1>2, <1>4, <2>1 DEF Continuous
  <2>3. entry.new.version = n + 1
    BY <1>4, <2>1
  <2>4. QED
    BY <1>5, <2>2, <2>3
<1>8. ASSUME Continuous(audit'[r]) PROVE c.read = rule[r] /\ rule[r].version = n
  <2>1. rule[r].version = n
    BY <1>1, <1>2, <1>7, <1>8, NoneAssumption DEF AuditInv, AuditTellsRow
  <2>2. QED
    BY <1>1, <1>5, <1>7, <1>8, <2>1 DEF AuditInv
<1>9. AuditTellsRow'
  <2>1. ASSUME Continuous(audit'[r])
        PROVE  /\ rule'[r].version = Len(audit'[r])
               /\ Agree(audit'[r][Len(audit'[r])].new, rule'[r])
               /\ \A i \in 2 .. Len(audit'[r]) : Agree(audit'[r][i - 1].new, audit'[r][i].old)
    <3>1. rule'[r].version = Len(audit'[r])
      BY <1>3, <1>4, <1>5, <1>7, <2>1
    <3>2. row = Changed(c)
      <4>1. row = Written(c.read, c)
        BY <1>2, <1>8, <2>1
      <4>2. QED
        BY <4>1 DEF Written, Changed
    <3>3. Agree(entry.new, row)
      BY <1>2, <3>2 DEF Agree, Entry, Changed
    <3>4. Agree(audit[r][n].new, entry.old)
      <4>1. Agree(audit[r][n].new, c.read)
        BY <1>1, <1>2, <1>7, <1>8, <2>1, NoneAssumption DEF AuditInv, AuditTellsRow
      <4>2. entry.old \in {c.read, [c.read EXCEPT !.plan = None]}
        BY <1>2 DEF Entry
      <4>3. QED
        BY <1>5, <4>1, <4>2 DEF Agree, Row
    <3>5. \A i \in 2 .. n : Agree(audit[r][i - 1].new, audit[r][i].old)
      BY <1>1, <1>2, <1>7, <2>1, NoneAssumption DEF AuditInv, AuditTellsRow
    <3>6. ASSUME NEW i \in 2 .. n + 1 PROVE Agree(audit'[r][i - 1].new, audit'[r][i].old)
      <4>1. CASE i = n + 1
        BY <1>4, <3>4, <4>1
      <4>2. CASE i # n + 1
        <5>1. i \in 2 .. n /\ i - 1 \in 1 .. n /\ i \in 1 .. n
          BY <4>2
        <5>2. QED
          BY <1>4, <3>5, <5>1
      <4>3. QED  BY <4>1, <4>2
    <3>7. QED
      BY <1>3, <1>4, <3>1, <3>3, <3>6
  <2>2. QED
    BY <1>3, <1>6, <2>1 DEF AuditInv, AuditTellsRow
<1>10. ASSUME NEW v \in Workers, call'[v].kind \in Change, Continuous(audit'[call'[v].r])
       PROVE  /\ call'[v].read.version <= rule'[call'[v].r].version
              /\ call'[v].read.version = rule'[call'[v].r].version =>
                   call'[v].read = rule'[call'[v].r]
  <2>1. call'[v] = call[v] /\ v # w
    BY <1>1, <1>10 DEF EndCall, TypeOK, NoCall, Change
  <2>2. call[v] \in ChangeCall
    BY <1>10, <2>1, CallKinds
  <2>3. CASE call[v].r = r
    <3>1. call[v].read.version <= n /\ call[v].read.version \in Nat
      BY <1>7, <1>8, <1>10, <2>1, <2>2, <2>3 DEF AuditInv, ChangeCall, Row
    <3>2. rule'[r].version = n + 1
      BY <1>3, <1>5, <1>7, <1>10, <2>1, <2>3
    <3>3. QED
      BY <2>1, <2>3, <3>1, <3>2
  <2>4. CASE call[v].r # r
    BY <1>3, <1>6, <1>10, <2>1, <2>2, <2>4 DEF AuditInv, ChangeCall
  <2>5. QED  BY <2>3, <2>4
<1>11. QED
  BY <1>9, <1>10 DEF AuditInv

\* Every step keeps what the audit log tells.
LEMMA AuditStep == TypeOK /\ AuditInv /\ [Next]_vars => AuditInv'
<1> SUFFICES ASSUME TypeOK, AuditInv, [Next]_vars PROVE AuditInv'
  OBVIOUS
<1>1. ASSUME NEW w \in Workers, NEW r \in Rules, NEW plan \in Plans, CreateRule(w, r, plan)
      PROVE  AuditInv'
  BY <1>1, CreateRuleAudit
<1>2. ASSUME NEW w \in Workers, NEW r \in Rules, NEW kind \in Change, NEW ask \in Ask,
             BeginChange(w, r, kind, ask)
      PROVE  AuditInv'
  <2>1. PICK c : c = [kind |-> kind, r |-> r, ask |-> ask, read |-> rule[r]]
    OBVIOUS
  <2>2. /\ c.r = r /\ c.read = rule[r] /\ rule[r] # None
        /\ call' = [call EXCEPT ![w] = c] /\ UNCHANGED <<rule, audit>>
    BY <1>2, <2>1 DEF BeginChange, db
  <2>3. \A v \in Workers : call'[v] = call[v] \/ call'[v] = c
    BY <2>2 DEF TypeOK
  <2>4. QED
    BY <2>2, <2>3, AuditUntouched
<1>3. ASSUME NEW w \in Workers, NEW r \in Rules, NEW byId \in BOOLEAN, BeginRequest(w, r, byId)
      PROVE  AuditInv'
  <2>1. /\ \A v \in Workers : call'[v].kind \in Change => call'[v] = call[v]
        /\ UNCHANGED <<rule, audit>>
    BY <1>3 DEF BeginRequest, TypeOK, Change, db
  <2>2. QED
    BY <2>1, AuditUntouched
<1>4. ASSUME NEW w \in Workers, Flush(w) \/ WriteEvent(w) PROVE AuditInv'
  BY <1>4, AuditUntouched DEF Flush, WriteEvent, db
<1>5. ASSUME NEW w \in Workers, CommitChange(w) PROVE AuditInv'
  BY <1>5, CommitChangeAudit
<1>6. ASSUME NEW w \in Workers, CommitRequest(w) \/ Abort(w) PROVE AuditInv'
  <2>1. /\ \A v \in Workers : call'[v].kind \in Change => call'[v] = call[v]
        /\ UNCHANGED <<rule, audit>>
    BY <1>6 DEF CommitRequest, Abort, EndCall, TypeOK, NoCall, Change, db
  <2>2. QED
    BY <2>1, AuditUntouched
<1>7. CASE UNCHANGED vars
  BY <1>7, AuditUntouched DEF vars
<1>8. QED
  BY <1>1, <1>2, <1>3, <1>4, <1>5, <1>6, <1>7 DEF Next, Begin, Step, Quiet

\* As long as the versions on record count up, the audit log is the rule's history.
THEOREM AuditIsHistory == Spec => []AuditTellsRow
<1>1. Init => AuditInv
  BY DEF Init, AuditInv, AuditTellsRow, NoCall, Change
<1>2. AuditInv => AuditTellsRow
  BY DEF AuditInv
<1>3. QED
  BY <1>1, <1>2, AuditStep, TypeCorrect, PTL DEF Spec

-----------------------------------------------------------------------------
(* The steps of requests. *)

OnRecord(log, plan) == \E i \in 1 .. Len(log) : log[i].new.plan = plan

\* What a rule holds and what create_request has read is on record; a
\* deactivation asks for no steps.
PlanInv ==
  /\ PlansOnRecord
  /\ \A r \in Rules : rule[r] # None => OnRecord(audit[r], rule[r].plan)
  /\ \A w \in Workers : call[w].kind = "request" => OnRecord(audit[call[w].r], call[w].plan)
  /\ \A w \in Workers : call[w].kind = "delete" => call[w].ask.plan = None

\* A longer log has everything on record that it had.
LEMMA OnRecordGrows ==
  ASSUME NEW S, NEW log \in Seq(S), NEW entry \in S, NEW plan
  PROVE  /\ OnRecord(log, plan) => OnRecord(Append(log, entry), plan)
         /\ OnRecord(Append(log, entry), entry.new.plan)
<1>1. /\ Len(Append(log, entry)) = Len(log) + 1 /\ Len(log) \in Nat
      /\ Append(log, entry)[Len(log) + 1] = entry
      /\ \A i \in 1 .. Len(log) : Append(log, entry)[i] = log[i]
  BY AppendProperties, LenProperties
<1>2. Len(log) + 1 \in 1 .. Len(Append(log, entry))
  BY <1>1
<1>3. OnRecord(Append(log, entry), entry.new.plan)
  BY <1>1, <1>2 DEF OnRecord
<1>4. ASSUME OnRecord(log, plan) PROVE OnRecord(Append(log, entry), plan)
  <2>1. PICK i \in 1 .. Len(log) : log[i].new.plan = plan
    BY <1>4 DEF OnRecord
  <2>2. i \in 1 .. Len(Append(log, entry)) /\ Append(log, entry)[i] = log[i]
    BY <1>1
  <2>3. QED
    BY <2>1, <2>2 DEF OnRecord
<1>5. QED
  BY <1>3, <1>4

\* PlansOnRecord in terms of OnRecord.
LEMMA RequestsOnRecord ==
  PlansOnRecord <=> \A q \in requests : OnRecord(audit[q.rule], q.plan)
BY DEF PlansOnRecord, OnRecord

\* The steps an UPDATE leaves in a rule were there or are in the audit entry.
LEMMA CommitChangePlans ==
  ASSUME TypeOK, PlanInv, NEW w \in Workers, CommitChange(w)
  PROVE  PlanInv'
<1>1. PICK c \in ChangeCall, r \in Rules, entry \in AuditEntry :
        /\ c = call[w] /\ r = c.r /\ rule[r] \in Row
        /\ audit[r] \in Seq(AuditEntry) /\ audit[r] # <<>> /\ entry = Entry(c)
        /\ rule' = [rule EXCEPT ![r] = Written(rule[r], c)]
        /\ audit' = [audit EXCEPT ![r] = Append(audit[r], entry)]
        /\ UNCHANGED <<nextId, requests>>
        /\ pc[w] = "written" /\ EndCall(w)
  BY CommitChangeFacts
<1>2. /\ rule'[r] = Written(rule[r], c) /\ audit'[r] = Append(audit[r], entry)
      /\ \A q \in Rules \ {r} : rule'[q] = rule[q] /\ audit'[q] = audit[q]
  BY <1>1 DEF TypeOK
<1>3. \A q \in Rules : \A plan : OnRecord(audit[q], plan) => OnRecord(audit'[q], plan)
  BY <1>1, <1>2, OnRecordGrows
<1>4. OnRecord(audit'[r], entry.new.plan)
  BY <1>1, <1>2, OnRecordGrows
<1>5. OnRecord(audit'[r], rule'[r].plan)
  <2>1. CASE rule'[r].plan = rule[r].plan
    BY <1>1, <1>3, <2>1, NoneAssumption DEF PlanInv
  <2>2. CASE rule'[r].plan # rule[r].plan
    <3>1. rule'[r].plan = Changed(c).plan /\ Changed(c).plan # c.read.plan
      BY <1>2, <2>2 DEF Written
    <3>2. c.ask.plan # None
      BY <3>1 DEF Changed, Given
    <3>3. c.kind = "update"
      BY <1>1, <3>2 DEF PlanInv, ChangeCall, Change
    <3>4. entry.new.plan = Changed(c).plan
      BY <1>1, <3>3 DEF Entry
    <3>5. QED
      BY <1>4, <3>1, <3>4
  <2>3. QED  BY <2>1, <2>2
<1>6. PlansOnRecord'
  <2>1. \A q \in requests : q.rule \in Rules
    BY DEF TypeOK
  <2>2. \A q \in requests' : OnRecord(audit'[q.rule], q.plan)
    BY <1>1, <1>3, <2>1, RequestsOnRecord DEF PlanInv
  <2>3. QED
    BY <2>2 DEF PlansOnRecord, OnRecord
<1>7. \A v \in Workers : call'[v] = call[v] \/ call'[v].kind = "none"
  BY <1>1 DEF EndCall, TypeOK, NoCall
<1>8. \A v \in Workers : call'[v].kind = "request" => OnRecord(audit'[call'[v].r], call'[v].plan)
  BY <1>3, <1>7, CallKinds DEF PlanInv, RequestCall
<1>9. \A v \in Workers : call'[v].kind = "delete" => call'[v].ask.plan = None
  BY <1>7 DEF PlanInv
<1>10. \A q \in Rules : rule'[q] # None => OnRecord(audit'[q], rule'[q].plan)
  BY <1>2, <1>5 DEF PlanInv
<1>11. QED
  BY <1>6, <1>8, <1>9, <1>10 DEF PlanInv

\* A new rule's steps are on record.
LEMMA CreateRulePlans ==
  ASSUME TypeOK, PlanInv, NEW w \in Workers, NEW r \in Rules, NEW plan \in Plans,
         CreateRule(w, r, plan)
  PROVE  PlanInv'
<1>1. PICK entry :
        /\ entry.new.plan = plan
        /\ audit' = [audit EXCEPT ![r] = <<entry>>]
        /\ rule' = [rule EXCEPT ![r] = [plan |-> plan, active |-> TRUE, version |-> 1]]
        /\ UNCHANGED <<requests, call>>
        /\ audit[r] = <<>>
  <2>1. PICK entry : entry = [action |-> "created", old |-> None,
                              new |-> [plan |-> plan, active |-> None, version |-> None]]
    OBVIOUS
  <2>2. audit[r] = <<>>
    BY DEF CreateRule, TypeOK
  <2>3. QED
    BY <2>1, <2>2 DEF CreateRule
<1>2. /\ audit'[r] = <<entry>> /\ rule'[r].plan = plan
      /\ \A q \in Rules \ {r} : audit'[q] = audit[q] /\ rule'[q] = rule[q]
  BY <1>1 DEF TypeOK
<1>3. OnRecord(audit'[r], plan)
  <2>1. Len(audit'[r]) = 1 /\ audit'[r][1] = entry
    BY <1>2
  <2>2. QED
    BY <1>1, <2>1 DEF OnRecord
<1>4. \A p : ~ OnRecord(audit[r], p)
  BY <1>1 DEF OnRecord
<1>5. \A q \in Rules : \A p : OnRecord(audit[q], p) => OnRecord(audit'[q], p)
  BY <1>2, <1>4
<1>6. \A q \in requests' : OnRecord(audit'[q.rule], q.plan)
  BY <1>1, <1>5, RequestsOnRecord DEF PlanInv, TypeOK
<1>7. PlansOnRecord'
  BY <1>6 DEF PlansOnRecord, OnRecord
<1>8. \A v \in Workers : call'[v].kind = "request" => OnRecord(audit'[call'[v].r], call'[v].plan)
  BY <1>1, <1>5, CallKinds DEF PlanInv, RequestCall
<1>9. \A q \in Rules : rule'[q] # None => OnRecord(audit'[q], rule'[q].plan)
  BY <1>2, <1>3 DEF PlanInv
<1>10. QED
  BY <1>1, <1>7, <1>8, <1>9 DEF PlanInv

\* Every step keeps the steps of requests on record.
LEMMA PlanStep == TypeOK /\ PlanInv /\ [Next]_vars => PlanInv'
<1> SUFFICES ASSUME TypeOK, PlanInv, [Next]_vars PROVE PlanInv'
  OBVIOUS
<1>1. ASSUME NEW w \in Workers, NEW r \in Rules, NEW plan \in Plans, CreateRule(w, r, plan)
      PROVE  PlanInv'
  BY <1>1, CreateRulePlans
<1>2. ASSUME NEW w \in Workers, NEW r \in Rules, NEW kind \in Change, NEW ask \in Ask,
             BeginChange(w, r, kind, ask)
      PROVE  PlanInv'
  <2>1. PICK c : c = [kind |-> kind, r |-> r, ask |-> ask, read |-> rule[r]]
    OBVIOUS
  <2>2. /\ c.kind = kind /\ c.ask = ask /\ (kind = "delete" => ask.plan = None)
        /\ kind # "request"
        /\ \A v \in Workers : call'[v] = call[v] \/ call'[v] = c
        /\ UNCHANGED <<rule, audit, requests>>
    BY <1>2, <2>1 DEF BeginChange, Change, TypeOK, db
  <2>3. QED
    BY <2>2 DEF PlanInv, PlansOnRecord
<1>3. ASSUME NEW w \in Workers, NEW r \in Rules, NEW byId \in BOOLEAN, BeginRequest(w, r, byId)
      PROVE  PlanInv'
  <2>1. PICK c : c = [kind |-> "request", r |-> r, plan |-> rule[r].plan]
    OBVIOUS
  <2>2. /\ c.kind = "request" /\ OnRecord(audit[c.r], c.plan)
        /\ \A v \in Workers : call'[v] = call[v] \/ call'[v] = c
        /\ UNCHANGED <<rule, audit, requests>>
    BY <1>3, <2>1 DEF BeginRequest, TypeOK, PlanInv, db
  <2>3. QED
    BY <2>2 DEF PlanInv, PlansOnRecord
<1>4. ASSUME NEW w \in Workers, Flush(w) \/ WriteEvent(w) PROVE PlanInv'
  BY <1>4 DEF Flush, WriteEvent, PlanInv, PlansOnRecord, db
<1>5. ASSUME NEW w \in Workers, CommitChange(w) PROVE PlanInv'
  BY <1>5, CommitChangePlans
<1>6. ASSUME NEW w \in Workers, CommitRequest(w) \/ Abort(w) PROVE PlanInv'
  <2>1. /\ \A v \in Workers : call'[v] = call[v] \/ call'[v].kind = "none"
        /\ UNCHANGED <<rule, audit>>
    BY <1>6 DEF CommitRequest, Abort, EndCall, TypeOK, NoCall, db
  <2>2. \A q \in requests' : OnRecord(audit[q.rule], q.plan)
    <3>1. CASE Abort(w)
      BY <3>1, RequestsOnRecord DEF Abort, db, PlanInv
    <3>2. CASE CommitRequest(w)
      <4>1. PICK q : q = [rule |-> call[w].r, plan |-> call[w].plan]
        OBVIOUS
      <4>2. requests' = requests \cup {q} /\ OnRecord(audit[q.rule], q.plan)
        BY <3>2, <4>1 DEF CommitRequest, PlanInv
      <4>3. QED
        BY <4>2, RequestsOnRecord DEF PlanInv
    <3>3. QED  BY <1>6, <3>1, <3>2
  <2>3. PlansOnRecord'
    BY <2>1, <2>2 DEF PlansOnRecord, OnRecord
  <2>4. QED
    BY <2>1, <2>3 DEF PlanInv
<1>7. CASE UNCHANGED vars
  BY <1>7 DEF vars, PlanInv, PlansOnRecord
<1>8. QED
  BY <1>1, <1>2, <1>3, <1>4, <1>5, <1>6, <1>7 DEF Next, Begin, Step, Quiet

\* The steps a request copied are on record for its rule.
THEOREM StepsAreOnRecord == Spec => []PlansOnRecord
<1>1. Init => PlanInv
  BY DEF Init, PlanInv, PlansOnRecord, NoCall
<1>2. PlanInv => PlansOnRecord
  BY DEF PlanInv
<1>3. QED
  BY <1>1, <1>2, PlanStep, TypeCorrect, PTL DEF Spec

-----------------------------------------------------------------------------
(* Changes that do not overlap on a rule. *)

\* No two updates or deactivations of one rule are served at once, whatever else
\* overlaps: what a row lock taken by the SELECT would ensure.
Apart ==
  \A v, w \in Workers :
    v # w /\ call[v].kind \in Change /\ call[w].kind \in Change => call[v].r # call[w].r

\* A change is computed from the row as it still is.
CurrentInv == \A w \in Workers : call[w].kind \in Change => call[w].read = rule[call[w].r]

VersionsCountUp == \A r \in Rules : Continuous(audit[r])

\* Steps that leave the rules alone, and read the present row.
LEMMA CurrentUntouched ==
  ASSUME CurrentInv, UNCHANGED rule,
         \A v \in Workers : call'[v].kind \in Change =>
           call'[v] = call[v] \/ call'[v].read = rule[call'[v].r]
  PROVE  CurrentInv'
BY DEF CurrentInv

\* A change of a rule that has been created is about another rule than the one
\* being created, and not about no rule.
LEMMA ChangedRuleExists ==
  ASSUME TypeOK, NEW v \in Workers, call[v].kind \in Change
  PROVE  call[v] \in ChangeCall /\ call[v].r \in Rules /\ rule[call[v].r] # None
<1>1. call[v] \in ChangeCall
  BY CallKinds
<1>2. pc[v] # "idle"
  BY DEF TypeOK, NoCall, Change
<1>3. QED
  BY <1>1, <1>2 DEF TypeOK, ChangeCall

LEMMA CurrentStep == TypeOK /\ CurrentInv /\ Apart /\ [Next]_vars => CurrentInv'
<1> SUFFICES ASSUME TypeOK, CurrentInv, Apart, [Next]_vars PROVE CurrentInv'
  OBVIOUS
<1>1. ASSUME NEW w \in Workers, NEW r \in Rules, NEW plan \in Plans, CreateRule(w, r, plan)
      PROVE  CurrentInv'
  <2>1. rule[r] = None /\ call' = call /\ \A q \in Rules \ {r} : rule'[q] = rule[q]
    BY <1>1 DEF CreateRule, TypeOK
  <2>2. \A v \in Workers : call[v].kind \in Change => call[v].r \in Rules \ {r}
    BY <2>1, ChangedRuleExists
  <2>3. QED
    BY <2>1, <2>2 DEF CurrentInv
<1>2. ASSUME NEW w \in Workers, NEW r \in Rules, NEW kind \in Change, NEW ask \in Ask,
             BeginChange(w, r, kind, ask)
      PROVE  CurrentInv'
  <2>1. PICK c : c = [kind |-> kind, r |-> r, ask |-> ask, read |-> rule[r]]
    OBVIOUS
  <2>2. c.r = r /\ c.read = rule[r] /\ call' = [call EXCEPT ![w] = c] /\ UNCHANGED rule
    BY <1>2, <2>1 DEF BeginChange, db
  <2>3. \A v \in Workers : call'[v] = call[v] \/ call'[v] = c
    BY <2>2 DEF TypeOK
  <2>4. QED
    BY <2>2, <2>3, CurrentUntouched
<1>3. ASSUME NEW w \in Workers, NEW r \in Rules, NEW byId \in BOOLEAN, BeginRequest(w, r, byId)
      PROVE  CurrentInv'
  <2>1. UNCHANGED rule /\ \A v \in Workers : call'[v].kind \in Change => call'[v] = call[v]
    BY <1>3 DEF BeginRequest, TypeOK, Change, db
  <2>2. QED
    BY <2>1, CurrentUntouched
<1>4. ASSUME NEW w \in Workers, Flush(w) \/ WriteEvent(w) PROVE CurrentInv'
  BY <1>4, CurrentUntouched DEF Flush, WriteEvent, db
<1>5. ASSUME NEW w \in Workers, CommitChange(w) PROVE CurrentInv'
  <2>1. PICK c \in ChangeCall, r \in Rules :
          /\ c = call[w] /\ r = c.r /\ rule' = [rule EXCEPT ![r] = Written(rule[r], c)]
          /\ EndCall(w)
    BY <1>5, CommitChangeFacts
  <2>2. \A q \in Rules \ {r} : rule'[q] = rule[q]
    BY <2>1 DEF TypeOK
  <2>3. c.kind \in Change
    BY DEF ChangeCall
  <2>4. ASSUME NEW v \in Workers, call'[v].kind \in Change
        PROVE  v # w /\ call'[v] = call[v]
    BY <2>1, <2>4 DEF EndCall, TypeOK, NoCall, Change
  <2>5. ASSUME NEW v \in Workers, call'[v].kind \in Change
        PROVE  call'[v].read = rule'[call'[v].r]
    <3>1. call[v].kind \in Change /\ call[v].r \in Rules
      BY <2>4, <2>5, ChangedRuleExists
    <3>2. call[v].r # r
      BY <2>1, <2>3, <2>4, <2>5, <3>1 DEF Apart
    <3>3. QED
      BY <2>2, <2>4, <2>5, <3>1, <3>2 DEF CurrentInv
  <2>6. QED
    BY <2>5 DEF CurrentInv
<1>6. ASSUME NEW w \in Workers, CommitRequest(w) \/ Abort(w) PROVE CurrentInv'
  <2>1. UNCHANGED rule /\ \A v \in Workers : call'[v].kind \in Change => call'[v] = call[v]
    BY <1>6 DEF CommitRequest, Abort, EndCall, TypeOK, NoCall, Change, db
  <2>2. QED
    BY <2>1, CurrentUntouched
<1>7. CASE UNCHANGED vars
  BY <1>7, CurrentUntouched DEF vars
<1>8. QED
  BY <1>1, <1>2, <1>3, <1>4, <1>5, <1>6, <1>7 DEF Next, Begin, Step, Quiet

LEMMA CurrentInit == Init => CurrentInv
BY DEF Init, CurrentInv, NoCall, Change

\* The documented promise, which overlapping updates of one rule break, holds when
\* they do not overlap: a stale update is refused.
THEOREM ApartRefusesStale == Spec /\ []Apart => StaleUpdatesRefused
<1>1. TypeOK /\ CurrentInv /\ [Next]_vars =>
        [\A w \in Workers : CommitChange(w) /\ call[w].kind = "update" =>
           rule[call[w].r].version = call[w].read.version]_vars
  BY DEF CurrentInv, Change
<1>2. QED
  BY <1>1, CurrentInit, CurrentStep, TypeCorrect, PTL DEF Spec, StaleUpdatesRefused

\* One more version on record, right after the last one.
LEMMA CommitChangeCounts ==
  ASSUME TypeOK, AuditTellsRow, CurrentInv, VersionsCountUp,
         NEW w \in Workers, CommitChange(w)
  PROVE  VersionsCountUp'
<1>1. PICK c \in ChangeCall, r \in Rules :
        /\ c = call[w] /\ r = c.r /\ rule[r] \in Row
        /\ audit[r] \in Seq(AuditEntry) /\ Entry(c) \in AuditEntry
        /\ audit' = [audit EXCEPT ![r] = Append(audit[r], Entry(c))]
  BY CommitChangeFacts
<1>2. c.read = rule[r] /\ rule[r] # None
  BY <1>1, NoneAssumption DEF CurrentInv, ChangeCall
<1>3. PICK entry \in AuditEntry, n \in Nat :
        /\ entry = Entry(c) /\ n = Len(audit[r]) /\ entry.new.version = n + 1
  <2>1. rule[r].version = Len(audit[r])
    BY <1>2 DEF AuditTellsRow, VersionsCountUp
  <2>2. Len(audit[r]) \in Nat
    BY <1>1, LenProperties
  <2>3. Entry(c).new.version = c.read.version + 1
    BY <1>1, ChangedTypes
  <2>4. QED
    BY <1>1, <1>2, <2>1, <2>2, <2>3
<1>4. /\ audit'[r] = Append(audit[r], entry)
      /\ \A q \in Rules \ {r} : audit'[q] = audit[q]
  BY <1>1, <1>3 DEF TypeOK
<1>5. /\ Len(audit'[r]) = n + 1
      /\ audit'[r][n + 1] = entry
      /\ \A i \in 1 .. n : audit'[r][i] = audit[r][i]
  BY <1>1, <1>3, <1>4, AppendProperties
<1>6. ASSUME NEW i \in 2 .. Len(audit'[r]) PROVE audit'[r][i].new.version = i
  <2>1. CASE i = n + 1
    BY <1>3, <1>5, <2>1
  <2>2. CASE i # n + 1
    <3>1. i \in 2 .. n /\ i \in 1 .. n
      BY <1>5, <1>6, <2>2
    <3>2. QED
      BY <1>3, <1>5, <3>1 DEF VersionsCountUp, Continuous
  <2>3. QED  BY <2>1, <2>2
<1>7. QED
  BY <1>4, <1>6 DEF VersionsCountUp, Continuous

\* The versions on record then count up without end, so that what AuditTellsRow says
\* of the audit log holds of every rule, always: it is the rule's history.
THEOREM ApartCountsVersions == Spec /\ []Apart => []VersionsCountUp
<1>1. Init => VersionsCountUp
  BY DEF Init, VersionsCountUp, Continuous
<1>2. TypeOK /\ AuditTellsRow /\ CurrentInv /\ VersionsCountUp /\ [Next]_vars =>
        VersionsCountUp'
  <2> SUFFICES ASSUME TypeOK, AuditTellsRow, CurrentInv, VersionsCountUp, [Next]_vars
               PROVE  VersionsCountUp'
    OBVIOUS
  <2>1. ASSUME NEW w \in Workers, NEW r \in Rules, NEW plan \in Plans, CreateRule(w, r, plan)
        PROVE  VersionsCountUp'
    <3>1. PICK entry : audit' = [audit EXCEPT ![r] = <<entry>>]
      BY <2>1 DEF CreateRule
    <3>2. Len(audit'[r]) = 1 /\ \A q \in Rules \ {r} : audit'[q] = audit[q]
      BY <3>1 DEF TypeOK
    <3>3. 2 .. 1 = {}
      OBVIOUS
    <3>4. QED
      BY <3>2, <3>3 DEF VersionsCountUp, Continuous
  <2>2. ASSUME NEW w \in Workers, CommitChange(w) PROVE VersionsCountUp'
    BY <2>2, CommitChangeCounts
  <2>3. ASSUME UNCHANGED audit PROVE VersionsCountUp'
    BY <2>3 DEF VersionsCountUp
  <2>4. QED
    BY <2>1, <2>2, <2>3 DEF Next, Begin, Step, Quiet, vars, db, BeginChange, BeginRequest,
                            Flush, WriteEvent, CommitRequest, Abort
<1>3. QED
  BY <1>1, <1>2, CurrentInit, CurrentStep, AuditIsHistory, TypeCorrect, PTL DEF Spec

=============================================================================
