----------------------------- MODULE RuleService -----------------------------
(***************************************************************************)
(* The rules of one workspace and resource type: RuleService with          *)
(* overlapping transactions, and create_request as a reader of rules.  A   *)
(* worker is one database connection; a call is one READ COMMITTED         *)
(* transaction.  A call reads its rule without a lock, its UPDATE waits    *)
(* for the transaction that holds the row, and the lock is kept to the     *)
(* end, so that new values are applied at the commit.  The UPDATE goes by  *)
(* primary key and sets the columns whose value the session has changed;   *)
(* the version always is one of them.                                      *)
(*                                                                         *)
(* A rule's name, description and conditions are columns like its steps    *)
(* and are left out; its steps are a member of Plans.                      *)
(***************************************************************************)
EXTENDS Integers, Sequences

CONSTANTS
  Workers,   \* connections of the pool
  Rules,     \* the rules, as their created_at
  Plans,     \* step definitions
  None,
  MaxId      \* bound of the model: no call begins once this outbox id is drawn

ASSUME RulesAssumption == Rules \subseteq Nat
ASSUME MaxIdAssumption == MaxId \in Nat

VARIABLES
  rule,      \* rule -> its committed row, None before it is created
  audit,     \* rule -> its audit entries
  events,    \* rule -> its outbox rows, in the order of their commits
  nextId,    \* what the sequence of outbox ids gives next
  requests,  \* committed requests: their rule and the steps they copied
  pc,        \* worker -> how far its call has come
  call,      \* worker -> the call it serves, with the row it has read
  drawn      \* worker -> the outbox id of its event

db   == <<rule, audit, events, requests>>
vars == <<rule, audit, events, nextId, requests, pc, call, drawn>>

Row == [plan : Plans, active : BOOLEAN, version : Nat \ {0}]

ASSUME NoneAssumption == None \notin Nat \cup Plans \cup BOOLEAN \cup Row

\* What an update may ask for: None is a field left out of the body.
Ask == [plan : Plans \cup {None}, active : BOOLEAN \cup {None}]

\* What audit entries record of a row; None is what they leave out.
Snapshot == [plan : Plans \cup {None}, active : BOOLEAN \cup {None},
             version : (Nat \ {0}) \cup {None}]
AuditEntry == [action : {"created", "updated", "deactivated"},
               old : Snapshot \cup {None}, new : Snapshot]

\* An outbox row; the payload of an update carries the version.
OutboxRow == [id : Nat \ {0}, version : (Nat \ {0}) \cup {None}]

NoCall == [kind |-> "none"]
Change == {"update", "delete"}

Init ==
  /\ rule = [r \in Rules |-> None]
  /\ audit = [r \in Rules |-> <<>>]
  /\ events = [r \in Rules |-> <<>>]
  /\ nextId = 1
  /\ requests = {}
  /\ pc = [w \in Workers |-> "idle"]
  /\ call = [w \in Workers |-> NoCall]
  /\ drawn = [w \in Workers |-> 0]

\* The end of the transaction: the lock is released, the read row discarded.
EndCall(w) ==
  /\ pc' = [pc EXCEPT ![w] = "idle"]
  /\ call' = [call EXCEPT ![w] = NoCall]
  /\ drawn' = [drawn EXCEPT ![w] = 0]

\* A call comes in.
MayBegin(w) == pc[w] = "idle" /\ nextId <= MaxId

-----------------------------------------------------------------------------
(* Creating, updating and deactivating rules. *)

\* Mutant: the creation is not put on record.
CreateRuleSilently(w, r, plan) ==
  /\ MayBegin(w)
  /\ rule[r] = None
  /\ rule' = [rule EXCEPT ![r] = [plan |-> plan, active |-> TRUE, version |-> 1]]
  /\ events' = [events EXCEPT ![r] = <<[id |-> nextId, version |-> None]>>]
  /\ nextId' = nextId + 1
  /\ UNCHANGED <<audit, requests, pc, call, drawn>>

\* create_rule: nobody sees the row, its audit entry or its event before the
\* commit.  The audit entry records the steps only.
CreateRule(w, r, plan) ==
  /\ MayBegin(w)
  /\ rule[r] = None
  /\ rule' = [rule EXCEPT ![r] = [plan |-> plan, active |-> TRUE, version |-> 1]]
  /\ audit' = [audit EXCEPT ![r] = <<
        [action |-> "created", old |-> None,
         new |-> [plan |-> plan, active |-> None, version |-> None]]>>]
  /\ events' = [events EXCEPT ![r] = <<[id |-> nextId, version |-> None]>>]
  /\ nextId' = nextId + 1
  /\ UNCHANGED <<requests, pc, call, drawn>>

\* update_rule or deactivate_rule up to its flush: the SELECT and, of an update,
\* the check that the version asked for is the one read.  A call that fails the
\* check rolls back and changes nothing.
BeginChange(w, r, kind, ask) ==
  /\ MayBegin(w)
  /\ rule[r] # None
  /\ kind = "delete" => ask = [plan |-> None, active |-> FALSE]
  /\ pc' = [pc EXCEPT ![w] = "read"]
  /\ call' = [call EXCEPT ![w] = [kind |-> kind, r |-> r, ask |-> ask, read |-> rule[r]]]
  /\ UNCHANGED <<db, nextId, drawn>>

\* Mutant: the SELECT locks the row FOR SHARE.
HeldByReader(w, r) ==
  \E v \in Workers \ {w} : call[v].kind \in Change /\ call[v].r = r

\* Another transaction has updated the row and has not ended.
Held(w, r) ==
  \E v \in Workers \ {w} : pc[v] \in {"flushed", "written"} /\ call[v].r = r

\* Mutant: the row is updated no earlier than the commit.
FlushLate(w) ==
  /\ pc[w] = "read" /\ call[w].kind \in Change
  /\ pc' = [pc EXCEPT ![w] = "flushed"]
  /\ UNCHANGED <<db, nextId, call, drawn>>

\* RuleRepository.update: the UPDATE waits for the row.
Flush(w) ==
  /\ pc[w] = "read" /\ call[w].kind \in Change
  /\ ~Held(w, call[w].r)
  /\ pc' = [pc EXCEPT ![w] = "flushed"]
  /\ UNCHANGED <<db, nextId, call, drawn>>

\* The audit entry and the event are inserted; the event draws its id.
WriteEvent(w) ==
  /\ pc[w] = "flushed"
  /\ pc' = [pc EXCEPT ![w] = "written"]
  /\ drawn' = [drawn EXCEPT ![w] = nextId]
  /\ nextId' = nextId + 1
  /\ UNCHANGED <<db, call>>

Given(asked, read) == IF asked = None THEN read ELSE asked

\* The row as the session holds it after the assignments.
Changed(c) ==
  [plan    |-> Given(c.ask.plan, c.read.plan),
   active  |-> Given(c.ask.active, c.read.active),
   version |-> c.read.version + 1]

\* Mutant: the UPDATE sets every column.
WrittenWhole(now, c) == Changed(c)

\* The UPDATE sets the columns whose value differs from the one loaded.
Written(now, c) ==
  [plan    |-> IF Changed(c).plan = c.read.plan THEN now.plan ELSE Changed(c).plan,
   active  |-> IF Changed(c).active = c.read.active THEN now.active ELSE Changed(c).active,
   version |-> Changed(c).version]

\* Mutant: new_state is taken before is_active is assigned.
EntryEarly(c) ==
  [action |-> IF c.ask.active = FALSE THEN "deactivated" ELSE "updated",
   old |-> c.read, new |-> [Changed(c) EXCEPT !.active = c.read.active]]

\* Mutant: whoever deactivates records no steps.
EntryByAction(c) ==
  IF c.ask.active = FALSE
  THEN [action |-> "deactivated",
        old |-> [c.read EXCEPT !.plan = None], new |-> [Changed(c) EXCEPT !.plan = None]]
  ELSE [action |-> "updated", old |-> c.read, new |-> Changed(c)]

\* The audit entry.  An update records the whole row before and after, as the
\* session knows it; deactivate_rule records no steps.
Entry(c) ==
  IF c.kind = "update"
  THEN [action |-> IF c.ask.active = FALSE THEN "deactivated" ELSE "updated",
        old |-> c.read, new |-> Changed(c)]
  ELSE [action |-> "deactivated",
        old |-> [c.read EXCEPT !.plan = None],
        new |-> [Changed(c) EXCEPT !.plan = None]]

\* The commit makes the row, the audit entry and the event visible.
CommitChange(w) ==
  LET c == call[w] IN
  /\ pc[w] = "written"
  /\ rule' = [rule EXCEPT ![c.r] = Written(@, c)]
  /\ audit' = [audit EXCEPT ![c.r] = Append(@, Entry(c))]
  /\ events' = [events EXCEPT ![c.r] = Append(@,
        [id |-> drawn[w],
         version |-> IF c.kind = "update" THEN Changed(c).version ELSE None])]
  /\ UNCHANGED <<nextId, requests>>
  /\ EndCall(w)

-----------------------------------------------------------------------------
(* create_request as a reader of rules. *)

\* find_matching_rule: the newest active rule.
Matching(r) ==
  /\ rule[r] # None /\ rule[r].active
  /\ \A q \in Rules : rule[q] # None /\ rule[q].active => q <= r

\* The SELECT: by rule_id, whether active or not, or the rule that matches.
BeginRequest(w, r, byId) ==
  /\ MayBegin(w)
  /\ rule[r] # None
  /\ byId \/ Matching(r)
  /\ pc' = [pc EXCEPT ![w] = "read"]
  /\ call' = [call EXCEPT ![w] = [kind |-> "request", r |-> r, plan |-> rule[r].plan]]
  /\ UNCHANGED <<db, nextId, drawn>>

\* The request and the steps copied from what was read, with the commit.
CommitRequest(w) ==
  /\ pc[w] = "read" /\ call[w].kind = "request"
  /\ requests' = requests \cup {[rule |-> call[w].r, plan |-> call[w].plan]}
  /\ UNCHANGED <<rule, audit, events, nextId>>
  /\ EndCall(w)

-----------------------------------------------------------------------------

\* An exception, a lost connection, the end of the process: rollback.  A drawn id
\* is not given back.
Abort(w) ==
  /\ pc[w] # "idle"
  /\ EndCall(w)
  /\ UNCHANGED <<db, nextId>>

Begin(w) ==
  \E r \in Rules :
    \/ \E plan \in Plans : CreateRule(w, r, plan)
    \/ \E kind \in Change, ask \in Ask : BeginChange(w, r, kind, ask)
    \/ \E byId \in BOOLEAN : BeginRequest(w, r, byId)

Step(w) == Flush(w) \/ WriteEvent(w) \/ CommitChange(w) \/ CommitRequest(w)

\* Nobody calls any more: the only way the system may stop.
Quiet == (\A w \in Workers : pc[w] = "idle") /\ UNCHANGED vars

Next == (\E w \in Workers : Begin(w) \/ Step(w) \/ Abort(w)) \/ Quiet

Spec == Init /\ [][Next]_vars

\* A statement that need not wait is run, and the row lock is given first come,
\* first served.
FairSpec == Spec /\ \A w \in Workers : SF_vars(Step(w))

-----------------------------------------------------------------------------
(* Properties. *)

\* Types; a rule has a row exactly when its creation is on record, and only a
\* call that has inserted its event has drawn an id.
TypeOK ==
  /\ rule \in [Rules -> Row \cup {None}]
  /\ audit \in [Rules -> Seq(AuditEntry)]
  /\ events \in [Rules -> Seq(OutboxRow)]
  /\ nextId \in Nat \ {0}
  /\ requests \subseteq [rule : Rules, plan : Plans]
  /\ pc \in [Workers -> {"idle", "read", "flushed", "written"}]
  /\ call \in [Workers -> {NoCall}
       \cup [kind : Change, r : Rules, ask : Ask, read : Row]
       \cup [kind : {"request"}, r : Rules, plan : Plans]]
  /\ drawn \in [Workers -> Nat]
  /\ \A r \in Rules : rule[r] = None <=> audit[r] = <<>>
  /\ \A w \in Workers :
       /\ pc[w] = "idle" <=> call[w] = NoCall
       /\ pc[w] \in {"flushed", "written"} => call[w].kind \in Change
       /\ pc[w] # "idle" => rule[call[w].r] # None
       /\ pc[w] # "written" <=> drawn[w] = 0

\* However calls overlap, a rule's steps and its activity change only to what the
\* call that commits has asked for: an update of one does not undo an overlapping
\* update of the other, and a deactivated rule comes back only when asked for.
ColumnsAsAsked ==
  [][\A r \in Rules : rule[r] # None /\ rule'[r] # rule[r] =>
       \E w \in Workers :
         /\ pc[w] = "written" /\ pc'[w] = "idle" /\ call[w].r = r
         /\ rule'[r].plan \in {rule[r].plan, call[w].ask.plan}
         /\ rule'[r].active \in {rule[r].active, call[w].ask.active}]_vars

\* Every change of a rule has one event, and the ids of a rule's events follow the
\* order of the changes: a poller that sends by id tells them in order.
EventOrder ==
  \A r \in Rules :
    /\ Len(events[r]) = Len(audit[r])
    /\ \A i, j \in 1 .. Len(events[r]) : i < j => events[r][i].id < events[r][j].id
    /\ \A i \in 1 .. Len(events[r]) : events[r][i].version \in {None, audit[r][i].new.version}

\* The i-th change on record made version i.
Continuous(log) == \A i \in 2 .. Len(log) : log[i].new.version = i

\* Two records of a row agree on what both of them hold.
Agree(s, t) ==
  /\ s.plan = t.plan \/ None \in {s.plan, t.plan}
  /\ s.active = t.active \/ None \in {s.active, t.active}
  /\ s.version = t.version \/ None \in {s.version, t.version}

\* As long as the recorded versions count up without a gap or a repetition, the
\* audit log is the history of the rule: each entry starts where the one before it
\* ended, and the last one tells the row.
AuditTellsRow ==
  \A r \in Rules : rule[r] # None /\ Continuous(audit[r]) =>
    /\ rule[r].version = Len(audit[r])
    /\ Agree(audit[r][Len(audit[r])].new, rule[r])
    /\ \A i \in 2 .. Len(audit[r]) : Agree(audit[r][i - 1].new, audit[r][i].old)

\* Whenever a request is made, its steps are steps its rule is on record for,
\* although the rule may have been changed or deactivated since it was read.
PlansOnRecord ==
  \A q \in requests : \E i \in 1 .. Len(audit[q.rule]) : audit[q.rule][i].new.plan = q.plan

\* Every call ends: no row lock is waited for for ever.
EveryCallEnds == \A w \in Workers : pc[w] # "idle" ~> pc[w] = "idle"

\* A stale update is refused: the version an update was given is the version it
\* replaces.
StaleUpdatesRefused ==
  [][\A w \in Workers : CommitChange(w) /\ call[w].kind = "update" =>
       rule[call[w].r].version = call[w].read.version]_vars

=============================================================================
