------------------------ MODULE IdempotencyMiddleware ------------------------
(***************************************************************************)
(* POST requests that carry an Idempotency-Key.  A call looks its key up,  *)
(* claims it in one transaction, runs the handler in the handler's own     *)
(* transaction and stores the answer in a third.  A call is one HTTP       *)
(* attempt; a retry is another call with the same key.                     *)
(*                                                                         *)
(* The flush of the claim and its commit are one step: in between only     *)
(* claims of the same key wait.  Two calls share an advisory lock when one *)
(* process hashes one key: hash() of a string differs from process to      *)
(* process, and a collision of two keys would only add a wait.             *)
(***************************************************************************)
CONSTANTS
  Calls,
  Keys,         \* Idempotency-Key
  Workspaces,   \* X-Workspace-Id
  Endpoints,    \* method and path
  Processes,    \* the server processes
  Requests,     \* the requests that clients send, each to one process
  None

ASSUME CallsAssumption ==
  /\ None \notin Calls \cup {"busy", "mismatch", "clash", "raised"}
  /\ Calls \cap {"busy", "mismatch", "clash", "raised"} = {}
ASSUME RequestsAssumption ==
  Requests \subseteq
    [key : Keys, workspace : Workspaces, endpoint : Endpoints, process : Processes]

VARIABLES
  req,       \* call -> what it carries, None before it arrives
  pc,        \* call -> how far dispatch has come
  row,       \* key -> the call that inserted its row of idempotency_keys, or None
  stored,    \* calls whose row has its answer: is_processing is false
  effects,   \* calls whose handler has committed
  reply      \* call -> what the client got: a refusal, or the call whose answer it is

vars == <<req, pc, row, stored, effects, reply>>

Init ==
  /\ req = [c \in Calls |-> None]
  /\ pc = [c \in Calls |-> "idle"]
  /\ row = [k \in Keys |-> None]
  /\ stored = {}
  /\ effects = {}
  /\ reply = [c \in Calls |-> None]

-----------------------------------------------------------------------------
(* Looking the key up. *)

Receive(c, r) ==
  /\ pc[c] = "idle"
  /\ req' = [req EXCEPT ![c] = r]
  /\ pc' = [pc EXCEPT ![c] = "received"]
  /\ UNCHANGED <<row, stored, effects, reply>>

\* dispatch returns: the call is over.
Answer(c, what) ==
  /\ pc' = [pc EXCEPT ![c] = "ended"]
  /\ reply' = [reply EXCEPT ![c] = what]

\* _get_existing_key: the call whose row has this key and workspace.
Existing(c) ==
  LET d == row[req[c].key] IN
  IF d # None /\ req[d].workspace = req[c].workspace THEN d ELSE None

\* What the row found is answered with.
Found(c, d) ==
  IF d \notin stored THEN "busy"
  ELSE IF req[d].endpoint # req[c].endpoint THEN "mismatch" ELSE d

\* Mutant: the endpoint is not compared.
LookupAnyEndpoint(c) ==
  LET d == Existing(c) IN
  /\ pc[c] = "received"
  /\ IF d = None
       THEN pc' = [pc EXCEPT ![c] = "looked"] /\ UNCHANGED reply
       ELSE Answer(c, IF d \in stored THEN d ELSE "busy")
  /\ UNCHANGED <<req, row, stored, effects>>

\* Mutant: an answer is sent and the call goes on.
LookupGoesOn(c) ==
  LET d == Existing(c) IN
  /\ pc[c] = "received"
  /\ pc' = [pc EXCEPT ![c] = "looked"]
  /\ reply' = IF d = None THEN reply ELSE [reply EXCEPT ![c] = Found(c, d)]
  /\ UNCHANGED <<req, row, stored, effects>>

Lookup(c) ==
  LET d == Existing(c) IN
  /\ pc[c] = "received"
  /\ IF d = None
       THEN pc' = [pc EXCEPT ![c] = "looked"] /\ UNCHANGED reply
       ELSE Answer(c, Found(c, d))
  /\ UNCHANGED <<req, row, stored, effects>>

-----------------------------------------------------------------------------
(* Claiming the key. *)

SameLock(c, d) ==
  d # c /\ pc[d] # "idle" /\ req[d].process = req[c].process /\ req[d].key = req[c].key

\* Mutant: pg_advisory_lock, which the end of the transaction does not release.
LockForSession(c) ==
  /\ pc[c] = "looked"
  /\ \A d \in Calls : SameLock(c, d) => pc[d] \in {"received", "looked"}
  /\ pc' = [pc EXCEPT ![c] = "locked"]
  /\ UNCHANGED <<req, row, stored, effects, reply>>

\* pg_advisory_xact_lock; the key is not looked up again.
Lock(c) ==
  /\ pc[c] = "looked"
  /\ \A d \in Calls : SameLock(c, d) => pc[d] # "locked"
  /\ pc' = [pc EXCEPT ![c] = "locked"]
  /\ UNCHANGED <<req, row, stored, effects, reply>>

\* Mutant: an upsert.
InsertOver(c) ==
  /\ pc[c] = "locked"
  /\ row' = [row EXCEPT ![req[c].key] = c]
  /\ pc' = [pc EXCEPT ![c] = "claimed"]
  /\ UNCHANGED <<req, stored, effects, reply>>

\* The INSERT and the commit.  The primary key is the key alone: when any row has
\* it the transaction fails and the call ends with an internal error.
Insert(c) ==
  /\ pc[c] = "locked"
  /\ IF row[req[c].key] = None
       THEN /\ row' = [row EXCEPT ![req[c].key] = c]
            /\ pc' = [pc EXCEPT ![c] = "claimed"]
            /\ UNCHANGED reply
       ELSE Answer(c, "clash") /\ UNCHANGED row
  /\ UNCHANGED <<req, stored, effects>>

-----------------------------------------------------------------------------
(* Running the handler and storing its answer. *)

\* call_next returns a response: the handler has committed, or refused.
Handle(c) ==
  /\ pc[c] = "claimed"
  /\ effects' \in {effects, effects \cup {c}}
  /\ pc' = [pc EXCEPT ![c] = "handled"]
  /\ UNCHANGED <<req, row, stored, reply>>

\* call_next raises; the handler's commit may have gone through.  The row stays
\* as it is, in processing.
Raise(c) ==
  /\ pc[c] = "claimed"
  /\ effects' \in {effects, effects \cup {c}}
  /\ Answer(c, "raised")
  /\ UNCHANGED <<req, row, stored>>

Store(c) ==
  /\ pc[c] = "handled"
  /\ stored' = stored \cup {c}
  /\ pc' = [pc EXCEPT ![c] = "stored"]
  /\ UNCHANGED <<req, row, effects, reply>>

Respond(c) ==
  /\ pc[c] = "stored"
  /\ Answer(c, c)
  /\ UNCHANGED <<req, row, stored, effects>>

\* The process dies, or the database cannot be reached: the open transaction is
\* rolled back and the client gets no answer.
Die(c) ==
  /\ pc[c] \notin {"idle", "ended"}
  /\ pc' = [pc EXCEPT ![c] = "ended"]
  /\ UNCHANGED <<req, row, stored, effects, reply>>

\* Mutant: a row is deleted under the call that works on it.
CleanupEarly(k) ==
  /\ row[k] # None
  /\ row' = [row EXCEPT ![k] = None]
  /\ UNCHANGED <<req, pc, stored, effects, reply>>

\* cleanup_expired_keys deletes a row whose time is up; no call lasts that long.
Cleanup(k) ==
  /\ row[k] # None /\ pc[row[k]] = "ended"
  /\ row' = [row EXCEPT ![k] = None]
  /\ UNCHANGED <<req, pc, stored, effects, reply>>

Advance(c) ==
  Lookup(c) \/ Lock(c) \/ Insert(c) \/ Handle(c) \/ Raise(c) \/ Store(c) \/ Respond(c)

Next ==
  \/ \E c \in Calls : (\E r \in Requests : Receive(c, r)) \/ Advance(c) \/ Die(c)
  \/ \E k \in Keys : Cleanup(k)

Spec == Init /\ [][Next]_vars

\* A server task goes on as long as it can.
FairSpec == Spec /\ \A c \in Calls : WF_vars(Advance(c))

-----------------------------------------------------------------------------
(* Properties. *)

Steps == {"idle", "received", "looked", "locked", "claimed", "handled", "stored", "ended"}

\* Types; only a call that is over has replied.
TypeOK ==
  /\ req \in [Calls -> Requests \cup {None}]
  /\ pc \in [Calls -> Steps]
  /\ row \in [Keys -> Calls \cup {None}]
  /\ stored \subseteq Calls /\ effects \subseteq Calls
  /\ reply \in [Calls -> Calls \cup {None, "busy", "mismatch", "clash", "raised"}]
  /\ \A c \in Calls : /\ pc[c] # "idle" => req[c] \in Requests
                      /\ reply[c] # None => pc[c] = "ended"

Working(c) == pc[c] \in {"claimed", "handled", "stored"}

\* The row of a key belongs to a call that carried it and got past the claim; a
\* call between its claim and its reply has its row.
KeyHeld ==
  /\ \A k \in Keys : row[k] # None =>
       (Working(row[k]) \/ pc[row[k]] = "ended") /\ req[row[k]].key = k
  /\ \A c \in Calls : Working(c) => row[req[c].key] = c

\* An answer that is replayed is the answer to the same request.
ReplayFaithful ==
  \A c \in Calls : reply[c] \in Calls =>
    LET r == req[c]  s == req[reply[c]] IN
    s.key = r.key /\ s.workspace = r.workspace /\ s.endpoint = r.endpoint

\* The middleware keeps the promise of a key: while its row is there one call acts
\* on it and all are told what that call answered.
Once == INSTANCE OncePerKey WITH
  holder   <- row,
  acted    <- effects,
  answered <- stored,
  told     <- [c \in Calls |-> IF reply[c] \in Calls THEN reply[c] ELSE None]
ImplementsOnce == Once!OSpec

\* No call waits for ever, for the lock or for another call.
EveryCallEnds == \A c \in Calls : pc[c] = "received" ~> pc[c] = "ended"

\* A call with a key acts, or is told what the documents list: the stored answer,
\* a mismatch, or that the request is in process.  It is never told that its key
\* is already in the table, whoever put it there and when.
NoKeyClash == \A c \in Calls : reply[c] # "clash"

=============================================================================
