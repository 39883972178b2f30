------------------------- MODULE IdempotencyProofs -------------------------
(***************************************************************************)
(* IdempotencyMiddleware keeps the promise of OncePerKey, for any number   *)
(* of calls, keys and processes, and replays an answer to its own request  *)
(* only.  The advisory lock is not needed for it: the primary key is.      *)
(* When the calls with a key are from one workspace and do not overlap     *)
(* before their claims, none of them meets another's row.                  *)
(***************************************************************************)
EXTENDS IdempotencyMiddleware, TLAPS

\* How far a call with an effect, or with a stored answer, has come; an answer
\* that was given is stored.
Progress ==
  /\ \A c \in effects : pc[c] \in {"handled", "stored", "ended"}
  /\ \A c \in stored : pc[c] \in {"stored", "ended"}
  /\ \A c \in Calls : pc[c] = "stored" => c \in stored
  /\ \A c \in Calls : reply[c] \in Calls => reply[c] \in stored

Inv == TypeOK /\ KeyHeld /\ Progress /\ ReplayFaithful

\* The first state satisfies the invariant.
LEMMA InvInit == Init => Inv
BY CallsAssumption
   DEF Init, Inv, TypeOK, KeyHeld, Progress, ReplayFaithful, Steps, Working

-----------------------------------------------------------------------------
(* The answer of a lookup. *)

\* The row that a lookup finds is that of a call with the same key and workspace.
LEMMA FoundRow ==
  ASSUME Inv, NEW c \in Calls, pc[c] # "idle", Existing(c) # None
  PROVE  /\ Existing(c) \in Calls
         /\ req[c] \in Requests /\ req[c].key \in Keys
         /\ row[req[c].key] = Existing(c)
         /\ req[Existing(c)].key = req[c].key
         /\ req[Existing(c)].workspace = req[c].workspace
BY RequestsAssumption DEF Existing, Inv, TypeOK, KeyHeld

\* An answered lookup replays the row's call, or refuses.
LEMMA LookupAnswers ==
  ASSUME Inv, NEW c \in Calls, Lookup(c), Existing(c) # None
  PROVE  /\ Answer(c, Found(c, Existing(c)))
         /\ \/ Found(c, Existing(c)) \in {"busy", "mismatch"}
            \/ /\ Found(c, Existing(c)) = Existing(c)
               /\ Existing(c) \in stored
               /\ req[Existing(c)].endpoint = req[c].endpoint
BY DEF Lookup, Found

-----------------------------------------------------------------------------
(* Every step keeps the invariant. *)

\* The arrival of a call.
LEMMA ReceiveKeeps ==
  ASSUME Inv, NEW c \in Calls, NEW r \in Requests, Receive(c, r)
  PROVE  Inv'
<1>1. /\ pc[c] = "idle" /\ req' = [req EXCEPT ![c] = r]
      /\ pc' = [pc EXCEPT ![c] = "received"]
      /\ UNCHANGED <<row, stored, effects, reply>>
  BY DEF Receive
<1>2. TypeOK'
  BY <1>1 DEF Inv, TypeOK, Steps
<1>3. KeyHeld'
  BY <1>1, CallsAssumption DEF Inv, TypeOK, KeyHeld, Working
<1>4. Progress'
  BY <1>1 DEF Inv, TypeOK, Progress
<1>5. reply[c] = None /\ \A d \in Calls : reply[d] # c
  BY <1>1 DEF Inv, TypeOK, Progress
<1>6. ReplayFaithful'
  BY <1>1, <1>5, CallsAssumption DEF Inv, TypeOK, ReplayFaithful
<1>7. QED
  BY <1>2, <1>3, <1>4, <1>6 DEF Inv

\* A call that is over: it has been answered with a refusal or with the stored
\* answer of its own request, nothing else changes but its handler's effect.
LEMMA AnswerKeeps ==
  ASSUME Inv, NEW c \in Calls, pc[c] \notin {"idle", "ended"},
         NEW what \in Calls \cup {"busy", "mismatch", "clash", "raised"},
         Answer(c, what),
         what \in Calls => /\ what \in stored
                           /\ req[what].key = req[c].key
                           /\ req[what].workspace = req[c].workspace
                           /\ req[what].endpoint = req[c].endpoint,
         effects' \in {effects, effects \cup {c}},
         UNCHANGED <<req, row, stored>>
  PROVE  Inv'
<1>1. /\ pc' = [pc EXCEPT ![c] = "ended"]
      /\ reply' = [reply EXCEPT ![c] = what]
  BY DEF Answer
<1>2. TypeOK'
  BY <1>1 DEF Inv, TypeOK, Steps
<1>3. KeyHeld'
  BY <1>1 DEF Inv, TypeOK, KeyHeld, Working
<1>4. Progress'
  BY <1>1 DEF Inv, TypeOK, Progress
<1>5. ReplayFaithful'
  BY <1>1 DEF Inv, TypeOK, ReplayFaithful
<1>6. QED
  BY <1>2, <1>3, <1>4, <1>5 DEF Inv

\* A lookup, which goes on or answers.
LEMMA LookupKeeps ==
  ASSUME Inv, NEW c \in Calls, Lookup(c)
  PROVE  Inv'
<1>1. pc[c] = "received" /\ UNCHANGED <<req, row, stored, effects>>
  BY DEF Lookup
<1>2. CASE Existing(c) # None
  <2>1. PICK what : what = Found(c, Existing(c))
    OBVIOUS
  <2>2. /\ Answer(c, what) /\ what \in Calls \cup {"busy", "mismatch", "clash", "raised"}
        /\ what \in Calls => /\ what \in stored
                             /\ req[what].key = req[c].key
                             /\ req[what].workspace = req[c].workspace
                             /\ req[what].endpoint = req[c].endpoint
    BY <1>1, <1>2, <2>1, FoundRow, LookupAnswers, CallsAssumption
  <2>3. QED
    BY <1>1, <2>2, AnswerKeeps
<1>3. CASE Existing(c) = None
  <2>1. pc' = [pc EXCEPT ![c] = "looked"] /\ UNCHANGED reply
    BY <1>3 DEF Lookup
  <2>2. QED
    BY <1>1, <2>1
       DEF Inv, TypeOK, Steps, KeyHeld, Working, Progress, ReplayFaithful
<1>4. QED
  BY <1>2, <1>3

\* The lock and the claim.
LEMMA ClaimKeeps ==
  ASSUME Inv, NEW c \in Calls, Lock(c) \/ Insert(c)
  PROVE  Inv'
<1>1. CASE Lock(c)
  BY <1>1 DEF Lock, Inv, TypeOK, Steps, KeyHeld, Working, Progress, ReplayFaithful
<1>2. CASE Insert(c) /\ row[req[c].key] # None
  <2>1. Answer(c, "clash") /\ UNCHANGED <<req, row, stored, effects>> /\ pc[c] = "locked"
    BY <1>2 DEF Insert
  <2>2. QED
    BY <2>1, AnswerKeeps, CallsAssumption
<1>3. CASE Insert(c) /\ row[req[c].key] = None
  <2>1. /\ pc[c] = "locked" /\ req[c] \in Requests /\ req[c].key \in Keys
        /\ row' = [row EXCEPT ![req[c].key] = c]
        /\ pc' = [pc EXCEPT ![c] = "claimed"]
        /\ UNCHANGED <<req, stored, effects, reply>>
    BY <1>3, RequestsAssumption DEF Insert, Inv, TypeOK
  <2>2. TypeOK' /\ Progress' /\ ReplayFaithful'
    BY <2>1 DEF Inv, TypeOK, Steps, Progress, ReplayFaithful
  <2>3. \A d \in Calls : Working(d) => req[d].key # req[c].key
    BY <1>3, CallsAssumption DEF Inv, KeyHeld
  <2>4. KeyHeld'
    BY <2>1, <2>3 DEF Inv, TypeOK, KeyHeld, Working
  <2>5. QED
    BY <2>2, <2>4 DEF Inv
<1>4. QED
  BY <1>1, <1>2, <1>3

\* The handler and what follows it.
LEMMA HandleKeeps ==
  ASSUME Inv, NEW c \in Calls, Handle(c) \/ Raise(c) \/ Store(c) \/ Respond(c) \/ Die(c)
  PROVE  Inv'
<1>1. CASE Handle(c)
  BY <1>1 DEF Handle, Inv, TypeOK, Steps, KeyHeld, Working, Progress, ReplayFaithful
<1>2. CASE Raise(c)
  BY <1>2, AnswerKeeps, CallsAssumption DEF Raise
<1>3. CASE Store(c)
  BY <1>3 DEF Store, Inv, TypeOK, Steps, KeyHeld, Working, Progress, ReplayFaithful
<1>4. CASE Respond(c)
  <2>1. c \in stored
    BY <1>4 DEF Respond, Inv, Progress
  <2>2. QED
    BY <1>4, <2>1, AnswerKeeps DEF Respond
<1>5. CASE Die(c)
  BY <1>5 DEF Die, Inv, TypeOK, Steps, KeyHeld, Working, Progress, ReplayFaithful
<1>6. QED
  BY <1>1, <1>2, <1>3, <1>4, <1>5

\* The deletion of an expired row.
LEMMA CleanupKeeps ==
  ASSUME Inv, NEW k \in Keys, Cleanup(k)
  PROVE  Inv'
<1>1. /\ row' = [row EXCEPT ![k] = None] /\ pc[row[k]] = "ended"
      /\ UNCHANGED <<req, pc, stored, effects, reply>>
  BY DEF Cleanup
<1>2. TypeOK' /\ Progress' /\ ReplayFaithful'
  BY <1>1 DEF Inv, TypeOK, Progress, ReplayFaithful
<1>3. KeyHeld'
  BY <1>1 DEF Inv, TypeOK, KeyHeld, Working
<1>4. QED
  BY <1>2, <1>3 DEF Inv

\* The invariant holds in every reachable state.
LEMMA Invariant == Spec => []Inv
<1>1. Inv /\ [Next]_vars => Inv'
  <2> SUFFICES ASSUME Inv, [Next]_vars PROVE Inv'
    OBVIOUS
  <2>1. CASE UNCHANGED vars
    BY <2>1 DEF vars, Inv, TypeOK, KeyHeld, Working, Progress, ReplayFaithful
  <2>2. QED
    BY <2>1, ReceiveKeeps, LookupKeeps, ClaimKeeps, HandleKeeps, CleanupKeeps
       DEF Next, Advance
<1>2. QED
  BY <1>1, InvInit, PTL DEF Spec

\* Every reachable state is well typed, and only a call that is over has replied.
THEOREM MiddlewareTypeCorrect == Spec => []TypeOK
BY Invariant, PTL DEF Inv

\* From its claim to its reply a call holds the row of its key.
THEOREM KeyIsHeld == Spec => []KeyHeld
BY Invariant, PTL DEF Inv

\* An answer is replayed to the same request only.
THEOREM ReplaysAreFaithful == Spec => []ReplayFaithful
BY Invariant, PTL DEF Inv

-----------------------------------------------------------------------------
(* Refinement. *)

\* A call that is over: told the holder's answer, or nothing.
LEMMA AnswerTells ==
  ASSUME Inv, NEW c \in Calls, pc[c] \notin {"idle", "ended"},
         NEW what \in Calls \cup {"busy", "mismatch", "clash", "raised"},
         Answer(c, what), UNCHANGED <<row, stored, effects>>,
         what \in Calls => what \in stored /\ req[c].key \in Keys /\ row[req[c].key] = what
  PROVE  Once!ONext \/ UNCHANGED Once!ovars
<1>1. reply' = [reply EXCEPT ![c] = what] /\ reply[c] = None
  BY DEF Answer, Inv, TypeOK
<1>2. CASE what \in Calls
  <2>1. [d \in Calls |-> IF reply'[d] \in Calls THEN reply'[d] ELSE None]
        = [[d \in Calls |-> IF reply[d] \in Calls THEN reply[d] ELSE None]
             EXCEPT ![c] = what]
    BY <1>1, <1>2 DEF Inv, TypeOK
  <2>2. Once!Tell(req[c].key, c, what)
    BY <1>1, <1>2, <2>1, CallsAssumption DEF Once!Tell
  <2>3. QED
    BY <1>2, <2>2 DEF Once!ONext
<1>3. CASE what \notin Calls
  <2>1. [d \in Calls |-> IF reply'[d] \in Calls THEN reply'[d] ELSE None]
        = [d \in Calls |-> IF reply[d] \in Calls THEN reply[d] ELSE None]
    BY <1>1, <1>3, CallsAssumption DEF Inv, TypeOK
  <2>2. QED
    BY <2>1 DEF Once!ovars
<1>4. QED
  BY <1>2, <1>3

\* A call that works on its key acts, keeps its answer, or moves on.
LEMMA WorkIsOnce ==
  ASSUME Inv, NEW c \in Calls, Handle(c) \/ Store(c)
  PROVE  Once!ONext \/ UNCHANGED Once!ovars
<1>1. /\ Working(c) /\ req[c].key \in Keys /\ row[req[c].key] = c
      /\ UNCHANGED <<row, reply>>
  BY RequestsAssumption DEF Handle, Store, Working, Inv, TypeOK, KeyHeld
<1>2. CASE Handle(c)
  <2>1. c \notin effects \cup stored
    BY <1>2 DEF Handle, Inv, Progress
  <2>2. Once!Act(req[c].key, c) \/ UNCHANGED Once!ovars
    BY <1>1, <1>2, <2>1 DEF Handle, Once!Act, Once!ovars
  <2>3. QED
    BY <1>1, <2>2 DEF Once!ONext
<1>3. CASE Store(c)
  <2>1. Once!Keep(req[c].key, c)
    BY <1>1, <1>3 DEF Store, Once!Keep
  <2>2. QED
    BY <1>1, <2>1 DEF Once!ONext
<1>4. QED
  BY <1>2, <1>3

\* A lookup tells the holder's answer, or nothing.
LEMMA LookupTells ==
  ASSUME Inv, NEW c \in Calls, Lookup(c)
  PROVE  Once!ONext \/ UNCHANGED Once!ovars
<1>1. pc[c] = "received" /\ UNCHANGED <<req, row, stored, effects>>
  BY DEF Lookup
<1>2. CASE Existing(c) # None
  <2>1. PICK what : what = Found(c, Existing(c))
    OBVIOUS
  <2>2. /\ Answer(c, what) /\ what \in Calls \cup {"busy", "mismatch", "clash", "raised"}
        /\ what \in Calls => what \in stored /\ req[c].key \in Keys /\ row[req[c].key] = what
    BY <1>1, <1>2, <2>1, FoundRow, LookupAnswers, CallsAssumption
  <2>3. QED
    BY <1>1, <2>2, AnswerTells
<1>3. CASE Existing(c) = None
  BY <1>1, <1>3 DEF Lookup, Once!ovars
<1>4. QED
  BY <1>2, <1>3

\* A claim takes a key that nobody holds, or tells nothing.
LEMMA InsertTakes ==
  ASSUME Inv, NEW c \in Calls, Insert(c)
  PROVE  Once!ONext \/ UNCHANGED Once!ovars
<1>1. /\ pc[c] = "locked" /\ UNCHANGED <<stored, effects>>
      /\ req[c].key \in Keys
  BY RequestsAssumption DEF Insert, Inv, TypeOK
<1>2. CASE row[req[c].key] = None
  <2>1. Once!Take(req[c].key, c)
    BY <1>1, <1>2 DEF Insert, Once!Take
  <2>2. QED
    BY <1>1, <2>1 DEF Once!ONext
<1>3. CASE row[req[c].key] # None
  <2>1. Answer(c, "clash") /\ UNCHANGED row
    BY <1>3 DEF Insert
  <2>2. QED
    BY <1>1, <2>1, AnswerTells, CallsAssumption
<1>4. QED
  BY <1>2, <1>3

\* The reply tells the call's own answer, a failure tells nothing.
LEMMA EndTells ==
  ASSUME Inv, NEW c \in Calls, Respond(c) \/ Raise(c)
  PROVE  Once!ONext \/ UNCHANGED Once!ovars
<1>1. /\ Working(c) /\ req[c].key \in Keys /\ row[req[c].key] = c
      /\ UNCHANGED <<row, stored>>
  BY RequestsAssumption DEF Respond, Raise, Working, Inv, TypeOK, KeyHeld
<1>2. CASE Respond(c)
  <2>1. pc[c] = "stored" /\ c \in stored /\ Answer(c, c) /\ UNCHANGED effects
    BY <1>2 DEF Respond, Inv, Progress
  <2>2. QED
    BY <1>1, <2>1, AnswerTells
<1>3. CASE Raise(c) /\ UNCHANGED effects
  <2>1. pc[c] = "claimed" /\ Answer(c, "raised")
    BY <1>3 DEF Raise
  <2>2. QED
    BY <1>1, <1>3, <2>1, AnswerTells, CallsAssumption
<1>4. CASE Raise(c) /\ effects' # effects
  <2>1. /\ c \notin effects \cup stored
        /\ effects' = effects \cup {c}
        /\ reply' = [reply EXCEPT ![c] = "raised"] /\ reply[c] = None
    BY <1>4 DEF Raise, Answer, Inv, TypeOK, Progress
  <2>2. [d \in Calls |-> IF reply'[d] \in Calls THEN reply'[d] ELSE None]
        = [d \in Calls |-> IF reply[d] \in Calls THEN reply[d] ELSE None]
    BY <2>1, CallsAssumption DEF Inv, TypeOK
  <2>3. Once!Act(req[c].key, c)
    BY <1>1, <2>1, <2>2 DEF Once!Act
  <2>4. QED
    BY <1>1, <2>3 DEF Once!ONext
<1>5. QED
  BY <1>2, <1>3, <1>4

\* While the row of a key is there one call acts on it, and whoever is told an
\* answer is told the answer of that call: every step of the middleware is a step
\* of OncePerKey.
THEOREM MiddlewareImplementsOnce == Spec => ImplementsOnce
<1>1. Init => Once!OInit
  BY CallsAssumption DEF Init, Once!OInit
<1>2. Inv /\ [Next]_vars => [Once!ONext]_(Once!ovars)
  <2> SUFFICES ASSUME Inv, [Next]_vars
               PROVE  Once!ONext \/ UNCHANGED Once!ovars
    OBVIOUS
  <2>1. ASSUME NEW c \in Calls, NEW r \in Requests, Receive(c, r)
        PROVE  UNCHANGED Once!ovars
    BY <2>1 DEF Receive, Once!ovars
  <2>2. ASSUME NEW c \in Calls, Lock(c) \/ Die(c)
        PROVE  UNCHANGED Once!ovars
    BY <2>2 DEF Lock, Die, Once!ovars
  <2>3. ASSUME NEW k \in Keys, Cleanup(k)
        PROVE  Once!ONext
    <3>1. Once!Forget(k)
      BY <2>3 DEF Cleanup, Once!Forget
    <3>2. QED
      BY <3>1 DEF Once!ONext
  <2>4. CASE UNCHANGED vars
    BY <2>4 DEF vars, Once!ovars
  <2>5. QED
    BY <2>1, <2>2, <2>3, <2>4, LookupTells, InsertTakes, WorkIsOnce, EndTells
       DEF Next, Advance
<1>3. QED
  BY <1>1, <1>2, Invariant, PTL DEF Spec, ImplementsOnce, Once!OSpec

-----------------------------------------------------------------------------
(* Keys that do not clash. *)

\* A key is used by one workspace only, and no call looks its key up while another
\* with the key is between its own lookup and its claim.
KeysApart ==
  \A c, d \in Calls : c # d /\ pc[c] # "idle" /\ pc[d] # "idle" /\ req[c].key = req[d].key =>
    /\ req[c].workspace = req[d].workspace
    /\ ~(pc[c] \in {"looked", "locked"} /\ pc[d] \in {"looked", "locked"})

\* What a lookup has found is still so when the claim is inserted.
ClashInv ==
  /\ \A c \in Calls : pc[c] \in {"looked", "locked"} => row[req[c].key] = None
  /\ NoKeyClash

\* The row of a key is visible to every call with the key.
LEMMA ApartSeesRow ==
  ASSUME Inv, KeysApart, NEW c \in Calls, pc[c] = "received", Existing(c) = None
  PROVE  row[req[c].key] = None
<1>1. req[c] \in Requests /\ req[c].key \in Keys
  BY RequestsAssumption DEF Inv, TypeOK
<1>2. ASSUME row[req[c].key] # None
      PROVE  FALSE
  <2>1. PICK d \in Calls : row[req[c].key] = d
    BY <1>1, <1>2 DEF Inv, TypeOK
  <2>2. /\ Working(d) \/ pc[d] = "ended"
        /\ req[d].key = req[c].key
    BY <1>1, <1>2, <2>1 DEF Inv, KeyHeld
  <2>3. req[d].workspace = req[c].workspace
    BY <2>2 DEF KeysApart, Working
  <2>4. QED
    BY <1>2, <2>1, <2>3 DEF Existing
<1>3. QED
  BY <1>2

\* A lookup that goes on has found no row; one that answers tells no clash.
LEMMA LookupAvoidsClash ==
  ASSUME Inv, KeysApart, ClashInv, NEW c \in Calls, Lookup(c)
  PROVE  ClashInv'
<1>1. pc[c] = "received" /\ UNCHANGED <<req, row>>
  BY DEF Lookup
<1>2. CASE Existing(c) = None
  <2>1. pc' = [pc EXCEPT ![c] = "looked"] /\ UNCHANGED reply
    BY <1>2 DEF Lookup
  <2>2. row[req[c].key] = None
    BY <1>1, <1>2, ApartSeesRow
  <2>3. QED
    BY <1>1, <2>1, <2>2 DEF Inv, TypeOK, ClashInv, NoKeyClash
<1>3. CASE Existing(c) # None
  <2>1. PICK what : what = Found(c, Existing(c))
    OBVIOUS
  <2>2. Answer(c, what) /\ what # "clash"
    BY <1>1, <1>3, <2>1, FoundRow, LookupAnswers, CallsAssumption
  <2>3. QED
    BY <1>1, <2>2 DEF Answer, Inv, TypeOK, ClashInv, NoKeyClash
<1>4. QED
  BY <1>2, <1>3

\* The claim goes through, and is of a key that no other call is about to claim.
LEMMA InsertAvoidsClash ==
  ASSUME Inv, KeysApart, ClashInv, NEW c \in Calls, Insert(c)
  PROVE  ClashInv'
<1>1. /\ pc[c] = "locked" /\ req[c].key \in Keys
      /\ UNCHANGED <<req, reply>>
      /\ row' = [row EXCEPT ![req[c].key] = c]
      /\ pc' = [pc EXCEPT ![c] = "claimed"]
  BY RequestsAssumption DEF Insert, ClashInv, Inv, TypeOK
<1>2. ASSUME NEW d \in Calls, pc'[d] \in {"looked", "locked"}
      PROVE  row'[req'[d].key] = None
  <2>1. d # c /\ pc[d] \in {"looked", "locked"}
    BY <1>1, <1>2 DEF Inv, TypeOK
  <2>2. req[d].key # req[c].key
    BY <1>1, <2>1 DEF KeysApart
  <2>3. QED
    BY <1>1, <2>1, <2>2 DEF Inv, TypeOK, ClashInv
<1>3. QED
  BY <1>1, <1>2 DEF ClashInv, NoKeyClash

\* When the calls with a key come from one workspace and do not look it up at once, no
\* claim meets a row: every call acts or is told one of the documented answers.  The
\* lock does not help, since the key is not looked up again under it.
THEOREM KeysApartNeverClash == Spec /\ []KeysApart => []NoKeyClash
<1>1. Init => ClashInv
  BY CallsAssumption DEF Init, ClashInv, NoKeyClash
<1>2. Inv /\ KeysApart /\ ClashInv /\ [Next]_vars => ClashInv'
  <2> SUFFICES ASSUME Inv, KeysApart, ClashInv, [Next]_vars
               PROVE  ClashInv'
    OBVIOUS
  <2>1. ASSUME NEW c \in Calls, NEW r \in Requests, Receive(c, r)
        PROVE  ClashInv'
    BY <2>1 DEF Receive, Inv, TypeOK, ClashInv, NoKeyClash
  <2>2. ASSUME NEW c \in Calls, Lock(c) \/ Handle(c) \/ Store(c) \/ Die(c)
        PROVE  ClashInv'
    BY <2>2 DEF Lock, Handle, Store, Die, Inv, TypeOK, ClashInv, NoKeyClash
  <2>3. ASSUME NEW c \in Calls, Raise(c) \/ Respond(c)
        PROVE  ClashInv'
    BY <2>3, CallsAssumption
       DEF Raise, Respond, Answer, Inv, TypeOK, ClashInv, NoKeyClash
  <2>4. ASSUME NEW k \in Keys, Cleanup(k)
        PROVE  ClashInv'
    BY <2>4 DEF Cleanup, Inv, TypeOK, ClashInv, NoKeyClash
  <2>5. CASE UNCHANGED vars
    BY <2>5 DEF vars, ClashInv, NoKeyClash
  <2>6. QED
    BY <2>1, <2>2, <2>3, <2>4, <2>5, LookupAvoidsClash, InsertAvoidsClash
       DEF Next, Advance
<1>3. ClashInv => NoKeyClash
  BY DEF ClashInv
<1>4. QED
  BY <1>1, <1>2, <1>3, Invariant, PTL DEF Spec

=============================================================================
