----------------------------- MODULE OncePerKey -----------------------------
(***************************************************************************)
(* What an idempotency key promises: while a key is remembered one call    *)
(* holds it, only that call acts, and whoever is told something is told    *)
(* the answer of that call.                                                *)
(***************************************************************************)
CONSTANTS Keys, Calls, None

VARIABLES
  holder,     \* key -> the call that holds it, or None
  acted,      \* calls whose effect took place
  answered,   \* calls whose answer is kept
  told        \* call -> the call whose answer it was given, or None

ovars == <<holder, acted, answered, told>>

OInit ==
  /\ holder = [k \in Keys |-> None]
  /\ acted = {} /\ answered = {}
  /\ told = [c \in Calls |-> None]

Take(k, c) ==
  /\ holder[k] = None
  /\ holder' = [holder EXCEPT ![k] = c]
  /\ UNCHANGED <<acted, answered, told>>

Act(k, c) ==
  /\ holder[k] = c /\ c \notin acted \cup answered
  /\ acted' = acted \cup {c}
  /\ UNCHANGED <<holder, answered, told>>

Keep(k, c) ==
  /\ holder[k] = c
  /\ answered' = answered \cup {c}
  /\ UNCHANGED <<holder, acted, told>>

Tell(k, c, d) ==
  /\ holder[k] = d /\ d \in answered
  /\ told[c] = None
  /\ told' = [told EXCEPT ![c] = d]
  /\ UNCHANGED <<holder, acted, answered>>

Forget(k) ==
  /\ holder' = [holder EXCEPT ![k] = None]
  /\ UNCHANGED <<acted, answered, told>>

ONext ==
  \E k \in Keys :
    \/ Forget(k)
    \/ \E c \in Calls : Take(k, c) \/ Act(k, c) \/ Keep(k, c)
    \/ \E c, d \in Calls : Tell(k, c, d)

OSpec == OInit /\ [][ONext]_ovars

=============================================================================
