----------------------------- MODULE EventRelay -----------------------------
(***************************************************************************)
(* What the outbox promises of an event, whoever polls and whatever fails: *)
(* once accepted it is sent, perhaps several times, until it is either     *)
(* confirmed, which it is only after it has been sent, or given up.        *)
(***************************************************************************)
CONSTANT Events

VARIABLES
  accepted,    \* events of committed transactions
  sent,        \* events handed to the consumers at least once
  confirmed,   \* events that need not be sent any more
  dropped      \* events given up

rvars == <<accepted, sent, confirmed, dropped>>

Open == accepted \ (confirmed \cup dropped)

RInit == accepted = {} /\ sent = {} /\ confirmed = {} /\ dropped = {}

Accept(e) ==
  /\ e \notin accepted
  /\ accepted' = accepted \cup {e}
  /\ UNCHANGED <<sent, confirmed, dropped>>

Send(e) ==
  /\ e \in Open
  /\ sent' = sent \cup {e}
  /\ UNCHANGED <<accepted, confirmed, dropped>>

Settle(done, lost) ==
  /\ done \cup lost \subseteq Open
  /\ done \subseteq sent
  /\ done \cap lost = {}
  /\ confirmed' = confirmed \cup done
  /\ dropped' = dropped \cup lost
  /\ UNCHANGED <<accepted, sent>>

RNext ==
  \/ \E e \in Events : Accept(e) \/ Send(e)
  \/ \E done, lost \in SUBSET Events : Settle(done, lost)

RSpec == RInit /\ [][RNext]_rvars

=============================================================================
