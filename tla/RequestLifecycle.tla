-------------------------- MODULE RequestLifecycle --------------------------
(***************************************************************************)
(* What the approval service promises of a request, whatever its steps: it *)
(* is reviewed, then ends approved, rejected or cancelled and stays so;    *)
(* and a resource is claimed by at most one request, from the moment the   *)
(* request is created until it is cancelled (an approved or a rejected     *)
(* request keeps its claim).                                               *)
(***************************************************************************)
CONSTANTS Requests, Resources, None

VARIABLES
  phase,   \* request -> "absent", "in_review", "approved", "rejected", "cancelled"
  claim    \* resource -> the request that holds it, or None

lvars == <<phase, claim>>

LInit ==
  /\ phase = [r \in Requests |-> "absent"]
  /\ claim = [k \in Resources |-> None]

Open(r, k) ==
  /\ phase[r] = "absent"
  /\ claim[k] = None
  /\ phase' = [phase EXCEPT ![r] = "in_review"]
  /\ claim' = [claim EXCEPT ![k] = r]

Conclude(r, verdict) ==
  /\ phase[r] = "in_review"
  /\ phase' = [phase EXCEPT ![r] = verdict]
  /\ UNCHANGED claim

Withdraw(r, k) ==
  /\ phase[r] = "in_review"
  /\ claim[k] = r
  /\ phase' = [phase EXCEPT ![r] = "cancelled"]
  /\ claim' = [claim EXCEPT ![k] = None]

LNext ==
  \E r \in Requests :
    \/ \E k \in Resources : Open(r, k) \/ Withdraw(r, k)
    \/ \E verdict \in {"approved", "rejected"} : Conclude(r, verdict)

LSpec == LInit /\ [][LNext]_lvars

=============================================================================
