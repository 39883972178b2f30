---------------------------- MODULE ReviewRecord ----------------------------
(***************************************************************************)
(* What the approval service promises of a request even when calls on it   *)
(* overlap.  Votes are cast one at a time, by other users than the author  *)
(* and once per step each, on the first step or on one whose predecessor   *)
(* has its quorum; they are never lost.  A request is reported approved    *)
(* only by the vote that finds the last step's quorum complete, rejected   *)
(* only by a vote against it.  A resource is claimed by one request at a   *)
(* time: a request gives its claim up when it is withdrawn and has to find *)
(* the resource free to take it back.                                      *)
(*                                                                         *)
(* It is weaker than RequestLifecycle: a late call may overrule a verdict  *)
(* or a withdrawal, and a completed quorum may go unnoticed.               *)
(***************************************************************************)
EXTENDS Integers, FiniteSets

CONSTANTS Requests, Resources, Actors, Quorums, None

VARIABLES
  phase,    \* request -> "absent", "in_review", "approved", "rejected", "cancelled"
  author,   \* request -> who created it
  home,     \* request -> the resource it is about
  quorum,   \* request -> step -> approvals required
  votes,    \* request -> votes cast
  claim     \* resource -> the request that holds it, or None

rvars == <<phase, author, home, quorum, votes, claim>>

Ballots(r) == [step : DOMAIN quorum[r], actor : Actors, action : {"approve", "reject"}]

InFavour(cast, o) == {u \in Actors : [step |-> o, actor |-> u, action |-> "approve"] \in cast}
Complete(required, cast, o) == Cardinality(InFavour(cast, o)) >= required[o]

RInit ==
  /\ phase = [r \in Requests |-> "absent"]
  /\ author = [r \in Requests |-> None]
  /\ home = [r \in Requests |-> None]
  /\ quorum = [r \in Requests |-> <<>>]
  /\ votes = [r \in Requests |-> {}]
  /\ claim = [k \in Resources |-> None]

Submit(r, u, k, required) ==
  /\ phase[r] = "absent"
  /\ claim[k] = None
  /\ phase' = [phase EXCEPT ![r] = "in_review"]
  /\ author' = [author EXCEPT ![r] = u]
  /\ home' = [home EXCEPT ![r] = k]
  /\ quorum' = [quorum EXCEPT ![r] = required]
  /\ claim' = [claim EXCEPT ![k] = r]
  /\ UNCHANGED votes

\* The phases a request may be in once v is among the votes cast.
Outcomes(r, v, cast) ==
  IF v.action = "reject" THEN {"rejected"}
  ELSE IF v.step + 1 \notin DOMAIN quorum[r] /\ Complete(quorum[r], cast, v.step)
  THEN {phase[r], "approved"}
  ELSE {phase[r]}

Cast(r, v, outcome) ==
  /\ phase[r] # "absent"
  /\ v.actor # author[r]
  /\ v.step = 1 \/ (v.step - 1 \in DOMAIN quorum[r] /\ Complete(quorum[r], votes[r], v.step - 1))
  /\ \A d \in votes[r] : d.step = v.step => d.actor # v.actor
  /\ votes' = [votes EXCEPT ![r] = @ \cup {v}]
  /\ phase' = [phase EXCEPT ![r] = outcome]
  /\ \/ outcome = "cancelled" /\ UNCHANGED claim
     \/ /\ outcome # "cancelled"
        /\ claim[home[r]] \in {r, None}
        /\ claim' = [claim EXCEPT ![home[r]] = r]
  /\ UNCHANGED <<author, home, quorum>>

Withdraw(r) ==
  /\ phase[r] \notin {"absent", "cancelled"}
  /\ claim[home[r]] = r
  /\ phase' = [phase EXCEPT ![r] = "cancelled"]
  /\ claim' = [claim EXCEPT ![home[r]] = None]
  /\ UNCHANGED <<author, home, quorum, votes>>

RNext ==
  \E r \in Requests :
    \/ Withdraw(r)
    \/ \E u \in Actors, k \in Resources, required \in Quorums : Submit(r, u, k, required)
    \/ \E v \in Ballots(r) : \E outcome \in Outcomes(r, v, votes[r] \cup {v}) :
         Cast(r, v, outcome)

RSpec == RInit /\ [][RNext]_rvars

=============================================================================
