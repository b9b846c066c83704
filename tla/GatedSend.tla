----------------------------- MODULE GatedSend -----------------------------
(***************************************************************************)
(* What the e-mail path promises, with nothing about how it is done: a     *)
(* draft is proposed, a human approves it, one sender claims it, and the   *)
(* message leaves at most once, only while the claim stands.  A draft that *)
(* was rejected or that expired never leaves.  There is no journal, no     *)
(* clock and no process here; module ApprovalLedger implements this one.   *)
(***************************************************************************)
EXTENDS Naturals

CONSTANT Draft

VARIABLES
  stage,     \* stage[d]: how far draft d has come
  outbox     \* outbox[d]: how many times draft d has left

vars == <<stage, outbox>>

Stage == {"none", "pending", "approved", "dead", "claimed", "sent"}

TypeOK ==
  /\ stage \in [Draft -> Stage]
  /\ outbox \in [Draft -> Nat]

Init ==
  /\ stage = [d \in Draft |-> "none"]
  /\ outbox = [d \in Draft |-> 0]

Advance(d, from, to) ==
  /\ stage[d] \in from
  /\ stage' = [stage EXCEPT ![d] = to]
  /\ UNCHANGED outbox

Propose(d) == Advance(d, {"none"}, "pending")
Approve(d) == Advance(d, {"pending"}, "approved")
Claim(d)   == Advance(d, {"approved"}, "claimed")

\* Several drafts can die in one step (a bulk expiry).
Withdraw(ds) ==
  /\ \A d \in ds : stage[d] \in {"pending", "approved"}
  /\ stage' = [d \in Draft |-> IF d \in ds THEN "dead" ELSE stage[d]]
  /\ UNCHANGED outbox

\* The one step in which a message leaves.
Leave(d) ==
  /\ stage[d] = "claimed"
  /\ outbox[d] = 0
  /\ outbox' = [outbox EXCEPT ![d] = 1]
  /\ UNCHANGED stage

\* "sent" is a receipt: it is only written for a message that left.
Confirm(d) == outbox[d] = 1 /\ Advance(d, {"claimed"}, "sent")

Next ==
  \/ \E d \in Draft : Propose(d) \/ Approve(d) \/ Claim(d) \/ Leave(d) \/ Confirm(d)
  \/ \E ds \in SUBSET Draft : Withdraw(ds)

Spec == Init /\ [][Next]_vars
=============================================================================
