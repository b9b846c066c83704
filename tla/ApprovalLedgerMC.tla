-------------------------- MODULE ApprovalLedgerMC --------------------------
(* Two drafts, two senders, one key, two addresses.                        *)
EXTENDS ApprovalLedger, TLC

Symmetry == Permutations(Draft) \cup Permutations(Sender) \cup Permutations(Address)

\* The senders race, the owner moves and the last day passes while there is one
\* draft; a second one is for the operations that concern two.
SecondDraftBriefly ==
  (\A d \in Draft : Known(d)) =>
    /\ clock <= 2
    /\ \A d \in Draft : Last(d).recipient = owner
    /\ \A s, t \in Sender : s # t => sender[s] = Idle \/ sender[t] = Idle
=============================================================================
