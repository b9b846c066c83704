---- MODULE ReplyGateMC ----
(* Two peers share a session, the third has its own.  One turn has card tool *)
(* calls, any number of each kind.  No guard reads "handed", and every       *)
(* property looks at the one step that changes it, so behaviours are not     *)
(* followed past a message: the step is checked, from every state.           *)
EXTENDS ReplyGate, TLC
CONSTANTS p1, p2, p3, shared, own
MCSessionOf == [p \in Peer |-> IF p = p3 THEN own ELSE shared]
Symmetry == Permutations({p1, p2})
Bounded == Cardinality(ran \cup denied) <= 1 /\ handed = NoMessage
====
