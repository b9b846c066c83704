--------------------------- MODULE PaidConsentMC ---------------------------
\* Instances of PaidConsent for TLC: the tool server with two threads and a
\* batch program, or two processes of one command.
EXTENDS PaidConsent, FiniteSets, TLC

CONSTANTS server, batch, t1, t2, t3

MCProcessOf == (t1 :> server @@ t2 :> server @@ t3 :> batch)
\* The server makes calls one by one, the batch program also whole batches.
MCAsks == (server :> {1} @@ batch :> {1, 2})
MCCommandOf == [p \in Process |-> "serve"]

\* Bound: a call or a start of the batch program meets one thread of the server at a
\* time.
TwoAtWork == Cardinality({t \in Thread : ~At(t, "idle")}) <= 2

Symmetry == Permutations({t1, t2})
=============================================================================
