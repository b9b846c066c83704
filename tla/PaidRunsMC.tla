----------------------------- MODULE PaidRunsMC -----------------------------
\* The two programs about paid runs in one TLC run: the consent budget (part
\* "consent") and the batch extraction (part "batch").  They share no state, so
\* a behaviour is one of either; Init chooses which.
EXTENDS PaidConsentMC, EnrichmentBatch

VARIABLE part

partVars == <<part, vars, batchVars>>

PartInit == part \in {"consent", "batch"} /\ Init /\ BatchInit

PartNext ==
  \/ part = "consent" /\ Next /\ UNCHANGED <<part, batchVars>>
  \/ part = "batch" /\ BatchNext /\ UNCHANGED <<part, vars>>

\* The types of both parts.
PaidTypeOK == TypeOK /\ BatchTypeOK

PartSpec == PartInit /\ [][PartNext]_partVars
=============================================================================
