------------------------ MODULE SavedSearchAlertsMC ------------------------
\* Instances of SavedSearchAlerts for TLC.
EXTENDS SavedSearchAlerts, TLC

OneBucketOf == [s \in Search |-> CHOOSE b \in Bucket : TRUE]

\* Listings 1 and 2 come on day 1, 3 on day 2.
Days112 == [l \in Listing |-> IF l = 3 THEN 2 ELSE 1]

\* One listing a day.
DaysInOrder == [l \in Listing |-> l]

JobSymmetry == Permutations(Job)

\* For runs that are not about the human or a removal: drafts are made and
\* withdrawn only, and no removal is asked for.
JobsOnly == codes = {} /\ \A k \in Draft : stage[k] \in {"none", "pending", "dead"}

\* Two jobs over a search without features, in two days without an edit; or one
\* job over a feature search, with every edit and build (MaxSaved = 1: only one
\* of the two searches is ever saved).
EachInItsSetting ==
  /\ (\E s \in Search \ Featured : saved[s] # NoRow)
       => today <= 2 /\ built.no = 1 /\ \A l \in Listing : edited[l] = 0
  /\ (\E s \in Featured : saved[s] # NoRow)
       => \A i, j \in Job : i # j => job[i] = NoWork \/ job[j] = NoWork
  /\ \A l \in Listing \ HasFeatures : edited[l] = 0
=============================================================================
