----------------------- MODULE EnrichmentBatchProofs -----------------------
(***************************************************************************)
(* Proofs about EnrichmentBatch for any source, any reused rows, any sizes *)
(* of tranches, waves and batches: no row is paid for twice, nothing the   *)
(* provider reported is dropped, what is verified is whole, and waves      *)
(* stand on gated ground.                                                  *)
(*                                                                         *)
(* The argument.  Batches are posted in the order of their numbers: what   *)
(* is planned is a suffix of the table (Suffix), and a batch is posted     *)
(* once, right after it stopped being planned (Posted, Fresh), so the      *)
(* provider's batches have increasing numbers (InOrder).  Two batches of   *)
(* the table share a row only if the earlier has it as a failure           *)
(* (Overlap), and a failure is only stored when the provider reported it   *)
(* (FailedTrue).  A staged row without a result is in a batch (Covered),   *)
(* so when all batches are done every row has one.  What is not answered   *)
(* belongs to the newest wave (NewRows), so a wave that was gated when it  *)
(* began stays so.                                                         *)
(*                                                                         *)
(* PaidRunsMC checks the batches beside the consent budget: with           *)
(* PaidConsentProofs, the types of both.                                   *)
(***************************************************************************)
EXTENDS PaidRunsMC, PaidConsentProofs, FiniteSetTheorems, WellFoundedInduction

-----------------------------------------------------------------------------
(* Numbers and sequences.                                                  *)

LEMMA LeastExists ==
  ASSUME NEW X \in SUBSET Nat, X # {}
  PROVE  \E x \in X : \A y \in X : x <= y
<1>1. PICK x \in X : \A y \in X : ~(<<y, x>> \in OpToRel(<, Nat))
  BY WFMin, NatLessThanWellFounded, Zenon
<1>2. \A y \in X : ~(y < x)
  BY <1>1 DEF OpToRel
<1> QED BY <1>2

LEMMA WiderSeq ==
  ASSUME NEW A, NEW B, A \subseteq B, NEW s \in Seq(A)
  PROVE  s \in Seq(B)
OBVIOUS

LEMMA SeqOf ==
  ASSUME NEW S, NEW n \in Nat, NEW s \in [1..n -> S]
  PROVE  s \in Seq(S) /\ Len(s) = n
OBVIOUS

LEMMA ReplaceAt ==
  ASSUME NEW S, NEW s \in Seq(S), NEW i \in 1..Len(s), NEW e \in S
  PROVE  /\ [s EXCEPT ![i] = e] \in Seq(S) /\ Len([s EXCEPT ![i] = e]) = Len(s)
         /\ [s EXCEPT ![i] = e][i] = e
         /\ \A j \in 1..Len(s) : j # i => [s EXCEPT ![i] = e][j] = s[j]
OBVIOUS

LEMMA ElementType ==
  ASSUME NEW S, NEW s \in Seq(S), NEW i \in 1..Len(s)
  PROVE  s[i] \in S
OBVIOUS

LEMMA RowType == Row \subseteq Nat /\ \A r \in Row : 1 <= r /\ r <= Rows
BY BatchAssumption DEF Row

-----------------------------------------------------------------------------
(* Planning.                                                               *)

\* A group is within the set, and the next one begins after it.
LEMMA Group ==
  ASSUME NEW S \in SUBSET Row, NEW f \in Firsts(S)
  PROVE  /\ LastOf(S, f) \in S /\ f <= LastOf(S, f)
         /\ f .. LastOf(S, f) \subseteq S
         /\ LastOf(S, f) + 1 \in S => LastOf(S, f) + 1 \in Firsts(S)
         /\ \A r \in (f + 1) .. LastOf(S, f) : r \notin Firsts(S)
<1> DEFINE X == {x \in Nat : x > f /\ (x \notin S \/ x \in Firsts(S))}
<1>1. f \in S /\ f \in Nat /\ Rows \in Nat /\ \A r \in S : r \in Nat /\ 1 <= r /\ r <= Rows
  BY BatchAssumption DEF Row, Firsts
<1>2. Rows + 1 \in X
  BY <1>1
<1>3. PICK x \in X : \A y \in X : x <= y
  BY <1>2, LeastExists
<1>4. \A y \in Nat : f < y /\ y < x => y \in S /\ y \notin Firsts(S)
  BY <1>1, <1>3
<1>5. x - 1 \in Nat /\ f <= x - 1 /\ (x - 1) + 1 = x
  BY <1>1, <1>3
<1>6. f .. (x - 1) \subseteq S
  BY <1>1, <1>4, <1>5
<1>7. x - 1 \in S
  BY <1>1, <1>5, <1>6
<1>8. x \in S => x \in Firsts(S)
  BY <1>3
<1>9. \A r \in (f + 1) .. (x - 1) : r \notin Firsts(S)
  BY <1>1, <1>4, <1>5
<1> DEFINE P(l) == /\ f <= l /\ (f .. l) \subseteq S
                   /\ l + 1 \in S => l + 1 \in Firsts(S)
                   /\ \A r \in (f + 1) .. l : r \notin Firsts(S)
<1>10. P(x - 1)
  BY <1>5, <1>6, <1>8, <1>9
<1>11. LastOf(S, f) = CHOOSE l \in S : P(l)
  BY DEF LastOf
<1> HIDE DEF P
<1>12. LastOf(S, f) \in S /\ P(LastOf(S, f))
  BY <1>7, <1>10, <1>11
<1> QED BY <1>12 DEF P

\* The start of a run of rows is the first row of a group.
LEMMA RunBegins ==
  ASSUME NEW S \in SUBSET Row, NEW r \in S
  PROVE  \E q \in Firsts(S) : q <= r /\ q .. r \subseteq S
<1> DEFINE Q == {q \in S : q <= r /\ q .. r \subseteq S}
<1>0. r \in Nat /\ \A x \in S : x \in Nat /\ 1 <= x
  BY RowType
<1>1. r \in Q /\ Q \in SUBSET Nat
  <2>1. r <= r /\ r .. r \subseteq S
    BY <1>0
  <2>2. r \in Q
    BY <2>1
  <2>3. Q \subseteq S
    OBVIOUS
  <2> HIDE DEF Q
  <2> QED BY <1>0, <2>2, <2>3
<1>2. PICK q \in Q : \A x \in Q : q <= x
  BY <1>1, LeastExists
<1>3. q - 1 \notin S
  <2> SUFFICES ASSUME q - 1 \in S
               PROVE  FALSE
    OBVIOUS
  <2>1. q - 1 \in Q
    BY <1>0, <1>2
  <2> QED BY <1>0, <1>2, <2>1
<1>4. RunStart(S, q) = q
  <2> DEFINE P(x) == x <= q /\ (x .. q) \subseteq S /\ x - 1 \notin S
  <2>1. q \in S /\ P(q)
    BY <1>0, <1>2, <1>3
  <2>2. ASSUME NEW x \in S, P(x)
        PROVE  x = q
    <3>1. CASE x < q
      <4>1. q - 1 \in x .. q
        BY <1>0, <2>1, <3>1
      <4> QED BY <1>3, <2>2, <4>1
    <3> QED BY <1>0, <2>1, <2>2, <3>1
  <2>3. RunStart(S, q) = CHOOSE x \in S : P(x)
    BY DEF RunStart
  <2> HIDE DEF P
  <2> QED BY <2>1, <2>2, <2>3
<1>5. q \in Firsts(S)
  <2>1. (q - q) % MaxRequests = 0
    BY <1>0, <1>2, BatchAssumption
  <2> QED BY <1>2, <1>4, <2>1 DEF Firsts
<1> QED BY <1>2, <1>5

\* Each row of the set is in a group.
LEMMA GroupsCover ==
  ASSUME NEW S \in SUBSET Row, NEW r \in S
  PROVE  \E f \in Firsts(S) : r \in f .. LastOf(S, f)
<1> DEFINE G == {x \in Nat : r - x \in Firsts(S) /\ (r - x) .. r \subseteq S}
<1>0. r \in Nat /\ Firsts(S) \subseteq S /\ \A x \in S : x \in Nat /\ 1 <= x
  BY RowType DEF Firsts
<1>1. G # {}
  <2>1. PICK q \in Firsts(S) : q <= r /\ q .. r \subseteq S
    BY RunBegins
  <2>0. q \in Nat
    BY <1>0, <2>1
  <2>2. r - q \in Nat /\ r - (r - q) = q
    BY <1>0, <2>0, <2>1
  <2>3. r - q \in G
    BY <2>1, <2>2
  <2> QED BY <2>3
<1>2. PICK g \in G : \A x \in G : g <= x
  BY <1>1, LeastExists
<1> DEFINE f == r - g
<1>3. f \in Firsts(S) /\ f .. r \subseteq S /\ f \in Nat /\ f <= r
  BY <1>0, <1>2
<1>4. LastOf(S, f) \in Nat
  BY <1>0, <1>3, Group
<1>5. r <= LastOf(S, f)
  <2> SUFFICES ASSUME LastOf(S, f) < r
               PROVE  FALSE
    BY <1>0, <1>4
  <2> DEFINE l == LastOf(S, f) + 1
  <2>1. f <= LastOf(S, f) /\ (l \in S => l \in Firsts(S))
    BY <1>3, Group
  <2> HIDE DEF f
  <2>2. l \in f .. r /\ l \in Nat /\ f < l
    BY <1>0, <1>3, <1>4, <2>1
  <2>3. l \in Firsts(S) /\ l .. r \subseteq S
    BY <1>0, <1>3, <2>1, <2>2
  <2> HIDE DEF l
  <2>4. r - l \in Nat /\ r - (r - l) = l /\ r - l < g
    BY <1>0, <1>2, <1>3, <2>2 DEF f
  <2>5. r - l \in G
    BY <2>3, <2>4
  <2> QED BY <1>2, <2>4, <2>5
<1> QED BY <1>0, <1>3, <1>4, <1>5

\* What planning S does to the table.
Grown(S) ==
  /\ batches' \in Seq(Batch) /\ Len(batches') >= Len(batches)
  /\ \A n \in 1..Len(batches) : batches'[n] = batches[n]
  /\ \A n \in (Len(batches) + 1)..Len(batches') :
       batches'[n].status = "planned" /\ RowsOf(batches'[n]) \subseteq S
  /\ \A m, n \in (Len(batches) + 1)..Len(batches') :
       m < n => RowsOf(batches'[m]) \cap RowsOf(batches'[n]) = {}
  /\ \A r \in S : \E n \in (Len(batches) + 1)..Len(batches') : r \in RowsOf(batches'[n])

LEMMA PlanGrows ==
  ASSUME batches \in Seq(Batch), NEW S \in SUBSET Row, Plan(S)
  PROVE  Grown(S)
<1>1. PICK o \in Ordered(S) :
        batches' = batches \o
          [i \in DOMAIN o |-> [first |-> o[i], last |-> LastOf(S, o[i]), status |-> "planned"]]
  BY DEF Plan
<1> DEFINE N == Cardinality(Firsts(S))
           new == [i \in DOMAIN o |->
                     [first |-> o[i], last |-> LastOf(S, o[i]), status |-> "planned"]]
<1>2. N \in Nat
  <2>1. IsFiniteSet(1..Rows)
    BY FS_Interval, BatchAssumption
  <2>2. Firsts(S) \in SUBSET (1..Rows)
    BY DEF Firsts, Row
  <2> QED BY <2>1, <2>2, FS_Subset, FS_CardinalityType
<1>3. /\ o \in [1..N -> Firsts(S)]
      /\ \A i, j \in 1..N : i < j => o[i] < o[j]
  BY DEF Ordered
<1>4. DOMAIN o = 1..N
  BY <1>3
<1>5. ASSUME NEW i \in 1..N
      PROVE  /\ new[i] \in Batch /\ new[i].status = "planned"
             /\ RowsOf(new[i]) \subseteq S /\ RowsOf(new[i]) = o[i] .. LastOf(S, o[i])
  <2>1. o[i] \in Firsts(S) /\ o[i] \in Row
    BY <1>3 DEF Firsts
  <2>2. LastOf(S, o[i]) \in Row /\ o[i] .. LastOf(S, o[i]) \subseteq S
    BY <2>1, Group
  <2> QED BY <1>4, <2>1, <2>2 DEF Batch, Status, RowsOf
<1>6. ASSUME NEW i \in 1..N, NEW j \in 1..N, i < j
      PROVE  RowsOf(new[i]) \cap RowsOf(new[j]) = {}
  <2>1. o[i] \in Firsts(S) /\ o[j] \in Firsts(S) /\ o[i] < o[j]
    BY <1>3, <1>6
  <2>2. o[i] \in Nat /\ o[j] \in Nat
    BY <2>1, RowType DEF Firsts
  <2>3. LastOf(S, o[i]) \in Nat /\ LastOf(S, o[j]) \in Nat
    BY <2>1, Group, RowType
  <2>4. \A r \in (o[i] + 1) .. LastOf(S, o[i]) : r \notin Firsts(S)
    BY <2>1, Group
  <2>5. LastOf(S, o[i]) < o[j]
    BY <2>1, <2>2, <2>3, <2>4
  <2>6. (o[i] .. LastOf(S, o[i])) \cap (o[j] .. LastOf(S, o[j])) = {}
    BY <2>2, <2>3, <2>5
  <2> HIDE DEF new
  <2> QED BY <1>5, <2>6
<1>7. \A r \in S : \E i \in 1..N : r \in RowsOf(new[i])
  <2>1. IsFiniteSet(1..N) /\ Cardinality(1..N) = N
    BY <1>2, FS_Interval
  <2>2. o \in Injection(1..N, Firsts(S))
    <3>1. Firsts(S) \subseteq Nat
      BY RowType DEF Firsts
    <3>2. ASSUME NEW i \in 1..N, NEW j \in 1..N, o[i] = o[j]
          PROVE  i = j
      <4>1. o[i] \in Nat /\ i \in Nat /\ j \in Nat
        BY <1>2, <1>3, <3>1
      <4>2. ~(i < j) /\ ~(j < i)
        BY <1>3, <3>2, <4>1
      <4> QED BY <4>1, <4>2
    <3> QED BY <1>3, <1>4, <3>2 DEF Injection, IsInjective
  <2>3. IsFiniteSet(Firsts(S))
    <3>1. IsFiniteSet(1..Rows)
      BY FS_Interval, BatchAssumption
    <3>2. Firsts(S) \in SUBSET (1..Rows)
      BY DEF Firsts, Row
    <3> QED BY <3>1, <3>2, FS_Subset
  <2>4. o \in Surjection(1..N, Firsts(S))
    BY <2>1, <2>2, <2>3, FS_Injection
  <2>5. \A f \in Firsts(S) : \E i \in 1..N : o[i] = f
    BY <2>4 DEF Surjection
  <2> SUFFICES ASSUME NEW r \in S
               PROVE  \E i \in 1..N : r \in RowsOf(new[i])
    OBVIOUS
  <2>6. PICK f \in Firsts(S) : r \in f .. LastOf(S, f)
    BY GroupsCover
  <2>7. PICK i \in 1..N : o[i] = f
    BY <2>5
  <2>8. RowsOf(new[i]) = o[i] .. LastOf(S, o[i])
    BY <1>5
  <2> HIDE DEF new, N
  <2>9. r \in RowsOf(new[i])
    BY <2>6, <2>7, <2>8
  <2> QED BY <2>9
<1>8. new \in Seq(Batch) /\ Len(new) = N
  BY <1>2, <1>4, <1>5
<1>9. batches' = batches \o new
  BY <1>1
<1> HIDE DEF new, N
<1>10. /\ batches' \in Seq(Batch) /\ Len(batches') = Len(batches) + N
       /\ \A n \in 1..Len(batches) : batches'[n] = batches[n]
       /\ \A n \in (Len(batches) + 1)..(Len(batches) + N) : batches'[n] = new[n - Len(batches)]
  <2>1. batches \in Seq(Batch) /\ Len(batches) \in Nat
    OBVIOUS
  <2>2. batches' \in Seq(Batch) /\ Len(batches') = Len(batches) + N
    <3>1. batches \o new \in Seq(Batch)
      BY <1>8, <2>1
    <3>2. Len(batches \o new) = Len(batches) + Len(new)
      BY <1>8, <2>1
    <3> QED BY <1>8, <1>9, <3>1, <3>2
  <2>3. \A n \in 1..Len(batches) : batches'[n] = batches[n]
    BY <1>2, <1>8, <1>9, <2>1
  <2>4. \A n \in (Len(batches) + 1)..(Len(batches) + N) : batches'[n] = new[n - Len(batches)]
    BY <1>2, <1>8, <1>9, <2>1
  <2> QED BY <2>2, <2>3, <2>4
<1>11. Len(batches) \in Nat
  OBVIOUS
<1>12. \A n \in (Len(batches) + 1)..Len(batches') :
         n - Len(batches) \in 1..N /\ batches'[n] = new[n - Len(batches)]
  BY <1>2, <1>10, <1>11
<1>13. \A m, n \in (Len(batches) + 1)..Len(batches') :
         m < n => m - Len(batches) < n - Len(batches)
  BY <1>11
<1>14. \A n \in (Len(batches) + 1)..Len(batches') :
         batches'[n].status = "planned" /\ RowsOf(batches'[n]) \subseteq S
  BY <1>5, <1>12
<1>15. \A m, n \in (Len(batches) + 1)..Len(batches') :
         m < n => RowsOf(batches'[m]) \cap RowsOf(batches'[n]) = {}
  BY <1>6, <1>12, <1>13
<1>16. Len(batches') >= Len(batches)
  BY <1>2, <1>10, <1>11
<1>17. ASSUME NEW r \in S
       PROVE  \E n \in (Len(batches) + 1)..Len(batches') : r \in RowsOf(batches'[n])
  <2>1. PICK i \in 1..N : r \in RowsOf(new[i])
    BY <1>7
  <2>2. /\ i + Len(batches) \in (Len(batches) + 1)..Len(batches')
        /\ (i + Len(batches)) - Len(batches) = i
    BY <1>2, <1>10, <1>11
  <2> QED BY <1>12, <2>1, <2>2
<1> QED BY <1>10, <1>14, <1>15, <1>16, <1>17 DEF Grown

\* The next wave ends after the last staged row, within the source.
LEMMA WaveEndType ==
  ASSUME staged \in 0..Rows, staged < Rows
  PROVE  WaveEnd \in Row /\ staged < WaveEnd
<1>0. Rows \in Nat \ {0} /\ LongWave \in Nat \ {0} /\ ShortWave \in Nat \ {0}
      /\ Checkpoint \subseteq Row /\ Rows \in Checkpoint
  BY BatchAssumption DEF Row
<1> DEFINE Later == {c \in Checkpoint : c > staged}
           P(c) == c > staged /\ \A d \in Checkpoint : d > staged => c <= d
           next == CHOOSE c \in Checkpoint : P(c)
<1>1. Later \in SUBSET Nat /\ Rows \in Later
  BY <1>0, RowType
<1>2. PICK c \in Later : \A d \in Later : c <= d
  BY <1>1, LeastExists
<1>3. c \in Checkpoint /\ P(c)
  BY <1>2
<1>4. next \in Checkpoint /\ P(next)
  BY <1>3
<1>5. WaveEnd = AtMost(next, staged + (IF staged >= ShortFrom THEN ShortWave ELSE LongWave))
  BY DEF WaveEnd
<1> HIDE DEF next
<1>6. next \in Nat /\ next <= Rows /\ next > staged /\ staged \in Nat
  BY <1>0, <1>4, RowType
<1> QED BY <1>0, <1>5, <1>6 DEF AtMost, Row

-----------------------------------------------------------------------------
(* Types.                                                                  *)

\* What a step that writes the table of batches may do to batch n.
LEMMA StatusSet ==
  ASSUME batches \in Seq(Batch), NEW n \in 1..Len(batches), NEW status \in Status,
         batches' = [batches EXCEPT ![n].status = status]
  PROVE  /\ batches' \in Seq(Batch) /\ Len(batches') = Len(batches)
         /\ batches'[n].status = status
         /\ \A m \in 1..Len(batches) :
              /\ m # n => batches'[m].status = batches[m].status
              /\ batches'[m].first = batches[m].first /\ batches'[m].last = batches[m].last
<1>1. batches[n] \in Batch
  BY ElementType
<1>2. [batches[n] EXCEPT !.status = status] \in Batch
  BY <1>1 DEF Batch
<1>3. batches' = [batches EXCEPT ![n] = [batches[n] EXCEPT !.status = status]]
  OBVIOUS
<1>4. batches' \in Seq(Batch) /\ Len(batches') = Len(batches)
  BY <1>2, <1>3
<1>5. \A m \in 1..Len(batches) : m # n => batches'[m] = batches[m]
  BY <1>3
<1>6. batches'[n] = [batches[n] EXCEPT !.status = status]
  BY <1>3
<1>7. /\ batches'[n].status = status
      /\ batches'[n].first = batches[n].first /\ batches'[n].last = batches[n].last
  BY <1>1, <1>6 DEF Batch
<1> QED BY <1>4, <1>5, <1>7

\* The end of a batch, and of those partial ones that its answers resolve.
LEMMA BatchFinished ==
  ASSUME BatchTypeOK, IngestFinish
  PROVE  /\ batches' \in Seq(Batch) /\ Len(batches') = Len(batches)
         /\ \A n \in 1..Len(batches) :
              /\ batches'[n].first = batches[n].first /\ batches'[n].last = batches[n].last
              /\ LET status == IF n = run.batch THEN IngestedStatus ELSE batches[n].status
                 IN  batches'[n].status =
                       IF status = "partial" /\ Resolved(n) THEN "resolved" ELSE status
<1> DEFINE Now(n) == IF n = run.batch THEN IngestedStatus ELSE batches[n].status
           New(n) == IF Now(n) = "partial" /\ Resolved(n) THEN "resolved" ELSE Now(n)
<1>1. batches' = [n \in 1..Len(batches) |-> [batches[n] EXCEPT !.status = New(n)]]
  BY DEF IngestFinish
<1>2. Len(batches) \in Nat /\ \A n \in 1..Len(batches) : batches[n] \in Batch
  BY ElementType DEF BatchTypeOK
<1>3. \A n \in 1..Len(batches) : New(n) \in Status
  BY <1>2 DEF IngestedStatus, Status, Batch
<1> HIDE DEF New
<1>4. ASSUME NEW n \in 1..Len(batches)
      PROVE  /\ batches'[n] \in Batch /\ batches'[n].status = New(n)
             /\ batches'[n].first = batches[n].first /\ batches'[n].last = batches[n].last
  <2>1. batches'[n] = [batches[n] EXCEPT !.status = New(n)]
    BY <1>1
  <2> QED BY <1>2, <1>3, <2>1 DEF Batch
<1>5. batches' \in Seq(Batch) /\ Len(batches') = Len(batches)
  <2>1. batches' \in [1..Len(batches) -> Batch]
    BY <1>1, <1>4
  <2> QED BY <1>2, <2>1, SeqOf
<1> QED BY <1>4, <1>5 DEF New

\* What a command that plans does: it plans rows that were not staged yet and that
\* v1 does not answer, or the rows whose failures have no answer.
Plans(S) ==
  /\ S \in SUBSET Row /\ Grown(S)
  /\ staged' \in 0..Rows /\ staged <= staged'
  /\ answer' \in [Row -> {"none", "v1", "v2"}]
  /\ \A r \in Row : answer'[r] \in {answer[r], "v1"}
  /\ \A r \in Row : staged < r /\ r <= staged' => answer'[r] # "none" \/ r \in S
  /\ \A r \in S : r <= staged' /\ r \notin Reused
  /\ \/ \A r \in S : r > staged
     \/ S = Unresolved /\ ~Have({"planned", "submitted", "uncertain"})
  /\ run' \in [at : {"submit"}, batch : {1}, retry : BOOLEAN]
  /\ UNCHANGED <<remote, failed, verified>>

\* The rows with a failure are staged and not reused.
FailedRows == \A f \in failed : f[2] <= staged /\ f[2] \notin Reused

Planning ==
  SubmitFirst \/ SubmitRetry \/ SubmitContinue \/ SubmitWave

LEMMA MoveSubmit ==
  ASSUME BatchTypeOK, NEW n, Move("submit", n)
  PROVE  run' = [at |-> "submit", batch |-> n, retry |-> run.retry] /\ run.retry \in BOOLEAN
BY DEF Move, BatchTypeOK

LEMMA StageToPlans ==
  ASSUME BatchTypeOK, NEW upTo \in Row, staged <= upTo, StageTo(upTo), Move("submit", 1),
         UNCHANGED <<remote, failed, verified>>
  PROVE  \E S : Plans(S)
<1> DEFINE S == ((staged + 1) .. upTo) \ Reused
<1>1. /\ staged \in 0..Rows /\ staged \in Nat /\ upTo \in Nat /\ upTo <= Rows
      /\ Rows \in Nat \ {0}
  BY RowType, BatchAssumption DEF BatchTypeOK
<1>2. S \in SUBSET Row /\ \A r \in S : r \in Nat /\ staged < r /\ r <= upTo /\ r \notin Reused
  BY <1>1 DEF Row
<1>3. Grown(S)
  BY <1>2, PlanGrows DEF StageTo, BatchTypeOK
<1>4. staged' = upTo /\ answer' = [r \in Row |-> IF r \in ((staged + 1) .. upTo) \cap Reused
                                                THEN "v1" ELSE answer[r]]
  BY DEF StageTo
<1>5. /\ answer' \in [Row -> {"none", "v1", "v2"}]
      /\ \A r \in Row : answer'[r] \in {answer[r], "v1"}
      /\ \A r \in Row : staged < r /\ r <= staged' => answer'[r] # "none" \/ r \in S
  <2>1. \A r \in Row : staged < r /\ r <= upTo => r \in (staged + 1) .. upTo
    BY <1>1, RowType
  <2> QED BY <1>4, <2>1 DEF BatchTypeOK
<1>6. run' \in [at : {"submit"}, batch : {1}, retry : BOOLEAN]
  BY MoveSubmit
<1>7. staged' \in 0..Rows /\ staged <= staged'
  BY <1>1, <1>4
<1>8. (\A r \in S : r <= staged' /\ r \notin Reused) /\ \A r \in S : r > staged
  BY <1>1, <1>2, <1>4
<1> HIDE DEF S
<1>9. Plans(S)
  BY <1>2, <1>3, <1>5, <1>6, <1>7, <1>8 DEF Plans
<1> QED BY <1>9

LEMMA PlanningPlans ==
  ASSUME BatchTypeOK, FailedRows, Planning
  PROVE  \E S : Plans(S)
<1>0. /\ Rows \in Nat \ {0} /\ Tranche \in Nat \ {0} /\ staged \in 0..Rows
  BY BatchAssumption DEF BatchTypeOK
<1>1. CASE SubmitFirst
  <2>1. AtMost(Rows, Tranche) \in Row /\ staged <= AtMost(Rows, Tranche)
    BY <1>0, <1>1 DEF SubmitFirst, AtMost, Row
  <2> QED BY <1>1, <2>1, StageToPlans DEF SubmitFirst
<1>2. CASE SubmitContinue
  <2>1. staged > 0
    BY <1>2 DEF SubmitContinue, CanExtend
  <2>2. AtMost(Rows, staged + Tranche) \in Row /\ staged <= AtMost(Rows, staged + Tranche)
    BY <1>0, <2>1 DEF AtMost, Row
  <2> QED BY <1>2, <2>2, StageToPlans DEF SubmitContinue
<1>3. CASE SubmitWave
  <2>1. WaveEnd \in Row /\ staged < WaveEnd
    BY <1>0, <1>3, WaveEndType DEF SubmitWave
  <2>2. staged <= WaveEnd
    BY <1>0, <2>1, RowType
  <2> QED BY <1>3, <2>1, <2>2, StageToPlans DEF SubmitWave
<1>4. CASE SubmitRetry
  <2>1. Unresolved \in SUBSET Row
    BY DEF Unresolved
  <2>2. Grown(Unresolved)
    BY <1>4, <2>1, PlanGrows DEF SubmitRetry, BatchTypeOK
  <2>3. \A r \in Unresolved : r <= staged /\ r \notin Reused
    BY DEF Unresolved, FailedRows
  <2>4. UNCHANGED <<staged, answer, remote, failed, verified>>
    BY <1>4 DEF SubmitRetry
  <2>5. run' \in [at : {"submit"}, batch : {1}, retry : BOOLEAN]
    BY <1>4 DEF SubmitRetry
  <2>6. ~Have({"planned", "submitted", "uncertain"})
    BY <1>4 DEF SubmitRetry, CanRetry
  <2>7. \A r \in Row : ~(staged < r /\ r <= staged)
    BY <1>0, RowType
  <2> QED BY <1>0, <2>1, <2>2, <2>3, <2>4, <2>5, <2>6, <2>7 DEF Plans, BatchTypeOK
<1> QED BY <1>1, <1>2, <1>3, <1>4 DEF Planning

Remote(n) == [batch : 1..n, ended : BOOLEAN, bad : SUBSET Row]

RunType(n) ==
  [at : {"idle", "stage", "submit", "post", "ack", "collect", "ingest"},
   batch : 0..n + 1, retry : BOOLEAN]

\* Steps that only move the command on, or approve a checkpoint.
Moves ==
  \/ SubmitResume \/ ApproveCheckpoint \/ SubmitSkip \/ SubmitDone
  \/ CollectStart \/ CollectSkip \/ CollectBatch \/ CollectEnd \/ Stop

LEMMA MovesType ==
  ASSUME BatchTypeOK, Moves
  PROVE  /\ UNCHANGED <<staged, waves, batches, answer, failed, remote>>
         /\ run' \in RunType(Len(batches))
         /\ verified' \in 0..staged /\ approved' \subseteq Checkpoint
<1>1. UNCHANGED <<staged, waves, batches, answer, failed, remote>>
  BY DEF Moves, SubmitResume, ApproveCheckpoint, SubmitSkip, SubmitDone,
         CollectStart, CollectSkip, CollectBatch, CollectEnd, Stop
<1>2. run' \in RunType(Len(batches))
  <2>1. Len(batches) \in Nat /\ run \in RunType(Len(batches))
    BY DEF BatchTypeOK, RunType
  <2>2. NoRun \in RunType(Len(batches))
    BY <2>1 DEF NoRun, RunType
  <2>3. \A place \in {"stage", "submit", "collect", "ingest"}, n \in 0..Len(batches) + 1 :
          Move(place, n) => run' \in RunType(Len(batches))
    BY <2>1 DEF Move, RunType
  <2>4. 0 \in 0..Len(batches) + 1 /\ 1 \in 0..Len(batches) + 1
    BY <2>1
  <2>5. /\ run.batch \in 0..Len(batches) + 1
        /\ run.batch <= Len(batches) => run.batch + 1 \in 0..Len(batches) + 1
    BY <2>1 DEF RunType
  <2> QED BY <2>1, <2>2, <2>3, <2>4, <2>5
          DEF Moves, SubmitResume, ApproveCheckpoint, SubmitSkip, SubmitDone,
              CollectStart, CollectSkip, CollectBatch, CollectEnd, Stop
<1>3. verified' \in 0..staged /\ approved' \subseteq Checkpoint
  <2>1. staged \in Nat
    BY BatchAssumption DEF BatchTypeOK
  <2> QED BY <2>1
          DEF BatchTypeOK, Moves, SubmitResume, ApproveCheckpoint, SubmitSkip, SubmitDone,
              CollectStart, CollectSkip, CollectBatch, CollectEnd, Stop
<1> QED BY <1>1, <1>2, <1>3

LEMMA PlanningType ==
  ASSUME BatchTypeOK, FailedRows, Planning
  PROVE  BatchTypeOK'
<1>1. PICK S : Plans(S)
  BY PlanningPlans
<1>2. batches' \in Seq(Batch) /\ Len(batches') >= Len(batches)
  BY <1>1 DEF Plans, Grown
<1>3. Len(batches) \in Nat /\ Len(batches') \in Nat
  BY <1>2 DEF BatchTypeOK
<1>4. 1..Len(batches) \subseteq 1..Len(batches')
  BY <1>2, <1>3
<1>5. remote' \in Seq(Remote(Len(batches')))
  <2>1. Remote(Len(batches)) \subseteq Remote(Len(batches'))
    BY <1>4 DEF Remote
  <2>2. remote \in Seq(Remote(Len(batches)))
    BY DEF BatchTypeOK, Remote
  <2> QED BY <1>1, <2>1, <2>2, WiderSeq DEF Plans
<1>6. failed' \subseteq (1..Len(batches')) \X Row
  BY <1>1, <1>4 DEF Plans, BatchTypeOK
<1>7. run' \in RunType(Len(batches'))
  BY <1>1, <1>3 DEF Plans, RunType
<1>8. waves' \subseteq [first : Row, last : Row] /\ approved' \subseteq Checkpoint
  <2>1. CASE SubmitWave
    <3>1. WaveEnd \in Row /\ staged + 1 \in Row
      BY <2>1, WaveEndType, BatchAssumption DEF SubmitWave, BatchTypeOK, Row
    <3> QED BY <2>1, <3>1 DEF SubmitWave, BatchTypeOK
  <2> QED BY <2>1 DEF Planning, SubmitFirst, SubmitRetry, SubmitContinue, BatchTypeOK
<1>9. staged' \in 0..Rows /\ answer' \in [Row -> {"none", "v1", "v2"}] /\ verified' \in 0..staged'
  BY <1>1, BatchAssumption DEF Plans, BatchTypeOK
<1> QED BY <1>2, <1>5, <1>6, <1>7, <1>8, <1>9 DEF BatchTypeOK, Remote, RunType

\* Where the command is: at a batch of the table whose status says so, when it is
\* at the provider or has its results.
InHand ==
  /\ run.at \in {"submit", "collect"} => run.batch # 0
  /\ run.at \in {"post", "ack"} =>
       run.batch \in 1..Len(batches) /\ batches[run.batch].status = "uncertain"
  /\ run.at = "ingest" =>
       run.batch \in 1..Len(batches) /\ batches[run.batch].status = "submitted"

LEMMA HereType ==
  ASSUME BatchTypeOK, run.batch \in 1..Len(batches),
         NEW place \in {"submit", "post", "ack", "collect", "ingest"},
         NEW n \in {run.batch, run.batch + 1}, Move(place, n)
  PROVE  run' \in RunType(Len(batches))
<1>1. Len(batches) \in Nat /\ run \in RunType(Len(batches))
  BY DEF BatchTypeOK, RunType
<1>2. n \in 0..Len(batches) + 1
  BY <1>1
<1> QED BY <1>1, <1>2 DEF Move, RunType

\* A step that leaves the length of the table has to keep these types.
LEMMA SameLength ==
  ASSUME BatchTypeOK, UNCHANGED <<staged, waves, approved, verified>>,
         batches' \in Seq(Batch), Len(batches') = Len(batches),
         answer' \in [Row -> {"none", "v1", "v2"}],
         failed' \subseteq (1..Len(batches)) \X Row,
         remote' \in Seq(Remote(Len(batches))), run' \in RunType(Len(batches))
  PROVE  BatchTypeOK'
BY DEF BatchTypeOK, Remote, RunType

LEMMA RemoteType ==
  ASSUME BatchTypeOK, NEW k \in 1..Len(remote)
  PROVE  /\ remote[k].batch \in 1..Len(batches) /\ remote[k].ended \in BOOLEAN
         /\ remote[k].bad \subseteq Row
<1>1. remote[k] \in Remote(Len(batches))
  BY ElementType DEF BatchTypeOK, Remote
<1> QED BY <1>1 DEF Remote

LEMMA BatchType ==
  ASSUME BatchTypeOK, NEW n \in 1..Len(batches)
  PROVE  batches[n].status \in Status /\ RowsOf(batches[n]) \subseteq Row
<1>1. batches[n] \in Batch
  BY ElementType DEF BatchTypeOK
<1>2. batches[n].first \in Row /\ batches[n].last \in Row /\ batches[n].status \in Status
  BY <1>1 DEF Batch
<1>3. Rows \in Nat
  BY BatchAssumption
<1> QED BY <1>2, <1>3 DEF RowsOf, Row

\* What the end of the k-th batch at the provider changes.
LEMMA Ended ==
  ASSUME BatchTypeOK, NEW k \in 1..Len(remote), NEW bad \in SUBSET Sent(k),
         remote' = [remote EXCEPT ![k].ended = TRUE, ![k].bad = bad]
  PROVE  /\ remote' \in Seq(Remote(Len(batches))) /\ Len(remote') = Len(remote)
         /\ remote'[k].batch = remote[k].batch /\ remote'[k].ended = TRUE /\ remote'[k].bad = bad
         /\ \A j \in 1..Len(remote) : j # k => remote'[j] = remote[j]
<1> DEFINE r == [remote[k] EXCEPT !.ended = TRUE, !.bad = bad]
<1>1. remote[k] \in Remote(Len(batches)) /\ remote \in Seq(Remote(Len(batches)))
  BY ElementType DEF BatchTypeOK, Remote
<1>2. bad \subseteq Row
  BY RemoteType, BatchType DEF Sent
<1>3. r \in Remote(Len(batches)) /\ r.batch = remote[k].batch /\ r.ended = TRUE /\ r.bad = bad
  BY <1>1, <1>2 DEF Remote
<1>4. remote' = [remote EXCEPT ![k] = r]
  OBVIOUS
<1> HIDE DEF r
<1>5. /\ remote' \in Seq(Remote(Len(batches))) /\ Len(remote') = Len(remote)
      /\ remote'[k] = r
      /\ \A j \in 1..Len(remote) : j # k => remote'[j] = remote[j]
  <2> DEFINE R == Remote(Len(batches))
  <2>1. remote \in Seq(R) /\ r \in R
    BY <1>1, <1>3
  <2> HIDE DEF R
  <2>2. /\ [remote EXCEPT ![k] = r] \in Seq(R) /\ Len([remote EXCEPT ![k] = r]) = Len(remote)
        /\ [remote EXCEPT ![k] = r][k] = r
        /\ \A j \in 1..Len(remote) : j # k => [remote EXCEPT ![k] = r][j] = remote[j]
    BY <2>1, ReplaceAt
  <2> QED BY <1>4, <2>2 DEF R
<1> QED BY <1>3, <1>5

\* A batch that is submitted is at the provider.
Submitted ==
  \A n \in 1..Len(batches) :
    batches[n].status = "submitted" => \E k \in 1..Len(remote) : remote[k].batch = n

LEMMA RemoteOfType ==
  ASSUME Submitted, NEW n \in 1..Len(batches), batches[n].status = "submitted"
  PROVE  RemoteOf(n) \in 1..Len(remote) /\ remote[RemoteOf(n)].batch = n
BY DEF Submitted, RemoteOf

LEMMA TypesStep ==
  ASSUME BatchTypeOK, FailedRows, InHand, Submitted, [BatchNext]_batchVars
  PROVE  BatchTypeOK'
<1>0. /\ Len(batches) \in Nat /\ run \in RunType(Len(batches))
      /\ batches \in Seq(Batch) /\ answer \in [Row -> {"none", "v1", "v2"}]
      /\ failed \subseteq (1..Len(batches)) \X Row
      /\ remote \in Seq(Remote(Len(batches)))
  BY DEF BatchTypeOK, RunType, Remote
<1>1. CASE UNCHANGED batchVars
  BY <1>1 DEF batchVars, BatchTypeOK
<1>2. CASE Planning
  BY <1>2, PlanningType
<1>3. CASE Moves
  BY <1>3, MovesType DEF BatchTypeOK, RunType
<1>4. CASE MarkUncertain
  <2>1. run.batch \in 1..Len(batches)
    BY <1>0, <1>4 DEF MarkUncertain, InHand, RunType
  <2>2. batches' \in Seq(Batch) /\ Len(batches') = Len(batches)
    BY <1>0, <1>4, <2>1, StatusSet DEF MarkUncertain, Status
  <2>3. run' \in RunType(Len(batches))
    BY <1>4, <2>1, HereType DEF MarkUncertain
  <2> QED BY <1>0, <1>4, <2>2, <2>3, SameLength DEF MarkUncertain
<1>5. CASE Post
  <2>1. run.batch \in 1..Len(batches)
    BY <1>5 DEF Post, InHand
  <2>2. remote' \in Seq(Remote(Len(batches)))
    <3>1. [batch |-> run.batch, ended |-> FALSE, bad |-> {}] \in Remote(Len(batches))
      BY <2>1 DEF Remote
    <3> QED BY <1>0, <1>5, <3>1 DEF Post
  <2>3. run' \in RunType(Len(batches))
    BY <1>5, <2>1, HereType DEF Post
  <2> QED BY <1>0, <1>5, <2>2, <2>3, SameLength DEF Post
<1>6. CASE Acknowledge
  <2>1. run.batch \in 1..Len(batches)
    BY <1>6 DEF Acknowledge, InHand
  <2>2. batches' \in Seq(Batch) /\ Len(batches') = Len(batches)
    BY <1>0, <1>6, <2>1, StatusSet DEF Acknowledge, Status
  <2>3. run' \in RunType(Len(batches))
    BY <1>6, <2>1, HereType DEF Acknowledge
  <2> QED BY <1>0, <1>6, <2>2, <2>3, SameLength DEF Acknowledge
<1>7. CASE ProviderEnds
  <2>1. PICK k \in 1..Len(remote) : \E bad \in SUBSET Sent(k) :
          remote' = [remote EXCEPT ![k].ended = TRUE, ![k].bad = bad]
    BY <1>7 DEF ProviderEnds
  <2>2. remote' \in Seq(Remote(Len(batches)))
    BY <2>1, Ended
  <2> QED BY <1>0, <1>7, <2>2, SameLength DEF ProviderEnds
<1>8. CASE IngestFailure
  <2>1. run.batch \in 1..Len(batches)
    BY <1>8 DEF IngestFailure, InHand
  <2>2. BadLeft \subseteq Row
    BY <1>8, RemoteOfType, RemoteType DEF IngestFailure, InHand, BadLeft, Bad
  <2>3. failed' \subseteq (1..Len(batches)) \X Row
    BY <1>0, <1>8, <2>1, <2>2 DEF IngestFailure
  <2> QED BY <1>0, <1>8, <2>3, SameLength DEF IngestFailure
<1>9. CASE IngestAnswer
  <2>1. answer' \in [Row -> {"none", "v1", "v2"}]
    BY <1>0, <1>9 DEF IngestAnswer
  <2> QED BY <1>0, <1>9, <2>1, SameLength DEF IngestAnswer
<1>10. CASE IngestFinish
  <2>1. run.batch \in 1..Len(batches)
    BY <1>10 DEF IngestFinish, InHand
  <2>2. batches' \in Seq(Batch) /\ Len(batches') = Len(batches)
    BY <1>10, BatchFinished
  <2>3. run' \in RunType(Len(batches))
    BY <1>10, <2>1, HereType DEF IngestFinish
  <2> QED BY <1>0, <1>10, <2>2, <2>3, SameLength DEF IngestFinish
<1> QED BY <1>1, <1>2, <1>3, <1>4, <1>5, <1>6, <1>7, <1>8, <1>9, <1>10
        DEF BatchNext, Planning, Moves

-----------------------------------------------------------------------------
(* The order in which batches are posted.                                  *)

\* submit has left all that was planned behind it ...
Walked ==
  run.at \in {"submit", "post", "ack"} =>
    \A n \in 1..Len(batches) : n < run.batch => batches[n].status # "planned"

\* ... so what is planned is the end of the table.
Suffix ==
  \A m, n \in 1..Len(batches) :
    m < n /\ batches[m].status = "planned" => batches[n].status = "planned"

\* What is posted is not planned any more, and what is to be posted now has not been.
Posted == \A k \in 1..Len(remote) : batches[remote[k].batch].status # "planned"

Fresh == run.at = "post" => \A k \in 1..Len(remote) : remote[k].batch < run.batch

InOrder == \A j, k \in 1..Len(remote) : j < k => remote[j].batch < remote[k].batch

\* What is acknowledged was posted, and what is ingested has ended.
AtProvider ==
  /\ run.at = "ack" => \E k \in 1..Len(remote) : remote[k].batch = run.batch
  /\ run.at = "ingest" =>
       \E k \in 1..Len(remote) : remote[k].batch = run.batch /\ remote[k].ended = TRUE

Walk ==
  /\ InHand /\ Walked /\ Suffix /\ Submitted
  /\ Posted /\ Fresh /\ InOrder /\ AtProvider

LEMMA PlansWalk ==
  ASSUME BatchTypeOK, Walk, NEW S, Plans(S)
  PROVE  Walk'
<1>1. /\ Len(batches) \in Nat /\ Len(batches') \in Nat /\ Len(batches) <= Len(batches')
      /\ \A n \in 1..Len(batches) : batches'[n] = batches[n]
      /\ \A n \in (Len(batches) + 1)..Len(batches') : batches'[n].status = "planned"
  BY DEF Plans, Grown, BatchTypeOK
<1>2. \A n \in 1..Len(batches') : n \in 1..Len(batches) \/ n \in (Len(batches) + 1)..Len(batches')
  BY <1>1
<1>3. remote' = remote /\ run'.at = "submit" /\ run'.batch = 1
  BY DEF Plans
<1>4. \A k \in 1..Len(remote) : remote[k].batch \in 1..Len(batches)
  BY RemoteType
<1>5. InHand' /\ Walked'
  BY <1>3 DEF InHand, Walked
<1>6. Suffix'
  <2> SUFFICES ASSUME NEW m \in 1..Len(batches'), NEW n \in 1..Len(batches'), m < n,
                      batches'[m].status = "planned"
               PROVE  batches'[n].status = "planned"
    BY DEF Suffix
  <2>1. CASE n \in 1..Len(batches)
    <3>1. m \in 1..Len(batches)
      BY <1>1, <2>1
    <3> QED BY <1>1, <2>1, <3>1 DEF Walk, Suffix
  <2> QED BY <1>1, <1>2, <2>1
<1>7. Submitted'
  BY <1>1, <1>2, <1>3 DEF Walk, Submitted
<1>8. Posted' /\ Fresh' /\ InOrder' /\ AtProvider'
  BY <1>1, <1>3, <1>4 DEF Walk, Posted, Fresh, InOrder, AtProvider
<1> QED BY <1>5, <1>6, <1>7, <1>8 DEF Walk

LEMMA MovesWalk ==
  ASSUME BatchTypeOK, Walk, Moves
  PROVE  Walk'
<1>1. batches' = batches /\ remote' = remote
  BY MovesType
<1>2. Suffix' /\ Submitted' /\ Posted' /\ InOrder'
  BY <1>1 DEF Walk, Suffix, Submitted, Posted, InOrder
<1>3. run \in RunType(Len(batches)) /\ Len(batches) \in Nat
  BY DEF BatchTypeOK, RunType
<1>4. InHand' /\ Walked' /\ Fresh' /\ AtProvider'
  <2>1. CASE run' = NoRun \/ run'.at = "stage"
    BY <2>1 DEF NoRun, InHand, Walked, Fresh, AtProvider
  <2>2. CASE Move("submit", 1) \/ Move("collect", 1)
    <3>1. run'.at \in {"submit", "collect"} /\ run'.batch = 1
      BY <1>3, <2>2 DEF Move, RunType
    <3> QED BY <1>3, <3>1 DEF InHand, Walked, Fresh, AtProvider
  <2>3. CASE SubmitSkip
    <3>1. /\ run.at = "submit" /\ run.batch \in 1..Len(batches)
          /\ batches[run.batch].status # "planned"
      BY <1>3, <2>3 DEF SubmitSkip, Walk, InHand, Left, SubmitNow, RunType
    <3>2. run'.at = "submit" /\ run'.batch = run.batch + 1
      BY <1>3, <2>3 DEF SubmitSkip, Move, RunType
    <3>3. \A n \in 1..Len(batches) : n < run.batch + 1 => n < run.batch \/ n = run.batch
      BY <3>1
    <3>4. Walked'
      BY <1>1, <3>1, <3>2, <3>3 DEF Walk, Walked
    <3> QED BY <3>1, <3>2, <3>4 DEF InHand, Fresh, AtProvider
  <2>4. CASE CollectSkip
    <3>1. run'.at = "collect" /\ run'.batch = run.batch + 1 /\ run.batch \in Nat
      BY <1>3, <2>4 DEF CollectSkip, Move, RunType
    <3> QED BY <3>1 DEF InHand, Walked, Fresh, AtProvider
  <2>5. CASE CollectBatch
    <3>1. /\ run.at = "collect" /\ run.batch \in 1..Len(batches)
          /\ batches[run.batch].status = "submitted"
          /\ remote[RemoteOf(run.batch)].ended
      BY <1>3, <2>5 DEF CollectBatch, Walk, InHand, SubmitNow, RunType
    <3>2. run'.at = "ingest" /\ run'.batch = run.batch
      BY <1>3, <2>5 DEF CollectBatch, Move, RunType
    <3>3. RemoteOf(run.batch) \in 1..Len(remote) /\ remote[RemoteOf(run.batch)].batch = run.batch
      BY <3>1, RemoteOfType DEF Walk
    <3>4. remote[RemoteOf(run.batch)].ended = TRUE
      BY <3>1, <3>3, RemoteType
    <3>5. \E k \in 1..Len(remote) : remote[k].batch = run.batch /\ remote[k].ended = TRUE
      BY <3>3, <3>4
    <3> QED BY <1>1, <3>1, <3>2, <3>5 DEF InHand, Walked, Fresh, AtProvider
  <2>6. \/ run' = NoRun \/ run'.at = "stage" \/ Move("submit", 1) \/ Move("collect", 1)
        \/ SubmitSkip \/ CollectSkip \/ CollectBatch
    BY <1>3 DEF Moves, SubmitResume, ApproveCheckpoint, SubmitDone, CollectStart,
                CollectEnd, Stop, Move, RunType
  <2> QED BY <2>1, <2>2, <2>3, <2>4, <2>5, <2>6
<1> QED BY <1>2, <1>4 DEF Walk

LEMMA MarkWalk ==
  ASSUME BatchTypeOK, Walk, MarkUncertain
  PROVE  Walk'
<1> DEFINE b == run.batch
<1>1. /\ run \in RunType(Len(batches)) /\ Len(batches) \in Nat /\ batches \in Seq(Batch)
      /\ run.at = "submit" /\ b <= Len(batches) /\ batches[b].status = "planned"
      /\ batches' = [batches EXCEPT ![b].status = "uncertain"] /\ remote' = remote
  BY DEF BatchTypeOK, RunType, MarkUncertain, Submittable, SubmitNow
<1>2. b \in 1..Len(batches)
  BY <1>1 DEF Walk, InHand, RunType
<1>3. run'.at = "post" /\ run'.batch = b
  BY <1>1 DEF MarkUncertain, Move, RunType
<1>4. /\ Len(batches') = Len(batches) /\ batches'[b].status = "uncertain"
      /\ \A m \in 1..Len(batches) : m # b => batches'[m].status = batches[m].status
  BY <1>1, <1>2, StatusSet DEF Status
<1>5. \A n \in 1..Len(batches) : n < b => batches[n].status # "planned"
  BY <1>1 DEF Walk, Walked
<1>6. \A n \in 1..Len(batches) : b < n => batches[n].status = "planned"
  BY <1>1, <1>2 DEF Walk, Suffix
<1>7. \A k \in 1..Len(remote) :
        /\ remote[k].batch \in 1..Len(batches) /\ remote[k].batch < b
        /\ batches[remote[k].batch].status # "planned"
  <2>1. \A k \in 1..Len(remote) :
          /\ remote[k].batch \in 1..Len(batches) /\ remote[k].batch # b
          /\ batches[remote[k].batch].status # "planned"
    BY <1>1, RemoteType DEF Walk, Posted
  <2> QED BY <1>1, <1>2, <1>6, <2>1
<1> HIDE DEF b
<1>8. InHand'
  BY <1>2, <1>3, <1>4 DEF InHand
<1>9. Walked'
  BY <1>2, <1>3, <1>4, <1>5 DEF Walked
<1>10. Suffix'
  BY <1>1, <1>2, <1>4, <1>5, <1>6 DEF Suffix
<1>11. Submitted'
  BY <1>1, <1>4 DEF Walk, Submitted
<1>12. Posted' /\ Fresh' /\ InOrder' /\ AtProvider'
  BY <1>1, <1>2, <1>3, <1>4, <1>7 DEF Walk, Posted, Fresh, InOrder, AtProvider
<1> QED BY <1>8, <1>9, <1>10, <1>11, <1>12 DEF Walk

LEMMA PostWalk ==
  ASSUME BatchTypeOK, Walk, Post
  PROVE  Walk'
<1> DEFINE b == run.batch
           new == [batch |-> b, ended |-> FALSE, bad |-> {}]
<1>1. /\ run.at = "post" /\ b \in 1..Len(batches) /\ batches[b].status = "uncertain"
      /\ batches' = batches /\ remote' = Append(remote, new)
      /\ run'.at = "ack" /\ run'.batch = b
      /\ Len(batches) \in Nat
  BY DEF Post, Walk, InHand, Move, BatchTypeOK
<1>2. /\ Len(remote) \in Nat /\ Len(remote') = Len(remote) + 1 /\ remote'[Len(remote) + 1] = new
      /\ \A k \in 1..Len(remote) : remote'[k] = remote[k]
  BY <1>1 DEF BatchTypeOK
<1>3. \A k \in 1..Len(remote') : k \in 1..Len(remote) \/ k = Len(remote) + 1
  BY <1>2
<1>4. new.batch = b
  OBVIOUS
<1> HIDE DEF new, b
<1>5. \A k \in 1..Len(remote) : remote[k].batch < b
  BY <1>1 DEF Walk, Fresh, b
<1>6. InHand' /\ Fresh' /\ Suffix'
  BY <1>1 DEF InHand, Fresh, Walk, Suffix
<1>7. Walked'
  BY <1>1 DEF Walk, Walked, b
<1>8. Submitted'
  <2>1. \A k \in 1..Len(remote) : k \in 1..Len(remote')
    BY <1>2
  <2> QED BY <1>1, <1>2, <2>1 DEF Walk, Submitted
<1>9. Posted'
  BY <1>1, <1>2, <1>3, <1>4 DEF Walk, Posted
<1>10. InOrder'
  <2> SUFFICES ASSUME NEW j \in 1..Len(remote'), NEW k \in 1..Len(remote'), j < k
               PROVE  remote'[j].batch < remote'[k].batch
    BY DEF InOrder
  <2>1. j \in 1..Len(remote)
    BY <1>2
  <2> QED BY <1>2, <1>3, <1>4, <1>5, <2>1 DEF Walk, InOrder
<1>11. AtProvider'
  BY <1>1, <1>2, <1>4 DEF AtProvider
<1> QED BY <1>6, <1>7, <1>8, <1>9, <1>10, <1>11 DEF Walk

LEMMA AckWalk ==
  ASSUME BatchTypeOK, Walk, Acknowledge
  PROVE  Walk'
<1> DEFINE b == run.batch
<1>1. /\ run.at = "ack" /\ b \in 1..Len(batches) /\ batches[b].status = "uncertain"
      /\ batches' = [batches EXCEPT ![b].status = "submitted"] /\ remote' = remote
      /\ run'.at = "submit" /\ run'.batch = b + 1
      /\ Len(batches) \in Nat /\ batches \in Seq(Batch)
  BY DEF Acknowledge, Walk, InHand, Move, BatchTypeOK
<1>2. /\ Len(batches') = Len(batches) /\ batches'[b].status = "submitted"
      /\ \A m \in 1..Len(batches) : m # b => batches'[m].status = batches[m].status
  BY <1>1, StatusSet DEF Status
<1>3. \A n \in 1..Len(batches) : n < b => batches[n].status # "planned"
  BY <1>1 DEF Walk, Walked
<1>4. \E k \in 1..Len(remote) : remote[k].batch = b
  BY <1>1 DEF Walk, AtProvider
<1>5. \A k \in 1..Len(remote) : remote[k].batch \in 1..Len(batches)
  BY RemoteType
<1> HIDE DEF b
<1>6. InHand'
  BY <1>1 DEF InHand
<1>7. Walked'
  <2>1. \A n \in 1..Len(batches) : n < b + 1 => n < b \/ n = b
    BY <1>1
  <2> QED BY <1>1, <1>2, <1>3, <2>1 DEF Walked
<1>8. Suffix'
  BY <1>1, <1>2 DEF Walk, Suffix
<1>9. Submitted'
  BY <1>1, <1>2, <1>4 DEF Walk, Submitted
<1>10. Posted' /\ Fresh' /\ InOrder' /\ AtProvider'
  BY <1>1, <1>2, <1>5 DEF Walk, Posted, Fresh, InOrder, AtProvider
<1> QED BY <1>6, <1>7, <1>8, <1>9, <1>10 DEF Walk

LEMMA EndsWalk ==
  ASSUME BatchTypeOK, Walk, ProviderEnds
  PROVE  Walk'
<1>1. PICK k \in 1..Len(remote) : \E bad \in SUBSET Sent(k) :
        remote' = [remote EXCEPT ![k].ended = TRUE, ![k].bad = bad]
  BY DEF ProviderEnds
<1>2. /\ Len(remote') = Len(remote) /\ remote'[k].ended = TRUE
      /\ \A j \in 1..Len(remote) : remote'[j].batch = remote[j].batch
      /\ \A j \in 1..Len(remote) : j # k => remote'[j] = remote[j]
  BY <1>1, Ended
<1>3. batches' = batches /\ run' = run
  BY DEF ProviderEnds
<1>4. InHand' /\ Walked' /\ Suffix'
  BY <1>3 DEF Walk, InHand, Walked, Suffix
<1>5. Submitted'
  BY <1>2, <1>3 DEF Walk, Submitted
<1>6. Posted' /\ Fresh' /\ InOrder'
  BY <1>2, <1>3 DEF Walk, Posted, Fresh, InOrder
<1>7. AtProvider'
  BY <1>2, <1>3 DEF Walk, AtProvider
<1> QED BY <1>4, <1>5, <1>6, <1>7 DEF Walk

LEMMA FinishWalk ==
  ASSUME BatchTypeOK, Walk, IngestFinish
  PROVE  Walk'
<1> DEFINE b == run.batch
<1>1. /\ run.at = "ingest" /\ b \in 1..Len(batches) /\ batches[b].status = "submitted"
      /\ remote' = remote /\ run'.at = "collect" /\ run'.batch = b + 1
      /\ Len(batches) \in Nat
  BY DEF IngestFinish, Walk, InHand, Move, BatchTypeOK
<1>2. Len(batches') = Len(batches)
  BY BatchFinished
<1>3. ASSUME NEW n \in 1..Len(batches)
      PROVE  /\ batches'[n].status = "planned" <=> batches[n].status = "planned"
             /\ batches'[n].status = "submitted" => batches[n].status = "submitted"
  <2>1. LET status == IF n = run.batch THEN IngestedStatus ELSE batches[n].status
        IN  batches'[n].status = IF status = "partial" /\ Resolved(n) THEN "resolved" ELSE status
    BY BatchFinished
  <2>2. IngestedStatus \in {"complete", "partial"}
    BY DEF IngestedStatus
  <2> QED BY <1>1, <2>1, <2>2
<1>4. \A k \in 1..Len(remote) : remote[k].batch \in 1..Len(batches)
  BY RemoteType
<1> HIDE DEF b
<1>5. InHand' /\ Walked'
  BY <1>1 DEF InHand, Walked
<1>6. Suffix' /\ Submitted'
  BY <1>1, <1>2, <1>3 DEF Walk, Suffix, Submitted
<1>7. Posted' /\ Fresh' /\ InOrder' /\ AtProvider'
  BY <1>1, <1>2, <1>3, <1>4 DEF Walk, Posted, Fresh, InOrder, AtProvider
<1> QED BY <1>5, <1>6, <1>7 DEF Walk

LEMMA WalkStep ==
  ASSUME BatchTypeOK, FailedRows, Walk, [BatchNext]_batchVars
  PROVE  Walk'
<1>1. CASE Planning
  BY <1>1, PlanningPlans, PlansWalk
<1>2. CASE UNCHANGED <<batches, remote, run>>
  BY <1>2 DEF Walk, InHand, Walked, Suffix, Submitted, Posted, Fresh, InOrder, AtProvider
<1>3. CASE IngestFailure \/ IngestAnswer \/ UNCHANGED batchVars
  BY <1>2, <1>3 DEF IngestFailure, IngestAnswer, batchVars
<1> QED BY <1>1, <1>3, MovesWalk, MarkWalk, PostWalk, AckWalk, EndsWalk, FinishWalk
        DEF BatchNext, Planning, Moves

-----------------------------------------------------------------------------
(* Which rows the batches share.                                           *)

\* A failure that is stored was reported by the provider, of a row it was sent.
BadSent == \A k \in 1..Len(remote) : remote[k].bad \subseteq Sent(k)

FailedTrue ==
  \A f \in failed :
    \E k \in 1..Len(remote) :
      remote[k].batch = f[1] /\ remote[k].ended = TRUE /\ f[2] \in remote[k].bad

\* Only staged rows that v1 does not answer are in batches.
StagedRows ==
  \A n \in 1..Len(batches) : \A r \in RowsOf(batches[n]) : r <= staged /\ r \notin Reused

\* A row of two batches failed in the first.
Overlap ==
  \A m, n \in 1..Len(batches) :
    m < n => \A r \in RowsOf(batches[m]) \cap RowsOf(batches[n]) : <<m, r>> \in failed

Shared == BadSent /\ FailedTrue /\ StagedRows /\ Overlap /\ NothingDropped

LEMMA FailedInBatch ==
  ASSUME BatchTypeOK, BadSent, FailedTrue, NEW f \in failed
  PROVE  f[1] \in 1..Len(batches) /\ f[2] \in RowsOf(batches[f[1]])
BY RemoteType DEF BadSent, FailedTrue, Sent

LEMMA FailedStaged ==
  ASSUME BatchTypeOK, Shared
  PROVE  FailedRows
BY FailedInBatch DEF Shared, StagedRows, FailedRows

LEMMA PlansShared ==
  ASSUME BatchTypeOK, Shared, NEW S, Plans(S)
  PROVE  Shared'
<1>0. Grown(S)
  BY DEF Plans
<1>1. /\ Len(batches) \in Nat /\ Len(batches') \in Nat /\ Len(batches) <= Len(batches')
      /\ \A n \in 1..Len(batches) : batches'[n] = batches[n]
      /\ \A n \in (Len(batches) + 1)..Len(batches') :
           batches'[n].status = "planned" /\ RowsOf(batches'[n]) \subseteq S
      /\ \A m, n \in (Len(batches) + 1)..Len(batches') :
           m < n => RowsOf(batches'[m]) \cap RowsOf(batches'[n]) = {}
  <2>1. Len(batches) \in Nat /\ Len(batches') \in Nat /\ Len(batches) <= Len(batches')
    BY <1>0 DEF Grown, BatchTypeOK
  <2> QED BY <1>0, <2>1, Zenon DEF Grown
<1>2. \A n \in 1..Len(batches') : n \in 1..Len(batches) \/ n \in (Len(batches) + 1)..Len(batches')
  BY <1>1
<1>3. /\ remote' = remote /\ failed' = failed /\ S \in SUBSET Row
      /\ staged \in Nat /\ staged' \in Nat /\ staged <= staged'
      /\ \A r \in Row : answer[r] # "none" => answer'[r] # "none"
      /\ \A r \in S : r <= staged' /\ r \notin Reused
  <2>1. \A r \in Row : answer[r] # "none" => answer'[r] # "none"
    BY DEF Plans
  <2> QED BY <2>1, BatchAssumption DEF Plans, BatchTypeOK
<1>4. \A n \in 1..Len(batches) : RowsOf(batches[n]) \subseteq Row
  BY BatchType
<1>5. \A k \in 1..Len(remote) : remote[k].batch \in 1..Len(batches)
  BY RemoteType
<1>6. BadSent' /\ FailedTrue'
  BY <1>1, <1>3, <1>5 DEF Shared, BadSent, FailedTrue, Sent
<1>7. StagedRows'
  <2> SUFFICES ASSUME NEW n \in 1..Len(batches'), NEW r \in RowsOf(batches'[n])
               PROVE  r <= staged' /\ r \notin Reused
    BY DEF StagedRows
  <2>1. CASE n \in 1..Len(batches)
    <3>1. r \in RowsOf(batches[n]) /\ r \in Nat
      BY <1>1, <1>4, <2>1, RowType
    <3>2. r <= staged /\ r \notin Reused
      BY <2>1, <3>1 DEF Shared, StagedRows
    <3> QED BY <1>3, <3>1, <3>2
  <2>2. CASE n \in (Len(batches) + 1)..Len(batches')
    BY <1>1, <1>3, <2>2
  <2> QED BY <1>2, <2>1, <2>2
<1>8. NothingDropped'
  <2> SUFFICES ASSUME NEW n \in 1..Len(batches'), NEW r \in RowsOf(batches'[n])
               PROVE  /\ batches'[n].status = "partial" => answer'[r] # "none" \/ <<n, r>> \in failed'
                      /\ batches'[n].status \in {"complete", "resolved"} => answer'[r] # "none"
    BY DEF NothingDropped
  <2>1. CASE n \in 1..Len(batches)
    <3>1. batches'[n] = batches[n] /\ r \in RowsOf(batches[n]) /\ r \in Row
      BY <1>1, <1>4, <2>1
    <3> QED BY <1>3, <2>1, <3>1 DEF Shared, NothingDropped
  <2>2. CASE n \in (Len(batches) + 1)..Len(batches')
    BY <1>1, <2>2
  <2> QED BY <1>2, <2>1, <2>2
<1>9. Overlap'
  <2> SUFFICES ASSUME NEW m \in 1..Len(batches'), NEW n \in 1..Len(batches'), m < n,
                      NEW r \in RowsOf(batches'[m]) \cap RowsOf(batches'[n])
               PROVE  <<m, r>> \in failed
    BY <1>3 DEF Overlap
  <2>1. CASE n \in 1..Len(batches)
    <3>1. m \in 1..Len(batches)
      BY <1>1, <2>1
    <3> QED BY <1>1, <2>1, <3>1 DEF Shared, Overlap
  <2>2. CASE n \in (Len(batches) + 1)..Len(batches') /\ m \in (Len(batches) + 1)..Len(batches')
    BY <1>1, <2>2
  <2>3. CASE n \in (Len(batches) + 1)..Len(batches') /\ m \in 1..Len(batches)
    <3>1. r \in S /\ r \in Row /\ r \in RowsOf(batches[m])
      BY <1>1, <1>3, <2>3
    <3>2. r <= staged
      BY <2>3, <3>1 DEF Shared, StagedRows
    <3>3. S = Unresolved /\ ~Have({"planned", "submitted", "uncertain"})
      <4>1. ~(r > staged)
        BY <1>3, <3>1, <3>2, RowType
      <4> QED BY <3>1, <4>1 DEF Plans
    <3>4. answer[r] = "none"
      BY <3>1, <3>3 DEF Unresolved
    <3>5. batches[m].status \in {"complete", "partial", "resolved"}
      BY <2>3, <3>3, BatchType DEF Have, Status
    <3> QED BY <2>3, <3>1, <3>4, <3>5 DEF Shared, NothingDropped
  <2> QED BY <1>2, <2>1, <2>2, <2>3
<1> QED BY <1>6, <1>7, <1>8, <1>9 DEF Shared

\* Steps that change no batch's rows, and add neither batches nor failures.
LEMMA SameRows ==
  ASSUME BatchTypeOK, Shared, UNCHANGED <<staged, failed>>, Len(batches') = Len(batches),
         \A n \in 1..Len(batches) : RowsOf(batches'[n]) = RowsOf(batches[n])
  PROVE  StagedRows' /\ Overlap'
BY DEF Shared, StagedRows, Overlap

LEMMA SameRemote ==
  ASSUME BatchTypeOK, Shared, UNCHANGED <<failed, remote>>, Len(batches') = Len(batches),
         \A n \in 1..Len(batches) : RowsOf(batches'[n]) = RowsOf(batches[n])
  PROVE  BadSent' /\ FailedTrue'
<1>1. \A k \in 1..Len(remote) : remote[k].batch \in 1..Len(batches)
  BY RemoteType
<1> QED BY <1>1 DEF Shared, BadSent, FailedTrue, Sent

\* One batch gets a status that closes nothing.
LEMMA StatusShared ==
  ASSUME BatchTypeOK, Shared, NEW n \in 1..Len(batches), NEW status \in {"uncertain", "submitted"},
         batches' = [batches EXCEPT ![n].status = status],
         UNCHANGED <<staged, answer, failed, remote>>
  PROVE  Shared'
<1>1. /\ Len(batches') = Len(batches) /\ batches'[n].status = status
      /\ \A m \in 1..Len(batches) :
           /\ m # n => batches'[m].status = batches[m].status
           /\ RowsOf(batches'[m]) = RowsOf(batches[m])
  BY StatusSet DEF BatchTypeOK, Status, RowsOf
<1>2. NothingDropped'
  BY <1>1 DEF Shared, NothingDropped
<1> QED BY <1>1, <1>2, SameRows, SameRemote DEF Shared

LEMMA PostShared ==
  ASSUME BatchTypeOK, Shared, Post
  PROVE  Shared'
<1> DEFINE new == [batch |-> run.batch, ended |-> FALSE, bad |-> {}]
<1>1. /\ remote' = Append(remote, new) /\ UNCHANGED <<staged, batches, answer, failed>>
      /\ remote \in Seq(Remote(Len(batches)))
  BY DEF Post, BatchTypeOK, Remote
<1>2. /\ Len(remote) \in Nat /\ Len(remote') = Len(remote) + 1 /\ remote'[Len(remote) + 1] = new
      /\ \A k \in 1..Len(remote) : remote'[k] = remote[k] /\ k \in 1..Len(remote')
  BY <1>1
<1>3. \A k \in 1..Len(remote') : k \in 1..Len(remote) \/ k = Len(remote) + 1
  BY <1>2
<1>4. new.bad = {}
  OBVIOUS
<1> HIDE DEF new
<1>5. BadSent'
  <2> SUFFICES ASSUME NEW k \in 1..Len(remote')
               PROVE  remote'[k].bad \subseteq RowsOf(batches[remote'[k].batch])
    BY <1>1 DEF BadSent, Sent
  <2> QED BY <1>2, <1>3, <1>4 DEF Shared, BadSent, Sent
<1>6. FailedTrue'
  BY <1>1, <1>2 DEF Shared, FailedTrue
<1> QED BY <1>1, <1>5, <1>6 DEF Shared, StagedRows, Overlap, NothingDropped

LEMMA EndsShared ==
  ASSUME BatchTypeOK, Shared, ProviderEnds
  PROVE  Shared'
<1>1. PICK k \in 1..Len(remote) : \E bad \in SUBSET Sent(k) :
        ~remote[k].ended /\ remote' = [remote EXCEPT ![k].ended = TRUE, ![k].bad = bad]
  BY DEF ProviderEnds
<1>2. PICK bad \in SUBSET Sent(k) : remote' = [remote EXCEPT ![k].ended = TRUE, ![k].bad = bad]
  BY <1>1
<1>3. /\ Len(remote') = Len(remote) /\ remote'[k].batch = remote[k].batch /\ remote'[k].bad = bad
      /\ \A j \in 1..Len(remote) : j # k => remote'[j] = remote[j]
  BY <1>2, Ended
<1>4. UNCHANGED <<staged, batches, answer, failed>>
  BY DEF ProviderEnds
<1>5. remote[k].ended # TRUE
  BY <1>1
<1>6. BadSent'
  <2> SUFFICES ASSUME NEW j \in 1..Len(remote)
               PROVE  remote'[j].bad \subseteq RowsOf(batches[remote'[j].batch])
    BY <1>3, <1>4 DEF BadSent, Sent
  <2>1. CASE j = k
    BY <1>3, <2>1 DEF Sent
  <2>2. CASE j # k
    BY <1>3, <2>2 DEF Shared, BadSent, Sent
  <2> QED BY <2>1, <2>2
<1>7. FailedTrue'
  <2> SUFFICES ASSUME NEW f \in failed
               PROVE  \E j \in 1..Len(remote') :
                        /\ remote'[j].batch = f[1] /\ remote'[j].ended = TRUE
                        /\ f[2] \in remote'[j].bad
    BY <1>4 DEF FailedTrue
  <2>1. PICK j \in 1..Len(remote) :
          remote[j].batch = f[1] /\ remote[j].ended = TRUE /\ f[2] \in remote[j].bad
    BY DEF Shared, FailedTrue
  <2>2. remote'[j] = remote[j] /\ j \in 1..Len(remote')
    BY <1>3, <1>5, <2>1
  <2> QED BY <2>1, <2>2
<1> QED BY <1>4, <1>6, <1>7 DEF Shared, StagedRows, Overlap, NothingDropped

\* What is in hand at an ingest: the one batch of the provider with that number.
LEMMA HandIsRemote ==
  ASSUME BatchTypeOK, Walk, run.at = "ingest"
  PROVE  /\ run.batch \in 1..Len(batches) /\ batches[run.batch].status = "submitted"
         /\ RemoteOf(run.batch) \in 1..Len(remote)
         /\ remote[RemoteOf(run.batch)].batch = run.batch
         /\ remote[RemoteOf(run.batch)].ended = TRUE
<1>1. run.batch \in 1..Len(batches) /\ batches[run.batch].status = "submitted"
  BY DEF Walk, InHand
<1>2. RemoteOf(run.batch) \in 1..Len(remote) /\ remote[RemoteOf(run.batch)].batch = run.batch
  BY <1>1, RemoteOfType DEF Walk
<1>3. PICK k \in 1..Len(remote) : remote[k].batch = run.batch /\ remote[k].ended = TRUE
  BY DEF Walk, AtProvider
<1>4. ~(k < RemoteOf(run.batch)) /\ ~(RemoteOf(run.batch) < k)
  <2>1. run.batch \in Nat
    BY <1>1
  <2> QED BY <1>2, <1>3, <2>1 DEF Walk, InOrder
<1>5. k = RemoteOf(run.batch)
  BY <1>2, <1>3, <1>4
<1> QED BY <1>1, <1>2, <1>3, <1>5

LEMMA FailureShared ==
  ASSUME BatchTypeOK, Walk, Shared, IngestFailure
  PROVE  Shared'
<1>1. PICK r \in BadLeft : failed' = failed \cup {<<run.batch, r>>}
  BY DEF IngestFailure
<1>2. UNCHANGED <<staged, batches, answer, remote>> /\ run.at = "ingest"
  BY DEF IngestFailure
<1>3. \E k \in 1..Len(remote) :
        remote[k].batch = run.batch /\ remote[k].ended = TRUE /\ r \in remote[k].bad
  BY <1>2, HandIsRemote DEF BadLeft, Bad
<1>4. BadSent' /\ StagedRows'
  BY <1>2 DEF Shared, BadSent, StagedRows, Sent
<1>5. FailedTrue'
  BY <1>1, <1>2, <1>3 DEF Shared, FailedTrue
<1>6. Overlap' /\ NothingDropped'
  BY <1>1, <1>2 DEF Shared, Overlap, NothingDropped
<1> QED BY <1>4, <1>5, <1>6 DEF Shared

LEMMA AnswerShared ==
  ASSUME BatchTypeOK, Shared, IngestAnswer
  PROVE  Shared'
<1>1. PICK r : answer' = [answer EXCEPT ![r] = "v2"]
  BY DEF IngestAnswer
<1>2. UNCHANGED <<staged, batches, failed, remote>>
  BY DEF IngestAnswer
<1>3. \A q \in Row : answer[q] # "none" => answer'[q] # "none"
  BY <1>1 DEF BatchTypeOK
<1>4. NothingDropped'
  <2> SUFFICES ASSUME NEW n \in 1..Len(batches), NEW q \in RowsOf(batches[n])
               PROVE  /\ batches[n].status = "partial" => answer'[q] # "none" \/ <<n, q>> \in failed
                      /\ batches[n].status \in {"complete", "resolved"} => answer'[q] # "none"
    BY <1>2 DEF NothingDropped
  <2>1. q \in Row
    BY BatchType
  <2> QED BY <1>3, <2>1 DEF Shared, NothingDropped
<1> QED BY <1>2, <1>4 DEF Shared, BadSent, FailedTrue, StagedRows, Overlap, Sent

\* A batch is closed when each of its rows has an answer or a failure that is stored.
LEMMA FinishShared ==
  ASSUME BatchTypeOK, Walk, Shared, IngestFinish
  PROVE  Shared'
<1> DEFINE b == run.batch
<1>1. /\ run.at = "ingest" /\ BadLeft = {} /\ GoodLeft = {}
      /\ UNCHANGED <<staged, answer, failed, remote>>
  BY DEF IngestFinish
<1>2. Len(batches') = Len(batches) /\ \A n \in 1..Len(batches) :
        RowsOf(batches'[n]) = RowsOf(batches[n])
  BY BatchFinished DEF RowsOf
<1>3. \A r \in RowsOf(batches[b]) :
        answer[r] # "none" \/ (r \in Bad /\ <<b, r>> \in failed)
  BY <1>1 DEF BadLeft, GoodLeft
<1>4. NothingDropped'
  <2> SUFFICES ASSUME NEW n \in 1..Len(batches), NEW r \in RowsOf(batches[n])
               PROVE  /\ batches'[n].status = "partial" => answer[r] # "none" \/ <<n, r>> \in failed
                      /\ batches'[n].status \in {"complete", "resolved"} => answer[r] # "none"
    BY <1>1, <1>2 DEF NothingDropped
  <2> DEFINE status == IF n = b THEN IngestedStatus ELSE batches[n].status
  <2>1. batches'[n].status = IF status = "partial" /\ Resolved(n) THEN "resolved" ELSE status
    BY BatchFinished
  <2>2. r \in Row
    BY BatchType
  <2>3. /\ status = "partial" => answer[r] # "none" \/ <<n, r>> \in failed
        /\ status \in {"complete", "resolved"} => answer[r] # "none"
    <3>1. CASE n = b
      BY <1>3, <3>1 DEF IngestedStatus
    <3>2. CASE n # b
      BY <3>2 DEF Shared, NothingDropped
    <3> QED BY <3>1, <3>2
  <2>4. Resolved(n) /\ <<n, r>> \in failed => answer[r] # "none"
    BY <2>2 DEF Resolved
  <2> HIDE DEF status
  <2> QED BY <2>1, <2>3, <2>4
<1> QED BY <1>1, <1>2, <1>4, SameRows, SameRemote DEF Shared

LEMMA SharedStep ==
  ASSUME BatchTypeOK, Walk, Shared, [BatchNext]_batchVars
  PROVE  Shared'
<1>1. CASE Planning
  BY <1>1, FailedStaged, PlanningPlans, PlansShared
<1>2. CASE UNCHANGED <<staged, batches, answer, failed, remote>>
  BY <1>2 DEF Shared, BadSent, FailedTrue, StagedRows, Overlap, NothingDropped, Sent
<1>3. CASE Moves \/ UNCHANGED batchVars
  BY <1>2, <1>3, MovesType DEF batchVars
<1>4. CASE MarkUncertain
  <2>1. run.batch \in 1..Len(batches)
    BY <1>4 DEF MarkUncertain, Walk, InHand, BatchTypeOK
  <2> QED BY <1>4, <2>1, StatusShared DEF MarkUncertain
<1>5. CASE Acknowledge
  <2>1. run.batch \in 1..Len(batches)
    BY <1>5 DEF Acknowledge, Walk, InHand
  <2> QED BY <1>5, <2>1, StatusShared DEF Acknowledge
<1> QED BY <1>1, <1>3, <1>4, <1>5, PostShared, EndsShared, FailureShared, AnswerShared,
           FinishShared
        DEF BatchNext, Planning, Moves


-----------------------------------------------------------------------------
(* Rows and their results.                                                 *)

\* A staged row has a result or is in a batch.
Covered ==
  \A r \in Row :
    r <= staged => answer[r] # "none" \/ \E n \in 1..Len(batches) : r \in RowsOf(batches[n])

VerifiedAnswered == \A r \in Row : r <= verified => answer[r] # "none"

\* A result of ours is one the provider returned.
Returned ==
  \A r \in Row :
    answer[r] = "v2" =>
      \E k \in 1..Len(remote) : remote[k].ended /\ r \in Sent(k) \ remote[k].bad

Whole == Covered /\ VerifiedAnswered /\ Returned

LEMMA PlansWhole ==
  ASSUME BatchTypeOK, Whole, NEW S, Plans(S)
  PROVE  Whole'
<1>0. Grown(S)
  BY DEF Plans
<1>1. /\ Len(batches) \in Nat /\ Len(batches') \in Nat /\ Len(batches) <= Len(batches')
      /\ \A n \in 1..Len(batches) : batches'[n] = batches[n] /\ n \in 1..Len(batches')
      /\ \A r \in S : \E n \in (Len(batches) + 1)..Len(batches') : r \in RowsOf(batches'[n])
      /\ \A n \in (Len(batches) + 1)..Len(batches') : n \in 1..Len(batches')
  <2>1. Len(batches) \in Nat /\ Len(batches') \in Nat /\ Len(batches) <= Len(batches')
    BY <1>0 DEF Grown, BatchTypeOK
  <2>2. /\ \A n \in 1..Len(batches) : n \in 1..Len(batches')
        /\ \A n \in (Len(batches) + 1)..Len(batches') : n \in 1..Len(batches')
    BY <2>1
  <2> QED BY <1>0, <2>1, <2>2, Zenon DEF Grown
<1>2. /\ remote' = remote /\ verified' = verified
      /\ \A r \in Row : answer'[r] \in {answer[r], "v1"}
      /\ \A r \in Row : staged < r /\ r <= staged' => answer'[r] # "none" \/ r \in S
  BY DEF Plans
<1>3. staged \in Nat /\ \A r \in Row : r \in Nat
  BY RowType, BatchAssumption DEF BatchTypeOK
<1>4. Covered'
  <2> SUFFICES ASSUME NEW r \in Row, r <= staged'
               PROVE  answer'[r] # "none" \/ \E n \in 1..Len(batches') : r \in RowsOf(batches'[n])
    BY DEF Covered
  <2>1. CASE r <= staged
    <3>1. CASE answer[r] # "none"
      BY <1>2, <3>1
    <3>2. CASE \E n \in 1..Len(batches) : r \in RowsOf(batches[n])
      BY <1>1, <3>2
    <3> QED BY <2>1, <3>1, <3>2 DEF Whole, Covered
  <2>2. CASE staged < r
    <3>1. CASE r \in S
      BY <1>1, <3>1
    <3> QED BY <1>2, <2>2, <3>1
  <2> QED BY <1>3, <2>1, <2>2
<1>5. VerifiedAnswered'
  <2>1. \A r \in Row : answer[r] # "none" => answer'[r] # "none"
    BY <1>2
  <2> QED BY <1>2, <2>1 DEF Whole, VerifiedAnswered
<1>6. Returned'
  <2>1. \A r \in Row : answer'[r] = "v2" => answer[r] = "v2"
    BY <1>2
  <2>2. \A k \in 1..Len(remote) : batches'[remote[k].batch] = batches[remote[k].batch]
    BY <1>1, RemoteType
  <2> QED BY <1>2, <2>1, <2>2 DEF Whole, Returned, Sent
<1> QED BY <1>4, <1>5, <1>6 DEF Whole

\* Steps that change no batch's rows and no answer.
LEMMA SameWhole ==
  ASSUME BatchTypeOK, Whole, UNCHANGED <<staged, answer, verified, remote>>,
         Len(batches') = Len(batches),
         \A n \in 1..Len(batches) : RowsOf(batches'[n]) = RowsOf(batches[n])
  PROVE  Whole'
<1>1. \A k \in 1..Len(remote) : Sent(k)' = Sent(k)
  BY RemoteType DEF Sent
<1> QED BY <1>1 DEF Whole, Covered, VerifiedAnswered, Returned

LEMMA StatusWhole ==
  ASSUME BatchTypeOK, Whole, NEW n \in 1..Len(batches), NEW status \in Status,
         batches' = [batches EXCEPT ![n].status = status],
         UNCHANGED <<staged, answer, verified, remote>>
  PROVE  Whole'
<1>1. /\ Len(batches') = Len(batches)
      /\ \A m \in 1..Len(batches) : RowsOf(batches'[m]) = RowsOf(batches[m])
  BY StatusSet DEF BatchTypeOK, RowsOf
<1> QED BY <1>1, SameWhole

LEMMA PostWhole ==
  ASSUME BatchTypeOK, Whole, Post
  PROVE  Whole'
<1>1. /\ remote' = Append(remote, [batch |-> run.batch, ended |-> FALSE, bad |-> {}])
      /\ UNCHANGED <<staged, batches, answer, verified>>
      /\ remote \in Seq(Remote(Len(batches)))
  BY DEF Post, BatchTypeOK, Remote
<1>2. \A k \in 1..Len(remote) : remote'[k] = remote[k] /\ k \in 1..Len(remote')
  BY <1>1
<1>3. Covered' /\ VerifiedAnswered'
  BY <1>1 DEF Whole, Covered, VerifiedAnswered
<1>4. Returned'
  <2>1. \A k \in 1..Len(remote) : Sent(k)' = Sent(k)
    BY <1>1, <1>2 DEF Sent
  <2> QED BY <1>1, <1>2, <2>1 DEF Whole, Returned
<1> QED BY <1>3, <1>4 DEF Whole

LEMMA EndsWhole ==
  ASSUME BatchTypeOK, Whole, ProviderEnds
  PROVE  Whole'
<1>1. PICK k \in 1..Len(remote) : \E bad \in SUBSET Sent(k) :
        ~remote[k].ended /\ remote' = [remote EXCEPT ![k].ended = TRUE, ![k].bad = bad]
  BY DEF ProviderEnds
<1>2. /\ Len(remote') = Len(remote)
      /\ \A j \in 1..Len(remote) : j # k => remote'[j] = remote[j]
  BY <1>1, Ended
<1>3. UNCHANGED <<staged, batches, answer, verified>>
  BY DEF ProviderEnds
<1>4. Covered' /\ VerifiedAnswered'
  BY <1>3 DEF Whole, Covered, VerifiedAnswered
<1>5. Returned'
  <2> SUFFICES ASSUME NEW r \in Row, answer[r] = "v2"
               PROVE  \E j \in 1..Len(remote') :
                        remote'[j].ended /\ r \in Sent(j)' \ remote'[j].bad
    BY <1>3 DEF Returned
  <2>1. PICK j \in 1..Len(remote) : remote[j].ended /\ r \in Sent(j) \ remote[j].bad
    BY DEF Whole, Returned
  <2>2. j # k
    BY <1>1, <2>1
  <2>3. remote'[j] = remote[j] /\ j \in 1..Len(remote')
    BY <1>2, <2>2
  <2>4. Sent(j)' = Sent(j)
    BY <1>3, <2>3 DEF Sent
  <2> QED BY <2>1, <2>3, <2>4
<1> QED BY <1>4, <1>5 DEF Whole

LEMMA AnswerWhole ==
  ASSUME BatchTypeOK, Walk, Whole, IngestAnswer
  PROVE  Whole'
<1>1. PICK r \in GoodLeft : answer' = [answer EXCEPT ![r] = "v2"]
  BY DEF IngestAnswer
<1>2. UNCHANGED <<staged, batches, verified, remote>> /\ run.at = "ingest"
  BY DEF IngestAnswer
<1> DEFINE k == RemoteOf(run.batch)
<1>3. k \in 1..Len(remote) /\ remote[k].ended = TRUE /\ r \in Sent(k) \ remote[k].bad
  BY <1>2, HandIsRemote DEF GoodLeft, Bad, Sent
<1> HIDE DEF k
<1>4. \A q \in Row : answer'[q] = IF q = r THEN "v2" ELSE answer[q]
  BY <1>1 DEF BatchTypeOK
<1>5. Covered' /\ VerifiedAnswered'
  BY <1>2, <1>4 DEF Whole, Covered, VerifiedAnswered
<1>6. Returned'
  <2> SUFFICES ASSUME NEW q \in Row, answer'[q] = "v2"
               PROVE  \E j \in 1..Len(remote) : remote[j].ended /\ q \in Sent(j) \ remote[j].bad
    BY <1>2 DEF Returned, Sent
  <2>1. CASE q = r
    BY <1>3, <2>1
  <2>2. CASE q # r
    BY <1>4, <2>2 DEF Whole, Returned
  <2> QED BY <2>1, <2>2
<1> QED BY <1>5, <1>6 DEF Whole

\* When every batch is done, each staged row has a result.
LEMMA EndWhole ==
  ASSUME BatchTypeOK, Shared, Whole, CollectEnd
  PROVE  Whole'
<1>1. /\ UNCHANGED <<staged, batches, answer, remote>>
      /\ verified' = IF AllDone THEN staged ELSE verified
  BY DEF CollectEnd
<1>2. Covered' /\ Returned'
  BY <1>1 DEF Whole, Covered, Returned, Sent
<1>3. ASSUME AllDone, NEW r \in Row, r <= staged
      PROVE  answer[r] # "none"
  <2>1. ASSUME NEW n \in 1..Len(batches), r \in RowsOf(batches[n])
        PROVE  answer[r] # "none"
    <3>1. batches[n].status \in {"complete", "resolved"}
      BY <1>3, <2>1, BatchType DEF AllDone, Have
    <3> QED BY <2>1, <3>1 DEF Shared, NothingDropped
  <2> QED BY <1>3, <2>1 DEF Whole, Covered
<1>4. VerifiedAnswered'
  BY <1>1, <1>3 DEF Whole, VerifiedAnswered
<1> QED BY <1>2, <1>4 DEF Whole

LEMMA WholeStep ==
  ASSUME BatchTypeOK, Walk, Shared, Whole, [BatchNext]_batchVars
  PROVE  Whole'
<1>1. CASE Planning
  BY <1>1, FailedStaged, PlanningPlans, PlansWhole
<1>2. CASE UNCHANGED <<staged, batches, answer, verified, remote>>
  BY <1>2, SameWhole
<1>3. CASE \/ Moves /\ ~CollectEnd
           \/ IngestFailure \/ UNCHANGED batchVars
  BY <1>2, <1>3
     DEF Moves, SubmitResume, ApproveCheckpoint, SubmitSkip, SubmitDone, CollectStart,
         CollectSkip, CollectBatch, Stop, IngestFailure, batchVars
<1>4. CASE MarkUncertain
  <2>1. run.batch \in 1..Len(batches)
    BY <1>4 DEF MarkUncertain, Walk, InHand, BatchTypeOK
  <2> QED BY <1>4, <2>1, StatusWhole DEF MarkUncertain, Status
<1>5. CASE Acknowledge
  <2>1. run.batch \in 1..Len(batches)
    BY <1>5 DEF Acknowledge, Walk, InHand
  <2> QED BY <1>5, <2>1, StatusWhole DEF Acknowledge, Status
<1>6. CASE IngestFinish
  <2>1. Len(batches') = Len(batches) /\ \A n \in 1..Len(batches) :
          RowsOf(batches'[n]) = RowsOf(batches[n])
    BY <1>6, BatchFinished DEF RowsOf
  <2> QED BY <1>6, <2>1, SameWhole DEF IngestFinish
<1> QED BY <1>1, <1>3, <1>4, <1>5, <1>6, PostWhole, EndsWhole, AnswerWhole, EndWhole
        DEF BatchNext, Planning, Moves

-----------------------------------------------------------------------------
(* The waves.  That they begin on gated ground takes one premise: tranches *)
(* end at WaveFrom, as 2000 and 8000 do.                                   *)

TrancheEnd == {k * Tranche : k \in Nat}

LEMMA NextTranche ==
  ASSUME WaveFrom \in TrancheEnd, NEW e \in TrancheEnd, e < WaveFrom
  PROVE  e + Tranche \in TrancheEnd /\ e + Tranche <= WaveFrom
<1>0. Tranche \in Nat /\ Tranche > 0
  BY BatchAssumption
<1>1. PICK q \in Nat : WaveFrom = q * Tranche
  BY DEF TrancheEnd
<1>2. PICK k \in Nat : e = k * Tranche
  BY DEF TrancheEnd
<1>3. (k + 1) * Tranche = k * Tranche + Tranche
  BY <1>0
<1>4. k < q
  <2> SUFFICES ASSUME q <= k
               PROVE  q * Tranche <= k * Tranche
    BY <1>0, <1>1, <1>2
  <2> QED BY <1>0
<1>5. (k + 1) * Tranche <= q * Tranche
  <2>1. k + 1 <= q /\ k + 1 \in Nat
    BY <1>4
  <2> QED BY <1>0, <2>1
<1>6. k + 1 \in Nat
  OBVIOUS
<1> QED BY <1>1, <1>2, <1>3, <1>5, <1>6 DEF TrancheEnd

\* Before the first wave the rows come in whole tranches.
Tranches == waves = {} => staged <= WaveFrom /\ (staged = Rows \/ staged \in TrancheEnd)

\* A checkpoint was approved before rows behind it were staged.
Passed == \A c \in Checkpoint : WaveFrom <= c /\ c < staged => c \in approved

\* Between the approval and the wave the ground stays gated.
AtStage == run.at = "stage" => failed = {} /\ staged \in approved

Open == {"planned", "uncertain", "submitted"}

\* What is not answered yet belongs to the newest wave.
NewRows ==
  \A w \in waves, n \in 1..Len(batches) :
    batches[n].status \in Open => \A r \in RowsOf(batches[n]) : r >= w.first

Gated == Tranches /\ Passed /\ AtStage /\ NewRows /\ WavesGated

LEMMA SameGated ==
  ASSUME BatchTypeOK, BatchTypeOK', Gated, UNCHANGED <<staged, waves, failed>>,
         approved \subseteq approved', verified <= verified',
         run'.at = "stage" => run.at = "stage" \/ (failed = {} /\ staged \in approved'),
         Len(batches') = Len(batches),
         \A n \in 1..Len(batches) :
           /\ RowsOf(batches'[n]) = RowsOf(batches[n])
           /\ batches'[n].status \in Open => batches[n].status \in Open
  PROVE  Gated'
<1>1. Tranches' /\ Passed'
  BY DEF Gated, Tranches, Passed
<1>2. AtStage'
  BY DEF Gated, AtStage
<1>3. NewRows'
  BY DEF Gated, NewRows
<1>4. WavesGated'
  <2> SUFFICES ASSUME NEW w \in waves
               PROVE  /\ verified' >= w.first - 1
                      /\ \A f \in failed : f[2] >= w.first
                      /\ \A c \in Checkpoint :
                           /\ WaveFrom <= c /\ c < w.first => c \in approved'
                           /\ ~(w.first <= c /\ c < w.last)
    BY DEF WavesGated
  <2>1. verified \in Nat /\ verified' \in Nat /\ w.first \in Nat
    BY BatchAssumption DEF BatchTypeOK, Row
  <2> QED BY <2>1 DEF Gated, WavesGated
<1> QED BY <1>1, <1>2, <1>3, <1>4 DEF Gated

\* Planning before the first wave.
LEMMA TrancheGated ==
  ASSUME WaveFrom \in TrancheEnd, BatchTypeOK, Gated, Planning, ~SubmitWave
  PROVE  Gated'
<1>1. waves = {} /\ waves' = {} /\ staged < WaveFrom
  BY BatchAssumption
     DEF Planning, SubmitFirst, SubmitRetry, SubmitContinue, CanRetry, InWaves, BatchTypeOK
<1>2. run'.at = "submit"
  BY MoveSubmit DEF Planning, SubmitFirst, SubmitRetry, SubmitContinue
<1>3. staged' = staged \/ staged' = AtMost(Rows, staged + Tranche)
  <2>1. CASE SubmitFirst
    <3>1. staged = 0 /\ staged' = AtMost(Rows, Tranche) /\ 0 + Tranche = Tranche
      BY <2>1, BatchAssumption DEF SubmitFirst, StageTo
    <3> QED BY <3>1
  <2>2. CASE SubmitRetry \/ SubmitContinue
    BY <2>2 DEF SubmitRetry, SubmitContinue, StageTo
  <2> QED BY <2>1, <2>2 DEF Planning
<1>4. staged \in Nat /\ staged <= Rows /\ Rows \in Nat /\ Tranche \in Nat /\ WaveFrom \in Nat
  BY BatchAssumption DEF BatchTypeOK
<1>5. staged' \in Nat /\ staged' <= WaveFrom /\ (staged' = Rows \/ staged' \in TrancheEnd)
  <2>1. CASE staged' = staged
    BY <1>1, <1>4, <2>1 DEF Gated, Tranches
  <2>2. CASE staged' = AtMost(Rows, staged + Tranche) /\ staged = Rows
    BY <1>1, <1>4, <2>2 DEF AtMost
  <2>3. CASE staged' = AtMost(Rows, staged + Tranche) /\ staged \in TrancheEnd
    <3>1. staged + Tranche \in TrancheEnd /\ staged + Tranche <= WaveFrom
      BY <1>1, <2>3, NextTranche
    <3> QED BY <1>4, <2>3, <3>1 DEF AtMost
  <2> QED BY <1>1, <1>3, <2>1, <2>2, <2>3 DEF Gated, Tranches
<1>6. Tranches'
  BY <1>5 DEF Tranches
<1>7. Passed'
  <2>1. \A c \in Checkpoint : c \in Nat
    BY BatchAssumption
  <2> QED BY <1>4, <1>5, <2>1 DEF Passed
<1> QED BY <1>1, <1>2, <1>6, <1>7 DEF Gated, AtStage, NewRows, WavesGated

\* A wave ends at the next checkpoint or before.
LEMMA WaveEndsBefore ==
  ASSUME BatchTypeOK, NEW c \in Checkpoint, c > staged
  PROVE  WaveEnd <= c
<1>0. Checkpoint \subseteq Nat /\ LongWave \in Nat /\ ShortWave \in Nat /\ staged \in Nat
  BY BatchAssumption DEF BatchTypeOK
<1> DEFINE Later == {d \in Checkpoint : d > staged}
           P(d) == d > staged /\ \A e \in Checkpoint : e > staged => d <= e
           next == CHOOSE d \in Checkpoint : P(d)
<1>1. Later \in SUBSET Nat /\ c \in Later
  BY <1>0
<1>2. PICK d \in Later : \A e \in Later : d <= e
  BY <1>1, LeastExists
<1>3. d \in Checkpoint /\ P(d)
  BY <1>2
<1>4. next \in Checkpoint /\ P(next)
  BY <1>3
<1>5. WaveEnd = AtMost(next, staged + (IF staged >= ShortFrom THEN ShortWave ELSE LongWave))
  BY DEF WaveEnd
<1>6. next <= c
  BY <1>4
<1> HIDE DEF next
<1>7. next \in Nat /\ c \in Nat
  BY <1>0, <1>4
<1> QED BY <1>0, <1>5, <1>6, <1>7 DEF AtMost

LEMMA WaveGated ==
  ASSUME BatchTypeOK, BatchTypeOK', Gated, SubmitWave
  PROVE  Gated'
<1> DEFINE new == [first |-> staged + 1, last |-> WaveEnd]
           S == ((staged + 1) .. WaveEnd) \ Reused
<1>1. /\ staged \in Nat /\ staged < Rows /\ AllDone /\ verified = staged
      /\ waves' = waves \cup {new} /\ StageTo(WaveEnd) /\ run'.at = "submit"
      /\ UNCHANGED <<approved, failed, verified, remote>>
  BY BatchAssumption, MoveSubmit DEF SubmitWave, CanExtend, BatchTypeOK
<1>2. WaveEnd \in Row /\ staged < WaveEnd /\ staged' = WaveEnd /\ WaveEnd \in Nat
  BY <1>1, WaveEndType, RowType DEF StageTo, BatchTypeOK
<1>3. failed = {} /\ (staged \in Checkpoint => staged \in approved)
  BY DEF SubmitWave, NextWaveAllowed, WaveGate, Gated, AtStage
<1>4. \A w \in waves : w.first \in Nat /\ w.first <= staged + 1
  <2>1. \A w \in waves : w.first \in Nat
    BY RowType DEF BatchTypeOK
  <2> QED BY <1>1, <2>1 DEF Gated, WavesGated
<1>5. Grown(S)
  <2>1. S \in SUBSET Row
    BY <1>1, <1>2, BatchAssumption DEF Row
  <2> QED BY <1>1, <2>1, PlanGrows DEF StageTo, BatchTypeOK
<1>6. \A r \in S : r \in Nat /\ r >= staged + 1
  BY <1>1, <1>2
<1> HIDE DEF S
<1>7. NewRows'
  <2> SUFFICES ASSUME NEW w \in waves', NEW n \in 1..Len(batches'),
                      batches'[n].status \in Open, NEW r \in RowsOf(batches'[n])
               PROVE  r >= w.first
    BY DEF NewRows
  <2>1. n \notin 1..Len(batches)
    <3> SUFFICES ASSUME n \in 1..Len(batches)
                 PROVE  FALSE
      OBVIOUS
    <3>1. batches'[n] = batches[n] /\ batches[n].status \in Status
      BY <1>5, BatchType DEF Grown
    <3>2. batches[n].status \in {"complete", "resolved"}
      BY <1>1, <3>1 DEF AllDone, Have
    <3> QED BY <3>1, <3>2 DEF Open
  <2>2. n \in (Len(batches) + 1)..Len(batches')
    <3>1. Len(batches) \in Nat /\ Len(batches') \in Nat
      BY DEF BatchTypeOK
    <3> QED BY <2>1, <3>1
  <2>3. r \in S
    BY <1>5, <2>2 DEF Grown
  <2>4. w.first <= staged + 1 /\ w.first \in Nat
    BY <1>1, <1>4
  <2> QED BY <1>1, <1>6, <2>3, <2>4
<1>8. \A c \in Checkpoint : c \in Nat /\ (c > staged => WaveEnd <= c)
  BY BatchAssumption, WaveEndsBefore
<1>9. \A c \in Checkpoint : WaveFrom <= c /\ c <= staged => c \in approved
  <2> SUFFICES ASSUME NEW c \in Checkpoint, WaveFrom <= c, c <= staged
               PROVE  c \in approved
    OBVIOUS
  <2>1. c < staged \/ c = staged
    BY <1>1, <1>8
  <2> QED BY <1>3, <2>1 DEF Gated, Passed
<1>10. Passed'
  BY <1>1, <1>2, <1>8, <1>9 DEF Passed
<1>11. WavesGated'
  <2> SUFFICES ASSUME NEW w \in waves'
               PROVE  /\ verified >= w.first - 1
                      /\ \A f \in failed : f[2] >= w.first
                      /\ \A c \in Checkpoint :
                           /\ WaveFrom <= c /\ c < w.first => c \in approved
                           /\ ~(w.first <= c /\ c < w.last)
    BY <1>1 DEF WavesGated
  <2>1. CASE w \in waves
    BY <2>1 DEF Gated, WavesGated
  <2>2. CASE w = new
    <3>1. w.first = staged + 1 /\ w.last = WaveEnd
      BY <2>2
    <3> QED BY <1>1, <1>2, <1>3, <1>8, <1>9, <3>1
  <2> QED BY <1>1, <2>1, <2>2
<1>12. Tranches' /\ AtStage'
  BY <1>1 DEF Tranches, AtStage
<1> QED BY <1>7, <1>10, <1>11, <1>12 DEF Gated

LEMMA FailureGated ==
  ASSUME BatchTypeOK, Walk, Shared, Gated, IngestFailure
  PROVE  Gated'
<1>1. PICK r \in BadLeft : failed' = failed \cup {<<run.batch, r>>}
  BY DEF IngestFailure
<1>2. UNCHANGED <<staged, waves, approved, batches, verified, run>> /\ run.at = "ingest"
  BY DEF IngestFailure
<1>3. /\ run.batch \in 1..Len(batches) /\ batches[run.batch].status \in Open
      /\ r \in RowsOf(batches[run.batch])
  BY <1>2, HandIsRemote DEF BadLeft, Bad, Shared, BadSent, Sent, Open
<1>4. \A w \in waves : r >= w.first
  BY <1>3 DEF Gated, NewRows
<1>5. WavesGated'
  BY <1>1, <1>2, <1>4 DEF Gated, WavesGated
<1> QED BY <1>2, <1>5 DEF Gated, Tranches, Passed, AtStage, NewRows

LEMMA GatedStep ==
  ASSUME WaveFrom \in TrancheEnd, BatchTypeOK, BatchTypeOK', Walk, Shared, Gated,
         [BatchNext]_batchVars
  PROVE  Gated'
<1>0. verified \in Nat /\ verified <= staged
  BY BatchAssumption DEF BatchTypeOK
<1>1. CASE ApproveCheckpoint
  <2>1. /\ failed = {} /\ staged \in approved' /\ approved \subseteq approved'
        /\ UNCHANGED <<staged, waves, batches, failed, verified>>
    BY <1>1 DEF ApproveCheckpoint, WaveGate
  <2> QED BY <1>0, <2>1, SameGated
<1>2. CASE CollectEnd
  <2>1. /\ UNCHANGED <<staged, waves, batches, failed, approved>> /\ verified <= verified'
        /\ run'.at = "idle"
    BY <1>0, <1>2, BatchAssumption DEF CollectEnd, NoRun, BatchTypeOK
  <2> QED BY <2>1, SameGated
<1>3. CASE \/ SubmitResume \/ SubmitSkip \/ SubmitDone \/ CollectStart \/ CollectSkip
           \/ CollectBatch \/ Stop \/ Post \/ ProviderEnds \/ IngestAnswer
           \/ UNCHANGED batchVars
  <2>1. UNCHANGED <<staged, waves, batches, failed, approved, verified>>
    BY <1>3 DEF SubmitResume, SubmitSkip, SubmitDone, CollectStart, CollectSkip,
                CollectBatch, Stop, Post, ProviderEnds, IngestAnswer, batchVars
  <2>2. run'.at = "stage" => run.at = "stage"
    <3>1. \A place \in {"submit", "ack", "collect", "ingest"}, n \in Nat :
            Move(place, n) => run'.at = place
      BY DEF Move, BatchTypeOK
    <3>2. run.batch \in Nat /\ run.batch + 1 \in Nat
      BY DEF BatchTypeOK
    <3>3. CASE SubmitResume \/ SubmitSkip \/ CollectStart \/ CollectSkip \/ CollectBatch \/ Post
      BY <3>1, <3>2, <3>3
         DEF SubmitResume, SubmitSkip, CollectStart, CollectSkip, CollectBatch, Post
    <3>4. CASE SubmitDone \/ Stop
      BY <3>4 DEF SubmitDone, Stop, NoRun
    <3>5. CASE ProviderEnds \/ IngestAnswer \/ UNCHANGED batchVars
      BY <3>5 DEF ProviderEnds, IngestAnswer, batchVars
    <3> QED BY <1>3, <3>3, <3>4, <3>5
  <2> QED BY <1>0, <2>1, <2>2, SameGated
<1>4. CASE MarkUncertain \/ Acknowledge
  <2>1. run.batch \in 1..Len(batches)
    BY <1>4 DEF MarkUncertain, Acknowledge, Walk, InHand, BatchTypeOK
  <2>2. batches[run.batch].status \in Open
    BY <1>4 DEF MarkUncertain, Acknowledge, Submittable, SubmitNow, Walk, InHand, Open
  <2>3. PICK status \in Status : batches' = [batches EXCEPT ![run.batch].status = status]
    BY <1>4 DEF MarkUncertain, Acknowledge, Status
  <2>4. /\ Len(batches') = Len(batches)
        /\ \A n \in 1..Len(batches) :
             /\ RowsOf(batches'[n]) = RowsOf(batches[n])
             /\ batches'[n].status \in Open => batches[n].status \in Open
    <3>1. /\ Len(batches') = Len(batches)
          /\ \A m \in 1..Len(batches) :
               /\ m # run.batch => batches'[m].status = batches[m].status
               /\ RowsOf(batches'[m]) = RowsOf(batches[m])
      BY <2>1, <2>3, StatusSet DEF BatchTypeOK, RowsOf
    <3> QED BY <2>2, <3>1
  <2>5. UNCHANGED <<staged, waves, failed, approved, verified>> /\ run'.at # "stage"
    BY <1>4 DEF MarkUncertain, Acknowledge, Move, BatchTypeOK
  <2> QED BY <1>0, <2>4, <2>5, SameGated
<1>5. CASE IngestFinish
  <2>1. /\ Len(batches') = Len(batches)
        /\ \A n \in 1..Len(batches) : RowsOf(batches'[n]) = RowsOf(batches[n])
    BY <1>5, BatchFinished DEF RowsOf
  <2>2. ASSUME NEW n \in 1..Len(batches), batches'[n].status \in Open
        PROVE  batches[n].status \in Open
    <3>1. LET status == IF n = run.batch THEN IngestedStatus ELSE batches[n].status
          IN  batches'[n].status = IF status = "partial" /\ Resolved(n) THEN "resolved" ELSE status
      BY <1>5, BatchFinished
    <3>2. IngestedStatus \in {"complete", "partial"}
      BY DEF IngestedStatus
    <3> QED BY <2>2, <3>1, <3>2 DEF Open
  <2>3. UNCHANGED <<staged, waves, failed, approved, verified>> /\ run'.at # "stage"
    BY <1>5 DEF IngestFinish, Move, BatchTypeOK
  <2> QED BY <1>0, <2>1, <2>2, <2>3, SameGated
<1> QED BY <1>1, <1>2, <1>3, <1>4, <1>5, TrancheGated, WaveGated, FailureGated
        DEF BatchNext, Planning

-----------------------------------------------------------------------------
(* The results.                                                            *)

BatchInv == BatchTypeOK /\ Walk /\ Shared /\ Whole

\* An empty table satisfies every part.
LEMMA BatchInvInit == ASSUME BatchInit PROVE BatchInv
<1>1. batches = <<>> /\ remote = <<>> /\ failed = {} /\ run = NoRun
  BY DEF BatchInit
<1>2. BatchTypeOK
  BY BatchAssumption DEF BatchInit, BatchTypeOK, NoRun
<1>3. Walk
  BY <1>1 DEF Walk, InHand, Walked, Suffix, Submitted, Posted, Fresh, InOrder,
              AtProvider, NoRun
<1>4. Shared
  BY <1>1 DEF Shared, BadSent, FailedTrue, StagedRows, Overlap, NothingDropped
<1>5. Whole
  <2>1. \A r \in Row : answer[r] = "none" /\ r \in Nat /\ 1 <= r
    BY RowType DEF BatchInit
  <2>2. staged = 0 /\ verified = 0
    BY DEF BatchInit
  <2> QED BY <2>1, <2>2 DEF Whole, Covered, VerifiedAnswered, Returned
<1> QED BY <1>2, <1>3, <1>4, <1>5 DEF BatchInv

LEMMA BatchInvStep == ASSUME BatchInv, [BatchNext]_batchVars PROVE BatchInv'
<1>1. BatchTypeOK /\ Walk /\ Shared /\ Whole /\ FailedRows
  BY FailedStaged DEF BatchInv
<1>2. BatchTypeOK'
  BY <1>1, TypesStep DEF Walk
<1> QED BY <1>1, <1>2, WalkStep, SharedStep, WholeStep DEF BatchInv

\* The inductive invariant: types, the order of posting, what batches share, and
\* where results come from.
THEOREM BatchInvariance == BatchSpec => []BatchInv
<1>1. BatchInit => BatchInv BY BatchInvInit
<1>2. BatchInv /\ [BatchNext]_batchVars => BatchInv' BY BatchInvStep
<1> QED BY <1>1, <1>2, PTL DEF BatchSpec

\* The declared types, for a source of any size.
THEOREM BatchTypeCorrect == BatchSpec => []BatchTypeOK
BY BatchInvariance, PTL DEF BatchInv

\* No row is paid for twice, however commands stop, responses are lost and retries
\* are asked for.
THEOREM PaidOnce == BatchSpec => []NoRowTwice
<1>1. BatchInv => NoRowTwice
  <2> SUFFICES ASSUME BatchInv, NEW k \in 1..Len(remote)
               PROVE  /\ Sent(k) \cap Reused = {}
                      /\ \A j \in 1..k - 1 : Sent(j) \cap Sent(k) \subseteq remote[j].bad
    BY DEF NoRowTwice
  <2>1. remote[k].batch \in 1..Len(batches)
    BY RemoteType DEF BatchInv
  <2>2. Sent(k) \cap Reused = {}
    BY <2>1 DEF BatchInv, Shared, StagedRows, Sent
  <2>3. ASSUME NEW j \in 1..k - 1, NEW r \in Sent(j) \cap Sent(k)
        PROVE  r \in remote[j].bad
    <3>1. j \in 1..Len(remote) /\ j < k /\ remote[j].batch \in 1..Len(batches)
      BY RemoteType DEF BatchInv
    <3>2. remote[j].batch < remote[k].batch
      BY <3>1 DEF BatchInv, Walk, InOrder
    <3>3. <<remote[j].batch, r>> \in failed
      BY <2>1, <2>3, <3>1, <3>2 DEF BatchInv, Shared, Overlap, Sent
    <3>4. PICK i \in 1..Len(remote) : remote[i].batch = remote[j].batch /\ r \in remote[i].bad
      BY <3>3 DEF BatchInv, Shared, FailedTrue
    <3>5. remote[i].batch \in Nat
      BY <3>1, <3>4
    <3>6. ~(i < j) /\ ~(j < i)
      BY <3>1, <3>4, <3>5 DEF BatchInv, Walk, InOrder
    <3> QED BY <3>1, <3>4, <3>6
  <2> QED BY <2>2, <2>3
<1> QED BY <1>1, BatchInvariance, PTL

\* Nothing the provider reported is dropped when a batch is closed.
THEOREM DroppedNothing == BatchSpec => []NothingDropped
<1>1. BatchInv => NothingDropped
  BY DEF BatchInv, Shared
<1> QED BY <1>1, BatchInvariance, PTL

\* What is verified is whole: each row has a result, that of the v1 table or one
\* the provider returned for it.
THEOREM WholeTheorem == BatchSpec => []VerifiedIsWhole
<1>1. BatchInv => VerifiedIsWhole
  <2> SUFFICES ASSUME BatchInv
               PROVE  VerifiedIsWhole
    OBVIOUS
  <2>1. \A r \in 1..verified : r \in Row /\ r <= verified
    BY BatchAssumption DEF BatchInv, BatchTypeOK, Row
  <2> QED BY <2>1 DEF BatchInv, Whole, VerifiedAnswered, Returned, VerifiedIsWhole
<1> QED BY <1>1, BatchInvariance, PTL

\* If tranches end where waves begin, a wave exists only on gated ground: below it
\* everything is verified, nothing ever failed, and each checkpoint was approved.
THEOREM WavesTheorem ==
  ASSUME WaveFrom \in TrancheEnd
  PROVE  BatchSpec => []WavesGated
<1>1. BatchInit => Gated
  <2>1. 0 \in TrancheEnd
    BY BatchAssumption DEF TrancheEnd
  <2>2. WaveFrom \in Nat /\ \A c \in Checkpoint : c \in Nat
    BY BatchAssumption
  <2> QED BY <2>1, <2>2
      DEF BatchInit, NoRun, Gated, Tranches, Passed, AtStage, NewRows, WavesGated
<1>2. BatchInv /\ BatchInv' /\ Gated /\ [BatchNext]_batchVars => Gated'
  BY GatedStep DEF BatchInv
<1>3. Gated => WavesGated
  BY DEF Gated
<1> QED BY <1>1, <1>2, <1>3, BatchInvariance, PTL DEF BatchSpec

-----------------------------------------------------------------------------
(* The parts together.                                                     *)

\* The consent budget and the extraction have their types at once: each moves
\* alone, and neither touches the other's state.
THEOREM PaidTypes == PartSpec => []PaidTypeOK
<1> DEFINE Both == IInv /\ BatchInv
<1>1. PartInit => Both
  BY InitIInv, BatchInvInit DEF PartInit
<1>2. Both /\ [PartNext]_partVars => Both'
  <2> SUFFICES ASSUME Both, [PartNext]_partVars PROVE Both'
    OBVIOUS
  <2>1. [Next]_vars /\ [BatchNext]_batchVars
    BY DEF PartNext, partVars
  <2> QED BY <2>1, NextIInv, BatchInvStep
<1>3. Both => PaidTypeOK
  BY DEF IInv, BatchInv, PaidTypeOK
<1> HIDE DEF Both
<1> QED BY <1>1, <1>2, <1>3, PTL DEF PartSpec
=============================================================================
