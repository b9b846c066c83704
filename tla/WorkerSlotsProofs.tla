-------------------------- MODULE WorkerSlotsProofs --------------------------
(***************************************************************************)
(* Proofs about WorkerSlots for any number of runs and slots and any       *)
(* lengths of the deadlines.                                               *)
(*                                                                         *)
(* The cap is a statement about containers, the semaphore counts runs.     *)
(* Phase connects them: a container that runs, or may yet, has a run that  *)
(* still holds its slot, or was declared gone by an inspect that failed.   *)
(* The other step that could break this frees a slot after HoldUntil       *)
(* without looking; by then the container's age is past its own deadline,  *)
(* provided the daemon started it within the timeout of a removal.  That   *)
(* premise is StartsInTime.                                                *)
(***************************************************************************)
EXTENDS WorkerSlots, FiniteSetTheorems, TLAPS

\* The places that hold a slot.
Holding == {"slot", "client", "cleanup", "held"}

Holder == {r \in Run : pc[r] \in Holding}

\* The daemon starts a container within the timeout of a removal.
StartsInTime == StartDelay < RemoveTimeout

\* A container and its run, at every moment.
Phase(r) ==
  /\ pc[r] \in {"new", "slot", "done"} => age[r] = 0
  /\ pc[r] = "done" => box[r] \notin {"asked", "up"} \/ r \in misread
  /\ pc[r] \in {"new", "slot"} => box[r] = "none"
  /\ box[r] \in {"none", "asked"} => up[r] = 0
  /\ box[r] = "asked" => age[r] <= StartDelay + 1
  /\ box[r] = "up" => age[r] <= up[r] + StartDelay

\* The types, with the two bounds that need an argument left to SlotsAddUp and
\* the guards of Tick.
Typed ==
  /\ free \in Nat
  /\ pc \in [Run -> {"new", "slot", "client", "cleanup", "held", "done"}]
  /\ age \in [Run -> 0..MaxAge]
  /\ box \in [Run -> {"none", "asked", "up", "gone"}]
  /\ up \in [Run -> 0..BoxDeadline]
  /\ misread \subseteq Run

Counted == free + Cardinality(Holder) = MaxConcurrent
-----------------------------------------------------------------------------
LEMMA Lengths ==
  /\ MaxConcurrent \in Nat \ {0} /\ WallClock \in Nat \ {0} /\ Grace \in Nat \ {0}
  /\ RemoveTimeout \in Nat \ {0} /\ StartDelay \in Nat
  /\ BoxDeadline \in Nat /\ HoldUntil \in Nat /\ MaxAge \in Nat
BY ConstantsAssumption DEF BoxDeadline, HoldUntil, MaxAge, CleanBy

LEMMA HolderFinite == IsFiniteSet(Holder) /\ Cardinality(Holder) \in Nat
<1>1. IsFiniteSet(Run) BY ConstantsAssumption
<1>2. Holder \in SUBSET Run BY DEF Holder
<1> QED BY <1>1, <1>2, FS_Subset, FS_CardinalityType

\* The steps of run r by what they do to the slots.
LEMMA TakesSlot ==
  ASSUME Typed, Counted, NEW r \in Run, pc[r] \notin Holding, free > 0,
         NEW to \in Holding, pc' = [pc EXCEPT ![r] = to], free' = free - 1
  PROVE  Counted' /\ free' \in Nat
<1>1. Holder' = Holder \cup {r} BY DEF Holder, Typed
<1>2. r \notin Holder BY DEF Holder
<1>3. Cardinality(Holder') = Cardinality(Holder) + 1
  BY <1>1, <1>2, HolderFinite, FS_AddElement
<1> QED BY <1>3, HolderFinite, Lengths DEF Counted, Typed

LEMMA FreesSlot ==
  ASSUME Typed, Counted, NEW r \in Run, pc[r] \in Holding, Finish(r)
  PROVE  Counted' /\ free' \in Nat
<1>1. Holder' = Holder \ {r} BY DEF Holder, Holding, Typed, Finish, Goto
<1>2. r \in Holder BY DEF Holder
<1>3. Cardinality(Holder') = Cardinality(Holder) - 1
  BY <1>1, <1>2, HolderFinite, FS_RemoveElement
<1> QED BY <1>3, HolderFinite, Lengths DEF Counted, Typed, Finish

LEMMA KeepsSlot ==
  ASSUME Counted, Typed, NEW r \in Run, NEW to, (pc[r] \in Holding) <=> (to \in Holding),
         pc' = [pc EXCEPT ![r] = to], free' = free
  PROVE  Counted' /\ free' \in Nat
<1>1. Holder' = Holder BY DEF Holder, Typed
<1> QED BY <1>1 DEF Counted, Typed
-----------------------------------------------------------------------------
LEMMA StepCounts ==
  ASSUME Typed, Counted, NEW r \in Run, Step(r)
  PROVE  Counted' /\ Typed'
<1>0. free \in Nat BY DEF Typed
<1>1. CASE Acquire(r)
  <2>1. Counted' /\ free' \in Nat BY <1>1, TakesSlot DEF Acquire, Goto, Holding
  <2> QED BY <1>1, <2>1 DEF Typed, Acquire, Goto
<1>2. CASE Refuse(r)
  <2>1. Counted' /\ free' \in Nat BY <1>2, KeepsSlot DEF Refuse, Goto, Holding
  <2> QED BY <1>2, <2>1 DEF Typed, Refuse, Goto
<1>3. CASE NotLaunched(r)
  <2>1. Counted' /\ free' \in Nat BY <1>3, FreesSlot DEF NotLaunched, Holding
  <2> QED BY <1>3, <2>1, Lengths DEF Typed, NotLaunched, Finish, Goto
<1>4. CASE Launch(r)
  <2>1. Counted' /\ free' \in Nat BY <1>4, KeepsSlot DEF Launch, Goto, Holding
  <2> QED BY <1>4, <2>1 DEF Typed, Launch, Goto
<1>5. CASE Collect(r)
  <2>1. Counted' /\ free' \in Nat BY <1>5, KeepsSlot DEF Collect, Goto, Holding
  <2> QED BY <1>5, <2>1 DEF Typed, Collect, Goto
<1>6. CASE Removed(r)
  <2>1. Counted' /\ free' \in Nat BY <1>6, FreesSlot DEF Removed, Holding
  <2> QED BY <1>6, <2>1, Lengths DEF Typed, Removed, Finish, Goto
<1>7. CASE NotRemoved(r)
  <2>1. Counted' /\ free' \in Nat BY <1>7, KeepsSlot DEF NotRemoved, Goto, Holding
  <2> QED BY <1>7, <2>1 DEF Typed, NotRemoved, Goto
<1>8. CASE ReleaseLater(r)
  <2>1. Counted' /\ free' \in Nat BY <1>8, FreesSlot DEF ReleaseLater, Holding
  <2> QED BY <1>8, <2>1, Lengths DEF Typed, ReleaseLater, Finish, Goto
<1>9. CASE RemovedUnseen(r)
  <2>1. Counted' /\ free' \in Nat BY <1>9, FreesSlot DEF RemovedUnseen, Holding
  <2> QED BY <1>9, <2>1, Lengths DEF Typed, RemovedUnseen, Finish, Goto
<1> QED BY <1>1, <1>2, <1>3, <1>4, <1>5, <1>6, <1>7, <1>8, <1>9 DEF Step

LEMMA NextCounts ==
  ASSUME Typed, Counted, [Next]_vars
  PROVE  Counted' /\ Typed'
<1>1. CASE \E r \in Run : Step(r)
  BY <1>1, StepCounts
<1>2. CASE \E r \in Run : Again(r)
  <2>1. PICK r \in Run : Again(r) BY <1>2
  <2>2. Counted' /\ free' \in Nat BY <2>1, KeepsSlot DEF Again, Goto, Holding
  <2> QED BY <2>1, <2>2, Lengths DEF Typed, Again, Goto
<1>3. CASE \E r \in Run : BoxStarts(r)
  BY <1>3 DEF Typed, BoxStarts, Counted, Holder
<1>4. CASE \E r \in Run : BoxEnds(r)
  BY <1>4 DEF Typed, BoxEnds, Counted, Holder
<1>5. CASE Tick
  <2>1. age' \in [Run -> 0..MaxAge] BY <1>5, Lengths DEF Tick, Typed
  <2>2. up' \in [Run -> 0..BoxDeadline] BY <1>5, Lengths DEF Tick, Typed
  <2> QED BY <1>5, <2>1, <2>2 DEF Tick, Typed, Counted, Holder
<1>6. CASE UNCHANGED vars
  BY <1>6 DEF vars, Typed, Counted, Holder
<1> QED BY <1>1, <1>2, <1>3, <1>4, <1>5, <1>6 DEF Next

LEMMA InitCounts == Init => Typed /\ Counted
<1> SUFFICES ASSUME Init PROVE Typed /\ Counted
  OBVIOUS
<1>1. Typed BY Lengths DEF Init, Typed
<1>2. Holder = {} BY DEF Init, Holder, Holding
<1> QED BY <1>1, <1>2, FS_EmptySet, Lengths DEF Init, Counted

\* Every slot that is not free has exactly one run, whatever fails.
THEOREM SlotsTheorem == Spec => []SlotsAddUp
<1>1. Typed /\ Counted /\ [Next]_vars => (Typed /\ Counted)' BY NextCounts
<1>2. Counted => SlotsAddUp BY DEF Counted, Holder, Holding, SlotsAddUp
<1> QED BY InitCounts, <1>1, <1>2, PTL DEF Spec

\* The declared types; that the semaphore stays within its size is the part that
\* needs the count of the holders.
THEOREM SlotsTypeCorrect == Spec => []TypeOK
<1>1. Typed /\ Counted /\ [Next]_vars => (Typed /\ Counted)' BY NextCounts
<1>2. Typed /\ Counted => TypeOK
  BY HolderFinite, Lengths DEF Typed, Counted, TypeOK
<1> QED BY InitCounts, <1>1, <1>2, PTL DEF Spec
-----------------------------------------------------------------------------
\* When the timer of a held slot strikes, its container has ended.
LEMMA HeldLongEnough ==
  ASSUME StartsInTime, Typed, NEW r \in Run, Phase(r), age[r] >= HoldUntil
  PROVE  box[r] \notin {"asked", "up"}
<1>1. age[r] \in Nat /\ up[r] \in 0..BoxDeadline BY Lengths DEF Typed
<1>2. HoldUntil > StartDelay + 1
  BY Lengths DEF StartsInTime, HoldUntil
<1>3. HoldUntil > BoxDeadline + StartDelay
  BY Lengths DEF StartsInTime, HoldUntil, BoxDeadline
<1>4. box[r] # "asked" BY <1>1, <1>2, Lengths DEF Phase
<1>5. box[r] # "up" BY <1>1, <1>3, Lengths DEF Phase
<1> QED BY <1>4, <1>5

LEMMA StepPhase ==
  ASSUME StartsInTime, Typed, NEW r \in Run, Phase(r), Step(r)
  PROVE  Phase(r)'
<1> USE Lengths DEF Typed, Phase
<1>1. CASE Acquire(r) BY <1>1 DEF Acquire, Goto
<1>2. CASE Refuse(r) BY <1>2 DEF Refuse, Goto
<1>3. CASE NotLaunched(r) BY <1>3 DEF NotLaunched, Finish, Goto
<1>4. CASE Launch(r) BY <1>4 DEF Launch, Goto
<1>5. CASE Collect(r) BY <1>5 DEF Collect, Goto
<1>6. CASE Removed(r) BY <1>6 DEF Removed, Finish, Goto
<1>7. CASE NotRemoved(r) BY <1>7 DEF NotRemoved, Goto
<1>8. CASE ReleaseLater(r)
  <2>1. box[r] \notin {"asked", "up"} BY <1>8, HeldLongEnough DEF ReleaseLater
  <2> QED BY <1>8, <2>1 DEF ReleaseLater, Finish, Goto
<1>9. CASE RemovedUnseen(r) BY <1>9 DEF RemovedUnseen, Finish, Goto
<1> QED BY <1>1, <1>2, <1>3, <1>4, <1>5, <1>6, <1>7, <1>8, <1>9 DEF Step

\* A run's steps leave the other runs alone.
LEMMA OthersPhase ==
  ASSUME Typed, NEW r \in Run, NEW q \in Run, q # r, Phase(q),
         Step(r) \/ Again(r) \/ BoxStarts(r) \/ BoxEnds(r)
  PROVE  Phase(q)'
<1>1. /\ pc'[q] = pc[q] /\ age'[q] = age[q] /\ box'[q] = box[q] /\ up'[q] = up[q]
      /\ (q \in misread') <=> (q \in misread)
  BY DEF Typed, Step, Again, BoxStarts, BoxEnds, Acquire, Refuse, NotLaunched, Launch,
         Collect, Removed, RemovedUnseen, NotRemoved, ReleaseLater, Finish, Goto
<1> QED BY <1>1 DEF Phase

LEMMA NextPhase ==
  ASSUME StartsInTime, Typed, \A r \in Run : Phase(r), [Next]_vars, NEW q \in Run
  PROVE  Phase(q)'
<1> USE Lengths DEF Typed
<1>1. CASE \E r \in Run : Step(r) BY <1>1, StepPhase, OthersPhase
<1>2. CASE \E r \in Run : Again(r)
  <2>1. PICK r \in Run : Again(r) BY <1>2
  <2>2. CASE q = r BY <2>1, <2>2 DEF Again, Goto, Phase
  <2> QED BY <2>1, <2>2, OthersPhase
<1>3. CASE \E r \in Run : BoxStarts(r)
  <2>1. PICK r \in Run : BoxStarts(r) BY <1>3
  <2>2. CASE q = r BY <2>1, <2>2 DEF BoxStarts, Phase
  <2> QED BY <2>1, <2>2, OthersPhase
<1>4. CASE \E r \in Run : BoxEnds(r)
  <2>1. PICK r \in Run : BoxEnds(r) BY <1>4
  <2>2. CASE q = r BY <2>1, <2>2 DEF BoxEnds, Phase
  <2> QED BY <2>1, <2>2, OthersPhase
<1>5. CASE Tick BY <1>5 DEF Tick, Phase
<1>6. CASE UNCHANGED vars BY <1>6 DEF vars, Phase
<1> QED BY <1>1, <1>2, <1>3, <1>4, <1>5, <1>6 DEF Next

LEMMA CapFromPhases ==
  ASSUME Typed, Counted, \A r \in Run : Phase(r)
  PROVE  CapHolds
<1> DEFINE Up == {r \in Run : box[r] = "up"} \ misread
<1>1. Up \in SUBSET Holder BY DEF Typed, Phase, Holder, Holding
<1>2. Cardinality(Up) \in Nat /\ Cardinality(Up) <= Cardinality(Holder)
  BY <1>1, HolderFinite, FS_Subset, FS_CardinalityType
<1>3. Cardinality(Up) <= MaxConcurrent
  BY <1>2, HolderFinite, Lengths DEF Counted, Typed
<1> QED BY <1>3 DEF CapHolds

\* The containers over the cap are those that a failing inspect declared gone, and
\* no others, whatever removals fail, as long as the daemon starts a container within
\* the timeout of a removal.  (Run slots_slow_start shows what happens otherwise.)
THEOREM CapTheorem ==
  ASSUME StartsInTime
  PROVE  Spec => []CapHolds
<1> DEFINE IInv == Typed /\ Counted /\ \A r \in Run : Phase(r)
<1>1. Init => IInv
  <2>1. Init => \A r \in Run : Phase(r) BY DEF Init, Phase
  <2> QED BY <2>1, InitCounts
<1>2. IInv /\ [Next]_vars => IInv'
  <2> SUFFICES ASSUME IInv, [Next]_vars PROVE IInv'
    OBVIOUS
  <2>1. Counted' /\ Typed' BY NextCounts
  <2>2. \A q \in Run : Phase(q)' BY NextPhase
  <2> QED BY <2>1, <2>2
<1>3. IInv => CapHolds BY CapFromPhases
<1> HIDE DEF IInv
<1> QED BY <1>1, <1>2, <1>3, PTL DEF Spec
=============================================================================
