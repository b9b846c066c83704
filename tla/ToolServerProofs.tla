-------------------------- MODULE ToolServerProofs --------------------------
(***************************************************************************)
(* Proofs about the tool server's charts and its senders' memory, for any  *)
(* numbers of servers, sessions, charts, senders, threads and requests,    *)
(* any caps and any times; with ChartTrialProofs, the types of the three   *)
(* parts that ToolServerMC checks side by side.                            *)
(*                                                                         *)
(* Charts.  Only a rename makes a chart.  Between the count of a write and *)
(* its rename the writer holds the file lock (Writers), so nobody else     *)
(* renames and the count stays good (RoomKept); whatever a sweep, an       *)
(* expiry or a process that ends removes only helps.  A process that is    *)
(* killed loses its lock and its write together.  Unlinks and stats may    *)
(* fail in every step: a chart an admission did not count is in missed     *)
(* until it goes (AdmitEffect), a file an unlink left is in left           *)
(* (LossLeaves).                                                           *)
(*                                                                         *)
(* Memory.  The locks come and go with the calls that use them.  What      *)
(* makes them locks is that an entry counts its calls (KeyLocks): while    *)
(* one call of a sender is there its lock is, and a new lock is nobody     *)
(* else's.                                                                 *)
(***************************************************************************)
EXTENDS ToolServerMC, ChartTrialProofs, FiniteSetTheorems

Counting == {"admitted", "temp"}
Inside == {"admitted", "temp", "renamed"}

\* What a write in progress has, and what a process that is down has not.
Writer(p) ==
  /\ writing[p].at \in {"idle", "lock"} => writing[p].token = Nobody
  /\ writing[p].at \in Inside => writing[p].token \in Token /\ flock = p
  /\ writing[p].at # "idle" => writing[p].by \in Session /\ HostOf[writing[p].by] = p
  /\ alive[p] = "down" => writing[p].at = "idle" /\ ledger[p] = {}

Writers == \A p \in Server : Writer(p)

\* The count a write was admitted with is still good.
RoomKept ==
  \A p \in Server : writing[p].at \in Counting => Cardinality(Charts \ missed) < MaxFiles

\* A chart in a ledger is written, and no writer has its token.
Recorded ==
  \A q \in Server : \A t \in ledger[q] :
    file[t] # "temp" /\ \A p \in Server : writing[p].token # t

\* A file is not older than the admission of its write.
Ages ==
  \A t \in Token : mtime[t] <= issued[t] /\ (file[t] = "none" => mtime[t] = 0)

AnyWrite ==
  [at : {"idle", "lock", "admitted", "temp", "renamed"},
   by : Session \cup {Nobody},
   token : Token \cup {Nobody},
   wait : 0..LockWait]

Removes == \A t \in Token : file'[t] = file[t] \/ file'[t] = "none"

\* What every step that removes something does, whatever it fails to unlink or count.
Loss == \E gone : \E failed, uncounted \in SUBSET Token : Unlink(gone, failed, uncounted)

-----------------------------------------------------------------------------
LEMMA Constants ==
  /\ Ttl \in Nat /\ SupersedeGrace \in Nat /\ StaleTemp \in Nat /\ LockWait \in Nat
  /\ WriteTime \in Nat /\ MaxFiles \in Nat \ {0} /\ Old \in Nat /\ Old = Ttl + 1
  /\ SupersedeGrace <= Ttl
  /\ HostOf \in [Session -> Server]
  /\ Nobody \notin Server /\ Nobody \notin Session /\ Nobody \notin Token
BY ChartAssumption DEF Old

LEMMA TidyTypes ==
  ASSUME ChartTypeOK, Tidy
  PROVE  /\ mtime' \in [Token -> 0..Old]
         /\ issued' \in [Token -> 0..Old]
         /\ owner' \in [Token -> Session \cup {Nobody}]
<1>1. mtime' \in [Token -> 0..Old] BY Constants DEF ChartTypeOK, Tidy
<1>2. issued' \in [Token -> 0..Old] BY Constants DEF ChartTypeOK, Tidy
<1>3. owner' \in [Token -> Session \cup {Nobody}] BY DEF ChartTypeOK, Tidy
<1> QED BY <1>1, <1>2, <1>3

LEMMA LossTypes ==
  ASSUME ChartTypeOK, Loss
  PROVE  /\ file' \in [Token -> {"none", "temp", "chart"}]
         /\ left' \subseteq Token /\ missed' \subseteq Token
         /\ Removes
<1>1. PICK gone : \E failed, uncounted \in SUBSET Token : Unlink(gone, failed, uncounted)
  BY DEF Loss
<1>2. PICK failed \in SUBSET Token, uncounted \in SUBSET Token :
        Unlink(gone, failed, uncounted)
  BY <1>1
<1> QED BY <1>2 DEF ChartTypeOK, Unlink, Removes

LEMMA NoWriteType ==
  NoWrite \in AnyWrite
BY Constants DEF NoWrite, AnyWrite

\* How an admission chooses.
Admission(p, failed, unseen, gone) ==
  /\ MakesRoom(p, failed, unseen, gone)
  /\ IF Cardinality(Listed(Superseded(p) \ failed, unseen, gone)) >= MaxFiles
     THEN /\ writing' = [writing EXCEPT ![p] = NoWrite]
          /\ flock' = flock
     ELSE /\ \E t \in {u \in Token : ~InUse(u)} :
               writing' = [writing EXCEPT ![p] = Admitted(p, t)]
          /\ flock' = p

LEMMA AdmitPicks ==
  ASSUME NEW p \in Server, WriteAdmit(p)
  PROVE  \E failed \in SUBSET Present : \E unseen \in SUBSET Present :
           \E gone \in SUBSET Present : Admission(p, failed, unseen, gone)
BY Zenon DEF WriteAdmit, Admission

\* Every step that removes is a loss.
LEMMA WhoLoses ==
  /\ \A p \in Server : WriteAdmit(p) \/ WriteUnlisted(p) \/ WriteFails(p) => Loss
  /\ \A p \in Server : ExpireDue(p) \/ Close(p) => Loss
  /\ SweepAlone \/ PruneAll => Loss
<1>a. Present \subseteq Token BY DEF Present
<1>1. ASSUME NEW p \in Server, WriteAdmit(p) PROVE Loss
  <2>1. PICK failed \in SUBSET Present :
          \E unseen \in SUBSET Present : \E gone \in SUBSET Present :
            Admission(p, failed, unseen, gone)
    BY <1>1, AdmitPicks
  <2>2. PICK unseen \in SUBSET Present, gone \in SUBSET Present :
          Admission(p, failed, unseen, gone)
    BY <2>1
  <2>3. Unlink(Superseded(p) \cup gone, failed, unseen \cup (gone \cap failed))
    BY <2>2 DEF Admission, MakesRoom
  <2>4. unseen \cup (gone \cap failed) \in SUBSET Token /\ failed \in SUBSET Token
    BY <1>a
  <2> QED BY <2>3, <2>4 DEF Loss
<1>2. ASSUME NEW p \in Server, WriteUnlisted(p) PROVE Loss
  BY <1>a, <1>2 DEF WriteUnlisted, Loss
<1>3. ASSUME NEW p \in Server, WriteFails(p) PROVE Loss
  BY <1>a, <1>3 DEF WriteFails, Loss
<1>4. ASSUME NEW p \in Server, ExpireDue(p) PROVE Loss
  <2>1. PICK failed \in SUBSET Present :
          IF (Due(p) \cap Charts) \ failed = {}
          THEN Unlink(Due(p), failed, {})
          ELSE \E unseen \in SUBSET Present : \E gone \in SUBSET Present :
                 /\ Sweeps(Due(p) \ failed, unseen, 0, gone) \/ gone = {}
                 /\ Unlink(Due(p) \cup gone, failed, {})
    BY <1>4 DEF ExpireDue
  <2>2. \E gone : Unlink(gone, failed, {}) BY <2>1
  <2> QED BY <1>a, <2>2 DEF Loss
<1>5. ASSUME NEW p \in Server, Close(p) PROVE Loss
  BY <1>a, <1>5 DEF Close, Loss
<1>6. ASSUME SweepAlone PROVE Loss
  <2>1. PICK failed \in SUBSET Present :
          \E unseen \in SUBSET Present : \E gone \in SUBSET Present :
            Sweeps({}, unseen, 0, gone) /\ Unlink(gone, failed, {})
    BY <1>6 DEF SweepAlone
  <2>2. \E gone : Unlink(gone, failed, {}) BY <2>1
  <2> QED BY <1>a, <2>2 DEF Loss
<1>7. ASSUME PruneAll PROVE Loss
  BY <1>a, <1>7 DEF PruneAll, Loss
<1> QED BY <1>1, <1>2, <1>3, <1>4, <1>5, <1>6, <1>7

\* The two outcomes of an admission: a chart is in its sweep's list, or gone, or missed.
LEMMA AdmitEffect ==
  ASSUME ChartTypeOK, NEW p \in Server, WriteAdmit(p)
  PROVE  \/ writing' = [writing EXCEPT ![p] = NoWrite] /\ flock' = flock
         \/ /\ \E kept \in SUBSET Token :
                 (Charts \ missed)' \subseteq kept /\ ~(Cardinality(kept) >= MaxFiles)
            /\ flock' = p
            /\ \E t \in Token :
                 ~InUse(t) /\ writing' = [writing EXCEPT ![p] = Admitted(p, t)]
<1>1. PICK failed \in SUBSET Present :
        \E unseen \in SUBSET Present : \E gone \in SUBSET Present :
          Admission(p, failed, unseen, gone)
  BY AdmitPicks
<1>2. PICK unseen \in SUBSET Present, gone \in SUBSET Present :
        Admission(p, failed, unseen, gone)
  BY <1>1
<1> DEFINE kept == Listed(Superseded(p) \ failed, unseen, gone)
<1>3. kept \in SUBSET Token BY DEF Listed, Charts
<1>4. (Charts \ missed)' \subseteq kept
  <2>1. Unlink(Superseded(p) \cup gone, failed, unseen \cup (gone \cap failed))
    BY <1>2 DEF Admission, MakesRoom
  <2> QED BY <2>1 DEF Unlink, Charts, Listed, ChartTypeOK
<1>5. CASE Cardinality(kept) >= MaxFiles BY <1>2, <1>5 DEF Admission
<1>6. CASE ~(Cardinality(kept) >= MaxFiles)
  <2>1. /\ \E t \in {u \in Token : ~InUse(u)} :
             writing' = [writing EXCEPT ![p] = Admitted(p, t)]
        /\ flock' = p
    BY <1>2, <1>6, Zenon DEF Admission
  <2> HIDE DEF kept
  <2> QED BY <2>1, <1>3, <1>4, <1>6
<1> QED BY <1>5, <1>6

LEMMA WriterTypes ==
  ASSUME ChartTypeOK, Writers, NEW p \in Server, WriterStep(p)
  PROVE  ChartTypeOK'
<1> USE Constants, NoWriteType DEF ChartTypeOK, AnyWrite
<1>1. CASE WriteBusy(p) BY <1>1 DEF WriteBusy, faults
<1>2. CASE WriteUnlisted(p)
  <2>1. Loss /\ Tidy BY <1>2, WhoLoses DEF WriteUnlisted
  <2> QED BY <1>2, <2>1, TidyTypes, LossTypes DEF WriteUnlisted
<1>3. CASE WriteAdmit(p)
  <2>1. Loss BY <1>3, WhoLoses
  <2>2. Tidy BY <1>3 DEF WriteAdmit
  <2>3. writing' \in [Server -> AnyWrite]
    <3>1. \/ writing' = [writing EXCEPT ![p] = NoWrite]
          \/ \E t \in Token :
               writing' = [writing EXCEPT ![p] = Admitted(p, t)]
      BY <1>3, AdmitEffect
    <3>2. CASE writing' = [writing EXCEPT ![p] = NoWrite] BY <3>2
    <3>3. ASSUME NEW t \in Token, writing' = [writing EXCEPT ![p] = Admitted(p, t)]
          PROVE  writing' \in [Server -> AnyWrite]
      <4>1. Admitted(p, t) \in AnyWrite BY DEF Admitted
      <4> QED BY <3>3, <4>1
    <3> QED BY <3>1, <3>2, <3>3
  <2>4. flock' \in Server \cup {Nobody} BY <1>3 DEF WriteAdmit
  <2>5. ledger' \in [Server -> SUBSET Token] BY <1>3 DEF WriteAdmit
  <2>6. UNCHANGED <<alive, expirer, wake, timed>> BY <1>3 DEF WriteAdmit
  <2> QED BY <2>1, <2>2, <2>3, <2>4, <2>5, <2>6, TidyTypes, LossTypes
<1>4. CASE WriteTemp(p) BY <1>4 DEF WriteTemp, faults
<1>5. CASE WriteRename(p)
  <2>1. file' \in [Token -> {"none", "temp", "chart"}] BY <1>5 DEF WriteRename
  <2>2. writing' \in [Server -> AnyWrite] BY <1>5 DEF WriteRename
  <2>3. UNCHANGED <<mtime, issued, owner, ledger, flock, alive, expirer, wake, timed, faults>>
    BY <1>5 DEF WriteRename
  <2> QED BY <2>1, <2>2, <2>3 DEF faults
<1>6. CASE WriteRecord(p)
  <2>1. writing[p].token \in Token BY <1>6 DEF WriteRecord, Writers, Writer, Inside
  <2> QED BY <1>6, <2>1 DEF WriteRecord, faults
<1>7. CASE WriteFails(p)
  <2>1. Loss /\ Tidy BY <1>7, WhoLoses DEF WriteFails
  <2> QED BY <1>7, <2>1, TidyTypes, LossTypes DEF WriteFails
<1> QED BY <1>1, <1>2, <1>3, <1>4, <1>5, <1>6, <1>7 DEF WriterStep

LEMMA ExpirerTypes ==
  ASSUME ChartTypeOK, NEW p \in Server, ExpirerStep(p)
  PROVE  ChartTypeOK'
<1> USE DEF ChartTypeOK
<1>1. CASE ExpireClear(p) BY <1>1 DEF ExpireClear, faults
<1>2. CASE ExpireDue(p)
  <2>1. Loss BY <1>2, WhoLoses
  <2>2. Tidy BY <1>2 DEF ExpireDue
  <2> QED BY <1>2, <2>1, <2>2, LossTypes, TidyTypes DEF ExpireDue
<1>3. CASE NextCheck(p) BY <1>3 DEF NextCheck, faults
<1>4. CASE WaitEnds(p) BY <1>4 DEF WaitEnds, faults
<1> QED BY <1>1, <1>2, <1>3, <1>4 DEF ExpirerStep

LEMMA NextTypes ==
  ASSUME ChartTypeOK, Writers, [ChartNext]_chartVars
  PROVE  ChartTypeOK'
<1>1. CASE \E s \in Session : WriteStart(s)
  <2>1. PICK s \in Session : WriteStart(s) BY <1>1
  <2>2. writing' \in [Server -> AnyWrite]
    BY <2>1, Constants DEF WriteStart, ChartTypeOK, AnyWrite
  <2> QED BY <2>1, <2>2 DEF WriteStart, faults, ChartTypeOK, AnyWrite
<1>2. CASE \E p \in Server : WriterStep(p) BY <1>2, WriterTypes
<1>3. CASE \E p \in Server : ExpirerStep(p) BY <1>3, ExpirerTypes
<1>4. CASE \E p \in Server : Close(p)
  <2>1. PICK p \in Server : Close(p) BY <1>4
  <2>2. Loss /\ Tidy BY <2>1, WhoLoses DEF Close
  <2> QED BY <2>1, <2>2, LossTypes, TidyTypes DEF Close, ChartTypeOK
<1>5. CASE \E p \in Server : Dies(p)
  BY <1>5, Constants, NoWriteType DEF Dies, faults, ChartTypeOK, AnyWrite
<1>6. CASE \E p \in Server : ServerStart(p)
  <2>1. PICK p \in Server : ServerStart(p) BY <1>6
  <2>2. (Loss \/ UNCHANGED <<file, faults>>) /\ Tidy BY <2>1, WhoLoses DEF ServerStart
  <2> QED BY <2>1, <2>2, LossTypes, TidyTypes DEF ServerStart, faults, ChartTypeOK
<1>7. CASE Prune BY <1>7, WhoLoses, LossTypes, TidyTypes DEF Prune, ChartTypeOK
<1>8. CASE PruneAll BY <1>8, WhoLoses, LossTypes, TidyTypes DEF PruneAll, ChartTypeOK
<1>9. CASE ChartTick
  <2>1. writing' \in [Server -> AnyWrite]
    <3> SUFFICES ASSUME NEW p \in Server
                 PROVE  (IF writing[p].at = "lock"
                         THEN [writing[p] EXCEPT !.wait = @ + 1] ELSE writing[p])
                          \in AnyWrite
      BY <1>9 DEF ChartTick
    <3>1. writing[p] \in AnyWrite BY DEF ChartTypeOK, AnyWrite
    <3>2. writing[p].at = "lock" => writing[p].wait < LockWait
      BY <1>9 DEF ChartTick, InTime
    <3> QED BY <3>1, <3>2, Constants DEF AnyWrite
  <2>2. mtime' \in [Token -> 0..Old] /\ issued' \in [Token -> 0..Old]
    BY <1>9, Constants DEF ChartTick, Older, ChartTypeOK
  <2> QED BY <1>9, <2>1, <2>2 DEF ChartTick, faults, ChartTypeOK, AnyWrite
<1>10. CASE UNCHANGED chartVars BY <1>10 DEF chartVars, faults, ChartTypeOK
<1> QED BY <1>1, <1>2, <1>3, <1>4, <1>5, <1>6, <1>7, <1>8, <1>9, <1>10 DEF ChartNext
-----------------------------------------------------------------------------
(* What the writers have.                                                  *)

LEMMA WriterStepWriters ==
  ASSUME ChartTypeOK, Writers, NEW p \in Server, WriterStep(p)
  PROVE  Writers'
<1> SUFFICES ASSUME NEW q \in Server PROVE Writer(q)'
  BY DEF Writers
<1>0. Writer(p) /\ Writer(q) BY DEF Writers
<1>a. q # p => (flock = p => flock # q) OBVIOUS
<1> USE <1>0, Constants DEF ChartTypeOK, Writer, Inside, NoWrite
<1>1. CASE WriteBusy(p) BY <1>1 DEF WriteBusy
<1>2. CASE WriteUnlisted(p) BY <1>2 DEF WriteUnlisted
<1>3. CASE WriteAdmit(p)
  <2>1. /\ writing[p].at = "lock" /\ flock = Nobody /\ alive' = alive
        /\ ledger' = [ledger EXCEPT ![p] = @ \ Superseded(p)]
    BY <1>3 DEF WriteAdmit
  <2>2. CASE writing' = [writing EXCEPT ![p] = NoWrite] /\ flock' = flock
    BY <2>1, <2>2
  <2>3. ASSUME NEW t \in Token, flock' = p,
               writing' = [writing EXCEPT ![p] = Admitted(p, t)]
        PROVE  Writer(q)'
    BY <2>1, <2>3 DEF Admitted
  <2> QED BY <1>3, <2>2, <2>3, AdmitEffect
<1>4. CASE WriteTemp(p) BY <1>4 DEF WriteTemp
<1>5. CASE WriteRename(p) BY <1>5 DEF WriteRename
<1>6. CASE WriteRecord(p) BY <1>6 DEF WriteRecord
<1>7. CASE WriteFails(p) BY <1>7 DEF WriteFails
<1> QED BY <1>1, <1>2, <1>3, <1>4, <1>5, <1>6, <1>7 DEF WriterStep

LEMMA NextWriters ==
  ASSUME ChartTypeOK, Writers, [ChartNext]_chartVars
  PROVE  Writers'
<1>1. CASE \E p \in Server : WriterStep(p) BY <1>1, WriterStepWriters
<1>2. ASSUME ~\E p \in Server : WriterStep(p), NEW q \in Server
      PROVE  Writer(q)'
  <2>0. Writer(q) BY DEF Writers
  <2> USE <2>0, Constants DEF ChartTypeOK, Writer, Inside, NoWrite
  <2>1. CASE \E s \in Session : WriteStart(s) BY <2>1 DEF WriteStart
  <2>2. CASE \E p \in Server : ExpirerStep(p)
    BY <2>2 DEF ExpirerStep, ExpireClear, ExpireDue, NextCheck, WaitEnds
  <2>3. CASE \E p \in Server : Close(p) BY <2>3 DEF Close
  <2>4. CASE \E p \in Server : Dies(p) BY <2>4 DEF Dies
  <2>5. CASE \E p \in Server : ServerStart(p) BY <2>5 DEF ServerStart
  <2>6. CASE Prune \/ PruneAll BY <2>6 DEF Prune, PruneAll
  <2>7. CASE ChartTick BY <2>7 DEF ChartTick
  <2>8. CASE UNCHANGED chartVars BY <2>8 DEF chartVars
  <2> QED BY <1>2, <2>1, <2>2, <2>3, <2>4, <2>5, <2>6, <2>7, <2>8 DEF ChartNext
<1> QED BY <1>1, <1>2 DEF Writers
-----------------------------------------------------------------------------
(* The number of charts.                                                   *)

LEMMA ChartsFinite ==
  ASSUME NEW S \in SUBSET Token
  PROVE  IsFiniteSet(S) /\ Cardinality(S) \in Nat
BY FS_Subset, FS_CardinalityType, ChartAssumption

\* No step but a rename makes a chart, and what was missed is until it goes.
LEMMA OnlyRenameAdds ==
  ASSUME ChartTypeOK, Writers, [ChartNext]_chartVars,
         ~\E p \in Server : WriteRename(p)
  PROVE  (Charts \ missed)' \subseteq Charts \ missed
<1> USE DEF ChartTypeOK, Charts
<1>1. CASE \E p \in Server : WriteTemp(p)
  BY <1>1 DEF WriteTemp, faults, Writers, Writer, Inside
<1>2. CASE Loss
  <2>1. PICK gone : \E failed, uncounted \in SUBSET Token : Unlink(gone, failed, uncounted)
    BY <1>2 DEF Loss
  <2>2. PICK failed \in SUBSET Token, uncounted \in SUBSET Token :
          Unlink(gone, failed, uncounted)
    BY <2>1
  <2> QED BY <2>2 DEF Unlink
<1>3. CASE UNCHANGED <<file, missed>> BY <1>3
<1>4. \A p \in Server : WriterStep(p) /\ ~WriteTemp(p) /\ ~WriteRename(p)
                         => Loss \/ UNCHANGED <<file, missed>>
  BY WhoLoses DEF WriterStep, WriteBusy, WriteRecord, faults
<1>5. \A p \in Server : ExpirerStep(p) \/ Close(p) \/ Dies(p) \/ ServerStart(p)
                         => Loss \/ UNCHANGED <<file, missed>>
  BY WhoLoses DEF ExpirerStep, ExpireClear, NextCheck, WaitEnds, Dies, ServerStart, faults
<1>6. (\E s \in Session : WriteStart(s)) \/ Prune \/ PruneAll \/ ChartTick
        \/ UNCHANGED chartVars
      => Loss \/ UNCHANGED <<file, missed>>
  BY WhoLoses DEF WriteStart, Prune, ChartTick, chartVars, faults
<1> QED BY <1>1, <1>2, <1>3, <1>4, <1>5, <1>6 DEF ChartNext

LEMMA FewerOf ==
  ASSUME NEW S \in SUBSET Token, NEW R \in SUBSET S
  PROVE  Cardinality(R) \in Nat /\ Cardinality(R) <= Cardinality(S)
<1>1. IsFiniteSet(S) BY ChartsFinite
<1> QED BY <1>1, FS_Subset, FS_CardinalityType

\* A process counts only from its admission, which sees the room, and is the only
\* one that does.
LEMMA CountingStarts ==
  ASSUME ChartTypeOK, Writers, [ChartNext]_chartVars, NEW p \in Server,
         writing'[p].at \in Counting
  PROVE  \/ writing[p].at \in Counting
         \/ \E kept \in SUBSET Token :
              (Charts \ missed)' \subseteq kept /\ ~(Cardinality(kept) >= MaxFiles)
<1> USE Constants DEF ChartTypeOK, Counting, NoWrite
<1>1. CASE \E q \in Server : WriteAdmit(q)
  <2>1. PICK q \in Server : WriteAdmit(q) BY <1>1
  <2>2. CASE writing' = [writing EXCEPT ![q] = NoWrite] BY <2>2
  <2> QED BY <2>1, <2>2, AdmitEffect
<1>2. CASE \E q \in Server : WriterStep(q) /\ ~WriteAdmit(q)
  BY <1>2 DEF WriterStep, WriteBusy, WriteUnlisted, WriteTemp, WriteRename, WriteRecord,
              WriteFails
<1>3. CASE \E s \in Session : WriteStart(s) BY <1>3 DEF WriteStart
<1>4. CASE \E q \in Server : ExpirerStep(q) \/ Close(q) \/ Dies(q) \/ ServerStart(q)
  <2>1. PICK q \in Server : ExpirerStep(q) \/ Close(q) \/ Dies(q) \/ ServerStart(q)
    BY <1>4
  <2>2. writing' = writing \/ writing' = [writing EXCEPT ![q] = NoWrite]
    BY <2>1 DEF ExpirerStep, ExpireClear, ExpireDue, NextCheck, WaitEnds, Close, Dies,
                ServerStart
  <2> QED BY <2>2
<1>5. CASE Prune \/ PruneAll \/ ChartTick \/ UNCHANGED chartVars
  BY <1>5 DEF Prune, PruneAll, ChartTick, chartVars
<1> QED BY <1>1, <1>2, <1>3, <1>4, <1>5 DEF ChartNext

LEMMA RenameKeepsCap ==
  ASSUME ChartTypeOK, Writers, RoomKept, NEW p \in Server, WriteRename(p)
  PROVE  FilesCapped' /\ RoomKept'
<1> DEFINE t == writing[p].token
           C == Charts \ missed
<1>1. writing[p].at = "temp" /\ t \in Token /\ flock = p
  BY DEF WriteRename, Writers, Writer, Inside
<1>2. C' \in SUBSET (C \cup {t}) /\ C \cup {t} \in SUBSET Token
  BY <1>1 DEF WriteRename, faults, Charts, ChartTypeOK
<1>3. C \in SUBSET Token BY DEF Charts
<1> HIDE DEF C
<1>4. IsFiniteSet(C) /\ Cardinality(C) \in Nat BY <1>3, ChartsFinite
<1>5. Cardinality(C') \in Nat /\ Cardinality(C') <= Cardinality(C) + 1
  <2>1. Cardinality(C \cup {t}) =
          IF t \in C THEN Cardinality(C) ELSE Cardinality(C) + 1
    BY <1>4, FS_AddElement
  <2>2. Cardinality(C') \in Nat /\ Cardinality(C') <= Cardinality(C \cup {t})
    BY <1>2, FewerOf
  <2> QED BY <2>1, <2>2, <1>4
<1>6. Cardinality(C) < MaxFiles BY <1>1 DEF RoomKept, Counting, C
<1>8. FilesCapped' BY <1>4, <1>5, <1>6, Constants DEF FilesCapped, C
<1>9. \A q \in Server : writing'[q].at \notin Counting
  <2> SUFFICES ASSUME NEW q \in Server PROVE writing'[q].at \notin Counting
    OBVIOUS
  <2>1. CASE q = p BY <2>1 DEF WriteRename, Counting, ChartTypeOK
  <2>2. CASE q # p
    <3>1. writing[q].at \notin Inside BY <1>1, <2>2 DEF Writers, Writer
    <3> QED BY <3>1, <2>2 DEF WriteRename, Counting, Inside, ChartTypeOK
  <2> QED BY <2>1, <2>2
<1> QED BY <1>8, <1>9 DEF RoomKept

LEMMA NextCap ==
  ASSUME ChartTypeOK, Writers, RoomKept, FilesCapped, [ChartNext]_chartVars
  PROVE  RoomKept' /\ FilesCapped'
<1>1. CASE \E p \in Server : WriteRename(p) BY <1>1, RenameKeepsCap
<1>2. CASE ~\E p \in Server : WriteRename(p)
  <2> DEFINE C == Charts \ missed
  <2>1. C' \in SUBSET C BY <1>2, OnlyRenameAdds
  <2>2. C \in SUBSET Token BY DEF Charts
  <2>3. Cardinality(C) \in Nat BY <2>2, ChartsFinite
  <2>4. Cardinality(C') \in Nat /\ Cardinality(C') <= Cardinality(C)
    BY <2>1, <2>2, FewerOf
  <2>5. FilesCapped' BY <2>3, <2>4, Constants DEF FilesCapped
  <2>6. ASSUME NEW p \in Server, writing'[p].at \in Counting
        PROVE  Cardinality(C') < MaxFiles
    <3>1. CASE writing[p].at \in Counting
      <4>1. Cardinality(C) < MaxFiles BY <3>1 DEF RoomKept
      <4> QED BY <4>1, <2>3, <2>4, Constants
    <3>2. ASSUME NEW kept \in SUBSET Token, C' \subseteq kept,
                 ~(Cardinality(kept) >= MaxFiles)
          PROVE  Cardinality(C') < MaxFiles
      <4>1. Cardinality(C') <= Cardinality(kept) BY <3>2, FewerOf
      <4>2. Cardinality(kept) \in Nat BY ChartsFinite
      <4> QED BY <4>1, <4>2, <3>2, <2>4, Constants
    <3> QED BY <2>6, <3>1, <3>2, CountingStarts
  <2> QED BY <2>5, <2>6 DEF RoomKept
<1> QED BY <1>1, <1>2
-----------------------------------------------------------------------------
(* Files and their owners.                                                 *)

\* A chart that is recorded is nobody's to write.
LEMMA NextRecorded ==
  ASSUME ChartTypeOK, Writers, Recorded, [ChartNext]_chartVars
  PROVE  Recorded'
<1> SUFFICES ASSUME NEW q \in Server, NEW t \in Token, t \in ledger'[q]
             PROVE  file'[t] # "temp" /\ \A p \in Server : writing'[p].token # t
  <2>1. ledger' \in [Server -> SUBSET Token] BY NextTypes DEF ChartTypeOK
  <2> QED BY <2>1 DEF Recorded
<1>a. t \in ledger[q] => file[t] # "temp" /\ \A p \in Server : writing[p].token # t
  BY DEF Recorded
<1> USE <1>a, Constants DEF ChartTypeOK, NoWrite
<1>1. CASE \E p \in Server : WriteBusy(p) BY <1>1 DEF WriteBusy
<1>2. CASE \E p \in Server : WriteUnlisted(p)
  <2>1. Removes BY <1>2, WhoLoses, LossTypes
  <2> QED BY <1>2, <2>1 DEF WriteUnlisted, Removes
<1>3. CASE \E p \in Server : WriteAdmit(p)
  <2>1. PICK p \in Server : WriteAdmit(p) BY <1>3
  <2>2. Removes BY <2>1, WhoLoses, LossTypes
  <2>3. t \in ledger[q] BY <2>1 DEF WriteAdmit
  <2>4. file'[t] # "temp" BY <2>2, <2>3 DEF Removes
  <2>5. CASE writing' = [writing EXCEPT ![p] = NoWrite] BY <2>3, <2>4, <2>5
  <2>6. ASSUME NEW u \in Token, ~InUse(u),
               writing' = [writing EXCEPT ![p] = Admitted(p, u)]
        PROVE  \A r \in Server : writing'[r].token # t
    <3>1. u # t BY <2>3, <2>6 DEF InUse
    <3> QED BY <2>3, <2>6, <3>1 DEF Admitted
  <2> QED BY <2>1, <2>4, <2>5, <2>6, AdmitEffect
<1>4. CASE \E p \in Server : WriteTemp(p) BY <1>4 DEF WriteTemp
<1>5. CASE \E p \in Server : WriteRename(p) BY <1>5 DEF WriteRename
<1>6. CASE \E p \in Server : WriteRecord(p)
  <2>1. PICK p \in Server : WriteRecord(p) BY <1>6
  <2>2. CASE t \in ledger[q] BY <2>1, <2>2 DEF WriteRecord
  <2>3. CASE q = p /\ t = writing[p].token
    <3>1. file'[t] # "temp" BY <2>1, <2>3 DEF WriteRecord
    <3>2. ASSUME NEW r \in Server PROVE writing'[r].token # t
      <4>1. CASE r = p BY <2>1, <4>1 DEF WriteRecord
      <4>2. CASE r # p
        <5>1. flock = p BY <2>1 DEF WriteRecord, Writers, Writer, Inside
        <5>2. writing[r].token = Nobody
          BY <4>2, <5>1 DEF Writers, Writer, Inside
        <5> QED BY <2>1, <4>2, <5>2 DEF WriteRecord
      <4> QED BY <4>1, <4>2
    <3> QED BY <3>1, <3>2
  <2> QED BY <2>1, <2>2, <2>3 DEF WriteRecord
<1>7. CASE \E p \in Server : WriteFails(p)
  <2>1. Removes BY <1>7, WhoLoses, LossTypes
  <2> QED BY <1>7, <2>1 DEF WriteFails, Removes
<1>8. CASE \E p \in Server : ExpirerStep(p)
  <2>1. PICK p \in Server : ExpirerStep(p) BY <1>8
  <2>2. CASE ExpireDue(p)
    <3>1. Removes BY <2>2, WhoLoses, LossTypes
    <3>2. t \in ledger[q] /\ writing' = writing BY <2>2 DEF ExpireDue
    <3> QED BY <3>1, <3>2 DEF Removes
  <2> QED BY <2>1, <2>2 DEF ExpirerStep, ExpireClear, NextCheck, WaitEnds
<1>9. CASE \E p \in Server : Close(p)
  <2>1. Removes BY <1>9, WhoLoses, LossTypes
  <2> QED BY <1>9, <2>1 DEF Close, Removes
<1>10. CASE \E p \in Server : Dies(p) BY <1>10 DEF Dies
<1>11. CASE (\E p \in Server : ServerStart(p)) \/ Prune
  <2>1. /\ SweepAlone \/ file' = file
        /\ UNCHANGED <<ledger, writing>>
    BY <1>11 DEF ServerStart, Prune
  <2>2. file'[t] \in {file[t], "none"} BY <2>1, WhoLoses, LossTypes DEF Removes
  <2> QED BY <2>1, <2>2
<1>12. CASE PruneAll
  <2>1. Removes BY <1>12, WhoLoses, LossTypes
  <2> QED BY <1>12, <2>1 DEF PruneAll, Removes
<1>13. CASE \E s \in Session : WriteStart(s) BY <1>13 DEF WriteStart
<1>14. CASE ChartTick BY <1>14 DEF ChartTick
<1>15. CASE UNCHANGED chartVars BY <1>15 DEF chartVars
<1> QED BY <1>1, <1>2, <1>3, <1>4, <1>5, <1>6, <1>7, <1>8, <1>9, <1>10, <1>11, <1>12,
           <1>13, <1>14, <1>15 DEF ChartNext, WriterStep

\* What a step leaves of a file it was to unlink is known to have been left.
LEMMA LossLeaves ==
  ASSUME ChartTypeOK, NEW gone, NEW failed \in SUBSET Token, NEW uncounted \in SUBSET Token,
         Unlink(gone, failed, uncounted), NEW t \in Token, file'[t] # "none"
  PROVE  /\ file'[t] = file[t]
         /\ t \in left => t \in left'
         /\ t \in gone => t \in left'
BY DEF Unlink, ChartTypeOK

LEMMA LossKeepsLeft ==
  ASSUME ChartTypeOK, Loss, NEW t \in Token, file'[t] # "none"
  PROVE  file[t] # "none" /\ (t \in left => t \in left')
<1>1. PICK gone : \E failed, uncounted \in SUBSET Token : Unlink(gone, failed, uncounted)
  BY DEF Loss
<1>2. PICK failed \in SUBSET Token, uncounted \in SUBSET Token :
        Unlink(gone, failed, uncounted)
  BY <1>1
<1> QED BY <1>2, LossLeaves

\* What the expiry thread removes: what is due, and by its sweep what is expired.
LEMMA DueLoss ==
  ASSUME NEW p \in Server, ExpireDue(p)
  PROVE  \E failed \in SUBSET Present, gone \in SUBSET Token :
           /\ Unlink(Due(p) \cup gone, failed, {})
           /\ \/ gone = {}
              \/ \E unseen \in SUBSET Token : Sweeps(Due(p) \ failed, unseen, 0, gone)
<1>a. Present \subseteq Token BY DEF Present
<1>1. PICK failed \in SUBSET Present :
        IF (Due(p) \cap Charts) \ failed = {}
        THEN Unlink(Due(p), failed, {})
        ELSE \E unseen \in SUBSET Present : \E gone \in SUBSET Present :
               /\ Sweeps(Due(p) \ failed, unseen, 0, gone) \/ gone = {}
               /\ Unlink(Due(p) \cup gone, failed, {})
  BY DEF ExpireDue
<1>2. CASE (Due(p) \cap Charts) \ failed = {}
  <2>1. Due(p) \cup {} = Due(p) OBVIOUS
  <2> QED BY <1>1, <1>2, <2>1
<1>3. CASE (Due(p) \cap Charts) \ failed # {}
  <2>1. PICK unseen \in SUBSET Present, gone \in SUBSET Present :
          /\ Sweeps(Due(p) \ failed, unseen, 0, gone) \/ gone = {}
          /\ Unlink(Due(p) \cup gone, failed, {})
    BY <1>1, <1>3
  <2> QED BY <1>a, <2>1
<1> QED BY <1>2, <1>3

LEMMA AdmitLeaves ==
  ASSUME ChartTypeOK, NEW p \in Server, WriteAdmit(p), NEW t \in Token, file'[t] # "none"
  PROVE  /\ file'[t] = file[t]
         /\ t \in left \/ t \in Superseded(p) => t \in left'
<1>a. Present \subseteq Token BY DEF Present
<1>1. PICK failed \in SUBSET Present :
        \E unseen \in SUBSET Present : \E gone \in SUBSET Present :
          Admission(p, failed, unseen, gone)
  BY AdmitPicks
<1>2. PICK unseen \in SUBSET Present, gone \in SUBSET Present :
        Unlink(Superseded(p) \cup gone, failed, unseen \cup (gone \cap failed))
  BY <1>1 DEF Admission, MakesRoom
<1>3. unseen \cup (gone \cap failed) \in SUBSET Token /\ failed \in SUBSET Token
  BY <1>a
<1> DEFINE G == Superseded(p) \cup gone
           U == unseen \cup (gone \cap failed)
<1>4. Unlink(G, failed, U) /\ U \in SUBSET Token BY <1>2, <1>3
<1>5. t \in Superseded(p) => t \in G OBVIOUS
<1> HIDE DEF G, U
<1> QED BY <1>3, <1>4, <1>5, LossLeaves

LEMMA DueLeaves ==
  ASSUME ChartTypeOK, NEW p \in Server, ExpireDue(p), NEW t \in Token, file'[t] # "none"
  PROVE  /\ file[t] # "none"
         /\ t \in left \/ t \in Due(p) => t \in left'
<1>1. PICK failed \in SUBSET Present, gone \in SUBSET Token :
        Unlink(Due(p) \cup gone, failed, {})
  BY DueLoss
<1>2. failed \in SUBSET Token BY DEF Present
<1> DEFINE G == Due(p) \cup gone
<1>3. Unlink(G, failed, {}) BY <1>1
<1>4. t \in Due(p) => t \in G OBVIOUS
<1> HIDE DEF G
<1> QED BY <1>2, <1>3, <1>4, LossLeaves

LEMMA WriterStray ==
  ASSUME ChartTypeOK, Writers, NoStrayFile, NEW p \in Server, WriterStep(p)
  PROVE  NoStrayFile'
<1> SUFFICES ASSUME NEW t \in Token, file'[t] # "none", owner'[t] # Nobody
             PROVE  LET q == HostOf[owner'[t]] IN
                    \/ t \in ledger'[q] \/ t = writing'[q].token
                    \/ alive'[q] = "closing" \/ t \in left'
  BY DEF NoStrayFile
<1> DEFINE q == HostOf[owner'[t]]
<1>0. Writer(p) BY DEF Writers
<1>a. q \in Server
  <2>1. owner'[t] \in Session BY WriterTypes DEF ChartTypeOK
  <2> QED BY <2>1, Constants
<1>b. file[t] # "none" /\ owner'[t] = owner[t]
        => \/ t \in ledger[q] \/ t = writing[q].token
           \/ alive[q] = "closing" \/ t \in left
  BY DEF NoStrayFile
<1>c. Present \subseteq Token BY DEF Present
<1> USE <1>0, <1>a, <1>b, Constants DEF ChartTypeOK, Writer, Inside, NoWrite
<1>1. CASE WriteBusy(p) BY <1>1 DEF WriteBusy, faults
<1>2. CASE WriteUnlisted(p)
  <2>1. PICK failed \in SUBSET Present : Unlink(Superseded(p), failed, {})
    BY <1>2 DEF WriteUnlisted
  <2>2. /\ file'[t] = file[t]
        /\ t \in left \/ t \in Superseded(p) => t \in left'
    BY <2>1, <1>c, LossLeaves
  <2>3. owner'[t] = owner[t] BY <1>2 DEF WriteUnlisted, Tidy
  <2> QED BY <1>2, <2>2, <2>3 DEF WriteUnlisted
<1>3. CASE WriteAdmit(p)
  <2>2. /\ file'[t] = file[t]
        /\ t \in left \/ t \in Superseded(p) => t \in left'
    BY <1>3, AdmitLeaves
  <2>3. owner'[t] = owner[t] BY <1>3 DEF WriteAdmit, Tidy
  <2>4. /\ ledger' = [ledger EXCEPT ![p] = @ \ Superseded(p)]
        /\ alive' = alive /\ writing[p].at = "lock"
    BY <1>3 DEF WriteAdmit
  <2>5. \/ t \in ledger[q] \/ t = writing[q].token \/ alive[q] = "closing" \/ t \in left
    BY <2>2, <2>3
  <2>6. t = writing[q].token => q # p BY <2>4
  <2>7. q # p => writing'[q] = writing[q]
    <3>1. CASE writing' = [writing EXCEPT ![p] = NoWrite] BY <3>1
    <3>2. ASSUME NEW u \in Token, writing' = [writing EXCEPT ![p] = Admitted(p, u)]
          PROVE  q # p => writing'[q] = writing[q]
      BY <3>2
    <3> QED BY <1>3, <3>1, <3>2, AdmitEffect
  <2> QED BY <2>2, <2>4, <2>5, <2>6, <2>7
<1>4. CASE WriteTemp(p) BY <1>4 DEF WriteTemp, faults
<1>5. CASE WriteRename(p) BY <1>5 DEF WriteRename, faults
<1>6. CASE WriteRecord(p) BY <1>6 DEF WriteRecord, faults
<1>7. CASE WriteFails(p)
  <2>1. PICK failed \in SUBSET Present : Unlink({writing[p].token}, failed, {})
    BY <1>7 DEF WriteFails
  <2>2. /\ file'[t] = file[t]
        /\ t \in left \/ t = writing[p].token => t \in left'
    BY <2>1, <1>c, LossLeaves
  <2>3. owner'[t] = owner[t] BY <1>7 DEF WriteFails, Tidy
  <2> QED BY <1>7, <2>2, <2>3 DEF WriteFails
<1> QED BY <1>1, <1>2, <1>3, <1>4, <1>5, <1>6, <1>7 DEF WriterStep

LEMMA NextStray ==
  ASSUME ChartTypeOK, Writers, Recorded, NoStrayFile, [ChartNext]_chartVars
  PROVE  NoStrayFile'
<1>1. CASE \E p \in Server : WriterStep(p) BY <1>1, WriterStray
<1>2. ASSUME ~\E p \in Server : WriterStep(p),
             NEW t \in Token, file'[t] # "none", owner'[t] # Nobody
      PROVE  LET q == HostOf[owner'[t]] IN
             \/ t \in ledger'[q] \/ t = writing'[q].token
             \/ alive'[q] = "closing" \/ t \in left'
  <2> DEFINE q == HostOf[owner'[t]]
  <2>a. q \in Server
    <3>1. owner'[t] \in Session BY <1>2, NextTypes DEF ChartTypeOK
    <3> QED BY <3>1, Constants
  <2>0. Writer(q) BY <2>a DEF Writers
  <2>b. file[t] # "none" /\ owner'[t] = owner[t]
          => \/ t \in ledger[q] \/ t = writing[q].token
             \/ alive[q] = "closing" \/ t \in left
    BY <1>2 DEF NoStrayFile
  <2>c. Present \subseteq Token BY DEF Present
  <2> USE <1>2, <2>0, <2>a, <2>b, Constants DEF ChartTypeOK, Writer, NoWrite
  <2>1. CASE \E s \in Session : WriteStart(s) BY <2>1 DEF WriteStart, faults
  <2>2. CASE \E p \in Server : ExpirerStep(p)
    <3>1. PICK p \in Server : ExpirerStep(p) BY <2>2
    <3>2. CASE ExpireDue(p)
      <4>2. /\ ledger' = [ledger EXCEPT ![p] = @ \ Due(p)]
            /\ alive' = alive /\ writing' = writing
        BY <3>2 DEF ExpireDue
      <4>3. owner'[t] = owner[t] BY <3>2 DEF ExpireDue, Tidy
      <4>4. file[t] # "none" /\ (t \in left \/ t \in Due(p) => t \in left')
        BY <3>2, DueLeaves
      <4> QED BY <4>2, <4>3, <4>4
    <3> QED BY <3>1, <3>2 DEF ExpirerStep, ExpireClear, NextCheck, WaitEnds, faults
  <2>3. CASE \E p \in Server : Close(p)
    <3>1. PICK p \in Server : Close(p) BY <2>3
    <3>2. PICK failed \in SUBSET Present : Unlink(ledger[p], failed, {}) BY <3>1 DEF Close
    <3>3. file[t] # "none" /\ (t \in left \/ t \in ledger[p] => t \in left')
      BY <3>2, <2>c, LossLeaves
    <3> QED BY <3>1, <3>3 DEF Close, Tidy
  <2>4. CASE \E p \in Server : Dies(p)
    <3>1. PICK p \in Server : Dies(p) BY <2>4
    <3>2. file[t] # "none" /\ owner'[t] = owner[t] /\ q # p BY <3>1 DEF Dies
    <3> QED BY <3>1, <3>2 DEF Dies, faults
  <2>5. CASE \E p \in Server : ServerStart(p)
    <3>1. PICK p \in Server : ServerStart(p) BY <2>5
    <3>2. Loss \/ UNCHANGED <<file, left>> BY <3>1, WhoLoses DEF ServerStart, faults
    <3>3. file[t] # "none" /\ (t \in left => t \in left') BY <3>2, LossKeepsLeft
    <3> QED BY <3>1, <3>3 DEF ServerStart, Tidy
  <2>6. CASE Prune \/ PruneAll
    <3>1. Loss BY <2>6, WhoLoses DEF Prune
    <3>2. file[t] # "none" /\ (t \in left => t \in left') BY <3>1, LossKeepsLeft
    <3> QED BY <2>6, <3>2 DEF Prune, PruneAll, Tidy
  <2>8. CASE ChartTick BY <2>8 DEF ChartTick, faults
  <2>9. CASE UNCHANGED chartVars BY <2>9 DEF chartVars, faults
  <2> QED BY <1>2, <2>1, <2>2, <2>3, <2>4, <2>5, <2>6, <2>8, <2>9 DEF ChartNext
<1> QED BY <1>1, <1>2 DEF NoStrayFile
-----------------------------------------------------------------------------
(* The expiry thread.                                                      *)

LEMMA NextArmed ==
  ASSUME ChartTypeOK, Writers, ExpiryArmed, [ChartNext]_chartVars
  PROVE  ExpiryArmed'
<1> SUFFICES ASSUME NEW q \in Server, alive'[q] = "up", ledger'[q] # {}
             PROVE  /\ expirer'[q] # "none"
                    /\ expirer'[q] = "wait" => timed'[q] \/ wake'[q]
  BY DEF ExpiryArmed
<1>0. Writer(q) BY DEF Writers
<1>a. alive[q] = "up" /\ ledger[q] # {}
        => expirer[q] # "none" /\ (expirer[q] = "wait" => timed[q] \/ wake[q])
  BY DEF ExpiryArmed
<1> USE <1>0, <1>a DEF ChartTypeOK, Writer
<1>1. CASE \E p \in Server : WriterStep(p) /\ ~WriteRecord(p)
  BY <1>1 DEF WriterStep, WriteBusy, WriteUnlisted, WriteAdmit, WriteTemp, WriteRename,
              WriteFails
<1>2. CASE \E p \in Server : WriteRecord(p) BY <1>2 DEF WriteRecord
<1>3. CASE \E p \in Server : ExpireClear(p) BY <1>3 DEF ExpireClear
<1>4. CASE \E p \in Server : ExpireDue(p) BY <1>4 DEF ExpireDue
<1>5. CASE \E p \in Server : NextCheck(p)
  <2>1. PICK p \in Server : NextCheck(p) BY <1>5
  <2>2. CASE q = p
    <3>1. timed'[q] = (ledger[q] # {}) BY <2>1, <2>2, Zenon DEF NextCheck
    <3>2. expirer'[q] = "wait" /\ ledger[q] # {} BY <2>1, <2>2 DEF NextCheck
    <3> QED BY <3>1, <3>2
  <2> QED BY <2>1, <2>2 DEF NextCheck
<1>6. CASE \E p \in Server : WaitEnds(p) BY <1>6 DEF WaitEnds
<1>7. CASE \E p \in Server : Close(p) BY <1>7 DEF Close
<1>8. CASE \E p \in Server : Dies(p) BY <1>8 DEF Dies
<1>9. CASE \E p \in Server : ServerStart(p) BY <1>9 DEF ServerStart
<1>10. CASE (\E s \in Session : WriteStart(s)) \/ Prune \/ PruneAll \/ ChartTick
              \/ UNCHANGED chartVars
  BY <1>10 DEF WriteStart, Prune, PruneAll, ChartTick, chartVars
<1> QED BY <1>1, <1>2, <1>3, <1>4, <1>5, <1>6, <1>7, <1>8, <1>9, <1>10
        DEF ChartNext, ExpirerStep
-----------------------------------------------------------------------------
(* Removals.                                                               *)

LEMMA TidyAges ==
  ASSUME ChartTypeOK, Ages, Tidy
  PROVE  Ages'
<1> SUFFICES ASSUME NEW t \in Token
             PROVE  mtime'[t] <= issued'[t] /\ (file'[t] = "none" => mtime'[t] = 0)
  BY DEF Ages
<1>1. mtime[t] \in Nat /\ issued[t] \in Nat BY Constants DEF ChartTypeOK
<1>2. CASE file'[t] = "none"
  <2>1. mtime'[t] = 0 BY <1>2 DEF Tidy
  <2>2. issued'[t] \in Nat BY <1>1 DEF Tidy
  <2> QED BY <2>1, <2>2
<1>3. CASE file'[t] # "none"
  <2>1. InUse(t)' BY <1>3 DEF InUse
  <2> QED BY <1>1, <1>3, <2>1 DEF Tidy, Ages
<1> QED BY <1>2, <1>3

LEMMA NextAges ==
  ASSUME ChartTypeOK, Writers, Ages, [ChartNext]_chartVars
  PROVE  Ages'
<1>1. CASE Tidy BY <1>1, TidyAges
<1>2. CASE \E p \in Server : Dies(p)
  <2>1. PICK p \in Server : Dies(p) BY <1>2
  <2>2. ASSUME NEW t \in Token
        PROVE  mtime'[t] <= issued'[t] /\ (file'[t] = "none" => mtime'[t] = 0)
    <3>1. mtime[t] \in Nat /\ issued[t] \in Nat BY Constants DEF ChartTypeOK
    <3>2. mtime'[t] = mtime[t] /\ file'[t] = file[t] BY <2>1 DEF Dies
    <3>3. file[t] # "none" => InUse(t)' BY <3>2 DEF InUse
    <3>4. issued'[t] = (IF InUse(t)' THEN issued[t] ELSE 0) BY <2>1 DEF Dies
    <3> QED BY <3>1, <3>2, <3>3, <3>4 DEF Ages
  <2> QED BY <2>2 DEF Ages
<1>3. CASE ChartTick
  <2> SUFFICES ASSUME NEW t \in Token
               PROVE  mtime'[t] <= issued'[t] /\ (file'[t] = "none" => mtime'[t] = 0)
    BY DEF Ages
  <2>1. mtime[t] \in 0..Old /\ issued[t] \in 0..Old BY DEF ChartTypeOK
  <2>2. file[t] # "none" => InUse(t) BY DEF InUse
  <2>3. /\ mtime'[t] = IF file[t] = "none" THEN 0 ELSE Older(mtime[t])
        /\ issued'[t] = IF InUse(t) THEN Older(issued[t]) ELSE 0
        /\ file' = file
    BY <1>3 DEF ChartTick
  <2>4. mtime[t] <= issued[t] BY DEF Ages
  <2> QED BY <2>1, <2>2, <2>3, <2>4, Constants DEF Older
<1>4. CASE \E p \in Server : WriteTemp(p)
  BY <1>4 DEF WriteTemp, Ages, ChartTypeOK
<1>5. CASE \E p \in Server : WriteRename(p)
  BY <1>5 DEF WriteRename, Ages, ChartTypeOK
<1>6. CASE UNCHANGED <<file, mtime, issued>> BY <1>6 DEF Ages
<1> QED BY <1>1, <1>2, <1>3, <1>4, <1>5, <1>6
        DEF ChartNext, chartVars, WriterStep, ExpirerStep, WriteStart, WriteBusy,
            WriteUnlisted, WriteAdmit, WriteRecord, WriteFails, ExpireClear, ExpireDue,
            NextCheck, WaitEnds, Close, ServerStart, Prune, PruneAll

\* What a sweep removes is expired, or past the grace period when there are more
\* charts than the cap, or as many and it makes room.
LEMMA SweepReasons ==
  ASSUME ChartTypeOK, Ages, NEW already \in SUBSET Token, NEW unseen \in SUBSET Token,
         NEW room \in {0, 1}, NEW gone, Sweeps(already, unseen, room, gone),
         NEW t \in Token, t \in gone, file[t] = "chart"
  PROVE  \/ issued[t] >= Ttl
         \/ /\ issued[t] >= SupersedeGrace
            /\ \/ Cardinality(Charts) > MaxFiles
               \/ room = 1 /\ Cardinality(Charts) = MaxFiles
<1> DEFINE old  == {u \in Token \ (already \cup unseen) : TooOld(u)}
           kept == Charts \ (already \cup unseen \cup old)
<1>0. PICK more \in SUBSET kept :
        RoomMade(kept, MaxFiles - room, more) /\ gone = old \cup more
  BY DEF Sweeps
<1>1. mtime[t] \in Nat /\ issued[t] \in Nat /\ mtime[t] <= issued[t]
  BY Constants DEF ChartTypeOK, Ages
<1>2. CASE t \in old BY <1>1, <1>2, Constants DEF TooOld
<1>3. CASE t \in more
  <2>1. mtime[t] >= SupersedeGrace /\ Cardinality(kept \ more) >= MaxFiles - room
    BY <1>0, <1>3 DEF RoomMade
  <2> DEFINE rest == kept \ more
  <2>2. rest \in SUBSET Token /\ Charts \in SUBSET Token BY DEF Charts
  <2>3. IsFiniteSet(rest) /\ Cardinality(rest) \in Nat
        /\ IsFiniteSet(Charts) /\ Cardinality(Charts) \in Nat
    BY <2>2, ChartsFinite
  <2>4. t \notin rest /\ rest \cup {t} \in SUBSET Charts BY <1>3 DEF Charts
  <2> HIDE DEF rest, kept, old
  <2>5. Cardinality(rest \cup {t}) = Cardinality(rest) + 1
    BY <2>3, <2>4, FS_AddElement
  <2>6. Cardinality(rest \cup {t}) <= Cardinality(Charts) BY <2>3, <2>4, FS_Subset
  <2>7. Cardinality(rest) >= MaxFiles - room BY <2>1 DEF rest
  <2>8. \/ Cardinality(Charts) > MaxFiles
        \/ room = 1 /\ Cardinality(Charts) = MaxFiles
    BY <2>3, <2>5, <2>6, <2>7, Constants
  <2>9. issued[t] >= SupersedeGrace BY <1>1, <2>1, Constants
  <2> QED BY <2>8, <2>9
<1> QED BY <1>0, <1>2, <1>3

\* The reasons of RemovedForAReason, for one chart.
Reason(t) ==
  \/ issued[t] >= Ttl
  \/ /\ issued[t] >= SupersedeGrace
     /\ \/ Cardinality(Charts) > MaxFiles
        \/ \E p \in Server :
             /\ writing[p].at = "lock"
             /\ writing[p].by = owner[t] \/ Cardinality(Charts) = MaxFiles
  \/ \E p \in Server : t = writing[p].token
  \/ \E p \in Server : t \in ledger[p] /\ alive'[p] # alive[p]
  \/ /\ \A u \in Token : file'[u] = "none" \/ u \in left'
     /\ UNCHANGED <<ledger, writing>>

\* A file that goes was to be unlinked.
LEMMA GoneWas ==
  ASSUME ChartTypeOK, NEW gone, NEW failed, NEW uncounted, Unlink(gone, failed, uncounted),
         NEW t \in Token, file[t] = "chart", file'[t] = "none"
  PROVE  t \in gone
BY DEF Unlink

LEMMA PruneReasons ==
  ASSUME ChartTypeOK, Ages, SweepAlone,
         NEW t \in Token, file[t] = "chart", file'[t] = "none"
  PROVE  Reason(t)
<1>1. PICK failed \in SUBSET Present :
        \E unseen \in SUBSET Present : \E gone \in SUBSET Present :
          Sweeps({}, unseen, 0, gone) /\ Unlink(gone, failed, {})
  BY DEF SweepAlone
<1>2. PICK unseen \in SUBSET Present, gone \in SUBSET Present :
        Sweeps({}, unseen, 0, gone) /\ Unlink(gone, failed, {})
  BY <1>1
<1>3. t \in gone BY <1>2, GoneWas
<1>4. unseen \in SUBSET Token BY DEF Present
<1> QED BY <1>2, <1>3, <1>4, SweepReasons DEF Reason

LEMMA StepReasons ==
  ASSUME ChartTypeOK, Ages, ChartNext,
         NEW t \in Token, file[t] = "chart", file'[t] = "none"
  PROVE  Reason(t)
<1>a. Present \subseteq Token BY DEF Present
<1>1. CASE \E p \in Server : WriteAdmit(p)
  <2>1. PICK p \in Server : WriteAdmit(p) BY <1>1
  <2>0. PICK failed \in SUBSET Present :
          \E unseen \in SUBSET Present : \E gone \in SUBSET Present :
            Admission(p, failed, unseen, gone)
    BY <2>1, AdmitPicks
  <2>2. PICK unseen \in SUBSET Present, gone \in SUBSET Present :
          /\ Sweeps(Superseded(p) \ failed, unseen, 1, gone)
          /\ Unlink(Superseded(p) \cup gone, failed, unseen \cup (gone \cap failed))
    BY <2>0 DEF Admission, MakesRoom
  <2>3. writing[p].at = "lock" BY <2>1 DEF WriteAdmit
  <2>4. CASE t \in Superseded(p) BY <2>3, <2>4 DEF Superseded, Reason
  <2>5. CASE t \in gone
    <3>1. Superseded(p) \ failed \in SUBSET Token BY DEF Superseded, ChartTypeOK
    <3> QED BY <1>a, <2>2, <2>3, <2>5, <3>1, SweepReasons DEF Reason
  <2> QED BY <2>2, <2>4, <2>5, GoneWas
<1>2. CASE \E p \in Server : WriteUnlisted(p)
  <2>1. PICK p \in Server : WriteUnlisted(p) BY <1>2
  <2>2. t \in Superseded(p) BY <2>1, GoneWas DEF WriteUnlisted
  <2> QED BY <2>1, <2>2 DEF WriteUnlisted, Superseded, Reason
<1>3. CASE \E p \in Server : WriteFails(p)
  <2>1. PICK p \in Server : WriteFails(p) BY <1>3
  <2>2. t \in {writing[p].token} BY <2>1, GoneWas DEF WriteFails
  <2> QED BY <2>2 DEF Reason
<1>4. CASE \E p \in Server : ExpireDue(p)
  <2>1. PICK p \in Server : ExpireDue(p) BY <1>4
  <2>2. PICK failed \in SUBSET Present, gone \in SUBSET Token :
          /\ Unlink(Due(p) \cup gone, failed, {})
          /\ \/ gone = {}
             \/ \E unseen \in SUBSET Token : Sweeps(Due(p) \ failed, unseen, 0, gone)
    BY <2>1, DueLoss
  <2>3. CASE t \in Due(p) BY <2>3 DEF Due, Reason
  <2>4. CASE t \in gone
    <3>1. PICK unseen \in SUBSET Token : Sweeps(Due(p) \ failed, unseen, 0, gone)
      BY <2>2, <2>4
    <3>2. Due(p) \ failed \in SUBSET Token BY DEF Due, ChartTypeOK
    <3> DEFINE D == Due(p) \ failed
    <3>3. D \in SUBSET Token /\ unseen \in SUBSET Token /\ 0 \in {0, 1}
          /\ Sweeps(D, unseen, 0, gone)
      BY <3>1, <3>2
    <3> HIDE DEF D
    <3>4. \/ issued[t] >= Ttl
          \/ /\ issued[t] >= SupersedeGrace
             /\ \/ Cardinality(Charts) > MaxFiles
                \/ 0 = 1 /\ Cardinality(Charts) = MaxFiles
      BY <2>4, <3>3, SweepReasons
    <3> QED BY <3>4 DEF Reason
  <2> QED BY <2>2, <2>3, <2>4, GoneWas
<1>5. CASE \E p \in Server : Close(p)
  <2>1. PICK p \in Server : Close(p) BY <1>5
  <2>2. t \in ledger[p] BY <2>1, GoneWas DEF Close
  <2> QED BY <2>1, <2>2 DEF Close, Reason, ChartTypeOK
<1>6. CASE (\E p \in Server : ServerStart(p)) \/ Prune
  <2>1. SweepAlone BY <1>6 DEF ServerStart, Prune
  <2> QED BY <2>1, PruneReasons
<1>7. CASE PruneAll
  <2>1. PICK failed \in SUBSET Present : Unlink(Token, failed, {}) BY <1>7 DEF PruneAll
  <2>2. \A u \in Token : file'[u] = "none" \/ u \in left'
    BY <1>a, <2>1, LossLeaves
  <2> QED BY <1>7, <2>2 DEF PruneAll, Reason
<1>8. CASE \E p \in Server : WriteTemp(p) \/ WriteRename(p)
  BY <1>8 DEF WriteTemp, WriteRename, ChartTypeOK
<1>9. CASE file' = file BY <1>9
<1> QED BY <1>1, <1>2, <1>3, <1>4, <1>5, <1>6, <1>7, <1>8, <1>9
        DEF ChartNext, WriterStep, ExpirerStep, WriteStart, WriteBusy, WriteRecord,
            ExpireClear, NextCheck, WaitEnds, Dies, ChartTick
-----------------------------------------------------------------------------
(* Theorems.                                                               *)

\* The inductive invariant: what the properties say, with what a write in progress
\* holds.
ChartInv ==
  /\ ChartTypeOK /\ Writers
  /\ RoomKept /\ FilesCapped
  /\ Recorded /\ NoStrayFile
  /\ ExpiryArmed
  /\ Ages

LEMMA InitChartInv == ChartInit => ChartInv
<1> SUFFICES ASSUME ChartInit PROVE ChartInv
  OBVIOUS
<1>1. ChartTypeOK
  BY Constants, NoWriteType DEF ChartInit, ChartTypeOK, AnyWrite
<1>2. Charts = {} BY DEF ChartInit, Charts
<1>3. FilesCapped
  <2>1. Charts \ missed = {} BY <1>2
  <2> QED BY <2>1, FS_EmptySet, Constants DEF FilesCapped
<1>4. Writers /\ RoomKept /\ Recorded /\ ExpiryArmed
  BY DEF ChartInit, Writers, Writer, RoomKept, Recorded, ExpiryArmed, NoWrite, Inside,
         Counting
<1>5. NoStrayFile /\ Ages BY DEF ChartInit, NoStrayFile, Ages
<1> QED BY <1>1, <1>3, <1>4, <1>5 DEF ChartInv

LEMMA NextChartInv == ChartInv /\ [ChartNext]_chartVars => ChartInv'
<1> SUFFICES ASSUME ChartInv, [ChartNext]_chartVars PROVE ChartInv'
  OBVIOUS
<1> USE DEF ChartInv
<1>1. ChartTypeOK' /\ Writers' BY NextTypes, NextWriters
<1>2. RoomKept' /\ FilesCapped' BY NextCap
<1>3. Recorded' /\ NoStrayFile' BY NextRecorded, NextStray
<1>4. ExpiryArmed' /\ Ages' BY NextArmed, NextAges
<1> QED BY <1>1, <1>2, <1>3, <1>4

\* The inductive invariant of the chart store, which any unlink and any stat may
\* fail: the cap is of the charts each admission counted, and what no ledger has is
\* a file a removal was to unlink.
THEOREM ChartInvariance == ChartSafety => []ChartInv
BY InitChartInv, NextChartInv, PTL DEF ChartSafety

\* The declared types, of the directory, the ledgers and the threads.
THEOREM ChartTypeCorrect == ChartSafety => []ChartTypeOK
<1>1. ChartInv => ChartTypeOK BY DEF ChartInv
<1> QED BY <1>1, ChartInvariance, PTL

\* The cap on chart files holds across any number of processes, whoever is killed and
\* whatever fails, but for the charts that an admission could not stat or unlink.
THEOREM CapAcrossProcesses == ChartSafety => []FilesCapped
<1>1. ChartInv => FilesCapped BY DEF ChartInv
<1> QED BY <1>1, ChartInvariance, PTL

\* A live process knows each file it has written, also after a write of it failed,
\* but for the files whose unlink failed.
THEOREM NoStrayTheorem == ChartSafety => []NoStrayFile
<1>1. ChartInv => NoStrayFile BY DEF ChartInv
<1> QED BY <1>1, ChartInvariance, PTL

\* No wake-up of the expiry thread is lost.
THEOREM ArmedTheorem == ChartSafety => []ExpiryArmed
<1>1. ChartInv => ExpiryArmed BY DEF ChartInv
<1> QED BY <1>1, ChartInvariance, PTL

\* No chart goes before the reply that names it can have been sent.
THEOREM ReasonTheorem == ChartSafety => RemovedForAReason
<1>1. ChartInv /\ [ChartNext]_chartVars
        => [\A t \in Token : file[t] = "chart" /\ file'[t] = "none" => Reason(t)]_chartVars
  BY StepReasons DEF ChartInv
<1> QED BY <1>1, ChartInvariance, PTL DEF ChartSafety, RemovedForAReason, Reason

-----------------------------------------------------------------------------
(* The senders' memory.                                                    *)

Entries == [key : Sender, fields : SUBSET Field, page : 1..MaxPage,
            refused : BOOLEAN, age : 0..SessionTtl]

Found == [fields : SUBSET Field, page : 0..MaxPage, refused : BOOLEAN]

Calls == [at : {"idle", "wait", "search", "leave", "drop"},
          key : Sender \cup {None}, lock : Lock \cup {None},
          req : Asked, found : Found, wanted : Filters]

\* The calls that are registered with sender s's lock.
Using(s) == {c \in Call : call[c].at # "idle" /\ call[c].key = s}

\* Types, without the number of calls an entry counts.
MemTypes ==
  /\ sessions \in Seq(Entries)
  /\ Len(sessions) <= MaxSessions
  /\ \A i, j \in DOMAIN sessions : sessions[i].key = sessions[j].key => i = j
  /\ entry \in [Sender -> [lock : Lock \cup {None}, users : Nat]]
  /\ holder \in [Lock -> Call \cup {None}]
  /\ call \in [Call -> Calls]
  /\ last \in [Sender -> Filters]

\* A key has a lock as long as it has calls, one of its own; every registered call
\* knows it, and the holder of a lock is the call between lock and unlock.
KeyLocks ==
  /\ \A c \in Call : call[c].at # "idle" =>
       /\ call[c].key \in Sender /\ call[c].lock \in Lock
       /\ entry[call[c].key].lock = call[c].lock
  /\ \A s \in Sender :
       /\ entry[s].users = Cardinality(Using(s))
       /\ entry[s].lock = None <=> entry[s].users = 0
  /\ \A s, r \in Sender : s # r /\ entry[s].lock = entry[r].lock => entry[s].lock = None
  /\ \A c \in Call : call[c].at \in {"search", "leave"} => holder[call[c].lock] = c
  /\ \A l \in Lock : holder[l] # None =>
       call[holder[l]].at \in {"search", "leave"} /\ call[holder[l]].lock = l

\* What the store has of a sender is the page shown last, or a refused first page.
StoreTrue ==
  \A i \in DOMAIN sessions :
    IF sessions[i].refused THEN sessions[i].page = 1
    ELSE last[sessions[i].key] = [fields |-> sessions[i].fields, page |-> sessions[i].page]

\* What the session of entry e says.
Says(e) == [fields |-> e.fields, page |-> e.page, refused |-> e.refused]

\* What call c searches for, and from what.
SearchTrue(c) ==
  call[c].at = "search" =>
    /\ call[c].wanted.page # 0
    /\ call[c].req.mode # "reset" =>
         \A i \in DOMAIN sessions :
           sessions[i].key = call[c].key => call[c].found = Says(sessions[i])
    /\ call[c].req.mode = "more" /\ call[c].wanted.page > 1 =>
         last[call[c].key] = [call[c].wanted EXCEPT !.page = @ - 1]

MemInv == MemTypes /\ KeyLocks /\ StoreTrue /\ \A c \in Call : SearchTrue(c)

-----------------------------------------------------------------------------
(* Locks.                                                                  *)

LEMMA UsersFinite ==
  ASSUME NEW s \in Sender
  PROVE  IsFiniteSet(Using(s)) /\ Cardinality(Using(s)) \in 0..Cardinality(Call)
<1>1. IsFiniteSet(Call) /\ Using(s) \subseteq Call
  BY MemoryAssumption DEF Using
<1> HIDE DEF Using
<1>2. IsFiniteSet(Using(s)) /\ Cardinality(Using(s)) <= Cardinality(Call)
  BY <1>1, FS_Subset
<1> QED BY <1>1, <1>2, FS_CardinalityType

\* There are more places than calls, so a call finds a lock nobody has.
LEMMA FreshLockIsFresh ==
  ASSUME MemTypes, KeyLocks
  PROVE  /\ FreshLock \in Lock
         /\ \A s \in Sender : entry[s].lock # FreshLock
         /\ \A c \in Call : call[c].lock # FreshLock
<1> DEFINE taken == {call[c].lock : c \in Call}
           Fresh(l) == /\ \A s \in Sender : entry[s].lock # l
                       /\ \A c \in Call : call[c].lock # l
<1>1. IsFiniteSet(Call) /\ Cardinality(Lock) > Cardinality(Call)
  BY MemoryAssumption
<1>2. IsFiniteSet(taken) /\ Cardinality(taken) <= Cardinality(Call)
  <2> DEFINE f == [c \in Call |-> call[c].lock]
  <2>1. f \in Surjection(Call, taken)
    BY DEF Surjection
  <2> HIDE DEF f, taken
  <2> QED BY <1>1, <2>1, FS_Surjection
<1>3. ~(Lock \subseteq taken)
  <2> SUFFICES ASSUME Lock \subseteq taken PROVE FALSE
    OBVIOUS
  <2> HIDE DEF taken
  <2>1. IsFiniteSet(Lock) /\ Cardinality(Lock) <= Cardinality(taken)
    BY <1>2, FS_Subset
  <2>2. Cardinality(Lock) \in Nat /\ Cardinality(taken) \in Nat /\ Cardinality(Call) \in Nat
    BY <1>1, <1>2, <2>1, FS_CardinalityType
  <2> QED BY <1>1, <1>2, <2>1, <2>2
<1>4. PICK l \in Lock : \A c \in Call : call[c].lock # l
  BY <1>3
<1>5. Fresh(l)
  <2> SUFFICES ASSUME NEW s \in Sender, entry[s].lock = l
               PROVE  FALSE
    BY <1>4
  <2>1. entry[s].users # 0
    BY MemoryAssumption DEF KeyLocks
  <2>2. Using(s) # {}
    BY <2>1, FS_EmptySet DEF KeyLocks
  <2>3. PICK c \in Call : call[c].at # "idle" /\ call[c].key = s
    BY <2>2 DEF Using
  <2> QED BY <1>4, <2>3 DEF KeyLocks
<1>6. FreshLock = CHOOSE k \in Lock : Fresh(k)
  BY DEF FreshLock
<1> HIDE DEF Fresh
<1>7. FreshLock \in Lock /\ Fresh(FreshLock)
  BY <1>5, <1>6
<1> QED BY <1>7 DEF Fresh

\* Two calls of one sender are not between lock and unlock at once.
LEMMA OneHolder ==
  ASSUME KeyLocks, NEW c \in Call, NEW d \in Call,
         call[c].at \in {"search", "leave"}, call[d].at \in {"search", "leave"},
         call[c].key = call[d].key
  PROVE  c = d
BY DEF KeyLocks

\* A step that moves one registered call on, holding its lock or not.
Moves(c, w) ==
  /\ call' = [call EXCEPT ![c] = w]
  /\ call[c].at # "idle" /\ w.at # "idle"
  /\ w.key = call[c].key /\ w.lock = call[c].lock
  /\ entry' = entry

LEMMA LocksMoved ==
  ASSUME MemTypes, KeyLocks, NEW c \in Call, NEW w \in Calls, Moves(c, w),
         \/ /\ call[c].at \notin {"search", "leave"} /\ holder[call[c].lock] = None
            /\ w.at \in {"search", "leave"}
            /\ holder' = [holder EXCEPT ![call[c].lock] = c]
         \/ /\ call[c].at \in {"search", "leave"} /\ w.at \in {"search", "leave"}
            /\ holder' = holder
         \/ /\ call[c].at \in {"search", "leave"} /\ w.at \notin {"search", "leave"}
            /\ holder' = [holder EXCEPT ![call[c].lock] = None]
  PROVE  KeyLocks'
<1>1. /\ call' \in [Call -> Calls] /\ call'[c] = w
      /\ \A d \in Call \ {c} : call'[d] = call[d]
  BY DEF Moves, MemTypes
<1>2. \A d \in Call : /\ call'[d].key = call[d].key /\ call'[d].lock = call[d].lock
                      /\ call'[d].at = "idle" <=> call[d].at = "idle"
  BY <1>1 DEF Moves
<1>3. \A s \in Sender : Using(s)' = Using(s)
  BY <1>2 DEF Using
<1>4. /\ \A d \in Call : call'[d].at # "idle" =>
           /\ call'[d].key \in Sender /\ call'[d].lock \in Lock
           /\ entry'[call'[d].key].lock = call'[d].lock
      /\ \A s, r \in Sender : s # r /\ entry'[s].lock = entry'[r].lock => entry'[s].lock = None
  BY <1>2 DEF KeyLocks, Moves
<1>5. \A s \in Sender :
        /\ entry'[s].users = Cardinality(Using(s)')
        /\ entry'[s].lock = None <=> entry'[s].users = 0
  BY <1>3 DEF KeyLocks, Moves
<1>6. call[c].lock \in Lock /\ None \notin Call
  BY MemoryAssumption DEF KeyLocks, Moves
<1>7. ASSUME NEW d \in Call, call'[d].at \in {"search", "leave"}
      PROVE  holder'[call'[d].lock] = d
  <2>1. CASE d = c
    BY <1>1, <1>2, <1>6, <1>7, <2>1 DEF KeyLocks, MemTypes
  <2>2. CASE d # c
    <3>1. call[d].at \in {"search", "leave"} /\ holder[call[d].lock] = d
      BY <1>1, <1>7, <2>2 DEF KeyLocks
    <3>2. call[d].lock \in Lock
      BY <3>1 DEF KeyLocks
    <3>3. call[d].lock # call[c].lock \/ holder' = holder
      BY <1>6, <2>2, <3>1 DEF KeyLocks
    <3> QED BY <1>2, <1>6, <3>1, <3>2, <3>3 DEF MemTypes
  <2> QED BY <2>1, <2>2
<1>8. ASSUME NEW l \in Lock, holder'[l] # None
      PROVE  call'[holder'[l]].at \in {"search", "leave"} /\ call'[holder'[l]].lock = l
  <2>1. CASE l = call[c].lock
    <3>1. holder'[l] = c /\ w.at \in {"search", "leave"}
      BY <1>6, <1>8, <2>1 DEF KeyLocks, MemTypes
    <3> QED BY <1>1, <1>2, <2>1, <3>1
  <2>2. CASE l # call[c].lock
    <3>1. holder'[l] = holder[l]
      BY <2>2 DEF MemTypes
    <3>2. call[holder[l]].at \in {"search", "leave"} /\ call[holder[l]].lock = l
      BY <1>8, <3>1 DEF KeyLocks
    <3>3. holder[l] \in Call \ {c}
      BY <1>8, <2>2, <3>1, <3>2 DEF MemTypes
    <3> QED BY <1>1, <3>1, <3>2, <3>3
  <2> QED BY <2>1, <2>2
<1> QED BY <1>4, <1>5, <1>7, <1>8 DEF KeyLocks

\* A new call counts, and gets the lock of the others or a fresh one.
LEMMA LocksEntered ==
  ASSUME MemTypes, KeyLocks, NEW c \in Call, NEW s \in Sender, NEW req \in Asked,
         Enter(c, s, req)
  PROVE  KeyLocks'
<1> DEFINE l == IF entry[s] = NoEntry THEN FreshLock ELSE entry[s].lock
           w == [Idle EXCEPT !.at = "wait", !.key = s, !.lock = l, !.req = req]
<1>1. /\ entry' = [entry EXCEPT ![s] = [lock |-> l, users |-> @.users + 1]]
      /\ call' = [call EXCEPT ![c] = w]
      /\ holder' = holder /\ call[c].at = "idle"
  BY DEF Enter
<1>2. w.at = "wait" /\ w.key = s /\ w.lock = l
  BY DEF Idle
<1> HIDE DEF w
<1>3. /\ call'[c] = w
      /\ \A d \in Call \ {c} : call'[d] = call[d]
  BY <1>1 DEF MemTypes
<1>4. entry[s] \in [lock : Lock \cup {None}, users : Nat]
  BY DEF MemTypes
<1>5. entry[s] = NoEntry <=> entry[s].users = 0
  BY <1>4 DEF KeyLocks, NoEntry
<1>6. /\ l \in Lock
      /\ \A r \in Sender \ {s} : entry[r].lock # l
      /\ \A d \in Call : call[d].at # "idle" /\ call[d].key = s => call[d].lock = l
  <2>1. CASE entry[s] = NoEntry
    <3>1. Using(s) = {}
      BY <1>5, <2>1, UsersFinite, FS_EmptySet DEF KeyLocks
    <3> QED BY <2>1, <3>1, FreshLockIsFresh DEF Using
  <2>2. CASE entry[s] # NoEntry
    <3>1. l = entry[s].lock /\ entry[s].lock \in Lock
      BY <1>4, <1>5, <2>2 DEF KeyLocks
    <3>2. \A r \in Sender \ {s} : entry[r].lock # l
      BY <3>1, MemoryAssumption DEF KeyLocks
    <3> QED BY <3>1, <3>2 DEF KeyLocks
  <2> QED BY <2>1, <2>2
<1> HIDE DEF l
<1>7. /\ entry'[s].lock = l /\ entry'[s].users = entry[s].users + 1
      /\ \A r \in Sender \ {s} : entry'[r] = entry[r]
  BY <1>1 DEF MemTypes
<1>8. ASSUME NEW r \in Sender
      PROVE  /\ entry'[r].users = Cardinality(Using(r)')
             /\ entry'[r].lock = None <=> entry'[r].users = 0
  <2>1. CASE r = s
    <3>1. Using(s)' = Using(s) \cup {c} /\ c \notin Using(s)
      BY <1>1, <1>2, <1>3 DEF Using
    <3>2. Cardinality(Using(s)') = Cardinality(Using(s)) + 1
      BY <3>1, UsersFinite, FS_AddElement
    <3>3. entry[s].users = Cardinality(Using(s)) /\ entry[s].users \in Nat
      BY <1>4 DEF KeyLocks
    <3>4. l # None
      BY <1>6, MemoryAssumption
    <3> QED BY <1>7, <2>1, <3>2, <3>3, <3>4
  <2>2. CASE r # s
    <3>1. Using(r)' = Using(r)
      BY <1>1, <1>2, <1>3, <2>2 DEF Using
    <3> QED BY <1>7, <2>2, <3>1 DEF KeyLocks
  <2> QED BY <2>1, <2>2
<1>9. \A d \in Call : call'[d].at # "idle" =>
        /\ call'[d].key \in Sender /\ call'[d].lock \in Lock
        /\ entry'[call'[d].key].lock = call'[d].lock
  BY <1>2, <1>3, <1>6, <1>7 DEF KeyLocks
<1>10. \A r, q \in Sender : r # q /\ entry'[r].lock = entry'[q].lock => entry'[r].lock = None
  BY <1>6, <1>7 DEF KeyLocks
<1>11. \A d \in Call : call'[d].at \in {"search", "leave"} => holder'[call'[d].lock] = d
  BY <1>1, <1>2, <1>3 DEF KeyLocks
<1>12. \A k \in Lock : holder'[k] # None =>
         call'[holder'[k]].at \in {"search", "leave"} /\ call'[holder'[k]].lock = k
  <2> SUFFICES ASSUME NEW k \in Lock, holder[k] # None
               PROVE  call'[holder[k]].at \in {"search", "leave"} /\ call'[holder[k]].lock = k
    BY <1>1
  <2>1. holder[k] \in Call \ {c}
    BY <1>1 DEF KeyLocks, MemTypes
  <2> QED BY <1>3, <2>1 DEF KeyLocks
<1> QED BY <1>8, <1>9, <1>10, <1>11, <1>12 DEF KeyLocks

\* The entry goes with the last of its calls, not before.
LEMMA LocksLeft ==
  ASSUME MemTypes, KeyLocks, NEW c \in Call, Leave(c)
  PROVE  KeyLocks' /\ entry' \in [Sender -> [lock : Lock \cup {None}, users : Nat]]
<1>0. PICK s \in Sender : s = call[c].key
  BY DEF Leave, KeyLocks
<1>1. /\ call[c].at = "drop"
      /\ entry' = [entry EXCEPT ![s] = IF @.users = 1 THEN NoEntry
                                       ELSE [lock |-> @.lock, users |-> @.users - 1]]
      /\ call' = [call EXCEPT ![c] = Idle] /\ holder' = holder
  BY <1>0 DEF Leave
<1>2. s \in Sender /\ entry[s].lock = call[c].lock /\ call[c].lock \in Lock
  BY <1>0, <1>1 DEF KeyLocks
<1>3. Idle.at = "idle"
  BY DEF Idle
<1>4. call'[c] = Idle /\ \A d \in Call \ {c} : call'[d] = call[d]
  BY <1>1 DEF MemTypes
<1>5. c \in Using(s)
  BY <1>0, <1>1 DEF Using
<1>6. /\ Cardinality(Using(s) \ {c}) = Cardinality(Using(s)) - 1
      /\ Cardinality(Using(s)) \in Nat \ {0} /\ IsFiniteSet(Using(s) \ {c})
  BY <1>2, <1>5, UsersFinite, FS_RemoveElement, FS_EmptySet
<1>7. entry[s].users = Cardinality(Using(s)) /\ entry[s] \in [lock : Lock \cup {None}, users : Nat]
  BY <1>2 DEF KeyLocks, MemTypes
<1>8. /\ entry'[s] = IF entry[s].users = 1 THEN NoEntry
                     ELSE [lock |-> entry[s].lock, users |-> entry[s].users - 1]
      /\ \A r \in Sender \ {s} : entry'[r] = entry[r]
  BY <1>1 DEF MemTypes
<1>9. entry' \in [Sender -> [lock : Lock \cup {None}, users : Nat]]
  <2>1. entry'[s] \in [lock : Lock \cup {None}, users : Nat]
    BY <1>6, <1>7, <1>8 DEF NoEntry
  <2> QED BY <1>1, <1>2, <1>8, <2>1 DEF MemTypes
<1>10. Using(s)' = Using(s) \ {c} /\ \A r \in Sender \ {s} : Using(r)' = Using(r)
  BY <1>0, <1>1, <1>3, <1>4 DEF Using
<1>11. ASSUME NEW r \in Sender
       PROVE  /\ entry'[r].users = Cardinality(Using(r)')
              /\ entry'[r].lock = None <=> entry'[r].users = 0
  <2>1. CASE r = s
    <3>1. Cardinality(Using(r)') = entry[s].users - 1 /\ entry[s].users \in Nat \ {0}
      BY <1>6, <1>7, <1>10, <2>1
    <3>2. entry[s].lock # None
      BY <1>2, MemoryAssumption
    <3> QED BY <1>8, <2>1, <3>1, <3>2 DEF NoEntry
  <2>2. CASE r # s
    BY <1>8, <1>10, <2>2 DEF KeyLocks
  <2> QED BY <2>1, <2>2
<1>12. ASSUME NEW d \in Call, call'[d].at # "idle"
       PROVE  /\ call'[d].key \in Sender /\ call'[d].lock \in Lock
              /\ entry'[call'[d].key].lock = call'[d].lock
  <2>1. d # c /\ call'[d] = call[d] /\ call[d].key \in Sender
    BY <1>3, <1>4, <1>12 DEF KeyLocks
  <2>2. CASE call[d].key # s
    BY <1>8, <1>12, <2>1, <2>2 DEF KeyLocks
  <2>3. CASE call[d].key = s
    <3>1. d \in Using(s) \ {c}
      BY <1>12, <2>1, <2>3 DEF Using
    <3>2. Cardinality(Using(s) \ {c}) # 0
      BY <1>6, <3>1, FS_EmptySet
    <3>3. entry'[s].lock = entry[s].lock
      BY <1>6, <1>7, <1>8, <3>2
    <3> QED BY <1>12, <2>1, <2>3, <3>3 DEF KeyLocks
  <2> QED BY <2>2, <2>3
<1>13. ASSUME NEW r \in Sender, NEW q \in Sender, r # q, entry'[r].lock = entry'[q].lock
       PROVE  entry'[r].lock = None
  <2>1. \A x \in Sender : entry'[x].lock \in {entry[x].lock, None}
    BY <1>8 DEF NoEntry
  <2>2. \A x, y \in Sender : x # y /\ entry[x].lock = entry[y].lock => entry[x].lock = None
    BY DEF KeyLocks
  <2> QED BY <1>13, <2>1, <2>2
<1>14. \A d \in Call : call'[d].at \in {"search", "leave"} => holder'[call'[d].lock] = d
  BY <1>1, <1>3, <1>4 DEF KeyLocks
<1>15. \A k \in Lock : holder'[k] # None =>
         call'[holder'[k]].at \in {"search", "leave"} /\ call'[holder'[k]].lock = k
  <2> SUFFICES ASSUME NEW k \in Lock, holder[k] # None
               PROVE  call'[holder[k]].at \in {"search", "leave"} /\ call'[holder[k]].lock = k
    BY <1>1
  <2>1. holder[k] \in Call \ {c}
    BY <1>1 DEF KeyLocks, MemTypes
  <2> QED BY <1>4, <2>1 DEF KeyLocks
<1> QED BY <1>9, <1>11, <1>12, <1>13, <1>14, <1>15 DEF KeyLocks

-----------------------------------------------------------------------------
(* The store.                                                              *)

\* Two entries that say the same of the same sender.
Alike(e, f) == e.key = f.key /\ Says(e) = Says(f)

\* A store that could be this one.
IsStore(q) ==
  /\ q \in Seq(Entries) /\ Len(q) <= MaxSessions
  /\ \A i, j \in DOMAIN q : q[i].key = q[j].key => i = j

\* A store with nothing in it that this one has not.
From(q) == \A i \in DOMAIN q : \E j \in DOMAIN sessions : Alike(q[i], sessions[j])

LEMMA ElementType ==
  ASSUME NEW S, NEW q \in Seq(S), NEW i \in DOMAIN q
  PROVE  q[i] \in S
OBVIOUS

\* A sequence without its i-th element.
LEMMA ElementRemoved ==
  ASSUME NEW S, NEW q \in Seq(S), NEW i \in DOMAIN q
  PROVE  /\ RemoveAt(q, i) \in Seq(S)
         /\ Len(RemoveAt(q, i)) = Len(q) - 1
         /\ \A j \in DOMAIN RemoveAt(q, i) :
              RemoveAt(q, i)[j] = IF j < i THEN q[j] ELSE q[j + 1]
<1> DEFINE front == SubSeq(q, 1, i - 1)
           back == SubSeq(q, i + 1, Len(q))
<1>1. Len(q) \in Nat /\ i \in 1..Len(q)
  OBVIOUS
<1>2. /\ front \in Seq(S) /\ Len(front) = i - 1
      /\ \A j \in 1..(i - 1) : front[j] = q[j]
  BY <1>1
<1>3. /\ back \in Seq(S) /\ Len(back) = Len(q) - i
      /\ \A j \in 1..(Len(q) - i) : back[j] = q[i + j]
  BY <1>1
<1>4. RemoveAt(q, i) = front \o back
  BY DEF RemoveAt
<1> HIDE DEF front, back
<1>5. /\ front \o back \in Seq(S) /\ Len(front \o back) = Len(q) - 1
      /\ \A j \in 1..(Len(q) - 1) :
           (front \o back)[j] = IF j < i THEN front[j] ELSE back[j - (i - 1)]
  BY <1>1, <1>2, <1>3
<1>6. ASSUME NEW j \in 1..(Len(q) - 1)
      PROVE  (front \o back)[j] = IF j < i THEN q[j] ELSE q[j + 1]
  <2>1. CASE j < i
    BY <1>1, <1>2, <1>5, <2>1
  <2>2. CASE ~(j < i)
    <3>1. j - (i - 1) \in 1..(Len(q) - i) /\ i + (j - (i - 1)) = j + 1
      BY <1>1, <2>2
    <3>2. back[j - (i - 1)] = q[j + 1]
      BY <1>3, <3>1
    <3> QED BY <1>5, <2>2, <3>2
  <2> QED BY <2>1, <2>2
<1>7. DOMAIN (front \o back) = 1..(Len(q) - 1)
  BY <1>1, <1>5
<1> QED BY <1>4, <1>5, <1>6, <1>7

\* Without a sender's session the store has the others, in their order.
LEMMA WithoutOne ==
  ASSUME MemTypes, NEW s \in Sender
  PROVE  /\ IsStore(Without(s)) /\ From(Without(s))
         /\ \A i \in DOMAIN Without(s) : Without(s)[i].key # s
<1> DEFINE of == {i \in DOMAIN sessions : sessions[i].key = s}
           k == CHOOSE i \in of : TRUE
<1>1. Without(s) = IF of = {} THEN sessions ELSE RemoveAt(sessions, k)
  BY DEF Without
<1>2. /\ sessions \in Seq(Entries) /\ Len(sessions) \in Nat /\ Len(sessions) <= MaxSessions
      /\ \A i, j \in DOMAIN sessions : sessions[i].key = sessions[j].key => i = j
      /\ MaxSessions \in Nat
  BY MemoryAssumption DEF MemTypes
<1>3. CASE of = {}
  BY <1>1, <1>2, <1>3 DEF IsStore, From, Alike
<1>4. CASE of # {}
  <2>1. k \in DOMAIN sessions /\ sessions[k].key = s
    BY <1>4
  <2>2. Without(s) = RemoveAt(sessions, k)
    BY <1>1, <1>4
  <2> HIDE DEF k, of
  <2>3. /\ Without(s) \in Seq(Entries) /\ Len(Without(s)) = Len(sessions) - 1
        /\ \A j \in DOMAIN Without(s) :
             Without(s)[j] = IF j < k THEN sessions[j] ELSE sessions[j + 1]
    BY <1>2, <2>1, <2>2, ElementRemoved
  <2>4. /\ DOMAIN Without(s) = 1..(Len(sessions) - 1) /\ DOMAIN sessions = 1..Len(sessions)
        /\ k \in 1..Len(sessions)
    BY <1>2, <2>1, <2>3
  <2> DEFINE place(j) == IF j < k THEN j ELSE j + 1
  <2>5. \A j \in DOMAIN Without(s) :
          place(j) \in DOMAIN sessions \ {k} /\ Without(s)[j] = sessions[place(j)]
    BY <2>3, <2>4
  <2>6. \A i, j \in DOMAIN Without(s) : place(i) = place(j) => i = j
    BY <2>4
  <2> HIDE DEF place
  <2>7. \A i \in DOMAIN Without(s) : Without(s)[i].key # s
    BY <1>2, <2>1, <2>5
  <2>8. \A i, j \in DOMAIN Without(s) : Without(s)[i].key = Without(s)[j].key => i = j
    BY <1>2, <2>5, <2>6
  <2>9. From(Without(s))
    BY <2>5 DEF From, Alike
  <2>10. Len(Without(s)) <= MaxSessions
    BY <1>2, <2>3
  <2> QED BY <2>3, <2>7, <2>8, <2>9, <2>10 DEF IsStore
<1> QED BY <1>3, <1>4

\* A put replaces its sender's session and may evict another's.
LEMMA PutOne ==
  ASSUME MemTypes, NEW s \in Sender, NEW filters \in Filters, filters.page # 0,
         NEW refused \in BOOLEAN, Put(s, filters, refused)
  PROVE  /\ IsStore(sessions')
         /\ \A i \in DOMAIN sessions' :
              \/ /\ sessions'[i].key = s
                 /\ Says(sessions'[i])
                      = [fields |-> filters.fields, page |-> filters.page, refused |-> refused]
              \/ /\ sessions'[i].key # s
                 /\ \E j \in DOMAIN sessions : Alike(sessions'[i], sessions[j])
<1> DEFINE e == [key |-> s, fields |-> filters.fields, page |-> filters.page,
                 refused |-> refused, age |-> 0]
           old == Without(s)
           new == Append(old, e)
<1>1. sessions' = IF Len(new) > MaxSessions THEN Tail(new) ELSE new
  BY DEF Put
<1>2. /\ e \in Entries /\ e.key = s
      /\ Says(e) = [fields |-> filters.fields, page |-> filters.page, refused |-> refused]
  BY MemoryAssumption DEF Entries, Filters, Says
<1>3. /\ old \in Seq(Entries) /\ Len(old) <= MaxSessions
      /\ \A i, j \in DOMAIN old : old[i].key = old[j].key => i = j
      /\ \A i \in DOMAIN old : old[i].key # s
      /\ \A i \in DOMAIN old : \E j \in DOMAIN sessions : Alike(old[i], sessions[j])
  BY WithoutOne DEF IsStore, From
<1> HIDE DEF e, old
<1>4. MaxSessions \in Nat \ {0} /\ Len(old) \in Nat /\ DOMAIN old = 1..Len(old)
  BY <1>3, MemoryAssumption
<1>5. /\ new \in Seq(Entries) /\ Len(new) = Len(old) + 1 /\ new[Len(old) + 1] = e
      /\ \A i \in 1..Len(old) : new[i] = old[i]
  BY <1>2, <1>3
<1> HIDE DEF new
<1>6. \A i, j \in 1..Len(new) : new[i].key = new[j].key => i = j
  BY <1>2, <1>3, <1>4, <1>5
<1>7. \A i \in 1..Len(new) :
        \/ new[i] = e
        \/ new[i].key # s /\ \E j \in DOMAIN sessions : Alike(new[i], sessions[j])
  BY <1>3, <1>4, <1>5
<1>8. CASE Len(new) > MaxSessions
  <2>1. /\ sessions' \in Seq(Entries) /\ Len(sessions') = Len(new) - 1
        /\ \A i \in 1..(Len(new) - 1) : sessions'[i] = new[i + 1]
    BY <1>1, <1>4, <1>5, <1>8
  <2>2. DOMAIN sessions' = 1..(Len(new) - 1) /\ Len(sessions') <= MaxSessions
    BY <1>3, <1>4, <1>5, <2>1
  <2>3. \A i \in 1..(Len(new) - 1) : i + 1 \in 1..Len(new)
    BY <1>4, <1>5
  <2>4. \A i, j \in DOMAIN sessions' : sessions'[i].key = sessions'[j].key => i = j
    <3> SUFFICES ASSUME NEW i \in 1..(Len(new) - 1), NEW j \in 1..(Len(new) - 1),
                        sessions'[i].key = sessions'[j].key
                 PROVE  i = j
      BY <2>2
    <3>1. i + 1 = j + 1
      BY <1>6, <2>1, <2>3
    <3> QED BY <3>1
  <2>5. \A i \in DOMAIN sessions' :
          \/ sessions'[i] = e
          \/ sessions'[i].key # s /\ \E j \in DOMAIN sessions : Alike(sessions'[i], sessions[j])
    BY <1>7, <2>1, <2>2, <2>3
  <2> QED BY <1>2, <2>1, <2>2, <2>4, <2>5 DEF IsStore
<1>9. CASE ~(Len(new) > MaxSessions)
  <2>1. sessions' = new /\ DOMAIN new = 1..Len(new) /\ Len(new) <= MaxSessions
    BY <1>1, <1>4, <1>5, <1>9
  <2> QED BY <1>2, <1>5, <1>6, <1>7, <2>1 DEF IsStore
<1> QED BY <1>8, <1>9

\* A get tells what the store has and drops at most what it does not tell.
LEMMA GotOne ==
  ASSUME MemTypes, NEW s \in Sender
  PROVE  /\ IsStore(AfterGet(s)) /\ From(AfterGet(s))
         /\ \/ Got(s) = NoSession /\ \A i \in DOMAIN AfterGet(s) : AfterGet(s)[i].key # s
            \/ \E i \in DOMAIN sessions :
                 sessions[i].key = s /\ Got(s) = Says(sessions[i]) /\ AfterGet(s) = sessions
<1>1. CASE Live(s) = {}
  BY <1>1, WithoutOne DEF AfterGet, Got
<1>2. CASE Live(s) # {}
  <2> DEFINE i == CHOOSE j \in Live(s) : TRUE
  <2>1. i \in Live(s)
    BY <1>2
  <2>2. i \in DOMAIN sessions /\ sessions[i].key = s
    BY <2>1 DEF Live
  <2>3. Got(s) = Says(sessions[i]) /\ AfterGet(s) = sessions
    BY <1>2 DEF Got, AfterGet, Says
  <2> HIDE DEF i
  <2>4. IsStore(sessions) /\ From(sessions)
    BY DEF MemTypes, IsStore, From, Alike
  <2> QED BY <2>2, <2>3, <2>4
<1> QED BY <1>1, <1>2

-----------------------------------------------------------------------------
(* What a step leaves of the others.                                       *)

\* A step after which the store has sessions of before, and of sender s what is
\* true of it.
LEMMA StoreChanged ==
  ASSUME MemTypes, StoreTrue, NEW s \in Sender,
         \A r \in Sender \ {s} : last'[r] = last[r],
         sessions' \in Seq(Entries),
         \A i \in DOMAIN sessions' :
           \/ /\ sessions'[i].key = s
              /\ IF sessions'[i].refused THEN sessions'[i].page = 1
                 ELSE last'[s] = [fields |-> sessions'[i].fields, page |-> sessions'[i].page]
           \/ /\ sessions'[i].key # s \/ last'[s] = last[s]
              /\ \E j \in DOMAIN sessions : Alike(sessions'[i], sessions[j])
  PROVE  StoreTrue'
<1> SUFFICES ASSUME NEW i \in DOMAIN sessions'
             PROVE  IF sessions'[i].refused THEN sessions'[i].page = 1
                    ELSE last'[sessions'[i].key]
                           = [fields |-> sessions'[i].fields, page |-> sessions'[i].page]
  BY DEF StoreTrue
<1>1. CASE /\ sessions'[i].key # s \/ last'[s] = last[s]
           /\ \E j \in DOMAIN sessions : Alike(sessions'[i], sessions[j])
  <2>1. PICK j \in DOMAIN sessions : Alike(sessions'[i], sessions[j])
    BY <1>1
  <2>2. sessions[j] \in Entries /\ sessions'[i] \in Entries
    BY ElementType DEF MemTypes
  <2>3. /\ sessions'[i].key = sessions[j].key /\ sessions'[i].refused = sessions[j].refused
        /\ sessions'[i].page = sessions[j].page /\ sessions'[i].fields = sessions[j].fields
    BY <2>1 DEF Alike, Says
  <2>4. last'[sessions[j].key] = last[sessions[j].key]
    BY <1>1, <2>2, <2>3 DEF Entries
  <2> QED BY <2>3, <2>4 DEF StoreTrue
<1> QED BY <1>1

\* A step that adds nothing to the store.
LEMMA StoreKept ==
  ASSUME MemTypes, StoreTrue, last' = last, IsStore(sessions'), From(sessions')
  PROVE  StoreTrue'
<1>1. \A i \in DOMAIN sessions' : \E j \in DOMAIN sessions : Alike(sessions'[i], sessions[j])
  BY DEF From
<1>2. sessions' \in Seq(Entries)
  BY DEF IsStore
<1>3. CASE Sender = {}
  <2>1. sessions' = <<>>
    <3> SUFFICES ASSUME Len(sessions') > 0 PROVE FALSE
      BY <1>2
    <3>1. 1 \in DOMAIN sessions'
      BY <1>2
    <3> QED BY <1>2, <1>3, <3>1, ElementType DEF Entries
  <2> QED BY <2>1 DEF StoreTrue
<1>4. ASSUME NEW s \in Sender
      PROVE  StoreTrue'
  BY <1>1, <1>2, StoreChanged
<1> QED BY <1>3, <1>4

\* A call that is not moved searches on, as what it found is not changed.
LEMMA SearchKept ==
  ASSUME MemTypes, KeyLocks, NEW d \in Call, SearchTrue(d), call'[d] = call[d],
         call[d].at = "search" =>
           /\ last'[call[d].key] = last[call[d].key]
           /\ \A i \in DOMAIN sessions' :
                sessions'[i].key = call[d].key
                  => \E j \in DOMAIN sessions : Alike(sessions'[i], sessions[j])
  PROVE  SearchTrue(d)'
<1> SUFFICES ASSUME call[d].at = "search"
             PROVE  SearchTrue(d)'
  BY DEF SearchTrue
<1>1. ASSUME NEW i \in DOMAIN sessions', sessions'[i].key = call[d].key,
             call[d].req.mode # "reset"
      PROVE  call[d].found = Says(sessions'[i])
  <2>1. PICK j \in DOMAIN sessions : Alike(sessions'[i], sessions[j])
    BY <1>1
  <2> QED BY <1>1, <2>1 DEF SearchTrue, Alike
<1>2. /\ call[d].wanted.page # 0
      /\ call[d].req.mode = "more" /\ call[d].wanted.page > 1 =>
           last[call[d].key] = [call[d].wanted EXCEPT !.page = @ - 1]
  BY DEF SearchTrue
<1> QED BY <1>1, <1>2 DEF SearchTrue

\* A call that does not search any more, while nothing is added to the store.
LEMMA OthersKept ==
  ASSUME MemTypes, KeyLocks, \A d \in Call : SearchTrue(d), NEW c \in Call,
         \A d \in Call \ {c} : call'[d] = call[d], call'[c].at # "search",
         last' = last, From(sessions')
  PROVE  \A d \in Call : SearchTrue(d)'
<1>1. SearchTrue(c)'
  BY DEF SearchTrue
<1>2. ASSUME NEW d \in Call \ {c}
      PROVE  SearchTrue(d)'
  BY SearchKept DEF From
<1> QED BY <1>1, <1>2

\* Idle and finished calls.
LEMMA NoCallTypes ==
  /\ NoRequest \in Asked /\ NoSession \in Found /\ NoFilters \in Filters
  /\ Idle \in Calls /\ Idle.at = "idle"
<1>1. /\ NoRequest \in Asked /\ NoSession \in Found /\ NoFilters \in Filters
  BY MemoryAssumption DEF NoRequest, Asked, Mode, Field, NoSession, Found, NoFilters, Filters
<1> QED BY <1>1 DEF Idle, Calls

LEMMA DoneTypes ==
  ASSUME MemTypes, NEW c \in Call
  PROVE  /\ Done(c) \in Calls /\ Done(c).at = "leave"
         /\ Done(c).key = call[c].key /\ Done(c).lock = call[c].lock
<1>1. call[c] \in Calls
  BY DEF MemTypes
<1> QED BY <1>1, NoCallTypes DEF Done, Calls

-----------------------------------------------------------------------------
(* The steps.                                                              *)

LEMMA EnterStep ==
  ASSUME MemInv, NEW c \in Call, NEW s \in Sender, NEW req \in Request[s], Enter(c, s, req)
  PROVE  MemInv'
<1> USE DEF MemInv
<1>1. req \in Asked
  BY MemoryAssumption
<1> DEFINE l == IF entry[s] = NoEntry THEN FreshLock ELSE entry[s].lock
           w == [Idle EXCEPT !.at = "wait", !.key = s, !.lock = l, !.req = req]
<1>2. /\ entry' = [entry EXCEPT ![s] = [lock |-> l, users |-> @.users + 1]]
      /\ call' = [call EXCEPT ![c] = w]
      /\ UNCHANGED <<sessions, holder, last>>
  BY DEF Enter
<1>3. entry[s] \in [lock : Lock \cup {None}, users : Nat]
  BY DEF MemTypes
<1>4. l \in Lock \cup {None}
  BY <1>3, FreshLockIsFresh
<1> HIDE DEF l
<1>5. w \in Calls /\ w.at = "wait"
  BY <1>1, <1>4, NoCallTypes DEF Idle, Calls
<1> HIDE DEF w
<1>6. MemTypes'
  BY <1>2, <1>3, <1>4, <1>5 DEF MemTypes
<1>7. KeyLocks'
  BY <1>1, LocksEntered
<1>8. IsStore(sessions') /\ From(sessions')
  BY <1>2 DEF MemTypes, IsStore, From, Alike
<1>9. call'[c].at # "search" /\ \A d \in Call \ {c} : call'[d] = call[d]
  BY <1>2, <1>5 DEF MemTypes
<1>10. StoreTrue'
  BY <1>2, <1>8, StoreKept
<1>11. \A d \in Call : SearchTrue(d)'
  BY <1>2, <1>8, <1>9, OthersKept
<1> QED BY <1>6, <1>7, <1>10, <1>11

\* The call moves on, and the store only loses.
LEMMA MovedOn ==
  ASSUME MemInv, NEW c \in Call, NEW w \in Calls, Moves(c, w), KeyLocks',
         holder' \in [Lock -> Call \cup {None}], last' = last,
         IsStore(sessions'), From(sessions'), w.at # "search" \/ SearchTrue(c)'
  PROVE  MemInv'
<1> USE DEF MemInv
<1>1. call' \in [Call -> Calls] /\ call'[c] = w /\ \A d \in Call \ {c} : call'[d] = call[d]
  BY DEF Moves, MemTypes
<1>2. MemTypes'
  BY <1>1 DEF MemTypes, IsStore, Moves
<1>3. StoreTrue'
  BY StoreKept
<1>4. SearchTrue(c)'
  BY <1>1 DEF SearchTrue
<1>5. ASSUME NEW d \in Call \ {c}
      PROVE  SearchTrue(d)'
  BY <1>1, SearchKept DEF From
<1> QED BY <1>2, <1>3, <1>4, <1>5

LEMMA LockTypes ==
  ASSUME MemInv, NEW c \in Call
  PROVE  /\ [holder EXCEPT ![call[c].lock] = c] \in [Lock -> Call \cup {None}]
         /\ [holder EXCEPT ![call[c].lock] = None] \in [Lock -> Call \cup {None}]
         /\ call[c] \in Calls
         /\ call[c].at # "idle" => call[c].key \in Sender
BY DEF MemInv, MemTypes, KeyLocks

LEMMA ResetStep ==
  ASSUME MemInv, NEW c \in Call, Reset(c)
  PROVE  MemInv'
<1>1. /\ call[c].at = "wait" /\ holder[call[c].lock] = None
      /\ holder' = [holder EXCEPT ![call[c].lock] = c] /\ UNCHANGED <<entry, last>>
      /\ sessions' = Without(call[c].key) /\ call' = [call EXCEPT ![c] = Done(c)]
  BY DEF Reset, Locks
<1>2. /\ Done(c) \in Calls /\ Done(c).at = "leave"
      /\ Done(c).key = call[c].key /\ Done(c).lock = call[c].lock
  BY DoneTypes DEF MemInv
<1>3. Moves(c, Done(c))
  BY <1>1, <1>2 DEF Moves
<1>4. KeyLocks'
  BY <1>1, <1>2, <1>3, LocksMoved DEF MemInv
<1>5. IsStore(sessions') /\ From(sessions')
  BY <1>1, LockTypes, WithoutOne DEF MemInv
<1> QED BY <1>1, <1>2, <1>3, <1>4, <1>5, LockTypes, MovedOn

\* What a request is resolved to, from a session or from none.
LEMMA ResolvedTypes ==
  ASSUME NEW found \in Found, NEW req \in Asked,
         found = NoSession \/ found.page # 0
  PROVE  /\ Resolved(found, req) \in [fields : SUBSET Field, page : Nat \ {0}]
         /\ Acceptable(Resolved(found, req)) => Resolved(found, req) \in Filters
<1>1. /\ found.fields \in SUBSET Field /\ found.page \in 0..MaxPage /\ found.refused \in BOOLEAN
      /\ req.given \in SUBSET Field /\ req.page \in 0..MaxPage /\ MaxPage \in Nat
  BY MemoryAssumption DEF Found, Asked
<1>2. Merged(found.fields, req.given, req.clear) \in SUBSET Field
  BY <1>1 DEF Merged
<1>3. PageOr1(req.page) \in Nat \ {0}
  BY <1>1 DEF PageOr1
<1>4. found.refused => found.page # 0
  BY DEF NoSession
<1>5. Resolved(found, req) \in [fields : SUBSET Field, page : Nat \ {0}]
  BY <1>1, <1>2, <1>3, <1>4 DEF Resolved
<1> QED BY <1>1, <1>5 DEF Acceptable, Filters

LEMMA ReadStep ==
  ASSUME MemInv, NEW c \in Call, Read(c)
  PROVE  MemInv'
<1> DEFINE s == call[c].key
           req == call[c].req
           found == IF req.mode = "reset" THEN NoSession ELSE Got(s)
           wanted == Resolved(found, req)
           w == IF Acceptable(wanted)
                THEN [call[c] EXCEPT !.at = "search", !.found = found, !.wanted = wanted]
                ELSE Done(c)
<1>1. /\ call[c].at = "wait" /\ holder[call[c].lock] = None
      /\ holder' = [holder EXCEPT ![call[c].lock] = c] /\ UNCHANGED <<entry, last>>
      /\ sessions' = IF req.mode = "reset" THEN sessions ELSE AfterGet(s)
      /\ call' = [call EXCEPT ![c] = w]
  BY DEF Read, Locks
<1>2. call[c] \in Calls /\ s \in Sender /\ req \in Asked
  BY <1>1, LockTypes DEF Calls
<1>3. \/ found = NoSession /\ (req.mode # "reset" =>
                                 \A i \in DOMAIN sessions' : sessions'[i].key # s)
      \/ \E i \in DOMAIN sessions :
           sessions[i].key = s /\ found = Says(sessions[i]) /\ sessions' = sessions
  BY <1>1, <1>2, GotOne DEF MemInv
<1>4. IsStore(sessions') /\ From(sessions')
  <2>1. IsStore(sessions) /\ From(sessions)
    BY DEF MemInv, MemTypes, IsStore, From, Alike
  <2> QED BY <1>1, <1>2, <2>1, GotOne DEF MemInv
<1> HIDE DEF found
<1>5. found \in Found /\ (found = NoSession \/ found.page # 0)
  <2>1. CASE found = NoSession
    BY <2>1, NoCallTypes
  <2>2. ASSUME NEW i \in DOMAIN sessions, found = Says(sessions[i])
        PROVE  found \in Found /\ found.page # 0
    <3>1. sessions[i] \in Entries
      BY ElementType DEF MemInv, MemTypes
    <3> QED BY <2>2, <3>1 DEF Entries, Says, Found
  <2> QED BY <1>3, <2>1, <2>2
<1>6. /\ wanted.page # 0
      /\ Acceptable(wanted) => wanted \in Filters
  BY <1>2, <1>5, ResolvedTypes
<1>7. /\ w \in Calls /\ w.at \in {"search", "leave"}
      /\ w.key = s /\ w.lock = call[c].lock
      /\ w.at = "search" => /\ Acceptable(wanted) /\ w.req = req
                            /\ w.found = found /\ w.wanted = wanted
  <2>1. CASE Acceptable(wanted)
    <3> HIDE DEF wanted
    <3>1. w = [call[c] EXCEPT !.at = "search", !.found = found, !.wanted = wanted]
      BY <2>1
    <3> QED BY <1>2, <1>5, <1>6, <2>1, <3>1 DEF Calls
  <2>2. CASE ~Acceptable(wanted)
    <3>1. w = Done(c)
      BY <2>2
    <3> HIDE DEF wanted, w
    <3> QED BY <3>1, DoneTypes DEF MemInv
  <2> QED BY <2>1, <2>2
<1>8. req.mode = "more" /\ Acceptable(wanted) /\ wanted.page > 1 =>
        last[s] = [wanted EXCEPT !.page = @ - 1]
  <2> SUFFICES ASSUME req.mode = "more", Acceptable(wanted), wanted.page > 1
               PROVE  last[s] = [wanted EXCEPT !.page = @ - 1]
    OBVIOUS
  <2>1. wanted = [fields |-> found.fields,
                  page |-> IF found.refused THEN found.page ELSE found.page + 1]
    BY DEF Resolved
  <2>2. found # NoSession
    BY <2>1 DEF Acceptable, NoSession
  <2>3. PICK i \in DOMAIN sessions : sessions[i].key = s /\ found = Says(sessions[i])
    BY <1>3, <2>2
  <2>4. sessions[i] \in Entries
    BY ElementType DEF MemInv, MemTypes
  <2>5. /\ found.refused = sessions[i].refused /\ found.page = sessions[i].page
        /\ found.fields = sessions[i].fields /\ found.page \in Nat
    BY <2>3, <2>4 DEF Says, Entries
  <2>6. ~found.refused
    BY <2>1, <2>5 DEF MemInv, StoreTrue
  <2>7. last[s] = [fields |-> found.fields, page |-> found.page]
    BY <2>3, <2>5, <2>6 DEF MemInv, StoreTrue
  <2> HIDE DEF wanted
  <2>8. wanted = [fields |-> found.fields, page |-> found.page + 1]
    BY <2>1, <2>6
  <2> QED BY <2>5, <2>7, <2>8
<1> HIDE DEF w, wanted
<1>9. Moves(c, w)
  BY <1>1, <1>7 DEF Moves
<1>10. KeyLocks'
  BY <1>1, <1>7, <1>9, LocksMoved DEF MemInv
<1>11. w.at # "search" \/ SearchTrue(c)'
  <2> SUFFICES ASSUME w.at = "search"
               PROVE  SearchTrue(c)'
    OBVIOUS
  <2>1. call'[c] = w
    BY <1>1 DEF MemInv, MemTypes
  <2>2. /\ w.key = s /\ w.req = req /\ w.found = found /\ w.wanted = wanted /\ Acceptable(wanted)
    BY <1>7
  <2>3. req.mode # "reset" =>
          \A i \in DOMAIN sessions' : sessions'[i].key = s => found = Says(sessions'[i])
    <3> SUFFICES ASSUME req.mode # "reset", NEW i \in DOMAIN sessions', sessions'[i].key = s
                 PROVE  found = Says(sessions'[i])
      OBVIOUS
    <3>1. PICK j \in DOMAIN sessions :
            sessions[j].key = s /\ found = Says(sessions[j]) /\ sessions' = sessions
      BY <1>3
    <3> QED BY <3>1 DEF MemInv, MemTypes
  <2> QED BY <1>1, <1>6, <1>8, <2>1, <2>2, <2>3 DEF SearchTrue
<1> QED BY <1>1, <1>4, <1>7, <1>9, <1>10, <1>11, LockTypes, MovedOn

\* The call answers and gives up what it knew.
LEMMA AnswerMoves ==
  ASSUME MemInv, NEW c \in Call, Answers(c)
  PROVE  /\ Done(c) \in Calls /\ Done(c).at = "leave" /\ Moves(c, Done(c)) /\ KeyLocks'
         /\ holder' \in [Lock -> Call \cup {None}]
         /\ call'[c] = Done(c) /\ \A d \in Call \ {c} : call'[d] = call[d]
         /\ call[c].key \in Sender /\ call[c].wanted \in Filters
         /\ IsStore(sessions) /\ From(sessions)
<1>1. call[c].at = "search" /\ call' = [call EXCEPT ![c] = Done(c)] /\ UNCHANGED <<entry, holder>>
  BY DEF Answers
<1>2. /\ Done(c) \in Calls /\ Done(c).at = "leave"
      /\ Done(c).key = call[c].key /\ Done(c).lock = call[c].lock
  BY DoneTypes DEF MemInv
<1>3. Moves(c, Done(c))
  BY <1>1, <1>2 DEF Moves
<1>4. KeyLocks'
  BY <1>1, <1>2, <1>3, LocksMoved DEF MemInv
<1>5. call[c].wanted \in Filters
  BY LockTypes DEF Calls
<1>6. IsStore(sessions) /\ From(sessions)
  BY DEF MemInv, MemTypes, IsStore, From, Alike
<1> QED BY <1>1, <1>2, <1>3, <1>4, <1>5, <1>6, LockTypes DEF MemInv, MemTypes

\* The answer is stored, and with listings it is what the sender was shown last.
LEMMA AnswerStored ==
  ASSUME MemInv, NEW c \in Call, Answers(c), NEW refused \in BOOLEAN,
         Put(call[c].key, call[c].wanted, refused),
         IF refused THEN call[c].wanted.page = 1 /\ last' = last
         ELSE last' = [last EXCEPT ![call[c].key] = call[c].wanted]
  PROVE  MemInv'
<1> USE DEF MemInv
<1>0. PICK s \in Sender : s = call[c].key
  BY AnswerMoves
<1>1. PICK wanted \in Filters : wanted = call[c].wanted
  BY AnswerMoves
<1>2. wanted.page # 0 /\ call[c].at = "search"
  BY <1>1 DEF Answers, SearchTrue
<1>3. /\ IsStore(sessions')
      /\ \A i \in DOMAIN sessions' :
           \/ /\ sessions'[i].key = s
              /\ Says(sessions'[i])
                   = [fields |-> wanted.fields, page |-> wanted.page, refused |-> refused]
           \/ /\ sessions'[i].key # s
              /\ \E j \in DOMAIN sessions : Alike(sessions'[i], sessions[j])
  BY <1>0, <1>1, <1>2, PutOne
<1>4. \A r \in Sender \ {s} : last'[r] = last[r]
  BY <1>0 DEF MemTypes
<1>5. last' \in [Sender -> Filters]
  BY <1>0, <1>1 DEF MemTypes
<1>6. /\ call' \in [Call -> Calls] /\ call'[c].at = "leave"
      /\ \A d \in Call \ {c} : call'[d] = call[d]
  BY AnswerMoves DEF MemTypes, Moves
<1>7. MemTypes'
  BY <1>3, <1>5, <1>6 DEF MemTypes, Answers, IsStore
<1>8. KeyLocks'
  BY AnswerMoves
<1>9. StoreTrue'
  <2>1. ASSUME NEW i \in DOMAIN sessions', sessions'[i].key = s,
               Says(sessions'[i])
                 = [fields |-> wanted.fields, page |-> wanted.page, refused |-> refused]
        PROVE  IF sessions'[i].refused THEN sessions'[i].page = 1
               ELSE last'[s] = [fields |-> sessions'[i].fields, page |-> sessions'[i].page]
    <3>1. /\ sessions'[i].refused = refused /\ sessions'[i].page = wanted.page
          /\ sessions'[i].fields = wanted.fields
      BY <2>1 DEF Says
    <3>2. CASE refused
      BY <1>1, <3>1, <3>2
    <3>3. CASE ~refused
      <4>1. last'[s] = wanted
        BY <1>0, <1>1, <3>3 DEF MemTypes
      <4>2. wanted = [fields |-> wanted.fields, page |-> wanted.page]
        BY DEF Filters
      <4> QED BY <3>1, <3>3, <4>1, <4>2
    <3> QED BY <3>2, <3>3
  <2> QED BY <1>3, <1>4, <2>1, StoreChanged DEF IsStore
<1>10. ASSUME NEW d \in Call
       PROVE  SearchTrue(d)'
  <2>1. CASE d = c
    BY <1>6, <2>1 DEF SearchTrue
  <2>2. CASE d # c
    <3>1. call[d].at = "search" => call[d].key \in Sender \ {s}
      BY <1>0, <1>2, <2>2, OneHolder DEF KeyLocks
    <3> QED BY <1>3, <1>4, <1>6, <2>2, <3>1, SearchKept
  <2> QED BY <2>1, <2>2
<1> QED BY <1>7, <1>8, <1>9, <1>10

LEMMA AnswerStep ==
  ASSUME MemInv, NEW c \in Call, Fails(c) \/ Refuse(c) \/ Show(c) \/ EmptyPage(c)
  PROVE  MemInv'
<1>1. Answers(c)
  BY DEF Fails, Refuse, Show, EmptyPage
<1>2. CASE /\ last' = last
           /\ sessions' = sessions \/ sessions' = Without(call[c].key)
  <2>1. IsStore(sessions') /\ From(sessions')
    BY <1>1, <1>2, AnswerMoves, WithoutOne DEF MemInv
  <2> QED BY <1>1, <1>2, <2>1, AnswerMoves, MovedOn
<1>3. CASE Show(c)
  BY <1>1, <1>3, AnswerStored DEF Show
<1>4. CASE Refuse(c) /\ call[c].wanted.page = 1
  BY <1>1, <1>4, AnswerStored DEF Refuse
<1> QED BY <1>2, <1>3, <1>4 DEF Fails, Refuse, EmptyPage

LEMMA UnlockStep ==
  ASSUME MemInv, NEW c \in Call, Unlock(c)
  PROVE  MemInv'
<1> DEFINE w == [call[c] EXCEPT !.at = "drop"]
<1>1. /\ call[c].at = "leave" /\ call' = [call EXCEPT ![c] = w]
      /\ holder' = [holder EXCEPT ![call[c].lock] = None]
      /\ UNCHANGED <<sessions, entry, last>>
  BY DEF Unlock
<1>2. /\ w \in Calls /\ w.at = "drop"
      /\ w.key = call[c].key /\ w.lock = call[c].lock
  BY LockTypes DEF Calls
<1> HIDE DEF w
<1>3. Moves(c, w)
  BY <1>1, <1>2 DEF Moves
<1>4. KeyLocks'
  BY <1>1, <1>2, <1>3, LocksMoved DEF MemInv
<1>5. IsStore(sessions') /\ From(sessions')
  BY <1>1 DEF MemInv, MemTypes, IsStore, From, Alike
<1> QED BY <1>1, <1>2, <1>3, <1>4, <1>5, LockTypes, MovedOn

LEMMA LeaveStep ==
  ASSUME MemInv, NEW c \in Call, Leave(c)
  PROVE  MemInv'
<1> USE DEF MemInv
<1>1. /\ call' = [call EXCEPT ![c] = Idle] /\ UNCHANGED <<sessions, holder, last>>
  BY DEF Leave
<1>2. /\ call' \in [Call -> Calls] /\ call'[c].at = "idle"
      /\ \A d \in Call \ {c} : call'[d] = call[d]
  BY <1>1, NoCallTypes DEF MemTypes
<1>3. KeyLocks' /\ entry' \in [Sender -> [lock : Lock \cup {None}, users : Nat]]
  BY LocksLeft
<1>4. MemTypes'
  BY <1>1, <1>2, <1>3 DEF MemTypes
<1>5. IsStore(sessions') /\ From(sessions')
  BY <1>1 DEF MemTypes, IsStore, From, Alike
<1>6. StoreTrue'
  BY <1>1, <1>5, StoreKept
<1>7. \A d \in Call : SearchTrue(d)'
  BY <1>1, <1>2, <1>5, OthersKept
<1> QED BY <1>3, <1>4, <1>6, <1>7

\* A lookup of a position and the passing of time leave what the sessions say.
LEMMA StoreStep ==
  ASSUME MemInv, UNCHANGED <<entry, holder, call, last>>, IsStore(sessions'), From(sessions')
  PROVE  MemInv'
<1> USE DEF MemInv
<1>1. MemTypes'
  BY DEF MemTypes, IsStore
<1>2. KeyLocks'
  BY DEF KeyLocks, Using
<1>3. StoreTrue'
  BY StoreKept
<1>4. ASSUME NEW d \in Call
      PROVE  SearchTrue(d)'
  BY SearchKept DEF From
<1> QED BY <1>1, <1>2, <1>3, <1>4

LEMMA TickStore ==
  ASSUME MemInv, MemTick
  PROVE  IsStore(sessions') /\ From(sessions')
<1> DEFINE older(e) == [e EXCEPT !.age = IF @ < SessionTtl THEN @ + 1 ELSE @]
<1>1. sessions' = [i \in DOMAIN sessions |-> older(sessions[i])]
  BY DEF MemTick
<1>2. ASSUME NEW e \in Entries
      PROVE  older(e) \in Entries /\ Alike(older(e), e)
  BY MemoryAssumption DEF Entries, Alike, Says
<1> HIDE DEF older
<1>3. sessions \in Seq(Entries) /\ DOMAIN sessions = 1..Len(sessions) /\ Len(sessions) \in Nat
  BY DEF MemInv, MemTypes
<1>4. \A i \in DOMAIN sessions : sessions[i] \in Entries
  BY <1>3, ElementType
<1>5. sessions' \in Seq(Entries) /\ Len(sessions') = Len(sessions)
  BY <1>1, <1>2, <1>3, <1>4
<1>6. /\ DOMAIN sessions' = DOMAIN sessions
      /\ \A i \in DOMAIN sessions : Alike(sessions'[i], sessions[i])
  BY <1>1, <1>2, <1>4
<1> QED BY <1>5, <1>6 DEF MemInv, MemTypes, IsStore, From, Alike

LEMMA MemInvStep ==
  ASSUME MemInv, [MemNext]_memVars
  PROVE  MemInv'
<1>1. ASSUME NEW c \in Call, NEW s \in Sender, NEW req \in Request[s], Enter(c, s, req)
      PROVE  MemInv'
  BY <1>1, EnterStep
<1>2. ASSUME NEW c \in Call, MemStep(c)
      PROVE  MemInv'
  BY <1>2, ResetStep, ReadStep, AnswerStep, UnlockStep, LeaveStep DEF MemStep
<1>3. ASSUME NEW s \in Sender, LookUp(s)
      PROVE  MemInv'
  <2>1. IsStore(sessions') /\ From(sessions')
    BY <1>3, GotOne DEF LookUp, MemInv
  <2> QED BY <1>3, <2>1, StoreStep DEF LookUp
<1>4. CASE MemTick
  BY <1>4, TickStore, StoreStep DEF MemTick
<1>5. CASE UNCHANGED memVars
  <2>1. IsStore(sessions') /\ From(sessions')
    BY <1>5 DEF memVars, MemInv, MemTypes, IsStore, From, Alike
  <2> QED BY <1>5, <2>1, StoreStep DEF memVars
<1> QED BY <1>1, <1>2, <1>3, <1>4, <1>5 DEF MemNext

-----------------------------------------------------------------------------
(* The results.                                                            *)

\* Nobody has called yet: every part of the invariant holds of nothing.
LEMMA MemInitInv == ASSUME MemInit PROVE MemInv
<1>1. MemTypes
  BY NoCallTypes, MemoryAssumption DEF MemInit, MemTypes, NoEntry
<1>2. \A c \in Call : call[c].at = "idle"
  BY NoCallTypes DEF MemInit
<1>3. \A s \in Sender : Using(s) = {}
  BY <1>2 DEF Using
<1>4. KeyLocks
  BY <1>2, <1>3, FS_EmptySet DEF MemInit, KeyLocks, NoEntry
<1>5. StoreTrue /\ \A c \in Call : SearchTrue(c)
  BY <1>2 DEF MemInit, StoreTrue, SearchTrue
<1> QED BY <1>1, <1>4, <1>5 DEF MemInv

\* The inductive invariant: locks, the store and the searches in flight.
THEOREM MemoryInvariance == MemSpec => []MemInv
<1>1. MemInit => MemInv BY MemInitInv
<1>2. MemInv /\ [MemNext]_memVars => MemInv' BY MemInvStep
<1> QED BY <1>1, <1>2, PTL DEF MemSpec

\* What the invariant says of an entry bounds what it counts.
LEMMA MemInvTypes == ASSUME MemInv PROVE MemTypeOK
<1>1. ASSUME NEW s \in Sender
      PROVE  entry[s] \in [lock : Lock \cup {None}, users : 0..Cardinality(Call)]
  <2>1. entry[s] \in [lock : Lock \cup {None}, users : Nat]
    BY DEF MemInv, MemTypes
  <2>2. entry[s].users \in 0..Cardinality(Call)
    BY UsersFinite DEF MemInv, KeyLocks
  <2> QED BY <2>1, <2>2
<1>2. entry \in [Sender -> [lock : Lock \cup {None}, users : 0..Cardinality(Call)]]
  BY <1>1 DEF MemInv, MemTypes
<1> QED BY <1>2 DEF MemInv, MemTypes, MemTypeOK, Entries, Calls, Found

\* Type correctness: at most MaxSessions sessions, one of a sender, and no entry
\* counts more calls than there are threads.
THEOREM MemoryTypes == MemSpec => []MemTypeOK
<1>1. MemInv => MemTypeOK BY MemInvTypes
<1> QED BY <1>1, MemoryInvariance, PTL

\* Calls for one sender run one at a time though its lock comes and goes, and what
\* a search has read of its session is what the store has when it writes.
THEOREM OneAtATimeTheorem == MemSpec => []OneAtATime
<1>1. MemInv => OneAtATime
  <2> SUFFICES ASSUME MemInv PROVE OneAtATime
    OBVIOUS
  <2>1. ASSUME NEW c \in Call, NEW d \in Call,
               {call[c].at, call[d].at} \subseteq {"search", "leave"}, call[c].key = call[d].key
        PROVE  c = d
    BY <2>1, OneHolder DEF MemInv
  <2>2. ASSUME NEW c \in Call, call[c].at = "search", call[c].req.mode # "reset",
               NEW i \in DOMAIN sessions, sessions[i].key = call[c].key
        PROVE  call[c].found = [fields |-> sessions[i].fields, page |-> sessions[i].page,
                                refused |-> sessions[i].refused]
    BY <2>2 DEF MemInv, SearchTrue, Says
  <2> QED BY <2>1, <2>2 DEF OneAtATime
<1> QED BY <1>1, MemoryInvariance, PTL

\* "more" searches a first page, or the page after the one the sender was shown
\* last under the same filters, whatever was refused, failed or empty in between.
THEOREM NoPageSkippedTheorem == MemSpec => []NoPageSkipped
<1>1. MemInv => NoPageSkipped
  BY DEF MemInv, SearchTrue, NoPageSkipped
<1> QED BY <1>1, MemoryInvariance, PTL

-----------------------------------------------------------------------------
(* The parts together.                                                     *)

\* The three parts have their types at once: each moves alone, and none of them
\* touches another's state.
THEOREM PartTypes == PartSpec => []PartTypeOK
<1> DEFINE All == ChartInv /\ MemInv /\ IInv
<1>1. PartInit => All
  BY InitChartInv, MemInitInv, InitIInv DEF PartInit
<1>2. ASSUME All, [PartNext]_partVars PROVE All'
  <2>1. [ChartNext]_chartVars /\ [MemNext]_memVars /\ [TrialNext]_trialVars
    BY <1>2 DEF PartNext, partVars
  <2>2. ChartInv' BY <1>2, <2>1, NextChartInv
  <2>3. MemInv' BY <1>2, <2>1, MemInvStep
  <2>4. IInv' BY <1>2, <2>1, NextIInv
  <2> QED BY <2>2, <2>3, <2>4
<1>3. All => PartTypeOK
  BY MemInvTypes DEF ChartInv, IInv, PartTypeOK
<1> QED
  <2>1. All /\ [PartNext]_partVars => All' BY <1>2
  <2> HIDE DEF All
  <2> QED BY <1>1, <2>1, <1>3, PTL DEF PartSpec
=============================================================================
