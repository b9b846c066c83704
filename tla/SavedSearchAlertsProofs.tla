---------------------- MODULE SavedSearchAlertsProofs ----------------------
(***************************************************************************)
(* Proofs about SavedSearchAlerts for any searches, senders, listings,     *)
(* jobs and bounds.                                                        *)
(*                                                                         *)
(* Removals.  Between its two halves a removal holds the write lock, and   *)
(* its searches have no live draft then (TakenAway); a job that could make *)
(* one would have to hold the lock too.                                    *)
(*                                                                         *)
(* Nothing skipped.  A row, in the table or a job's copy, calls done only  *)
(* what some draft counts (RowsCovered); what a job has found is all of    *)
(* its window but for the listings it could not check (Windows), and a     *)
(* draft has its whole window (DraftsWhole, DraftedCovered).  The days     *)
(* count from Low, which only grows.                                       *)
(*                                                                         *)
(* Nothing twice.  A logged draft shows only what its row remembers        *)
(* (LogKept), and a job matches nothing its copy of the row remembers      *)
(* (DuesOK).  So the copy has to be the row when the job decides: it is,   *)
(* or its older checked day gives it away (ReadsOK).  What an interrupted  *)
(* run has left is harmless if the next run would make the same draft      *)
(* (LeftInv).                                                              *)
(***************************************************************************)
EXTENDS SavedSearchAlerts, FiniteSetTheorems, TLAPS

\* What a job holds, and what follows from it alone.
Works == [pc : {"idle", "ready", "bound", "matched", "read", "drafted"}, replay : BOOLEAN,
          active : Days, rows : [Search -> Row], todo : SUBSET Search,
          search : Search \cup {Nobody}, horizon : Days, mark : 0..MaxBuild,
          matches : SUBSET Listing, first : Days]

ShownOf(w) == {l \in w.matches : Cardinality({m \in w.matches : m < l}) < Cap}
KeysOf(w) == w.rows[w.search].keys \cup ShownOf(w)
EndOf(w) == IF w.first = 0 THEN w.horizon ELSE w.first - 1

Busy(w) == w.pc \in {"bound", "matched", "read", "drafted"}

\* Work w is on the search of work v, with the same window.
SameSearch(w, v) ==
  /\ w.search = v.search /\ w.rows = v.rows /\ w.todo = v.todo /\ w.replay = v.replay
  /\ w.horizon = v.horizon /\ w.mark = v.mark

WorkOK(w) ==
  /\ w \in Works
  /\ Busy(w) => w.search \in Search /\ w.mark <= built.no /\ w.first <= w.horizon
  /\ w.pc = "drafted" => Cardinality(KeysOf(w)) <= KeyCap
  /\ w.pc \notin {"read", "drafted"} => w.first = 0

\* A job in a write transaction has its draft; nobody else has a job's draft.
WriterOK == \A j \in Job : job[j].pc = "drafted" <=> writer = j

Jobs ==
  /\ job \in [Job -> Works]
  /\ \A j \in Job : WorkOK(job[j])
  /\ WriterOK

Stores ==
  /\ Gate!TypeOK
  /\ body \in [Draft -> [counted : SUBSET Listing, shown : SUBSET Listing]]
  /\ saved \in [Search -> Row]
  /\ \A s \in Search : Cardinality(saved[s].keys) <= KeyCap
  /\ alerts \subseteq Draft
  /\ codes \subseteq Target
  /\ writer \in Job \cup Target \cup {Nobody}
  /\ today \in Days /\ cached \in 0..today
  /\ built \in [no : 1..MaxBuild, day : 0..today]
  /\ edited \in [Listing -> 0..MaxBuild]

Types == Stores /\ Jobs

-----------------------------------------------------------------------------
(* Operators.                                                              *)

\* Every non-empty set of days has a first one.
LEMMA FirstDay ==
  ASSUME NEW X \in SUBSET Nat, X # {}
  PROVE  LET d == CHOOSE x \in X : \A y \in X : x <= y IN d \in X /\ \A y \in X : d <= y
<1>1. PICK x \in X : \A y \in X : ~(<<y, x>> \in OpToRel(<, Nat))
  BY WFMin, NatLessThanWellFounded, Zenon
<1>2. \A y \in X : ~(y < x)
  BY <1>1 DEF OpToRel
<1>3. \A y \in X : x <= y
  BY <1>2
<1> QED BY <1>3

LEMMA NoWorkTyped ==
  /\ NoRow \in Row
  /\ NoWork \in Works
  /\ ~Busy(NoWork) /\ NoWork.pc = "idle" /\ NoWork.first = 0 /\ NoWork.rows = [s \in Search |-> NoRow]
  /\ NoWork.search = Nobody /\ NoWork.todo = {}
BY ConstantsAssumption DEF NoRow, Row, NoWork, Works, Days, Busy

\* What a job leaves its search with.
LEMMA NextSearchTyped ==
  ASSUME NEW j \in Job, job[j] \in Works
  PROVE  /\ NextSearch(j) \in Works /\ NextSearch(j).first = 0
         /\ NextSearch(j).pc = "ready" /\ ~Busy(NextSearch(j))
         /\ NextSearch(j).rows = job[j].rows /\ NextSearch(j).todo = job[j].todo
         /\ NextSearch(j).replay = job[j].replay
BY ConstantsAssumption, NoWorkTyped DEF NextSearch, Works, NoWork, Busy

\* A search that is taken up is well formed; the others pass over it.
LEMMA Views ==
  ASSUME NEW j \in Job
  PROVE  /\ Known(j) = job[j].rows[job[j].search]
         /\ Shown(j) = ShownOf(job[j])
         /\ NewKeys(j) = KeysOf(job[j])
         /\ CursorOf(j) = EndOf(job[j])
         /\ Name(j) = <<job[j].search, job[j].horizon>>
BY Zenon DEF Known, Shown, ShownOf, NewKeys, KeysOf, CursorOf, EndOf, Name

LEMMA EndTyped ==
  ASSUME NEW w \in Works, w.first <= w.horizon
  PROVE  EndOf(w) \in Days /\ EndOf(w) <= w.horizon
BY ConstantsAssumption DEF Works, EndOf, Days

\* The drafts, and the day a draft is named by.
LEMMA DraftNames ==
  /\ \A s \in Search, d \in Days : <<s, d>> \in Draft
  /\ \A k \in Draft : k[1] \in Search /\ k[2] \in Days /\ k = <<k[1], k[2]>>
BY DEF Draft

\* Who works the stores is not who works the jobs.
LEMMA Writers ==
  /\ \A j \in Job : j # Nobody /\ j \notin Target
  /\ Nobody \notin Target
BY ConstantsAssumption DEF Target

\* The journal's own steps, all but a proposal: they make no draft, revive none
\* and forget none.
StageMoves ==
  /\ Gate!TypeOK'
  /\ \A k \in Draft :
       /\ stage'[k] = "none" <=> stage[k] = "none"
       /\ stage'[k] \in {"pending", "approved"} => stage[k] \in {"pending", "approved"}

LEMMA WithdrawMoves ==
  ASSUME Gate!TypeOK, NEW ds \in SUBSET Draft, Gate!Withdraw(ds)
  PROVE  StageMoves /\ \A k \in ds : stage'[k] = "dead"
BY DEF Gate!TypeOK, Gate!Withdraw, Gate!Stage, StageMoves

LEMMA OperatorMoves ==
  ASSUME Gate!TypeOK, Operator
  PROVE  StageMoves
<1>1. PICK k \in Draft :
        Gate!Approve(k) \/ Gate!Claim(k) \/ Gate!Leave(k) \/ Gate!Confirm(k) \/ Gate!Withdraw({k})
  BY DEF Operator
<1>2. CASE Gate!Withdraw({k})
  BY <1>2, WithdrawMoves
<1>3. CASE Gate!Leave(k)
  BY <1>3 DEF Gate!Leave, Gate!TypeOK, Gate!Stage, StageMoves
<1>4. CASE Gate!Approve(k) \/ Gate!Claim(k) \/ Gate!Confirm(k)
  BY <1>4 DEF Gate!Approve, Gate!Claim, Gate!Confirm, Gate!Advance, Gate!TypeOK, Gate!Stage,
              StageMoves
<1> QED BY <1>1, <1>2, <1>3, <1>4

-----------------------------------------------------------------------------
(* Types.                                                                  *)

LEMMA JobsStay ==
  ASSUME Jobs, UNCHANGED job, built \in [no : Nat, day : Nat], built' \in [no : Nat, day : Nat],
         built.no <= built'.no, \A i \in Job : writer' = i <=> writer = i
  PROVE  Jobs'
<1>1. ASSUME NEW j \in Job PROVE WorkOK(job[j])'
  BY <1>1 DEF Jobs, WorkOK, Works
<1> QED BY <1>1, Zenon DEF Jobs, WriterOK

LEMMA JobMoves ==
  ASSUME Jobs, NEW j \in Job, NEW w, Set(j, w), UNCHANGED built,
         WorkOK(w), w.pc = "drafted" <=> writer' = j,
         \A i \in Job \ {j} : writer' = i <=> writer = i
  PROVE  /\ Jobs'
         /\ job'[j] = w
         /\ \A i \in Job \ {j} : job'[i] = job[i]
<1>1. w \in Works
  BY DEF WorkOK
<1>2. job' \in [Job -> Works] /\ job'[j] = w /\ \A i \in Job \ {j} : job'[i] = job[i]
  BY <1>1 DEF Jobs, Set
<1>3. ASSUME NEW i \in Job PROVE WorkOK(job[i])'
  BY <1>2 DEF Jobs, WorkOK
<1>4. WriterOK'
  BY <1>2 DEF Jobs, WriterOK
<1> QED BY <1>2, <1>3, <1>4 DEF Jobs

\* A job that goes on with its next search.
LEMMA LeavesSearch ==
  ASSUME Jobs, NEW j \in Job
  PROVE  WorkOK(NextSearch(j))
BY NextSearchTyped DEF Jobs, WorkOK

LEMMA HorizonTyped ==
  ASSUME Stores, NEW s \in Search
  PROVE  SaveHorizon(s) \in Days /\ SaveHorizon(s) <= today
BY ConstantsAssumption DEF Stores, SaveHorizon, Min2, Days

LEMMA SavingTypes ==
  ASSUME Types, NEW s \in Search, Save(s) \/ Renew(s) \/ Lapse(s)
  PROVE  Types'
<1>1. Jobs'
  <2>1. UNCHANGED <<job, built, writer>>
    BY DEF Save, Renew, Lapse, mls
  <2> QED BY <2>1, JobsStay DEF Types, Stores, Days
<1>2. saved' \in [Search -> Row] /\ \A x \in Search : Cardinality(saved'[x].keys) <= KeyCap
  <2>1. CASE Save(s)
    BY <2>1, HorizonTyped, FS_EmptySet, ConstantsAssumption DEF Save, Types, Stores, Row
  <2>2. CASE Renew(s)
    <3>1. Max2(saved[s].checked, SaveHorizon(s)) \in Days
      BY HorizonTyped DEF Types, Stores, Row, Max2
    <3> QED BY <2>2, <3>1 DEF Renew, Types, Stores, Row
  <2>3. CASE Lapse(s)
    BY <2>3 DEF Lapse, Types, Stores, Row
  <2> QED BY <2>1, <2>2, <2>3
<1>3. UNCHANGED <<journal, alerts, codes, writer, mls>>
  BY DEF Save, Renew, Lapse
<1> QED BY <1>1, <1>2, <1>3 DEF Types, Stores, journal, mls, Gate!TypeOK

LEMMA RemovalTypes ==
  ASSUME Types, NEW t \in Target,
         IssueCode(t) \/ CodeLapses(t) \/ RemoveDrafts(t) \/ RemoveRows(t)
  PROVE  Types'
<1>1. UNCHANGED <<body, mls, job>>
  BY DEF IssueCode, CodeLapses, RemoveDrafts, RemoveRows, journal
<1>2. Gate!TypeOK'
  <2>1. CASE RemoveDrafts(t)
    <3>1. PICK ds \in SUBSET Draft : Gate!Withdraw(ds)
      BY <2>1 DEF RemoveDrafts, Withdrawn
    <3> QED BY <3>1, WithdrawMoves DEF Types, Stores, StageMoves
  <2>2. CASE ~RemoveDrafts(t)
    BY <2>2 DEF IssueCode, CodeLapses, RemoveRows, journal, Types, Stores, Gate!TypeOK
  <2> QED BY <2>1, <2>2
<1>3. /\ writer' \in Job \cup Target \cup {Nobody}
      /\ \A i \in Job : writer' = i <=> writer = i
  BY Writers DEF IssueCode, CodeLapses, RemoveDrafts, RemoveRows, Types, Stores
<1>4. /\ saved' \in [Search -> Row] /\ \A x \in Search : Cardinality(saved'[x].keys) <= KeyCap
      /\ alerts' \subseteq Draft /\ codes' \subseteq Target
  <2>1. CASE RemoveRows(t)
    <3>1. [NoRow EXCEPT !.status = "removed"] \in Row
          /\ [NoRow EXCEPT !.status = "removed"].keys = {}
      BY ConstantsAssumption DEF NoRow, Row, Days
    <3>2. Cardinality({}) <= KeyCap
      BY FS_EmptySet, ConstantsAssumption
    <3> HIDE DEF NoRow
    <3> QED BY <2>1, <3>1, <3>2 DEF RemoveRows, store, Types, Stores
  <2>2. CASE ~RemoveRows(t)
    BY <2>2 DEF IssueCode, CodeLapses, RemoveDrafts, store, Types, Stores
  <2> QED BY <2>1, <2>2
<1>5. Jobs'
  BY <1>1, <1>3, JobsStay DEF Types, Stores, mls, Days
<1> QED BY <1>1, <1>2, <1>3, <1>4, <1>5 DEF Types, Stores, mls

LEMMA TakeTyped ==
  ASSUME Types, NEW j \in Job, NEW s \in Search, JobTake(j, s)
  PROVE  \E w \in Works :
           /\ Set(j, w) /\ WorkOK(w) /\ w.pc \in {"ready", "bound"}
           /\ w.rows = job[j].rows /\ w.replay = job[j].replay
           /\ w.todo = job[j].todo \ {s}
           /\ w.pc = "bound" =>
                /\ w.search = s /\ w.rows[s].status = "active"
                /\ ~w.replay => w.rows[s].checked < w.horizon
<1> DEFINE horizon == IF s \in Featured THEN Min2(job[j].active, built.day) ELSE job[j].active
           left == [job[j] EXCEPT !.todo = job[j].todo \ {s}]
           taken == [left EXCEPT !.pc = "bound", !.search = s,
                                 !.horizon = horizon, !.mark = built.no]
<1>1. job[j] \in Works /\ WorkOK(job[j]) /\ job[j].pc = "ready"
  BY DEF Types, Jobs, JobTake, At
<1>2. horizon \in Days /\ built.no \in 0..MaxBuild
  BY <1>1, ConstantsAssumption DEF Types, Stores, Works, Days, Min2
<1>3. \/ Set(j, left)
      \/ /\ Set(j, taken) /\ job[j].rows[s].status = "active"
         /\ job[j].replay \/ horizon > job[j].rows[s].checked
  BY DEF JobTake
<1> HIDE DEF horizon
<1>4. /\ left \in Works /\ left.pc = "ready" /\ left.rows = job[j].rows
      /\ left.replay = job[j].replay /\ left.todo = job[j].todo \ {s}
      /\ left.first = job[j].first
  BY <1>1 DEF Works
<1>5. /\ taken \in Works /\ taken.pc = "bound" /\ taken.rows = job[j].rows
      /\ taken.replay = job[j].replay /\ taken.todo = job[j].todo \ {s}
      /\ taken.search = s /\ taken.mark = built.no /\ taken.horizon = horizon
      /\ taken.first = job[j].first
  BY <1>1, <1>2 DEF Works
<1> HIDE DEF left, taken
<1>6. WorkOK(left) /\ WorkOK(taken)
  BY <1>1, <1>2, <1>4, <1>5 DEF WorkOK, Busy, Days
<1>7. CASE Set(j, left)
  BY <1>4, <1>6, <1>7
<1>8. CASE Set(j, taken) /\ job[j].rows[s].status = "active"
           /\ (job[j].replay \/ horizon > job[j].rows[s].checked)
  BY <1>2, <1>5, <1>6, <1>8 DEF Works, Row, Days
<1> QED BY <1>3, <1>7, <1>8

\* The steps of a job that change nothing but the job.
LEMMA MatchTyped ==
  ASSUME Types, NEW j \in Job, JobMatch(j)
  PROVE  LET w == [job[j] EXCEPT !.pc = "matched", !.matches = Matches(j)] IN
         /\ Set(j, w) /\ WorkOK(w) /\ w.pc = "matched" /\ SameSearch(w, job[j])
         /\ w.matches = Matches(j)
<1> DEFINE w == [job[j] EXCEPT !.pc = "matched", !.matches = Matches(j)]
<1>1. job[j] \in Works /\ WorkOK(job[j]) /\ job[j].pc = "bound"
  BY DEF Types, Jobs, JobMatch, At
<1>2. Matches(j) \in SUBSET Listing
  BY DEF Matches
<1>3. /\ w \in Works /\ w.pc = "matched" /\ SameSearch(w, job[j])
      /\ w.first = job[j].first /\ w.matches = Matches(j)
  BY <1>1, <1>2 DEF Works, SameSearch
<1>4. Set(j, w)
  BY DEF JobMatch
<1> HIDE DEF w
<1>5. WorkOK(w)
  BY <1>1, <1>3 DEF WorkOK, Busy, SameSearch
<1> QED BY <1>3, <1>4, <1>5 DEF w

\* The first listing that could not be checked, or 0.
First(j) ==
  LET days == {Day[l] : l \in Unchecked(j)} IN
  IF days = {} THEN 0 ELSE CHOOSE d \in days : \A e \in days : d <= e

LEMMA FirstIsFirst ==
  ASSUME NEW j \in Job, job[j] \in Works
  PROVE  /\ First(j) \in Days /\ First(j) <= job[j].horizon
         /\ \A l \in Unchecked(j) : First(j) # 0 /\ First(j) <= Day[l]
<1> DEFINE days == {Day[l] : l \in Unchecked(j)}
<1>1. \A d \in days : d \in Nat \ {0} /\ d <= job[j].horizon
  BY ConstantsAssumption DEF Unchecked, InWindow, Works, Days
<1>2. CASE days = {}
  BY <1>2, ConstantsAssumption DEF First, Works, Days
<1>3. CASE days # {}
  <2>1. First(j) = CHOOSE d \in days : \A e \in days : d <= e
    BY <1>3 DEF First
  <2>2. \A l \in Unchecked(j) : Day[l] \in days
    OBVIOUS
  <2> HIDE DEF days
  <2>3. days \in SUBSET Nat
    BY <1>1
  <2>4. First(j) \in days /\ \A y \in days : First(j) <= y
    BY <1>3, <2>1, <2>3, FirstDay
  <2>5. First(j) \in Nat /\ First(j) <= job[j].horizon /\ First(j) # 0
    BY <1>1, <2>4
  <2> QED BY <2>2, <2>4, <2>5, ConstantsAssumption DEF Works, Days
<1> QED BY <1>2, <1>3

LEMMA UncheckedTyped ==
  ASSUME Types, NEW j \in Job, JobUnchecked(j)
  PROVE  LET w == [job[j] EXCEPT !.pc = "read", !.first = First(j)] IN
         /\ Set(j, w) /\ WorkOK(w) /\ w.pc = "read" /\ SameSearch(w, job[j])
         /\ w.matches = job[j].matches /\ w.first = First(j)
<1> DEFINE w == [job[j] EXCEPT !.pc = "read", !.first = First(j)]
<1>1. job[j] \in Works /\ WorkOK(job[j]) /\ job[j].pc = "matched"
  BY DEF Types, Jobs, JobUnchecked, At
<1>2. First(j) \in Days /\ First(j) <= job[j].horizon
  BY <1>1, FirstIsFirst
<1>3. Set(j, w)
  BY Zenon DEF JobUnchecked, First
<1>4. /\ w \in Works /\ w.pc = "read" /\ SameSearch(w, job[j])
      /\ w.first = First(j) /\ w.matches = job[j].matches
  BY <1>1, <1>2 DEF Works, SameSearch
<1> HIDE DEF w
<1>5. WorkOK(w)
  BY <1>1, <1>2, <1>4 DEF WorkOK, Busy, SameSearch
<1> QED BY <1>3, <1>4, <1>5 DEF w

LEMMA DraftTyped ==
  ASSUME Types, NEW j \in Job, JobDraft(j)
  PROVE  LET w == [job[j] EXCEPT !.pc = "drafted"] IN
         /\ Set(j, w) /\ WorkOK(w) /\ w.pc = "drafted" /\ SameSearch(w, job[j])
         /\ w.matches = job[j].matches /\ w.first = job[j].first
         /\ Name(j) \in Draft
<1> DEFINE w == [job[j] EXCEPT !.pc = "drafted"]
<1>1. job[j] \in Works /\ WorkOK(job[j]) /\ job[j].pc = "read"
  BY DEF Types, Jobs, JobDraft, At
<1>2. /\ w \in Works /\ w.pc = "drafted" /\ SameSearch(w, job[j])
      /\ w.first = job[j].first /\ w.matches = job[j].matches
  BY <1>1 DEF Works, SameSearch
<1>3. Set(j, w)
  BY DEF JobDraft
<1>4. Cardinality(KeysOf(job[j])) <= KeyCap
  BY Views DEF JobDraft
<1> HIDE DEF w
<1>5. KeysOf(w) = KeysOf(job[j])
  BY <1>2 DEF KeysOf, ShownOf, SameSearch
<1>6. WorkOK(w)
  BY <1>1, <1>2, <1>4, <1>5 DEF WorkOK, Busy, SameSearch
<1>7. Name(j) \in Draft
  BY <1>1, DraftNames DEF Name, WorkOK, Busy, Works
<1> QED BY <1>2, <1>3, <1>6, <1>7 DEF w

\* The row a job writes.
LEMMA CommittedTyped ==
  ASSUME Types, NEW j \in Job, job[j].pc \in {"read", "drafted"},
         Cardinality(NewKeys(j)) <= KeyCap, saved' = Committed(j)
  PROVE  LET s == job[j].search IN
         /\ s \in Search
         /\ saved' = [saved EXCEPT ![s] = [saved[s] EXCEPT !.checked = EndOf(job[j]),
                                                          !.keys = KeysOf(job[j])]]
         /\ saved' \in [Search -> Row]
         /\ \A x \in Search : Cardinality(saved'[x].keys) <= KeyCap
         /\ saved'[s].status = saved[s].status /\ saved'[s].since = saved[s].since
         /\ saved'[s].checked = EndOf(job[j]) /\ saved'[s].keys = KeysOf(job[j])
         /\ \A x \in Search \ {s} : saved'[x] = saved[x]
<1> DEFINE s == job[j].search
           end == EndOf(job[j])
           keys == KeysOf(job[j])
<1>1. job[j] \in Works /\ s \in Search /\ end \in Days
  BY EndTyped DEF Types, Jobs, WorkOK, Busy
<1>2. keys \in SUBSET Listing /\ Cardinality(keys) <= KeyCap
  BY <1>1, Views DEF KeysOf, ShownOf, Works, Row
<1>3. saved' = [saved EXCEPT ![s].checked = end, ![s].keys = keys]
  BY Views, Zenon DEF Committed
<1>4. saved \in [Search -> Row]
  BY DEF Types, Stores
<1>5. \A x \in Search : Cardinality(saved[x].keys) <= KeyCap
  BY DEF Types, Stores
<1> HIDE DEF s, end, keys
<1>6. saved' = [saved EXCEPT ![s] = [saved[s] EXCEPT !.checked = end, !.keys = keys]]
  BY <1>1, <1>3, <1>4 DEF Row
<1> DEFINE row == [saved[s] EXCEPT !.checked = end, !.keys = keys]
<1>r. row \in Row /\ row.status = saved[s].status /\ row.since = saved[s].since
      /\ row.checked = end /\ row.keys = keys
  BY <1>1, <1>2, <1>4 DEF Row
<1>f. saved' = [saved EXCEPT ![s] = row]
  BY <1>6
<1> HIDE DEF row
<1>7. /\ saved' \in [Search -> Row]
      /\ saved'[s].status = saved[s].status /\ saved'[s].since = saved[s].since
      /\ saved'[s].checked = end /\ saved'[s].keys = keys
      /\ \A x \in Search \ {s} : saved'[x] = saved[x]
  BY <1>1, <1>4, <1>r, <1>f
<1>8. \A x \in Search : Cardinality(saved'[x].keys) <= KeyCap
  BY <1>2, <1>5, <1>7
<1> QED BY <1>1, <1>6, <1>7, <1>8 DEF s, end, keys

JobStep(j) ==
  \/ \E r \in Search \cup {Nobody} : JobStart(j, r)
  \/ \E s \in Search : JobTake(j, s)
  \/ JobMatch(j) \/ JobUnchecked(j) \/ JobGiveUp(j)
  \/ JobNoDraft(j) \/ JobDraft(j) \/ JobCommit(j) \/ JobEnd(j)

\* What a job starts with.
LEMMA StartSets ==
  ASSUME Types, NEW j \in Job, NEW r \in Search \cup {Nobody}, JobStart(j, r)
  PROVE  \E w \in Works :
           /\ Set(j, w) /\ WorkOK(w) /\ w.pc = "ready" /\ w.rows = saved
           /\ \A s \in w.todo : s \in Search /\ Stored(s)
           /\ w.replay => w.todo \subseteq Replayable
<1> DEFINE all == {s \in Search : Stored(s)}
           todo == IF r = Nobody THEN all ELSE {r}
<1>1. r # Nobody => r \in Replayable /\ r \in all
  BY DEF JobStart
<1>2. /\ todo \in SUBSET Search /\ todo \subseteq all
      /\ r # Nobody => todo \subseteq Replayable
  BY <1>1
<1>3. PICK replay \in BOOLEAN : replay = (r # Nobody)
  OBVIOUS
<1> DEFINE w == [NoWork EXCEPT !.pc = "ready", !.active = today, !.rows = saved,
                               !.replay = replay, !.todo = todo]
<1>4. Set(j, w)
  BY <1>3 DEF JobStart
<1>5. today \in Days /\ saved \in [Search -> Row]
  BY DEF Types, Stores
<1> HIDE DEF todo
<1>6. /\ w \in Works /\ w.pc = "ready" /\ w.first = 0 /\ w.rows = saved /\ w.todo = todo
      /\ w.replay = replay
  BY <1>2, <1>3, <1>5, ConstantsAssumption, NoWorkTyped DEF Works, NoWork
<1> HIDE DEF w
<1>7. WorkOK(w)
  BY <1>6 DEF WorkOK, Busy
<1> QED BY <1>1, <1>2, <1>3, <1>4, <1>6, <1>7

LEMMA JobTypes ==
  ASSUME Types, NEW j \in Job, JobStep(j)
  PROVE  Types'
<1> USE DEF Types
<1>1. job[j] \in Works /\ WorkOK(job[j])
  BY DEF Jobs
<1>2. \A i \in Job : job[i].pc = "drafted" <=> writer = i
  BY DEF Jobs, WriterOK
<1>3. ASSUME UNCHANGED <<journal, store, writer, mls>>, NEW w, Set(j, w), WorkOK(w),
             job[j].pc # "drafted", w.pc # "drafted"
      PROVE  Types'
  <2>1. Jobs'
    BY <1>2, <1>3, JobMoves DEF mls
  <2> QED BY <1>3, <2>1 DEF Stores, journal, store, mls, Gate!TypeOK
<1>4. CASE \E r \in Search \cup {Nobody} : JobStart(j, r)
  BY <1>3, <1>4, StartSets DEF JobStart, At
<1>5. CASE \E s \in Search : JobTake(j, s)
  BY <1>3, <1>5, TakeTyped DEF JobTake, At
<1>6. CASE JobMatch(j)
  BY <1>3, <1>6, MatchTyped DEF JobMatch, At
<1>7. CASE JobUnchecked(j)
  BY <1>3, <1>7, UncheckedTyped DEF JobUnchecked, At
<1>8. CASE JobGiveUp(j) \/ JobEnd(j)
  <2>1. \E w : Set(j, w) /\ WorkOK(w) /\ w.pc # "drafted"
    <3>1. WorkOK(NoWork)
      BY NoWorkTyped DEF WorkOK
    <3> QED BY <1>1, <1>8, <3>1, NoWorkTyped, NextSearchTyped, LeavesSearch DEF JobGiveUp, JobEnd
  <2>2. UNCHANGED <<journal, store, mls>> /\ writer' = IF writer = j THEN Nobody ELSE writer
    BY <1>8 DEF JobGiveUp, JobEnd
  <2>3. Jobs'
    BY <2>1, <2>2, JobMoves, Writers DEF mls
  <2> QED BY <2>2, <2>3 DEF Stores, journal, store, mls, Gate!TypeOK
<1>9. CASE JobNoDraft(j)
  <2>1. /\ UNCHANGED <<journal, alerts, codes, writer, mls>>
        /\ Set(j, NextSearch(j)) /\ job[j].pc = "read" /\ writer = Nobody
    BY <1>9 DEF JobNoDraft, At
  <2>2. Jobs'
    BY <1>1, <2>1, JobMoves, LeavesSearch, NextSearchTyped, Writers DEF mls
  <2>3. saved' \in [Search -> Row] /\ \A s \in Search : Cardinality(saved'[s].keys) <= KeyCap
    BY <1>9, <2>1, CommittedTyped DEF JobNoDraft, Stores
  <2> QED BY <2>1, <2>2, <2>3 DEF Stores, journal, mls, Gate!TypeOK
<1>10. CASE JobDraft(j)
  <2>1. Jobs'
    BY <1>1, <1>10, DraftTyped, JobMoves, Writers DEF JobDraft, mls
  <2>2. Name(j) \in Draft
    BY <1>10, DraftTyped
  <2>3. /\ Gate!TypeOK'
        /\ body' \in [Draft -> [counted : SUBSET Listing, shown : SUBSET Listing]]
    <3>1. CASE UNCHANGED journal
      BY <3>1 DEF journal, Stores, Gate!TypeOK
    <3>2. CASE /\ Gate!Propose(Name(j))
               /\ body' = [body EXCEPT ![Name(j)] = [counted |-> job[j].matches, shown |-> Shown(j)]]
      <4>1. job[j].matches \in SUBSET Listing /\ Shown(j) \in SUBSET Listing
        BY <1>1 DEF Works, Shown
      <4>2. Gate!TypeOK'
        BY <2>2, <3>2 DEF Gate!Propose, Gate!Advance, Gate!TypeOK, Gate!Stage, Stores
      <4> QED BY <2>2, <3>2, <4>1, <4>2 DEF Stores
    <3> QED BY <1>10, <3>1, <3>2 DEF JobDraft
  <2>4. UNCHANGED <<store, mls>> /\ writer' = j
    BY <1>10 DEF JobDraft
  <2> QED BY <2>1, <2>3, <2>4 DEF Stores, store, mls
<1>11. CASE JobCommit(j)
  <2>1. /\ UNCHANGED <<journal, codes, mls>> /\ writer' = Nobody /\ writer = j
        /\ Set(j, NextSearch(j)) /\ job[j].pc = "drafted"
        /\ alerts' = alerts \cup {Name(j)} /\ saved' = Committed(j)
    BY <1>2, <1>11 DEF JobCommit, At
  <2>2. Jobs'
    BY <1>1, <2>1, JobMoves, LeavesSearch, NextSearchTyped, Writers DEF mls
  <2>3. saved' \in [Search -> Row] /\ \A s \in Search : Cardinality(saved'[s].keys) <= KeyCap
    BY <1>1, <2>1, CommittedTyped, Views DEF WorkOK
  <2>4. Name(j) \in Draft
    BY <1>1, <2>1, DraftNames DEF Name, WorkOK, Busy, Works
  <2> QED BY <2>1, <2>2, <2>3, <2>4 DEF Stores, journal, mls, Gate!TypeOK
<1> QED BY <1>4, <1>5, <1>6, <1>7, <1>8, <1>9, <1>10, <1>11 DEF JobStep

Surroundings ==
  Operator \/ Tick \/ ServerRestart \/ Rebuild \/ \E l \in Listing : Edit(l)

LEMMA SurroundingsTypes ==
  ASSUME Types, Surroundings
  PROVE  Types'
<1> USE DEF Types
<1>1. Jobs'
  <2>1. UNCHANGED <<job, writer>>
    BY DEF Surroundings, Operator, Tick, ServerRestart, Rebuild, Edit
  <2>2. built'.no \in Nat /\ built.no <= built'.no /\ built' \in [no : Nat, day : Nat]
    BY ConstantsAssumption
    DEF Surroundings, Operator, Tick, ServerRestart, Rebuild, Edit, Stores, Days, mls
  <2> QED BY <2>1, <2>2, JobsStay DEF Stores, Days
<1>2. CASE Operator
  BY <1>1, <1>2, OperatorMoves DEF Operator, StageMoves, Stores, store, mls
<1>3. CASE Tick \/ ServerRestart \/ Rebuild \/ \E l \in Listing : Edit(l)
  BY <1>1, <1>3, ConstantsAssumption
  DEF Tick, ServerRestart, Rebuild, Edit, Stores, Days, store, journal, Gate!TypeOK
<1> QED BY <1>2, <1>3 DEF Surroundings

LEMMA NextSteps ==
  ASSUME Next
  PROVE  \/ \E s \in Search : Save(s) \/ Renew(s) \/ Lapse(s)
         \/ \E t \in Target : IssueCode(t) \/ CodeLapses(t) \/ RemoveDrafts(t) \/ RemoveRows(t)
         \/ \E j \in Job : JobStep(j)
         \/ Surroundings
BY Zenon DEF Next, JobStep, Surroundings

LEMMA TypesInit ==
  ASSUME Init
  PROVE  Types
<1>1. Gate!TypeOK
  BY DEF Init, Gate!Init, Gate!TypeOK, Gate!Stage
<1>2. \A s \in Search : Cardinality(NoRow.keys) <= KeyCap
  BY FS_EmptySet, ConstantsAssumption DEF NoRow
<1>3. \A j \in Job : WorkOK(job[j]) /\ job[j] = NoWork
  BY NoWorkTyped DEF Init, WorkOK
<1>4. Jobs
  BY <1>3, NoWorkTyped, Writers DEF Init, Jobs, WriterOK
<1> QED BY <1>1, <1>2, <1>4, NoWorkTyped, ConstantsAssumption
        DEF Init, Types, Stores, Days

LEMMA TypesNext ==
  ASSUME Types, [Next]_vars
  PROVE  Types'
<1>1. CASE UNCHANGED vars
  <2>1. UNCHANGED <<journal, store, writer, mls, job>>
    BY <1>1 DEF vars
  <2>2. Jobs'
    BY <2>1, JobsStay DEF Types, Stores, mls, Days
  <2> QED BY <2>1, <2>2 DEF Types, Stores, journal, store, mls, Gate!TypeOK
<1> QED BY <1>1, NextSteps, SavingTypes, RemovalTypes, JobTypes, SurroundingsTypes

LEMMA TypesInvariance == Spec => []Types
BY TypesInit, TypesNext, PTL DEF Spec

\* The journal, the rows, the log, the codes and the jobs have their types, and no
\* row keeps more keys than its cap, whatever crashes and whoever replays.
THEOREM TypeTheorem == Spec => []TypeOK
<1>1. Types => TypeOK
  BY ConstantsAssumption DEF Types, Stores, Jobs, TypeOK, Works, Days
<1> QED BY <1>1, TypesInvariance, PTL

-----------------------------------------------------------------------------
(* A removed search is silent.                                             *)

Live(k) == stage[k] \in {"pending", "approved"}

\* While a removal holds the lock, its searches have no live draft.
TakenAway == writer \in Target => \A k \in Draft : k[1] \in Wanted(writer) => ~Live(k)

SilentInv == TakenAway /\ RemovedIsSilent

\* A step that revives no draft, removes no search and, under a removal's lock,
\* leaves alone which searches are stored.
LEMMA StaysSilent ==
  ASSUME SilentInv,
         \A k \in Draft : Live(k)' => Live(k),
         \A s \in Search : saved'[s].status = "removed" => saved[s].status = "removed",
         writer' \in Target => writer' = writer /\ \A s \in Search : Stored(s)' <=> Stored(s)
  PROVE  SilentInv'
<1>1. RemovedIsSilent'
  BY DraftNames DEF SilentInv, RemovedIsSilent, Live
<1>2. ASSUME writer' \in Target, NEW k \in Draft, k[1] \in Wanted(writer)' PROVE ~Live(k)'
  <2>1. k[1] \in Wanted(writer)
    BY <1>2, DraftNames DEF Wanted, Own
  <2> QED BY <1>2, <2>1 DEF SilentInv, TakenAway
<1> QED BY <1>1, <1>2 DEF SilentInv, TakenAway

LEMMA SavingSilent ==
  ASSUME Types, SilentInv, NEW s \in Search, Save(s) \/ Renew(s) \/ Lapse(s)
  PROVE  SilentInv'
<1>1. saved \in [Search -> Row]
  BY DEF Types, Stores
<1>2. UNCHANGED <<journal, writer>>
  BY DEF Save, Renew, Lapse
<1>3. \A k \in Draft : Live(k)' => Live(k)
  BY <1>2 DEF journal, Live
<1>4. \A x \in Search : saved'[x].status = "removed" => saved[x].status = "removed"
  BY <1>1 DEF Save, Renew, Lapse, Row
<1>5. writer' \in Target => writer' = writer /\ \A x \in Search : Stored(x)' <=> Stored(x)
  BY <1>1, <1>2, Writers DEF Save, Renew, Lapse, Row, Stored
<1> QED BY <1>3, <1>4, <1>5, StaysSilent

LEMMA RemovalSilent ==
  ASSUME Types, SilentInv, NEW t \in Target,
         IssueCode(t) \/ CodeLapses(t) \/ RemoveDrafts(t) \/ RemoveRows(t)
  PROVE  SilentInv'
<1>1. saved \in [Search -> Row] /\ Gate!TypeOK
  BY DEF Types, Stores
<1>2. CASE IssueCode(t) \/ CodeLapses(t)
  BY <1>2, StaysSilent DEF IssueCode, CodeLapses, journal, Live, Stored
<1>3. CASE RemoveDrafts(t)
  <2>1. UNCHANGED saved /\ writer = Nobody
    BY <1>3 DEF RemoveDrafts, store
  <2>2. PICK ds \in SUBSET Draft :
          /\ Gate!Withdraw(ds)
          /\ UNCHANGED writer \/ (writer' = t /\ ds = Withdrawn(t))
    BY <1>3 DEF RemoveDrafts, Withdrawn
  <2>w. StageMoves /\ \A k \in ds : stage'[k] = "dead"
    BY <1>1, <2>2, WithdrawMoves
  <2>3. \A k \in Draft : Live(k)' => Live(k)
    BY <2>w DEF StageMoves, Live
  <2>4. CASE UNCHANGED writer
    BY <2>1, <2>3, <2>4, StaysSilent, Writers DEF Stored
  <2>5. CASE writer' = t /\ ds = Withdrawn(t)
    <3>1. ASSUME NEW k \in Draft, k[1] \in Wanted(t)' PROVE ~Live(k)'
      <4>1. k[1] \in Wanted(t)
        BY <2>1, <3>1 DEF Wanted, Own, Stored
      <4>2. CASE Live(k)
        BY <2>w, <2>5, <4>1, <4>2 DEF Withdrawn, Live
      <4>3. CASE ~Live(k)
        BY <2>3, <4>3
      <4> QED BY <4>2, <4>3
    <3>2. RemovedIsSilent'
      BY <2>1, <2>3 DEF SilentInv, RemovedIsSilent, Live
    <3> QED BY <2>5, <3>1, <3>2 DEF SilentInv, TakenAway
  <2> QED BY <2>2, <2>4, <2>5
<1>4. CASE RemoveRows(t)
  <2>1. UNCHANGED stage /\ writer = t /\ writer' = Nobody
    BY <1>4 DEF RemoveRows, journal
  <2>2. TakenAway'
    BY <2>1, Writers DEF TakenAway
  <2>3. ASSUME NEW k \in Draft, saved'[k[1]].status = "removed" PROVE ~Live(k)'
    <3>1. k[1] \in Wanted(t) \/ saved[k[1]].status = "removed"
      BY <1>4, <2>3, DraftNames DEF RemoveRows, store
    <3> QED BY <2>1, <3>1 DEF SilentInv, TakenAway, RemovedIsSilent, Live
  <2> QED BY <2>2, <2>3 DEF SilentInv, RemovedIsSilent, Live
<1> QED BY <1>2, <1>3, <1>4

LEMMA JobSilent ==
  ASSUME Types, SilentInv, NEW j \in Job, JobStep(j)
  PROVE  SilentInv'
<1>1. saved \in [Search -> Row] /\ Gate!TypeOK
  BY DEF Types, Stores
<1>2. WorkOK(job[j]) /\ (job[j].pc = "drafted" <=> writer = j)
  BY DEF Types, Jobs, WriterOK
<1>3. CASE UNCHANGED <<journal, store, writer>>
  BY <1>3, StaysSilent DEF journal, store, Live, Stored
<1>4. CASE JobGiveUp(j) \/ JobEnd(j)
  <2>1. UNCHANGED <<journal, store>> /\ writer' = IF writer = j THEN Nobody ELSE writer
    BY <1>4 DEF JobGiveUp, JobEnd
  <2> QED BY <2>1, StaysSilent, Writers DEF journal, store, Live, Stored
<1>5. CASE JobNoDraft(j)
  <2>1. UNCHANGED <<journal, writer>> /\ writer = Nobody /\ job[j].pc = "read"
    BY <1>5 DEF JobNoDraft, At
  <2>2. \A s \in Search : saved'[s].status = saved[s].status
    BY <1>5, <2>1, CommittedTyped DEF JobNoDraft
  <2> QED BY <2>1, <2>2, StaysSilent, Writers DEF journal, Live
<1>6. CASE JobCommit(j)
  <2>1. UNCHANGED journal /\ writer' = Nobody /\ job[j].pc = "drafted"
    BY <1>6 DEF JobCommit, At
  <2>2. \A s \in Search : saved'[s].status = saved[s].status
    BY <1>2, <1>6, <2>1, CommittedTyped, Views DEF JobCommit, WorkOK
  <2> QED BY <2>1, <2>2, StaysSilent, Writers DEF journal, Live
<1>7. CASE JobDraft(j)
  <2>1. UNCHANGED saved /\ writer' = j /\ Stored(job[j].search)
    BY <1>7 DEF JobDraft, Decision, store
  <2>2. TakenAway'
    BY <2>1, Writers DEF TakenAway
  <2>3. ASSUME NEW k \in Draft, saved'[k[1]].status = "removed" PROVE ~Live(k)'
    <3>1. k # Name(j)
      BY <2>1, <2>3 DEF Name, Stored
    <3>2. stage'[k] = stage[k]
      BY <1>1, <1>7, <3>1, DraftTyped
      DEF JobDraft, journal, Gate!Propose, Gate!Advance, Gate!TypeOK
    <3> QED BY <2>1, <2>3, <3>2 DEF SilentInv, RemovedIsSilent, Live
  <2> QED BY <2>2, <2>3 DEF SilentInv, RemovedIsSilent, Live
<1> QED BY <1>3, <1>4, <1>5, <1>6, <1>7
        DEF JobStep, JobStart, JobTake, JobMatch, JobUnchecked

LEMMA SurroundingsSilent ==
  ASSUME Types, SilentInv, Surroundings
  PROVE  SilentInv'
<1>1. UNCHANGED <<store, writer>>
  BY DEF Surroundings, Operator, Tick, ServerRestart, Rebuild, Edit
<1>2. \A k \in Draft : Live(k)' => Live(k)
  <2>1. CASE Operator
    BY <2>1, OperatorMoves DEF Types, Stores, StageMoves, Live
  <2>2. CASE UNCHANGED journal
    BY <2>2 DEF journal, Live
  <2> QED BY <2>1, <2>2 DEF Surroundings, Tick, ServerRestart, Rebuild, Edit
<1> QED BY <1>1, <1>2, StaysSilent DEF store, Stored

\* A removed search never has a live draft again: the removal withdraws all of them
\* under its lock, and a job that raced it reads the row again before it drafts.
THEOREM SilenceTheorem == Spec => []RemovedIsSilent
<1>1. Init => SilentInv
  BY Writers DEF Init, Gate!Init, SilentInv, TakenAway, RemovedIsSilent
<1>2. Types /\ SilentInv /\ [Next]_vars => SilentInv'
  <2>1. ASSUME SilentInv, UNCHANGED vars PROVE SilentInv'
    BY <2>1, StaysSilent DEF vars, journal, store, Live, Stored
  <2> QED BY <2>1, NextSteps, SavingSilent, RemovalSilent, JobSilent, SurroundingsSilent
<1>3. SilentInv => RemovedIsSilent
  BY DEF SilentInv
<1> QED BY <1>1, <1>2, <1>3, TypesInvariance, PTL DEF Spec

-----------------------------------------------------------------------------
(* Drafts and the log.                                                     *)

\* Without crashes every draft is in the log, but for the one a job is about to log
\* and those of removed searches.
Logged ==
  ~MayCrash =>
    \A k \in Draft : stage[k] # "none" =>
      \/ k \in alerts
      \/ saved[k[1]].status = "removed"
      \/ \E j \in Job : job[j].pc = "drafted" /\ <<job[j].search, job[j].horizon>> = k

\* What has not been saved leaves no trace, and only a draft has a body.
Fresh ==
  /\ \A s \in Search : saved[s].status = "none" =>
       /\ saved[s] = NoRow
       /\ \A j \in Job : job[j].rows[s] = NoRow
       /\ \A d \in Days : stage[<<s, d>>] = "none"
  /\ \A k \in Draft : stage[k] = "none" => body[k] = [counted |-> {}, shown |-> {}]
  /\ \A j \in Job : Busy(job[j]) => job[j].rows[job[j].search].status = "active"

LogInv == Fresh /\ Logged

\* A step that makes no draft, unlogs none and lets go of no work in hand.
LEMMA StaysLogged ==
  ASSUME Logged,
         \A k \in Draft : stage'[k] # "none" => stage[k] # "none",
         \A k \in alerts : k \in alerts' \/ saved'[k[1]].status = "removed",
         \A s \in Search : saved[s].status = "removed" => saved'[s].status = "removed",
         ~MayCrash => \A j \in Job : job[j].pc = "drafted" =>
           \/ job'[j] = job[j]
           \/ <<job[j].search, job[j].horizon>> \in alerts'
  PROVE  Logged'
<1> SUFFICES ASSUME ~MayCrash, NEW k \in Draft, stage'[k] # "none",
                    k \notin alerts', saved'[k[1]].status # "removed"
             PROVE  \E j \in Job : job'[j].pc = "drafted" /\ <<job'[j].search, job'[j].horizon>> = k
  BY DEF Logged
<1>1. k \notin alerts /\ saved[k[1]].status # "removed" /\ stage[k] # "none"
  BY DraftNames
<1>2. PICK j \in Job : job[j].pc = "drafted" /\ <<job[j].search, job[j].horizon>> = k
  BY <1>1 DEF Logged
<1>3. job'[j] = job[j]
  BY <1>2
<1> QED BY <1>2, <1>3

\* A step that makes no draft, saves or un-saves nothing and takes up no search
\* but from a row that is there.
LEMMA StaysFresh ==
  ASSUME Fresh,
         UNCHANGED body,
         \A k \in Draft : stage'[k] = "none" <=> stage[k] = "none",
         \A s \in Search : saved'[s].status = "none" =>
           saved[s].status = "none" /\ saved'[s] = saved[s],
         \A j \in Job, s \in Search : saved'[s].status = "none" =>
           job'[j].rows[s] \in {job[j].rows[s], saved[s], NoRow},
         \A j \in Job : Busy(job'[j]) =>
           \/ job'[j].rows[job'[j].search].status = "active"
           \/ Busy(job[j]) /\ job'[j].search = job[j].search /\ job'[j].rows = job[j].rows
  PROVE  Fresh'
<1>1. ASSUME NEW s \in Search, saved'[s].status = "none"
      PROVE  /\ saved'[s] = NoRow
             /\ \A j \in Job : job'[j].rows[s] = NoRow
             /\ \A d \in Days : stage'[<<s, d>>] = "none"
  BY <1>1, DraftNames DEF Fresh
<1>2. ASSUME NEW k \in Draft, stage'[k] = "none" PROVE body'[k] = [counted |-> {}, shown |-> {}]
  BY <1>2 DEF Fresh
<1>3. ASSUME NEW j \in Job, Busy(job'[j]) PROVE job'[j].rows[job'[j].search].status = "active"
  BY <1>3 DEF Fresh
<1>4. \A j \in Job : Busy(job[j])' = Busy(job'[j])
  BY DEF Busy
<1> QED BY <1>1, <1>2, <1>3, <1>4 DEF Fresh

LEMMA SavingLogged ==
  ASSUME Types, LogInv, NEW s \in Search, Save(s) \/ Renew(s) \/ Lapse(s)
  PROVE  LogInv'
<1>1. saved \in [Search -> Row]
  BY DEF Types, Stores
<1>2. UNCHANGED <<journal, alerts, job>>
  BY DEF Save, Renew, Lapse
<1>3. /\ saved'[s].status \in {"active", "lapsed"} /\ saved[s].status # "removed"
      /\ \A x \in Search \ {s} : saved'[x] = saved[x]
  BY <1>1 DEF Save, Renew, Lapse, Row
<1>4. Logged'
  BY <1>2, <1>3, StaysLogged DEF LogInv, journal
<1>5. Fresh'
  BY <1>2, <1>3, StaysFresh DEF LogInv, journal
<1> QED BY <1>4, <1>5 DEF LogInv

LEMMA RemovalLogged ==
  ASSUME Types, LogInv, NEW t \in Target,
         IssueCode(t) \/ CodeLapses(t) \/ RemoveDrafts(t) \/ RemoveRows(t)
  PROVE  LogInv'
<1>1. saved \in [Search -> Row] /\ Gate!TypeOK /\ alerts \subseteq Draft
  BY DEF Types, Stores
<1>2. UNCHANGED <<body, job>>
  BY DEF IssueCode, CodeLapses, RemoveDrafts, RemoveRows, journal
<1>3. \A k \in Draft : stage'[k] = "none" <=> stage[k] = "none"
  <2>1. CASE RemoveDrafts(t)
    <3>1. PICK ds \in SUBSET Draft : Gate!Withdraw(ds)
      BY <2>1 DEF RemoveDrafts, Withdrawn
    <3> QED BY <1>1, <3>1, WithdrawMoves DEF StageMoves
  <2>2. CASE ~RemoveDrafts(t)
    BY <2>2 DEF IssueCode, CodeLapses, RemoveRows, journal
  <2> QED BY <2>1, <2>2
<1>4. /\ \A x \in Search : saved'[x] = saved[x] \/ saved'[x].status = "removed"
      /\ \A x \in Search : saved[x].status = "removed" => saved'[x].status = "removed"
      /\ \A k \in alerts : k \in alerts' \/ saved'[k[1]].status = "removed"
  <2>1. CASE UNCHANGED store
    BY <2>1 DEF store
  <2>2. CASE IssueCode(t) \/ CodeLapses(t)
    BY <2>2 DEF IssueCode, CodeLapses
  <2>3. CASE /\ saved' = [s \in Search |->
                           IF s \in Wanted(t) THEN [NoRow EXCEPT !.status = "removed"] ELSE saved[s]]
             /\ alerts' = {k \in alerts : k[1] \notin Wanted(t)}
    <3>1. [NoRow EXCEPT !.status = "removed"].status = "removed"
      BY DEF NoRow
    <3> HIDE DEF NoRow
    <3>2. \A k \in alerts : k[1] \in Search
      BY <1>1, DraftNames
    <3> QED BY <2>3, <3>1, <3>2
  <2> QED BY <2>1, <2>2, <2>3 DEF RemoveDrafts, RemoveRows
<1>5. Logged'
  BY <1>2, <1>3, <1>4, StaysLogged DEF LogInv
<1>6. Fresh'
  BY <1>2, <1>3, <1>4, StaysFresh DEF LogInv
<1> QED BY <1>5, <1>6 DEF LogInv

\* A job works on: it starts, or takes up a search, or goes on with it or leaves it.
WorksOn(j) ==
  /\ \A i \in Job \ {j} : job'[i] = job[i]
  /\ \/ Busy(job'[j]) /\ Busy(job[j]) /\ SameSearch(job'[j], job[j])
     \/ Busy(job'[j]) /\ ~Busy(job[j]) /\ job'[j].rows = job[j].rows
        /\ job'[j].rows[job'[j].search].status = "active"
     \/ ~Busy(job'[j]) /\ job'[j].rows \in {job[j].rows, saved, [s \in Search |-> NoRow]}

LEMMA JobWorksOn ==
  ASSUME Types, NEW j \in Job, JobStep(j)
  PROVE  WorksOn(j)
<1> DEFINE To(w) == Set(j, w) /\ w \in Works
<1>1. job \in [Job -> Works]
  BY DEF Types, Jobs
<1>2. ASSUME NEW w, To(w)
      PROVE  job'[j] = w /\ \A i \in Job \ {j} : job'[i] = job[i]
  BY <1>1, <1>2 DEF Set
<1>3. CASE \E r \in Search \cup {Nobody} : JobStart(j, r)
  <2>1. PICK w \in Works : Set(j, w) /\ w.pc = "ready" /\ w.rows = saved
    BY <1>3, StartSets
  <2> QED BY <1>2, <2>1 DEF WorksOn, Busy
<1>4. CASE \E s \in Search : JobTake(j, s)
  <2>1. PICK s \in Search : JobTake(j, s)
    BY <1>4
  <2>2. PICK w \in Works :
          /\ Set(j, w) /\ w.pc \in {"ready", "bound"} /\ w.rows = job[j].rows
          /\ w.pc = "bound" => w.search = s /\ w.rows[s].status = "active"
    BY <2>1, TakeTyped
  <2>3. job[j].pc = "ready"
    BY <2>1 DEF JobTake, At
  <2> QED BY <1>2, <2>2, <2>3 DEF WorksOn, Busy
<1>5. CASE JobMatch(j)
  BY <1>2, <1>5, MatchTyped DEF WorksOn, Busy, JobMatch, At, WorkOK
<1>6. CASE JobUnchecked(j)
  BY <1>2, <1>6, UncheckedTyped DEF WorksOn, Busy, JobUnchecked, At, WorkOK
<1>7. CASE JobDraft(j)
  BY <1>2, <1>7, DraftTyped DEF WorksOn, Busy, JobDraft, At, WorkOK
<1>8. CASE JobGiveUp(j) \/ JobNoDraft(j) \/ JobCommit(j) \/ JobEnd(j)
  <2>1. CASE Set(j, NextSearch(j))
    BY <1>1, <1>2, <2>1, NextSearchTyped DEF WorksOn
  <2>2. CASE Set(j, NoWork)
    BY <1>2, <2>2, NoWorkTyped DEF WorksOn
  <2> QED BY <1>8, <2>1, <2>2 DEF JobGiveUp, JobNoDraft, JobCommit, JobEnd
<1> QED BY <1>3, <1>4, <1>5, <1>6, <1>7, <1>8 DEF JobStep

LEMMA JobLogged ==
  ASSUME Types, LogInv, NEW j \in Job, JobStep(j)
  PROVE  LogInv'
<1>1. /\ saved \in [Search -> Row] /\ job \in [Job -> Works]
      /\ WorkOK(job[j]) /\ Gate!TypeOK /\ alerts \subseteq Draft
      /\ body \in [Draft -> [counted : SUBSET Listing, shown : SUBSET Listing]]
  BY DEF Types, Stores, Jobs
<1>2. WorksOn(j)
  BY JobWorksOn
<1>3. \A s \in Search : saved'[s].status = saved[s].status
      /\ (saved'[s] = saved[s] \/ saved[s].status # "none")
  <2>1. CASE UNCHANGED saved
    BY <2>1
  <2>2. CASE saved' = Committed(j) /\ job[j].pc \in {"read", "drafted"}
             /\ Cardinality(NewKeys(j)) <= KeyCap
    <3>1. job[j].search \in Search /\ Busy(job[j])
      BY <1>1, <2>2 DEF WorkOK, Busy
    <3>2. saved[job[j].search].status # "none"
      <4>1. NoRow.status # "active"
        BY DEF NoRow
      <4> QED BY <3>1, <4>1 DEF LogInv, Fresh
    <3> QED BY <2>2, <3>1, <3>2, CommittedTyped
  <2>3. Cardinality(KeysOf(job[j])) = Cardinality(NewKeys(j))
    BY Views
  <2> QED BY <1>1, <2>1, <2>2, <2>3
          DEF JobStep, JobStart, JobTake, JobMatch, JobUnchecked, JobGiveUp, JobNoDraft, JobDraft,
              JobCommit, JobEnd, store, At, WorkOK
<1>4. CASE ~JobDraft(j)
  <2>1. UNCHANGED journal
    BY <1>4 DEF JobStep, JobStart, JobTake, JobMatch, JobUnchecked, JobGiveUp, JobNoDraft,
                JobCommit, JobEnd
  <2>2. Fresh'
    <3>1. \A s \in Search : saved'[s].status = "none" =>
            saved[s].status = "none" /\ saved'[s] = saved[s]
      BY <1>3
    <3>2. \A i \in Job, s \in Search : job'[i].rows[s] \in {job[i].rows[s], saved[s], NoRow}
      BY <1>2 DEF WorksOn, SameSearch
    <3>3. \A i \in Job : Busy(job'[i]) =>
            \/ job'[i].rows[job'[i].search].status = "active"
            \/ Busy(job[i]) /\ job'[i].search = job[i].search /\ job'[i].rows = job[i].rows
      BY <1>2 DEF WorksOn, SameSearch
    <3> QED BY <2>1, <3>1, <3>2, <3>3, StaysFresh DEF LogInv, journal
  <2>3. Logged'
    <3>1. /\ \A i \in Job \ {j} : job'[i] = job[i]
          /\ alerts \subseteq alerts'
      BY <1>2 DEF WorksOn, JobStep, JobStart, JobTake, JobMatch, JobUnchecked, JobGiveUp, JobNoDraft,
                  JobDraft, JobCommit, JobEnd, store
    <3>2. ASSUME ~MayCrash, job[j].pc = "drafted"
          PROVE  <<job[j].search, job[j].horizon>> \in alerts'
      BY <1>4, <3>2, Views
      DEF JobStep, JobStart, JobTake, JobMatch, JobUnchecked, JobGiveUp, JobNoDraft,
          JobCommit, JobEnd, At
    <3> QED BY <1>1, <1>3, <2>1, <3>1, <3>2, DraftNames, StaysLogged DEF LogInv, journal
  <2> QED BY <2>2, <2>3 DEF LogInv
<1>5. CASE JobDraft(j)
  <2> DEFINE k == Name(j)
  <2>1. /\ k \in Draft /\ k = <<job[j].search, job[j].horizon>> /\ Stored(job[j].search)
        /\ job[j].search \in Search /\ UNCHANGED store
        /\ job'[j].pc = "drafted" /\ <<job'[j].search, job'[j].horizon>> = k
        /\ job[j].pc = "read"
    <3>1. job[j].pc = "read" /\ job'[j] = [job[j] EXCEPT !.pc = "drafted"]
      BY <1>1, <1>5 DEF JobDraft, Set, At
    <3>2. /\ job'[j].pc = "drafted" /\ job'[j].search = job[j].search
          /\ job'[j].horizon = job[j].horizon
      BY <1>1, <3>1 DEF Works
    <3> QED BY <1>1, <1>5, <3>1, <3>2, DraftTyped, Views DEF JobDraft, Decision, WorkOK, Busy
  <2> HIDE DEF k
  <2>2. /\ \A m \in Draft \ {k} : stage'[m] = stage[m] /\ body'[m] = body[m]
        /\ stage'[k] # "none"
    <3>1. CASE Gate!Propose(k)
               /\ body' = [body EXCEPT ![k] = [counted |-> job[j].matches, shown |-> Shown(j)]]
      BY <1>1, <2>1, <3>1 DEF Gate!Propose, Gate!Advance, Gate!TypeOK
    <3>2. CASE stage[k] # "none" /\ UNCHANGED journal
      BY <3>2 DEF journal
    <3> QED BY <1>5, <3>1, <3>2 DEF JobDraft, k
  <2>3. Fresh'
    <3>1. ASSUME NEW s \in Search, saved'[s].status = "none"
          PROVE  /\ saved'[s] = NoRow
                 /\ \A i \in Job : job'[i].rows[s] = NoRow
                 /\ \A d \in Days : stage'[<<s, d>>] = "none"
      <4>1. UNCHANGED saved /\ s # job[j].search
        BY <2>1, <3>1 DEF store, Stored
      <4>2. \A i \in Job : job'[i].rows[s] \in {job[i].rows[s], saved[s], NoRow}
        BY <1>2 DEF WorksOn, SameSearch
      <4> QED BY <2>1, <2>2, <3>1, <4>1, <4>2, DraftNames DEF LogInv, Fresh
    <3>2. ASSUME NEW m \in Draft, stage'[m] = "none"
          PROVE  body'[m] = [counted |-> {}, shown |-> {}]
      BY <2>2, <3>2 DEF LogInv, Fresh
    <3>3. ASSUME NEW i \in Job, Busy(job'[i])
          PROVE  job'[i].rows[job'[i].search].status = "active"
      BY <1>2, <3>3 DEF WorksOn, SameSearch, LogInv, Fresh
    <3>4. \A i \in Job : Busy(job[i])' = Busy(job'[i])
      BY DEF Busy
    <3> QED BY <3>1, <3>2, <3>3, <3>4 DEF Fresh
  <2>4. Logged'
    <3>1. ASSUME ~MayCrash, NEW m \in Draft, stage'[m] # "none",
                 m \notin alerts, saved[m[1]].status # "removed"
          PROVE  \E i \in Job : job'[i].pc = "drafted" /\ <<job'[i].search, job'[i].horizon>> = m
      <4>1. CASE m = k
        BY <2>1, <4>1
      <4>2. CASE m # k
        <5>1. PICK i \in Job : job[i].pc = "drafted" /\ <<job[i].search, job[i].horizon>> = m
          BY <2>2, <3>1, <4>2 DEF LogInv, Logged
        <5>2. job'[i] = job[i]
          BY <1>2, <2>1, <5>1 DEF WorksOn
        <5> QED BY <5>1, <5>2
      <4> QED BY <4>1, <4>2
    <3> QED BY <2>1, <3>1 DEF Logged, store
  <2> QED BY <2>3, <2>4 DEF LogInv
<1> QED BY <1>4, <1>5

LEMMA SurroundingsLogged ==
  ASSUME Types, LogInv, Surroundings
  PROVE  LogInv'
<1>1. UNCHANGED <<store, body, job>>
  BY DEF Surroundings, Operator, Tick, ServerRestart, Rebuild, Edit, journal
<1>2. \A k \in Draft : stage'[k] = "none" <=> stage[k] = "none"
  <2>1. CASE Operator
    BY <2>1, OperatorMoves DEF Types, Stores, StageMoves
  <2>2. CASE UNCHANGED journal
    BY <2>2 DEF journal
  <2> QED BY <2>1, <2>2 DEF Surroundings, Tick, ServerRestart, Rebuild, Edit
<1>3. Logged'
  BY <1>1, <1>2, StaysLogged DEF LogInv, store
<1>4. Fresh'
  BY <1>1, <1>2, StaysFresh DEF LogInv, store
<1> QED BY <1>3, <1>4 DEF LogInv

LEMMA LogInit ==
  ASSUME Init
  PROVE  LogInv
<1>1. saved = [s \in Search |-> NoRow] /\ job = [j \in Job |-> NoWork]
      /\ stage = [k \in Draft |-> "none"] /\ body = [k \in Draft |-> [counted |-> {}, shown |-> {}]]
  BY DEF Init, Gate!Init
<1> QED BY <1>1, NoWorkTyped, DraftNames DEF LogInv, Fresh, Logged

LEMMA LogNext ==
  ASSUME Types, LogInv, [Next]_vars
  PROVE  LogInv'
<1>1. CASE UNCHANGED vars
  <2>1. UNCHANGED <<journal, store, job>>
    BY <1>1 DEF vars
  <2>2. Logged' /\ Fresh'
    BY <2>1, StaysLogged, StaysFresh DEF LogInv, journal, store
  <2> QED BY <2>2 DEF LogInv
<1> QED BY <1>1, NextSteps, SavingLogged, RemovalLogged, JobLogged, SurroundingsLogged

-----------------------------------------------------------------------------
(* No listing is passed over.                                              *)

Asks(s, l) == s \in Featured => l \in HasFeatures
Covered(s, l) == \E d \in Days : l \in body[<<s, d>>].counted

\* The day after which the search answers for listings: never before its promise,
\* nor before a day that a renewal would take for granted.
Low(s) == Min2(saved[s].since, SaveHorizon(s))

\* What a row says is done was in a draft: the keys it has, and every listing the
\* search asks for up to its checked day.
RowCovered(s, row) ==
  \A l \in Listing :
    /\ Day[l] > Low(s)
    /\ l \in row.keys \/ (Asks(s, l) /\ Day[l] <= row.checked)
    => Covered(s, l)

\* A feature search is read from a snapshot that a rebuild replaces, so a crash
\* after create_draft may leave a draft that lacks what the next run would show.
Safe(s) == s \notin Featured \/ ~MayCrash

RowsCovered ==
  \A s \in Search : Safe(s) /\ Stored(s) =>
    RowCovered(s, saved[s]) /\ \A j \in Job : RowCovered(s, job[j].rows[s])

\* A draft of a search without features has its whole window.
DraftsWhole ==
  \A s \in Search, d \in Days :
    s \notin Featured /\ Stored(s) /\ stage[<<s, d>>] # "none" =>
      \A l \in Listing : Day[l] > Low(s) /\ Day[l] <= d => Covered(s, l)

\* What a job in its transaction is about to commit is in a draft.
DraftedCovered ==
  \A j \in Job :
    /\ job[j].pc = "drafted" /\ Safe(job[j].search) /\ Stored(job[j].search)
    => \A l \in job[j].matches : Day[l] > Low(job[j].search) => Covered(job[j].search, l)

InWindowOf(w, l) ==
  Day[l] \in (w.rows[w.search].checked + 1)..w.horizon /\ l \notin w.rows[w.search].keys

\* What a job has found is all of its window, but for the listings the snapshot
\* cannot speak for, and those start at its first unchecked day.
WindowOK(w) ==
  w.pc \in {"matched", "read", "drafted"} =>
    /\ \A l \in w.matches : Day[l] <= w.horizon
    /\ \A l \in Listing \ w.matches :
         Asks(w.search, l) /\ InWindowOf(w, l) =>
           /\ w.search \in Featured
           /\ IF w.pc = "matched" THEN edited[l] >= w.mark
              ELSE w.first # 0 /\ w.first <= Day[l]

Windows == \A j \in Job : WindowOK(job[j])

CoverInv == RowsCovered /\ DraftsWhole /\ DraftedCovered /\ Windows

LEMMA LowTyped ==
  ASSUME Stores, NEW s \in Search
  PROVE  Low(s) \in Nat /\ Low(s) <= saved[s].since /\ Low(s) <= SaveHorizon(s)
BY HorizonTyped, ConstantsAssumption DEF Stores, Row, Low, Min2, Days

LEMMA LowTypedNext ==
  ASSUME Stores', NEW s \in Search
  PROVE  Low(s)' \in Nat
BY ConstantsAssumption DEF Stores, Row, Low, Min2, Days, SaveHorizon

LEMMA ListingDays ==
  ASSUME NEW l \in Listing
  PROVE  l \in Nat /\ Day[l] \in Nat /\ Day[l] > 0
BY ConstantsAssumption

\* What the search answers for never reaches further back: no clock turns back,
\* and the promise moves on only with a renewal.
LEMMA LowGrows ==
  ASSUME Stores, Stores', NEW s \in Search, cached <= cached', built.day <= built'.day,
         saved'[s].since = saved[s].since \/ saved'[s].since >= SaveHorizon(s)
  PROVE  Low(s) <= Low(s)'
<1>1. cached \in Nat /\ cached' \in Nat /\ built.day \in Nat /\ built'.day \in Nat
      /\ saved[s].since \in Nat /\ saved'[s].since \in Nat
  BY ConstantsAssumption DEF Stores, Days, Row
<1> QED BY <1>1 DEF Low, Min2, SaveHorizon

\* Rows stay covered while drafts keep what they count and jobs read only rows of
\* the table; the row of a search just saved promises nothing yet.
LEMMA RowsStay ==
  ASSUME Types, Types', LogInv, CoverInv,
         \A s \in Search : Stored(s)' => saved[s].status = "none" \/ (Stored(s) /\ Low(s) <= Low(s)'),
         \A s \in Search : \A l \in Listing : Covered(s, l) => Covered(s, l)',
         \A s \in Search : Safe(s) /\ Stored(s)' => RowCovered(s, saved[s])',
         \A j \in Job, s \in Search : job'[j].rows[s] \in {job[j].rows[s], saved[s], NoRow}
  PROVE  RowsCovered'
<1> SUFFICES ASSUME NEW s \in Search, Safe(s), Stored(s)', NEW j \in Job
             PROVE  RowCovered(s, job[j].rows[s])'
  BY DEF RowsCovered, Safe
<1>1. Low(s) \in Nat /\ Low(s)' \in Nat
  BY LowTyped, LowTypedNext DEF Types
<1>2. ASSUME NEW l \in Listing, job'[j].rows[s] = NoRow
      PROVE  l \notin NoRow.keys /\ ~(Day[l] <= NoRow.checked)
  BY ListingDays DEF NoRow
<1>3. CASE job'[j].rows[s] = NoRow
  BY <1>2, <1>3 DEF RowCovered
<1>4. CASE saved[s].status = "none"
  BY <1>3, <1>4 DEF LogInv, Fresh
<1>5. CASE Stored(s) /\ Low(s) <= Low(s)' /\ job'[j].rows[s] \in {job[j].rows[s], saved[s]}
  <2>1. RowCovered(s, job[j].rows[s]) /\ RowCovered(s, saved[s])
    BY <1>5 DEF CoverInv, RowsCovered
  <2>2. ASSUME NEW l \in Listing, Day[l] > Low(s)',
               l \in job'[j].rows[s].keys \/ (Asks(s, l) /\ Day[l] <= job'[j].rows[s].checked)
        PROVE  Covered(s, l)'
    <3>1. Day[l] > Low(s)
      BY <1>1, <1>5, <2>2, ListingDays
    <3> QED BY <1>5, <2>1, <2>2, <3>1 DEF RowCovered
  <2> QED BY <2>2 DEF RowCovered, Asks
<1> QED BY <1>3, <1>4, <1>5

LEMMA DraftsStay ==
  ASSUME Types, Types', LogInv, CoverInv,
         \A s \in Search : Stored(s)' => saved[s].status = "none" \/ (Stored(s) /\ Low(s) <= Low(s)'),
         \A s \in Search : \A l \in Listing : Covered(s, l) => Covered(s, l)',
         \A k \in Draft : stage'[k] # "none" => stage[k] # "none",
         \A j \in Job : job'[j].pc = "drafted" => job'[j] = job[j]
  PROVE  DraftsWhole' /\ DraftedCovered'
<1>1. \A s \in Search : Low(s) \in Nat /\ Low(s)' \in Nat
  BY LowTyped, LowTypedNext DEF Types
<1>2. ASSUME NEW s \in Search, NEW d \in Days, s \notin Featured, Stored(s)', stage'[<<s, d>>] # "none",
             NEW l \in Listing, Day[l] > Low(s)', Day[l] <= d
      PROVE  Covered(s, l)'
  <2>1. stage[<<s, d>>] # "none"
    BY <1>2, DraftNames
  <2>2. Stored(s) /\ Low(s) <= Low(s)'
    BY <1>2, <2>1 DEF LogInv, Fresh
  <2>3. Day[l] > Low(s)
    BY <1>1, <1>2, <2>2, ListingDays
  <2> QED BY <1>2, <2>1, <2>2, <2>3 DEF CoverInv, DraftsWhole
<1>3. ASSUME NEW j \in Job, job'[j].pc = "drafted", Safe(job'[j].search), Stored(job[j].search)',
             NEW l \in job'[j].matches, Day[l] > Low(job[j].search)'
      PROVE  Covered(job[j].search, l)'
  <2>1. job'[j] = job[j]
    BY <1>3
  <2>2. job[j].search \in Search /\ Busy(job[j]) /\ l \in Listing
    BY <1>3, <2>1 DEF Types, Jobs, WorkOK, Busy, Works
  <2>3. PICK s \in Search : s = job[j].search
    BY <2>2
  <2>4. saved[s].status # "none"
    <3>1. NoRow.status # "active"
      BY DEF NoRow
    <3> QED BY <2>2, <2>3, <3>1 DEF LogInv, Fresh
  <2>5. Stored(s)' /\ Day[l] > Low(s)'
    BY <1>3, <2>1, <2>3
  <2>6. Stored(s) /\ Day[l] > Low(s)
    BY <1>1, <2>2, <2>4, <2>5, ListingDays
  <2>7. Covered(s, l)'
    BY <1>3, <2>1, <2>2, <2>3, <2>6 DEF CoverInv, DraftedCovered
  <2> QED BY <2>1, <2>3, <2>7
<1> QED BY <1>2, <1>3 DEF DraftsWhole, DraftedCovered, Safe

\* A window stays whole: listings only change under the current build, which no
\* job's snapshot is ahead of.
LEMMA WindowsStay ==
  ASSUME Types, Windows,
         \A j \in Job : job'[j] = job[j] \/ job'[j].pc \notin {"matched", "read", "drafted"},
         \A l \in Listing : edited'[l] = edited[l] \/ edited'[l] = built.no
  PROVE  Windows'
<1> SUFFICES ASSUME NEW j \in Job PROVE WindowOK(job[j])'
  BY DEF Windows
<1>1. CASE job'[j].pc \notin {"matched", "read", "drafted"}
  BY <1>1 DEF WindowOK
<1>2. CASE job'[j] = job[j] /\ job[j].pc \in {"matched", "read", "drafted"}
  <2>1. WindowOK(job[j]) /\ job[j].mark <= built.no
    BY <1>2 DEF Types, Jobs, WorkOK, Busy, Windows
  <2>2. \A l \in Listing : edited[l] >= job[j].mark => edited'[l] >= job[j].mark
    BY <2>1
  <2> QED BY <1>2, <2>1, <2>2 DEF WindowOK, Asks, InWindowOf
<1> QED BY <1>1, <1>2

LEMMA WindowViews ==
  ASSUME NEW j \in Job, NEW l \in Listing
  PROVE  /\ InWindow(j, l) <=> InWindowOf(job[j], l)
         /\ Changed(j, l) <=> edited[l] >= job[j].mark
BY DEF InWindow, InWindowOf, Known, Changed

LEMMA JobWindows ==
  ASSUME Types, Windows, NEW j \in Job, JobStep(j)
  PROVE  Windows'
<1>1. UNCHANGED edited /\ job \in [Job -> Works]
  BY DEF JobStep, JobStart, JobTake, JobMatch, JobUnchecked, JobGiveUp, JobNoDraft, JobDraft,
         JobCommit, JobEnd, mls, Types, Jobs
<1>2. \A i \in Job \ {j} : job'[i] = job[i]
  BY JobWorksOn DEF WorksOn
<1>3. ASSUME WindowOK(job[j])' PROVE Windows'
  BY <1>1, <1>2, <1>3 DEF Windows, WindowOK, Asks, InWindowOf
<1>4. ASSUME NEW w \in Works, Set(j, w) PROVE job'[j] = w
  BY <1>1, <1>4 DEF Set
<1>5. CASE JobMatch(j)
  <2>1. PICK w \in Works : /\ job'[j] = w /\ w.pc = "matched" /\ SameSearch(w, job[j])
                           /\ w.matches = Matches(j)
    BY <1>4, <1>5, MatchTyped DEF WorkOK
  <2>2. \A l \in Matches(j) : Day[l] <= job[j].horizon
    <3>1. job[j].rows[job[j].search].checked \in Nat /\ job[j].horizon \in Nat
      BY <1>1, <1>5, ConstantsAssumption
      DEF Types, Jobs, WorkOK, Busy, JobMatch, At, Works, Row, Days
    <3> QED BY <3>1, ListingDays DEF Matches, InWindow, Known
  <2>3. ASSUME NEW l \in Listing \ Matches(j), Asks(job[j].search, l), InWindowOf(job[j], l)
        PROVE  job[j].search \in Featured /\ edited[l] >= job[j].mark
    <3>1. InWindow(j, l) /\ (Changed(j, l) <=> edited[l] >= job[j].mark)
      BY <2>3, WindowViews
    <3>2. Day[l] <= job[j].horizon
      <4>1. job[j].rows[job[j].search].checked \in Nat /\ job[j].horizon \in Nat
        BY <1>1, <1>5, ConstantsAssumption
        DEF Types, Jobs, WorkOK, Busy, JobMatch, At, Works, Row, Days
      <4> QED BY <4>1, <3>1, ListingDays DEF InWindow, Known
    <3> QED BY <2>3, <3>1, <3>2 DEF Matches, Asks
  <2> QED BY <1>1, <1>3, <2>1, <2>2, <2>3 DEF WindowOK, SameSearch, Asks, InWindowOf
<1>6. CASE JobUnchecked(j)
  <2>1. PICK w \in Works : /\ job'[j] = w /\ w.pc = "read" /\ SameSearch(w, job[j])
                           /\ w.matches = job[j].matches /\ w.first = First(j)
    BY <1>4, <1>6, UncheckedTyped DEF WorkOK
  <2>2. WindowOK(job[j]) /\ job[j].pc = "matched" /\ job[j] \in Works
    BY <1>1, <1>6 DEF Windows, JobUnchecked, At
  <2>3. ASSUME NEW l \in Listing \ job[j].matches, Asks(job[j].search, l), InWindowOf(job[j], l)
        PROVE  job[j].search \in Featured /\ First(j) # 0 /\ First(j) <= Day[l]
    <3>1. job[j].search \in Featured /\ edited[l] >= job[j].mark
      BY <2>2, <2>3 DEF WindowOK
    <3>2. l \in Unchecked(j)
      BY <2>3, <3>1, WindowViews DEF Unchecked
    <3> QED BY <2>2, <3>1, <3>2, FirstIsFirst
  <2> QED BY <1>1, <1>3, <2>1, <2>2, <2>3 DEF WindowOK, SameSearch, Asks, InWindowOf
<1>7. CASE JobDraft(j)
  <2>1. PICK w \in Works : /\ job'[j] = w /\ w.pc = "drafted" /\ SameSearch(w, job[j])
                           /\ w.matches = job[j].matches /\ w.first = job[j].first
    BY <1>4, <1>7, DraftTyped DEF WorkOK
  <2>2. WindowOK(job[j]) /\ job[j].pc = "read"
    BY <1>7 DEF Windows, JobDraft, At
  <2> QED BY <1>1, <1>3, <2>1, <2>2 DEF WindowOK, SameSearch, Asks, InWindowOf
<1>8. CASE ~(JobMatch(j) \/ JobUnchecked(j) \/ JobDraft(j))
  <2>1. job'[j].pc \notin {"matched", "read", "drafted"}
    <3>1. CASE \E r \in Search \cup {Nobody} : JobStart(j, r)
      BY <1>4, <3>1, StartSets
    <3>2. CASE \E s \in Search : JobTake(j, s)
      BY <1>4, <3>2, TakeTyped
    <3>3. CASE Set(j, NextSearch(j)) \/ Set(j, NoWork)
      BY <1>1, <1>4, <3>3, NextSearchTyped, NoWorkTyped
    <3> QED BY <1>8, <3>1, <3>2, <3>3 DEF JobStep, JobGiveUp, JobNoDraft, JobCommit, JobEnd
  <2> QED BY <1>3, <2>1 DEF WindowOK
<1> QED BY <1>5, <1>6, <1>7, <1>8

\* The heart of it: what a job's update makes the row say is done was in a draft.
LEMMA CommitCovers ==
  ASSUME Types, RowsCovered, Windows, NEW j \in Job, job[j].pc \in {"read", "drafted"},
         NEW s \in Search, s = job[j].search, Safe(s), Stored(s),
         \A l \in job[j].matches : Day[l] > Low(s) => Covered(s, l),
         NEW l \in Listing, Day[l] > Low(s),
         l \in KeysOf(job[j]) \/ (Asks(s, l) /\ Day[l] <= EndOf(job[j]))
  PROVE  Covered(s, l)
<1> DEFINE w == job[j]
<1>1. /\ w \in Works /\ w.first <= w.horizon /\ WindowOK(w)
      /\ RowCovered(s, w.rows[s])
  BY DEF Types, Jobs, WorkOK, Busy, Windows, RowsCovered
<1>2. CASE l \in w.matches
  BY <1>2
<1>3. CASE l \in w.rows[s].keys
  BY <1>1, <1>3 DEF RowCovered
<1>4. CASE Asks(s, l) /\ Day[l] <= EndOf(w) /\ l \notin w.matches /\ l \notin w.rows[s].keys
  <2>1. w.rows[s].checked \in Nat /\ w.horizon \in Nat /\ w.first \in Nat
    BY <1>1, ConstantsAssumption DEF Works, Row, Days
  <2>2. Day[l] <= w.horizon /\ (w.first # 0 => Day[l] < w.first)
    BY <1>1, <1>4, <2>1, ListingDays DEF EndOf
  <2>3. ~InWindowOf(w, l)
    BY <1>1, <1>4, <2>1, <2>2, ListingDays DEF WindowOK
  <2>4. Day[l] <= w.rows[s].checked
    BY <1>4, <2>1, <2>2, <2>3, ListingDays DEF InWindowOf
  <2> QED BY <1>1, <1>4, <2>4 DEF RowCovered
<1> QED BY <1>2, <1>3, <1>4 DEF KeysOf, ShownOf

LEMMA SavingCovers ==
  ASSUME Types, Types', LogInv, CoverInv, NEW s \in Search, Save(s) \/ Renew(s) \/ Lapse(s)
  PROVE  CoverInv'
<1>1. saved \in [Search -> Row] /\ saved' \in [Search -> Row] /\ Stores /\ Stores'
  BY DEF Types, Stores
<1>2. UNCHANGED <<journal, job, mls>>
  BY DEF Save, Renew, Lapse
<1>3. \A x \in Search \ {s} : saved'[x] = saved[x]
  BY <1>1 DEF Save, Renew, Lapse
<1>4. \A x \in Search : SaveHorizon(x)' = SaveHorizon(x) /\ SaveHorizon(x) \in Nat
  BY <1>1, <1>2, HorizonTyped, ConstantsAssumption DEF SaveHorizon, mls, Days
<1>5. saved[s].status # "none" =>
        saved'[s].since = saved[s].since \/ saved'[s].since >= SaveHorizon(s)
  BY <1>1, <1>4, ConstantsAssumption DEF Save, Renew, Lapse, Max2, Row, Days
<1>6. \A x \in Search : Stored(x)' => saved[x].status = "none" \/ (Stored(x) /\ Low(x) <= Low(x)')
  <2>1. cached <= cached' /\ built.day <= built'.day
    BY <1>1, <1>2, ConstantsAssumption DEF Stores, mls, Days
  <2>2. \A x \in Search : saved[x].status # "none" => Low(x) <= Low(x)'
    BY <1>1, <1>3, <1>5, <2>1, LowGrows
  <2>3. \A x \in Search : Stored(x)' => saved[x].status = "none" \/ Stored(x)
    BY <1>1, <1>3 DEF Save, Renew, Lapse, Stored, Row
  <2> QED BY <2>2, <2>3
<1>7. \A x \in Search : \A l \in Listing : Covered(x, l) => Covered(x, l)'
  BY <1>2 DEF Covered, journal
<1>8. ASSUME NEW x \in Search, Safe(x), Stored(x)' PROVE RowCovered(x, saved[x])'
  <2>1. Low(x) \in Nat /\ Low(x)' \in Nat
    BY <1>1, LowTyped, LowTypedNext
  <2>2. CASE Stored(x) /\ saved'[x].keys = saved[x].keys /\ saved'[x].checked = saved[x].checked
    <3>1. RowCovered(x, saved[x]) /\ Low(x) <= Low(x)'
      BY <1>6, <1>8, <2>2 DEF CoverInv, RowsCovered, Stored
    <3>2. ASSUME NEW l \in Listing, Day[l] > Low(x)',
                 l \in saved[x].keys \/ (Asks(x, l) /\ Day[l] <= saved[x].checked)
          PROVE  Covered(x, l)'
      <4>1. Day[l] > Low(x)
        BY <2>1, <3>1, <3>2, ListingDays
      <4> QED BY <1>7, <3>1, <3>2, <4>1 DEF RowCovered
    <3> QED BY <2>2, <3>2 DEF RowCovered, Asks
  <2>3. CASE x = s /\ Save(s)
    <3>1. saved'[s].keys = {} /\ saved'[s].checked = SaveHorizon(s) /\ Low(s)' = SaveHorizon(s)
      BY <1>1, <1>4, <2>3 DEF Save, Low, Min2
    <3> QED BY <2>3, <3>1, <1>4, ListingDays DEF RowCovered
  <2>4. CASE x = s /\ Renew(s)
    <3>1. /\ saved'[s].keys = saved[s].keys /\ Stored(s)
          /\ saved'[s].checked \in {saved[s].checked, SaveHorizon(s)}
      BY <1>1, <2>4 DEF Renew, Stored, Max2, Row
    <3>2. Low(s)' = SaveHorizon(s) /\ Low(s) <= SaveHorizon(s)
      <4>1. saved'[s].since >= SaveHorizon(s) /\ saved'[s].since \in Nat
        BY <1>1, <1>4, <2>4, ConstantsAssumption DEF Renew, Max2, Row, Days
      <4> QED BY <1>1, <1>4, <4>1, LowTyped DEF Low, Min2
    <3>3. RowCovered(s, saved[s])
      BY <1>8, <2>4, <3>1 DEF CoverInv, RowsCovered
    <3>4. ASSUME NEW l \in Listing, Day[l] > Low(s)',
                 l \in saved'[s].keys \/ (Asks(s, l) /\ Day[l] <= saved'[s].checked)
          PROVE  Covered(s, l)'
      <4>1. Day[l] > Low(s) /\ ~(Day[l] <= SaveHorizon(s))
        BY <1>4, <2>1, <2>4, <3>2, <3>4, ListingDays
      <4> QED BY <1>7, <3>1, <3>3, <3>4, <4>1 DEF RowCovered
    <3> QED BY <2>4, <3>4 DEF RowCovered, Asks
  <2>5. \/ x = s /\ (Save(s) \/ Renew(s))
        \/ (Stored(x) /\ saved'[x].keys = saved[x].keys /\ saved'[x].checked = saved[x].checked)
    BY <1>1, <1>3, <1>8 DEF Lapse, Stored, Row
  <2> QED BY <2>2, <2>3, <2>4, <2>5
<1>9. RowsCovered'
  BY <1>2, <1>6, <1>7, <1>8, RowsStay
<1>10. DraftsWhole' /\ DraftedCovered'
  BY <1>2, <1>6, <1>7, DraftsStay DEF journal
<1>11. Windows'
  BY <1>2, WindowsStay DEF mls, CoverInv
<1> QED BY <1>9, <1>10, <1>11 DEF CoverInv

\* A step that leaves the rows of stored searches, the jobs and the bodies alone.
LEMMA RestCovers ==
  ASSUME Types, Types', LogInv, CoverInv,
         UNCHANGED <<body, job>>,
         \A k \in Draft : stage'[k] # "none" => stage[k] # "none",
         \A s \in Search : Stored(s)' => saved'[s] = saved[s],
         cached <= cached', built.day <= built'.day,
         \A l \in Listing : edited'[l] = edited[l] \/ edited'[l] = built.no
  PROVE  CoverInv'
<1>1. \A s \in Search : Stored(s)' => Stored(s) /\ Low(s) <= Low(s)'
  BY LowGrows DEF Stored, Types
<1>2. \A s \in Search : \A l \in Listing : Covered(s, l) => Covered(s, l)'
  BY DEF Covered
<1>3. ASSUME NEW s \in Search, Safe(s), Stored(s)' PROVE RowCovered(s, saved[s])'
  <2>1. /\ saved'[s] = saved[s] /\ Low(s) <= Low(s)' /\ Low(s) \in Nat /\ Low(s)' \in Nat
        /\ RowCovered(s, saved[s])
    BY <1>1, <1>3, LowTyped, LowTypedNext DEF Types, CoverInv, RowsCovered
  <2>2. ASSUME NEW l \in Listing, Day[l] > Low(s)',
               l \in saved[s].keys \/ (Asks(s, l) /\ Day[l] <= saved[s].checked)
        PROVE  Covered(s, l)'
    <3>1. Day[l] > Low(s)
      BY <2>1, <2>2, ListingDays
    <3> QED BY <1>2, <2>1, <2>2, <3>1 DEF RowCovered
  <2> QED BY <2>1, <2>2 DEF RowCovered, Asks
<1>4. RowsCovered'
  BY <1>1, <1>2, <1>3, RowsStay
<1>5. DraftsWhole' /\ DraftedCovered'
  BY <1>1, <1>2, DraftsStay
<1>6. Windows'
  BY WindowsStay DEF CoverInv
<1> QED BY <1>4, <1>5, <1>6 DEF CoverInv

LEMMA RemovalCovers ==
  ASSUME Types, Types', LogInv, CoverInv, NEW t \in Target,
         IssueCode(t) \/ CodeLapses(t) \/ RemoveDrafts(t) \/ RemoveRows(t)
  PROVE  CoverInv'
<1>1. UNCHANGED <<body, job, mls>>
  BY DEF IssueCode, CodeLapses, RemoveDrafts, RemoveRows, journal
<1>2. \A k \in Draft : stage'[k] # "none" => stage[k] # "none"
  <2>1. CASE RemoveDrafts(t)
    <3>1. PICK ds \in SUBSET Draft : Gate!Withdraw(ds)
      BY <2>1 DEF RemoveDrafts, Withdrawn
    <3> QED BY <3>1, WithdrawMoves DEF StageMoves, Types, Stores
  <2>2. CASE ~RemoveDrafts(t)
    BY <2>2 DEF IssueCode, CodeLapses, RemoveRows, journal
  <2> QED BY <2>1, <2>2
<1>3. \A s \in Search : Stored(s)' => saved'[s] = saved[s]
  <2>1. CASE UNCHANGED saved
    BY <2>1
  <2>2. CASE saved' = [s \in Search |->
                        IF s \in Wanted(t) THEN [NoRow EXCEPT !.status = "removed"] ELSE saved[s]]
    <3>1. [NoRow EXCEPT !.status = "removed"].status = "removed"
      BY DEF NoRow
    <3> HIDE DEF NoRow
    <3> QED BY <2>2, <3>1 DEF Stored
  <2> QED BY <2>1, <2>2 DEF IssueCode, CodeLapses, RemoveDrafts, RemoveRows, store
<1>4. cached <= cached' /\ built.day <= built'.day
  BY <1>1, ConstantsAssumption DEF Types, Stores, mls, Days
<1> QED BY <1>1, <1>2, <1>3, <1>4, RestCovers DEF mls

LEMMA SurroundingsCover ==
  ASSUME Types, Types', LogInv, CoverInv, Surroundings
  PROVE  CoverInv'
<1>1. UNCHANGED <<store, body, job>>
  BY DEF Surroundings, Operator, Tick, ServerRestart, Rebuild, Edit, journal
<1>2. \A k \in Draft : stage'[k] # "none" => stage[k] # "none"
  <2>1. CASE Operator
    BY <2>1, OperatorMoves DEF Types, Stores, StageMoves
  <2>2. CASE UNCHANGED journal
    BY <2>2 DEF journal
  <2> QED BY <2>1, <2>2 DEF Surroundings, Tick, ServerRestart, Rebuild, Edit
<1>3. cached <= cached' /\ built.day <= built'.day
  BY ConstantsAssumption
  DEF Types, Stores, Days, Surroundings, Operator, Tick, ServerRestart, Rebuild, Edit, mls
<1>4. \A l \in Listing : edited'[l] = edited[l] \/ edited'[l] = built.no
  BY DEF Types, Stores, Surroundings, Operator, Tick, ServerRestart, Rebuild, Edit, mls
<1> QED BY <1>1, <1>2, <1>3, <1>4, RestCovers DEF store

LEMMA JobCovers ==
  ASSUME Types, Types', LogInv, CoverInv, NEW j \in Job, JobStep(j)
  PROVE  CoverInv'
<1>1. /\ saved \in [Search -> Row] /\ job \in [Job -> Works] /\ WorkOK(job[j])
      /\ Gate!TypeOK /\ Stores /\ Stores'
      /\ body \in [Draft -> [counted : SUBSET Listing, shown : SUBSET Listing]]
      /\ \A i \in Job : job[i].pc = "drafted" <=> writer = i
  BY DEF Types, Stores, Jobs, WriterOK
<1>2. WorksOn(j) /\ Windows'
  BY JobWorksOn, JobWindows DEF CoverInv
<1>3. UNCHANGED mls
  BY DEF JobStep, JobStart, JobTake, JobMatch, JobUnchecked, JobGiveUp, JobNoDraft, JobDraft,
         JobCommit, JobEnd
<1>4. \A i \in Job, s \in Search : job'[i].rows[s] \in {job[i].rows[s], saved[s], NoRow}
  BY <1>2 DEF WorksOn, SameSearch
<1>5. ASSUME \A s \in Search : saved'[s].status = saved[s].status
                               /\ saved'[s].since = saved[s].since
      PROVE  \A s \in Search : Low(s)' = Low(s) /\ (Stored(s)' <=> Stored(s))
  BY <1>3, <1>5 DEF Low, SaveHorizon, Stored, mls
<1>6. \A s \in Search : Low(s) \in Nat
  BY <1>1, LowTyped
<1>7. CASE UNCHANGED <<journal, saved>> /\ ~JobDraft(j)
  <2>1. \A s \in Search : Low(s)' = Low(s) /\ (Stored(s)' <=> Stored(s))
    BY <1>5, <1>7
  <2>2. \A s \in Search : \A l \in Listing : Covered(s, l) => Covered(s, l)'
    BY <1>7 DEF Covered, journal
  <2>3. ASSUME NEW s \in Search, Safe(s), Stored(s)' PROVE RowCovered(s, saved[s])'
    BY <1>7, <2>1, <2>2, <2>3 DEF CoverInv, RowsCovered, RowCovered, Asks
  <2>4. RowsCovered'
    BY <1>4, <1>6, <2>1, <2>2, <2>3, RowsStay
  <2>5. \A i \in Job : job'[i].pc = "drafted" => job'[i] = job[i]
    <3>1. job'[j].pc # "drafted"
      <4>1. ASSUME NEW w \in Works, Set(j, w) PROVE job'[j] = w
        BY <1>1, <4>1 DEF Set
      <4>2. CASE \E r \in Search \cup {Nobody} : JobStart(j, r)
        BY <4>1, <4>2, StartSets
      <4>3. CASE \E s \in Search : JobTake(j, s)
        BY <4>1, <4>3, TakeTyped
      <4>4. CASE JobMatch(j)
        BY <4>1, <4>4, MatchTyped DEF WorkOK
      <4>5. CASE JobUnchecked(j)
        BY <4>1, <4>5, UncheckedTyped DEF WorkOK
      <4>6. CASE Set(j, NextSearch(j)) \/ Set(j, NoWork)
        BY <1>1, <4>1, <4>6, NextSearchTyped, NoWorkTyped
      <4> QED BY <1>7, <4>2, <4>3, <4>4, <4>5, <4>6
              DEF JobStep, JobGiveUp, JobNoDraft, JobCommit, JobEnd
    <3> QED BY <1>2, <3>1 DEF WorksOn
  <2>6. DraftsWhole' /\ DraftedCovered'
    BY <1>6, <1>7, <2>1, <2>2, <2>5, DraftsStay DEF journal
  <2> QED BY <1>2, <2>4, <2>6 DEF CoverInv
<1>8. CASE saved' = Committed(j) /\ job[j].pc \in {"read", "drafted"}
           /\ Cardinality(NewKeys(j)) <= KeyCap /\ UNCHANGED journal
           /\ Set(j, NextSearch(j))
           /\ (job[j].pc = "drafted" \/ job[j].matches = {})
  <2>1. PICK s \in Search : s = job[j].search
    BY <1>1, <1>8 DEF WorkOK, Busy
  <2>2. /\ saved'[s].status = saved[s].status /\ saved'[s].since = saved[s].since
        /\ saved'[s].checked = EndOf(job[j]) /\ saved'[s].keys = KeysOf(job[j])
        /\ \A x \in Search \ {s} : saved'[x] = saved[x]
    BY <1>8, <2>1, CommittedTyped
  <2>3. \A x \in Search : Low(x)' = Low(x) /\ (Stored(x)' <=> Stored(x))
    BY <1>5, <2>2
  <2>4. \A x \in Search : \A l \in Listing : Covered(x, l) <=> Covered(x, l)'
    BY <1>8 DEF Covered, journal
  <2>5. ASSUME NEW x \in Search, Safe(x), Stored(x)' PROVE RowCovered(x, saved[x])'
    <3>1. CASE x # s
      BY <2>2, <2>3, <2>4, <2>5, <3>1 DEF CoverInv, RowsCovered, RowCovered, Asks
    <3>2. CASE x = s
      <4>1. \A l \in job[j].matches : Day[l] > Low(s) => Covered(s, l)
        BY <1>8, <2>1, <2>3, <2>5, <3>2 DEF CoverInv, DraftedCovered
      <4>2. Stored(s) /\ Safe(s)
        BY <2>3, <2>5, <3>2
      <4>3. ASSUME NEW l \in Listing, Day[l] > Low(s),
                   l \in KeysOf(job[j]) \/ (Asks(s, l) /\ Day[l] <= EndOf(job[j]))
            PROVE  Covered(s, l)
        BY <1>8, <2>1, <4>1, <4>2, <4>3, CommitCovers DEF CoverInv
      <4> QED BY <2>2, <2>3, <2>4, <3>2, <4>3 DEF RowCovered, Asks
    <3> QED BY <3>1, <3>2
  <2>6. RowsCovered'
    BY <1>4, <1>6, <2>3, <2>4, <2>5, RowsStay
  <2>7. \A i \in Job : job'[i].pc = "drafted" => job'[i] = job[i]
    <3>1. job'[j].pc # "drafted"
      BY <1>1, <1>8, NextSearchTyped DEF Set
    <3> QED BY <1>2, <3>1 DEF WorksOn
  <2>8. DraftsWhole' /\ DraftedCovered'
    BY <1>6, <1>8, <2>3, <2>4, <2>7, DraftsStay DEF journal
  <2> QED BY <1>2, <2>6, <2>8 DEF CoverInv
<1>9. CASE JobDraft(j)
  <2>1. PICK s \in Search : s = job[j].search
    BY <1>1, <1>9 DEF JobDraft, At, WorkOK, Busy
  <2> DEFINE w == job[j]
             k == <<s, w.horizon>>
  <2>2. /\ k \in Draft /\ w.horizon \in Days /\ w.pc = "read" /\ Stored(s) /\ k \notin alerts
        /\ writer = Nobody /\ UNCHANGED saved /\ k = Name(j) /\ w.matches \in SUBSET Listing
    BY <1>1, <1>9, <2>1, DraftTyped, Views DEF JobDraft, Decision, At, store, Works
  <2>3. PICK v \in Works : /\ job'[j] = v /\ v.pc = "drafted" /\ SameSearch(v, w)
                           /\ v.matches = w.matches
    <3>1. ASSUME NEW v \in Works, Set(j, v) PROVE job'[j] = v
      BY <1>1, <3>1 DEF Set
    <3> QED BY <1>9, <3>1, DraftTyped DEF WorkOK
  <2>4. \A x \in Search : Low(x)' = Low(x) /\ (Stored(x)' <=> Stored(x))
    BY <1>5, <2>2
  <2>5. CASE /\ stage[k] = "none" /\ stage' = [stage EXCEPT ![k] = "pending"]
             /\ body' = [body EXCEPT ![k] = [counted |-> w.matches, shown |-> Shown(j)]]
    <3>1. body'[k].counted = w.matches /\ \A m \in Draft \ {k} : body'[m] = body[m]
      BY <1>1, <2>2, <2>5
    <3>2. body[k].counted = {}
      BY <2>2, <2>5 DEF LogInv, Fresh
    <3>3. \A x \in Search : \A l \in Listing : Covered(x, l) => Covered(x, l)'
      <4>1. ASSUME NEW x \in Search, NEW l \in Listing, NEW d \in Days, l \in body[<<x, d>>].counted
            PROVE  l \in body'[<<x, d>>].counted
        BY <3>1, <3>2, <4>1, DraftNames
      <4> QED BY <4>1 DEF Covered
    <3>4. \A l \in w.matches : Covered(s, l)'
      BY <2>2, <3>1 DEF Covered
    <3>5. ASSUME NEW x \in Search, Safe(x), Stored(x)' PROVE RowCovered(x, saved[x])'
      BY <2>2, <2>4, <3>3, <3>5 DEF CoverInv, RowsCovered, RowCovered, Asks
    <3>6. RowsCovered'
      BY <1>4, <1>6, <2>4, <3>3, <3>5, RowsStay
    <3>7. ASSUME NEW x \in Search, NEW d \in Days, x \notin Featured, Stored(x)', stage'[<<x, d>>] # "none",
                 NEW l \in Listing, Day[l] > Low(x)', Day[l] <= d
          PROVE  Covered(x, l)'
      <4>1. CASE <<x, d>> = k
        <5>1. x = s /\ d = w.horizon /\ WindowOK(w) /\ RowCovered(s, w.rows[s])
          BY <2>2, <2>4, <3>7, <4>1 DEF CoverInv, Windows, RowsCovered, Safe
        <5>2. CASE l \in w.matches
          BY <3>4, <5>1, <5>2
        <5>3. CASE l \notin w.matches
          <6>1. ~InWindowOf(w, l)
            BY <2>1, <2>2, <3>7, <5>1, <5>3 DEF WindowOK, Asks
          <6>2. w.rows[s].checked \in Nat /\ w.horizon \in Nat
            BY <1>1, ConstantsAssumption DEF WorkOK, Works, Row, Days
          <6>3. l \in w.rows[s].keys \/ Day[l] <= w.rows[s].checked
            BY <2>1, <3>7, <5>1, <6>1, <6>2, ListingDays DEF InWindowOf
          <6>4. Covered(s, l)
            BY <2>4, <3>7, <5>1, <6>3 DEF RowCovered, Asks
          <6> QED BY <3>3, <5>1, <6>4
        <5> QED BY <5>2, <5>3
      <4>2. CASE <<x, d>> # k
        <5>1. stage[<<x, d>>] # "none"
          BY <1>1, <2>2, <2>5, <3>7, <4>2, DraftNames DEF Gate!TypeOK
        <5> QED BY <2>4, <3>3, <3>7, <5>1 DEF CoverInv, DraftsWhole
      <4> QED BY <4>1, <4>2
    <3>8. ASSUME NEW i \in Job, job'[i].pc = "drafted", NEW l \in job'[i].matches
          PROVE  Covered(job[i].search, l)'
      <4>1. i = j
        BY <1>1, <1>2, <2>2, <3>8, Writers DEF WorksOn
      <4> QED BY <2>1, <2>3, <3>4, <3>8, <4>1 DEF SameSearch
    <3> QED BY <1>2, <3>6, <3>7, <3>8 DEF CoverInv, DraftsWhole, DraftedCovered
  <2>6. CASE stage[k] # "none" /\ UNCHANGED journal
    <3>1. \A x \in Search : \A l \in Listing : Covered(x, l) <=> Covered(x, l)'
      BY <2>6 DEF Covered, journal
    <3>2. ASSUME NEW x \in Search, Safe(x), Stored(x)' PROVE RowCovered(x, saved[x])'
      BY <2>2, <2>4, <3>1, <3>2 DEF CoverInv, RowsCovered, RowCovered, Asks
    <3>3. RowsCovered'
      BY <1>4, <1>6, <2>4, <3>1, <3>2, RowsStay
    <3>4. DraftsWhole'
      BY <2>4, <2>6, <3>1 DEF CoverInv, DraftsWhole, journal
    <3>5. ASSUME Safe(s), NEW l \in w.matches, Day[l] > Low(s) PROVE Covered(s, l)
      <4>1. s \notin Featured
        <5>1. SUFFICES ASSUME ~MayCrash PROVE FALSE
          BY <3>5 DEF Safe
        <5>2. saved[s].status = "removed"
              \/ \E i \in Job : job[i].pc = "drafted" /\ <<job[i].search, job[i].horizon>> = k
          BY <2>2, <2>6, <5>1 DEF LogInv, Logged
        <5> QED BY <1>1, <2>2, <5>2, Writers DEF Stored
      <4>2. Day[l] <= w.horizon
        BY <2>2, <3>5 DEF CoverInv, Windows, WindowOK
      <4> QED BY <2>2, <2>6, <3>5, <4>1, <4>2 DEF CoverInv, DraftsWhole
    <3>6. ASSUME NEW i \in Job, job'[i].pc = "drafted", Safe(job'[i].search),
                 NEW l \in job'[i].matches, Day[l] > Low(job[i].search)'
          PROVE  Covered(job[i].search, l)'
      <4>1. i = j
        BY <1>1, <1>2, <2>2, <3>6, Writers DEF WorksOn
      <4>2. job'[i].search = s /\ l \in w.matches
        BY <2>1, <2>3, <3>6, <4>1 DEF SameSearch
      <4>3. Day[l] > Low(s)' /\ Safe(s) /\ l \in Listing
        BY <2>2, <3>6, <4>2
      <4>4. Covered(s, l)'
        BY <2>4, <3>1, <3>5, <4>2, <4>3
      <4> QED BY <4>2, <4>4
    <3> QED BY <1>2, <3>3, <3>4, <3>6 DEF CoverInv, DraftedCovered, Safe
  <2> QED BY <1>9, <2>2, <2>5, <2>6 DEF JobDraft, Gate!Propose, Gate!Advance
<1>10. \/ UNCHANGED <<journal, saved>> /\ ~JobDraft(j)
       \/ JobDraft(j)
       \/ saved' = Committed(j) /\ job[j].pc \in {"read", "drafted"}
          /\ Cardinality(NewKeys(j)) <= KeyCap /\ UNCHANGED journal
          /\ Set(j, NextSearch(j))
          /\ (job[j].pc = "drafted" \/ job[j].matches = {})
  <2>1. Cardinality(KeysOf(job[j])) = Cardinality(NewKeys(j))
    BY Views
  <2> QED BY <1>1, <2>1
          DEF JobStep, JobStart, JobTake, JobMatch, JobUnchecked, JobGiveUp, JobNoDraft,
              JobCommit, JobEnd, At, WorkOK, store
<1> QED BY <1>7, <1>8, <1>9, <1>10

LEMMA CoverInit ==
  ASSUME Init
  PROVE  CoverInv
<1>1. saved = [s \in Search |-> NoRow] /\ job = [j \in Job |-> NoWork]
  BY DEF Init
<1>2. \A s \in Search : ~Stored(s)
  BY <1>1 DEF Stored, NoRow
<1>3. \A j \in Job : job[j].pc = "idle"
  BY <1>1, NoWorkTyped
<1> QED BY <1>2, <1>3 DEF CoverInv, RowsCovered, DraftsWhole, DraftedCovered, Windows, WindowOK

LEMMA CoverNext ==
  ASSUME Types, Types', LogInv, CoverInv, [Next]_vars
  PROVE  CoverInv'
<1>1. CASE UNCHANGED vars
  <2>1. UNCHANGED <<journal, store, mls, job>>
    BY <1>1 DEF vars
  <2>2. cached <= cached' /\ built.day <= built'.day
    BY <2>1, ConstantsAssumption DEF Types, Stores, mls, Days
  <2> QED BY <2>1, <2>2, RestCovers DEF journal, store, mls
<1> QED BY <1>1, NextSteps, SavingCovers, RemovalCovers, JobCovers, SurroundingsCover

LEMMA CoverInvariance == Spec => [](Types /\ LogInv /\ CoverInv)
<1>1. Init => Types /\ LogInv /\ CoverInv
  BY TypesInit, LogInit, CoverInit
<1>2. Types /\ LogInv /\ CoverInv /\ [Next]_vars => (Types /\ LogInv /\ CoverInv)'
  BY TypesNext, LogNext, CoverNext
<1> QED BY <1>1, <1>2, PTL DEF Spec

\* The checked day of search s never passes over a listing.
NothingSkippedBy(s) ==
  \A l \in Listing :
    /\ Stored(s) /\ Day[l] \in (saved[s].since + 1)..saved[s].checked
    /\ s \in Featured => l \in HasFeatures
    => \E d \in Days : l \in body[<<s, d>>].counted

LEMMA CoveredIsNotSkipped ==
  ASSUME Types, CoverInv, NEW s \in Search, Safe(s)
  PROVE  NothingSkippedBy(s)
<1> SUFFICES ASSUME NEW l \in Listing, Stored(s),
                    Day[l] \in (saved[s].since + 1)..saved[s].checked, Asks(s, l)
             PROVE  Covered(s, l)
  BY DEF NothingSkippedBy, Asks, Covered
<1>1. /\ Low(s) \in Nat /\ Low(s) <= saved[s].since
      /\ saved[s].since \in Nat /\ saved[s].checked \in Nat
  BY LowTyped, ConstantsAssumption DEF Types, Stores, Row, Days
<1>2. Day[l] > Low(s) /\ Day[l] <= saved[s].checked
  BY <1>1, ListingDays
<1> QED BY <1>2 DEF CoverInv, RowsCovered, RowCovered

\* A search without features misses no listing, whatever crashes, is replayed or
\* removed, and however many jobs run at once.
THEOREM PlainSearchTheorem == Spec => [](\A s \in Search \ Featured : NothingSkippedBy(s))
<1>1. Types /\ CoverInv => \A s \in Search \ Featured : NothingSkippedBy(s)
  BY CoveredIsNotSkipped DEF Safe
<1> QED BY <1>1, CoverInvariance, PTL

\* Nor does a feature search where no run is interrupted: so in all, no listing is
\* passed over unless a job dies over a feature search.
THEOREM NothingSkippedTheorem ==
  ASSUME Featured = {} \/ ~MayCrash
  PROVE  Spec => []NothingSkipped
<1>1. Types /\ CoverInv => NothingSkipped
  <2>1. \A s \in Search : Safe(s)
    BY DEF Safe
  <2> QED BY <2>1, CoveredIsNotSkipped DEF NothingSkipped, NothingSkippedBy
<1> QED BY <1>1, CoverInvariance, PTL

-----------------------------------------------------------------------------
(* Nothing is alerted twice.                                               *)

\* One job at a time, and no features to hold its cursor back.
Alone(s) == s \notin Featured /\ s \notin Replayable /\ \A i, j \in Job : i = j

\* The searches that alert no listing twice: no run is repeated on request, and of
\* three hazards there is at most one: a run may be interrupted, jobs may overlap, the
\* cursor may be held back.
Once(s) ==
  /\ s \notin Replayable
  /\ \/ ~MayCrash /\ (s \notin Featured \/ \A i, j \in Job : i = j)
     \/ Alone(s)

\* What a job still has to do: the searches it has read the row of.
InHand(w) == w.todo \cup {s \in Search : Busy(w) /\ s = w.search}

\* The row that was read knows the keys of the table's, or its older checked day
\* gives it away.
ReadOK(w, s) ==
  /\ ~w.replay /\ w.rows[s].status # "none"
  /\ Stored(s) =>
       IF s \in Featured THEN w.rows[s].keys = saved[s].keys
       ELSE /\ w.rows[s].checked <= saved[s].checked
            /\ w.rows[s].checked = saved[s].checked => w.rows[s].keys = saved[s].keys

\* A search that is taken up is due, and what is found was not alerted before.
DueOK(w) ==
  /\ w.rows[w.search].checked < w.horizon
  /\ w.search \notin w.todo
  /\ w.search \notin Featured => w.first = 0
  /\ w.pc \in {"matched", "read", "drafted"} => w.matches \cap w.rows[w.search].keys = {}

\* A job in its transaction: the row is still the one it read, and the draft its own.
DraftOK(w) ==
  LET k == <<w.search, w.horizon>> IN
  /\ Stored(w.search)
  /\ saved[w.search].keys = w.rows[w.search].keys
  /\ w.search \notin Featured => saved[w.search].checked = w.rows[w.search].checked
  /\ body[k].shown = ShownOf(w) /\ k \notin alerts

ReadsOK == \A j \in Job : \A s \in InHand(job[j]) : Once(s) => ReadOK(job[j], s)
DuesOK == \A j \in Job : Busy(job[j]) /\ Once(job[j].search) => DueOK(job[j])
DraftsOK ==
  \A j \in Job : job[j].pc = "drafted" =>
    /\ stage[<<job[j].search, job[j].horizon>>] # "none"
    /\ Once(job[j].search) => DraftOK(job[j])

\* A logged draft shows only what its row remembers.
LogKept ==
  \A k \in alerts :
    stage[k] # "none" /\ (Once(k[1]) => body[k].shown \subseteq saved[k[1]].keys)

NoRepeatBy(s) ==
  \A k, m \in alerts : k # m /\ k[1] = s /\ m[1] = s => body[k].shown \cap body[m].shown = {}

NoneTwice == \A s \in Search : Once(s) => NoRepeatBy(s)

RepeatInv == ReadsOK /\ DuesOK /\ DraftsOK /\ LogKept /\ NoneTwice

\* What a run over row has to alert by day d, and what the draft of it shows.
Window(row, d) == {l \in Listing : Day[l] \in (row.checked + 1)..d /\ l \notin row.keys}
FirstOf(M) == {l \in M : Cardinality({m \in M : m < l}) < Cap}

\* A draft that an interrupted run has left is of a day no later run is before, and
\* while its day is not checked it shows what the run of that day would show.
LeftOK(s) ==
  \A d \in Days : stage[<<s, d>>] # "none" =>
    /\ d <= today
    /\ \A j \in Job : job[j].pc # "idle" => d <= job[j].active
    /\ Stored(s) /\ saved[s].checked < d /\ <<s, d>> \notin alerts =>
         body[<<s, d>>].shown = FirstOf(Window(saved[s], d))

HandOK(w) ==
  /\ w.pc # "idle" => w.active <= today
  /\ Busy(w) /\ Alone(w.search) => w.horizon = w.active
  /\ w.pc \in {"matched", "read", "drafted"} /\ Alone(w.search) =>
       w.matches = Window(w.rows[w.search], w.horizon)

LeftInv == (\A j \in Job : HandOK(job[j])) /\ \A s \in Search : Alone(s) => LeftOK(s)

\* The row of s keeps what a job would compare.
RowKept(s) ==
  /\ saved'[s].keys = saved[s].keys
  /\ s \in Featured \/ saved'[s].checked = saved[s].checked
  /\ Stored(s)' <=> Stored(s)

LEMMA RepeatStays ==
  ASSUME Types, LogInv, RepeatInv,
         UNCHANGED <<body, job>>, alerts' \subseteq alerts,
         \A k \in Draft : stage[k] # "none" => stage'[k] # "none",
         \A s \in Search :
           \/ RowKept(s)
           \/ saved[s].status = "none"
           \/ /\ ~Stored(s)' /\ \A k \in alerts' : k[1] # s
              /\ \A j \in Job : job[j].pc = "drafted" => job[j].search # s
  PROVE  RepeatInv'
<1>1. /\ alerts \subseteq Draft /\ job \in [Job -> Works]
      /\ \A j \in Job : WorkOK(job[j])
  BY DEF Types, Stores, Jobs
<1>2. NoRow.status = "none"
  BY DEF NoRow
<1>3. ASSUME NEW j \in Job, NEW s \in InHand(job[j]), Once(s) PROVE ReadOK(job[j], s)'
  <2>1. s \in Search /\ ReadOK(job[j], s)
    BY <1>1, <1>3 DEF InHand, Works, RepeatInv, ReadsOK
  <2>2. saved[s].status # "none"
    BY <1>2, <2>1 DEF ReadOK, LogInv, Fresh
  <2> QED BY <2>1, <2>2 DEF ReadOK, RowKept
<1>4. ASSUME NEW j \in Job, job[j].pc = "drafted", Once(job[j].search) PROVE DraftOK(job[j])'
  <2>1. PICK s \in Search : s = job[j].search
    BY <1>1, <1>4 DEF WorkOK, Busy
  <2>2. /\ DraftOK(job[j]) /\ <<s, job[j].horizon>> \in Draft
        /\ saved[s].status # "none"
    BY <1>1, <1>4, <2>1, DraftNames DEF RepeatInv, DraftsOK, DraftOK, Stored, Works
  <2>3. RowKept(s)
    BY <1>4, <2>1, <2>2
  <2> QED BY <2>1, <2>2, <2>3 DEF DraftOK, RowKept, ShownOf
<1>5. ASSUME NEW k \in alerts'
      PROVE  stage'[k] # "none" /\ (Once(k[1]) => body'[k].shown \subseteq saved'[k[1]].keys)
  <2>1. k \in Draft /\ k[1] \in Search /\ k[2] \in Days /\ k = <<k[1], k[2]>> /\ stage[k] # "none"
    BY <1>1, <1>5, DraftNames DEF RepeatInv, LogKept
  <2>2. saved[k[1]].status # "none"
    BY <2>1 DEF LogInv, Fresh
  <2>3. RowKept(k[1])
    BY <1>5, <2>1, <2>2
  <2> QED BY <1>5, <2>1, <2>3 DEF RepeatInv, LogKept, RowKept
<1>6. ReadsOK'
  BY <1>3 DEF ReadsOK, InHand, Busy, Once
<1>7. DuesOK'
  BY DEF RepeatInv, DuesOK, DueOK, Busy, Once
<1>8. DraftsOK'
  <2>1. ASSUME NEW j \in Job, job[j].pc = "drafted"
        PROVE  stage'[<<job[j].search, job[j].horizon>>] # "none"
    <3>1. <<job[j].search, job[j].horizon>> \in Draft
      BY <1>1, <2>1, DraftNames DEF WorkOK, Busy, Works
    <3> QED BY <2>1, <3>1 DEF RepeatInv, DraftsOK
  <2> QED BY <1>4, <2>1 DEF DraftsOK, Once
<1>9. LogKept'
  BY <1>5 DEF LogKept, Once
<1>10. NoneTwice'
  BY DEF RepeatInv, NoneTwice, NoRepeatBy, Once
<1> QED BY <1>6, <1>7, <1>8, <1>9, <1>10 DEF RepeatInv

LEMMA SavingRepeats ==
  ASSUME Types, LogInv, RepeatInv, NEW s \in Search, Save(s) \/ Renew(s) \/ Lapse(s)
  PROVE  RepeatInv'
<1>1. saved \in [Search -> Row]
  BY DEF Types, Stores
<1>2. UNCHANGED <<journal, alerts, job>>
  BY DEF Save, Renew, Lapse
<1>3. \A x \in Search \ {s} : RowKept(x)
  BY <1>1 DEF Save, Renew, Lapse, RowKept, Stored
<1>4. RowKept(s) \/ saved[s].status = "none"
  BY <1>1 DEF Save, Renew, Lapse, RowKept, Stored, Row
<1> QED BY <1>2, <1>3, <1>4, RepeatStays DEF journal

LEMMA RemovalRepeats ==
  ASSUME Types, LogInv, RepeatInv, NEW t \in Target,
         IssueCode(t) \/ CodeLapses(t) \/ RemoveDrafts(t) \/ RemoveRows(t)
  PROVE  RepeatInv'
<1>1. UNCHANGED <<body, job>>
  BY DEF IssueCode, CodeLapses, RemoveDrafts, RemoveRows, journal
<1>2. \A k \in Draft : stage[k] # "none" => stage'[k] # "none"
  <2>1. CASE RemoveDrafts(t)
    <3>1. PICK ds \in SUBSET Draft : Gate!Withdraw(ds)
      BY <2>1 DEF RemoveDrafts, Withdrawn
    <3> QED BY <3>1, WithdrawMoves DEF StageMoves, Types, Stores
  <2>2. CASE ~RemoveDrafts(t)
    BY <2>2 DEF IssueCode, CodeLapses, RemoveRows, journal
  <2> QED BY <2>1, <2>2
<1>3. CASE UNCHANGED <<saved, alerts>>
  BY <1>1, <1>2, <1>3, RepeatStays DEF RowKept, Stored
<1>4. CASE /\ writer = t
           /\ saved' = [s \in Search |->
                         IF s \in Wanted(t) THEN [NoRow EXCEPT !.status = "removed"] ELSE saved[s]]
           /\ alerts' = {k \in alerts : k[1] \notin Wanted(t)}
  <2>1. [NoRow EXCEPT !.status = "removed"].status = "removed"
    BY DEF NoRow
  <2>2. \A j \in Job : job[j].pc # "drafted"
    BY <1>4, Writers DEF Types, Jobs, WriterOK
  <2>3. ASSUME NEW s \in Search
        PROVE  RowKept(s) \/ (~Stored(s)' /\ \A k \in alerts' : k[1] # s)
    <3> HIDE DEF NoRow
    <3> QED BY <1>4, <2>1 DEF RowKept, Stored
  <2> QED BY <1>1, <1>2, <1>4, <2>2, <2>3, RepeatStays
<1> QED BY <1>3, <1>4 DEF IssueCode, CodeLapses, RemoveDrafts, RemoveRows, store

LEMMA SurroundingsRepeat ==
  ASSUME Types, LogInv, RepeatInv, Surroundings
  PROVE  RepeatInv'
<1>1. UNCHANGED <<store, body, job>>
  BY DEF Surroundings, Operator, Tick, ServerRestart, Rebuild, Edit, journal
<1>2. \A k \in Draft : stage[k] # "none" => stage'[k] # "none"
  <2>1. CASE Operator
    BY <2>1, OperatorMoves DEF Types, Stores, StageMoves
  <2>2. CASE UNCHANGED journal
    BY <2>2 DEF journal
  <2> QED BY <2>1, <2>2 DEF Surroundings, Tick, ServerRestart, Rebuild, Edit
<1> QED BY <1>1, <1>2, RepeatStays DEF store, RowKept, Stored

\* A job that works on and writes nothing.
LEMMA WorkRepeats ==
  ASSUME RepeatInv, NEW j \in Job, NEW w,
         UNCHANGED <<journal, saved, alerts>>,
         job'[j] = w, \A i \in Job \ {j} : job'[i] = job[i],
         \A s \in InHand(w) : Once(s) => ReadOK(w, s),
         Busy(w) /\ Once(w.search) => DueOK(w),
         w.pc # "drafted"
  PROVE  RepeatInv'
<1> USE DEF journal, Once
<1>1. ReadsOK'
  BY DEF RepeatInv, ReadsOK, InHand, Busy, ReadOK, Stored
<1>2. DuesOK'
  BY DEF RepeatInv, DuesOK, DueOK, Busy
<1>3. DraftsOK'
  BY DEF RepeatInv, DraftsOK, DraftOK, ShownOf, Stored
<1>4. LogKept' /\ NoneTwice'
  BY DEF RepeatInv, LogKept, NoneTwice, NoRepeatBy
<1> QED BY <1>1, <1>2, <1>3, <1>4 DEF RepeatInv

\* The rows read are not touched by work on another search.
LEMMA LeavingRepeats ==
  ASSUME Types, RepeatInv, NEW j \in Job, NEW w \in {NextSearch(j), NoWork}
  PROVE  /\ w.pc # "drafted" /\ ~Busy(w)
         /\ \A s \in InHand(w) : Once(s) => ReadOK(w, s)
         /\ InHand(w) \subseteq job[j].todo
         /\ InHand(w) # {} => w.rows = job[j].rows /\ w.replay = job[j].replay
<1>1. /\ w.pc # "drafted" /\ ~Busy(w)
      /\ w.todo \subseteq job[j].todo
      /\ w.todo # {} => w.rows = job[j].rows /\ w.replay = job[j].replay
  BY NextSearchTyped, NoWorkTyped DEF Types, Jobs
<1>2. InHand(w) = w.todo /\ w.todo \subseteq InHand(job[j])
  BY <1>1 DEF InHand
<1>3. ASSUME NEW s \in w.todo, Once(s) PROVE ReadOK(w, s)
  BY <1>1, <1>2, <1>3 DEF RepeatInv, ReadsOK, ReadOK
<1> QED BY <1>1, <1>2, <1>3

\* A job's update of the row of a search that alerts no listing twice.
LEMMA CommitRepeats ==
  ASSUME Types, LogInv, RepeatInv, NEW j \in Job, job[j].pc \in {"read", "drafted"},
         Cardinality(NewKeys(j)) <= KeyCap, saved' = Committed(j),
         UNCHANGED journal, Set(j, NextSearch(j)),
         \A i \in Job \ {j} : job[i].pc # "drafted",
         NEW s \in Search, s = job[j].search,
         Once(s) => /\ Stored(s) /\ saved[s].keys = job[j].rows[s].keys
                    /\ s \notin Featured => saved[s].checked = job[j].rows[s].checked,
         \/ UNCHANGED alerts
         \/ /\ job[j].pc = "drafted" /\ stage[Name(j)] # "none"
            /\ alerts' = alerts \cup {Name(j)}
  PROVE  RepeatInv'
<1> DEFINE k == <<s, job[j].horizon>>
<1>1. /\ job \in [Job -> Works] /\ saved \in [Search -> Row] /\ WorkOK(job[j])
      /\ alerts \subseteq Draft /\ k \in Draft /\ k = Name(j)
      /\ \A i \in Job : job[i].pc = "drafted" <=> writer = i
      /\ \A i \in Job : WorkOK(job[i])
  <2>1. job[j] \in Works
    BY DEF Types, Jobs
  <2> QED BY <2>1, DraftNames, Views DEF Types, Stores, Jobs, WriterOK, Works
<1>2. /\ saved'[s].status = saved[s].status
      /\ saved'[s].checked = EndOf(job[j]) /\ saved'[s].keys = KeysOf(job[j])
      /\ \A x \in Search \ {s} : saved'[x] = saved[x]
  BY CommittedTyped
<1>3. \A x \in Search : Stored(x)' <=> Stored(x)
  BY <1>2 DEF Stored
<1>4. PICK w \in {NextSearch(j)} :
        /\ job'[j] = w /\ w.pc # "drafted" /\ ~Busy(w) /\ InHand(w) \subseteq job[j].todo
        /\ \A x \in InHand(w) : Once(x) => ReadOK(w, x)
  <2>1. NextSearch(j) \in Works
    BY <1>1, NextSearchTyped
  <2> QED BY <1>1, <2>1, LeavingRepeats DEF Set
<1>5. \A i \in Job \ {j} : job'[i] = job[i]
  BY <1>1 DEF Set
<1>6. Once(s) => DueOK(job[j])
  BY <1>1 DEF RepeatInv, DuesOK, Busy
<1>7. Once(s) => saved[s].keys \subseteq saved'[s].keys
  BY <1>2 DEF KeysOf
<1>8. Once(s) /\ s \notin Featured => saved[s].checked < saved'[s].checked
  BY <1>2, <1>6 DEF DueOK, EndOf
<1>9. ASSUME NEW i \in Job, NEW x \in InHand(job'[i]), Once(x) PROVE ReadOK(job[i], x)'
  <2>1. ReadOK(job'[i], x) /\ x \in Search /\ job'[i] \in Works
    <3>1. CASE i = j
      <4>1. NextSearch(j) \in Works
        BY <1>1, NextSearchTyped
      <4> QED BY <1>4, <1>9, <3>1, <4>1 DEF InHand, Works
    <3>2. CASE i # j
      BY <1>1, <1>5, <1>9, <3>2 DEF RepeatInv, ReadsOK, InHand, Works
    <3> QED BY <3>1, <3>2
  <2>2. CASE x # s
    BY <1>2, <1>3, <2>1, <2>2 DEF ReadOK
  <2>3. CASE x = s
    <3>1. i # j
      BY <1>4, <1>6, <1>9, <2>3 DEF DueOK
    <3>2. s \notin Featured
      BY <1>9, <2>3, <3>1 DEF Once, Alone
    <3>3. /\ job'[i].rows[s].checked \in Nat /\ saved[s].checked \in Nat
          /\ EndOf(job[j]) \in Nat
      <4>1. job'[i].rows[s] \in Row /\ saved[s] \in Row
        BY <1>1, <2>1 DEF Works
      <4>2. EndOf(job[j]) \in Days
        BY <1>1, EndTyped DEF WorkOK, Busy
      <4> QED BY <4>1, <4>2, ConstantsAssumption DEF Row, Days
    <3>4. saved[s].checked < saved'[s].checked /\ saved'[s].checked \in Nat
      BY <1>2, <1>8, <1>9, <2>3, <3>2, <3>3
    <3>5. Stored(s) => job'[i].rows[s].checked < saved'[s].checked
      BY <2>1, <2>3, <3>2, <3>3, <3>4 DEF ReadOK
    <3>6. /\ ~job'[i].replay /\ job'[i].rows[s].status # "none"
          /\ Stored(s)' => job'[i].rows[s].checked < saved'[s].checked
      BY <1>3, <2>1, <2>3, <3>5 DEF ReadOK
    <3> QED BY <2>3, <3>2, <3>3, <3>4, <3>6 DEF ReadOK
  <2> QED BY <2>2, <2>3
<1>10. ReadsOK'
  BY <1>9 DEF ReadsOK, InHand, Busy, Once
<1>11. DuesOK'
  <2>1. ASSUME NEW i \in Job, Busy(job'[i]), Once(job'[i].search) PROVE DueOK(job'[i])
    BY <1>4, <1>5, <2>1 DEF RepeatInv, DuesOK
  <2> QED BY <2>1 DEF DuesOK, DueOK, Busy, Once
<1>12. DraftsOK'
  <2>1. \A i \in Job : job'[i].pc # "drafted"
    BY <1>4, <1>5
  <2> QED BY <2>1 DEF DraftsOK
<1>13. Once(s) =>
         /\ s \notin Featured => job[j].first = 0
         /\ job[j].matches \cap saved[s].keys = {}
  BY <1>6 DEF DueOK
<1>14. Once(s) /\ alerts' # alerts =>
         /\ body[k].shown \subseteq saved'[s].keys
         /\ \A m \in alerts : m[1] = s => body[k].shown \cap body[m].shown = {}
  <2>1. SUFFICES ASSUME Once(s), alerts' # alerts
                 PROVE  /\ body[k].shown \subseteq saved'[s].keys
                        /\ \A m \in alerts : m[1] = s => body[k].shown \cap body[m].shown = {}
    OBVIOUS
  <2>2. body[k].shown = ShownOf(job[j])
    BY <2>1 DEF RepeatInv, DraftsOK, DraftOK
  <2>3. ShownOf(job[j]) \subseteq job[j].matches /\ ShownOf(job[j]) \subseteq saved'[s].keys
    BY <1>2 DEF ShownOf, KeysOf
  <2>4. \A m \in alerts : m[1] = s => body[m].shown \subseteq saved[s].keys
    BY <2>1 DEF RepeatInv, LogKept
  <2> QED BY <1>13, <2>1, <2>2, <2>3, <2>4
<1>15. LogKept'
  <2>1. ASSUME NEW m \in alerts'
        PROVE  stage[m] # "none" /\ (Once(m[1]) => body[m].shown \subseteq saved'[m[1]].keys)
    <3>1. m \in Draft /\ m[1] \in Search /\ m = <<m[1], m[2]>>
      BY <1>1, <2>1, DraftNames
    <3>2. CASE m \in alerts
      BY <1>2, <1>7, <3>1, <3>2 DEF RepeatInv, LogKept
    <3>3. CASE m \notin alerts
      BY <1>1, <1>14, <2>1, <3>3
    <3> QED BY <3>2, <3>3
  <2> QED BY <2>1 DEF LogKept, Once, journal
<1>16. NoneTwice'
  <2>1. ASSUME NEW x \in Search, Once(x), NEW m \in alerts', NEW n \in alerts',
               m # n, m[1] = x, n[1] = x
        PROVE  body[m].shown \cap body[n].shown = {}
    <3>1. CASE m \in alerts /\ n \in alerts
      BY <2>1, <3>1 DEF RepeatInv, NoneTwice, NoRepeatBy
    <3>2. CASE m \notin alerts
      BY <1>1, <1>14, <2>1, <3>2
    <3>3. CASE n \notin alerts
      BY <1>1, <1>14, <2>1, <3>3
    <3> QED BY <3>1, <3>2, <3>3
  <2> QED BY <2>1 DEF NoneTwice, NoRepeatBy, Once, journal
<1> QED BY <1>10, <1>11, <1>12, <1>15, <1>16 DEF RepeatInv

\* A draft is made once.  Without crashes a second one of the same name would be of a
\* logged search, which the decision tells, or of a job that holds the lock; the one
\* an interrupted run has left shows what this one would.
LEMMA DraftRepeats ==
  ASSUME Types, LogInv, RepeatInv, LeftInv, NEW j \in Job, JobDraft(j)
  PROVE  RepeatInv'
<1>1. /\ job \in [Job -> Works] /\ WorkOK(job[j]) /\ Gate!TypeOK /\ alerts \subseteq Draft
      /\ body \in [Draft -> [counted : SUBSET Listing, shown : SUBSET Listing]]
      /\ \A i \in Job : job[i].pc = "drafted" <=> writer = i
  BY DEF Types, Stores, Jobs, WriterOK
<1>2. PICK s \in Search : s = job[j].search
  BY <1>1 DEF JobDraft, At, WorkOK, Busy
<1> DEFINE w == job[j]
           k == <<s, w.horizon>>
<1>3. /\ w \in Works /\ k \in Draft /\ k = Name(j) /\ w.pc = "read" /\ Busy(w) /\ Stored(s)
      /\ k \notin alerts /\ writer = Nobody /\ UNCHANGED <<saved, alerts>>
      /\ ~w.replay => saved[s].checked = w.rows[s].checked
  BY <1>1, <1>2, DraftTyped, Views DEF JobDraft, Decision, At, store, Busy
<1>4. PICK v \in Works : /\ job'[j] = v /\ v.pc = "drafted" /\ SameSearch(v, w)
                         /\ v.matches = w.matches /\ v.first = w.first
  <2>1. ASSUME NEW v \in Works, Set(j, v) PROVE job'[j] = v
    BY <1>1, <2>1 DEF Set
  <2> QED BY <2>1, DraftTyped DEF WorkOK
<1>5. \A i \in Job \ {j} : job'[i] = job[i] /\ job[i].pc # "drafted"
  BY <1>1, <1>3, JobWorksOn, Writers DEF JobStep, WorksOn
<1>6. /\ \A m \in Draft \ {k} : stage'[m] = stage[m] /\ body'[m] = body[m]
      /\ stage'[k] # "none"
      /\ Once(s) => body'[k].shown = ShownOf(w)
  <2>1. CASE Gate!Propose(k)
             /\ body' = [body EXCEPT ![k] = [counted |-> w.matches, shown |-> Shown(j)]]
    BY <1>1, <1>3, <2>1, Views DEF Gate!Propose, Gate!Advance, Gate!TypeOK
  <2>2. CASE stage[k] # "none" /\ UNCHANGED journal
    <3>1. ASSUME Once(s) PROVE body[k].shown = ShownOf(w)
      <4>1. MayCrash
        <5>1. SUFFICES ASSUME ~MayCrash PROVE FALSE
          OBVIOUS
        <5>2. saved[s].status = "removed"
              \/ \E i \in Job : job[i].pc = "drafted" /\ <<job[i].search, job[i].horizon>> = k
          BY <1>3, <2>2, <5>1 DEF LogInv, Logged
        <5> QED BY <1>1, <1>3, <5>2, Writers DEF Stored
      <4>2. Alone(s)
        BY <3>1, <4>1 DEF Once
      <4>3. w.matches = Window(w.rows[s], w.horizon)
        BY <1>2, <1>3, <4>2 DEF LeftInv, HandOK
      <4>4. ReadOK(w, s) /\ w.rows[s].checked < w.horizon
        <5>1. s \in InHand(w)
          BY <1>2, <1>3 DEF InHand
        <5> QED BY <1>2, <1>3, <3>1, <5>1 DEF RepeatInv, ReadsOK, DuesOK, DueOK
      <4>5. saved[s].checked = w.rows[s].checked /\ saved[s].keys = w.rows[s].keys
        BY <1>3, <4>2, <4>4 DEF ReadOK, Alone
      <4>6. w.horizon \in Days
        BY <1>3 DEF Works
      <4>7. body[k].shown = FirstOf(Window(saved[s], w.horizon))
        BY <1>3, <2>2, <4>2, <4>4, <4>5, <4>6 DEF LeftInv, LeftOK
      <4>8. Window(saved[s], w.horizon) = w.matches
        BY <4>3, <4>5 DEF Window
      <4> QED BY <4>7, <4>8 DEF ShownOf, FirstOf
    <3> QED BY <2>2, <3>1 DEF journal
  <2> QED BY <1>3, <2>1, <2>2 DEF JobDraft
<1> HIDE DEF k
<1>7. Busy(v)
  BY <1>4 DEF Busy
<1>8. ASSUME Once(s)
      PROVE  saved[s].keys = w.rows[s].keys /\ saved[s].checked = w.rows[s].checked
  <2>1. s \in InHand(w)
    BY <1>2, <1>3 DEF InHand
  <2>2. ReadOK(w, s)
    BY <1>8, <2>1 DEF RepeatInv, ReadsOK
  <2> QED BY <1>3, <2>2 DEF ReadOK
<1>9. ASSUME NEW i \in Job, NEW x \in InHand(job'[i]), Once(x) PROVE ReadOK(job[i], x)'
  <2>1. CASE i = j
    <3>1. x \in InHand(w)
      BY <1>3, <1>4, <1>7, <1>9, <2>1 DEF InHand, SameSearch
    <3>2. ReadOK(w, x)
      BY <1>9, <3>1 DEF RepeatInv, ReadsOK
    <3> QED BY <1>3, <1>4, <2>1, <3>2 DEF ReadOK, SameSearch, Stored
  <2>2. CASE i # j
    BY <1>3, <1>5, <1>9, <2>2 DEF RepeatInv, ReadsOK, ReadOK, Stored
  <2> QED BY <2>1, <2>2
<1>10. ReadsOK'
  BY <1>9 DEF ReadsOK, InHand, Busy, Once
<1>11. DuesOK'
  <2>1. Once(s) => DueOK(v)
    BY <1>2, <1>3, <1>4 DEF RepeatInv, DuesOK, DueOK, SameSearch
  <2>2. ASSUME NEW i \in Job, Busy(job'[i]), Once(job'[i].search) PROVE DueOK(job'[i])
    BY <1>2, <1>4, <1>5, <2>1, <2>2 DEF RepeatInv, DuesOK, SameSearch
  <2> QED BY <2>2 DEF DuesOK, DueOK, Busy, Once
<1>12. DraftsOK'
  <2>1. ASSUME NEW i \in Job, job'[i].pc = "drafted", Once(job'[i].search) PROVE DraftOK(job[i])'
    <3>1. i = j
      BY <1>5, <2>1
    <3>2. /\ job'[i].search = s /\ <<job'[i].search, job'[i].horizon>> = k
          /\ job'[i].rows = w.rows /\ ShownOf(job'[i]) = ShownOf(w)
      BY <1>2, <1>4, <3>1 DEF SameSearch, ShownOf, k
    <3> QED BY <1>3, <1>6, <1>8, <2>1, <3>2 DEF DraftOK, Stored, ShownOf
  <2>2. ASSUME NEW i \in Job, job'[i].pc = "drafted"
        PROVE  stage'[<<job'[i].search, job'[i].horizon>>] # "none"
    <3>1. i = j /\ <<job'[i].search, job'[i].horizon>> = k
      BY <1>2, <1>4, <1>5, <2>2 DEF SameSearch, k
    <3> QED BY <1>6, <3>1
  <2> QED BY <2>1, <2>2 DEF DraftsOK, Once
<1>13. LogKept'
  <2>1. \A m \in alerts : m \in Draft \ {k}
    BY <1>1, <1>3 DEF k
  <2> QED BY <1>3, <1>6, <2>1 DEF RepeatInv, LogKept, Once
<1>14. NoneTwice'
  <2>1. \A m \in alerts : m \in Draft \ {k}
    BY <1>1, <1>3 DEF k
  <2> QED BY <1>3, <1>6, <2>1 DEF RepeatInv, NoneTwice, NoRepeatBy, Once
<1> QED BY <1>10, <1>11, <1>12, <1>13, <1>14 DEF RepeatInv

LEMMA JobRepeats ==
  ASSUME Types, LogInv, RepeatInv, LeftInv, NEW j \in Job, JobStep(j)
  PROVE  RepeatInv'
<1>1. /\ job \in [Job -> Works] /\ saved \in [Search -> Row] /\ WorkOK(job[j])
      /\ \A i \in Job : job[i].pc = "drafted" <=> writer = i
  BY DEF Types, Stores, Jobs, WriterOK
<1>2. \A i \in Job \ {j} : job'[i] = job[i]
  BY JobWorksOn DEF WorksOn
<1>3. ASSUME NEW v \in Works, Set(j, v) PROVE job'[j] = v
  BY <1>1, <1>3 DEF Set
<1>4. CASE \E r \in Search \cup {Nobody} : JobStart(j, r)
  <2>1. PICK w \in Works : /\ Set(j, w) /\ WorkOK(w) /\ w.pc = "ready" /\ w.rows = saved
                           /\ \A s \in w.todo : s \in Search /\ Stored(s)
                           /\ w.replay => w.todo \subseteq Replayable
    BY <1>4, StartSets
  <2>2. ~Busy(w) /\ job'[j] = w
    BY <1>3, <2>1 DEF Busy
  <2>3. ASSUME NEW s \in InHand(w), Once(s) PROVE ReadOK(w, s)
    <3>1. s \in Search /\ Stored(s) /\ ~w.replay
      BY <2>1, <2>2, <2>3 DEF InHand, Once
    <3>2. saved[s].checked \in Nat
      BY <1>1, <3>1, ConstantsAssumption DEF Row, Days
    <3> QED BY <2>1, <3>1, <3>2 DEF ReadOK, Stored
  <2> QED BY <1>2, <1>4, <2>1, <2>2, <2>3, WorkRepeats DEF JobStart, store
<1>5. CASE \E s \in Search : JobTake(j, s)
  <2>1. PICK s \in Search : JobTake(j, s)
    BY <1>5
  <2>2. PICK w \in Works :
          /\ Set(j, w) /\ WorkOK(w) /\ w.pc \in {"ready", "bound"}
          /\ w.rows = job[j].rows /\ w.replay = job[j].replay
          /\ w.todo = job[j].todo \ {s}
          /\ w.pc = "bound" =>
               /\ w.search = s /\ w.rows[s].status = "active"
               /\ ~w.replay => w.rows[s].checked < w.horizon
    BY <2>1, TakeTyped
  <2>3. s \in job[j].todo /\ job'[j] = w
    BY <1>3, <2>1, <2>2 DEF JobTake
  <2>4. ASSUME NEW x \in InHand(w), Once(x) PROVE ReadOK(w, x)
    <3>1. x \in InHand(job[j])
      BY <2>2, <2>3, <2>4 DEF InHand, Busy
    <3>2. ReadOK(job[j], x)
      BY <2>4, <3>1 DEF RepeatInv, ReadsOK
    <3> QED BY <2>2, <3>2 DEF ReadOK
  <2>5. ASSUME Busy(w), Once(w.search) PROVE DueOK(w)
    <3>1. w.pc = "bound" /\ w.search \in InHand(w)
      BY <2>2, <2>5 DEF Busy, InHand, WorkOK
    <3>2. ~w.replay
      BY <2>4, <2>5, <3>1 DEF ReadOK
    <3>3. w.first = 0
      BY <2>2, <3>1 DEF WorkOK
    <3> QED BY <2>2, <3>1, <3>2, <3>3 DEF DueOK
  <2> QED BY <1>2, <2>1, <2>2, <2>3, <2>4, <2>5, WorkRepeats DEF JobTake, store
<1>6. CASE JobMatch(j) \/ JobUnchecked(j)
  <2>1. PICK w \in Works :
          /\ job'[j] = w /\ WorkOK(w) /\ w.pc \in {"matched", "read"} /\ SameSearch(w, job[j])
          /\ \/ JobMatch(j) /\ w.pc = "matched" /\ w.matches = Matches(j)
             \/ JobUnchecked(j) /\ w.matches = job[j].matches /\ w.first = First(j)
    BY <1>3, <1>6, MatchTyped, UncheckedTyped DEF WorkOK
  <2>2. Busy(job[j]) /\ Busy(w) /\ InHand(w) = InHand(job[j])
    BY <1>6, <2>1 DEF JobMatch, JobUnchecked, At, Busy, InHand, SameSearch
  <2>3. ASSUME NEW x \in InHand(w), Once(x) PROVE ReadOK(w, x)
    BY <2>1, <2>2, <2>3 DEF RepeatInv, ReadsOK, ReadOK, SameSearch
  <2>4. ASSUME Once(w.search) PROVE DueOK(w)
    <3>1. DueOK(job[j])
      BY <2>1, <2>2, <2>4 DEF RepeatInv, DuesOK, SameSearch
    <3>2. ~job[j].replay
      <4>1. w.search \in InHand(w)
        BY <2>1, <2>2 DEF InHand, WorkOK
      <4> QED BY <2>1, <2>3, <2>4, <4>1 DEF ReadOK, SameSearch
    <3>3. CASE JobMatch(j) /\ w.pc = "matched" /\ w.matches = Matches(j)
      <4>1. Matches(j) \cap job[j].rows[job[j].search].keys = {}
        BY <3>2 DEF Matches, InWindow, Known
      <4>2. w.first = 0
        BY <2>1, <3>3 DEF WorkOK
      <4> QED BY <2>1, <3>1, <3>3, <4>1, <4>2 DEF DueOK, SameSearch
    <3>4. CASE JobUnchecked(j) /\ w.matches = job[j].matches /\ w.first = First(j)
      <4>1. job[j].search \notin Featured => First(j) = 0
        BY DEF First, Unchecked
      <4>2. job[j].pc = "matched"
        BY <3>4 DEF JobUnchecked, At
      <4> QED BY <2>1, <3>1, <3>4, <4>1, <4>2 DEF DueOK, SameSearch
    <3> QED BY <2>1, <3>3, <3>4
  <2>5. UNCHANGED <<journal, saved, alerts>>
    BY <1>6 DEF JobMatch, JobUnchecked, store
  <2> QED BY <1>2, <2>1, <2>3, <2>4, <2>5, WorkRepeats
<1>7. CASE UNCHANGED <<journal, saved, alerts>> /\ (Set(j, NextSearch(j)) \/ Set(j, NoWork))
  <2>1. PICK w \in {NextSearch(j), NoWork} : job'[j] = w
    BY <1>1, <1>3, <1>7, NextSearchTyped, NoWorkTyped
  <2> QED BY <1>2, <1>7, <2>1, LeavingRepeats, WorkRepeats
<1>8. CASE JobNoDraft(j) /\ saved' = Committed(j) /\ Decision(j) = "write"
           /\ Cardinality(NewKeys(j)) <= KeyCap
  <2>1. PICK s \in Search : s = job[j].search
    BY <1>1, <1>8 DEF JobNoDraft, At, WorkOK, Busy
  <2>2. /\ job[j].pc = "read" /\ Busy(job[j]) /\ writer = Nobody /\ UNCHANGED <<journal, alerts>>
        /\ Set(j, NextSearch(j)) /\ Stored(s)
        /\ ~job[j].replay => saved[s].checked = job[j].rows[s].checked
    BY <1>8, <2>1, Views DEF JobNoDraft, At, Decision, Busy
  <2>3. ASSUME Once(s)
        PROVE  saved[s].keys = job[j].rows[s].keys /\ saved[s].checked = job[j].rows[s].checked
    <3>1. s \in InHand(job[j])
      BY <2>1, <2>2 DEF InHand
    <3>2. ReadOK(job[j], s)
      BY <2>3, <3>1 DEF RepeatInv, ReadsOK
    <3> QED BY <2>2, <3>2 DEF ReadOK
  <2>4. \A i \in Job \ {j} : job[i].pc # "drafted"
    BY <1>1, <2>2, Writers
  <2> QED BY <1>8, <2>1, <2>2, <2>3, <2>4, CommitRepeats
<1>9. CASE JobCommit(j)
  <2>1. PICK s \in Search : s = job[j].search
    BY <1>1, <1>9 DEF JobCommit, At, WorkOK, Busy
  <2>2. /\ job[j].pc = "drafted" /\ UNCHANGED journal /\ saved' = Committed(j)
        /\ Set(j, NextSearch(j)) /\ alerts' = alerts \cup {Name(j)}
    BY <1>9 DEF JobCommit, At
  <2>3. Cardinality(NewKeys(j)) <= KeyCap
    BY <1>1, <2>2, Views DEF WorkOK
  <2>4. \A i \in Job \ {j} : job[i].pc # "drafted"
    BY <1>1, <2>2
  <2>5. Once(s) => /\ Stored(s) /\ saved[s].keys = job[j].rows[s].keys
                   /\ s \notin Featured => saved[s].checked = job[j].rows[s].checked
    BY <2>1, <2>2 DEF RepeatInv, DraftsOK, DraftOK
  <2>6. stage[Name(j)] # "none"
    BY <2>2, Views DEF RepeatInv, DraftsOK
  <2> QED BY <2>1, <2>2, <2>3, <2>4, <2>5, <2>6, CommitRepeats
<1>10. CASE JobDraft(j)
  BY <1>10, DraftRepeats
<1> QED BY <1>4, <1>5, <1>6, <1>7, <1>8, <1>9, <1>10
        DEF JobStep, JobGiveUp, JobEnd, JobNoDraft, store

LEMMA RepeatInit ==
  ASSUME Init
  PROVE  RepeatInv
<1>1. job = [j \in Job |-> NoWork] /\ alerts = {}
  BY DEF Init
<1>2. \A j \in Job : job[j].pc = "idle" /\ InHand(job[j]) = {} /\ ~Busy(job[j])
  BY <1>1, NoWorkTyped DEF InHand
<1> QED BY <1>1, <1>2 DEF RepeatInv, ReadsOK, DuesOK, DraftsOK, LogKept, NoneTwice, NoRepeatBy

LEMMA RepeatNext ==
  ASSUME Types, LogInv, RepeatInv, LeftInv, [Next]_vars
  PROVE  RepeatInv'
<1>1. CASE UNCHANGED vars
  <2>1. UNCHANGED <<journal, store, job>>
    BY <1>1 DEF vars
  <2> QED BY <2>1, RepeatStays DEF journal, store, RowKept, Stored
<1> QED BY <1>1, NextSteps, SavingRepeats, RemovalRepeats, JobRepeats, SurroundingsRepeat

-----------------------------------------------------------------------------
(* What an interrupted run leaves.                                         *)

\* A step of anybody but a job.
LEMMA LeftStays ==
  ASSUME Types, LogInv, LeftInv,
         UNCHANGED <<body, job>>, today <= today', today' \in Days,
         \A k \in Draft : stage'[k] = "none" <=> stage[k] = "none",
         \A s \in Search :
           \/ /\ saved'[s].checked = saved[s].checked /\ saved'[s].keys = saved[s].keys
              /\ Stored(s)' <=> Stored(s)
              /\ \A k \in alerts : k[1] = s => k \in alerts'
           \/ ~Stored(s)'
           \/ saved[s].status = "none"
           \/ s \in Featured
  PROVE  LeftInv'
<1>1. today \in Days /\ job \in [Job -> Works]
  BY DEF Types, Stores, Jobs
<1>2. ASSUME NEW j \in Job PROVE HandOK(job[j])'
  <2>1. HandOK(job[j]) /\ job[j].active \in Days
    BY <1>1, <1>2 DEF LeftInv, Works
  <2> QED BY <1>1, <2>1, ConstantsAssumption DEF HandOK, Busy, Alone, Window, Days
<1>3. ASSUME NEW s \in Search, Alone(s) PROVE LeftOK(s)'
  <2> SUFFICES ASSUME NEW d \in Days, stage'[<<s, d>>] # "none"
               PROVE  /\ d <= today'
                      /\ \A j \in Job : job[j].pc # "idle" => d <= job[j].active
                      /\ Stored(s)' /\ saved'[s].checked < d /\ <<s, d>> \notin alerts' =>
                           body[<<s, d>>].shown = FirstOf(Window(saved[s], d))'
    BY DEF LeftOK, FirstOf
  <2>1. <<s, d>> \in Draft /\ stage[<<s, d>>] # "none"
    BY DraftNames
  <2>2. /\ d <= today
        /\ \A j \in Job : job[j].pc # "idle" => d <= job[j].active
        /\ Stored(s) /\ saved[s].checked < d /\ <<s, d>> \notin alerts =>
             body[<<s, d>>].shown = FirstOf(Window(saved[s], d))
    BY <1>3, <2>1 DEF LeftInv, LeftOK
  <2>3. d <= today'
    BY <1>1, <2>2, ConstantsAssumption DEF Days
  <2>4. saved[s].status # "none" /\ s \notin Featured
    BY <1>3, <2>1 DEF LogInv, Fresh, Alone
  <2>5. ASSUME Stored(s)', saved'[s].checked < d, <<s, d>> \notin alerts'
        PROVE  body[<<s, d>>].shown = FirstOf(Window(saved[s], d))'
    <3>1. /\ saved'[s].checked = saved[s].checked /\ saved'[s].keys = saved[s].keys
          /\ Stored(s) /\ <<s, d>> \notin alerts
      BY <2>4, <2>5
    <3>2. Window(saved[s], d)' = Window(saved[s], d)
      BY <3>1 DEF Window
    <3> QED BY <2>2, <2>5, <3>1, <3>2 DEF FirstOf
  <2> QED BY <2>2, <2>3, <2>5
<1>4. \A s \in Search : Alone(s)' <=> Alone(s)
  BY DEF Alone
<1> QED BY <1>2, <1>3, <1>4 DEF LeftInv

LEMMA SavingLeft ==
  ASSUME Types, LogInv, LeftInv, NEW s \in Search, Save(s) \/ Renew(s) \/ Lapse(s)
  PROVE  LeftInv'
<1>1. saved \in [Search -> Row] /\ today \in Days
  BY DEF Types, Stores
<1>2. UNCHANGED <<journal, alerts, job, today>>
  BY DEF Save, Renew, Lapse, mls
<1>3. \A x \in Search \ {s} : saved'[x] = saved[x]
  BY <1>1 DEF Save, Renew, Lapse
<1>4. \/ saved[s].status = "none" \/ s \in Featured
      \/ /\ saved'[s].checked = saved[s].checked /\ saved'[s].keys = saved[s].keys
         /\ Stored(s)' <=> Stored(s)
  BY <1>1 DEF Save, Renew, Lapse, Stored, Row
<1>5. \A x \in Search \ {s} : Stored(x)' <=> Stored(x)
  BY <1>3 DEF Stored
<1> QED BY <1>1, <1>2, <1>3, <1>4, <1>5, LeftStays, ConstantsAssumption DEF journal, Days

LEMMA RemovalLeft ==
  ASSUME Types, LogInv, LeftInv, NEW t \in Target,
         IssueCode(t) \/ CodeLapses(t) \/ RemoveDrafts(t) \/ RemoveRows(t)
  PROVE  LeftInv'
<1>1. UNCHANGED <<body, job, today>> /\ today \in Days /\ alerts \subseteq Draft
  BY DEF IssueCode, CodeLapses, RemoveDrafts, RemoveRows, journal, mls, Types, Stores
<1>2. \A k \in Draft : stage'[k] = "none" <=> stage[k] = "none"
  <2>1. CASE RemoveDrafts(t)
    <3>1. PICK ds \in SUBSET Draft : Gate!Withdraw(ds)
      BY <2>1 DEF RemoveDrafts, Withdrawn
    <3> QED BY <3>1, WithdrawMoves DEF StageMoves, Types, Stores
  <2>2. CASE ~RemoveDrafts(t)
    BY <2>2 DEF IssueCode, CodeLapses, RemoveRows, journal
  <2> QED BY <2>1, <2>2
<1>3. CASE UNCHANGED <<saved, alerts>>
  BY <1>1, <1>2, <1>3, LeftStays, ConstantsAssumption DEF Stored, Days
<1>4. CASE /\ saved' = [s \in Search |->
                         IF s \in Wanted(t) THEN [NoRow EXCEPT !.status = "removed"] ELSE saved[s]]
           /\ alerts' = {k \in alerts : k[1] \notin Wanted(t)}
  <2>1. [NoRow EXCEPT !.status = "removed"].status = "removed"
    BY DEF NoRow
  <2>2. ASSUME NEW s \in Search
        PROVE  \/ /\ saved'[s].checked = saved[s].checked /\ saved'[s].keys = saved[s].keys
                  /\ Stored(s)' <=> Stored(s)
                  /\ \A k \in alerts : k[1] = s => k \in alerts'
               \/ ~Stored(s)'
    <3> HIDE DEF NoRow
    <3> QED BY <1>4, <2>1 DEF Stored
  <2> QED BY <1>1, <1>2, <2>2, LeftStays, ConstantsAssumption DEF Days
<1> QED BY <1>3, <1>4 DEF IssueCode, CodeLapses, RemoveDrafts, RemoveRows, store

LEMMA SurroundingsLeft ==
  ASSUME Types, LogInv, LeftInv, Surroundings
  PROVE  LeftInv'
<1>1. UNCHANGED <<store, body, job>>
  BY DEF Surroundings, Operator, Tick, ServerRestart, Rebuild, Edit, journal
<1>2. \A k \in Draft : stage'[k] = "none" <=> stage[k] = "none"
  <2>1. CASE Operator
    BY <2>1, OperatorMoves DEF Types, Stores, StageMoves
  <2>2. CASE UNCHANGED journal
    BY <2>2 DEF journal
  <2> QED BY <2>1, <2>2 DEF Surroundings, Tick, ServerRestart, Rebuild, Edit
<1>3. today <= today' /\ today' \in Days
  BY ConstantsAssumption
     DEF Surroundings, Operator, Tick, ServerRestart, Rebuild, Edit, mls, Types, Stores, Days
<1> QED BY <1>1, <1>2, <1>3, LeftStays DEF store, Stored

\* A job that works on and writes nothing.
LEMMA WorkLeft ==
  ASSUME LeftInv, NEW j \in Job, NEW w,
         UNCHANGED <<journal, saved, alerts, today>>,
         job'[j] = w, \A i \in Job \ {j} : job'[i] = job[i], HandOK(w),
         w.pc # "idle" => w.active = today \/ (job[j].pc # "idle" /\ w.active = job[j].active)
  PROVE  LeftInv'
<1>1. ASSUME NEW i \in Job PROVE HandOK(job[i])'
  BY DEF LeftInv, HandOK, Busy, Alone, Window
<1>2. ASSUME NEW s \in Search, Alone(s) PROVE LeftOK(s)'
  <2>1. LeftOK(s)
    BY <1>2 DEF LeftInv
  <2> QED BY <2>1 DEF LeftOK, journal, Stored, FirstOf, Window
<1> QED BY <1>1, <1>2 DEF LeftInv, Alone

\* A job done with its search, or ended, has nothing in hand.
LEMMA LeavingLeft ==
  ASSUME Types, LeftInv, NEW j \in Job, job[j].pc # "idle", NEW w \in {NextSearch(j), NoWork}
  PROVE  /\ HandOK(w)
         /\ w.pc # "idle" => w.active = job[j].active
<1>1. NextSearch(j).active = job[j].active
  BY NoWorkTyped, ConstantsAssumption DEF NextSearch, NoWork
<1>2. ~Busy(w) /\ (w.pc # "idle" => w.active = job[j].active)
  BY <1>1, NextSearchTyped, NoWorkTyped DEF Types, Jobs
<1> QED BY <1>2 DEF HandOK, LeftInv, Busy

\* A job that commits has checked the day of every draft there is.
LEMMA CommitLeft ==
  ASSUME Types, LogInv, RepeatInv, LeftInv, NEW j \in Job, job[j].pc \in {"read", "drafted"},
         Cardinality(NewKeys(j)) <= KeyCap, saved' = Committed(j),
         UNCHANGED <<journal, today>>, Set(j, NextSearch(j)), alerts \subseteq alerts'
  PROVE  LeftInv'
<1>1. /\ job \in [Job -> Works] /\ saved \in [Search -> Row] /\ WorkOK(job[j])
      /\ job[j].search \in Search /\ Busy(job[j]) /\ NextSearch(j) \in Works
  BY NextSearchTyped DEF Types, Stores, Jobs, WorkOK, Busy
<1>2. /\ saved'[job[j].search].checked = EndOf(job[j])
      /\ \A x \in Search \ {job[j].search} : saved'[x] = saved[x]
  BY <1>1, CommittedTyped, Views
<1>3. job'[j] = NextSearch(j) /\ \A i \in Job \ {j} : job'[i] = job[i]
  BY <1>1 DEF Set
<1>4. HandOK(NextSearch(j)) /\ NextSearch(j).active = job[j].active /\ job[j].pc # "idle"
  <2>1. NextSearch(j).pc # "idle"
    BY <1>1, NextSearchTyped
  <2> QED BY <2>1, LeavingLeft
<1>5. ASSUME NEW i \in Job PROVE HandOK(job[i])'
  BY <1>3, <1>4 DEF LeftInv, HandOK, Busy, Alone, Window
<1>6. ASSUME NEW s \in Search, Alone(s) PROVE LeftOK(s)'
  <2> SUFFICES ASSUME NEW d \in Days, stage[<<s, d>>] # "none"
               PROVE  /\ d <= today
                      /\ \A i \in Job : job'[i].pc # "idle" => d <= job'[i].active
                      /\ Stored(s)' /\ saved'[s].checked < d /\ <<s, d>> \notin alerts' =>
                           body[<<s, d>>].shown = FirstOf(Window(saved[s], d))'
    BY DEF LeftOK, FirstOf, journal
  <2>1. /\ d <= today
        /\ \A i \in Job : job[i].pc # "idle" => d <= job[i].active
        /\ Stored(s) /\ saved[s].checked < d /\ <<s, d>> \notin alerts =>
             body[<<s, d>>].shown = FirstOf(Window(saved[s], d))
    BY <1>6 DEF LeftInv, LeftOK
  <2>2. \A i \in Job : job'[i].pc # "idle" => d <= job'[i].active
    BY <1>3, <1>4, <2>1
  <2>3. CASE s = job[j].search
    <3>1. Once(s)
      BY <1>6 DEF Once, Alone
    <3>2. job[j].first = 0 /\ job[j].horizon = job[j].active
      BY <1>1, <1>6, <2>3, <3>1 DEF RepeatInv, DuesOK, DueOK, LeftInv, HandOK, Alone
    <3>3. saved'[s].checked = job[j].active /\ d <= job[j].active
      BY <1>2, <1>4, <2>1, <2>3, <3>2 DEF EndOf
    <3>4. job[j].active \in Nat /\ d \in Nat
      BY <1>1, ConstantsAssumption DEF Works, Days
    <3> QED BY <2>1, <2>2, <3>3, <3>4
  <2>4. CASE s # job[j].search
    <3>1. saved'[s] = saved[s]
      BY <1>2, <2>4
    <3> QED BY <2>1, <2>2, <3>1 DEF Stored, FirstOf, Window
  <2> QED BY <2>3, <2>4
<1> QED BY <1>5, <1>6 DEF LeftInv, Alone

\* The draft of an interrupted run shows what the row promises for its day, since the
\* row the job read is the row that stands.
LEMMA DraftLeft ==
  ASSUME Types, LogInv, RepeatInv, LeftInv, NEW j \in Job, JobDraft(j)
  PROVE  LeftInv'
<1> DEFINE w == job[j]
           s == w.search
           k == <<s, w.horizon>>
           v == [w EXCEPT !.pc = "drafted"]
<1>1. /\ job \in [Job -> Works] /\ w \in Works /\ WorkOK(w) /\ Gate!TypeOK
      /\ body \in [Draft -> [counted : SUBSET Listing, shown : SUBSET Listing]]
      /\ today \in Days
  BY DEF Types, Stores, Jobs
<1>2. /\ w.pc = "read" /\ Busy(w) /\ s \in Search /\ k \in Draft /\ k = Name(j)
      /\ UNCHANGED <<saved, alerts, today>> /\ Stored(s)
      /\ ~w.replay => saved[s].checked = w.rows[s].checked
  <2>1. w.pc = "read"
    BY DEF JobDraft, At
  <2>2. Busy(w) /\ s \in Search /\ k \in Draft
    BY <1>1, <2>1, DraftNames DEF WorkOK, Busy, Works
  <2> QED BY <2>1, <2>2, Views DEF JobDraft, Decision, store, mls
<1>3. job'[j] = v /\ \A i \in Job \ {j} : job'[i] = job[i]
  BY <1>1 DEF JobDraft, Set
<1>4. /\ v.pc = "drafted" /\ v.active = w.active /\ v.search = s /\ v.horizon = w.horizon
      /\ v.matches = w.matches /\ v.rows = w.rows
  BY <1>1 DEF Works
<1>5. \/ /\ \A m \in Draft \ {k} : stage'[m] = stage[m] /\ body'[m] = body[m]
         /\ body'[k].shown = ShownOf(w)
      \/ stage[k] # "none" /\ UNCHANGED <<stage, body>>
  <2>1. CASE Gate!Propose(k)
             /\ body' = [body EXCEPT ![k] = [counted |-> w.matches, shown |-> Shown(j)]]
    BY <1>1, <1>2, <2>1, Views DEF Gate!Propose, Gate!Advance, Gate!TypeOK
  <2>2. CASE stage[k] # "none" /\ UNCHANGED journal
    BY <2>2 DEF journal
  <2> QED BY <1>2, <2>1, <2>2 DEF JobDraft
<1> HIDE DEF v
<1>6. HandOK(w)
  BY DEF LeftInv
<1>7. HandOK(v)
  BY <1>2, <1>4, <1>6 DEF HandOK, Busy
<1>8. ASSUME NEW i \in Job PROVE HandOK(job[i])'
  BY <1>2, <1>3, <1>7 DEF LeftInv, HandOK, Busy, Alone, Window
<1>9. \A i \in Job : job'[i].pc # "idle" => job[i].pc # "idle" /\ job'[i].active = job[i].active
  BY <1>2, <1>3, <1>4
<1> HIDE DEF k
<1>10. ASSUME NEW x \in Search, Alone(x) PROVE LeftOK(x)'
  <2> SUFFICES ASSUME NEW d \in Days, stage'[<<x, d>>] # "none"
               PROVE  /\ d <= today
                      /\ \A i \in Job : job'[i].pc # "idle" => d <= job'[i].active
                      /\ Stored(x) /\ saved[x].checked < d /\ <<x, d>> \notin alerts =>
                           body'[<<x, d>>].shown = FirstOf(Window(saved[x], d))
    BY <1>2 DEF LeftOK, FirstOf, Stored, Window
  <2>1. <<x, d>> \in Draft
    BY DraftNames
  <2>2. CASE stage[<<x, d>>] # "none" /\ body'[<<x, d>>] = body[<<x, d>>]
    <3>1. /\ d <= today
          /\ \A i \in Job : job[i].pc # "idle" => d <= job[i].active
          /\ Stored(x) /\ saved[x].checked < d /\ <<x, d>> \notin alerts =>
               body[<<x, d>>].shown = FirstOf(Window(saved[x], d))
      BY <1>10, <2>2 DEF LeftInv, LeftOK
    <3> QED BY <1>9, <2>2, <3>1
  <2>3. CASE <<x, d>> = k /\ body'[k].shown = ShownOf(w)
    <3>1. x = s /\ d = w.horizon
      BY <2>3 DEF k
    <3>2. /\ w.horizon = w.active /\ w.active <= today
          /\ w.matches = Window(w.rows[s], w.horizon)
      BY <1>2, <1>6, <1>10, <3>1 DEF HandOK
    <3>3. Once(s) /\ s \in InHand(w)
      BY <1>2, <1>10, <3>1 DEF Once, Alone, InHand
    <3>4. saved[s].checked = w.rows[s].checked /\ saved[s].keys = w.rows[s].keys
      BY <1>2, <1>10, <3>1, <3>3 DEF RepeatInv, ReadsOK, ReadOK, Alone
    <3>5. body'[<<x, d>>].shown = FirstOf(Window(saved[x], d))
      <4>1. Window(saved[s], w.horizon) = w.matches
        BY <3>2, <3>4 DEF Window
      <4> QED BY <2>3, <3>1, <4>1 DEF ShownOf, FirstOf
    <3>6. \A i \in Job : i = j
      BY <1>10 DEF Alone
    <3>7. d = w.active /\ d <= today
      BY <3>1, <3>2
    <3>8. \A i \in Job : job'[i].active = d
      BY <1>3, <1>4, <3>6, <3>7
    <3> QED BY <3>5, <3>7, <3>8 DEF Days
  <2> QED BY <1>5, <2>1, <2>2, <2>3
<1> QED BY <1>8, <1>10 DEF LeftInv, Alone

LEMMA JobLeft ==
  ASSUME Types, LogInv, RepeatInv, LeftInv, NEW j \in Job, JobStep(j)
  PROVE  LeftInv'
<1>1. /\ job \in [Job -> Works] /\ saved \in [Search -> Row] /\ WorkOK(job[j])
      /\ today \in Days /\ job[j] \in Works
  BY DEF Types, Stores, Jobs
<1>2. \A i \in Job \ {j} : job'[i] = job[i]
  BY JobWorksOn DEF WorksOn
<1>3. ASSUME NEW v, Set(j, v) PROVE job'[j] = v
  BY <1>1, <1>3 DEF Set
<1>4. CASE \E r \in Search \cup {Nobody} : JobStart(j, r)
  <2>1. PICK r \in Search \cup {Nobody} : JobStart(j, r)
    BY <1>4
  <2>2. PICK todo, replay :
          Set(j, [NoWork EXCEPT !.pc = "ready", !.active = today, !.rows = saved,
                                !.replay = replay, !.todo = todo])
    BY <2>1 DEF JobStart
  <2> DEFINE w == [NoWork EXCEPT !.pc = "ready", !.active = today, !.rows = saved,
                                 !.replay = replay, !.todo = todo]
  <2>3. w.pc = "ready" /\ w.active = today
    BY DEF NoWork
  <2> HIDE DEF w
  <2>4. HandOK(w)
    BY <1>1, <2>3, ConstantsAssumption DEF HandOK, Busy, Days
  <2>5. job'[j] = w
    BY <1>3, <2>2 DEF w
  <2> QED BY <1>2, <2>1, <2>3, <2>4, <2>5, WorkLeft DEF JobStart, store, mls
<1>5. CASE \E s \in Search : JobTake(j, s)
  <2>1. PICK s \in Search : JobTake(j, s)
    BY <1>5
  <2> DEFINE horizon == IF s \in Featured THEN Min2(job[j].active, built.day) ELSE job[j].active
             left == [job[j] EXCEPT !.todo = job[j].todo \ {s}]
             taken == [left EXCEPT !.pc = "bound", !.search = s,
                                   !.horizon = horizon, !.mark = built.no]
  <2>2. job[j].pc = "ready" /\ (Set(j, left) \/ Set(j, taken))
    BY <2>1 DEF JobTake, At
  <2> HIDE DEF horizon
  <2>3. left.pc = "ready" /\ left.active = job[j].active
    BY <1>1, <2>2 DEF Works
  <2>4. /\ taken.pc = "bound" /\ taken.active = job[j].active /\ taken.search = s
        /\ taken.horizon = horizon
    BY <1>1 DEF Works
  <2> HIDE DEF left, taken
  <2>5. job[j].active <= today
    BY <2>2 DEF LeftInv, HandOK
  <2>6. HandOK(left) /\ HandOK(taken)
    BY <2>3, <2>4, <2>5 DEF HandOK, Busy, Alone, horizon
  <2>7. job'[j] = left \/ job'[j] = taken
    BY <1>3, <2>2
  <2> QED BY <1>2, <2>1, <2>2, <2>3, <2>4, <2>6, <2>7, WorkLeft DEF JobTake, store, mls
<1>6. CASE JobMatch(j)
  <2> DEFINE w == [job[j] EXCEPT !.pc = "matched", !.matches = Matches(j)]
  <2>1. job[j].pc = "bound" /\ Busy(job[j]) /\ job'[j] = w
    BY <1>3, <1>6 DEF JobMatch, At, Busy
  <2>2. /\ w.pc = "matched" /\ w.active = job[j].active /\ w.horizon = job[j].horizon
        /\ w.search = job[j].search /\ w.rows = job[j].rows /\ w.matches = Matches(j)
    BY <1>1 DEF Works
  <2> HIDE DEF w
  <2>3. HandOK(job[j]) /\ job[j].search \in Search
    BY <1>1, <2>1 DEF LeftInv, WorkOK
  <2>4. ASSUME Alone(job[j].search)
        PROVE  Matches(j) = Window(job[j].rows[job[j].search], job[j].horizon)
    <3>1. Once(job[j].search) /\ job[j].search \in InHand(job[j])
      BY <2>1, <2>3, <2>4 DEF Once, Alone, InHand
    <3>2. ~job[j].replay
      BY <3>1 DEF RepeatInv, ReadsOK, ReadOK
    <3> QED BY <2>4, <3>2 DEF Matches, InWindow, Known, Window, Alone
  <2>5. HandOK(w)
    BY <2>1, <2>2, <2>3, <2>4 DEF HandOK, Busy
  <2> QED BY <1>2, <1>6, <2>1, <2>2, <2>5, WorkLeft DEF JobMatch, store, mls
<1>7. CASE JobUnchecked(j)
  <2> DEFINE w == [job[j] EXCEPT !.pc = "read", !.first = First(j)]
  <2>1. job[j].pc = "matched" /\ Busy(job[j]) /\ job'[j] = w
    <3>1. Set(j, w)
      BY <1>7, Zenon DEF JobUnchecked, First
    <3> QED BY <1>3, <1>7, <3>1 DEF JobUnchecked, At, Busy
  <2>2. /\ w.pc = "read" /\ w.active = job[j].active /\ w.horizon = job[j].horizon
        /\ w.search = job[j].search /\ w.rows = job[j].rows /\ w.matches = job[j].matches
    BY <1>1 DEF Works
  <2> HIDE DEF w
  <2>3. HandOK(w)
    BY <2>1, <2>2 DEF LeftInv, HandOK, Busy
  <2> QED BY <1>2, <1>7, <2>1, <2>2, <2>3, WorkLeft DEF JobUnchecked, store, mls
<1>8. CASE /\ UNCHANGED <<journal, saved, alerts, today>> /\ job[j].pc # "idle"
           /\ Set(j, NextSearch(j)) \/ Set(j, NoWork)
  <2>1. PICK w \in {NextSearch(j), NoWork} : job'[j] = w
    BY <1>3, <1>8
  <2> QED BY <1>2, <1>8, <2>1, LeavingLeft, WorkLeft
<1>9. CASE JobNoDraft(j) /\ saved' = Committed(j) /\ Cardinality(NewKeys(j)) <= KeyCap
  BY <1>9, CommitLeft DEF JobNoDraft, At, mls
<1>10. CASE JobCommit(j)
  <2>1. Cardinality(NewKeys(j)) <= KeyCap
    BY <1>1, <1>10, Views DEF WorkOK, JobCommit, At
  <2> QED BY <1>10, <2>1, CommitLeft DEF JobCommit, At, mls
<1>11. CASE JobDraft(j)
  BY <1>11, DraftLeft
<1> QED BY <1>4, <1>5, <1>6, <1>7, <1>8, <1>9, <1>10, <1>11
        DEF JobStep, JobGiveUp, JobEnd, JobNoDraft, store, mls, At

LEMMA LeftInit ==
  ASSUME Init
  PROVE  LeftInv
<1>1. \A j \in Job : job[j].pc = "idle" /\ ~Busy(job[j])
  BY NoWorkTyped DEF Init
<1>2. \A s \in Search, d \in Days : stage[<<s, d>>] = "none"
  BY DraftNames DEF Init, Gate!Init
<1> QED BY <1>1, <1>2 DEF LeftInv, HandOK, LeftOK

LEMMA LeftNext ==
  ASSUME Types, LogInv, RepeatInv, LeftInv, [Next]_vars
  PROVE  LeftInv'
<1>1. CASE UNCHANGED vars
  <2>1. UNCHANGED <<journal, store, job, today>> /\ today \in Days
    BY <1>1 DEF vars, mls, Types, Stores
  <2> QED BY <2>1, LeftStays, ConstantsAssumption DEF journal, store, Stored, Days
<1> QED BY <1>1, NextSteps, SavingLeft, RemovalLeft, JobLeft, SurroundingsLeft

LEMMA RepeatInvariance == Spec => [](Types /\ LogInv /\ RepeatInv /\ LeftInv)
<1>1. Init => Types /\ LogInv /\ RepeatInv /\ LeftInv
  BY TypesInit, LogInit, RepeatInit, LeftInit
<1>2. Types /\ LogInv /\ RepeatInv /\ LeftInv /\ [Next]_vars
        => (Types /\ LogInv /\ RepeatInv /\ LeftInv)'
  BY TypesNext, LogNext, RepeatNext, LeftNext
<1> QED BY <1>1, <1>2, PTL DEF Spec

\* Search by search: one that is not replayed, and that meets at most one of crashes,
\* overlapping jobs and a cursor held back for features, alerts no listing twice,
\* whatever the searches beside it meet.
THEOREM NoneTwiceTheorem == Spec => []NoneTwice
<1>1. RepeatInv => NoneTwice
  BY DEF RepeatInv
<1> QED BY <1>1, RepeatInvariance, PTL

\* No listing is shown in two alerts of the log, whatever is edited, rebuilt, removed,
\* renewed or saved meanwhile: the row that a job read at its start either still
\* stands when the job decides or gives the job away, and what an interrupted run
\* left is what the next one would have made.  A replay repeats on request; of
\* crashes, overlapping jobs and features no two may come together.
THEOREM NoRepeatTheorem ==
  ASSUME Replayable = {},
         \/ ~MayCrash /\ Featured = {}
         \/ ~MayCrash /\ \A i, j \in Job : i = j
         \/ Featured = {} /\ \A i, j \in Job : i = j
  PROVE  Spec => []NoRepeat
<1>1. Types /\ NoneTwice => NoRepeat
  <2>1. \A s \in Search : Once(s)
    BY DEF Once, Alone
  <2>2. Types => \A k \in alerts : k[1] \in Search
    BY DraftNames DEF Types, Stores
  <2> QED BY <2>1, <2>2 DEF NoneTwice, NoRepeatBy, NoRepeat
<1> QED BY <1>1, TypesInvariance, NoneTwiceTheorem, PTL
=============================================================================
