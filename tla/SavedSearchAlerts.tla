------------------------- MODULE SavedSearchAlerts -------------------------
(***************************************************************************)
(* Saved searches and the job that drafts their alerts (alerts/store.py,   *)
(* alerts/run.py, alerts/query.py, alerts/features.py), composed with the  *)
(* promise of the approval journal (module GatedSend).                     *)
(*                                                                         *)
(* Two stores are written and cannot commit together: the private SQLite   *)
(* store, whose write transactions exclude one another, and the journal,   *)
(* where a draft is durable at once.  A step that writes both is therefore *)
(* split at the journal's write, with the SQLite lock held in between.     *)
(*                                                                         *)
(* A draft is named by its idempotency key, <<search, as-of day>>; its     *)
(* stage and its departures are GatedSend's variables.                     *)
(*                                                                         *)
(* The MLS tables are read as whole daily snapshots: the listings of a day *)
(* are all there from that day on.                                         *)
(***************************************************************************)
EXTENDS Integers, FiniteSets

CONSTANTS
  Search,       \* saved-search ids, never reused
  Featured,     \* the searches with listing features
  Bucket,       \* senders
  BucketOf,     \* whose search it would be
  Listing,      \* listing keys, numbered in price order
  Day,          \* the day a listing is first listed
  HasFeatures,  \* the listings that have the features
  Job,          \* operator processes running the job
  Nobody,       \* no writer, no search
  Replayable,   \* the searches the operator may --replay
  MayCrash,     \* whether jobs and removals may die half way
  MaxDay,       \* bound on the days
  MaxBuild,     \* bound on the builds of the enrichment store
  Cap,          \* listings a draft shows: 10 in the code
  KeyCap,       \* alerted keys a search keeps: 500 in the code
  MaxSaved      \* searches of a sender: 5 in the code

ASSUME ConstantsAssumption ==
  /\ Featured \subseteq Search /\ Replayable \subseteq Search
  /\ Listing \subseteq Nat /\ HasFeatures \subseteq Listing
  /\ BucketOf \in [Search -> Bucket]
  /\ Day \in [Listing -> Nat \ {0}]
  /\ {MaxDay, MaxBuild, Cap, KeyCap, MaxSaved} \subseteq Nat \ {0}
  /\ MayCrash \in BOOLEAN
  /\ Nobody \notin Job \cup Search \cup Bucket
  /\ Job \cap (Search \cup Bucket) = {}

VARIABLES
  stage, outbox,  \* the journal, as module GatedSend has it
  body,           \* body[k]: the listings draft k counts and the ones it shows
  saved,          \* saved[s]: the row of search s
  alerts,         \* the alert log: a set of draft names
  codes,          \* removals with a standing confirmation code
  writer,         \* who is in a SQLite write transaction
  today,          \* the MLS tables' active as-of day
  cached,         \* that day as the alerts server read it at its first use
  built,          \* the enrichment store: its build number and source day
  edited,         \* edited[l]: the build that was current at l's last change
  job             \* job[j]: what process j is doing

store == <<saved, alerts, codes>>
journal == <<stage, outbox, body>>
mls == <<today, cached, built, edited>>
vars == <<journal, store, writer, mls, job>>

Days == 0..MaxDay
Draft == Search \X Days
Target == Search \cup Bucket   \* delete one search, or forget a sender

\* The journal: GatedSend with these drafts.
Gate == INSTANCE GatedSend

NoRow == [status |-> "none", checked |-> 0, since |-> 0, keys |-> {}]

\* "since" is not in the code: the checked day of the save or the renewal, the
\* day after which the search promises alerts.
Row == [status : {"none", "active", "lapsed", "removed"},
        checked : Days, since : Days, keys : SUBSET Listing]

NoWork == [pc |-> "idle", replay |-> FALSE, active |-> 0, rows |-> [s \in Search |-> NoRow],
           todo |-> {}, search |-> Nobody, horizon |-> 0, mark |-> 0, matches |-> {}, first |-> 0]

TypeOK ==
  /\ Gate!TypeOK
  /\ body \in [Draft -> [counted : SUBSET Listing, shown : SUBSET Listing]]
  /\ saved \in [Search -> Row]
  /\ alerts \subseteq Draft
  /\ codes \subseteq Target
  /\ writer \in Job \cup Target \cup {Nobody}
  /\ today \in Days /\ cached \in Days
  /\ built \in [no : 1..MaxBuild, day : Days]
  /\ edited \in [Listing -> 0..MaxBuild]
  /\ \A j \in Job : job[j].pc \in {"idle", "ready", "bound", "matched", "read", "drafted"}
  /\ \A s \in Search : Cardinality(saved[s].keys) <= KeyCap

Init ==
  /\ Gate!Init
  /\ body = [k \in Draft |-> [counted |-> {}, shown |-> {}]]
  /\ saved = [s \in Search |-> NoRow]
  /\ alerts = {}
  /\ codes = {}
  /\ writer = Nobody
  /\ today = 0 /\ cached = 0
  /\ built = [no |-> 1, day |-> 0]
  /\ edited = [l \in Listing |-> 0]
  /\ job = [j \in Job |-> NoWork]
-----------------------------------------------------------------------------
(* The alerts server: saving and removing.                                 *)

Min2(a, b) == IF a < b THEN a ELSE b
Max2(a, b) == IF a > b THEN a ELSE b

Stored(s) == saved[s].status \in {"active", "lapsed"}
Own(b) == {s \in Search : BucketOf[s] = b /\ Stored(s)}

\* The as-of day a save starts from: the day the server process has cached,
\* and for features no later than the snapshot's.
SaveHorizon(s) == IF s \in Featured THEN Min2(cached, built.day) ELSE cached

Save(s) ==
  /\ writer = Nobody
  /\ saved[s].status = "none"
  /\ Cardinality(Own(BucketOf[s])) < MaxSaved
  /\ saved' = [saved EXCEPT ![s] = [status |-> "active", checked |-> SaveHorizon(s),
                                    since |-> SaveHorizon(s), keys |-> {}]]
  /\ UNCHANGED <<journal, alerts, codes, writer, mls, job>>

\* Saving a feature search that lapsed renews it in place, keys and all.
Renew(s) ==
  /\ writer = Nobody
  /\ s \in Featured /\ saved[s].status = "lapsed"
  /\ LET from == Max2(saved[s].checked, SaveHorizon(s)) IN
       saved' = [saved EXCEPT ![s].status = "active", ![s].checked = from, ![s].since = from]
  /\ UNCHANGED <<journal, alerts, codes, writer, mls, job>>

\* 180 days pass without a renewal.
Lapse(s) ==
  /\ saved[s].status = "active"
  /\ saved' = [saved EXCEPT ![s].status = "lapsed"]
  /\ UNCHANGED <<journal, alerts, codes, writer, mls, job>>

\* The searches a removal is about, read when it is carried out.
Wanted(t) == IF t \in Bucket THEN Own(t) ELSE {s \in {t} : Stored(s)}

IssueCode(t) ==
  /\ writer = Nobody
  /\ Wanted(t) # {}
  /\ codes' = codes \cup {t}
  /\ UNCHANGED <<journal, saved, alerts, writer, mls, job>>

\* Ten minutes pass.
CodeLapses(t) ==
  /\ t \in codes
  /\ codes' = codes \ {t}
  /\ UNCHANGED <<journal, saved, alerts, writer, mls, job>>

\* Mutant: only the drafts in the alert log are withdrawn.
WithdrawnLogged(t) ==
  {k \in alerts : k[1] \in Wanted(t) /\ stage[k] \in {"pending", "approved"}}

\* The drafts a removal withdraws: every live one under the searches' keys,
\* logged or not.
Withdrawn(t) == {k \in Draft : k[1] \in Wanted(t) /\ stage[k] \in {"pending", "approved"}}

\* The confirmed removal, first half: the lock is taken and the drafts expire.
\* A crash among them leaves some alive and the store as it was.
RemoveDrafts(t) ==
  /\ writer = Nobody /\ t \in codes
  /\ \/ Gate!Withdraw(Withdrawn(t)) /\ writer' = t
     \/ /\ MayCrash
        /\ \E some \in SUBSET Withdrawn(t) : Gate!Withdraw(some)
        /\ UNCHANGED writer
  /\ UNCHANGED <<body, store, mls, job>>

\* Second half: the rows go and the transaction commits, or dies with them.
RemoveRows(t) ==
  /\ writer = t
  /\ writer' = Nobody
  /\ \/ /\ saved' = [s \in Search |->
                       IF s \in Wanted(t) THEN [NoRow EXCEPT !.status = "removed"] ELSE saved[s]]
        /\ alerts' = {k \in alerts : k[1] \notin Wanted(t)}
        /\ codes' = codes \ ({t} \cup {s \in Search : BucketOf[s] = t})
     \/ MayCrash /\ UNCHANGED store
  /\ UNCHANGED <<journal, mls, job>>
-----------------------------------------------------------------------------
(* The job.                                                                *)

At(j, pc) == job[j].pc = pc
Set(j, work) == job' = [job EXCEPT ![j] = work]

\* The job is done with its current search, or leaves it.
NextSearch(j) ==
  [NoWork EXCEPT !.pc = "ready", !.replay = job[j].replay, !.active = job[j].active,
                 !.rows = job[j].rows, !.todo = job[j].todo]

\* The as-of day and all rows are read once, before the first search.
JobStart(j, replay) ==
  /\ At(j, "idle")
  /\ LET all == {s \in Search : Stored(s)} IN
       /\ replay # Nobody => replay \in Replayable \cap all
       /\ Set(j, [NoWork EXCEPT !.pc = "ready", !.active = today, !.rows = saved,
                                !.replay = replay # Nobody,
                                !.todo = IF replay = Nobody THEN all ELSE {replay}])
  /\ UNCHANGED <<journal, store, writer, mls>>

\* The job takes up search s.  A lapsed search, or one already checked through
\* the active day, is skipped.  A feature search first binds the snapshot,
\* which may refuse for reasons of its own.
JobTake(j, s) ==
  /\ At(j, "ready") /\ s \in job[j].todo
  /\ LET row == job[j].rows[s]
         horizon == IF s \in Featured THEN Min2(job[j].active, built.day) ELSE job[j].active
         left == [job[j] EXCEPT !.todo = @ \ {s}]
         due == row.status = "active" /\ saved[s].status # "lapsed"
                /\ (job[j].replay \/ horizon > row.checked) IN
       \/ Set(j, left)
       \/ /\ due
          /\ Set(j, [left EXCEPT !.pc = "bound", !.search = s,
                                 !.horizon = horizon, !.mark = built.no])
  /\ UNCHANGED <<journal, store, writer, mls>>

\* What the job knows of its search: the row it read at its start.
Known(j) == job[j].rows[job[j].search]

\* Mutant: the listings already alerted are not excluded.
InWindowAgain(j, l) == Day[l] \in (Known(j).checked + 1)..job[j].horizon

\* The window of the real row, which is also what a replay holds its cursor by.
InWindow(j, l) ==
  Day[l] \in (Known(j).checked + 1)..job[j].horizon /\ l \notin Known(j).keys

\* A listing changed since the snapshot the job bound has no usable features.
Changed(j, l) == edited[l] >= job[j].mark

Matches(j) ==
  {l \in Listing :
     /\ IF job[j].replay THEN Day[l] <= job[j].horizon ELSE InWindow(j, l)
     /\ job[j].search \in Featured => l \in HasFeatures /\ ~Changed(j, l)}

JobMatch(j) ==
  /\ At(j, "bound")
  /\ Set(j, [job[j] EXCEPT !.pc = "matched", !.matches = Matches(j)])
  /\ UNCHANGED <<journal, store, writer, mls>>

\* The listings of the window the snapshot cannot speak for.
Unchecked(j) ==
  {l \in Listing : job[j].search \in Featured /\ InWindow(j, l) /\ Changed(j, l)}

JobUnchecked(j) ==
  /\ At(j, "matched")
  /\ LET days == {Day[l] : l \in Unchecked(j)}
         first == IF days = {} THEN 0 ELSE CHOOSE d \in days : \A e \in days : d <= e IN
       Set(j, [job[j] EXCEPT !.pc = "read", !.first = first])
  /\ UNCHANGED <<journal, store, writer, mls>>

\* An error before the commit leaves the search as it was and the job goes on;
\* after create_draft the journal keeps its draft.
JobGiveUp(j) ==
  /\ job[j].pc \in {"bound", "matched", "read"} \/ (MayCrash /\ At(j, "drafted"))
  /\ Set(j, NextSearch(j))
  /\ writer' = IF writer = j THEN Nobody ELSE writer
  /\ UNCHANGED <<journal, store, mls>>

\* Mutant: the first listing that could not be checked counts as checked.
CursorAtFirst(j) == IF job[j].first = 0 THEN job[j].horizon ELSE job[j].first

\* Mutant: the cursor is the MLS day when the update is made.
CursorAtToday(j) == today

\* Mutant: the cursor is the first day that was not checked.
CursorNextDay(j) == IF job[j].first = 0 THEN job[j].horizon + 1 ELSE job[j].first

\* Never past the horizon, never past a listing that could not be checked.
CursorOf(j) == IF job[j].first = 0 THEN job[j].horizon ELSE job[j].first - 1

Shown(j) == {l \in job[j].matches : Cardinality({m \in job[j].matches : m < l}) < Cap}

\* The keys the row gets: the ones read at the start and the shown listings.
NewKeys(j) == Known(j).keys \cup Shown(j)

\* The draft of job j.
Name(j) == <<job[j].search, job[j].horizon>>

\* Mutant: the row is not read again inside the transaction.
DecisionUnread(j) == IF Name(j) \in alerts THEN "drafted" ELSE "write"

\* What to do for a checked search, read inside the write transaction.
Decision(j) ==
  LET s == job[j].search
      prior == Name(j) \in alerts IN
  IF ~Stored(s) \/ (~job[j].replay /\ saved[s].checked # Known(j).checked)
    THEN "changed"
  ELSE IF /\ s \in Featured /\ ~job[j].replay
          /\ prior \/ (job[j].matches = {} /\ CursorOf(j) = Known(j).checked)
    THEN "stalled"
  ELSE IF prior THEN "drafted" ELSE "write"

\* The job's update of the row.
Committed(j) ==
  [saved EXCEPT ![job[j].search].checked = CursorOf(j), ![job[j].search].keys = NewKeys(j)]

\* The transaction that needs no draft: nothing to do, too many keys, or no
\* match.  It begins and ends in one step, as no other store is touched.
JobNoDraft(j) ==
  /\ At(j, "read") /\ writer = Nobody
  /\ LET writes == Decision(j) = "write" /\ Cardinality(NewKeys(j)) <= KeyCap IN
       \/ ~writes /\ UNCHANGED saved
       \/ writes /\ job[j].matches = {} /\ saved' = Committed(j)
  /\ Set(j, NextSearch(j))
  /\ UNCHANGED <<journal, alerts, codes, writer, mls>>

\* create_draft inside the transaction.  A draft that already has this key is
\* returned as it is, whatever its stage and its content.
JobDraft(j) ==
  /\ At(j, "read") /\ writer = Nobody
  /\ Decision(j) = "write" /\ Cardinality(NewKeys(j)) <= KeyCap /\ job[j].matches # {}
  /\ LET k == Name(j) IN
       \/ /\ Gate!Propose(k)
          /\ body' = [body EXCEPT ![k] = [counted |-> job[j].matches, shown |-> Shown(j)]]
       \/ stage[k] # "none" /\ UNCHANGED journal
  /\ writer' = j
  /\ Set(j, [job[j] EXCEPT !.pc = "drafted"])
  /\ UNCHANGED <<store, mls>>

\* The log row and the search row, committed together.
JobCommit(j) ==
  /\ At(j, "drafted")
  /\ alerts' = alerts \cup {Name(j)}
  /\ saved' = Committed(j)
  /\ writer' = Nobody
  /\ Set(j, NextSearch(j))
  /\ UNCHANGED <<journal, codes, mls>>

\* Killed, or done.  A transaction in progress is rolled back; the journal
\* keeps its draft.
JobEnd(j) ==
  /\ ~At(j, "idle")
  /\ MayCrash \/ (At(j, "ready") /\ job[j].todo = {})
  /\ Set(j, NoWork)
  /\ writer' = IF writer = j THEN Nobody ELSE writer
  /\ UNCHANGED <<journal, store, mls>>
-----------------------------------------------------------------------------
(* The surroundings.                                                       *)

\* The human and the sender, on any draft of the journal.
Operator ==
  /\ \E k \in Draft :
       \/ Gate!Approve(k) \/ Gate!Claim(k) \/ Gate!Leave(k) \/ Gate!Confirm(k)
       \/ Gate!Withdraw({k})
  /\ UNCHANGED <<body, store, writer, mls, job>>

Tick ==
  /\ today < MaxDay
  /\ today' = today + 1
  /\ UNCHANGED <<journal, store, writer, cached, built, edited, job>>

\* The alerts server starts anew and reads the day again.
ServerRestart ==
  /\ cached # today /\ cached' = today
  /\ writer \notin Target
  /\ UNCHANGED <<journal, store, writer, today, built, edited, job>>

\* The enrichment store is rebuilt from the tables as they are.
Rebuild ==
  /\ built.no < MaxBuild
  /\ built' = [no |-> built.no + 1, day |-> today]
  /\ UNCHANGED <<journal, store, writer, today, cached, edited, job>>

\* A listing's row changes: its change time is past the snapshot's watermark.
Edit(l) ==
  /\ Day[l] <= today
  /\ edited' = [edited EXCEPT ![l] = built.no]
  /\ UNCHANGED <<journal, store, writer, today, cached, built, job>>

Next ==
  \/ \E s \in Search : Save(s) \/ Renew(s) \/ Lapse(s)
  \/ \E t \in Target : IssueCode(t) \/ CodeLapses(t) \/ RemoveDrafts(t) \/ RemoveRows(t)
  \/ \E j \in Job :
       \/ \E r \in Search \cup {Nobody} : JobStart(j, r)
       \/ \E s \in Search : JobTake(j, s)
       \/ JobMatch(j) \/ JobUnchecked(j) \/ JobGiveUp(j)
       \/ JobNoDraft(j) \/ JobDraft(j) \/ JobCommit(j) \/ JobEnd(j)
  \/ Operator \/ Tick \/ ServerRestart \/ Rebuild
  \/ \E l \in Listing : Edit(l)

Spec == Init /\ [][Next]_vars
-----------------------------------------------------------------------------
(* Properties.                                                             *)

\* A removed search has no draft left that could still be approved or claimed:
\* not one of a job that raced the removal, nor one an interrupted job left
\* in the journal without a log row.
RemovedIsSilent ==
  \A k \in Draft : saved[k[1]].status = "removed" => stage[k] \notin {"pending", "approved"}

\* No listing is shown in two alerts of the log ("nothing is alerted twice").
NoRepeat ==
  \A k, m \in alerts : k # m /\ k[1] = m[1] => body[k].shown \cap body[m].shown = {}

\* The checked day never passes over a listing: every listing the search asks
\* for, first listed after the save and no later than the checked day, was in
\* some draft, shown or in the count of additional matches.  Deferral, a
\* competing job, a lapse, a renewal and an interrupted run lose none.
NothingSkipped ==
  \A s \in Search, l \in Listing :
    /\ Stored(s) /\ Day[l] \in (saved[s].since + 1)..saved[s].checked
    /\ s \in Featured => l \in HasFeatures
    => \E d \in Days : l \in body[<<s, d>>].counted

\* "If interrupted between those writes, the next run receives the same draft
\* ID": an interrupted run and the run after it never make two drafts of one
\* listing for one search.
InterruptedRunReusesDraft ==
  \A k, m \in Draft : k # m /\ k[1] = m[1] => body[k].shown \cap body[m].shown = {}
=============================================================================
