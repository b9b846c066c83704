# A verification development for IDX Agent

IDX Agent answers home-search questions over WhatsApp from a read-only MLS
database, drafts e-mails and listing alerts that a human must approve, analyses
numbers in a throw-away container, and spends paid model calls only under a
human's consent. Its promises are mostly of the form "never": never send twice,
never send what was not approved, never alert twice or skip a listing, never
call a provider beyond the consent, never let unverified words out, never leave
a trial switched on. They are kept by small pieces of stateful code that crash,
race and retry. This directory models those pieces in TLA+, checks them with TLC
and proves what matters most of seven of them with TLAPS.

Contents: 1 Inventory · 2 How the parts interact · 3 The modules and the code ·
4 Runs and bounds · 5 Fairness · 6 Proofs · 7 Where code and documents differ ·
8 Assumptions · 9 Not modelled · 10 What could follow · 11 Running it

Paths below are relative to `src/` of the repository; `idx_agent/` stands for
`src/src/idx_agent/`.

## 1. Inventory

| Component | State | Operations | What is hard about it | What makes it correct |
|---|---|---|---|---|
| Approval ledger, `idx_agent/safety/approval.py` | one append-only JSON-lines file; replayed in full under an exclusive lock by every operation | create_draft, get, list_pending, approve, reject, expire, expire_idempotency_prefixes, claim_send, record_delivery | torn appends, bulk operations that die half way, stale clock readings, several processes | a draft is sent at most once and only as approved; the journal never refuses its own lines; a bad journal stops everything |
| E-mail sender, `idx_agent/email/send.py` | none of its own: it works on the ledger | send: get, claim, transport, record | two senders, a crash between claim and receipt, a transport that takes the message and raises | the lock survives every failure; "sent" is a true receipt |
| Saved searches, `idx_agent/alerts/store.py`, `server.py` | SQLite: searches with checked day and alerted keys, alert log, confirmation codes; the server's cached as-of day | save, renew, list, issue code, confirmed remove | a removal writes two stores and can die between them | a removed search is silent for good |
| Alert job, `idx_agent/alerts/run.py`, `query.py`, `features.py` | its rows and as-of day, read once at start | per search: match, unchecked, decide, draft, commit; replay | overlapping jobs, a crash between journal and SQLite, feature snapshots older than the listings | nothing alerted twice, nothing skipped, the checked day goes forward |
| Paid consent, `scripts/guards/consent_token.py`, `idx_agent/safety/consent.py` | a token file; a budget per process | grant, revoke, admit, consume; start, spend, abort | two locks on two levels, threads and processes, revocation without the lock | one run per token, its ceiling of calls, no call after an abort |
| Container executor, `idx_agent/analysis/executor.py` | a semaphore of two slots, timers, the daemon's containers | run_worker and its clean-up | the daemon may be late, silent or wrong about a removal | the cap holds; no slot is lost or freed twice; a slot comes back |
| WhatsApp channel, `extensions/idx-whatsapp-channel` | a bounded store of turns per peer, two flags per turn | record, the two tool-call seams, deliver | one peer's turns overlap, replies come late, peers are evicted, turns expire | what leaves is grounded in its own turn; no words beside a card; a blocked turn is silent |
| Chart delivery, `idx_agent/analysis/delivery.py` | chart files, a lock file shared by all processes, a ledger and an expiry thread per process | write, supersede, expire, sweep, prune, close | several processes share the cap; expiry, sweeps and kills race a write; a lost wake-up | the cap holds across processes; no chart goes before its reply can have been sent; none stays behind |
| Session memory, `idx_agent/memory/`, the search in `mcp_server/server.py` | filters per sender with a life and a cap; locks that come and go | search in four modes, lookup of a position | two calls of one sender, expiry, eviction and failures between two messages | one search at a time per sender; no page skipped |
| Chart trial, `scripts/chart_trial_armed.py`, `chart_trial_rollback.sh` | a trial directory of marks and claims, `.env`, two locks, a detached watchdog | arm, enable, activated, sent, abort, done, watch, the rollback's steps | the watchdog claims while a step is under way; kills; forged log lines; steps that fail | one rollback; nothing on after it; the record says what is so |
| Batch extraction, `scripts/extract_enrichment_v2_batch.py`, `idx_agent/enrichment/batch_v2.py`, `wave_gate.py` | a SQLite file of rows, batches, failures, waves and checkpoints; batches at the provider | submit, resume, retry, continue, collect, approve a checkpoint | lost answers, commands that stop anywhere, rows that fail again | no row paid twice; nothing dropped; no wave ungated |
| Enrichment access, `idx_agent/enrichment/access.py`, `effective*.py` | an activated store of facets | bind, read | activation while a reader is bound | its caller's view is in SavedSearchAlerts |
| Tool server, `idx_agent/mcp_server/` | none between calls beyond the above | checks, routes, formats | – | tests |
| Queries and pool, `idx_agent/db/` | as-of cache, pool | SQL | the as-of day is read once per process | the cache is in SavedSearchAlerts (`cached`) |
| Analysis service and checks, documents, semantic index, e-mail bodies, the other enrichment programs, domain types, observability, evals, card relay, command guard | none, or files of an offline build | pure functions, formatting, supervised builds | floating point, text | tests |

`PROJECT.json` lists the same components with their status, and under
`hazards` every place in this code that is hard to test, with the property that
would notice it going wrong or the reason why there is none.

## 2. How the parts interact

```
 WhatsApp --> channel (turn store, gate) <--> host runner --> tool server
                                                     |-- alerts server --> SQLite store
                                                     |-- analysis -> executor -> docker
                                                     '-- embeddings -> paid budget -> token file
 operator --> alert job  --> SQLite store, and create_draft --> ledger
 operator --> approve.py --> ledger <-- claim / record -- send_approved.py --> transport
 operator --> consent grant / revoke --> token file <-- admit -- agent's hook
 tool server x n --> chart directory <-- expiry threads, sweeps, prune
 operator --> trial steps --> .env, trial directory <-- watchdog --> rollback script
 operator --> batch extraction --> SQLite store, provider batches (paid budget)
```

Three interactions carry most of the risk and decide how the modules are cut:

* the **sender and the ledger** share drafts through files only: one module,
  `ApprovalLedger`, has both;
* the **alert job and the removal** write SQLite and the ledger, which cannot
  commit together. `SavedSearchAlerts` models SQLite in detail and uses the
  ledger through its abstract promise `GatedSend`, which `ApprovalLedger` is
  proved to implement: the composition rests on the refinement;
* the **human, the hook and the spending processes** meet in the token file:
  `PaidConsent` has all of them.

The others share no state: `WorkerSlots`, `ChartStore`, `SearchMemory`,
`ChartTrial`, `EnrichmentBatch` and `ReplyGate`. Where two or three of them are
checked in one TLC run (`AnalysisMC`, `PaidRunsMC`, `ToolServerMC`), the module
of the run is their sum: a variable `part` says which one a behaviour belongs to,
and the variables of the rest stand still. So a sum says no more than its parts;
`ChartTrial` knows of the tool server only whether one with charts on runs.

## 3. The modules and the code

`PROJECT.json` maps every definition to its lines. A definition named after a
source function translates that function. Definitions preceded by a comment
starting with "Mutant:" are not part of the model: each is a plausible bug in
the definition that follows it, and each property has one that breaks it.

### GatedSend – what the e-mail path promises

`stage[d]` is how far a draft has come, `outbox[d]` how often it left. Drafts
are proposed, approved, claimed; they leave at most once, while claimed; a dead
draft stays dead. `Withdraw` takes a set because a bulk expiry is one write.

### ApprovalLedger – journal and sender

| Model | Code |
|---|---|
| `log[d]` | the lines about draft d; each record has what the digest covers, the state, the approval time and the line's own time |
| `tail` | the end of the file: whole, without its newline, or unreadable |
| `sender[s]` | where process s is in `send()` |
| `owner` | what the owner label resolves to (`recipients.py`) |
| `delivered` | what the transport took; not visible to the code |

Every operation holds an exclusive lock from replay to fsync, so each is one
action, and what can be seen of its inside is a crash: `Tear` writes the line
without its newline or cuts it short. The next append after a missing newline
is glued to it and the file no longer replays. `Replays` is the replay, with its
transition table and its digest. `ExpireDue` is `_current`, which writes
"expired" before its caller sees the draft, and whose callers then refuse;
`get` and `create_draft` do not refuse, which is why their continuations differ.
`create_draft` reads the clock before it waits for the lock, so its `now` may be
`LockWait` old.

`send()` is four steps (`SendGet`, `ClaimSend`, `Transport`, `RecordDelivery`)
with `Crash` between any two. The transport can accept, fail, or accept and
raise. A failed attempt is recorded as "sending" again, so the draft stays
locked for good.

### SavedSearchAlerts – saved searches and the alert job

| Model | Code |
|---|---|
| `saved[s]` | row of `saved_searches`; a lapsed feature row is kept; `since` is the promise the row stands for and not in the code |
| `alerts`, `codes` | the tables `alerts` and the pending confirmations |
| `writer` | who is in a SQLite write transaction (BEGIN IMMEDIATE) |
| `stage`, `outbox`, `body` | the journal through GatedSend, and what each draft counts and shows |
| `today`, `cached`, `built`, `edited` | the MLS as-of day, the server's first reading of it, the enrichment store's build, and each listing's last change relative to the builds |
| `job[j]` | the local variables of one `run_job` |

A job reads its rows and its day once (`JobStart`), and for each search takes it
up and binds the snapshot (`JobTake`), matches (`JobMatch`), asks what the
snapshot cannot speak for (`JobUnchecked`), decides inside the write transaction
(`Decision`), and then either ends the transaction at once (`JobNoDraft`) or
makes the draft in the journal (`JobDraft`) and commits (`JobCommit`). The split
between the last two is where the two stores disagree after a crash. A removal
is split at the same place (`RemoveDrafts`, `RemoveRows`). Transactions that
touch only SQLite are one step, since a rolled-back one is no step at all.

Prices, cities and all other filters are absent: every listing matches the
search's plain filters, in an order that stands for price; `HasFeatures` says
which match the features.

### PaidConsent – the paid token and the budget

`file` is the token, `holder` is who is between reading and replacing it, with
the token it read; `guard[p]` is the lock inside process p, `budget[p]` its run.
Admission and consumption are two steps each, because revoke does not take the
lock they hold. Grant takes it, and is one step. A lazy process (the tool
server) starts its run inside the call that needs it, holding its lock across
the token's consumption; other programs start theirs first. `thread[t].seen`
is the time as read before the lock, as the set of tokens expired by then.
A thread asks for `thread[t].n` calls at once, any number of `Asks`: the batch
program spends the length of a payload (`batch_v2.py:258`), the others one. When
they are more than what is left of the ceiling (`Exceeds`) none is sent and the
run is aborted, though single calls would still fit (`consent.py:234-240`).
`runs` and `sent` count what no variable of the code does.

### WorkerSlots – the container runs

`pc[r]` is a run: slot taken, client started, cleaning up, held (waiting for the
timer), done. `box[r]` is the container as the daemon knows it. `age` counts
from the start of the client, where the code takes its deadline; `up` counts
from the start of the container, where the container's own timer counts from.
The difference between the two is the daemon's `StartDelay`, which the code
does not bound. `Tick` respects the deadlines the code keeps.

A clean-up ends in three ways: the container is gone (`Removed`), the removal is
not confirmed and the slot is held (`NotRemoved`), or both the removal and the
inspect that should show it fail (`RemovedUnseen`): any exit of `docker container
inspect` but 0 reads as "gone" (`executor.py:223-224`), also one of a daemon that
cannot be reached, and the slot is freed while the container stays or still
starts. The ghost `misread` has the runs of such containers.

### ChartStore – the chart files of all server processes

| Model | Code |
|---|---|
| `file[t]`, `mtime[t]` | the directory: nothing, a temporary file or a chart under the names of token t |
| `ledger[p]` | `ChartStore._issued` of process p |
| `writing[p]` | the write in p, which has p's thread lock: polling the file lock, admitted, temporary file, renamed |
| `flock` | who has the lock file |
| `alive[p]` | up, closing (exit clean-up ran) or down |
| `expirer[p]`, `wake[p]`, `timed[p]` | the expiry thread between clear, expire, next check and wait, its event and its timeout |
| `issued[t]`, `owner[t]` | when the write was admitted, and for which session; not all of it is visible to the code |

A write is five actions, and a step of it may fail (`WriteFails`) or its process
be killed (`Dies`) between any two. Sweeps of other processes and the operator's
`prune` take no file lock and run at any moment. Time is kept as ages that stop
growing past the last value a guard tells apart, so no clock is bounded. The
write's own bound, `WriteTime`, is the one assumption on speed (section 8).

An unlink may fail and its callers go on as if the file had gone (`_unlink`,
`delivery.py:648-655`): after a failed write, for a superseded chart, at a deadline,
at a clean exit and in a sweep, whose count then leaves the file out (`Unlink`). A
sweep also leaves out what it cannot stat (`Listed`). Every removal chooses which
of its unlinks and stats fail; a later sweep may get rid of what stayed. Two ghosts,
read by no guard, remember what is still there: `left`, after an unlink that failed,
and `missed`, the charts some admission did not count.

### SearchMemory – the searches of a sender

`sessions` is the store in the order of `put`, `entry` the table of per-sender
locks with their users, `holder` who is inside, `call[c]` what thread c does. A
search is: take up the lock (`wait`), read the session and merge (`search`), query
with any outcome (an error, no result, a refused field, a page), write, and let go
(`leave`, `drop`). Filters are the set of given fields and a page; `last` is the
page last shown, which no code keeps.

### ChartTrial – the live trial and its rollback

| Model | Code |
|---|---|
| `env`, `fragment` | the two switches in `.env`, and the skill list `install.sh` merges |
| `serving` | a tool server that read `.env` with charts on still runs |
| `files`, `pid` | the trial's directory: marks, `fired`, tombstone, record; the pid file |
| `log` | chart_delivery lines since the activation, by what they say and whether their MAC is this trial's |
| `dog[w]` | a `_watch` process: before and after the record lock, watching, firing, rolling, later watch, rerun |
| `recordLock`, `stateLock` | the two locks |
| `shell[o]` | a command of the operator between lock, check, reading and writing `.env` |
| `script[s]` | how far a rollback script is, and whether its steps went well |

Limits (activation, reply, settling, timeout, later watch) are decisions that may
fall at any moment after what starts their clock, so every race of a limit with a
signal is there. `Claim` has the three ways the claim can be made: under the state
lock, without it after the wait, or not written at all. Each step of the script
may fail and the next one runs. A watchdog killed leaves its script running.
`HandEdit`, `Tamper` and an unlocked `install.sh` are what others can do to the
same files.

### EnrichmentBatch – the batch extraction

Rows are numbers; `staged`, `waves`, `approved`, `batches`, `answer`, `failed` and
`verified` are the tables, `remote` is what the provider accepted, and `run` the
command between two transactions. Every check that depends on data left out (the
source's watermark, costs, miss rates, the token) and raises is `Stop`, which is
possible everywhere. `ProviderEnds` lets any rows of a batch fail.

### ReplyGate – the turns, the seams and the gate

The channel's functions are synchronous, so each is one action; what interleaves
is the host, whose runners call tools and deliver replies for old turns at any
time. `turn[t]` is the t-th recorded turn; `order` and `stored` are the Map of
the ingress with its insertion order; `card` and `blocked` are the two flags;
`ran` and `denied` say what really happened to a turn's card tool calls and are
not visible to the gate. `SeamAllows/Refuses/Fails` are the channel's own
before-tool decision, `HookAllows/Refuses/Foreign` the host's hook, which knows
a session and not a turn. `Verified` is the verifier and `WellFormedRelease` the
gate's own check of its verdict.

## 4. Runs and bounds

| Run | What it checks | Bounds, and why they are enough |
|---|---|---|
| `ledger` | types; `AtMostOnce`, `DeliveryAuthorised`, `SentWasDelivered`, `WritersKeepReplay`, `OneDraftPerKey`; the refinement `ImplementsGatedSend` | two drafts, one key and no key, two senders that race, two addresses; Ttl 2, Window 1, clock 3: the window closes before and after a draft expires, and stale creation times occur |
| `alerts_jobs` | types, `NoRepeat`, `NothingSkipped` | two jobs over a plain search, or one over a feature search with three days, three builds and every edit; three listings, and a draft shows one: there is always something to repeat or to lose |
| `alerts_removal` | `RemovedIsSilent`, `NothingSkipped` | one job that may replay and may die, the human and the sender on every draft, removals by search and by sender |
| `alerts_interrupted` | violation: `InterruptedRunReusesDraft` | two days |
| `alerts_rebuild_after_crash` | violation: `NothingSkipped` | two listings, a crash and a rebuild |
| `paid_runs` | types, `OneRunPerGrant`, `CeilingHolds`, `AbortIsFinal`; `NoRowTwice`, `NothingDropped`, `VerifiedIsWhole`, `WavesGated` | the tool server with two threads and a batch program of one command line, two tokens, a ceiling of two calls each; the server asks for one call at a time, the batch program for one or two, so a batch meets the ceiling with none, one or two calls left; ten rows in two tranches of four with batches of two, then waves with a checkpoint inside the first and one at the end: each of the code's constants in its place, scaled down |
| `consent_revoke` | violation: `RevokeEndsWindow` | one token |
| `analysis` | types, `CapHolds`, `SlotsAddUp`; liveness `SlotComesBack`, `Expires` | three runs for two slots, a daemon that starts a container within the removal's timeout, and any removals and inspects that fail; one server process with one session and two charts, Ttl 1, grace 1, any unlinks and stats that fail |
| `tool_server` | types; `FilesCapped`, `NoStrayFile`, `ExpiryArmed`, `RemovedForAReason`; `OneAtATime`, `NoPageSkipped`; `RollsBackOnce`, `StaysOff`, `RecordIsTrue` | two processes for a directory of one chart and two tokens, unlinks and stats that fail (`FaultsAlone` below); two senders, two threads, a store of one session; two watchdogs, a shell, one rerun, one log line |
| `slots_slow_start` | violation: `CapHolds` | a container starts later than the removal's timeout |
| `replies` | types, `Grounded`, `ForgetsOldestPeer`, `NoWordsAfterCard`, `BlockedIsSilent` | three peers for two places, two turns kept per peer, four turns, Ttl 0 on a clock of one: eviction by count, by peers and by time all happen; two peers share a session |
| `batch_dead_end` | violation: `WorkGoesOn` | three rows in two batches |

The passing runs have between 190 thousand and 1.7 million distinct states and take
between half a minute and three minutes each.

Constraints and symmetry:

* `SecondDraftBriefly` (in `ApprovalLedgerMC`): the senders race, the owner moves
  and the last day passes while there is one draft; with a second one, which only
  the key, the bulk expiry and the file's tail relate to the first, the clock ends
  a day earlier and one sender is at work.
* `EachInItsSetting` (in `SavedSearchAlertsMC`) makes `alerts_jobs` two settings:
  two jobs without edits, and one job with them. Overlapping jobs of a feature
  search are in neither (section 9).
* `OneAside` (in `ChartTrialMC`): besides arming, enabling, activating and rolling
  back, one thing goes differently in a behaviour (an abort, a hand edit, a second
  watchdog, a failed claim, a tampered one, an unlocked install and so on), and one
  script runs at a time. The proof of section 6 has no such bound.
* `TwoAtWork` (in `PaidConsentMC`): of the server's two threads and the batch program,
  two are at work at a time. All three meet in the token file only, and the
  proof of section 6 has no such bound.
* `FaultsAlone` (in `ChartStoreMC`): one file at a time is there that an unlink or a stat
  has failed for, and only while one of the two processes is down; a state with both up
  is checked but not followed. So a fault meets a process's own write, expiry thread, kill and
  restart, the operator's prune, and another process that starts after its end, but
  not a race of two live processes. The proof of section 6 has no such bound.
* `JobsOnly` (in `SavedSearchAlertsMC`) keeps the human, the sender and removals
  out of three alert runs. The job's guards never read a draft's stage except
  "none", so what the human does to a draft changes nothing those runs look at;
  `alerts_removal` runs without it.
* `Bounded` (in `ReplyGateMC`) stops behaviours after the first message: no
  guard reads `handed`, and the properties on messages look at the one step that
  hands one over, so every such step is checked from every state. It also limits
  card-tool calls to one turn; the flags of different turns are set
  independently, and the other turns are still there to be marked with it.
* Symmetry is used in runs without liveness only: drafts, senders and addresses;
  jobs; the two threads of the server; the tokens of charts, and the two server
  processes, swapped together with their sessions; the two peers of one session.
* `CHECK_DEADLOCK FALSE` stands in the bounded runs where the instance really
  ends: all drafts of the ledger used and the clock at its bound, all days
  passed, all turns recorded. The other runs check deadlock.
* Alert runs with `MayCrash = FALSE` say what holds without crashes; with crashes
  the same properties fail in the two ways of section 7, and
  `alerts_removal` has crashes on.

## 5. Fairness

Two modules promise that something happens. `WorkerSlots` assumes weak fairness of

* `Step(r)`, a run's own steps: every wait in `run_worker` has a timeout (the
  slot, the output, the client, the removal), and a held slot is freed by a timer
  thread of the process;
* `BoxEnds(r)`: process 1 of a container is `timeout`;
* `Tick`: time goes on.

The daemon gets no fairness for starting a container or confirming a removal.

`ChartStore` assumes

* weak fairness of `WriterStep(p)`: a write that has begun goes on or fails, and
  its polling of the file lock has a deadline;
* strong fairness of `ExpirerStep(p)`: the expiry thread needs the store's thread
  lock, which writes take and release again and again, so it is not enabled for
  good; a thread that waits for a mutex released infinitely often gets it;
* weak fairness of the end of a process that has begun to close;
* strong fairness of `ChartTick`: time goes on, though the model's clock stands
  while a write is at its bound.

No process has to write, sweep, prune or live. The other modules promise safety
only; an operator, a human or a user need not do anything. That an armed trial
ends in a rollback is a promise of the code too, under the same kind of fairness;
it is not checked here, because a liveness run of the trial does not fit the
bounds its safety needs.

## 6. Proofs

Each proof is of the form: an inductive invariant implied by the initial states
and kept by every action, from which the properties follow. All hold for every
value of the constants that meets the named ASSUME of the module.

### The ledger

`ApprovalLedgerProofs` holds for any sets of drafts, keys, addresses and senders and any
Ttl, Window and clock, under `ConstantsAssumption` (positive Ttl and Window, and the two
"none" values outside their sets).

| Theorem | Says |
|---|---|
| `TypeCorrect` | `Spec => [](TypeOK /\ SendersHaveDrafts)` |
| `ReplayTheorem` | `Spec => []WritersKeepReplay` |
| `LedgerInvariance` | `Spec => []LedgerInv`, the inductive invariant |
| `AtMostOnceTheorem` | `Spec => []AtMostOnce` |
| `ReceiptTheorem` | `Spec => []SentWasDelivered` |
| `AuthorisedTheorem` | `Spec => []DeliveryAuthorised` |
| `OneDraftTheorem` | `Spec => []OneDraftPerKey` |
| `RefinementTheorem` | `Spec => ImplementsGatedSend` |

The argument. `AtMostOnce` is not inductive: nothing in it says that a process
about to deliver is the only one, or that its draft has not left yet. Two facts
are missing, and they are proved apart. Both start from `LogStep`, which looks at every
action once: a step writes nothing, one line of one draft, or "expired" lines of
several live drafts.

1. *Histories* (`HistoryInv`). Whatever action runs, each draft's lines stay as
   they are or get one record that `Follows` the last one (`LogGrows`). From this
   alone, without looking at the actions again, a history stays one that
   replays, holds a timely approval before any "sending", and has nothing after
   "rejected" or "expired".
2. *Senders* (`SendInv`). A process past its claim owns its draft: the last
   record is "sending", no other process is past the claim of the same draft,
   and the number of deliveries fits the process's step. Here the lemmas say that
   an operation on live drafts leaves a locked one alone, because no transition
   leads out of "sending" except the owner's.

`LedgerInv` is types, histories and senders together; each result follows from
it. For the refinement, a line moves its draft's stage (the state of the last
record) as one action of GatedSend does, the expired lines are one `Withdraw`, and
the transport, the only other step that is not a stutter, finds its draft claimed
by `LedgerInv`. The ghosts (`delivered`, the line times) are used in the statements and in no
guard.

### The saved searches and their alerts

`SavedSearchAlertsProofs`, for any searches, senders, listings, days, builds, caps and
jobs. `ConstantsAssumption` says that processes, searches and senders are different
things, that listing numbers and days are natural numbers and that the caps are positive.

| Theorem | Says | Premise |
|---|---|---|
| `TypeTheorem` | `Spec => []TypeOK`, with the cap on a row's keys | – |
| `SilenceTheorem` | `Spec => []RemovedIsSilent` | – |
| `PlainSearchTheorem` | `NothingSkipped`, for the searches without features | – |
| `NothingSkippedTheorem` | `Spec => []NothingSkipped` | no feature searches, or no crashes |
| `NoneTwiceTheorem` | search by search, no listing in two alerts | see below |
| `NoRepeatTheorem` | `Spec => []NoRepeat` | no replays, and at most one of crashes, overlapping jobs, feature searches |

*Removals.* `RemovedIsSilent` speaks of drafts after the rows are gone. What makes it true
happens before: from the first half of a removal to its end the write lock is held, and
under it the wanted searches have no live draft (`TakenAway`), since only a job makes
drafts and it would hold that lock.

*Nothing skipped.* A listing counts as dealt with when a row's keys or its checked day
say so, and a row is a claim about drafts that other steps made, partly before a crash.
`RowsCovered` is that claim, for the rows in the table and for the copies the jobs have
read; `Windows` says that what a job has found is its whole window but for the
listings its snapshot cannot speak for, all of them at or after its first unchecked day;
`DraftsWhole` says that the draft of a plain search has its whole window, also when
nobody logged it. The claim is about the days after `Low`, the smaller of the promise and
of what a save would start from now; it never falls. The premise is finding 2: after a
crash and a rebuild the old draft of a feature search lacks what the new run matches.

*Nothing twice.* A logged draft shows only what its row remembers (`LogKept`), and a job
matches nothing its copy of the row remembers (`DuesOK`), so the copy must be current
when the job decides. Either it is, or the checked day of the row has moved on, which
the decision compares (`ReadsOK`). Two things are not seen by that comparison: a
cursor held back by a listing that could not be checked, which a second job finds
unmoved; and a draft an interrupted run has left in the journal, which is returned as it is.
The latter is harmless when the next run would make the same draft (`LeftInv`: such a draft
shows what a run of its day would show, and no later run is of an earlier day), which is
so for a plain search and one job at a time. TLC breaks `NoRepeat` for each pair of the
three: crashes and overlapping jobs; overlapping jobs and a feature search; crashes and a
feature search (a listing edited after the crash holds the cursor back, the rerun logs
the first run's draft which shows it, and a later run shows it again). A replay
repeats what it is asked for.

### The paid token

`PaidConsentProofs`, for any processes, threads, commands, tokens and ceilings:
`OneRunTheorem`, `CeilingTheorem`, `AbortTheorem` (an action property) and the
types. The ceiling holds whatever numbers of calls are asked for at once (`Asks` is any
set of positive numbers for each process). `OneRunPerGrant` is not inductive, since
the token is copied: into the hand of who admits or consumes it, back into the file, into a budget. The invariant
follows the copies: an unconsumed token, in the file or in a hand, was never
spent (`Unspent`); a spent grant is with exactly one thread that has just claimed
it or in exactly one budget (`SpentGranted`, `Claimed`); and that budget's count
is what was sent under the grant (`Budgeted`). `RevocationTheorem` says what a
revocation does achieve, where `RevokeEndsWindow` fails (finding 3): a token that is
out of reach, revoked while the hook was not between reading and replacing it,
stays out of reach, and nobody takes it from the file again.

### The container slots

`WorkerSlotsProofs`, for any numbers of runs and slots and any timeouts:
`SlotsTheorem` (each slot that is not free has one run), `SlotsTypeCorrect`, and
`CapTheorem`: `CapHolds` under the premise `StartsInTime`, that a daemon starts a
container in less than the timeout of a removal. The premise is the one that finding 4
shows to be needed. The cap is of the containers not in `misread`: the plain cap breaks
as soon as an inspect fails for a container that runs on, and what is proved is that
this is the only way, one container over for each such inspect, whatever the other
runs do meanwhile.

### The chart store

`ToolServerProofs`, for any processes, sessions, tokens and times: `CapAcrossProcesses`,
`NoStrayTheorem`, `ArmedTheorem`, `ReasonTheorem` and the types. Beside the
properties themselves the invariant says that a writer past admission has the file
lock and its temporary name (`Writers`), that the chart a lock holder is about to
write has room kept for it, however many files the sweeps take away (`RoomKept`),
what a ledger may hold (`Recorded`), and that a file is no older than its issue
(`Ages`). `CapAcrossProcesses` is of the charts that every admission counted
(all but `missed`), and `NoStrayTheorem` lets a file be with no ledger only when an
unlink of it failed (`left`); both hold however often unlinks and stats fail. What a
removal does is said once, in `Loss`: what is gone, what stays behind marked, and
who loses a ledger entry; each action that removes files is shown to be one
(`AdmitEffect`, `DueLoss`), and the parts of the invariant are shown of a
loss. Cardinalities are compared with the library's finite-set theorems.

### The session memory

`ToolServerProofs`, for any senders, threads, requests, locks, caps and lives:
`MemoryTypes`, `OneAtATimeTheorem` and `NoPageSkippedTheorem`. The hard part is that a lock
goes with its last user and a new one comes with the next, so that "the lock of a sender"
is not one thing. `KeyLocks` counts: an entry's users are exactly the calls of that sender
between entering and leaving, all of them know the entry's lock, and no two
entries share one. So there is one lock while there is a call, and a lock made anew is
nobody else's (`FreshLockIsFresh`). Other senders' calls, the cap and the clock may take
a session from the store meanwhile, but while it is there it says what the search has
read (`SearchTrue`), and it holds the page shown last or a refused first page
(`StoreTrue`), so the page after it is the next one. `PartTypes` joins the types of
charts, memory and trial for the run that has all three.

### The chart trial

`ChartTrialProofs`, for any watchdogs and shells, reruns and lengths of the log:
`OneRollback`, `OffForGood`, `TrueRecord` and the types. `RollsBackOnce` needs that
a watchdog past its start has the record lock (`Alone`) and that, once the claim was
written, none of them watches a trial that fired (`Once`). `StaysOff` needs that a
command acts under the state lock (`Locked`), so that a claim made under it finds no
`enable` past its check, and none gets there again (`Shut`). `RecordIsTrue` needs
that a word "pass" has a signed line behind it (`Sworn`), and what a script whose
steps went well so far has reached (`Scripted`): after its first step `.env` is off
since the claim, and after its third no server is left, nor can one start.

### The reply gate

`ReplyGateProofs`, for any peers, sessions and figures, any bounds of the store and
any times: the types, `GroundedTheorem`, `ForgetsTheorem`, `CardTheorem` and
`SilenceTheorem` (the last two are action properties). The marks of a turn live in an
entry that may be evicted or expire, and a tool call that finds no entry leaves none. The
argument is that trust
is never regained (`TrustShrinks`): a turn whose mark could not be set is one on
which nothing but the fixed text can leave. So every turn that is still trusted
carries the marks of its tool calls (`Marked`, `Tainted`).

### The batch extraction

`EnrichmentBatchProofs`, for a source of any size, any reused rows and any sizes of
tranches, waves and batches: `PaidOnce` (`NoRowTwice`), `DroppedNothing`,
`WholeTheorem` (`VerifiedIsWhole`), `WavesTheorem` (`WavesGated`) and the types. What
is planned is a suffix of the table, and a batch is posted right after it stopped
being planned, so the provider's batches are in the order of their numbers (`Walk`).
Two batches share a row only if the earlier one has it as a failure, which the
provider reported (`Shared`). The groups of a plan cover its rows, so a staged row
without a result is in a batch, and when all batches are done every row has one
(`Whole`). `WavesTheorem` has the premise that a whole number of tranches reaches
`WaveFrom` (2000 and 8000 in the code): otherwise a tranche could step over a
checkpoint that nobody approved. It needs that rows still unanswered belong to the
newest wave (`NewRows`).

### Only model-checked

Every safety invariant and action property that a passing run checks is stated by a
theorem; four under a premise (`CapHolds`, `WavesGated`, `NothingSkipped` and `NoRepeat`, as
above), which the violations of section 7 or TLC show to be needed. Three of the
properties (`CapHolds`, `FilesCapped`, `NoStrayFile`) and the liveness `Expires` name what
a call that failed unseen has left over and speak of the rest. Only model-checked are
liveness (`SlotComesBack`, `Expires`), which is out of the prover's reach, and the
properties that do not hold. No proof of this directory is by induction over data: a
function defined by recursion is nowhere needed.

## 7. Where code and documents differ

Each is a run that ends in a counterexample, and a row of `findings`.

1. **An interrupted alert run is drafted again on a later day**
   (`alerts_interrupted`). The draft's key holds the run's as-of day.
   `docs/ALERTS.md:77` promises that the next run receives the same draft; it does
   only while the day is the same.
2. **A rerun after a rebuild on the same day loses a listing**
   (`alerts_rebuild_after_crash`). The rerun matches more, gets the first run's
   draft back unchanged, and commits the larger match as alerted. An edit after the
   crash can do the opposite, a listing alerted twice (section 6).
   `docs/ALERTS.md:116` and `:123` promise deferral, not loss.
3. **A revoked token can come back** (`consent_revoke`). `revoke` unlinks the
   file without the lock; an admission in progress then replaces it and writes
   the token again. `docs/AGENT_RULES.md:184` and
   `docs/ACTIVATION_HANDOFF.md:351` say revoke ends the window.
4. **The two-run cap counts from the client, not the container**
   (`slots_slow_start`). When the daemon starts a container more than
   REMOVE_TIMEOUT_S late and its removal fails, the slot is freed while it still
   runs. The comment at `executor.py:380` says the cap still holds. A second way to the
   same end is an inspect that fails (`executor.py:223-224`), against the docstring
   "True once confirmed gone"; there the start need not be late. `CapHolds` leaves these
   containers out (`misread`), so the run shows the late start alone.
5. **The batch extraction can get stuck** (`batch_dead_end`). When a submit stops
   after its first batch and that batch comes back with a failed row, the planned
   batch and the failed row each block every command that would go on
   (`extract_enrichment_v2_batch.py:460`, `batch_v2.py:413`, `batch_v2.py:117`).
   `work_orders/WO-018-remarks-enrichment.md:415` says continuation needs an approval
   and a token; with both there is no way on but an edit of the database.

## 8. Assumptions

* The wall clock does not step back, and one operation of the journal happens at
  one instant after its lock is taken (except create_draft's stale reading).
* File locks exclude, fsync and rename are durable and atomic.
* SQLite write transactions exclude one another and roll back when their process
  dies.
* MLS tables change in whole daily snapshots: a listing's contract day is not
  before the day it becomes visible.
* A container's own timer is exact; the daemon never starts a container that it
  really removed. A failing inspect, which the code takes for a removal, is modelled
  and assumed nothing of.
* A file that an unlink or a stat fails for is otherwise an ordinary file: a later
  sweep may succeed.
* The host does not name another session's key in the before-tool event: the
  extension's README names this as a residual risk, and the hook cannot see it.
* An admitted chart write takes no longer than `WriteTime`; random chart names do
  not repeat.
* A line's MAC cannot be made without the trial's key, and a pid in a trial's
  directory is not given to another process during the trial.
* Model bounds in guards: `MaxClock`, `MaxDay`, `MaxBuild`, `MaxSaved`, `MaxGrants`,
  `MaxCalls`, `MaxTurns`, `MaxBatches`, `MaxLines`, `LockWait`,
  `WriteTime`; and `Asks`, the calls asked for at once.

## 9. Not modelled, and why

* Text: formats, wording, parsing of listings and requests, the figure grammar,
  peer-id canonicalisation, how `identity.py` hashes a sender. The gate's
  properties say which turn a text is compared with, not how figures are read.
* Numbers: statistics, rankings, costs and miss rates, and their checks, which are
  floating point.
* Offline builds (documents, semantic index), the synchronous extraction
  (`full_batch.py`) and the pilots: one supervised process each.
* The minute tokens for deletes and the command guard's matching: pure
  functions of a command line and a clock.
* `sweep_leftovers`, the channel's silent-withhold mode and start-up self-check.
* The chart trial's one more rollback after an exception in the later watch, and
  the rotation of the log it reads.
* Overlapping alert jobs of a feature search on different as-of days: `NoRepeat`
  does not hold there (the held cursor makes the comparison in `_decide`,
  `alerts/run.py:70`, pass), nor with two of crashes, overlapping jobs and feature
  searches in any other pairing (section 6). The model has these behaviours.
  `docs/ALERTS.md:121` says that nothing is alerted twice, of runs that end and
  do not overlap; no document speaks of the others, so no run is about them. A replay skips the same
  comparison and may write an older cursor over a newer one; the window it re-reads
  has its listings excluded by key.
* That a chart which could not be removed goes in the end: nothing in the process
  comes back to it (`docs/CHART_DELIVERY.md:191` names the case of a stat that
  fails), and a later sweep need not happen.
* A listing the feed delivers late, with a contract date on or before the checked
  day (`alerts/query.py:31`), is outside every later window. The documents take a
  listing's day as its contract day, so the model does too.
* The clock readings taken before a lock: that a paid call may follow its token's
  expiry by the wait for the lock, and that an alerts server keeps its first as-of
  day for life, are in the models (`seen`, `cached`); no document bounds them, so
  no property does.
* The refusal of a wave while a failure stands in the last tranche before the
  waves is in the guard of the wave, not in a property of its own.

## 10. What could follow

Done, in the order of what a failure would cost: GatedSend, ApprovalLedger and
its proofs; SavedSearchAlerts over GatedSend and its proofs; PaidConsent and
EnrichmentBatch with theirs; WorkerSlots, ChartStore, SearchMemory, ChartTrial and
ReplyGate with theirs.

1. `SnapshotAccess` (`enrichment/access.py`, `effective.py`): binding while an
   activation happens, and then SavedSearchAlerts over its abstract promise.
2. The resumable synchronous extraction (`full_batch.py`), whose store and retries
   resemble EnrichmentBatch with one call per row.
3. `sweep_leftovers` as an action of WorkerSlots; the silent-withhold mode of
   ReplyGate.
4. Proofs: what does hold where section 7 has a counterexample, as `CapTheorem` does for the
   container cap and `RevocationTheorem` for the token: an interrupted run that goes on
   the same day (finding 1), a batch extraction without failed rows (finding 5).

## 11. Running it

```
tlc -workers 2 -config Ledger.cfg ApprovalLedgerMC.tla
tlapm ApprovalLedgerProofs.tla
```

`PROJECT.json` names the module and the configuration of every run. The longest,
`analysis`, takes about three minutes with two workers; each proof module takes from a
few seconds to a few minutes.
