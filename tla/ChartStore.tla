----------------------------- MODULE ChartStore -----------------------------
(***************************************************************************)
(* The chart files of the bounded analysis (analysis/delivery.py).         *)
(*                                                                         *)
(* Every chat session has a server process of its own, and all of them     *)
(* write PNGs into one directory that the channel reads.  A write holds    *)
(* the store's thread lock and a file lock all processes share, makes      *)
(* room, writes a temporary file, renames it and records the token in the  *)
(* process's ledger.  A thread of each process removes the charts of its   *)
(* ledger at their deadline; sweeps, which take no file lock, remove what  *)
(* is too old whoever wrote it.  Every removal goes on when an unlink      *)
(* fails, as if the file were gone: the token is forgotten, the file is    *)
(* left out of the count.  So does a sweep with a file it cannot stat.     *)
(*                                                                         *)
(* Time is kept as ages that stop growing where nothing tells them apart.  *)
(* A token is a place: random names do not repeat, so a place serves again *)
(* once neither a file nor a ledger has it.  A directory or a lock that    *)
(* cannot be used refuses a write at once, as WriteFails does.             *)
(***************************************************************************)
EXTENDS Naturals, FiniteSets

CONSTANTS
  Server,          \* the server processes
  Session,         \* the MCP sessions: the owners of charts
  HostOf,          \* HostOf[s]: the server of session s
  Token,           \* places for charts
  Ttl,             \* TTL_SECONDS: 300
  SupersedeGrace,  \* SUPERSEDE_GRACE_SECONDS: 120
  StaleTemp,       \* STALE_TEMP_SECONDS: 60
  MaxFiles,        \* MAX_FILES: 20
  LockWait,        \* LOCK_WAIT_SECONDS: 2
  WriteTime,       \* bound: how long a write may take once it is admitted
  Nobody           \* no session, no server, no token

ASSUME ChartAssumption ==
  /\ {Ttl, SupersedeGrace, StaleTemp, LockWait, WriteTime} \subseteq Nat
  /\ SupersedeGrace <= Ttl
  /\ MaxFiles \in Nat \ {0}
  /\ HostOf \in [Session -> Server]
  /\ IsFiniteSet(Token)
  /\ Nobody \notin Server \cup Session \cup Token

VARIABLES
  file,     \* file[t]: what the directory has under the names of t
  mtime,    \* mtime[t]: time since that file was written
  issued,   \* issued[t]: time since the write of t was admitted
  owner,    \* owner[t]: the session t was written for, while its server lives
  ledger,   \* ledger[p]: the tokens p has issued and not removed
  flock,    \* the process that holds the file lock
  writing,  \* writing[p]: the write in progress in p, which has p's thread lock
  alive,    \* alive[p]: "up", "closing" (stopped, charts removed) or "down"
  expirer,  \* expirer[p]: where p's expiry thread is
  wake,     \* wake[p]: the event that thread waits on
  timed,    \* timed[p]: its wait has a timeout
  left,     \* the files that are there although a removal was to unlink them
  missed    \* the files that are there although an admission did not count them

\* What fails is kept for the properties; no guard looks at it.
faults == <<left, missed>>

chartVars ==
  <<file, mtime, issued, owner, ledger, flock, writing, alive, expirer, wake, timed, faults>>

NoWrite == [at |-> "idle", by |-> Nobody, token |-> Nobody, wait |-> 0]

\* Ages past this one are not told apart: a sweep removes what is older than Ttl.
Old == Ttl + 1

\* Types of the directory, of the ledgers and of the threads.
ChartTypeOK ==
  /\ file \in [Token -> {"none", "temp", "chart"}]
  /\ mtime \in [Token -> 0..Old]
  /\ issued \in [Token -> 0..Old]
  /\ owner \in [Token -> Session \cup {Nobody}]
  /\ ledger \in [Server -> SUBSET Token]
  /\ flock \in Server \cup {Nobody}
  /\ writing \in [Server -> [at : {"idle", "lock", "admitted", "temp", "renamed"},
                             by : Session \cup {Nobody},
                             token : Token \cup {Nobody},
                             wait : 0..LockWait]]
  /\ alive \in [Server -> {"up", "closing", "down"}]
  /\ expirer \in [Server -> {"none", "clear", "due", "count", "wait"}]
  /\ wake \in [Server -> BOOLEAN]
  /\ timed \in [Server -> BOOLEAN]
  /\ left \subseteq Token /\ missed \subseteq Token

ChartInit ==
  /\ file = [t \in Token |-> "none"]
  /\ mtime = [t \in Token |-> 0]
  /\ issued = [t \in Token |-> 0]
  /\ owner = [t \in Token |-> Nobody]
  /\ ledger = [p \in Server |-> {}]
  /\ flock = Nobody
  /\ writing = [p \in Server |-> NoWrite]
  /\ alive = [p \in Server |-> "up"]
  /\ expirer = [p \in Server |-> "none"]
  /\ wake = [p \in Server |-> FALSE]
  /\ timed = [p \in Server |-> FALSE]
  /\ left = {} /\ missed = {}
-----------------------------------------------------------------------------
(* The directory.                                                          *)

Charts == {t \in Token : file[t] = "chart"}

Present == {t \in Token : file[t] # "none"}

Written == {writing[p].token : p \in Server}

InUse(t) ==
  file[t] # "none" \/ t \in Written \/ \E p \in Server : t \in ledger[p]

\* What a sweep removes for its age: an expired chart, a stale temporary file.
TooOld(t) ==
  \/ file[t] = "chart" /\ mtime[t] > Ttl
  \/ file[t] = "temp" /\ mtime[t] > StaleTemp

\* Mutant: charts within the grace period make room too.
RoomMadeOfAny(kept, most, gone) ==
  /\ \A t \in gone, u \in kept \ gone : mtime[t] >= mtime[u]
  /\ gone # {} => Cardinality(kept \ gone) >= most
  /\ Cardinality(kept \ gone) <= most

\* Of the charts `kept`, the oldest ones go until `most` are left, but none
\* within the grace period.
RoomMade(kept, most, gone) ==
  /\ \A t \in gone : mtime[t] >= SupersedeGrace
  /\ \A t \in gone, u \in kept \ gone : mtime[t] >= mtime[u]
  /\ gone # {} => Cardinality(kept \ gone) >= most
  /\ \/ Cardinality(kept \ gone) <= most
     \/ \A t \in kept \ gone : mtime[t] < SupersedeGrace

\* A sweep that finds the directory without `already`, and cannot stat `unseen`,
\* tries to remove `gone` and to leave `room` places.  What another process removes
\* or adds meanwhile is skipped: a sweep only ever removes what it has listed, so
\* it is one step.
Sweeps(already, unseen, room, gone) ==
  LET old  == {t \in Token \ (already \cup unseen) : TooOld(t)}
      kept == Charts \ (already \cup unseen \cup old)
  IN \E more \in SUBSET kept :
       RoomMade(kept, MaxFiles - room, more) /\ gone = old \cup more

\* What is left in the list of such a sweep.
Listed(already, unseen, gone) == Charts \ (already \cup unseen \cup gone)

\* The files `gone` are unlinked, but for those whose unlink fails; `uncounted` is
\* what an admission leaves out of its count.  An operation that tries a file twice
\* has it here once: as gone if either try works.
Unlink(gone, failed, uncounted) ==
  /\ failed \subseteq gone
  /\ file' = [t \in Token |-> IF t \in gone \ failed THEN "none" ELSE file[t]]
  /\ left' = {t \in left \cup failed : file'[t] # "none"}
  /\ missed' = {t \in missed \cup uncounted : file'[t] # "none"}

\* What has no file has no age, and a place out of use has no owner; the last
\* conjunct of every action that removes something.
Tidy ==
  /\ mtime' = [t \in Token |-> IF file'[t] = "none" THEN 0 ELSE mtime[t]]
  /\ issued' = [t \in Token |-> IF InUse(t)' THEN issued[t] ELSE 0]
  /\ owner' = [t \in Token |-> IF InUse(t)' THEN owner[t] ELSE Nobody]
-----------------------------------------------------------------------------
(* A write: `write` for session s, in the process of s.                    *)

\* The write has the thread lock of its store.
WriteStart(s) ==
  LET p == HostOf[s] IN
  /\ alive[p] # "down" /\ writing[p].at = "idle"
  /\ writing' = [writing EXCEPT ![p] =
                   [at |-> "lock", by |-> s, token |-> Nobody, wait |-> 0]]
  /\ UNCHANGED <<file, mtime, issued, owner, ledger, flock, alive, expirer, wake, timed>>
  /\ UNCHANGED faults

\* dir_busy: another process had the file lock for LockWait.
WriteBusy(p) ==
  /\ writing[p].at = "lock" /\ writing[p].wait = LockWait
  /\ flock # Nobody
  /\ writing' = [writing EXCEPT ![p] = NoWrite]
  /\ UNCHANGED <<file, mtime, issued, owner, ledger, flock, alive, expirer, wake, timed>>
  /\ UNCHANGED faults

\* The session's own charts past the grace period.
Superseded(p) ==
  {t \in ledger[p] : owner[t] = writing[p].by /\ issued[t] >= SupersedeGrace}

\* The session's earlier charts go, then the sweep makes room for one more; its list
\* has neither a chart it cannot stat nor one it tried to unlink.
MakesRoom(p, failed, unseen, gone) ==
  /\ Sweeps(Superseded(p) \ failed, unseen, 1, gone)
  /\ Unlink(Superseded(p) \cup gone, failed, unseen \cup (gone \cap failed))

Admitted(p, t) == [at |-> "admitted", by |-> writing[p].by, token |-> t, wait |-> 0]

\* Mutant: only the thread lock is held.
WriteAdmitUnlocked(p) ==
  /\ writing[p].at = "lock"
  /\ ledger' = [ledger EXCEPT ![p] = @ \ Superseded(p)]
  /\ \E failed \in SUBSET Present : \E unseen \in SUBSET Present : \E gone \in SUBSET Present :
       /\ MakesRoom(p, failed, unseen, gone)
       /\ Cardinality(Listed(Superseded(p) \ failed, unseen, gone)) < MaxFiles
       /\ \E t \in {u \in Token : ~InUse(u)} :
            writing' = [writing EXCEPT ![p] = Admitted(p, t)]
       /\ flock' = p
  /\ Tidy
  /\ UNCHANGED <<alive, expirer, wake, timed>>

\* With the file lock: room is made, and the write is admitted under a fresh token
\* or, when the sweep's list is full, refused (dir_full).
WriteAdmit(p) ==
  /\ writing[p].at = "lock" /\ flock = Nobody
  /\ ledger' = [ledger EXCEPT ![p] = @ \ Superseded(p)]
  /\ \E failed \in SUBSET Present : \E unseen \in SUBSET Present : \E gone \in SUBSET Present :
       /\ MakesRoom(p, failed, unseen, gone)
       /\ IF Cardinality(Listed(Superseded(p) \ failed, unseen, gone)) >= MaxFiles
          THEN /\ writing' = [writing EXCEPT ![p] = NoWrite]
               /\ flock' = flock
          ELSE /\ \E t \in {u \in Token : ~InUse(u)} :
                    writing' = [writing EXCEPT ![p] = Admitted(p, t)]
               /\ flock' = p
  /\ Tidy
  /\ UNCHANGED <<alive, expirer, wake, timed>>

\* dir_unavailable: the session's earlier charts are gone when the directory turns
\* out not to be listable.
WriteUnlisted(p) ==
  /\ writing[p].at = "lock" /\ flock = Nobody
  /\ ledger' = [ledger EXCEPT ![p] = @ \ Superseded(p)]
  /\ \E failed \in SUBSET Present : Unlink(Superseded(p), failed, {})
  /\ writing' = [writing EXCEPT ![p] = NoWrite]
  /\ Tidy
  /\ UNCHANGED <<flock, alive, expirer, wake, timed>>

\* The temporary file, complete and flushed.
WriteTemp(p) ==
  LET t == writing[p].token IN
  /\ writing[p].at = "admitted"
  /\ file' = [file EXCEPT ![t] = "temp"]
  /\ owner' = [owner EXCEPT ![t] = writing[p].by]
  /\ writing' = [writing EXCEPT ![p].at = "temp"]
  /\ UNCHANGED <<mtime, issued, ledger, flock, alive, expirer, wake, timed, faults>>

WriteRename(p) ==
  LET t == writing[p].token IN
  /\ writing[p].at = "temp" /\ file[t] = "temp"
  /\ file' = [file EXCEPT ![t] = "chart"]
  /\ writing' = [writing EXCEPT ![p].at = "renamed"]
  /\ UNCHANGED <<mtime, issued, owner, ledger, flock, alive, expirer, wake, timed, faults>>

\* Mutant: the write starts the thread but does not wake it.
WriteRecordUnwoken(p) ==
  LET t == writing[p].token IN
  /\ writing[p].at = "renamed" /\ file[t] = "chart"
  /\ ledger' = [ledger EXCEPT ![p] = @ \cup {t}]
  /\ expirer' = [expirer EXCEPT ![p] =
                   IF @ = "none" /\ alive[p] = "up" THEN "clear" ELSE @]
  /\ writing' = [writing EXCEPT ![p] = NoWrite]
  /\ flock' = Nobody
  /\ UNCHANGED <<file, mtime, issued, owner, alive, wake, timed, faults>>

\* The file is there with its size: the token is recorded, the expiry thread
\* started if it never was, and woken.
WriteRecord(p) ==
  LET t == writing[p].token IN
  /\ writing[p].at = "renamed" /\ file[t] = "chart"
  /\ ledger' = [ledger EXCEPT ![p] = @ \cup {t}]
  /\ expirer' = [expirer EXCEPT ![p] =
                   IF @ = "none" /\ alive[p] = "up" THEN "clear" ELSE @]
  /\ wake' = [wake EXCEPT ![p] = TRUE]
  /\ writing' = [writing EXCEPT ![p] = NoWrite]
  /\ flock' = Nobody
  /\ UNCHANGED <<file, mtime, issued, owner, alive, timed, faults>>

\* Mutant: only the temporary name is unlinked.
WriteFailsTempOnly(p) ==
  /\ writing[p].at # "idle"
  /\ \E failed \in SUBSET Present :
       Unlink({t \in {writing[p].token} : writing[p].at # "renamed"}, failed, {})
  /\ writing' = [writing EXCEPT ![p] = NoWrite]
  /\ flock' = IF flock = p THEN Nobody ELSE flock
  /\ ledger' = ledger
  /\ Tidy
  /\ UNCHANGED <<alive, expirer, wake, timed>>

\* A file-system error, or a file that is gone or has another size: both names
\* are unlinked and the locks released.
WriteFails(p) ==
  /\ writing[p].at # "idle"
  /\ \E failed \in SUBSET Present : Unlink({writing[p].token}, failed, {})
  /\ writing' = [writing EXCEPT ![p] = NoWrite]
  /\ flock' = IF flock = p THEN Nobody ELSE flock
  /\ ledger' = ledger
  /\ Tidy
  /\ UNCHANGED <<alive, expirer, wake, timed>>

-----------------------------------------------------------------------------
(* The expiry thread of process p.                                         *)

\* The event is cleared before the checks; a stopped store ends the thread.
ExpireClear(p) ==
  /\ expirer[p] = "clear"
  /\ wake' = [wake EXCEPT ![p] = FALSE]
  /\ expirer' = [expirer EXCEPT ![p] = IF alive[p] = "up" THEN "due" ELSE "none"]
  /\ UNCHANGED <<file, mtime, issued, owner, ledger, flock, writing, alive, timed, faults>>

Due(p) == {t \in ledger[p] : issued[t] >= Ttl}

\* Under the thread lock: every chart past its deadline is unlinked and
\* forgotten; if one of these unlinks worked, a sweep follows.
ExpireDue(p) ==
  /\ expirer[p] = "due" /\ writing[p].at = "idle"
  /\ ledger' = [ledger EXCEPT ![p] = @ \ Due(p)]
  /\ \E failed \in SUBSET Present :
       IF (Due(p) \cap Charts) \ failed = {}
       THEN Unlink(Due(p), failed, {})
       ELSE \E unseen \in SUBSET Present : \E gone \in SUBSET Present :
              \* gone = {}: the directory is not listable
              /\ Sweeps(Due(p) \ failed, unseen, 0, gone) \/ gone = {}
              /\ Unlink(Due(p) \cup gone, failed, {})
  /\ expirer' = [expirer EXCEPT ![p] = "count"]
  /\ writing' = writing
  /\ Tidy
  /\ UNCHANGED <<flock, alive, wake, timed>>

\* The wait ends at the next deadline or check, or has no end when no chart is
\* pending.
NextCheck(p) ==
  /\ expirer[p] = "count"
  /\ timed' = [timed EXCEPT ![p] = ledger[p] # {}]
  /\ expirer' = [expirer EXCEPT ![p] = "wait"]
  /\ UNCHANGED <<file, mtime, issued, owner, ledger, flock, writing, alive, wake, faults>>

WaitEnds(p) ==
  /\ expirer[p] = "wait" /\ (wake[p] \/ timed[p])
  /\ expirer' = [expirer EXCEPT ![p] = "clear"]
  /\ timed' = [timed EXCEPT ![p] = FALSE]
  /\ UNCHANGED <<file, mtime, issued, owner, ledger, flock, writing, alive, wake, faults>>
-----------------------------------------------------------------------------
(* Processes begin and end, the operator prunes, time passes.              *)

\* `close`, at exit or in the handler of SIGTERM: every chart of the ledger is
\* unlinked, without a lock.  A write on another thread goes on meanwhile.
Close(p) ==
  /\ alive[p] = "up"
  /\ alive' = [alive EXCEPT ![p] = "closing"]
  /\ \E failed \in SUBSET Present : Unlink(ledger[p], failed, {})
  /\ ledger' = [ledger EXCEPT ![p] = {}]
  /\ wake' = [wake EXCEPT ![p] = TRUE]
  /\ writing' = writing
  /\ Tidy
  /\ UNCHANGED <<flock, expirer, timed>>

\* The process is gone, killed or after its close; the kernel drops its lock and
\* the files it leaves have nobody to remove them.
Dies(p) ==
  /\ alive[p] # "down"
  /\ alive' = [alive EXCEPT ![p] = "down"]
  /\ flock' = IF flock = p THEN Nobody ELSE flock
  /\ writing' = [writing EXCEPT ![p] = NoWrite]
  /\ ledger' = [ledger EXCEPT ![p] = {}]
  /\ expirer' = [expirer EXCEPT ![p] = "none"]
  /\ wake' = [wake EXCEPT ![p] = FALSE]
  /\ timed' = [timed EXCEPT ![p] = FALSE]
  /\ UNCHANGED <<file, mtime, faults>>
  /\ issued' = [t \in Token |-> IF InUse(t)' THEN issued[t] ELSE 0]
  /\ owner' = [t \in Token |->
                 IF InUse(t)' /\ \E s \in Session : owner[t] = s /\ HostOf[s] # p
                 THEN owner[t] ELSE Nobody]

\* What every pruning sweep does to the directory.
SweepAlone ==
  \E failed \in SUBSET Present : \E unseen \in SUBSET Present : \E gone \in SUBSET Present :
    Sweeps({}, unseen, 0, gone) /\ Unlink(gone, failed, {})

\* A server starts and sweeps first, if the directory can be listed.
ServerStart(p) ==
  /\ alive[p] = "down"
  /\ alive' = [alive EXCEPT ![p] = "up"]
  /\ SweepAlone \/ UNCHANGED <<file, faults>>
  /\ UNCHANGED <<ledger, writing>>
  /\ Tidy
  /\ UNCHANGED <<flock, expirer, wake, timed>>

\* `prune`, by the operator or by the launchd job.
Prune ==
  /\ SweepAlone
  /\ UNCHANGED <<ledger, writing>>
  /\ Tidy
  /\ UNCHANGED <<flock, alive, expirer, wake, timed>>

\* `prune --all`; what it cannot stat or unlink stays.
PruneAll ==
  /\ \E failed \in SUBSET Present : Unlink(Token, failed, {})
  /\ UNCHANGED <<ledger, writing>>
  /\ Tidy
  /\ UNCHANGED <<flock, alive, expirer, wake, timed>>

Older(age) == IF age < Old THEN age + 1 ELSE age

\* Nothing waits for the file lock past its deadline, and no write past its bound.
InTime ==
  \A p \in Server :
    /\ writing[p].at = "lock" => writing[p].wait < LockWait
    /\ writing[p].at \in {"admitted", "temp", "renamed"}
         => issued[writing[p].token] < WriteTime

ChartTick ==
  /\ InTime
  /\ \E t \in Token : InUse(t) /\ issued[t] < Old
  /\ mtime' = [t \in Token |-> IF file[t] = "none" THEN 0 ELSE Older(mtime[t])]
  /\ issued' = [t \in Token |-> IF InUse(t) THEN Older(issued[t]) ELSE 0]
  /\ writing' = [p \in Server |->
                   IF writing[p].at = "lock"
                   THEN [writing[p] EXCEPT !.wait = @ + 1] ELSE writing[p]]
  /\ UNCHANGED <<file, owner, ledger, flock, alive, expirer, wake, timed, faults>>

WriterStep(p) ==
  \/ WriteBusy(p) \/ WriteUnlisted(p) \/ WriteAdmit(p) \/ WriteTemp(p)
  \/ WriteRename(p) \/ WriteRecord(p) \/ WriteFails(p)

ExpirerStep(p) == ExpireClear(p) \/ ExpireDue(p) \/ NextCheck(p) \/ WaitEnds(p)

ChartNext ==
  \/ \E s \in Session : WriteStart(s)
  \/ \E p \in Server :
       WriterStep(p) \/ ExpirerStep(p) \/ Close(p) \/ Dies(p) \/ ServerStart(p)
  \/ Prune \/ PruneAll \/ ChartTick

ChartSafety == ChartInit /\ [][ChartNext]_chartVars

\* A write goes on (each wait in it has an end), time goes on (SF: the moments in
\* which a step must come first do not hold it up for ever), and the expiry
\* thread runs: it waits at most EXPIRY_CHECK_SECONDS for the event, and the
\* thread lock is free for seconds between two analyses of one session (SF).
\* A process that closed its store ends.
ChartSpec ==
  /\ ChartSafety
  /\ \A p \in Server : WF_chartVars(WriterStep(p)) /\ SF_chartVars(ExpirerStep(p))
  /\ \A p \in Server : WF_chartVars(alive[p] = "closing" /\ Dies(p))
  /\ SF_chartVars(ChartTick)
-----------------------------------------------------------------------------
(* Properties.                                                             *)

\* "The MAX_FILES cap holds across those processes", whoever dies in a write and
\* whatever is swept meanwhile, but for charts that an admission could not stat or
\* unlink: every other chart has been counted.
FilesCapped == Cardinality(Charts \ missed) <= MaxFiles

\* A live process removes what it writes: each file of a session is being
\* written, or is in the ledger of the session's process, also when a step of
\* its write failed.  Only a process that ends, or a file that would not be
\* unlinked, leaves something to the sweeps.
NoStrayFile ==
  \A t \in Token :
    file[t] # "none" /\ owner[t] # Nobody
      => LET p == HostOf[owner[t]] IN
         \/ t \in ledger[p] \/ t = writing[p].token
         \/ alive[p] = "closing" \/ t \in left

\* While a process has a chart pending its expiry thread is not asleep for good:
\* it runs, waits with a timeout, or has been woken.
ExpiryArmed ==
  \A p \in Server :
    alive[p] = "up" /\ ledger[p] # {}
      => /\ expirer[p] # "none"
         /\ expirer[p] = "wait" => timed[p] \/ wake[p]

\* No chart goes before the reply that names it can have been sent: one that goes
\* is past its deadline, or past the grace period when a write needs its place or
\* belongs to its own session or there are more than the cap, or its write failed,
\* or its process ends, or the operator prunes everything.
RemovedForAReason ==
  [][\A t \in Token :
       file[t] = "chart" /\ file'[t] = "none"
         => \/ issued[t] >= Ttl
            \/ /\ issued[t] >= SupersedeGrace
               /\ \/ Cardinality(Charts) > MaxFiles
                  \/ \E p \in Server :
                       /\ writing[p].at = "lock"
                       /\ writing[p].by = owner[t] \/ Cardinality(Charts) = MaxFiles
            \/ \E p \in Server : t = writing[p].token
            \/ \E p \in Server : t \in ledger[p] /\ alive'[p] # alive[p]
            \/ /\ \A u \in Token : file'[u] = "none" \/ u \in left'
               /\ UNCHANGED <<ledger, writing>>
       ]_chartVars

\* A chart a live process issued is removed with no further request, unless the
\* process dies or the unlink fails; then nobody in the process has it any more.
Expires ==
  \A p \in Server, t \in Token :
    t \in ledger[p] ~> file[t] = "none" \/ alive[p] = "down" \/ t \in left
=============================================================================
