-------------------------- MODULE EnrichmentBatch --------------------------
(***************************************************************************)
(* The paid extraction of facets in provider batches                       *)
(* (scripts/extract_enrichment_v2_batch.py, enrichment/batch_v2.py,        *)
(* enrichment/wave_gate.py).                                               *)
(*                                                                         *)
(* An operator runs one command at a time (a file lock sees to it): submit,*)
(* which may resume, retry failed rows or go on to the next rows, and      *)
(* collect.  Every command works on one SQLite file, a transaction at a    *)
(* time, and may stop between any two of them.  From WaveFrom rows on, the *)
(* rows come in waves that need the wave gate.                             *)
(*                                                                         *)
(* A row is its sequence number.  A check of the code that depends on data *)
(* left out here (the source's rows and watermark, the configuration, the  *)
(* token, costs and miss rates) and raises is the action Stop.             *)
(***************************************************************************)
EXTENDS Naturals, Sequences, FiniteSets

CONSTANTS
  Rows,         \* the number of rows of the source: 54888
  Tranche,      \* 2000
  MaxRequests,  \* MAX_BATCH_REQUESTS: 1000
  Reused,       \* the rows that the v1 table answers
  WaveFrom,     \* 8000
  Checkpoint,   \* CHECKPOINTS
  LongWave,     \* 10000
  ShortWave,    \* 2000
  ShortFrom,    \* 46000: from here on waves are short
  MaxBatches    \* bound on the batches planned

ASSUME BatchAssumption ==
  /\ {Rows, Tranche, MaxRequests, LongWave, ShortWave} \subseteq Nat \ {0}
  /\ {WaveFrom, ShortFrom, MaxBatches} \subseteq Nat
  /\ Reused \subseteq 1..Rows
  /\ Checkpoint \subseteq 1..Rows
  /\ Rows \in Checkpoint

VARIABLES
  staged,    \* the rows 1..staged are in `inputs`
  waves,     \* the table of waves
  approved,  \* wave_console_checkpoints: the counts a human has approved
  batches,   \* the table of batches; a batch is rows first..last
  answer,    \* answer[r]: the extractor whose result is stored for r
  failed,    \* failed_items: batch numbers with a row
  verified,  \* the largest count in `verifications`
  remote,    \* what the provider has accepted
  run        \* the command in progress: where it is, and in which batch

batchVars ==
  <<staged, waves, approved, batches, answer, failed, verified, remote, run>>

Row == 1..Rows
Status == {"planned", "uncertain", "submitted", "complete", "partial", "resolved"}
Batch == [first : Row, last : Row, status : Status]

NoRun == [at |-> "idle", batch |-> 0, retry |-> FALSE]

\* Types of the tables, of the provider's batches and of the command.
BatchTypeOK ==
  /\ staged \in 0..Rows
  /\ waves \subseteq [first : Row, last : Row]
  /\ approved \subseteq Checkpoint
  /\ batches \in Seq(Batch)
  /\ answer \in [Row -> {"none", "v1", "v2"}]
  /\ failed \subseteq (1..Len(batches)) \X Row
  /\ verified \in 0..staged
  /\ remote \in Seq([batch : 1..Len(batches), ended : BOOLEAN, bad : SUBSET Row])
  /\ run \in [at : {"idle", "stage", "submit", "post", "ack", "collect", "ingest"},
              batch : 0..Len(batches) + 1, retry : BOOLEAN]

BatchInit ==
  /\ staged = 0 /\ verified = 0
  /\ waves = {} /\ approved = {} /\ failed = {}
  /\ batches = <<>> /\ remote = <<>>
  /\ answer = [r \in Row |-> "none"]
  /\ run = NoRun

RowsOf(b) == b.first .. b.last
Sent(k) == RowsOf(batches[remote[k].batch])
Have(statuses) == \E n \in 1..Len(batches) : batches[n].status \in statuses
AllDone == ~Have(Status \ {"complete", "resolved"})
Move(place, n) == run' = [run EXCEPT !.at = place, !.batch = n]
-----------------------------------------------------------------------------
(* Planning.  Rows are grouped into runs of consecutive ones, cut every    *)
(* MaxRequests.                                                            *)

RunStart(S, r) ==
  CHOOSE q \in S : /\ q <= r /\ (q .. r) \subseteq S /\ q - 1 \notin S

Firsts(S) == {r \in S : (r - RunStart(S, r)) % MaxRequests = 0}

\* The last row of the group that begins with f.
LastOf(S, f) ==
  CHOOSE l \in S :
    /\ f <= l /\ (f .. l) \subseteq S
    /\ l + 1 \in S => l + 1 \in Firsts(S)
    /\ \A r \in (f + 1) .. l : r \notin Firsts(S)

\* The first rows of the groups of S, in order (one sequence).
Ordered(S) ==
  {o \in [1..Cardinality(Firsts(S)) -> Firsts(S)] :
     \A i, j \in DOMAIN o : i < j => o[i] < o[j]}

\* The groups of S become planned batches with the next numbers.
Plan(S) ==
  /\ Len(batches) + Cardinality(Firsts(S)) <= MaxBatches
  /\ \E o \in Ordered(S) :
       batches' = batches \o
         [i \in DOMAIN o |->
            [first |-> o[i], last |-> LastOf(S, o[i]), status |-> "planned"]]

\* stage_tranche, one transaction: the rows up to `upTo` are staged; those the v1
\* table answers get its result, the others are planned.
StageTo(upTo) ==
  LET fresh == (staged + 1) .. upTo IN
  /\ staged' = upTo
  /\ answer' = [r \in Row |-> IF r \in fresh \cap Reused THEN "v1" ELSE answer[r]]
  /\ Plan(fresh \ Reused)

AtMost(bound, n) == IF n < bound THEN n ELSE bound

\* next_wave.
WaveEnd ==
  LET next == CHOOSE c \in Checkpoint :
                c > staged /\ \A d \in Checkpoint : d > staged => c <= d
  IN AtMost(next, staged + (IF staged >= ShortFrom THEN ShortWave ELSE LongWave))

InWaves == waves # {} \/ staged >= WaveFrom
-----------------------------------------------------------------------------
(* submit: how a command begins.                                           *)

\* The first tranche is staged.
SubmitFirst ==
  /\ run = NoRun /\ staged = 0 /\ ~InWaves
  /\ StageTo(AtMost(Rows, Tranche))
  /\ Move("submit", 1)
  /\ UNCHANGED <<waves, approved, failed, verified, remote>>

\* Without a flag: batches that are planned are submitted.  In wave mode a wave
\* must end at the last row staged.
CanResume ==
  /\ staged > 0
  /\ InWaves => \E w \in waves : w.last = staged

SubmitResume ==
  /\ run = NoRun /\ CanResume
  /\ Move("submit", 1)
  /\ UNCHANGED <<staged, waves, approved, batches, answer, failed, verified, remote>>

Unresolved ==
  {r \in Row : answer[r] = "none" /\ \E n \in 1..Len(batches) : <<n, r>> \in failed}

\* plan_failed_retries; wave mode refuses it.
CanRetry ==
  /\ staged > 0 /\ ~InWaves
  /\ Unresolved # {}
  /\ ~Have({"planned", "submitted", "uncertain"})

SubmitRetry ==
  /\ run = NoRun /\ CanRetry
  /\ Plan(Unresolved)
  /\ run' = [at |-> "submit", batch |-> 1, retry |-> TRUE]
  /\ UNCHANGED <<staged, waves, approved, answer, failed, verified, remote>>

\* What stage_tranche asks of an extension.
CanExtend == staged > 0 /\ AllDone /\ verified = staged

SubmitContinue ==
  /\ run = NoRun /\ ~InWaves /\ CanExtend
  /\ StageTo(AtMost(Rows, staged + Tranche))
  /\ Move("submit", 1)
  /\ UNCHANGED <<waves, approved, failed, verified, remote>>

\* The first row of the last wave, or of the last tranche before the waves.
GateFrom ==
  IF waves = {} THEN staged - Tranche + 1
  ELSE (CHOOSE w \in waves : w.last = staged).first

\* verify_stored_wave: nothing has ever failed, batches cover the wave and are
\* complete, and everything is answered and verified.
WaveGate ==
  /\ failed = {}
  /\ verified = staged
  /\ \A r \in GateFrom .. staged :
       /\ answer[r] # "none"
       /\ \E n \in 1..Len(batches) :
            r \in RowsOf(batches[n]) /\ batches[n].status = "complete"

\* At a checkpoint the operator's total is recorded first.
ApproveCheckpoint ==
  /\ run = NoRun /\ InWaves
  /\ WaveGate /\ staged \in Checkpoint \ {Rows}
  /\ approved' = approved \cup {staged}
  /\ Move("stage", 0)
  /\ UNCHANGED <<staged, waves, batches, answer, failed, verified, remote>>

\* Mutant: no approval is asked for.
NextWaveUnapproved ==
  /\ InWaves
  /\ \/ run = NoRun /\ WaveGate
     \/ run.at = "stage"

\* The next wave is staged; at a checkpoint only with the approval.
NextWaveAllowed ==
  /\ InWaves
  /\ \/ run = NoRun /\ WaveGate /\ staged \notin Checkpoint
     \/ run.at = "stage"

SubmitWave ==
  /\ NextWaveAllowed /\ CanExtend /\ staged < Rows
  /\ waves' = waves \cup {[first |-> staged + 1, last |-> WaveEnd]}
  /\ StageTo(WaveEnd)
  /\ Move("submit", 1)
  /\ UNCHANGED <<approved, failed, verified, remote>>
-----------------------------------------------------------------------------
(* submit: the walk over the batches, in the order of their numbers.       *)

SubmitNow == batches[run.batch].status
Left(status) == status \in {"complete", "resolved"} \/ (status = "partial" /\ run.retry)

SubmitSkip ==
  /\ run.at = "submit" /\ run.batch <= Len(batches)
  /\ Left(SubmitNow)
  /\ Move("submit", run.batch + 1)
  /\ UNCHANGED <<staged, waves, approved, batches, answer, failed, verified, remote>>

SubmitDone ==
  /\ run.at = "submit" /\ run.batch > Len(batches)
  /\ run' = NoRun
  /\ UNCHANGED <<staged, waves, approved, batches, answer, failed, verified, remote>>

\* Mutant: a submission that is uncertain is made again.
SubmittableAgain(status) == status \in {"planned", "uncertain"}

Submittable(status) == status = "planned"

\* After the calls are spent, uncertainty is stored before the request.
MarkUncertain ==
  /\ run.at = "submit" /\ run.batch <= Len(batches)
  /\ Submittable(SubmitNow)
  /\ batches' = [batches EXCEPT ![run.batch].status = "uncertain"]
  /\ Move("post", run.batch)
  /\ UNCHANGED <<staged, waves, approved, answer, failed, verified, remote>>

\* The provider accepts the batch.  (It does not: Stop.)
Post ==
  /\ run.at = "post"
  /\ remote' = Append(remote, [batch |-> run.batch, ended |-> FALSE, bad |-> {}])
  /\ Move("ack", run.batch)
  /\ UNCHANGED <<staged, waves, approved, batches, answer, failed, verified>>

\* Its identifier is stored.  (The response is lost: Stop.)
Acknowledge ==
  /\ run.at = "ack"
  /\ batches' = [batches EXCEPT ![run.batch].status = "submitted"]
  /\ Move("submit", run.batch + 1)
  /\ UNCHANGED <<staged, waves, approved, answer, failed, verified, remote>>

\* The provider is done with a batch, some of whose requests errored, were
\* cancelled or expired.
ProviderEnds ==
  \E k \in 1..Len(remote) : \E bad \in SUBSET Sent(k) :
    /\ ~remote[k].ended
    /\ remote' = [remote EXCEPT ![k].ended = TRUE, ![k].bad = bad]
    /\ UNCHANGED <<staged, waves, approved, batches, answer, failed, verified, run>>
-----------------------------------------------------------------------------
(* collect.                                                                *)

CollectStart ==
  /\ run = NoRun /\ staged > 0
  /\ Move("collect", 1)
  /\ UNCHANGED <<staged, waves, approved, batches, answer, failed, verified, remote>>

RemoteOf(n) == CHOOSE k \in 1..Len(remote) : remote[k].batch = n

\* An uncertain batch raises instead: Stop.
CollectSkip ==
  /\ run.at = "collect" /\ run.batch <= Len(batches)
  /\ \/ SubmitNow \in {"complete", "resolved", "partial", "planned"}
     \/ SubmitNow = "submitted" /\ ~remote[RemoteOf(run.batch)].ended
  /\ Move("collect", run.batch + 1)
  /\ UNCHANGED <<staged, waves, approved, batches, answer, failed, verified, remote>>

CollectBatch ==
  /\ run.at = "collect" /\ run.batch <= Len(batches)
  /\ SubmitNow = "submitted" /\ remote[RemoteOf(run.batch)].ended
  /\ Move("ingest", run.batch)
  /\ UNCHANGED <<staged, waves, approved, batches, answer, failed, verified, remote>>

Bad == remote[RemoteOf(run.batch)].bad
BadLeft == {r \in Bad : <<run.batch, r>> \notin failed}
GoodLeft == {r \in RowsOf(batches[run.batch]) \ Bad : answer[r] = "none"}

\* The failures come first, in the provider's order, a transaction each.
IngestFailure ==
  /\ run.at = "ingest"
  /\ \E r \in BadLeft : failed' = failed \cup {<<run.batch, r>>}
  /\ UNCHANGED <<staged, waves, approved, batches, answer, verified, remote, run>>

\* Then the answers, in the order of the rows; what is stored already is the same.
IngestAnswer ==
  /\ run.at = "ingest" /\ BadLeft = {}
  /\ \E r \in GoodLeft :
       /\ \A q \in GoodLeft : r <= q
       /\ answer' = [answer EXCEPT ![r] = "v2"]
  /\ UNCHANGED <<staged, waves, approved, batches, failed, verified, remote, run>>

\* Mutant: a batch with failures is complete too.
IngestedComplete == "complete"

IngestedStatus == IF Bad = {} THEN "complete" ELSE "partial"

\* Mutant: when one of them has.
ResolvedByOne(n) == \E r \in Row : <<n, r>> \in failed /\ answer[r] # "none"

\* A partial batch is resolved when each of its failures has an answer by now.
Resolved(n) == \A r \in Row : <<n, r>> \in failed => answer[r] # "none"

IngestFinish ==
  /\ run.at = "ingest" /\ BadLeft = {} /\ GoodLeft = {}
  /\ batches' =
       [n \in 1..Len(batches) |->
          LET status == IF n = run.batch THEN IngestedStatus ELSE batches[n].status
          IN [batches[n] EXCEPT !.status =
                IF status = "partial" /\ Resolved(n) THEN "resolved" ELSE status]]
  /\ Move("collect", run.batch + 1)
  /\ UNCHANGED <<staged, waves, approved, answer, failed, verified, remote>>

\* When nothing is left, what is staged is verified.
CollectEnd ==
  /\ run.at = "collect" /\ run.batch > Len(batches)
  /\ verified' = IF AllDone THEN staged ELSE verified
  /\ run' = NoRun
  /\ UNCHANGED <<staged, waves, approved, batches, answer, failed, remote>>

\* The command is interrupted, killed, or raises.
Stop ==
  /\ run.at # "idle"
  /\ run' = NoRun
  /\ UNCHANGED <<staged, waves, approved, batches, answer, failed, verified, remote>>

BatchNext ==
  \/ SubmitFirst \/ SubmitResume \/ SubmitRetry \/ SubmitContinue
  \/ ApproveCheckpoint \/ SubmitWave
  \/ SubmitSkip \/ SubmitDone \/ MarkUncertain \/ Post \/ Acknowledge
  \/ ProviderEnds
  \/ CollectStart \/ CollectSkip \/ CollectBatch
  \/ IngestFailure \/ IngestAnswer \/ IngestFinish \/ CollectEnd
  \/ Stop

BatchSpec == BatchInit /\ [][BatchNext]_batchVars
-----------------------------------------------------------------------------
(* Properties.                                                             *)

\* No row is paid for twice: a row is in a second batch of the provider only when
\* the first has ended and reported that row as failed; a row of the v1 table is
\* in none.  However commands stop, answers are lost and retries are asked for.
NoRowTwice ==
  \A k \in 1..Len(remote) :
    /\ Sent(k) \cap Reused = {}
    /\ \A j \in 1..k - 1 : Sent(j) \cap Sent(k) \subseteq remote[j].bad

\* Nothing the provider reported is dropped: a batch that is closed has an answer
\* or a recorded failure for each row, and one that is complete or resolved has
\* all answers.
NothingDropped ==
  \A n \in 1..Len(batches) : \A r \in RowsOf(batches[n]) :
    /\ batches[n].status = "partial" => answer[r] # "none" \/ <<n, r>> \in failed
    /\ batches[n].status \in {"complete", "resolved"} => answer[r] # "none"

\* What is verified is whole: each row has a result, that of the v1 table or one
\* the provider returned for it.
VerifiedIsWhole ==
  /\ \A r \in 1..verified : answer[r] # "none"
  /\ \A r \in Row :
       answer[r] = "v2" =>
         \E k \in 1..Len(remote) : remote[k].ended /\ r \in Sent(k) \ remote[k].bad

\* A wave exists only on gated ground: below it everything is verified, nothing
\* ever failed, and each checkpoint was approved; and it ends at the next one.
WavesGated ==
  \A w \in waves :
    /\ verified >= w.first - 1
    /\ \A f \in failed : f[2] >= w.first
    /\ \A c \in Checkpoint :
         /\ WaveFrom <= c /\ c < w.first => c \in approved
         /\ ~(w.first <= c /\ c < w.last)

\* "Continuation needs a separate explicit approval and paid token": with them,
\* planned work can go on as soon as no batch is at the provider or in doubt.
WorkGoesOn ==
  run = NoRun /\ Have({"planned"}) /\ ~Have({"submitted", "uncertain"})
    => \/ CanRetry
       \/ CanResume /\ \E n \in 1..Len(batches) :
            /\ batches[n].status = "planned"
            /\ \A m \in 1..n - 1 : batches[m].status \in {"complete", "resolved"}
=============================================================================
