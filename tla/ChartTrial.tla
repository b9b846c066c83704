----------------------------- MODULE ChartTrial -----------------------------
(***************************************************************************)
(* The one live chart trial and its armed rollback                         *)
(* (scripts/chart_trial_armed.py, scripts/chart_trial_rollback.sh).        *)
(*                                                                         *)
(* A watchdog is armed before anything is switched on.  The operator then  *)
(* enables charts in .env, installs, restarts the gateway, confirms and    *)
(* sends one message, step by step and at any pace; the watchdog waits for *)
(* a line the tool server signed for this trial, for a failure, or for its *)
(* limits, claims the trial and runs the rollback, then keeps watching for *)
(* a re-enable.  Enabling and claiming exclude each other by a lock the    *)
(* watchdog waits for only so long.  Processes are killed at any step.     *)
(*                                                                         *)
(* Limits are decisions the watchdog may take at any moment after what     *)
(* starts their clock.                                                     *)
(***************************************************************************)
EXTENDS Naturals, Sequences

CONSTANTS
  Watchdog,     \* `_watch` processes of this trial: the armed one and others by hand
  Operator,     \* shells in which the steps are run
  Agent,        \* who runs the rollback by hand
  NoOne,        \* no lock holder, no pid
  MaxReruns,    \* rollbacks after the rollback
  MaxLines      \* bound on the chart_delivery lines logged after the activation

ASSUME TrialAssumption ==
  /\ MaxReruns \in Nat /\ MaxLines \in Nat
  /\ NoOne \notin Watchdog \cup Operator /\ Agent \notin Watchdog
  /\ Watchdog \cap Operator = {}

VARIABLES
  env,          \* the two switches in .env
  fragment,     \* whether install.sh has merged the analysis skill list
  serving,      \* whether a tool server that was started with charts on runs
  files,        \* the trial's directory: its marks, claim and record
  pid,          \* the watchdog whose pid is in that directory
  log,          \* the chart_delivery lines since the activation
  dog,          \* dog[w]: where watchdog w is
  recordLock, stateLock,   \* who holds them
  script,       \* script[s]: the rollback s started
  shell,        \* shell[o]: the command in o
  claim,        \* how the trial was claimed first
  fires,        \* how many rollbacks were fired
  wiped,        \* since the claim, a rollback has switched .env off
  reported,     \* the rollback the watchdog waited for ended well
  hand          \* .env was edited by hand

switches == <<env, fragment, serving>>
locks == <<recordLock, stateLock>>
ghosts == <<claim, fires, wiped, reported, hand>>
trialVars == <<switches, files, pid, log, dog, locks, script, shell, ghosts>>

Mark == {"enabled", "activated", "sent", "abort", "done fail"}
Switches == [analysis : BOOLEAN, delivery : BOOLEAN]
Off == [analysis |-> FALSE, delivery |-> FALSE]
Line == [word : {"pass", "fail"}, signed : BOOLEAN]
Word == {"pass", "fail", "aborted"}

\* A watchdog with no line seen and no rerun made.
Dog(pc, word) == [pc |-> pc, word |-> word, pending |-> FALSE, read |-> 0, reruns |-> 0]
NoScript == [step |-> 0, went |-> "well"]
NoCommand == [pc |-> "idle", cmd |-> "enable", read |-> Off]

\* Mutant: the gateway is restarted before the switches are off.
StepsRestartFirst == <<"restart", "env", "install", "verify">>

\* What the rollback does, in its order.
Steps == <<"env", "install", "restart", "verify">>

TrialTypeOK ==
  /\ env \in Switches /\ fragment \in BOOLEAN /\ serving \in BOOLEAN
  /\ files \subseteq Mark \cup {"fired", "tombstone", "record"}
  /\ pid \in Watchdog \cup {NoOne}
  /\ log \in Seq(Line) /\ Len(log) <= MaxLines
  /\ dog \in [Watchdog -> [pc : {"none", "first", "second", "watching", "firing",
                                 "rolling", "post", "again", "gone"},
                           word : Word, pending : BOOLEAN,
                           read : 0..MaxLines, reruns : 0..MaxReruns]]
  /\ recordLock \in Watchdog \cup {NoOne}
  /\ stateLock \in Operator \cup {NoOne}
  /\ script \in [Watchdog \cup {Agent} -> [step : 0..Len(Steps), went : {"well", "badly"}]]
  /\ shell \in [Operator -> [pc : {"idle", "check", "read", "write"},
                             cmd : {"enable", "activated", "sent", "install"},
                             read : Switches]]
  /\ claim \in {"none", "held", "bare", "failed"} /\ fires \in Nat
  /\ wiped \in BOOLEAN /\ reported \in BOOLEAN /\ hand \in BOOLEAN

\* `arm` has made the trial's directory, and the analysis tool is on already.
TrialInit ==
  /\ env = [analysis |-> TRUE, delivery |-> FALSE]
  /\ fragment = TRUE /\ serving = FALSE
  /\ files = {} /\ pid = NoOne /\ log = <<>>
  /\ dog = [w \in Watchdog |-> Dog("none", "aborted")]
  /\ recordLock = NoOne /\ stateLock = NoOne
  /\ script = [s \in Watchdog \cup {Agent} |-> NoScript]
  /\ shell = [o \in Operator |-> NoCommand]
  /\ claim = "none" /\ fires = 0
  /\ wiped = FALSE /\ reported = FALSE /\ hand = FALSE
-----------------------------------------------------------------------------
(* The watchdog's start.                                                   *)

Fired == "fired" \in files

\* The trial's rollback has fired.
Closed == files \cap {"fired", "tombstone"} # {}

Goes(w, to) == dog' = [dog EXCEPT ![w].pc = to]
Gone(w) == dog' = [dog EXCEPT ![w] = Dog("gone", "aborted")]
LetsGo(w) == recordLock' = IF recordLock = w THEN NoOne ELSE recordLock

\* `_watch`, by arm or by hand: not after a claim.
Watches(w) ==
  /\ dog[w].pc = "none" /\ ~Fired
  /\ Goes(w, "first")
  /\ UNCHANGED <<switches, files, pid, log, locks, script, shell, ghosts>>

\* One watchdog per record directory.
TakeRecordLock(w) ==
  /\ dog[w].pc = "first"
  /\ IF recordLock = NoOne
     THEN Goes(w, "second") /\ recordLock' = w
     ELSE Gone(w) /\ UNCHANGED recordLock
  /\ UNCHANGED <<switches, files, pid, log, stateLock, script, shell, ghosts>>

\* Mutant: what was checked before the lock is not checked again.
UnclaimedUnasked == TRUE

\* No other watchdog claimed the trial between the first check and the lock.
Unclaimed == ~Fired

Report(w) ==
  /\ dog[w].pc = "second"
  /\ IF Unclaimed
     THEN Goes(w, "watching") /\ pid' = w /\ UNCHANGED recordLock
     ELSE Gone(w) /\ LetsGo(w) /\ UNCHANGED pid
  /\ UNCHANGED <<switches, files, log, stateLock, script, shell, ghosts>>
-----------------------------------------------------------------------------
(* The decision.                                                           *)

\* Signed with this trial's key, for this trial, inside its window.
Counts(line) == line.signed

Activated == "activated" \in files

Unread(w) == dog[w].read < Len(log)

\* Why watchdog w ends the trial now, and with which word.
Decides(w, word) ==
  \/ Closed /\ word = "aborted"             \* a claim it has not written
  \/ "abort" \in files /\ word = "aborted"
  \/ "done fail" \in files /\ word = "fail"
  \/ ~Activated /\ word = "aborted"         \* the activation limit
  \/ Activated /\ dog[w].pending /\ word = dog[w].word          \* settled, or the timeout
  \/ Activated /\ ~dog[w].pending /\ word = "fail"     \* no reply after `sent`, or the timeout

Decide(w) ==
  /\ dog[w].pc = "watching"
  /\ \E word \in Word :
       Decides(w, word) /\ dog' = [dog EXCEPT ![w].pc = "firing", ![w].word = word]
  /\ UNCHANGED <<switches, files, pid, log, locks, script, shell, ghosts>>

\* An exception and a SIGTERM roll back as well.
BreaksOff(w) ==
  /\ dog[w].pc = "watching"
  /\ dog' = [dog EXCEPT ![w].pc = "firing", ![w].word = "aborted"]
  /\ UNCHANGED <<switches, files, pid, log, locks, script, shell, ghosts>>

\* The next line of the log, until one counts.
SeeLine(w) ==
  LET line == log[dog[w].read + 1] IN
  /\ dog[w].pc = "watching"
  /\ files \cap {"fired", "tombstone", "abort", "done fail"} = {}
  /\ Activated /\ ~dog[w].pending /\ Unread(w)
  /\ dog' = [dog EXCEPT ![w].read = @ + 1,
                        ![w].pending = Counts(line),
                        ![w].word = IF Counts(line) THEN line.word ELSE @]
  /\ UNCHANGED <<switches, files, pid, log, locks, script, shell, ghosts>>
-----------------------------------------------------------------------------
(* The rollback.                                                           *)

\* Mutant: the claim does not wait for a command that holds the lock.
LockFreeUnasked == TRUE

LockFree == stateLock = NoOne

\* The trial is claimed: under the state lock, or without it when its holder keeps
\* it for too long, or the claim cannot be written; nothing stops the rollback.
Claim(w, how) ==
  /\ \/ how = "held" /\ LockFree /\ files' = files \cup {"fired", "tombstone"}
     \/ how = "bare" /\ ~LockFree /\ files' = files \cup {"fired", "tombstone"}
     \/ how = "failed" /\ files' \in {files, files \cup {"fired"}}
  /\ claim' = IF claim = "none" THEN how ELSE claim
  /\ dog' = [dog EXCEPT ![w] = Dog("rolling", IF LockFree THEN dog[w].word ELSE "aborted")]

Fire(w) ==
  /\ dog[w].pc = "firing"
  /\ \E how \in {"held", "bare", "failed"} : Claim(w, how)
  /\ fires' = fires + 1
  /\ script' = [script EXCEPT ![w] = [step |-> 1, went |-> "well"]]
  /\ UNCHANGED <<switches, pid, log, locks, shell, wiped, reported, hand>>

Running(s) == script[s].step \in 1..Len(Steps)
Doing(s, step) == Running(s) /\ Steps[script[s].step] = step

\* The script goes on to its next step, whether this one went well or not.
Continues(s, went) ==
  script' = [script EXCEPT ![s] = [step |-> IF @.step = Len(Steps) THEN 0 ELSE @.step + 1,
                                   went |-> IF went = "well" THEN @.went ELSE "badly"]]

\* 1. Both switches to 0 in .env.
ScriptEnv(s) ==
  /\ Doing(s, "env")
  /\ \/ env' = Off /\ wiped' = (claim # "none" \/ wiped) /\ Continues(s, "well")
     \/ UNCHANGED <<env, wiped>> /\ Continues(s, "badly")
  /\ UNCHANGED <<fragment, serving, files, pid, log, dog, locks, shell, claim, fires,
                 reported, hand>>

\* 2. install.sh, which must not report analysis on.
ScriptInstall(s) ==
  /\ Doing(s, "install")
  /\ \/ fragment' = env.analysis /\ Continues(s, IF env.analysis THEN "badly" ELSE "well")
     \/ UNCHANGED fragment /\ Continues(s, "badly")
  /\ UNCHANGED <<env, serving, files, pid, log, dog, locks, shell, ghosts>>

\* 3. The gateway is restarted, its tool servers end.
ScriptRestart(s) ==
  /\ Doing(s, "restart")
  /\ \/ serving' = FALSE /\ Continues(s, "well")
     \/ UNCHANGED serving /\ Continues(s, "badly")
  /\ UNCHANGED <<env, fragment, files, pid, log, dog, locks, shell, ghosts>>

\* 4.-6. Charts and the prune job are removed, and what is off is verified.
ScriptVerify(s) ==
  /\ Doing(s, "verify")
  /\ \/ env = Off /\ ~fragment /\ Continues(s, "well")
     \/ Continues(s, "badly")
  /\ UNCHANGED <<switches, files, pid, log, dog, locks, shell, ghosts>>

\* The script runs past its limit, or dies with its watchdog.
ScriptCut(s) ==
  /\ Running(s)
  /\ script' = [script EXCEPT ![s] = [step |-> 0, went |-> "badly"]]
  /\ UNCHANGED <<switches, files, pid, log, dog, locks, shell, ghosts>>

ScriptStep(s) ==
  ScriptEnv(s) \/ ScriptInstall(s) \/ ScriptRestart(s) \/ ScriptVerify(s) \/ ScriptCut(s)

\* The record is written, or fails to be; the watch goes on.
Record(w) ==
  /\ dog[w].pc \in {"rolling", "again"} /\ ~Running(w)
  /\ Goes(w, "post")
  /\ files' \in {files, files \cup {"record"}}
  /\ reported' = (script[w].went = "well" \/ reported)
  /\ UNCHANGED <<switches, pid, log, locks, script, shell, claim, fires, wiped, hand>>

\* A switch or the fragment is on again.
Reenabled == env # Off \/ fragment

\* Mutant: one rerun too many.
RerunsLeftOne(w) == dog[w].reruns <= MaxReruns

RerunsLeft(w) == dog[w].reruns < MaxReruns

Rerun(w) ==
  /\ dog[w].pc = "post"
  /\ Reenabled /\ RerunsLeft(w)
  /\ dog' = [dog EXCEPT ![w].pc = "again", ![w].reruns = @ + 1]
  /\ script' = [script EXCEPT ![w] = [step |-> 1, went |-> "well"]]
  /\ UNCHANGED <<switches, files, pid, log, locks, shell, ghosts>>

\* The window ends, by its time, a SIGTERM or too many reruns.
PostEnds(w) ==
  /\ dog[w].pc = "post"
  /\ Gone(w) /\ LetsGo(w)
  /\ UNCHANGED <<switches, files, pid, log, stateLock, script, shell, ghosts>>

\* A signal no watchdog handles, a logout, or arm gave up on it.
Kill(w) ==
  /\ dog[w].pc \notin {"none", "gone"}
  /\ Gone(w) /\ LetsGo(w)
  /\ UNCHANGED <<switches, files, pid, log, stateLock, script, shell, ghosts>>

-----------------------------------------------------------------------------
(* The operator.                                                           *)

\* No claim, and the watchdog of the pid file lives.
LiveRun == ~Closed /\ pid # NoOne /\ dog[pid].pc # "gone"

Ends(o) ==
  /\ shell' = [shell EXCEPT ![o] = NoCommand]
  /\ stateLock' = IF stateLock = o THEN NoOne ELSE stateLock

\* A command takes the state lock; one that cannot changes nothing.
Begin(o, cmd) ==
  /\ shell[o].pc = "idle" /\ stateLock = NoOne
  /\ stateLock' = o
  /\ shell' = [shell EXCEPT ![o].pc = "check", ![o].cmd = cmd]
  /\ UNCHANGED <<switches, files, pid, log, dog, recordLock, script, ghosts>>

\* What each command asks for.
Allowed(cmd) ==
  /\ LiveRun
  /\ cmd = "enable" => ~Activated /\ env.analysis
  /\ cmd = "activated" => "enabled" \in files /\ ~Activated
  /\ cmd = "sent" => Activated /\ "sent" \notin files

Check(o) ==
  /\ shell[o].pc = "check"
  /\ IF Allowed(shell[o].cmd)
     THEN /\ shell' = [shell EXCEPT ![o].pc = IF shell[o].cmd = "enable" THEN "read" ELSE "write"]
          /\ UNCHANGED stateLock
     ELSE Ends(o)
  /\ UNCHANGED <<switches, files, pid, log, dog, recordLock, script, ghosts>>

\* set_env reads .env; so does install.sh, which takes no lock.
ReadEnv(o) ==
  /\ shell[o].pc \in {"read", "idle"}
  /\ shell' = [shell EXCEPT ![o].pc = "write", ![o].read = env,
                            ![o].cmd = IF shell[o].pc = "idle" THEN "install" ELSE @]
  /\ UNCHANGED <<switches, files, pid, log, dog, locks, script, ghosts>>

\* ... and replaces it; `enabled` is another file, not written if it dies between.
WriteOut(o) ==
  LET cmd == shell[o].cmd IN
  /\ shell[o].pc = "write"
  /\ \/ /\ cmd = "enable"
        /\ env' = [shell[o].read EXCEPT !.delivery = TRUE]
        /\ files' \in {files, files \cup {"enabled"}} /\ UNCHANGED fragment
     \/ /\ cmd \in {"activated", "sent"}
        /\ files' = files \cup {cmd} /\ UNCHANGED <<env, fragment>>
     \/ /\ cmd = "install"
        /\ fragment' = shell[o].read.analysis /\ UNCHANGED <<env, files>>
  /\ Ends(o)
  /\ UNCHANGED <<serving, pid, log, dog, recordLock, script, ghosts>>

Interrupt(o) ==
  /\ shell[o].pc # "idle"
  /\ Ends(o)
  /\ UNCHANGED <<switches, files, pid, log, dog, recordLock, script, ghosts>>

\* `abort` and `done fail` take no lock.
Signal(mark) ==
  /\ LiveRun /\ mark \notin files
  /\ files' = files \cup {mark}
  /\ UNCHANGED <<switches, pid, log, dog, locks, script, shell, ghosts>>

\* The operator restarts the gateway, or it dies.
Restart ==
  /\ serving /\ serving' = FALSE
  /\ UNCHANGED <<env, fragment, files, pid, log, dog, locks, script, shell, ghosts>>

\* Someone writes a claim of their own.
Tamper ==
  /\ ~Fired /\ files' = files \cup {"fired"}
  /\ UNCHANGED <<switches, pid, log, dog, locks, script, shell, ghosts>>

\* Someone switches charts on in an editor.
HandEdit ==
  /\ ~hand /\ hand' = TRUE
  /\ env' = [analysis |-> TRUE, delivery |-> TRUE]
  /\ UNCHANGED <<fragment, serving, files, pid, log, dog, locks, script, shell, claim,
                 fires, wiped, reported>>

\* "NOT RUNNING and no record": the rollback is run by hand.
AgentRollsBack ==
  /\ pid # NoOne => dog[pid].pc = "gone"
  /\ "record" \notin files /\ ~Running(Agent)
  /\ script' = [script EXCEPT ![Agent] = [step |-> 1, went |-> "well"]]
  /\ UNCHANGED <<switches, files, pid, log, dog, locks, shell, ghosts>>
-----------------------------------------------------------------------------
(* The tool server.                                                        *)

\* A chat session's server reads .env once, when it starts.
ServerStarts ==
  /\ env.analysis /\ env.delivery /\ ~serving
  /\ serving' = TRUE
  /\ UNCHANGED <<env, fragment, files, pid, log, dog, locks, script, shell, ghosts>>

\* A line is logged: one of a server with charts on is signed, others (another
\* trial's, one from before the activation, one written by hand) do not count.
Logged(line) ==
  /\ Activated /\ Len(log) < MaxLines
  /\ line.signed => serving
  /\ log' = Append(log, line)
  /\ UNCHANGED <<switches, files, pid, dog, locks, script, shell, ghosts>>

\* What a watchdog does by itself.
DogStep(w) ==
  \/ TakeRecordLock(w) \/ Report(w) \/ Decide(w) \/ SeeLine(w) \/ Fire(w)
  \/ ScriptStep(w) \/ Record(w) \/ Rerun(w) \/ PostEnds(w)

OperatorStep(o) ==
  \/ \E cmd \in {"enable", "activated", "sent"} : Begin(o, cmd)
  \/ Check(o) \/ ReadEnv(o) \/ WriteOut(o) \/ Interrupt(o)

TrialNext ==
  \/ \E w \in Watchdog : Watches(w) \/ DogStep(w) \/ BreaksOff(w) \/ Kill(w)
  \/ \E o \in Operator : OperatorStep(o)
  \/ ScriptStep(Agent)
  \/ \E mark \in {"abort", "done fail"} : Signal(mark)
  \/ Restart \/ Tamper \/ HandEdit \/ AgentRollsBack \/ ServerStarts
  \/ \E line \in Line : Logged(line)

TrialSpec == TrialInit /\ [][TrialNext]_trialVars
-----------------------------------------------------------------------------
(* Properties.                                                             *)

\* "The rollback runs exactly once": whatever watchdogs are started on the trial
\* and killed, no second one fires (cmd_watch, fire), once the claim was written.
RollsBackOnce == fires <= 1 \/ claim = "failed"

\* "Late activation cannot re-enable anything": once the trial was claimed under
\* the state lock and .env switched off, no command begun at any time, nor an old
\* copy of .env in one, turns a switch on again (cmd_enable, _state_lock).
StaysOff == claim = "held" /\ wiped /\ ~hand => env = Off

\* The two parts of RecordIsTrue.
PassIsSigned ==
  \A w \in Watchdog :
    dog[w].pc \in {"rolling", "post", "again"} /\ dog[w].word = "pass" =>
      \E i \in 1..Len(log) : log[i] = [word |-> "pass", signed |-> TRUE]

DoneIsOff == reported /\ claim = "held" /\ ~hand => ~serving

\* What the record says is so.  The word "pass" comes from a line the server signed
\* for this trial, never from a forged or replayed one (watch, authenticate); and
\* after a rollback that ended "DONE", whose claim was made under the state lock, no
\* tool server with charts on runs, nor starts later, unless someone edited .env by
\* hand (chart_trial_rollback.sh: .env before the restart).
RecordIsTrue == PassIsSigned /\ DoneIsOff
=============================================================================
