-------------------------- MODULE ChartTrialProofs --------------------------
(***************************************************************************)
(* Proofs about ChartTrial for any number of watchdogs and shells, any     *)
(* number of reruns and any length of the log.                             *)
(*                                                                         *)
(* The watchdog past its start holds the record lock, so it is alone       *)
(* (Alone), and as long as the claim was written none of them watches a    *)
(* trial that has fired (Once).  A claim made under the state lock finds   *)
(* no command past its check, and none gets there again (Shut); so .env    *)
(* stays as the rollback left it, and a script whose steps went well means *)
(* what it says (Scripted).                                                *)
(***************************************************************************)
EXTENDS ChartTrial, TLAPS

Holding == {"second", "watching", "firing", "rolling", "post", "again"}

\* What TrialTypeOK says of one watchdog.
DogRecord ==
  [pc : {"none", "first", "second", "watching", "firing", "rolling", "post", "again", "gone"},
   word : Word, pending : BOOLEAN, read : 0..MaxLines, reruns : 0..MaxReruns]

Alone == \A w \in Watchdog : dog[w].pc \in Holding => recordLock = w

\* A trial fires once, and the claim is there from then on.
Once ==
  claim # "failed" =>
    /\ fires = 0 <=> claim = "none"
    /\ fires <= 1
    /\ fires = 1 => Fired
    /\ \A w \in Watchdog : dog[w].pc \in {"watching", "firing"} => fires = 0

\* Before the claim nothing of the rollback has happened.
NotYet ==
  claim = "none" => ~wiped /\ \A w \in Watchdog : dog[w].pc \notin {"rolling", "post", "again"}

\* A command acts under the state lock; only `enable` reads .env in it.
Locked ==
  \A o \in Operator :
    /\ shell[o].pc \in {"check", "read"} => stateLock = o
    /\ shell[o].pc = "write" /\ shell[o].cmd # "install" => stateLock = o
    /\ shell[o].pc = "read" => shell[o].cmd = "enable"

Enabling(o) == shell[o].pc \in {"read", "write"} /\ shell[o].cmd = "enable"

\* After a claim under the lock no command is about to switch on.
Shut == claim = "held" => Closed /\ \A o \in Operator : ~Enabling(o)

SignedPass == \E i \in 1..Len(log) : log[i] = [word |-> "pass", signed |-> TRUE]

Sworn == \A w \in Watchdog : dog[w].word = "pass" => SignedPass

\* What the script of a watchdog has reached.
Scripted ==
  \A w \in Watchdog :
    dog[w].pc \in {"rolling", "again"} /\ script[w].went = "well" =>
      /\ script[w].step # 1 => wiped
      /\ script[w].step \in {0, 4} /\ claim = "held" /\ ~hand => ~serving

\* The inductive invariant.
IInv ==
  /\ TrialTypeOK
  /\ Alone /\ Once /\ NotYet
  /\ Locked /\ Shut /\ StaysOff
  /\ Sworn /\ Scripted
  /\ reported => wiped
  /\ DoneIsOff
-----------------------------------------------------------------------------
LEMMA Parameters ==
  /\ MaxReruns \in Nat /\ MaxLines \in Nat
  /\ NoOne \notin Watchdog /\ NoOne \notin Operator /\ Agent \notin Watchdog
BY TrialAssumption

\* The script's steps are numbered from 1.
LEMMA Numbered ==
  /\ Len(Steps) = 4 /\ 0..Len(Steps) = 0..4 /\ 1..Len(Steps) = 1..4
  /\ Steps[1] = "env" /\ Steps[2] = "install" /\ Steps[3] = "restart" /\ Steps[4] = "verify"
BY DEF Steps

LEMMA FreshDog ==
  ASSUME NEW pc, NEW word \in Word,
         pc \in {"none", "first", "second", "watching", "firing", "rolling", "post",
                 "again", "gone"}
  PROVE  Dog(pc, word) \in DogRecord /\ Dog(pc, word).pc = pc /\ Dog(pc, word).word = word
BY Parameters DEF Dog, DogRecord

LEMMA InitIInv == TrialInit => IInv
<1> SUFFICES ASSUME TrialInit PROVE IInv OBVIOUS
<1>1. TrialTypeOK
  <2>1. Dog("none", "aborted") \in DogRecord BY FreshDog DEF Word
  <2>2. NoScript \in [step : 0..Len(Steps), went : {"well", "badly"}] BY Numbered DEF NoScript
  <2>3. NoCommand \in [pc : {"idle", "check", "read", "write"},
                       cmd : {"enable", "activated", "sent", "install"}, read : Switches]
    BY DEF NoCommand, Off, Switches
  <2>4. log \in Seq(Line) /\ Len(log) <= MaxLines BY Parameters DEF TrialInit
  <2> QED BY <2>1, <2>2, <2>3, <2>4 DEF TrialInit, TrialTypeOK, DogRecord, Switches
<1>2. Alone /\ Once /\ NotYet /\ Sworn /\ Scripted
  BY DEF TrialInit, Alone, Once, NotYet, Sworn, Scripted, Dog, Holding
<1>3. Locked BY DEF TrialInit, Locked, NoCommand
<1>4. Shut /\ StaysOff /\ DoneIsOff /\ (reported => wiped)
  BY DEF TrialInit, Shut, StaysOff, DoneIsOff
<1> QED BY <1>1, <1>2, <1>3, <1>4 DEF IInv
-----------------------------------------------------------------------------
(* A watchdog up to its claim, and its end.                                *)

\* Watchdog w goes to r, which is not past a claim.
LEMMA DogMoves ==
  ASSUME IInv, NEW w \in Watchdog,
         NEW r \in DogRecord,
         dog' = [dog EXCEPT ![w] = r],
         r.pc \notin {"rolling", "post", "again"},
         r.pc \in {"watching", "firing"} =>
           ~Fired \/ dog[w].pc \in {"watching", "firing"},
         r.pc \in Holding => recordLock' = w,
         recordLock' = recordLock \/ (recordLock \in {w, NoOne} /\ recordLock' \in {w, NoOne}),
         r.word = "pass" => SignedPass,
         pid' \in {pid, w},
         UNCHANGED <<switches, files, log, stateLock, script, shell, ghosts>>
  PROVE  IInv'
<1> USE DEF IInv, switches, ghosts
<1>0. /\ dog'[w] = r /\ \A v \in Watchdog \ {w} : dog'[v] = dog[v]
  BY DEF TrialTypeOK
<1>1. TrialTypeOK' BY DEF TrialTypeOK, DogRecord
<1>2. Alone' BY <1>0, Parameters DEF Alone, Holding
<1>3. Once' BY <1>0 DEF Once, Fired, TrialTypeOK
<1>4. NotYet' BY <1>0 DEF NotYet
<1>5. Locked' /\ Shut' /\ StaysOff' /\ DoneIsOff' /\ (reported => wiped)'
  BY DEF Locked, Shut, StaysOff, DoneIsOff, Closed, Enabling, Off
<1>6. Sworn' BY <1>0 DEF Sworn, SignedPass
<1>7. Scripted' BY <1>0 DEF Scripted
<1> QED BY <1>1, <1>2, <1>3, <1>4, <1>5, <1>6, <1>7

\* A watchdog that is gone keeps nothing.
LEMMA GoneStep ==
  ASSUME IInv, NEW w \in Watchdog, Gone(w), recordLock' = recordLock \/ LetsGo(w), pid' = pid,
         UNCHANGED <<switches, files, log, stateLock, script, shell, ghosts>>
  PROVE  IInv'
<1> DEFINE r == Dog("gone", "aborted")
<1>1. r \in DogRecord /\ r.pc = "gone" /\ r.word = "aborted" BY FreshDog DEF Word
<1>2. dog' = [dog EXCEPT ![w] = r] BY DEF Gone
<1>3. recordLock' = recordLock \/ (recordLock \in {w, NoOne} /\ recordLock' \in {w, NoOne})
  BY DEF LetsGo
<1> HIDE DEF r
<1> QED BY <1>1, <1>2, <1>3, DogMoves DEF Holding

LEMMA StartStep ==
  ASSUME IInv, NEW w \in Watchdog, Watches(w) \/ TakeRecordLock(w) \/ Report(w)
  PROVE  IInv'
<1> USE DEF IInv
<1>0. /\ dog[w] \in DogRecord
      /\ dog[w].word = "pass" => SignedPass
      /\ recordLock \in Watchdog \cup {NoOne}
  BY DEF TrialTypeOK, DogRecord, Sworn
<1>2. CASE Watches(w)
  <2> DEFINE r == [dog[w] EXCEPT !.pc = "first"]
  <2>1. dog' = [dog EXCEPT ![w] = r] BY <1>2 DEF Watches, Goes
  <2>2. r \in DogRecord /\ r.pc = "first" /\ r.word = dog[w].word BY <1>0 DEF DogRecord
  <2>3. UNCHANGED <<switches, files, pid, log, locks, script, shell, ghosts>>
    BY <1>2 DEF Watches
  <2> HIDE DEF r
  <2> QED BY <1>0, <2>1, <2>2, <2>3, DogMoves DEF Holding, locks
<1>3. CASE TakeRecordLock(w) /\ recordLock = NoOne
  <2> DEFINE r == [dog[w] EXCEPT !.pc = "second"]
  <2>1. dog' = [dog EXCEPT ![w] = r] BY <1>3 DEF TakeRecordLock, Goes
  <2> QED BY <1>0, <1>3, <2>1, DogMoves DEF TakeRecordLock, Holding, DogRecord
<1>4. CASE TakeRecordLock(w) /\ recordLock # NoOne
  BY <1>4, GoneStep DEF TakeRecordLock
<1>5. CASE Report(w) /\ Unclaimed
  <2> DEFINE r == [dog[w] EXCEPT !.pc = "watching"]
  <2>1. dog' = [dog EXCEPT ![w] = r] BY <1>5 DEF Report, Goes
  <2>2. recordLock = w BY <1>5 DEF Report, Alone, Holding
  <2> QED BY <1>0, <1>5, <2>1, <2>2, DogMoves DEF Report, Holding, Unclaimed, DogRecord
<1>6. CASE Report(w) /\ ~Unclaimed
  BY <1>6, GoneStep DEF Report
<1> QED BY <1>2, <1>3, <1>4, <1>5, <1>6

LEMMA WatchStep ==
  ASSUME IInv, NEW w \in Watchdog, Decide(w) \/ BreaksOff(w) \/ SeeLine(w)
  PROVE  IInv'
<1> USE DEF IInv
<1>0. /\ dog[w] \in DogRecord
      /\ dog[w].word = "pass" => SignedPass
      /\ log \in Seq(Line) /\ Len(log) <= MaxLines /\ Len(log) \in Nat
  BY DEF TrialTypeOK, DogRecord, Sworn
<1>1. dog[w].pc = "watching" /\ recordLock = w
  BY DEF Decide, BreaksOff, SeeLine, Alone, Holding
<1>2. CASE Decide(w)
  <2>1. PICK word \in Word :
          Decides(w, word) /\ dog' = [dog EXCEPT ![w].pc = "firing", ![w].word = word]
    BY <1>2 DEF Decide
  <2> DEFINE r == [dog[w] EXCEPT !.pc = "firing", !.word = word]
  <2>2. dog' = [dog EXCEPT ![w] = r] BY <2>1
  <2>3. word = "pass" => SignedPass BY <1>0, <2>1 DEF Decides
  <2> QED BY <1>0, <1>1, <1>2, <2>2, <2>3, DogMoves DEF Decide, Holding, locks, DogRecord
<1>3. CASE BreaksOff(w)
  <2> DEFINE r == [dog[w] EXCEPT !.pc = "firing", !.word = "aborted"]
  <2>1. dog' = [dog EXCEPT ![w] = r] BY <1>3 DEF BreaksOff
  <2> QED BY <1>0, <1>1, <1>3, <2>1, DogMoves DEF BreaksOff, Holding, locks, Word, DogRecord
<1>4. CASE SeeLine(w)
  <2> DEFINE line == log[dog[w].read + 1]
             r == [dog[w] EXCEPT !.read = @ + 1, !.pending = Counts(line),
                                 !.word = IF Counts(line) THEN line.word ELSE @]
  <2>1. /\ dog' = [dog EXCEPT ![w] = r] /\ dog[w].read < Len(log)
    BY <1>4 DEF SeeLine, Unread
  <2>2. dog[w].read + 1 \in 1..Len(log) BY <1>0, <2>1, Parameters DEF DogRecord
  <2>3. line \in Line BY <1>0, <2>2
  <2>4. r.word \in Word /\ r.read \in 0..MaxLines /\ r.pending \in BOOLEAN
    BY <1>0, <2>2, <2>3, Parameters DEF Line, Word, Counts, DogRecord
  <2>5. r.word = "pass" => SignedPass
    <3> SUFFICES ASSUME Counts(line), line.word = "pass" PROVE SignedPass
      BY <1>0
    <3>1. line = [word |-> "pass", signed |-> TRUE] BY <2>3 DEF Line, Counts
    <3> QED BY <2>2, <3>1 DEF SignedPass
  <2>6. r.pc = "watching" BY <1>0, <1>1
  <2>7. r \in DogRecord
    BY <1>0, <2>4 DEF DogRecord
  <2> HIDE DEF r
  <2> QED BY <1>1, <1>4, <2>1, <2>5, <2>6, <2>7, DogMoves DEF SeeLine, locks
<1> QED BY <1>2, <1>3, <1>4

LEMMA EndStep ==
  ASSUME IInv, NEW w \in Watchdog, PostEnds(w) \/ Kill(w)
  PROVE  IInv'
BY GoneStep DEF PostEnds, Kill
-----------------------------------------------------------------------------
(* The rollback.                                                           *)

LEMMA FireStep == ASSUME IInv, NEW w \in Watchdog, Fire(w) PROVE IInv'
<1> USE DEF IInv, switches, locks
<1>1. PICK how \in {"held", "bare", "failed"} : Claim(w, how) BY DEF Fire
<1> DEFINE word == IF LockFree THEN dog[w].word ELSE "aborted"
           r == Dog("rolling", word)
<1>2. /\ dog[w].pc = "firing" /\ recordLock = w
      /\ claim # "failed" => fires = 0 /\ claim = "none"
      /\ claim = "none" => ~wiped /\ ~reported
      /\ word \in Word /\ (word = "pass" => SignedPass)
  BY DEF Fire, Alone, Holding, Once, NotYet, Sworn, TrialTypeOK, Word
<1>3. r \in DogRecord /\ r.pc = "rolling" /\ r.word = word BY <1>2, FreshDog
<1>4. dog' = [dog EXCEPT ![w] = r] BY <1>1 DEF Claim
<1> HIDE DEF r, word
<1>5. /\ dog'[w] = r /\ \A v \in Watchdog \ {w} : dog'[v] = dog[v]
      /\ \A v \in Watchdog \ {w} : dog[v].pc \notin Holding
  BY <1>2, <1>4, Parameters DEF TrialTypeOK, Alone
<1>6. /\ script' = [script EXCEPT ![w] = [step |-> 1, went |-> "well"]]
      /\ fires' = fires + 1
      /\ UNCHANGED <<env, fragment, serving, pid, log, recordLock, stateLock, shell, wiped,
                     reported, hand>>
  BY DEF Fire
<1>7. /\ claim' = IF claim = "none" THEN how ELSE claim
      /\ files \subseteq files' /\ files' \subseteq files \cup {"fired", "tombstone"}
      /\ how # "failed" => Fired'
      /\ how = "held" => LockFree
  BY <1>1 DEF Claim, Fired
<1>8. TrialTypeOK'
  <2>1. script' \in [Watchdog \cup {Agent} -> [step : 0..Len(Steps), went : {"well", "badly"}]]
    BY <1>6, Numbered DEF TrialTypeOK
  <2>2. dog' \in [Watchdog -> DogRecord] BY <1>3, <1>4 DEF TrialTypeOK, DogRecord
  <2> QED BY <1>6, <1>7, <2>1, <2>2 DEF TrialTypeOK, DogRecord
<1>9. Alone' BY <1>2, <1>5, <1>6 DEF Alone, Holding
<1>10. Once'
  <2> SUFFICES ASSUME claim' # "failed"
               PROVE  /\ fires' = 1 /\ claim' # "none" /\ Fired'
                      /\ \A v \in Watchdog : dog'[v].pc \notin {"watching", "firing"}
    BY DEF Once
  <2>1. claim # "failed" /\ how # "failed" BY <1>2, <1>7
  <2>2. fires' = 1 /\ claim' # "none" /\ Fired' BY <1>2, <1>6, <1>7, <2>1
  <2> QED BY <1>3, <1>5, <2>2 DEF Holding
<1>11. NotYet' BY <1>7 DEF NotYet
<1>12. Locked' BY <1>6 DEF Locked
<1>13. Shut'
  <2> SUFFICES ASSUME claim' = "held" PROVE Closed' /\ \A o \in Operator : ~Enabling(o)'
    BY DEF Shut
  <2>1. how = "held" BY <1>2, <1>7
  <2> QED BY <1>6, <1>7, <2>1, Parameters DEF Closed, Fired, Enabling, Locked, LockFree
<1>14. StaysOff' /\ DoneIsOff' /\ (reported => wiped)'
  BY <1>2, <1>6, <1>7 DEF StaysOff, DoneIsOff
<1>15. Sworn' BY <1>2, <1>3, <1>5, <1>6 DEF Sworn, SignedPass
<1>16. Scripted'
  <2>1. script'[w].step = 1 BY <1>6 DEF TrialTypeOK
  <2> QED BY <1>5, <2>1 DEF Scripted, Holding
<1> QED BY <1>8, <1>9, <1>10, <1>11, <1>12, <1>13, <1>14, <1>15, <1>16

\* Script s is, after the step, at r and a good run of it means what Scripted says.
Earned(s, r) ==
  s \in Watchdog /\ dog[s].pc \in {"rolling", "again"} /\ r.went = "well" =>
    /\ r.step # 1 => wiped'
    /\ r.step \in {0, 4} /\ claim = "held" /\ ~hand => ~serving'

\* A step of a script leaves watchdogs, marks and shells alone; what is left to show
\* is about the switches and how far the script got.
LEMMA ScriptMoves ==
  ASSUME IInv, NEW s \in Watchdog \cup {Agent},
         NEW r \in [step : 0..4, went : {"well", "badly"}],
         script' = [script EXCEPT ![s] = r],
         env' = env \/ env' = Off, fragment' \in BOOLEAN,
         serving' \in BOOLEAN, serving' => serving,
         wiped' \in BOOLEAN, wiped => wiped',
         wiped' /\ ~wiped => env' = Off /\ claim # "none",
         Earned(s, r),
         UNCHANGED <<files, pid, log, dog, locks, shell, claim, fires, reported, hand>>
  PROVE  IInv'
<1> USE DEF IInv, locks
<1>1. TrialTypeOK'
  <2>1. script' \in [Watchdog \cup {Agent} -> [step : 0..Len(Steps), went : {"well", "badly"}]]
    BY Numbered DEF TrialTypeOK
  <2>2. Off \in Switches BY DEF Off, Switches
  <2>3. env' \in Switches BY <2>2 DEF TrialTypeOK
  <2> QED BY <2>1, <2>3 DEF TrialTypeOK
<1>2. Alone' /\ Once' /\ Locked' /\ Sworn'
  BY DEF Alone, Once, Locked, Sworn, SignedPass, Fired
<1>3. NotYet' /\ Shut' /\ StaysOff' /\ DoneIsOff' /\ (reported => wiped)'
  <2>1. NotYet' /\ Shut' BY DEF NotYet, Shut, Closed, Enabling
  <2>2. StaysOff'
    <3>1. CASE wiped BY <3>1 DEF StaysOff
    <3>2. CASE ~wiped BY <3>2 DEF StaysOff
    <3> QED BY <3>1, <3>2
  <2>3. DoneIsOff' /\ (reported => wiped)' BY DEF DoneIsOff
  <2> QED BY <2>1, <2>2, <2>3
<1>4. script'[s] = r /\ \A v \in Watchdog \ {s} : script'[v] = script[v]
  BY DEF TrialTypeOK
<1>5. Scripted'
  <2> SUFFICES ASSUME NEW v \in Watchdog, dog[v].pc \in {"rolling", "again"}, script'[v].went = "well"
               PROVE  /\ script'[v].step # 1 => wiped'
                      /\ script'[v].step \in {0, 4} /\ claim = "held" /\ ~hand => ~serving'
    BY DEF Scripted
  <2>1. CASE v = s BY <1>4, <2>1 DEF Earned
  <2>2. CASE v # s
    <3>1. script'[v] = script[v] BY <1>4, <2>2
    <3>2. script[v].step # 1 => wiped BY <3>1 DEF Scripted
    <3>3. script[v].step \in {0, 4} /\ claim = "held" /\ ~hand => ~serving
      BY <3>1 DEF Scripted
    <3> QED BY <3>1, <3>2, <3>3
  <2> QED BY <2>1, <2>2
<1> QED BY <1>1, <1>2, <1>3, <1>5

LEMMA ContinueLemma ==
  ASSUME IInv, NEW s \in Watchdog \cup {Agent}, NEW went \in {"well", "badly"},
         script[s].step \in 1..4, Continues(s, went)
  PROVE  \E r \in [step : 0..4, went : {"well", "badly"}] :
           /\ script' = [script EXCEPT ![s] = r]
           /\ r.step = IF script[s].step = 4 THEN 0 ELSE script[s].step + 1
           /\ r.went = "well" => went = "well" /\ script[s].went = "well"
<1> DEFINE step == IF script[s].step = 4 THEN 0 ELSE script[s].step + 1
           ends == IF went = "well" THEN script[s].went ELSE "badly"
           r == [step |-> step, went |-> ends]
<1>1. script[s] \in [step : 0..4, went : {"well", "badly"}] BY Numbered DEF IInv, TrialTypeOK
<1>2. step \in 0..4 /\ ends \in {"well", "badly"} BY <1>1
<1>3. script' = [script EXCEPT ![s] = r] BY Numbered DEF Continues
<1>4. ends = "well" => went = "well" /\ script[s].went = "well" BY <1>1
<1>5. r.step = step /\ r.went = ends OBVIOUS
<1>6. r \in [step : 0..4, went : {"well", "badly"}] BY <1>2
<1> HIDE DEF r
<1> QED BY <1>3, <1>4, <1>5, <1>6

LEMMA ScriptsStep ==
  ASSUME IInv, NEW s \in Watchdog \cup {Agent}, ScriptStep(s)
  PROVE  IInv'
<1>0. /\ script[s].step \in 0..4
      /\ env \in Switches /\ fragment \in BOOLEAN /\ serving \in BOOLEAN /\ wiped \in BOOLEAN
      /\ env.analysis \in BOOLEAN
  BY Numbered DEF IInv, TrialTypeOK, Switches
<1>1. ASSUME s \in Watchdog, dog[s].pc \in {"rolling", "again"}
      PROVE  /\ claim # "none"
             /\ script[s].went = "well" =>
                  /\ script[s].step # 1 => wiped
                  /\ script[s].step \in {0, 4} /\ claim = "held" /\ ~hand => ~serving
  BY <1>1 DEF IInv, NotYet, Scripted
<1>2. CASE ScriptEnv(s)
  <2>1. script[s].step = 1 BY <1>0, <1>2, Numbered DEF ScriptEnv, Doing, Running
  <2>2. CASE env' = Off /\ wiped' = (claim # "none" \/ wiped) /\ Continues(s, "well")
    <3>1. PICK r \in [step : 0..4, went : {"well", "badly"}] :
            script' = [script EXCEPT ![s] = r] /\ r.step = 2
      BY <2>1, <2>2, ContinueLemma
    <3>2. wiped' \in BOOLEAN /\ (wiped' <=> claim # "none" \/ wiped) BY <2>2
    <3>3. UNCHANGED <<fragment, serving, files, pid, log, dog, locks, shell, claim, fires,
                      reported, hand>>
      BY <1>2 DEF ScriptEnv
    <3>4. Earned(s, r) BY <1>1, <3>1, <3>2 DEF Earned
    <3>5. wiped' /\ ~wiped => env' = Off /\ claim # "none" BY <2>2, <3>2
    <3>6. (wiped => wiped') /\ wiped' \in BOOLEAN BY <3>2
    <3>7. env' = Off BY <2>2
    <3> QED BY <1>0, <3>1, <3>3, <3>4, <3>5, <3>6, <3>7, ScriptMoves
  <2>3. CASE UNCHANGED <<env, wiped>> /\ Continues(s, "badly")
    <3>1. PICK r \in [step : 0..4, went : {"well", "badly"}] :
            script' = [script EXCEPT ![s] = r] /\ r.step = 2 /\ r.went # "well"
      BY <2>1, <2>3, ContinueLemma
    <3>2. Earned(s, r) BY <3>1 DEF Earned
    <3>3. UNCHANGED <<fragment, serving, files, pid, log, dog, locks, shell, claim, fires,
                      reported, hand>>
      BY <1>2 DEF ScriptEnv
    <3> QED BY <1>0, <2>3, <3>1, <3>2, <3>3, ScriptMoves
  <2> QED BY <1>2, <2>2, <2>3 DEF ScriptEnv
<1>3. CASE ScriptInstall(s)
  <2>1. script[s].step = 2 BY <1>0, <1>3, Numbered DEF ScriptInstall, Doing, Running
  <2>2. PICK went \in {"well", "badly"} : Continues(s, went) BY <1>3 DEF ScriptInstall
  <2>3. PICK r \in [step : 0..4, went : {"well", "badly"}] :
          /\ script' = [script EXCEPT ![s] = r]
          /\ r.step = 3 /\ (r.went = "well" => script[s].went = "well")
    BY <2>1, <2>2, ContinueLemma
  <2>4. fragment' \in BOOLEAN BY <1>0, <1>3 DEF ScriptInstall
  <2>5. UNCHANGED <<env, serving, files, pid, log, dog, locks, shell, claim, fires, wiped,
                    reported, hand>>
    BY <1>3 DEF ScriptInstall, ghosts
  <2>6. Earned(s, r) BY <1>1, <2>1, <2>3, <2>5 DEF Earned
  <2> QED BY <1>0, <2>3, <2>4, <2>5, <2>6, ScriptMoves
<1>4. CASE ScriptRestart(s)
  <2>1. script[s].step = 3 BY <1>0, <1>4, Numbered DEF ScriptRestart, Doing, Running
  <2>2. UNCHANGED <<env, fragment, files, pid, log, dog, locks, shell, claim, fires, wiped,
                    reported, hand>>
    BY <1>4 DEF ScriptRestart, ghosts
  <2>3. CASE serving' = FALSE /\ Continues(s, "well")
    <3>1. PICK r \in [step : 0..4, went : {"well", "badly"}] :
            /\ script' = [script EXCEPT ![s] = r]
            /\ r.step = 4 /\ (r.went = "well" => script[s].went = "well")
      BY <2>1, <2>3, ContinueLemma
    <3>2. ~serving' /\ serving' \in BOOLEAN BY <2>3
    <3>3. Earned(s, r) BY <1>1, <2>1, <2>2, <3>1, <3>2 DEF Earned
    <3> QED BY <1>0, <2>2, <3>1, <3>2, <3>3, ScriptMoves
  <2>4. CASE UNCHANGED serving /\ Continues(s, "badly")
    <3>1. PICK r \in [step : 0..4, went : {"well", "badly"}] :
            script' = [script EXCEPT ![s] = r] /\ r.step = 4 /\ r.went # "well"
      BY <2>1, <2>4, ContinueLemma
    <3>2. Earned(s, r) BY <3>1 DEF Earned
    <3> QED BY <1>0, <2>2, <2>4, <3>1, <3>2, ScriptMoves
  <2> QED BY <1>4, <2>3, <2>4 DEF ScriptRestart
<1>5. CASE ScriptVerify(s)
  <2>1. script[s].step = 4 BY <1>0, <1>5, Numbered DEF ScriptVerify, Doing, Running
  <2>2. PICK went \in {"well", "badly"} : Continues(s, went) BY <1>5 DEF ScriptVerify
  <2>3. PICK r \in [step : 0..4, went : {"well", "badly"}] :
          /\ script' = [script EXCEPT ![s] = r]
          /\ r.step = 0 /\ (r.went = "well" => script[s].went = "well")
    BY <2>1, <2>2, ContinueLemma
  <2>4. UNCHANGED <<env, fragment, serving, files, pid, log, dog, locks, shell, claim, fires,
                    wiped, reported, hand>>
    BY <1>5 DEF ScriptVerify, switches, ghosts
  <2>5. Earned(s, r) BY <1>1, <2>1, <2>3, <2>4 DEF Earned
  <2> QED BY <1>0, <2>3, <2>4, <2>5, ScriptMoves
<1>6. CASE ScriptCut(s)
  <2>2. UNCHANGED <<env, fragment, serving, files, pid, log, dog, locks, shell, claim, fires,
                    wiped, reported, hand>>
    BY <1>6 DEF ScriptCut, switches, ghosts
  <2> DEFINE r == [step |-> 0, went |-> "badly"]
  <2>3. script' = [script EXCEPT ![s] = r] BY <1>6 DEF ScriptCut
  <2>1. r \in [step : 0..4, went : {"well", "badly"}] OBVIOUS
  <2>4. Earned(s, r) BY DEF Earned
  <2> HIDE DEF r
  <2> QED BY <1>0, <2>1, <2>2, <2>3, <2>4, ScriptMoves
<1> QED BY <1>2, <1>3, <1>4, <1>5, <1>6 DEF ScriptStep

LEMMA RecordStep == ASSUME IInv, NEW w \in Watchdog, Record(w) PROVE IInv'
<1> USE DEF IInv, switches, locks
<1>1. /\ dog[w].pc \in {"rolling", "again"} /\ script[w].step = 0
      /\ dog' = [dog EXCEPT ![w].pc = "post"]
      /\ files \subseteq files' /\ files' \subseteq files \cup {"record"}
      /\ reported' = (script[w].went = "well" \/ reported)
      /\ UNCHANGED <<env, fragment, serving, pid, log, recordLock, stateLock, script, shell,
                     claim, fires, wiped, hand>>
  BY Numbered DEF Record, Running, Goes, TrialTypeOK
<1>2. /\ dog'[w] = [dog[w] EXCEPT !.pc = "post"]
      /\ dog'[w].pc = "post" /\ dog'[w].word = dog[w].word
      /\ \A v \in Watchdog \ {w} : dog'[v] = dog[v]
  BY <1>1 DEF TrialTypeOK
<1>3. claim # "none"
      /\ (script[w].went = "well" => wiped /\ (claim = "held" /\ ~hand => ~serving))
  BY <1>1 DEF NotYet, Scripted
<1>4. TrialTypeOK'
  <2>1. dog' \in [Watchdog -> DogRecord]
    <3>1. dog \in [Watchdog -> DogRecord] BY DEF TrialTypeOK, DogRecord
    <3>2. [dog[w] EXCEPT !.pc = "post"] \in DogRecord BY <3>1 DEF DogRecord
    <3> QED BY <1>1, <3>1, <3>2
  <2> QED BY <1>1, <2>1 DEF TrialTypeOK, DogRecord
<1>5. Alone' BY <1>1, <1>2 DEF Alone, Holding
<1>6. Once' BY <1>1, <1>2 DEF Once, Fired
<1>7. NotYet' /\ Locked' /\ Shut' /\ StaysOff'
  BY <1>1, <1>3 DEF NotYet, Locked, Shut, StaysOff, Closed, Enabling
<1>8. Sworn' BY <1>1, <1>2 DEF Sworn, SignedPass
<1>9. Scripted' BY <1>1, <1>2 DEF Scripted
<1>10. DoneIsOff' /\ (reported => wiped)' BY <1>1, <1>3 DEF DoneIsOff
<1> QED BY <1>4, <1>5, <1>6, <1>7, <1>8, <1>9, <1>10

LEMMA RerunStep == ASSUME IInv, NEW w \in Watchdog, Rerun(w) PROVE IInv'
<1> USE DEF IInv, switches, locks, ghosts
<1>1. /\ dog[w].pc = "post" /\ dog[w].reruns < MaxReruns
      /\ dog' = [dog EXCEPT ![w].pc = "again", ![w].reruns = @ + 1]
      /\ script' = [script EXCEPT ![w] = [step |-> 1, went |-> "well"]]
      /\ UNCHANGED <<env, fragment, serving, files, pid, log, recordLock, stateLock, shell,
                     claim, fires, wiped, reported, hand>>
  BY DEF Rerun, RerunsLeft
<1>2. /\ dog'[w].pc = "again" /\ dog'[w].word = dog[w].word
      /\ \A v \in Watchdog \ {w} : dog'[v] = dog[v] /\ script'[v] = script[v]
      /\ script'[w].step = 1
  BY <1>1, Parameters DEF TrialTypeOK
<1>3. TrialTypeOK'
  <2>1. dog' \in [Watchdog -> DogRecord]
    <3>1. dog[w] \in DogRecord BY DEF TrialTypeOK, DogRecord
    <3>2. dog[w].reruns + 1 \in 0..MaxReruns BY <1>1, <3>1, Parameters DEF DogRecord
    <3> QED BY <1>1, <3>1, <3>2 DEF TrialTypeOK, DogRecord
  <2>2. script' \in [Watchdog \cup {Agent} -> [step : 0..Len(Steps), went : {"well", "badly"}]]
    BY <1>1, Numbered DEF TrialTypeOK
  <2> QED BY <1>1, <2>1, <2>2 DEF TrialTypeOK, DogRecord
<1>4. Alone' BY <1>1, <1>2 DEF Alone, Holding
<1>5. Once' BY <1>1, <1>2 DEF Once, Fired
<1>6. NotYet' BY <1>1, <1>2 DEF NotYet
<1>7. Locked' /\ Shut' /\ StaysOff' /\ DoneIsOff' /\ (reported => wiped)'
  BY <1>1 DEF Locked, Shut, StaysOff, DoneIsOff, Closed, Enabling
<1>8. Sworn' BY <1>1, <1>2 DEF Sworn, SignedPass
<1>9. Scripted' BY <1>1, <1>2 DEF Scripted
<1> QED BY <1>3, <1>4, <1>5, <1>6, <1>7, <1>8, <1>9
-----------------------------------------------------------------------------
(* The shells.                                                             *)

ShellRecord ==
  [pc : {"idle", "check", "read", "write"}, cmd : {"enable", "activated", "sent", "install"},
   read : Switches]

\* Shell o goes to c; under a claim that was made with the lock it does not come to
\* hold a copy of .env to switch on with, and does not write one out.
LEMMA ShellMoves ==
  ASSUME IInv, NEW o \in Operator, NEW c \in ShellRecord,
         shell' = [shell EXCEPT ![o] = c],
         stateLock' = stateLock \/ (stateLock \in {o, NoOne} /\ stateLock' \in {o, NoOne}),
         c.pc \in {"check", "read"} => stateLock' = o,
         c.pc = "write" /\ c.cmd # "install" => stateLock' = o,
         c.pc = "read" => c.cmd = "enable",
         claim = "held" => c.pc \notin {"read", "write"} \/ c.cmd # "enable",
         files \subseteq files', files' \subseteq files \cup Mark,
         env' \in Switches, claim = "held" => env' = env, fragment' \in BOOLEAN,
         UNCHANGED <<serving, pid, log, dog, recordLock, script, ghosts>>
  PROVE  IInv'
<1> USE DEF IInv, ghosts
<1>1. shell'[o] = c /\ \A p \in Operator \ {o} : shell'[p] = shell[p]
  BY DEF TrialTypeOK
<1>2. TrialTypeOK' BY DEF TrialTypeOK, ShellRecord
<1>3. Alone' /\ NotYet' /\ Sworn' /\ Scripted' /\ DoneIsOff' /\ (reported => wiped)'
  BY DEF Alone, NotYet, Sworn, SignedPass, Scripted, DoneIsOff
<1>4. Once' BY DEF Once, Fired
<1>5. Locked' BY <1>1, Parameters DEF Locked
<1>6. Shut' BY <1>1 DEF Shut, Closed, Enabling
<1>7. StaysOff' BY DEF StaysOff
<1> QED BY <1>2, <1>3, <1>4, <1>5, <1>6, <1>7

LEMMA ShellEnds ==
  ASSUME IInv, NEW o \in Operator, Ends(o),
         files \subseteq files', files' \subseteq files \cup Mark,
         env' \in Switches, claim = "held" => env' = env, fragment' \in BOOLEAN,
         UNCHANGED <<serving, pid, log, dog, recordLock, script, ghosts>>
  PROVE  IInv'
<1> DEFINE c == NoCommand
<1>1. c \in ShellRecord /\ c.pc = "idle" BY DEF NoCommand, ShellRecord, Off, Switches
<1>2. shell' = [shell EXCEPT ![o] = c] BY DEF Ends
<1>3. stateLock' = stateLock \/ (stateLock \in {o, NoOne} /\ stateLock' \in {o, NoOne})
  BY DEF Ends
<1> HIDE DEF c
<1> QED BY <1>1, <1>2, <1>3, ShellMoves

LEMMA OperatorsStep == ASSUME IInv, NEW o \in Operator, OperatorStep(o) PROVE IInv'
<1> USE DEF IInv, switches, ghosts, locks
<1>0. /\ shell[o] \in ShellRecord /\ env \in Switches /\ fragment \in BOOLEAN
      /\ files \subseteq files \cup Mark
  BY DEF TrialTypeOK, ShellRecord
<1>1. ASSUME NEW cmd \in {"enable", "activated", "sent"}, Begin(o, cmd) PROVE IInv'
  <2> DEFINE c == [shell[o] EXCEPT !.pc = "check", !.cmd = cmd]
  <2>1. shell' = [shell EXCEPT ![o] = c] BY <1>1 DEF Begin
  <2>2. c \in ShellRecord /\ c.pc = "check" BY <1>0 DEF ShellRecord
  <2>3. stateLock = NoOne /\ stateLock' = o BY <1>1 DEF Begin
  <2>4. UNCHANGED <<env, fragment, serving, files, pid, log, dog, recordLock, script, ghosts>>
    BY <1>1 DEF Begin
  <2> HIDE DEF c
  <2> QED BY <1>0, <2>1, <2>2, <2>3, <2>4, ShellMoves
<1>2. CASE Check(o) /\ Allowed(shell[o].cmd)
  <2> DEFINE c == [shell[o] EXCEPT !.pc = IF shell[o].cmd = "enable" THEN "read" ELSE "write"]
  <2>1. shell' = [shell EXCEPT ![o] = c] /\ stateLock' = stateLock BY <1>2 DEF Check
  <2>2. /\ c \in ShellRecord /\ c.cmd = shell[o].cmd
        /\ c.pc = (IF shell[o].cmd = "enable" THEN "read" ELSE "write")
    BY <1>0 DEF ShellRecord
  <2>3. stateLock = o BY <1>2 DEF Check, Locked
  <2>4. claim # "held" BY <1>2 DEF Allowed, LiveRun, Shut
  <2>5. UNCHANGED <<env, fragment, serving, files, pid, log, dog, recordLock, script, ghosts>>
    BY <1>2 DEF Check
  <2> HIDE DEF c
  <2> QED BY <1>0, <2>1, <2>2, <2>3, <2>4, <2>5, ShellMoves
<1>3. CASE Check(o) /\ ~Allowed(shell[o].cmd)
  <2>1. Ends(o) BY <1>3 DEF Check
  <2>2. UNCHANGED <<env, fragment, serving, files, pid, log, dog, recordLock, script, ghosts>>
    BY <1>3 DEF Check
  <2> QED BY <1>0, <2>1, <2>2, ShellEnds
<1>4. CASE ReadEnv(o)
  <2> DEFINE cmd == IF shell[o].pc = "idle" THEN "install" ELSE shell[o].cmd
             c == [shell[o] EXCEPT !.pc = "write", !.read = env, !.cmd = cmd]
  <2>1. shell' = [shell EXCEPT ![o] = c] /\ shell[o].pc \in {"read", "idle"}
    BY <1>4 DEF ReadEnv
  <2>2. c \in ShellRecord /\ c.pc = "write" /\ c.cmd = cmd BY <1>0 DEF ShellRecord
  <2>3. UNCHANGED <<env, fragment, serving, files, pid, log, dog, recordLock, stateLock, script,
                    ghosts>>
    BY <1>4 DEF ReadEnv
  <2>4. cmd # "install" => stateLock = o BY <2>1 DEF Locked
  <2>5. claim = "held" => cmd # "enable" BY <2>1 DEF Shut, Enabling, Locked
  <2> HIDE DEF c, cmd
  <2> QED BY <1>0, <2>1, <2>2, <2>3, <2>4, <2>5, ShellMoves
<1>5. CASE WriteOut(o)
  <2>1. Ends(o) /\ UNCHANGED <<serving, pid, log, dog, recordLock, script, ghosts>>
    BY <1>5 DEF WriteOut
  <2>2. files \subseteq files' /\ files' \subseteq files \cup Mark
    BY <1>5 DEF WriteOut, Mark
  <2>3. /\ env' \in Switches /\ fragment' \in BOOLEAN
        /\ env' = env \/ shell[o].cmd = "enable"
    <3> DEFINE on == [shell[o].read EXCEPT !.delivery = TRUE]
    <3>1. on \in Switches /\ shell[o].read.analysis \in BOOLEAN BY <1>0 DEF ShellRecord, Switches
    <3>2. /\ (env' = env \/ (env' = on /\ shell[o].cmd = "enable"))
          /\ (fragment' = fragment \/ fragment' = shell[o].read.analysis)
      BY <1>5 DEF WriteOut
    <3> HIDE DEF on
    <3> QED BY <1>0, <3>1, <3>2
  <2>4. claim = "held" => env' = env BY <1>5, <2>3 DEF WriteOut, Shut, Enabling
  <2> QED BY <2>1, <2>2, <2>3, <2>4, ShellEnds
<1>6. CASE Interrupt(o)
  <2>1. Ends(o) BY <1>6 DEF Interrupt
  <2>2. UNCHANGED <<env, fragment, serving, files, pid, log, dog, recordLock, script, ghosts>>
    BY <1>6 DEF Interrupt
  <2> QED BY <1>0, <2>1, <2>2, ShellEnds
<1> QED BY <1>1, <1>2, <1>3, <1>4, <1>5, <1>6 DEF OperatorStep
-----------------------------------------------------------------------------
(* Everything else, which leaves locks, watchdogs, shells and claims alone. *)

LEMMA OutsideMoves ==
  ASSUME IInv,
         files \subseteq files', files' \subseteq files \cup Mark \cup {"fired"},
         env' \in Switches, hand' \in BOOLEAN, hand => hand', env' = env \/ hand',
         serving' \in BOOLEAN, serving' => serving \/ env # Off,
         log' \in Seq(Line), Len(log') <= MaxLines, SignedPass => SignedPass',
         script' \in [Watchdog \cup {Agent} -> [step : 0..4, went : {"well", "badly"}]],
         \A w \in Watchdog : script'[w] = script[w],
         UNCHANGED <<fragment, pid, dog, recordLock, stateLock, shell, claim, fires, wiped,
                     reported>>
  PROVE  IInv'
<1> USE DEF IInv
<1>1. TrialTypeOK' BY Numbered DEF TrialTypeOK
<1>2. Alone' /\ NotYet' /\ Locked' BY DEF Alone, NotYet, Locked
<1>3. Once' BY DEF Once, Fired
<1>4. Shut' BY DEF Shut, Closed, Enabling
<1>5. Sworn' BY DEF Sworn
<1>6. StaysOff' BY DEF StaysOff
<1>7. Scripted'
  <2> SUFFICES ASSUME NEW w \in Watchdog, dog[w].pc \in {"rolling", "again"},
                      script[w].went = "well"
               PROVE  /\ script[w].step # 1 => wiped
                      /\ script[w].step \in {0, 4} /\ claim = "held" /\ ~hand' => ~serving'
    BY DEF Scripted
  <2>1. script[w].step # 1 => wiped BY DEF Scripted
  <2>2. script[w].step \in {0, 4} /\ claim = "held" /\ ~hand => ~serving BY DEF Scripted
  <2> QED BY <2>1, <2>2 DEF StaysOff
<1>8. DoneIsOff' /\ (reported => wiped)' BY DEF DoneIsOff, StaysOff
<1> QED BY <1>1, <1>2, <1>3, <1>4, <1>5, <1>6, <1>7, <1>8

Outside ==
  \/ \E mark \in {"abort", "done fail"} : Signal(mark)
  \/ Restart \/ Tamper \/ HandEdit \/ AgentRollsBack \/ ServerStarts
  \/ \E line \in Line : Logged(line)

LEMMA OutsideStep == ASSUME IInv, Outside PROVE IInv'
<1> USE DEF IInv, switches, ghosts, locks
<1>0. /\ env \in Switches /\ hand \in BOOLEAN /\ serving \in BOOLEAN
      /\ log \in Seq(Line) /\ Len(log) <= MaxLines
      /\ script \in [Watchdog \cup {Agent} -> [step : 0..4, went : {"well", "badly"}]]
      /\ files \subseteq files \cup Mark \cup {"fired"}
  BY Numbered DEF TrialTypeOK
<1>1. ASSUME NEW mark \in {"abort", "done fail"}, Signal(mark) PROVE IInv'
  <2>1. files \subseteq files' /\ files' \subseteq files \cup Mark \cup {"fired"}
    BY <1>1 DEF Signal, Mark
  <2>2. UNCHANGED <<env, fragment, serving, pid, log, dog, recordLock, stateLock, script, shell,
                    claim, fires, wiped, reported, hand>>
    BY <1>1 DEF Signal
  <2>3. SignedPass => SignedPass' BY <2>2 DEF SignedPass
  <2> QED BY <1>0, <2>1, <2>2, <2>3, OutsideMoves
<1>2. CASE Restart
  <2>1. ~serving' /\ serving' \in BOOLEAN BY <1>2 DEF Restart
  <2>2. UNCHANGED <<env, fragment, files, pid, log, dog, recordLock, stateLock, script, shell,
                    claim, fires, wiped, reported, hand>>
    BY <1>2 DEF Restart
  <2>3. SignedPass => SignedPass' BY <2>2 DEF SignedPass
  <2> QED BY <1>0, <2>1, <2>2, <2>3, OutsideMoves
<1>3. CASE Tamper
  <2>1. files \subseteq files' /\ files' \subseteq files \cup Mark \cup {"fired"}
    BY <1>3 DEF Tamper
  <2>2. UNCHANGED <<env, fragment, serving, pid, log, dog, recordLock, stateLock, script, shell,
                    claim, fires, wiped, reported, hand>>
    BY <1>3 DEF Tamper
  <2>3. SignedPass => SignedPass' BY <2>2 DEF SignedPass
  <2> QED BY <1>0, <2>1, <2>2, <2>3, OutsideMoves
<1>4. CASE HandEdit
  <2>1. env' \in Switches /\ hand' /\ hand' \in BOOLEAN
    <3>1. env' = [analysis |-> TRUE, delivery |-> TRUE] /\ hand' = TRUE BY <1>4 DEF HandEdit
    <3>2. [analysis |-> TRUE, delivery |-> TRUE] \in Switches BY DEF Switches
    <3> QED BY <3>1, <3>2
  <2>2. UNCHANGED <<fragment, serving, files, pid, log, dog, recordLock, stateLock, script,
                    shell, claim, fires, wiped, reported>>
    BY <1>4 DEF HandEdit
  <2>3. SignedPass => SignedPass' BY <2>2 DEF SignedPass
  <2> QED BY <1>0, <2>1, <2>2, <2>3, OutsideMoves
<1>5. CASE AgentRollsBack
  <2>1. /\ script' \in [Watchdog \cup {Agent} -> [step : 0..4, went : {"well", "badly"}]]
        /\ \A w \in Watchdog : script'[w] = script[w]
    BY <1>0, <1>5, Parameters DEF AgentRollsBack
  <2>2. UNCHANGED <<env, fragment, serving, files, pid, log, dog, recordLock, stateLock, shell,
                    claim, fires, wiped, reported, hand>>
    BY <1>5 DEF AgentRollsBack
  <2>3. SignedPass => SignedPass' BY <2>2 DEF SignedPass
  <2> QED BY <1>0, <2>1, <2>2, <2>3, OutsideMoves
<1>6. CASE ServerStarts
  <2>1. env # Off BY <1>6 DEF ServerStarts, Off
  <2>2. serving' \in BOOLEAN BY <1>6 DEF ServerStarts
  <2>3. UNCHANGED <<env, fragment, files, pid, log, dog, recordLock, stateLock, script, shell,
                    claim, fires, wiped, reported, hand>>
    BY <1>6 DEF ServerStarts
  <2>4. SignedPass => SignedPass' BY <2>3 DEF SignedPass
  <2> QED BY <1>0, <2>1, <2>2, <2>3, <2>4, OutsideMoves
<1>7. ASSUME NEW line \in Line, Logged(line) PROVE IInv'
  <2>1. log' = Append(log, line) /\ Len(log) < MaxLines BY <1>7 DEF Logged
  <2>2. log' \in Seq(Line) /\ Len(log') = Len(log) + 1
        /\ \A i \in 1..Len(log) : log'[i] = log[i]
    BY <1>0, <2>1
  <2>3. Len(log') <= MaxLines BY <1>0, <2>1, <2>2, Parameters
  <2>4. SignedPass => SignedPass' BY <1>0, <2>2 DEF SignedPass
  <2>5. UNCHANGED <<env, fragment, serving, files, pid, dog, recordLock, stateLock, script,
                    shell, claim, fires, wiped, reported, hand>>
    BY <1>7 DEF Logged
  <2> QED BY <1>0, <2>2, <2>3, <2>4, <2>5, OutsideMoves
<1> QED BY <1>1, <1>2, <1>3, <1>4, <1>5, <1>6, <1>7 DEF Outside
-----------------------------------------------------------------------------
LEMMA StutterStep == ASSUME IInv, UNCHANGED trialVars PROVE IInv'
<1>1. UNCHANGED <<env, fragment, serving, files, pid, log, dog, recordLock, stateLock, script,
                  shell, claim, fires, wiped, reported, hand>>
  BY DEF trialVars, switches, locks, ghosts
<1> QED
  BY <1>1 DEF IInv, TrialTypeOK, Alone, Once, Fired, NotYet, Locked, Shut, Closed, Enabling,
              StaysOff, Sworn, SignedPass, Scripted, DoneIsOff

LEMMA NextIInv == ASSUME IInv, [TrialNext]_trialVars PROVE IInv'
<1>1. ASSUME NEW w \in Watchdog, Watches(w) \/ DogStep(w) \/ BreaksOff(w) \/ Kill(w)
      PROVE  IInv'
  <2>1. CASE Watches(w) \/ TakeRecordLock(w) \/ Report(w) BY <2>1, StartStep
  <2>2. CASE Decide(w) \/ BreaksOff(w) \/ SeeLine(w) BY <2>2, WatchStep
  <2>3. CASE Fire(w) BY <2>3, FireStep
  <2>4. CASE ScriptStep(w) BY <2>4, ScriptsStep
  <2>5. CASE Record(w) BY <2>5, RecordStep
  <2>6. CASE Rerun(w) BY <2>6, RerunStep
  <2>7. CASE PostEnds(w) \/ Kill(w) BY <2>7, EndStep
  <2> QED BY <1>1, <2>1, <2>2, <2>3, <2>4, <2>5, <2>6, <2>7 DEF DogStep
<1>2. ASSUME NEW o \in Operator, OperatorStep(o) PROVE IInv' BY <1>2, OperatorsStep
<1>3. CASE ScriptStep(Agent) BY <1>3, ScriptsStep
<1>4. CASE Outside BY <1>4, OutsideStep
<1>5. CASE UNCHANGED trialVars BY <1>5, StutterStep
<1> QED BY <1>1, <1>2, <1>3, <1>4, <1>5 DEF TrialNext, Outside

\* IInv is an invariant of the trial.
THEOREM TrialInvariance == TrialSpec => []IInv
<1>1. IInv /\ [TrialNext]_trialVars => IInv' BY NextIInv
<1> QED BY InitIInv, <1>1, PTL DEF TrialSpec

\* Every variable keeps its type (chart_trial_armed.py).
THEOREM TrialTypeCorrect == TrialSpec => []TrialTypeOK
<1>1. IInv => TrialTypeOK BY DEF IInv
<1> QED BY TrialInvariance, <1>1, PTL

\* However many watchdogs are started on a trial and killed, one rollback is fired
\* once the claim could be written (cmd_watch, fire).
THEOREM OneRollback == TrialSpec => []RollsBackOnce
<1>1. IInv => RollsBackOnce BY DEF IInv, Once, RollsBackOnce
<1> QED BY TrialInvariance, <1>1, PTL

\* After a claim under the state lock and a wiped .env no command turns a switch on
\* (cmd_enable, _state_lock).
THEOREM OffForGood == TrialSpec => []StaysOff
<1>1. IInv => StaysOff BY DEF IInv
<1> QED BY TrialInvariance, <1>1, PTL

\* A recorded "pass" was signed, and "DONE" means that nothing serves charts (watch,
\* authenticate, chart_trial_rollback.sh).
THEOREM TrueRecord == TrialSpec => []RecordIsTrue
<1>1. IInv => RecordIsTrue BY DEF IInv, Sworn, SignedPass, RecordIsTrue, PassIsSigned
<1> QED BY TrialInvariance, <1>1, PTL
=============================================================================
