---------------------------- MODULE PaidConsent ----------------------------
(***************************************************************************)
(* The human's consent to a paid run: the `paid` token file                *)
(* (scripts/guards/consent_token.py) and the call budget of the process    *)
(* that spends it (safety/consent.py).                                     *)
(*                                                                         *)
(* A token covers one run of one command line, with a ceiling on its       *)
(* provider calls.  The human grants and revokes it, the agent's hook      *)
(* admits it once, a process consumes it when its run starts.  Admit and   *)
(* consume read the file, decide and replace it, under a lock on another   *)
(* file that grant also takes and revoke does not.                         *)
(*                                                                         *)
(* Inside a process any thread may ask to make some calls at once: a       *)
(* batch is counted before it is posted.  A lazy process (the tool server) *)
(* starts its run when it is first asked, or when the run it has is        *)
(* finished; the others start theirs first.                                *)
(***************************************************************************)
EXTENDS Naturals

CONSTANTS
  Process,      \* processes that make paid calls
  Thread,
  ProcessOf,    \* the process of a thread
  Lazy,         \* the processes that are the tool server
  Command,      \* command lines
  CommandOf,    \* the command line of a process
  Asks,         \* Asks[p]: how many calls a thread of p may ask for at once
  Nobody,       \* no file, no holder, no budget
  Hook,         \* the agent's hook, as a holder of the lock
  MaxGrants,    \* bound on the tokens granted
  MaxCalls      \* bound on a token's ceiling

ASSUME ConstantsAssumption ==
  /\ ProcessOf \in [Thread -> Process] /\ Lazy \subseteq Process
  /\ CommandOf \in [Process -> Command]
  /\ Asks \in [Process -> SUBSET (Nat \ {0})]
  /\ {MaxGrants, MaxCalls} \subseteq Nat \ {0}
  /\ Nobody \notin Process \cup Thread /\ Hook \notin Thread \cup {Nobody}
  /\ Nobody \notin [command : Command, calls : 1..MaxCalls]

VARIABLES
  granted,   \* granted[g]: what the human allowed with the g-th token
  expired,   \* the tokens whose time is over
  revoked,   \* the tokens that were in the file when the human revoked it
  file,      \* the token file
  holder,    \* who has the token lock, and the token as that one read it
  guard,     \* guard[p]: the thread inside consent.py's lock
  budget,    \* budget[p]: the run of process p
  thread,    \* thread[t]: where t is, the n calls it asks for, and which tokens
             \* had expired when it asked
  runs,      \* runs[g]: how often the g-th token was spent
  sent       \* sent[g]: provider calls made under it

disk == <<granted, expired, revoked, file>>
memory == <<guard, budget>>
ghosts == <<runs, sent>>
vars == <<disk, holder, memory, thread, ghosts>>

GrantNo == 1..MaxGrants
Token == [grant : GrantNo, admitted : BOOLEAN, consumed : BOOLEAN]
Free == [by |-> Nobody, token |-> Nobody]
Local == [pc : {"idle", "asked", "consume", "writing", "started", "sending", "failing"},
          n : Nat, seen : SUBSET GrantNo, grant : GrantNo \cup {Nobody}]
Idle == [pc |-> "idle", n |-> 0, seen |-> {}, grant |-> Nobody]

TypeOK ==
  /\ granted \in [GrantNo -> {Nobody} \cup [command : Command, calls : 1..MaxCalls]]
  /\ expired \subseteq GrantNo /\ revoked \subseteq GrantNo
  /\ file \in {Nobody} \cup Token
  /\ holder \in {Free} \cup [by : Thread \cup {Hook}, token : Token]
  /\ guard \in [Process -> Thread \cup {Nobody}]
  /\ budget \in [Process -> {Nobody} \cup
                            [grant : GrantNo, calls : 0..MaxCalls, aborted : BOOLEAN]]
  /\ thread \in [Thread -> Local]
  /\ runs \in [GrantNo -> Nat] /\ sent \in [GrantNo -> Nat]

Init ==
  /\ granted = [g \in GrantNo |-> Nobody]
  /\ expired = {} /\ revoked = {}
  /\ file = Nobody
  /\ holder = Free
  /\ guard = [p \in Process |-> Nobody]
  /\ budget = [p \in Process |-> Nobody]
  /\ thread = [t \in Thread |-> Idle]
  /\ runs = [g \in GrantNo |-> 0] /\ sent = [g \in GrantNo |-> 0]
-----------------------------------------------------------------------------
(* The token file.                                                         *)

\* A new token replaces whatever is there.
Grant(g, command, calls) ==
  /\ holder = Free
  /\ granted[g] = Nobody /\ \A h \in 1..(g - 1) : granted[h] # Nobody
  /\ granted' = [granted EXCEPT ![g] = [command |-> command, calls |-> calls]]
  /\ file' = [grant |-> g, admitted |-> FALSE, consumed |-> FALSE]
  /\ UNCHANGED <<expired, revoked, holder, memory, thread, ghosts>>

\* The file is removed, whoever has the lock.
Revoke ==
  /\ file # Nobody
  /\ file' = Nobody
  /\ revoked' = revoked \cup {file.grant}
  /\ UNCHANGED <<granted, expired, holder, memory, thread, ghosts>>

Expire(g) ==
  /\ granted[g] # Nobody
  /\ expired' = expired \cup {g}
  /\ UNCHANGED <<granted, revoked, file, holder, memory, thread, ghosts>>

\* Mutant: a consumed token still covers its command.
UsableAgain(command) ==
  /\ file # Nobody /\ file.grant \notin expired
  /\ granted[file.grant].command = command

\* An unexpired, unconsumed token for this command.
Usable(command) ==
  /\ file # Nobody /\ file.grant \notin expired
  /\ granted[file.grant].command = command
  /\ ~file.consumed

\* The hook lets the command through: the token is read ...
AdmitRead(command) ==
  /\ holder = Free
  /\ Usable(command) /\ ~file.admitted
  /\ holder' = [by |-> Hook, token |-> file]
  /\ UNCHANGED <<disk, memory, thread, ghosts>>

\* ... and replaced, or the write fails.
AdmitWrite ==
  /\ holder.by = Hook
  /\ file' = [holder.token EXCEPT !.admitted = TRUE] \/ UNCHANGED file
  /\ holder' = Free
  /\ UNCHANGED <<granted, expired, revoked, memory, thread, ghosts>>
-----------------------------------------------------------------------------
(* The process.                                                            *)

At(t, pc) == thread[t].pc = pc
Goto(t, pc) == thread' = [thread EXCEPT ![t].pc = pc]
Leave(t) == thread' = [thread EXCEPT ![t] = Idle]
Release(t) == guard' = [guard EXCEPT ![ProcessOf[t]] = IF @ = t THEN Nobody ELSE @]

\* start_paid_run, called by a program's main.
StartRun(t) ==
  /\ At(t, "idle") /\ ProcessOf[t] \notin Lazy
  /\ Goto(t, "consume")
  /\ UNCHANGED <<disk, holder, memory, ghosts>>

\* consume_paid: the token is read under its lock, or the run is refused.
ConsumeRead(t) ==
  /\ At(t, "consume") /\ holder = Free
  /\ \/ /\ Usable(CommandOf[ProcessOf[t]])
        /\ holder' = [by |-> t, token |-> file]
        /\ Goto(t, "writing") /\ UNCHANGED guard
     \/ /\ ~Usable(CommandOf[ProcessOf[t]])
        /\ Leave(t) /\ Release(t) /\ UNCHANGED holder
  /\ UNCHANGED <<disk, budget, ghosts>>

\* The token is replaced by the consumed one, or the write fails and the run is
\* refused.
ConsumeWrite(t) ==
  /\ holder.by = t
  /\ holder' = Free
  /\ \/ /\ file' = [holder.token EXCEPT !.consumed = TRUE]
        /\ runs' = [runs EXCEPT ![holder.token.grant] = @ + 1]
        /\ thread' = [thread EXCEPT ![t].pc = "started", ![t].grant = holder.token.grant]
        /\ UNCHANGED guard
     \/ Leave(t) /\ Release(t) /\ UNCHANGED <<file, runs>>
  /\ UNCHANGED <<granted, expired, revoked, budget, sent>>

\* spend_paid_call(n) reads the time before it waits for the lock.
Ask(t) ==
  /\ At(t, "idle")
  /\ \E n \in Asks[ProcessOf[t]] :
       thread' = [thread EXCEPT ![t] = [Idle EXCEPT !.pc = "asked", !.n = n, !.seen = expired]]
  /\ UNCHANGED <<disk, holder, memory, ghosts>>

Ceiling(g) == granted[g].calls

\* Mutant: an aborted run goes on.
FinishedUnlessAborted(run, seen) ==
  run.grant \in seen \/ run.calls >= Ceiling(run.grant)

\* Why the run allows no further call.
Finished(run, seen) ==
  run.aborted \/ run.grant \in seen \/ run.calls >= Ceiling(run.grant)

\* Mutant: any run that has a call left takes the whole batch.
ExceedsFull(run, n) == run.calls + 1 > Ceiling(run.grant)

\* The run has calls left, but fewer than n.
Exceeds(run, n) == run.calls + n > Ceiling(run.grant)

\* The n calls are counted and may be sent.
Count(t) ==
  LET p == ProcessOf[t]
      n == thread[t].n IN
  /\ budget' = [budget EXCEPT ![p].calls = @ + n]
  /\ sent' = [sent EXCEPT ![budget[p].grant] = @ + n]
  /\ thread' = [thread EXCEPT ![t] = [Idle EXCEPT !.pc = "sending"]]
  /\ Release(t)

\* The calls are refused, and the run of the process, if it has one, is aborted.
Refuse(t) ==
  LET p == ProcessOf[t] IN
  /\ budget' = IF budget[p] = Nobody THEN budget ELSE [budget EXCEPT ![p].aborted = TRUE]
  /\ Leave(t) /\ Release(t)
  /\ UNCHANGED sent

\* Inside the lock: a lazy process without a usable run goes for a new token,
\* keeping the lock; otherwise all n calls are counted or the run is aborted.
Spend(t) ==
  LET p == ProcessOf[t]
      over == IF budget[p] = Nobody THEN TRUE ELSE Finished(budget[p], thread[t].seen) IN
  /\ At(t, "asked") /\ guard[p] \in {Nobody, t}
  /\ \/ /\ over /\ p \in Lazy
        /\ guard' = [guard EXCEPT ![p] = t] /\ Goto(t, "consume")
        /\ UNCHANGED <<budget, sent>>
     \/ over /\ p \notin Lazy /\ Refuse(t)
     \/ ~over /\ Exceeds(budget[p], thread[t].n) /\ Refuse(t)
     \/ ~over /\ ~Exceeds(budget[p], thread[t].n) /\ Count(t)
  /\ UNCHANGED <<disk, holder, runs>>

\* The grant becomes the process's budget.  A lazy process, still inside its
\* lock, goes on with the calls it was asked for; the others return to their main.
Started(t) ==
  LET p == ProcessOf[t] IN
  /\ At(t, "started") /\ guard[p] \in {t, Nobody}
  /\ budget' = [budget EXCEPT ![p] =
                  [grant |-> thread[t].grant, calls |-> 0, aborted |-> FALSE]]
  /\ \/ /\ p \in Lazy
        /\ thread' = [thread EXCEPT ![t].pc = "asked", ![t].grant = Nobody]
        /\ UNCHANGED guard
     \/ p \notin Lazy /\ Leave(t) /\ Release(t)
  /\ UNCHANGED <<disk, holder, ghosts>>

\* The provider answers, or refuses.
Answer(t) ==
  /\ At(t, "sending")
  /\ Leave(t) \/ Goto(t, "failing")
  /\ UNCHANGED <<disk, holder, memory, ghosts>>

\* abort_paid_run ends the run the process has now.
Abort(t) ==
  LET p == ProcessOf[t] IN
  /\ At(t, "failing") /\ guard[p] = Nobody
  /\ budget' = IF budget[p] = Nobody THEN budget ELSE [budget EXCEPT ![p].aborted = TRUE]
  /\ Leave(t)
  /\ UNCHANGED <<disk, holder, guard, ghosts>>

\* The process dies and is started again; its memory and its locks are gone.
Crash(p) ==
  /\ \E t \in Thread : ProcessOf[t] = p /\ (~At(t, "idle") \/ budget[p] # Nobody)
  /\ thread' = [t \in Thread |-> IF ProcessOf[t] = p THEN Idle ELSE thread[t]]
  /\ guard' = [guard EXCEPT ![p] = Nobody]
  /\ budget' = [budget EXCEPT ![p] = Nobody]
  /\ holder' = IF holder.by \in Thread /\ ProcessOf[holder.by] = p THEN Free ELSE holder
  /\ UNCHANGED <<disk, ghosts>>

Next ==
  \/ \E g \in GrantNo, c \in Command, n \in 1..MaxCalls : Grant(g, c, n)
  \/ \E g \in GrantNo : Expire(g)
  \/ \E c \in Command : AdmitRead(c)
  \/ Revoke \/ AdmitWrite
  \/ \E t \in Thread :
       \/ StartRun(t) \/ ConsumeRead(t) \/ ConsumeWrite(t) \/ Started(t)
       \/ Ask(t) \/ Spend(t) \/ Answer(t) \/ Abort(t)
  \/ \E p \in Process : Crash(p)

Spec == Init /\ [][Next]_vars
-----------------------------------------------------------------------------
(* Properties.                                                             *)

\* One token, one run: whatever two processes of one command, a restart, the
\* hook's admission in between and a new grant do, a token is spent once.
OneRunPerGrant == \A g \in GrantNo : runs[g] <= 1

\* Each grant pays for at most its ceiling of provider calls, over all threads
\* of all processes and all restarts, however many of them one request asks for
\* and wherever in the ceiling it falls, and for none before its run started.
CeilingHolds ==
  \A g \in GrantNo : sent[g] > 0 => runs[g] = 1 /\ sent[g] <= Ceiling(g)

\* After an abort no further call is made under the aborted run's token.
AbortIsFinal ==
  [][\A p \in Process : budget[p] # Nobody =>
       (budget[p].aborted => sent'[budget[p].grant] = sent[budget[p].grant])]_vars

\* "End an unused paid token early" with revoke: no process that looks for a
\* token after the revocation finds the revoked one.  (A process that had read
\* it before the revocation may still start.)
RevokeEndsWindow ==
  [][holder' # holder /\ holder'.by \in Thread => holder'.token.grant \notin revoked]_vars
=============================================================================
