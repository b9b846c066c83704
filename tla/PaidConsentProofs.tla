------------------------- MODULE PaidConsentProofs -------------------------
(***************************************************************************)
(* Proofs about PaidConsent for any number of processes, threads, tokens   *)
(* and calls.                                                              *)
(*                                                                         *)
(* A token that is not consumed, in the file or as the holder of the lock  *)
(* read it, was never spent (Unspent); so the step that spends one makes   *)
(* its grant's first run.  From then on the grant is in one place: with    *)
(* the thread that consumed it (Claimed), then in one process's budget,    *)
(* which counts exactly the calls sent under it (Budgeted).                *)
(***************************************************************************)
EXTENDS PaidConsent, TLAPS

\* An unconsumed token has paid for nothing.
Unspent ==
  /\ file # Nobody => /\ granted[file.grant] # Nobody
                      /\ ~file.consumed => runs[file.grant] = 0
  /\ holder # Free => /\ granted[holder.token.grant] # Nobody
                      /\ ~holder.token.consumed
                      /\ runs[holder.token.grant] = 0

\* The grant of thread t, which has consumed its token, is nowhere else.
Claimed(t) ==
  At(t, "started") =>
    LET g == thread[t].grant IN
    /\ g \in GrantNo
    /\ runs[g] = 1 /\ sent[g] = 0
    /\ \A p \in Process : budget[p] # Nobody => budget[p].grant # g
    /\ \A u \in Thread : u # t /\ At(u, "started") => thread[u].grant # g

\* The budget of process p has the calls of its grant, which no other budget has.
Budgeted(p) ==
  budget[p] # Nobody =>
    LET g == budget[p].grant IN
    /\ runs[g] = 1 /\ sent[g] = budget[p].calls
    /\ \A q \in Process : q # p /\ budget[q] # Nobody => budget[q].grant # g

\* A token that was spent was granted.
SpentGranted == \A g \in GrantNo : runs[g] > 0 => granted[g] # Nobody

\* The inductive invariant.
IInv ==
  /\ TypeOK
  /\ Unspent /\ SpentGranted
  /\ OneRunPerGrant /\ CeilingHolds
  /\ \A t \in Thread : Claimed(t)
  /\ \A p \in Process : Budgeted(p)
-----------------------------------------------------------------------------
LEMMA Numbers ==
  /\ MaxGrants \in Nat \ {0} /\ MaxCalls \in Nat \ {0}
  /\ ProcessOf \in [Thread -> Process]
  /\ Nobody \notin Thread /\ Hook \notin Thread /\ Hook # Nobody
  /\ Nobody \notin [command : Command, calls : 1..MaxCalls]
BY ConstantsAssumption

ThreadPlaces == {"idle", "asked", "consume", "writing", "started", "sending", "failing"}

\* What a thread remembers stays of its type when it moves or leaves.
LEMMA ThreadMoves ==
  ASSUME TypeOK, NEW t \in Thread
  PROVE  /\ Idle \in Local
         /\ \A pc \in ThreadPlaces : Goto(t, pc) => thread' \in [Thread -> Local]
         /\ Leave(t) => thread' \in [Thread -> Local]
<1>1. Idle \in Local BY DEF Idle, Local
<1>2. thread \in [Thread -> Local] BY DEF TypeOK
<1>3. \A pc \in ThreadPlaces : [thread[t] EXCEPT !.pc = pc] \in Local
  BY <1>2 DEF Local, ThreadPlaces
<1>4. \A pc \in ThreadPlaces : Goto(t, pc) => thread' \in [Thread -> Local]
  BY <1>2, <1>3 DEF Goto
<1>5. Leave(t) => thread' \in [Thread -> Local] BY <1>1, <1>2 DEF Leave
<1> QED BY <1>1, <1>4, <1>5

LEMMA InitIInv == Init => IInv
BY Numbers DEF Init, IInv, TypeOK, Unspent, SpentGranted, OneRunPerGrant, CeilingHolds,
               Claimed, Budgeted, At, Idle, Local, Free, GrantNo

\* A step that changes no count, no token and no budget, and starts no run, keeps
\* all but the types.
LEMMA Quiet ==
  ASSUME IInv,
         granted' = granted, file' = file, holder' \in {holder, Free},
         budget' = budget, runs' = runs, sent' = sent,
         \A t \in Thread : thread'[t] = thread[t] \/ thread'[t].pc # "started"
  PROVE  /\ Unspent' /\ SpentGranted' /\ OneRunPerGrant' /\ CeilingHolds'
         /\ \A t \in Thread : Claimed(t)'
         /\ \A p \in Process : Budgeted(p)'
<1> USE DEF IInv
<1>1. Unspent' BY DEF Unspent
<1>2. SpentGranted' /\ OneRunPerGrant' /\ CeilingHolds'
  BY DEF SpentGranted, OneRunPerGrant, CeilingHolds, Ceiling
<1>3. \A t \in Thread : Claimed(t)' BY DEF Claimed, At
<1>4. \A p \in Process : Budgeted(p)' BY DEF Budgeted
<1> QED BY <1>1, <1>2, <1>3, <1>4
-----------------------------------------------------------------------------
(* The token file.                                                         *)

LEMMA GrantStep ==
  ASSUME IInv, NEW g \in GrantNo, NEW c \in Command, NEW n \in 1..MaxCalls, Grant(g, c, n)
  PROVE  IInv'
<1> DEFINE new == [command |-> c, calls |-> n]
<1>1. new # Nobody BY Numbers
<1>2. /\ granted[g] = Nobody /\ granted' = [granted EXCEPT ![g] = new]
      /\ file' = [grant |-> g, admitted |-> FALSE, consumed |-> FALSE]
      /\ holder = Free
      /\ UNCHANGED <<expired, revoked, holder, guard, budget, thread, runs, sent>>
  BY DEF Grant, memory, ghosts
<1>3. runs[g] = 0 BY <1>2 DEF IInv, SpentGranted, OneRunPerGrant, TypeOK
<1> HIDE DEF new
<1>4. TypeOK'
  <2>1. granted' \in [GrantNo -> {Nobody} \cup [command : Command, calls : 1..MaxCalls]]
    BY <1>2 DEF IInv, TypeOK, new
  <2>2. file' \in {Nobody} \cup Token BY <1>2 DEF Token
  <2> QED BY <1>2, <2>1, <2>2 DEF IInv, TypeOK
<1>5. granted \in [GrantNo -> {Nobody} \cup [command : Command, calls : 1..MaxCalls]]
  BY DEF IInv, TypeOK
<1>6. Unspent' BY <1>1, <1>2, <1>3, <1>5 DEF IInv, Unspent
<1>7. SpentGranted' BY <1>1, <1>2, <1>5 DEF IInv, SpentGranted
<1>8. OneRunPerGrant' BY <1>2 DEF IInv, OneRunPerGrant
<1>9. CeilingHolds'
  <2> SUFFICES ASSUME NEW h \in GrantNo, sent[h] > 0
               PROVE  runs[h] = 1 /\ sent[h] <= granted'[h].calls
    BY <1>2 DEF CeilingHolds, Ceiling
  <2>1. runs[h] = 1 /\ sent[h] <= granted[h].calls BY DEF IInv, CeilingHolds, Ceiling
  <2>2. h # g BY <1>3, <2>1
  <2> QED BY <1>2, <1>5, <2>1, <2>2
<1>10. \A t \in Thread : Claimed(t)' BY <1>2 DEF IInv, Claimed, At
<1>11. \A p \in Process : Budgeted(p)' BY <1>2 DEF IInv, Budgeted
<1> QED BY <1>4, <1>6, <1>7, <1>8, <1>9, <1>10, <1>11 DEF IInv

LEMMA RevokeStep == ASSUME IInv, Revoke PROVE IInv'
<1>1. TypeOK' BY DEF IInv, TypeOK, Revoke, Token, memory, ghosts
<1>2. Unspent' BY DEF IInv, Unspent, Revoke, memory, ghosts
<1> QED BY <1>1, <1>2
        DEF IInv, Revoke, memory, ghosts, SpentGranted, OneRunPerGrant, CeilingHolds,
            Ceiling, Claimed, At, Budgeted

LEMMA AdmitStep ==
  ASSUME IInv, (\E c \in Command : AdmitRead(c)) \/ AdmitWrite
  PROVE  IInv'
<1>1. TypeOK' /\ Unspent'
  <2>1. CASE \E c \in Command : AdmitRead(c)
    BY <2>1, Numbers DEF AdmitRead, Usable, IInv, TypeOK, Unspent, Token, Free, disk,
                         memory, ghosts
  <2>2. CASE AdmitWrite
    <3>1. holder # Free /\ holder.token \in Token
      BY <2>2, Numbers DEF AdmitWrite, IInv, TypeOK, Free
    <3>2. CASE file' = [holder.token EXCEPT !.admitted = TRUE]
      <4>1. /\ file' \in Token /\ file'.grant = holder.token.grant
            /\ file'.consumed = holder.token.consumed
        BY <3>1, <3>2 DEF Token
      <4> QED BY <2>2, <3>1, <4>1 DEF AdmitWrite, IInv, TypeOK, Unspent, memory, ghosts
    <3>3. CASE UNCHANGED file
      BY <2>2, <3>3 DEF AdmitWrite, IInv, TypeOK, Unspent, memory, ghosts
    <3> QED BY <2>2, <3>2, <3>3 DEF AdmitWrite
  <2> QED BY <2>1, <2>2
<1>2. UNCHANGED <<granted, budget, thread, runs, sent>>
  BY DEF AdmitRead, AdmitWrite, disk, memory, ghosts
<1> QED BY <1>1, <1>2
        DEF IInv, SpentGranted, OneRunPerGrant, CeilingHolds, Ceiling, Claimed, At, Budgeted
-----------------------------------------------------------------------------
(* The process.                                                            *)

LEMMA ConsumeWriteStep ==
  ASSUME IInv, NEW t \in Thread, ConsumeWrite(t)
  PROVE  IInv'
<1> DEFINE g == holder.token.grant
<1> USE Numbers
<1>1. /\ holder # Free /\ holder.token \in Token /\ g \in GrantNo
      /\ runs[g] = 0 /\ sent[g] = 0 /\ granted[g] # Nobody
  <2>1. holder # Free /\ holder.token \in Token
    BY DEF ConsumeWrite, IInv, TypeOK, Free
  <2>2. g \in GrantNo BY <2>1 DEF Token
  <2>3. runs[g] = 0 /\ granted[g] # Nobody BY <2>1 DEF IInv, Unspent
  <2>4. sent[g] = 0 BY <2>2, <2>3 DEF IInv, CeilingHolds, TypeOK
  <2> QED BY <2>1, <2>2, <2>3, <2>4
<1>2. CASE /\ file' = [holder.token EXCEPT !.consumed = TRUE]
           /\ runs' = [runs EXCEPT ![holder.token.grant] = @ + 1]
           /\ thread' = [thread EXCEPT ![t].pc = "started", ![t].grant = holder.token.grant]
           /\ UNCHANGED guard
  <2>1. /\ holder' = Free /\ granted' = granted /\ expired' = expired
        /\ revoked' = revoked /\ budget' = budget /\ sent' = sent
    BY DEF ConsumeWrite
  <2>2. file' \in Token /\ file'.grant = g /\ file'.consumed = TRUE
    BY <1>1, <1>2 DEF Token
  <2>3. runs' \in [GrantNo -> Nat] /\ runs'[g] = 1
    BY <1>1, <1>2 DEF IInv, TypeOK
  <2>4. \A h \in GrantNo : h # g => runs'[h] = runs[h] BY <1>2 DEF IInv, TypeOK
  <2>5. thread' \in [Thread -> Local]
    <3>1. thread[t] \in Local
      BY DEF IInv, TypeOK, Local
    <3> DEFINE mid == [thread EXCEPT ![t].pc = "started"]
    <3>2. mid \in [Thread -> Local]
      BY <3>1 DEF IInv, TypeOK, Local
    <3>3. thread' = [mid EXCEPT ![t].grant = g] BY <1>2
    <3> HIDE DEF mid
    <3>4. [mid[t] EXCEPT !.grant = g] \in Local
      <4>1. mid[t] \in Local BY <3>2
      <4> HIDE DEF mid, g
      <4> QED BY <1>1, <4>1 DEF Local
    <3> HIDE DEF g
    <3> QED BY <3>2, <3>3, <3>4
  <2>6. /\ thread'[t].pc = "started" /\ thread'[t].grant = g
        /\ \A u \in Thread : u # t => thread'[u] = thread[u]
    BY <1>2 DEF IInv, TypeOK
  <2> HIDE DEF g
  <2>7. TypeOK' BY <1>2, <2>1, <2>2, <2>3, <2>5 DEF IInv, TypeOK
  <2>8. Unspent' BY <1>1, <2>1, <2>2 DEF Unspent
  <2>9. SpentGranted' BY <1>1, <2>1, <2>4 DEF IInv, SpentGranted
  <2>10. OneRunPerGrant' BY <2>3, <2>4 DEF IInv, OneRunPerGrant
  <2>11. CeilingHolds' BY <1>1, <2>1, <2>3, <2>4 DEF IInv, CeilingHolds, Ceiling
  <2>12. \A p \in Process : budget[p] # Nobody => budget[p].grant \in GrantNo /\ budget[p].grant # g
    BY <1>1 DEF IInv, TypeOK, Budgeted
  <2>13. \A u \in Thread : At(u, "started") => thread[u].grant \in GrantNo /\ thread[u].grant # g
    BY <1>1 DEF IInv, Claimed
  <2>14. ASSUME NEW u \in Thread PROVE Claimed(u)'
    <3>1. CASE u = t BY <1>1, <2>1, <2>3, <2>6, <2>12, <2>13, <3>1 DEF Claimed, At
    <3>2. CASE u # t
      <4>1. Claimed(u) BY DEF IInv
      <4> QED BY <2>1, <2>4, <2>6, <2>13, <3>2, <4>1 DEF Claimed, At
    <3> QED BY <3>1, <3>2
  <2>15. \A p \in Process : Budgeted(p)' BY <2>1, <2>4, <2>12 DEF IInv, Budgeted
  <2> QED BY <2>7, <2>8, <2>9, <2>10, <2>11, <2>14, <2>15 DEF IInv
<1>3. CASE Leave(t) /\ Release(t) /\ UNCHANGED <<file, runs>>
  <2>1. TypeOK'
    BY <1>3, ThreadMoves DEF ConsumeWrite, Release, Free, IInv, TypeOK
  <2> QED BY <1>3, <2>1, Quiet DEF ConsumeWrite, Leave, Idle, IInv, TypeOK
<1> QED BY <1>2, <1>3 DEF ConsumeWrite

\* The steps of a thread that move it without touching a token, a budget or a count.
LEMMA QuietSteps ==
  ASSUME IInv, NEW t \in Thread,
         StartRun(t) \/ ConsumeRead(t) \/ Ask(t) \/ Answer(t)
  PROVE  IInv'
<1> USE Numbers
<1>1. CASE StartRun(t)
  <2>1. TypeOK' BY <1>1, ThreadMoves DEF StartRun, ThreadPlaces, IInv, TypeOK, disk, memory, ghosts
  <2> QED BY <1>1, <2>1, Quiet DEF StartRun, Goto, IInv, TypeOK, disk, memory, ghosts
<1>2. CASE ConsumeRead(t)
  <2>1. CASE /\ Usable(CommandOf[ProcessOf[t]])
             /\ holder' = [by |-> t, token |-> file]
             /\ Goto(t, "writing") /\ UNCHANGED guard
    <3>1. UNCHANGED <<granted, expired, revoked, file, budget, runs, sent>> /\ holder = Free
      BY <1>2 DEF ConsumeRead, disk, ghosts
    <3>2. file # Nobody /\ ~file.consumed /\ file \in Token
      BY <2>1 DEF Usable, IInv, TypeOK
    <3>3. thread' \in [Thread -> Local] BY <2>1, ThreadMoves DEF ThreadPlaces, IInv
    <3>8. TypeOK' BY <2>1, <3>1, <3>2, <3>3 DEF IInv, TypeOK
    <3>4. Unspent' BY <2>1, <3>1, <3>2 DEF IInv, Unspent
    <3>5. SpentGranted' /\ OneRunPerGrant' /\ CeilingHolds'
      BY <3>1 DEF IInv, SpentGranted, OneRunPerGrant, CeilingHolds, Ceiling
    <3>6. \A u \in Thread : Claimed(u)'
      BY <2>1, <3>1 DEF Goto, IInv, TypeOK, Claimed, At
    <3>7. \A p \in Process : Budgeted(p)' BY <3>1 DEF IInv, Budgeted
    <3> QED BY <3>4, <3>5, <3>6, <3>7, <3>8 DEF IInv
  <2>2. CASE Leave(t) /\ Release(t) /\ UNCHANGED holder
    <3>1. TypeOK' BY <1>2, <2>2, ThreadMoves DEF ConsumeRead, Release, IInv, TypeOK, disk, ghosts
    <3> QED BY <1>2, <2>2, <3>1, Quiet DEF ConsumeRead, Leave, Idle, IInv, TypeOK, disk, ghosts
  <2> QED BY <1>2, <2>1, <2>2 DEF ConsumeRead
<1>3. CASE Ask(t)
  <2>1. PICK n \in Asks[ProcessOf[t]] :
          thread' = [thread EXCEPT ![t] = [Idle EXCEPT !.pc = "asked", !.n = n, !.seen = expired]]
    BY <1>3 DEF Ask
  <2> DEFINE asked == [Idle EXCEPT !.pc = "asked", !.n = n, !.seen = expired]
  <2>2. n \in Nat BY <2>1, ConstantsAssumption
  <2>3. asked \in Local /\ asked.pc = "asked" BY <2>2 DEF Idle, Local, IInv, TypeOK
  <2>4. thread' = [thread EXCEPT ![t] = asked] BY <2>1
  <2>5. UNCHANGED <<granted, expired, revoked, file, holder, guard, budget, runs, sent>>
    BY <1>3 DEF Ask, disk, memory, ghosts
  <2> HIDE DEF asked
  <2>6. TypeOK' BY <2>3, <2>4, <2>5 DEF IInv, TypeOK
  <2>7. \A u \in Thread : thread'[u] = thread[u] \/ thread'[u].pc # "started"
    BY <2>3, <2>4 DEF IInv, TypeOK
  <2> QED BY <2>5, <2>6, <2>7, Quiet DEF IInv
<1>4. CASE Answer(t)
  <2>0. UNCHANGED <<granted, expired, revoked, file, holder, guard, budget, runs, sent>>
    BY <1>4 DEF Answer, disk, memory, ghosts
  <2>a. ASSUME Leave(t) PROVE TypeOK'
    BY <2>0, <2>a, ThreadMoves DEF IInv, TypeOK
  <2>b. ASSUME Goto(t, "failing") PROVE TypeOK'
    BY <2>0, <2>b, ThreadMoves DEF ThreadPlaces, IInv, TypeOK
  <2>1. TypeOK' BY <1>4, <2>a, <2>b DEF Answer
  <2>2. \A u \in Thread : thread'[u] = thread[u] \/ thread'[u].pc # "started"
    <3>1. CASE Leave(t) BY <3>1 DEF Leave, Idle, IInv, TypeOK
    <3>2. CASE Goto(t, "failing") BY <3>2 DEF Goto, IInv, TypeOK, Local
    <3> QED BY <1>4, <3>1, <3>2 DEF Answer
  <2> QED BY <2>0, <2>1, <2>2, Quiet DEF IInv
<1> QED BY <1>1, <1>2, <1>3, <1>4

\* The calls are counted: the budget's calls and those sent grow together, and stay
\* under the ceiling because Exceeds was checked for all of them.
LEMMA CountStep ==
  ASSUME IInv, NEW t \in Thread, ProcessOf[t] \in Process,
         budget[ProcessOf[t]] # Nobody,
         ~Exceeds(budget[ProcessOf[t]], thread[t].n),
         Count(t), UNCHANGED <<disk, holder, runs>>
  PROVE  IInv'
<1> DEFINE p == ProcessOf[t]
           b == budget[p]
           g == b.grant
           n == thread[t].n
<1> USE Numbers
<1>0. p \in Process /\ n \in Nat BY DEF IInv, TypeOK, Local
<1>1. /\ b \in [grant : GrantNo, calls : 0..MaxCalls, aborted : BOOLEAN]
      /\ g \in GrantNo /\ b.calls \in Nat
  BY DEF IInv, TypeOK
<1>2. runs[g] = 1 /\ sent[g] = b.calls BY DEF IInv, Budgeted
<1>3. granted[g] # Nobody BY <1>1, <1>2 DEF IInv, SpentGranted
<1>4. granted[g].calls \in 1..MaxCalls BY <1>1, <1>3 DEF IInv, TypeOK
<1>5. b.calls + n <= granted[g].calls
  BY <1>0, <1>1, <1>4 DEF Exceeds, Ceiling
<1>6. /\ budget' = [budget EXCEPT ![p].calls = b.calls + n]
      /\ sent' = [sent EXCEPT ![g] = sent[g] + n]
      /\ thread' = [thread EXCEPT ![t] = [Idle EXCEPT !.pc = "sending"]]
      /\ guard' = [guard EXCEPT ![p] = IF @ = t THEN Nobody ELSE @]
      /\ UNCHANGED <<granted, expired, revoked, file, holder, runs>>
  BY DEF Count, Release, disk
<1>7. /\ budget'[p].grant = g /\ budget'[p].calls = b.calls + n
      /\ \A q \in Process : q # p => budget'[q] = budget[q]
  BY <1>1, <1>6 DEF IInv, TypeOK
<1>8. /\ sent'[g] = b.calls + n /\ \A h \in GrantNo : h # g => sent'[h] = sent[h]
  BY <1>1, <1>2, <1>6 DEF IInv, TypeOK
<1>9. TypeOK'
  <2>1. [b EXCEPT !.calls = b.calls + n]
          \in [grant : GrantNo, calls : 0..MaxCalls, aborted : BOOLEAN]
    BY <1>0, <1>1, <1>4, <1>5
  <2>2. budget' \in [Process -> {Nobody} \cup
                        [grant : GrantNo, calls : 0..MaxCalls, aborted : BOOLEAN]]
    BY <1>6, <2>1 DEF IInv, TypeOK
  <2>3. sent' \in [GrantNo -> Nat]
    <3>1. sent[g] + n \in Nat BY <1>0, <1>1 DEF IInv, TypeOK
    <3> HIDE DEF n, g
    <3> QED BY <1>6, <3>1 DEF IInv, TypeOK
  <2>4. guard' \in [Process -> Thread \cup {Nobody}] BY <1>6 DEF IInv, TypeOK
  <2>5. thread' \in [Thread -> Local]
    <3>1. [Idle EXCEPT !.pc = "sending"] \in Local BY DEF Idle, Local
    <3> QED BY <1>6, <3>1 DEF IInv, TypeOK
  <2> QED BY <1>6, <2>2, <2>3, <2>4, <2>5 DEF IInv, TypeOK
<1> HIDE DEF b, g, p, n
<1>10. Unspent' /\ SpentGranted' /\ OneRunPerGrant'
  BY <1>6 DEF IInv, Unspent, SpentGranted, OneRunPerGrant
<1>11. CeilingHolds'
  BY <1>0, <1>1, <1>2, <1>4, <1>5, <1>6, <1>8 DEF IInv, CeilingHolds, Ceiling
<1>12. \A q \in Process : q # p /\ budget[q] # Nobody =>
         budget[q].grant \in GrantNo /\ budget[q].grant # g
  BY DEF IInv, Budgeted, TypeOK, b, g, p
<1>13. ASSUME NEW q \in Process PROVE Budgeted(q)'
  <2>1. Budgeted(q) BY DEF IInv
  <2>2. CASE q = p BY <1>2, <1>6, <1>7, <1>8, <1>12, <2>2 DEF Budgeted
  <2>3. CASE q # p
    BY <1>6, <1>7, <1>8, <1>12, <2>1, <2>3 DEF Budgeted
  <2> QED BY <2>2, <2>3
<1>14. ASSUME NEW u \in Thread, thread'[u].pc = "started" PROVE Claimed(u)'
  <2>1. \A v \in Thread : thread'[v].pc = "started" => thread'[v] = thread[v]
    BY <1>6 DEF IInv, TypeOK, Idle
  <2>2. Claimed(u) /\ At(u, "started") BY <1>14, <2>1 DEF IInv, At
  <2>3. thread[u].grant \in GrantNo /\ thread[u].grant # g
    BY <2>2 DEF Claimed, b, g, p
  <2>4. \A q \in Process : budget'[q] # Nobody =>
          budget'[q].grant # thread[u].grant
    BY <1>7, <2>2, <2>3 DEF Claimed
  <2> QED BY <1>6, <1>8, <1>14, <2>1, <2>2, <2>3, <2>4 DEF Claimed, At
<1> QED BY <1>9, <1>10, <1>11, <1>13, <1>14 DEF IInv, Claimed, At

\* A thread ends its process's run.
LEMMA AbortEffect ==
  ASSUME IInv, NEW t \in Thread, NEW p \in Process,
         budget' = IF budget[p] = Nobody THEN budget ELSE [budget EXCEPT ![p].aborted = TRUE],
         Leave(t), guard' \in [Process -> Thread \cup {Nobody}],
         UNCHANGED <<disk, holder, runs, sent>>
  PROVE  IInv'
<1> USE Numbers
<1>1. /\ \A q \in Process : budget'[q] # Nobody =>
           /\ budget[q] # Nobody
           /\ budget'[q].grant = budget[q].grant /\ budget'[q].calls = budget[q].calls
      /\ budget' \in [Process -> {Nobody} \cup
                        [grant : GrantNo, calls : 0..MaxCalls, aborted : BOOLEAN]]
  <2>1. CASE budget[p] = Nobody BY <2>1 DEF IInv, TypeOK
  <2>2. CASE budget[p] # Nobody
    <3>1. budget[p] \in [grant : GrantNo, calls : 0..MaxCalls, aborted : BOOLEAN]
      BY <2>2 DEF IInv, TypeOK
    <3> QED BY <2>2, <3>1 DEF IInv, TypeOK
  <2> QED BY <2>1, <2>2
<1>2. /\ UNCHANGED <<granted, expired, revoked, file, holder, runs, sent>>
      /\ thread' = [thread EXCEPT ![t] = Idle]
  BY DEF Leave, disk
<1>3. TypeOK' BY <1>1, <1>2 DEF IInv, TypeOK, Local, Idle
<1>4. Unspent' /\ SpentGranted' /\ OneRunPerGrant' /\ CeilingHolds'
  BY <1>2 DEF IInv, Unspent, SpentGranted, OneRunPerGrant, CeilingHolds, Ceiling
<1>5. \A u \in Thread : Claimed(u)'
  BY <1>1, <1>2 DEF IInv, TypeOK, Idle, Claimed, At
<1>6. \A q \in Process : Budgeted(q)' BY <1>1, <1>2 DEF IInv, Budgeted
<1> QED BY <1>3, <1>4, <1>5, <1>6 DEF IInv

LEMMA SpendStep ==
  ASSUME IInv, NEW t \in Thread, Spend(t)
  PROVE  IInv'
<1> USE Numbers
<1> DEFINE p == ProcessOf[t]
<1>0. p \in Process OBVIOUS
<1>1. CASE guard' = [guard EXCEPT ![p] = t] /\ Goto(t, "consume")
           /\ UNCHANGED <<budget, sent>>
  <2>1. UNCHANGED <<granted, expired, revoked, file, holder, budget, runs, sent>>
    BY <1>1 DEF Spend, disk
  <2>2. guard' \in [Process -> Thread \cup {Nobody}] BY <1>0, <1>1 DEF IInv, TypeOK
  <2>3. thread' \in [Thread -> Local]
    BY <1>1, ThreadMoves DEF ThreadPlaces, IInv
  <2>4. TypeOK' BY <2>1, <2>2, <2>3 DEF IInv, TypeOK, Local
  <2>5. \A u \in Thread : thread'[u] = thread[u] \/ thread'[u].pc # "started"
    BY <1>1 DEF Goto, IInv, TypeOK
  <2> HIDE DEF p
  <2> QED BY <2>1, <2>4, <2>5, Quiet DEF IInv
<1>2. CASE Refuse(t)
  <2>1. guard' \in [Process -> Thread \cup {Nobody}]
    BY <1>0, <1>2 DEF Refuse, Release, IInv, TypeOK
  <2> HIDE DEF p
  <2> QED BY <1>0, <1>2, <2>1, AbortEffect DEF Spend, Refuse, p
<1>3. CASE /\ ~(IF budget[p] = Nobody THEN TRUE ELSE Finished(budget[p], thread[t].seen))
           /\ ~Exceeds(budget[p], thread[t].n) /\ Count(t)
  BY <1>0, <1>3, CountStep DEF Spend
<1> QED BY <1>1, <1>2, <1>3 DEF Spend

\* The grant a thread consumed becomes its process's budget.
LEMMA StartedStep ==
  ASSUME IInv, NEW t \in Thread, Started(t)
  PROVE  IInv'
<1> USE Numbers
<1> DEFINE p == ProcessOf[t]
           g == thread[t].grant
           new == [grant |-> g, calls |-> 0, aborted |-> FALSE]
           Run == [grant : GrantNo, calls : 0..MaxCalls, aborted : BOOLEAN]
<1>0. p \in Process OBVIOUS
<1>1. /\ g \in GrantNo /\ runs[g] = 1 /\ sent[g] = 0
      /\ \A q \in Process : budget[q] # Nobody => budget[q].grant # g
      /\ \A u \in Thread : u # t /\ At(u, "started") => thread[u].grant # g
  BY DEF Started, IInv, Claimed
<1>4. /\ new \in Run /\ new.grant = g /\ new.calls = 0
      /\ budget' = [budget EXCEPT ![p] = new]
  BY <1>1 DEF Started
<1>5. UNCHANGED <<granted, expired, revoked, file, holder, runs, sent>>
  BY DEF Started, disk, ghosts
<1>6. budget'[p] = new /\ \A q \in Process : q # p => budget'[q] = budget[q]
  BY <1>0, <1>4 DEF IInv, TypeOK
<1>7. PICK next \in Local : next.pc # "started" /\ thread' = [thread EXCEPT ![t] = next]
  <2>1. CASE thread' = [thread EXCEPT ![t].pc = "asked", ![t].grant = Nobody]
    <3> DEFINE next == [thread[t] EXCEPT !.pc = "asked", !.grant = Nobody]
    <3>1. thread[t] \in Local BY DEF IInv, TypeOK
    <3>2. next \in Local /\ next.pc # "started"
      <4> HIDE DEF p, g, new, Run
      <4> QED BY <3>1 DEF Local
    <3>3. thread' = [thread EXCEPT ![t] = next] BY <2>1 DEF IInv, TypeOK
    <3> QED BY <3>2, <3>3
  <2>2. CASE Leave(t)
    <3>1. Idle \in Local /\ Idle.pc # "started" BY DEF Idle, Local
    <3> QED BY <2>2, <3>1 DEF Leave
  <2> QED BY <2>1, <2>2 DEF Started
<1>8. guard' \in [Process -> Thread \cup {Nobody}]
  BY <1>0 DEF Started, Release, IInv, TypeOK
<1>9. /\ \A u \in Thread : u # t => thread'[u] = thread[u]
      /\ thread'[t].pc # "started"
  BY <1>7 DEF IInv, TypeOK
<1>10. TypeOK'
  <2>1. budget' \in [Process -> {Nobody} \cup
                        [grant : GrantNo, calls : 0..MaxCalls, aborted : BOOLEAN]]
    BY <1>0, <1>4 DEF IInv, TypeOK
  <2>2. thread' \in [Thread -> Local] BY <1>7 DEF IInv, TypeOK
  <2> QED BY <1>5, <1>8, <2>1, <2>2 DEF IInv, TypeOK
<1> HIDE DEF p, g, Run, new
<1>11. Unspent' /\ SpentGranted' /\ OneRunPerGrant'
  BY <1>5 DEF IInv, Unspent, SpentGranted, OneRunPerGrant
<1>12. CeilingHolds'
  BY <1>5 DEF IInv, CeilingHolds, Ceiling
<1>13. ASSUME NEW q \in Process PROVE Budgeted(q)'
  <2>1. Budgeted(q) BY DEF IInv
  <2>2. CASE q = p BY <1>1, <1>4, <1>5, <1>6, <2>2 DEF Budgeted
  <2>3. CASE q # p
    <3>1. budget[q] # Nobody => budget[q].grant \in GrantNo BY DEF IInv, TypeOK
    <3> QED BY <1>1, <1>4, <1>5, <1>6, <2>1, <2>3, <3>1 DEF Budgeted
  <2> QED BY <2>2, <2>3
<1>14. ASSUME NEW u \in Thread PROVE Claimed(u)'
  <2>1. SUFFICES ASSUME At(u, "started")' PROVE Claimed(u)'
    BY DEF Claimed
  <2>2. u # t BY <1>9, <2>1 DEF At
  <2>3. At(u, "started") /\ thread'[u] = thread[u] BY <1>9, <2>1, <2>2 DEF At
  <2>4. /\ thread[u].grant \in GrantNo /\ thread[u].grant # g
        /\ runs[thread[u].grant] = 1 /\ sent[thread[u].grant] = 0
        /\ \A q \in Process : budget[q] # Nobody => budget[q].grant # thread[u].grant
        /\ \A v \in Thread : v # u /\ At(v, "started") => thread[v].grant # thread[u].grant
    BY <1>1, <2>2, <2>3 DEF IInv, Claimed
  <2>5. \A q \in Process : budget'[q] # Nobody => budget'[q].grant # thread[u].grant
    BY <1>4, <1>6, <2>4
  <2>6. \A v \in Thread : v # u /\ At(v, "started")' => thread'[v].grant # thread[u].grant
    BY <1>9, <2>4 DEF At
  <2> QED BY <1>5, <2>3, <2>4, <2>5, <2>6 DEF Claimed
<1> QED BY <1>10, <1>11, <1>12, <1>13, <1>14 DEF IInv

LEMMA AbortStep == ASSUME IInv, NEW t \in Thread, Abort(t) PROVE IInv'
<1>1. ProcessOf[t] \in Process BY Numbers
<1>2. guard' \in [Process -> Thread \cup {Nobody}] BY DEF Abort, IInv, TypeOK
<1> QED BY <1>1, <1>2, AbortEffect DEF Abort, ghosts

\* A crash takes grants out of memory and puts none in.
LEMMA CrashStep == ASSUME IInv, NEW p \in Process, Crash(p) PROVE IInv'
<1> USE Numbers
<1>1. /\ UNCHANGED <<granted, expired, revoked, file, runs, sent>>
      /\ thread' = [t \in Thread |-> IF ProcessOf[t] = p THEN Idle ELSE thread[t]]
      /\ guard' = [guard EXCEPT ![p] = Nobody]
      /\ budget' = [budget EXCEPT ![p] = Nobody]
      /\ holder' \in {holder, Free}
  BY DEF Crash, disk, ghosts
<1>2. TypeOK'
  <2>1. thread' \in [Thread -> Local]
    BY <1>1 DEF IInv, TypeOK, Local, Idle
  <2>2. guard' \in [Process -> Thread \cup {Nobody}] BY <1>1 DEF IInv, TypeOK
  <2>3. budget' \in [Process -> {Nobody} \cup
                        [grant : GrantNo, calls : 0..MaxCalls, aborted : BOOLEAN]]
    BY <1>1 DEF IInv, TypeOK
  <2>4. holder' \in {Free} \cup [by : Thread \cup {Hook}, token : Token]
    BY <1>1 DEF IInv, TypeOK
  <2> QED BY <1>1, <2>1, <2>2, <2>3, <2>4 DEF IInv, TypeOK, Local
<1>3. Unspent' BY <1>1 DEF IInv, Unspent
<1>4. SpentGranted' /\ OneRunPerGrant' /\ CeilingHolds'
  BY <1>1 DEF IInv, SpentGranted, OneRunPerGrant, CeilingHolds, Ceiling
<1>5. \A q \in Process : budget'[q] # Nobody => budget'[q] = budget[q]
  BY <1>1 DEF IInv, TypeOK
<1>6. \A t \in Thread : thread'[t].pc = "started" => thread'[t] = thread[t]
  BY <1>1 DEF Idle
<1>7. \A t \in Thread : Claimed(t)' BY <1>1, <1>5, <1>6 DEF IInv, Claimed, At
<1>8. \A q \in Process : Budgeted(q)' BY <1>1, <1>5 DEF IInv, Budgeted
<1> QED BY <1>2, <1>3, <1>4, <1>7, <1>8 DEF IInv

LEMMA ExpireStep == ASSUME IInv, NEW g \in GrantNo, Expire(g) PROVE IInv'
<1>1. TypeOK' BY DEF Expire, IInv, TypeOK, memory, ghosts
<1> QED BY <1>1, Quiet DEF Expire, IInv, memory, ghosts

LEMMA StutterStep == ASSUME IInv, UNCHANGED vars PROVE IInv'
<1>1. TypeOK' BY DEF IInv, TypeOK, vars, disk, memory, ghosts
<1> QED BY <1>1, Quiet DEF IInv, vars, disk, memory, ghosts

LEMMA NextIInv == ASSUME IInv, [Next]_vars PROVE IInv'
<1>1. CASE \E g \in GrantNo, c \in Command, n \in 1..MaxCalls : Grant(g, c, n)
  BY <1>1, GrantStep
<1>2. CASE \E g \in GrantNo : Expire(g) BY <1>2, ExpireStep
<1>3. CASE (\E c \in Command : AdmitRead(c)) \/ AdmitWrite BY <1>3, AdmitStep
<1>4. CASE Revoke BY <1>4, RevokeStep
<1>5. ASSUME NEW t \in Thread, StartRun(t) \/ ConsumeRead(t) \/ Ask(t) \/ Answer(t)
      PROVE  IInv'
  BY <1>5, QuietSteps
<1>6. ASSUME NEW t \in Thread, ConsumeWrite(t) PROVE IInv' BY <1>6, ConsumeWriteStep
<1>7. ASSUME NEW t \in Thread, Started(t) PROVE IInv' BY <1>7, StartedStep
<1>8. ASSUME NEW t \in Thread, Spend(t) PROVE IInv' BY <1>8, SpendStep
<1>9. ASSUME NEW t \in Thread, Abort(t) PROVE IInv' BY <1>9, AbortStep
<1>10. ASSUME NEW p \in Process, Crash(p) PROVE IInv' BY <1>10, CrashStep
<1>11. CASE UNCHANGED vars BY <1>11, StutterStep
<1> QED BY <1>1, <1>2, <1>3, <1>4, <1>5, <1>6, <1>7, <1>8, <1>9, <1>10, <1>11 DEF Next
-----------------------------------------------------------------------------
\* The inductive invariant holds in every reachable state of the token file, the
\* processes' threads and their budgets.
THEOREM ConsentInvariance == Spec => []IInv
<1>1. IInv /\ [Next]_vars => IInv' BY NextIInv
<1> QED BY InitIInv, <1>1, PTL DEF Spec

\* The file holds a token or none, the lock one reader, a process at most one run.
THEOREM ConsentTypeCorrect == Spec => []TypeOK
BY ConsentInvariance, PTL DEF IInv

\* A token is consumed at most once, whoever looks for it (consume_paid).
THEOREM OneRunTheorem == Spec => []OneRunPerGrant
BY ConsentInvariance, PTL DEF IInv

\* The provider calls sent under a token never exceed its ceiling
\* (spend_paid_call), over all processes and restarts.
THEOREM CeilingTheorem == Spec => []CeilingHolds
BY ConsentInvariance, PTL DEF IInv

\* The calls of a grant grow in one step: the owner of its budget counts some.
LEMMA SentStep ==
  ASSUME IInv, [Next]_vars, NEW p \in Process, budget[p] # Nobody, budget[p].aborted
  PROVE  sent'[budget[p].grant] = sent[budget[p].grant]
<1> USE Numbers
<1> DEFINE g == budget[p].grant
<1>1. CASE sent' = sent BY <1>1
<1>2. ASSUME NEW t \in Thread, Count(t), budget[ProcessOf[t]] # Nobody,
             ~Finished(budget[ProcessOf[t]], thread[t].seen)
      PROVE  sent'[g] = sent[g]
  <2>1. ProcessOf[t] \in Process /\ ProcessOf[t] # p BY <1>2 DEF Finished
  <2>2. budget[ProcessOf[t]].grant # g BY <1>2, <2>1 DEF IInv, Budgeted
  <2> QED BY <1>2, <2>2 DEF Count, IInv, TypeOK
<1>3. \/ sent' = sent
      \/ \E t \in Thread : /\ Count(t) /\ budget[ProcessOf[t]] # Nobody
                           /\ ~Finished(budget[ProcessOf[t]], thread[t].seen)
  BY DEF Next, vars, ghosts, Grant, Expire, AdmitRead, Revoke, AdmitWrite, StartRun,
         ConsumeRead, ConsumeWrite, Started, Ask, Spend, Refuse, Answer, Abort, Crash
<1> QED BY <1>1, <1>2, <1>3

\* No call is sent under an aborted run's token (abort_paid_run), whichever thread
\* asks and whatever token came after it.
THEOREM AbortTheorem == Spec => AbortIsFinal
<1>1. IInv /\ [Next]_vars =>
        [\A p \in Process : budget[p] # Nobody =>
           (budget[p].aborted => sent'[budget[p].grant] = sent[budget[p].grant])]_vars
  BY SentStep
<1> QED BY ConsentInvariance, <1>1, PTL DEF Spec, AbortIsFinal

-----------------------------------------------------------------------------
(* What a revocation does achieve.                                         *)

\* Token g is not in the file, or only as a consumed one, and the hook is not between
\* reading it and writing it back.
OutOfReach(g) ==
  /\ granted[g] # Nobody
  /\ file # Nobody /\ file.grant = g => file.consumed
  /\ holder # Free /\ holder.token.grant = g => holder.by # Hook

\* Nobody takes the token from the file any more.
Untaken(g) == holder' # holder /\ holder' # Free => holder'.token.grant # g

LEMMA OutOfReachStep ==
  ASSUME IInv, [Next]_vars, NEW g \in GrantNo, OutOfReach(g)
  PROVE  OutOfReach(g)' /\ Untaken(g)
<1> USE Numbers DEF OutOfReach, Untaken
<1>1. TypeOK
  BY DEF IInv
<1>2. ASSUME NEW h \in GrantNo, NEW c \in Command, NEW n \in 1..MaxCalls, Grant(h, c, n)
      PROVE  OutOfReach(g)' /\ Untaken(g)
  <2>1. h # g
    BY <1>2 DEF Grant
  <2> QED BY <1>1, <1>2, <2>1 DEF Grant, TypeOK
<1>3. CASE Revoke
  BY <1>3 DEF Revoke
<1>4. ASSUME NEW c \in Command, AdmitRead(c)
      PROVE  OutOfReach(g)' /\ Untaken(g)
  BY <1>4 DEF AdmitRead, Usable, disk
<1>5. CASE AdmitWrite
  <2>1. holder # Free /\ holder.token \in Token /\ holder.token.grant # g
    BY <1>1, <1>5 DEF AdmitWrite, TypeOK, Free
  <2>2. [holder.token EXCEPT !.admitted = TRUE].grant = holder.token.grant
    BY <2>1 DEF Token
  <2> QED BY <1>5, <2>1, <2>2 DEF AdmitWrite
<1>6. ASSUME NEW t \in Thread, ConsumeRead(t)
      PROVE  OutOfReach(g)' /\ Untaken(g)
  BY <1>6 DEF ConsumeRead, Usable, disk
<1>7. ASSUME NEW t \in Thread, ConsumeWrite(t)
      PROVE  OutOfReach(g)' /\ Untaken(g)
  <2>1. holder # Free /\ holder.token \in Token
    BY <1>1, <1>7 DEF ConsumeWrite, TypeOK, Free
  <2>2. [holder.token EXCEPT !.consumed = TRUE].consumed
    BY <2>1 DEF Token
  <2> QED BY <1>7, <2>2 DEF ConsumeWrite
<1>8. CASE \E p \in Process : Crash(p)
  BY <1>8 DEF Crash, disk
<1>9. CASE UNCHANGED <<granted, file, holder>>
  BY <1>9
<1>10. \/ \E h \in GrantNo, c \in Command, n \in 1..MaxCalls : Grant(h, c, n)
       \/ \E c \in Command : AdmitRead(c)
       \/ Revoke \/ AdmitWrite
       \/ \E t \in Thread : ConsumeRead(t) \/ ConsumeWrite(t)
       \/ \E p \in Process : Crash(p)
       \/ UNCHANGED <<granted, file, holder>>
  BY DEF Next, vars, disk, Expire, StartRun, Started, Ask, Spend, Answer, Abort
<1> QED BY <1>2, <1>3, <1>4, <1>5, <1>6, <1>7, <1>8, <1>9, <1>10

\* A token that was revoked while the hook was not between reading and replacing it
\* never comes back for anybody to take (revoke, admit_paid, consume_paid).  So an
\* admission in progress is the one way in which RevokeEndsWindow fails.
THEOREM RevocationTheorem ==
  Spec => [][\A g \in GrantNo : OutOfReach(g) => OutOfReach(g)' /\ Untaken(g)]_vars
<1>1. IInv /\ [Next]_vars =>
        [\A g \in GrantNo : OutOfReach(g) => OutOfReach(g)' /\ Untaken(g)]_vars
  BY OutOfReachStep
<1> QED BY ConsentInvariance, <1>1, PTL DEF Spec
=============================================================================
