------------------------ MODULE ApprovalLedgerProofs ------------------------
(***************************************************************************)
(* Proofs about ApprovalLedger for any set of drafts, keys, addresses and  *)
(* senders, any Ttl, Window and clock.                                     *)
(*                                                                         *)
(* The argument has two halves.  LogStep says what any step may write:     *)
(* nothing, one record that follows from its draft's last one, or one      *)
(* "expired" record for each of several live drafts; Growth is what this   *)
(* means for one draft.  Everything about a single history (it replays, it *)
(* holds a timely approval) is preserved by Growth alone.  The other half  *)
(* relates the senders to the histories: a process past the claim owns a   *)
(* draft whose last record is "sending", and no two own the same one.      *)
(*                                                                         *)
(* By LogStep too the module implements GatedSend: a line moves one        *)
(* draft's stage the way one action of GatedSend does; the only step that  *)
(* is not a write and not a stutter is the transport taking a message.     *)
(***************************************************************************)
EXTENDS ApprovalLedger, TLAPS

\* The record r may follow what the journal holds of draft d.
Follows(d, r) ==
  /\ r.at = clock
  /\ Known(d) =>
       /\ r.state \in AllowedNext(Last(d).state)
       /\ SameDigest(Last(d), r)
       /\ Last(d).state # "pending" => r.approvedAt = Last(d).approvedAt
       /\ Last(d).state = "approved" /\ r.state = "sending" =>
            clock < Last(d).expiresAt /\ clock - Last(d).approvedAt < Window
  /\ ~Known(d) =>
       /\ r.state = "pending"
       /\ r.key # NoKey => \A e \in Draft : Known(e) => Last(e).key # r.key

SendersHaveDrafts == \A s \in Sender : sender[s].pc # "idle" => sender[s].draft \in Draft

\* What a step may do to the lines of one draft.
Grows(d) ==
  \/ log'[d] = log[d]
  \/ \E r \in Record : Follows(d, r) /\ log'[d] = Append(log[d], r)

\* What a step may do to the journal.
LogGrows ==
  /\ log' \in [Draft -> Seq(Record)]
  /\ \A d \in Draft : Grows(d)

\* One line about d was written; "sent" only by a sender that was accepted.
LineStep ==
  \E d \in Draft, r \in Record :
    /\ Follows(d, r) /\ log' = Line(d, r)
    /\ r.state = "sent" => \E s \in Sender : At(s, "accepted") /\ sender[s].draft = d

\* Live drafts were expired together.
LinesStep ==
  \E ds \in SUBSET Draft : (\A d \in ds : InState(d, Live)) /\ log' = Lines(ds, "expired")

Step == log' = log \/ LineStep \/ LinesStep

-----------------------------------------------------------------------------
LEMMA LastType ==
  ASSUME TypeOK, NEW d \in Draft, Known(d)
  PROVE  Last(d) \in Record /\ Len(log[d]) \in Nat \ {0}
BY DEF TypeOK, Known, Last

LEMMA MovedFields ==
  ASSUME TypeOK, NEW d \in Draft, Known(d), NEW state \in State
  PROVE  /\ Moved(d, state) \in Record
         /\ Moved(d, state).state = state
         /\ Moved(d, state).at = clock
         /\ Moved(d, state).approvedAt = Last(d).approvedAt
         /\ SameDigest(Last(d), Moved(d, state))
<1>1. Last(d) \in Record BY LastType
<1>2. clock \in Nat BY DEF TypeOK
<1> QED BY <1>1, <1>2 DEF Moved, Record, SameDigest

LEMMA Writing ==
  ASSUME NEW new, WriteOrTear(new)
  PROVE  log' = new \/ log' = log
BY DEF WriteOrTear, Write, Tear

\* Appending one line about d lets d grow and leaves the others alone.
LEMMA LineGrows ==
  ASSUME TypeOK, NEW d \in Draft, NEW r \in Record, Follows(d, r),
         log' = Line(d, r) \/ log' = log
  PROVE  LogGrows
<1>1. log[d] \in Seq(Record) /\ Append(log[d], r) \in Seq(Record)
  BY DEF TypeOK
<1>2. log' \in [Draft -> Seq(Record)]
  BY <1>1 DEF TypeOK, Line
<1>3. \A e \in Draft : Grows(e)
  BY DEF TypeOK, Line, Grows
<1> QED BY <1>2, <1>3 DEF LogGrows

\* A live or locked draft may take the next state of its life.
LEMMA MovedFollows ==
  ASSUME TypeOK, NEW d \in Draft, Known(d), NEW state \in State,
         state \in AllowedNext(Last(d).state),
         state = "sending" /\ Last(d).state = "approved" => ~Due(d) /\ Claimable(d)
  PROVE  Moved(d, state) \in Record /\ Follows(d, Moved(d, state))
<1>1. Last(d) \in Record /\ clock \in Nat BY LastType DEF TypeOK
<1>2. Last(d).state = "approved" /\ state = "sending" =>
        clock < Last(d).expiresAt /\ clock - Last(d).approvedAt < Window
  BY <1>1 DEF Due, Claimable, InState, Live, Record
<1> QED BY <1>2, MovedFields DEF Follows

LEMMA ExpiredFollows ==
  ASSUME TypeOK, NEW d \in Draft, InState(d, Live), NEW state \in {"rejected", "expired"}
  PROVE  Moved(d, state) \in Record /\ Follows(d, Moved(d, state))
<1>1. Known(d) /\ state \in AllowedNext(Last(d).state) /\ state # "sending" /\ state \in State
  BY DEF InState, Live, AllowedNext, State
<1> QED BY <1>1, MovedFollows

LEMMA LinesGrow ==
  ASSUME TypeOK, NEW ds \in SUBSET Draft, \A d \in ds : InState(d, Live),
         log' = Lines(ds, "expired") \/ log' = log
  PROVE  LogGrows
<1>1. \A e \in ds : Moved(e, "expired") \in Record /\ Follows(e, Moved(e, "expired"))
  BY ExpiredFollows
<1>2. log' \in [Draft -> Seq(Record)]
  <2>1. \A e \in Draft : log[e] \in Seq(Record)
    BY DEF TypeOK
  <2>2. \A e \in ds : Append(log[e], Moved(e, "expired")) \in Seq(Record)
    BY <1>1, <2>1
  <2>3. Lines(ds, "expired") \in [Draft -> Seq(Record)]
    BY <2>1, <2>2 DEF Lines
  <2> QED BY <2>3 DEF TypeOK
<1>3. \A e \in Draft : Grows(e)
  BY <1>1 DEF Lines, Grows
<1> QED BY <1>2, <1>3 DEF LogGrows

-----------------------------------------------------------------------------
(* What a step writes: one lemma per action.                               *)

LEMMA ExpireDueStep ==
  ASSUME TypeOK, NEW d \in Draft, ExpireDue(d)
  PROVE  Step
<1>1. Moved(d, "expired") \in Record /\ Follows(d, Moved(d, "expired"))
  BY ExpiredFollows DEF ExpireDue, Due
<1>2. Moved(d, "expired").state = "expired"
  BY MovedFields DEF ExpireDue, Due, InState, State
<1> QED BY <1>1, <1>2, Writing DEF ExpireDue, Step, LineStep

LEMMA BulkStep ==
  ASSUME NEW ds \in SUBSET Draft, \A d \in ds : InState(d, Live),
         \/ Write(Lines(ds, "expired"))
         \/ \E part \in SUBSET ds : part # {} /\ WriteOrTear(Lines(part, "expired"))
  PROVE  Step
<1>1. CASE Write(Lines(ds, "expired"))
  BY <1>1 DEF Write, Step, LinesStep
<1>2. ASSUME NEW part \in SUBSET ds, WriteOrTear(Lines(part, "expired"))
      PROVE  Step
  <2>1. part \in SUBSET Draft /\ \A d \in part : InState(d, Live)
    OBVIOUS
  <2> QED BY <1>2, <2>1, Writing DEF Step, LinesStep
<1> QED BY <1>1, <1>2

LEMMA CreateStep ==
  ASSUME TypeOK, NEW key \in Key \cup {NoKey}, NEW now \in 0..clock, CreateDraft(key, now)
  PROVE  Step
<1>1. CASE \E d \in Holders(key) : ExpireDue(d)
  BY <1>1, ExpireDueStep DEF Holders
<1>2. CASE ~\E d \in Holders(key) : ExpireDue(d)
  <2> DEFINE r == [state |-> "pending", at |-> clock, approvedAt |-> NotYet,
                   expiresAt |-> now + Ttl, key |-> key, recipient |-> owner]
  <2>1. PICK d \in Draft : ~Known(d) /\ Holders(key) = {} /\ WriteOrTear(Line(d, r))
    BY <1>2 DEF CreateDraft
  <2>2. r \in Record /\ r.state # "sent"
    BY ConstantsAssumption DEF Record, State, TypeOK, NotYet
  <2>3. Follows(d, r)
    BY <2>1 DEF Follows, Holders
  <2> HIDE DEF r
  <2> QED BY <2>1, <2>2, <2>3, Writing DEF Step, LineStep
<1> QED BY <1>1, <1>2

LEMMA ApproveStep ==
  ASSUME TypeOK, NEW d \in Draft, Approve(d)
  PROVE  Step
<1>1. CASE ExpireDue(d)
  BY <1>1, ExpireDueStep
<1>2. CASE ~ExpireDue(d)
  <2> DEFINE r == [Moved(d, "approved") EXCEPT !.approvedAt = clock]
  <2>1. InState(d, {"pending"}) /\ WriteOrTear(Line(d, r))
    BY <1>2 DEF Approve
  <2>2. Known(d) /\ Last(d).state = "pending"
    BY <2>1 DEF InState
  <2>3. /\ Moved(d, "approved") \in Record
        /\ Moved(d, "approved").state = "approved"
        /\ Moved(d, "approved").at = clock
        /\ SameDigest(Last(d), Moved(d, "approved"))
    BY <2>2, MovedFields DEF State
  <2>4. r \in Record /\ r.state = "approved" /\ r.at = clock /\ SameDigest(Last(d), r)
    BY <2>3 DEF Record, SameDigest, TypeOK
  <2>5. Follows(d, r)
    BY <2>2, <2>4 DEF Follows, AllowedNext
  <2> HIDE DEF r
  <2> QED BY <2>1, <2>4, <2>5, Writing DEF Step, LineStep
<1> QED BY <1>1, <1>2

LEMMA FinishStep ==
  ASSUME TypeOK, NEW d \in Draft, NEW state \in {"rejected", "expired"}, Finish(d, state)
  PROVE  Step
<1>1. CASE ExpireDue(d)
  BY <1>1, ExpireDueStep
<1>2. CASE ~ExpireDue(d)
  <2>1. InState(d, Live) /\ WriteOrTear(Line(d, Moved(d, state)))
    BY <1>2 DEF Finish
  <2>2. Moved(d, state).state # "sent"
    <3>1. Known(d) /\ state \in State
      BY <2>1 DEF InState, State
    <3> QED BY <3>1, MovedFields
  <2> QED BY <2>1, <2>2, ExpiredFollows, Writing DEF Step, LineStep
<1> QED BY <1>1, <1>2

LEMMA SendGetStep ==
  ASSUME TypeOK, NEW s \in Sender, NEW d \in Draft, SendGet(s, d)
  PROVE  Step
<1>1. CASE log' = log
  BY <1>1 DEF Step
<1>2. CASE log' # log
  <2>1. Due(d) /\ WriteOrTear(Line(d, Moved(d, "expired")))
    BY <1>2 DEF SendGet, WriteOrTear
  <2> QED BY <2>1, ExpireDueStep DEF ExpireDue
<1> QED BY <1>1, <1>2

\* A process past send()'s first step has a draft.
LEMMA SenderDraft ==
  ASSUME SendersHaveDrafts, NEW s \in Sender, ~At(s, "idle")
  PROVE  sender[s].draft \in Draft
BY DEF SendersHaveDrafts, At

LEMMA ClaimSendStep ==
  ASSUME TypeOK, SendersHaveDrafts, NEW s \in Sender, ClaimSend(s)
  PROVE  Step
<1> DEFINE d == sender[s].draft
<1>0. d \in Draft
  BY SenderDraft DEF ClaimSend, At
<1>1. CASE log' = log
  BY <1>1 DEF Step
<1>2. CASE log' # log
  <2>1. CASE ExpireDue(d)
    BY <2>1, <1>0, ExpireDueStep
  <2>2. CASE ~ExpireDue(d)
    <3>1. ~Due(d) /\ Claimable(d) /\ WriteOrTear(Line(d, Moved(d, "sending")))
      BY <1>2, <2>2 DEF ClaimSend, WriteOrTear
    <3>2. Known(d) /\ "sending" \in AllowedNext(Last(d).state)
      BY <3>1 DEF Claimable, InState, AllowedNext
    <3>3. Moved(d, "sending") \in Record /\ Follows(d, Moved(d, "sending"))
      BY <3>1, <3>2, <1>0, MovedFollows DEF State
    <3>4. Moved(d, "sending").state # "sent"
      BY <3>2, <1>0, MovedFields DEF State
    <3> QED BY <3>1, <3>3, <3>4, <1>0, Writing DEF Step, LineStep
  <2> QED BY <2>1, <2>2
<1> QED BY <1>1, <1>2

LEMMA RecordDeliveryStep ==
  ASSUME TypeOK, SendersHaveDrafts, NEW s \in Sender, RecordDelivery(s)
  PROVE  Step
<1> DEFINE d == sender[s].draft
<1>0. d \in Draft
  BY SenderDraft DEF RecordDelivery, At
<1>1. CASE log' = log
  BY <1>1 DEF Step
<1>2. CASE log' # log
  <2>1. InState(d, {"sending"}) /\ WriteOrTear(Line(d, Moved(d, Outcome(s))))
    BY <1>2 DEF RecordDelivery
  <2>2. /\ Known(d) /\ Last(d).state = "sending"
        /\ Outcome(s) \in State /\ Outcome(s) \in AllowedNext(Last(d).state)
    BY <2>1 DEF InState, AllowedNext, Outcome, State
  <2>3. Moved(d, Outcome(s)) \in Record /\ Follows(d, Moved(d, Outcome(s)))
    BY <2>2, <1>0, MovedFollows
  <2>4. Moved(d, Outcome(s)).state = "sent" => At(s, "accepted")
    BY <2>2, <1>0, MovedFields DEF Outcome
  <2> QED BY <2>1, <2>3, <2>4, <1>0, Writing DEF Step, LineStep
<1> QED BY <1>1, <1>2

\* Every step: nothing, one line, or one expiry for each of several drafts.
LEMMA LogStep ==
  ASSUME TypeOK, SendersHaveDrafts, [Next]_vars
  PROVE  Step
<1>1. CASE log' = log
  BY <1>1 DEF Step
<1>2. CASE log' # log
  <2>1. ASSUME NEW key \in Key \cup {NoKey}, NEW now \in 0..clock, CreateDraft(key, now)
        PROVE  Step
    BY <2>1, CreateStep
  <2>2. ASSUME NEW d \in Draft, Get(d) \/ Approve(d)
        PROVE  Step
    BY <2>2, ApproveStep, ExpireDueStep DEF Get
  <2>3. ASSUME NEW d \in Draft, NEW state \in {"rejected", "expired"}, Finish(d, state)
        PROVE  Step
    BY <2>3, FinishStep
  <2>4. ASSUME ListPending
        PROVE  Step
    <3> DEFINE ds == {d \in Draft : Due(d)}
    <3>1. ds \in SUBSET Draft /\ \A d \in ds : InState(d, Live)
      BY DEF Due
    <3> QED BY <2>4, <3>1, BulkStep DEF ListPending
  <2>5. ASSUME NEW keys \in SUBSET Key, ExpireIdempotencyPrefixes(keys)
        PROVE  Step
    <3> DEFINE ds == {d \in Draft : InState(d, Live) /\ Last(d).key \in keys}
    <3>1. ds \in SUBSET Draft /\ \A d \in ds : InState(d, Live)
      OBVIOUS
    <3> QED BY <2>5, <3>1, BulkStep DEF ExpireIdempotencyPrefixes
  <2>6. ASSUME NEW s \in Sender, NEW d \in Draft, SendGet(s, d)
        PROVE  Step
    BY <2>6, SendGetStep
  <2>7. ASSUME NEW s \in Sender, ClaimSend(s) \/ Transport(s) \/ RecordDelivery(s) \/ Crash(s)
        PROVE  Step
    BY <1>2, <2>7, ClaimSendStep, RecordDeliveryStep DEF Transport, Crash
  <2> QED BY <1>2, <2>1, <2>2, <2>3, <2>4, <2>5, <2>6, <2>7
          DEF Next, vars, Tick, ChangeOwner, EditByHand
<1> QED BY <1>1, <1>2

\* So each draft's history stays or grows by a record that follows.
LEMMA Growth ==
  ASSUME TypeOK, SendersHaveDrafts, [Next]_vars
  PROVE  LogGrows
<1>1. CASE log' = log
  BY <1>1 DEF Grows, LogGrows, TypeOK
<1> QED BY <1>1, LogStep, LineGrows, LinesGrow DEF Step, LineStep, LinesStep

-----------------------------------------------------------------------------
(* Type correctness.                                                       *)

LEMMA TypeInit == Init => TypeOK /\ SendersHaveDrafts
BY ConstantsAssumption DEF Init, TypeOK, SendersHaveDrafts, Idle

TailType == tail' \in {"clean", "open", "bad"}

LEMMA WritingTail ==
  ASSUME TypeOK, NEW new, WriteOrTear(new)
  PROVE  TailType
BY DEF WriteOrTear, Write, Tear, TailType

LEMMA ExpireDueTail ==
  ASSUME TypeOK, NEW d, ExpireDue(d)
  PROVE  TailType
BY WritingTail DEF ExpireDue

\* The operator's and the tools' operations touch nothing but the journal, and
\* the surroundings touch neither drafts nor senders.
LEMMA StepKinds ==
  ASSUME TypeOK, Next
  PROVE  \/ UNCHANGED <<owner, clock, sender, delivered>> /\ TailType
         \/ \E s \in Sender, d \in Draft : SendGet(s, d)
         \/ \E s \in Sender : ClaimSend(s) \/ Transport(s) \/ RecordDelivery(s) \/ Crash(s)
         \/ /\ UNCHANGED <<log, sender, delivered>>
            /\ TailType /\ owner' \in Address /\ clock' \in Nat
<1> DEFINE Goal == UNCHANGED <<owner, clock, sender, delivered>> /\ TailType
<1>1. ASSUME NEW key \in Key \cup {NoKey}, NEW now \in 0..clock, CreateDraft(key, now)
      PROVE  Goal
  <2>1. UNCHANGED <<owner, clock, sender, delivered>>
    BY <1>1 DEF CreateDraft
  <2>2. TailType
    BY <1>1, ExpireDueTail, WritingTail DEF CreateDraft
  <2> QED BY <2>1, <2>2
<1>2. ASSUME NEW d \in Draft, Get(d)
      PROVE  Goal
  BY <1>2, ExpireDueTail DEF Get
<1>3. ASSUME NEW d \in Draft, Approve(d)
      PROVE  Goal
  BY <1>3, ExpireDueTail, WritingTail DEF Approve
<1>4. ASSUME NEW d \in Draft, NEW state \in {"rejected", "expired"}, Finish(d, state)
      PROVE  Goal
  BY <1>4, ExpireDueTail, WritingTail DEF Finish
<1>5. ASSUME ListPending
      PROVE  Goal
  <2>1. UNCHANGED <<owner, clock, sender, delivered>>
    BY <1>5 DEF ListPending
  <2>2. \E new : WriteOrTear(new)
    BY <1>5 DEF ListPending, WriteOrTear
  <2> QED BY <2>1, <2>2, WritingTail
<1>6. ASSUME NEW keys \in SUBSET Key, ExpireIdempotencyPrefixes(keys)
      PROVE  Goal
  <2>1. UNCHANGED <<owner, clock, sender, delivered>>
    BY <1>6 DEF ExpireIdempotencyPrefixes
  <2>2. \E new : WriteOrTear(new)
    BY <1>6 DEF ExpireIdempotencyPrefixes, WriteOrTear
  <2> QED BY <2>1, <2>2, WritingTail
<1>7. ASSUME Tick \/ ChangeOwner \/ EditByHand
      PROVE  /\ UNCHANGED <<log, sender, delivered>>
             /\ TailType /\ owner' \in Address /\ clock' \in Nat
  BY <1>7 DEF Tick, ChangeOwner, EditByHand, TypeOK, TailType
<1> HIDE DEF Goal
<1> QED BY <1>1, <1>2, <1>3, <1>4, <1>5, <1>6, <1>7 DEF Next, Goal

\* What one step of a sender does to the senders, the tail and the mailbox.
LEMMA SenderSteps ==
  ASSUME TypeOK, SendersHaveDrafts, NEW s \in Sender,
         \/ \E d \in Draft : SendGet(s, d)
         \/ ClaimSend(s) \/ Transport(s) \/ RecordDelivery(s) \/ Crash(s)
  PROVE  /\ UNCHANGED <<owner, clock>> /\ TailType
         /\ \/ sender' = sender
            \/ sender' = [sender EXCEPT ![s] = Idle]
            \/ \E d \in Draft : sender' = [sender EXCEPT ![s] = [pc |-> "got", draft |-> d]]
            \/ \E pc \in {"claimed", "accepted", "failed"} :
                 ~At(s, "idle") /\ sender' = [sender EXCEPT ![s].pc = pc]
         /\ \/ delivered' = delivered
            \/ /\ sender[s].draft \in Draft
               /\ delivered' = [delivered EXCEPT ![sender[s].draft] = @ + 1]
<1>1. ASSUME NEW d \in Draft, SendGet(s, d)
      PROVE  /\ UNCHANGED <<owner, clock, delivered>> /\ TailType
             /\ \/ sender' = sender
                \/ sender' = [sender EXCEPT ![s] = [pc |-> "got", draft |-> d]]
  <2>1. TailType
    <3>1. (\E new : WriteOrTear(new)) \/ tail' = tail
      BY <1>1 DEF SendGet, WriteOrTear
    <3> QED BY <3>1, WritingTail DEF TypeOK, TailType
  <2> QED BY <1>1, <2>1 DEF SendGet
<1>2. ASSUME ClaimSend(s)
      PROVE  /\ UNCHANGED <<owner, clock, delivered>> /\ TailType
             /\ \/ sender' = [sender EXCEPT ![s] = Idle]
                \/ ~At(s, "idle") /\ sender' = [sender EXCEPT ![s].pc = "claimed"]
  <2>1. TailType
    <3>1. (\E new : WriteOrTear(new)) \/ tail' = tail
      BY <1>2 DEF ClaimSend, WriteOrTear, ExpireDue
    <3> QED BY <3>1, WritingTail DEF TypeOK, TailType
  <2>2. ~At(s, "idle")
    BY <1>2 DEF ClaimSend, At
  <2> QED BY <1>2, <2>1, <2>2 DEF ClaimSend, Stop, Goto
<1>3. ASSUME Transport(s)
      PROVE  /\ UNCHANGED <<owner, clock>> /\ TailType
             /\ \E pc \in {"accepted", "failed"} :
                  ~At(s, "idle") /\ sender' = [sender EXCEPT ![s].pc = pc]
             /\ \/ delivered' = delivered
                \/ /\ sender[s].draft \in Draft
                   /\ delivered' = [delivered EXCEPT ![sender[s].draft] = @ + 1]
  BY <1>3, SenderDraft DEF Transport, Goto, TypeOK, TailType, At
<1>4. ASSUME RecordDelivery(s)
      PROVE  /\ UNCHANGED <<owner, clock, delivered>> /\ TailType
             /\ sender' = [sender EXCEPT ![s] = Idle]
  <2>1. TailType
    <3>1. (\E new : WriteOrTear(new)) \/ tail' = tail
      BY <1>4 DEF RecordDelivery
    <3> QED BY <3>1, WritingTail DEF TypeOK, TailType
  <2> QED BY <1>4, <2>1 DEF RecordDelivery, Stop
<1>5. ASSUME Crash(s)
      PROVE  /\ UNCHANGED <<owner, clock, delivered>> /\ TailType
             /\ sender' = [sender EXCEPT ![s] = Idle]
  BY <1>5 DEF Crash, Stop, TypeOK, TailType
<1> QED BY <1>1, <1>2, <1>3, <1>4, <1>5

LEMMA TypeStep ==
  ASSUME TypeOK, SendersHaveDrafts, [Next]_vars
  PROVE  TypeOK' /\ SendersHaveDrafts'
<1>1. log' \in [Draft -> Seq(Record)]
  BY Growth DEF LogGrows
<1>2. CASE UNCHANGED vars
  BY <1>2 DEF TypeOK, SendersHaveDrafts, vars
<1>3. CASE UNCHANGED <<owner, clock, sender, delivered>> /\ TailType
  BY <1>1, <1>3 DEF TypeOK, SendersHaveDrafts, TailType
<1>4. ASSUME NEW s \in Sender,
             \/ \E d \in Draft : SendGet(s, d)
             \/ ClaimSend(s) \/ Transport(s) \/ RecordDelivery(s) \/ Crash(s)
      PROVE  TypeOK' /\ SendersHaveDrafts'
  <2>1. /\ sender' \in [Sender -> [pc : {"idle", "got", "claimed", "accepted", "failed"},
                                   draft : Draft \cup {NoDraft}]]
        /\ SendersHaveDrafts'
    <3>0. sender \in [Sender -> [pc : {"idle", "got", "claimed", "accepted", "failed"},
                                 draft : Draft \cup {NoDraft}]]
      BY DEF TypeOK
    <3>1. CASE sender' = sender
      BY <3>0, <3>1 DEF SendersHaveDrafts
    <3>2. CASE sender' = [sender EXCEPT ![s] = Idle]
      BY <3>0, <3>2 DEF SendersHaveDrafts, Idle
    <3>3. ASSUME NEW d \in Draft, sender' = [sender EXCEPT ![s] = [pc |-> "got", draft |-> d]]
          PROVE  /\ sender' \in [Sender -> [pc : {"idle", "got", "claimed", "accepted", "failed"},
                                            draft : Draft \cup {NoDraft}]]
                 /\ SendersHaveDrafts'
      BY <3>0, <3>3 DEF SendersHaveDrafts
    <3>4. ASSUME NEW pc \in {"claimed", "accepted", "failed"},
                 ~At(s, "idle"), sender' = [sender EXCEPT ![s].pc = pc]
          PROVE  /\ sender' \in [Sender -> [pc : {"idle", "got", "claimed", "accepted", "failed"},
                                            draft : Draft \cup {NoDraft}]]
                 /\ SendersHaveDrafts'
      BY <3>0, <3>4 DEF SendersHaveDrafts, At
    <3> QED BY <1>4, <3>1, <3>2, <3>3, <3>4, SenderSteps
  <2>2. delivered' \in [Draft -> Nat]
    BY <1>4, SenderSteps DEF TypeOK
  <2> QED BY <1>1, <1>4, <2>1, <2>2, SenderSteps DEF TypeOK, TailType
<1>5. CASE /\ UNCHANGED <<log, sender, delivered>>
           /\ TailType /\ owner' \in Address /\ clock' \in Nat
  BY <1>5 DEF TypeOK, SendersHaveDrafts, TailType
<1> QED BY <1>2, <1>3, <1>4, <1>5, StepKinds

\* Every variable keeps its type: the journal only ever holds full records, and
\* a process past the first step of send() works on a real draft.
THEOREM TypeCorrect == Spec => [](TypeOK /\ SendersHaveDrafts)
<1>1. TypeOK /\ SendersHaveDrafts /\ [Next]_vars => (TypeOK /\ SendersHaveDrafts)'
  BY TypeStep
<1> QED BY TypeInit, <1>1, PTL DEF Spec

-----------------------------------------------------------------------------
(* One history by itself.                                                  *)

\* A human's approval, and a claim in time, stand in the history of d.
Authorised(d) ==
  \E i \in 2..Len(log[d]) :
    /\ log[d][i-1].state = "approved" /\ log[d][i].state = "sending"
    /\ log[d][i].at < log[d][i].expiresAt
    /\ log[d][i].at - log[d][i].approvedAt < Window

\* Only the last record of a history can be the end of a draft's life.
DeadIsLast(d) ==
  \A i \in 1..Len(log[d]) : log[d][i].state \in {"rejected", "expired"} => i = Len(log[d])

HistoryInv ==
  \A d \in Draft :
    /\ LegalHistory(log[d])
    /\ InState(d, {"sending", "sent"}) => Authorised(d)
    /\ DeadIsLast(d)

LEMMA HistoryInit == Init => HistoryInv
<1> SUFFICES ASSUME Init, NEW d \in Draft
             PROVE  LegalHistory(log[d]) /\ ~InState(d, {"sending", "sent"}) /\ DeadIsLast(d)
  BY DEF HistoryInv
<1>1. log[d] = <<>> /\ Len(log[d]) = 0
  BY DEF Init
<1>2. 1..Len(log[d]) = {} /\ 2..Len(log[d]) = {}
  BY <1>1
<1> QED BY <1>1, <1>2 DEF LegalHistory, InState, Known, DeadIsLast

LEMMA HistoryGrows ==
  ASSUME TypeOK, HistoryInv, NEW d \in Draft, NEW r \in Record, Follows(d, r),
         log'[d] = Append(log[d], r)
  PROVE  /\ LegalHistory(log'[d])
         /\ InState(d, {"sending", "sent"})' => Authorised(d)'
         /\ DeadIsLast(d)'
<1> DEFINE h == log[d]
           n == Len(h)
<1>0. /\ h \in Seq(Record) /\ n \in Nat
      /\ Len(log'[d]) = n + 1 /\ log'[d][n+1] = r
      /\ \A i \in 1..n : log'[d][i] = h[i]
  BY DEF TypeOK
<1>1. CASE ~Known(d)
  <2>1. n = 0 /\ r.state = "pending"
    BY <1>0, <1>1 DEF Known, Follows
  <2> QED BY <1>0, <2>1 DEF LegalHistory, InState, Known, Last, DeadIsLast
<1>2. CASE Known(d)
  <2>0. n \in Nat \ {0} /\ Last(d) = h[n] /\ Last(d) \in Record
    BY <1>2, LastType DEF Last
  <2>1. /\ r.at = clock
        /\ r.state \in AllowedNext(h[n].state)
        /\ SameDigest(h[n], r)
        /\ h[n].state # "pending" => r.approvedAt = h[n].approvedAt
        /\ h[n].state = "approved" /\ r.state = "sending" =>
             clock < h[n].expiresAt /\ clock - h[n].approvedAt < Window
    BY <1>2, <2>0 DEF Follows
  <2>2. LegalHistory(h) /\ DeadIsLast(d)
    BY DEF HistoryInv
  <2>3. LegalHistory(log'[d])
    <3>1. log'[d][1].state = "pending"
      BY <1>0, <2>0, <2>2 DEF LegalHistory
    <3>2. ASSUME NEW i \in 2..(n+1)
          PROVE  /\ log'[d][i].state \in AllowedNext(log'[d][i-1].state)
                 /\ SameDigest(log'[d][i-1], log'[d][i])
                 /\ log'[d][i-1].state # "pending" =>
                      log'[d][i].approvedAt = log'[d][i-1].approvedAt
      <4>1. CASE i = n + 1
        BY <4>1, <1>0, <2>0, <2>1
      <4>2. CASE i # n + 1
        <5>1. i \in 2..n /\ i-1 \in 1..n /\ i \in 1..n
          BY <4>2, <1>0
        <5> QED BY <5>1, <1>0, <2>2 DEF LegalHistory
      <4> QED BY <4>1, <4>2
    <3> QED BY <3>1, <3>2, <1>0 DEF LegalHistory
  <2>4. h[n].state \notin {"rejected", "expired"}
    BY <2>1 DEF AllowedNext
  <2>5. DeadIsLast(d)'
    BY <1>0, <2>0, <2>2, <2>4 DEF DeadIsLast
  <2>6. ASSUME InState(d, {"sending", "sent"})'
        PROVE  Authorised(d)'
    <3>1. r.state \in {"sending", "sent"}
      BY <2>6, <1>0, <2>0 DEF InState, Last
    <3>2. CASE h[n].state = "approved"
      <4>1. r.state = "sending" /\ r.expiresAt = h[n].expiresAt /\ r.approvedAt = h[n].approvedAt
        BY <3>1, <3>2, <2>1 DEF AllowedNext, SameDigest
      <4>2. n + 1 \in 2..(n+1) /\ (n + 1) - 1 = n
        BY <2>0
      <4> QED BY <4>1, <4>2, <1>0, <2>0, <2>1, <3>2 DEF Authorised
    <3>3. CASE h[n].state # "approved"
      <4>1. h[n].state = "sending"
        BY <3>1, <3>3, <2>1 DEF AllowedNext
      <4>2. Authorised(d)
        BY <4>1, <1>2, <2>0 DEF HistoryInv, InState
      <4>3. PICK i \in 2..n :
              /\ h[i-1].state = "approved" /\ h[i].state = "sending"
              /\ h[i].at < h[i].expiresAt /\ h[i].at - h[i].approvedAt < Window
        BY <4>2 DEF Authorised
      <4>4. i \in 2..(n+1) /\ i \in 1..n /\ i - 1 \in 1..n
        BY <1>0
      <4> QED BY <4>3, <4>4, <1>0 DEF Authorised
    <3> QED BY <3>2, <3>3
  <2> QED BY <2>3, <2>5, <2>6
<1> QED BY <1>1, <1>2

LEMMA HistoryStep ==
  ASSUME TypeOK, SendersHaveDrafts, HistoryInv, [Next]_vars
  PROVE  HistoryInv'
<1> SUFFICES ASSUME NEW d \in Draft
             PROVE  /\ LegalHistory(log'[d])
                    /\ InState(d, {"sending", "sent"})' => Authorised(d)'
                    /\ DeadIsLast(d)'
  BY DEF HistoryInv
<1>1. CASE log'[d] = log[d]
  BY <1>1 DEF HistoryInv, InState, Known, Last, Authorised, DeadIsLast
<1>2. CASE log'[d] # log[d]
  BY <1>2, Growth, HistoryGrows DEF Grows, LogGrows
<1> QED BY <1>1, <1>2

\* No sequence of legal calls, crashes included, writes a line that the replay
\* of a later call refuses.
THEOREM ReplayTheorem == Spec => []WritersKeepReplay
<1>1. TypeOK /\ SendersHaveDrafts /\ HistoryInv /\ [Next]_vars => HistoryInv'
  BY HistoryStep
<1>2. HistoryInv => WritersKeepReplay
  BY DEF HistoryInv, WritersKeepReplay
<1> QED BY HistoryInit, TypeCorrect, <1>1, <1>2, PTL DEF Spec

-----------------------------------------------------------------------------
(* Senders against histories.                                              *)

\* The process is past the claim of its draft.
Owns(s) == sender[s].pc \in {"claimed", "accepted", "failed"}

SendInv ==
  /\ \A s \in Sender : Owns(s) => InState(sender[s].draft, {"sending"})
  /\ \A s, t \in Sender : Owns(s) /\ Owns(t) /\ sender[s].draft = sender[t].draft => s = t
  /\ \A s \in Sender : At(s, "claimed") => delivered[sender[s].draft] = 0
  /\ \A s \in Sender : At(s, "accepted") => delivered[sender[s].draft] = 1
  /\ \A d \in Draft : delivered[d] <= 1
  /\ \A d \in Draft : delivered[d] > 0 => InState(d, {"sending", "sent"})
  /\ \A d \in Draft : InState(d, {"sent"}) => delivered[d] = 1

Locked == {"sending", "sent"}

LEMMA SendInit == Init => SendInv
BY DEF Init, SendInv, Owns, At, Idle, InState, Known

LEMMA LineElsewhere ==
  ASSUME TypeOK, NEW d \in Draft, NEW e \in Draft, InState(d, Locked), ~InState(e, Locked),
         NEW r, WriteOrTear(Line(e, r))
  PROVE  log'[d] = log[d]
<1>1. e # d
  OBVIOUS
<1> QED BY <1>1, Writing DEF Line, TypeOK

LEMMA LinesElsewhere ==
  ASSUME TypeOK, NEW d \in Draft, InState(d, Locked),
         NEW ds \in SUBSET Draft, \A e \in ds : InState(e, Live),
         NEW part \in SUBSET ds, WriteOrTear(Lines(part, "expired"))
  PROVE  log'[d] = log[d]
<1>1. d \notin part
  BY DEF InState, Live, Locked
<1> QED BY <1>1, Writing DEF Lines

LEMMA ExpireDueElsewhere ==
  ASSUME TypeOK, NEW d \in Draft, InState(d, Locked), NEW e \in Draft, ExpireDue(e)
  PROVE  log'[d] = log[d]
<1>1. ~InState(e, Locked)
  BY DEF ExpireDue, Due, InState, Live, Locked
<1> QED BY <1>1, LineElsewhere DEF ExpireDue

\* Only the process that owns a locked draft writes about it.
LEMMA LockedStays ==
  ASSUME TypeOK, SendersHaveDrafts, [Next]_vars, NEW d \in Draft, InState(d, Locked),
         ~\E s \in Sender : RecordDelivery(s) /\ sender[s].draft = d
  PROVE  log'[d] = log[d]
<1>0. \A e \in Draft : InState(e, Live) \/ InState(e, {"pending"}) \/ InState(e, {"approved"})
                       \/ ~Known(e) => ~InState(e, Locked)
  BY DEF InState, Live, Locked
<1>1. ASSUME NEW key \in Key \cup {NoKey}, NEW now \in 0..clock, CreateDraft(key, now)
      PROVE  log'[d] = log[d]
  <2>1. CASE \E e \in Holders(key) : ExpireDue(e)
    BY <2>1, ExpireDueElsewhere DEF Holders
  <2>2. CASE ~\E e \in Holders(key) : ExpireDue(e)
    <3>1. PICK e \in Draft : ~Known(e) /\ \E r : WriteOrTear(Line(e, r))
      BY <1>1, <2>2 DEF CreateDraft
    <3> QED BY <3>1, <1>0, LineElsewhere
  <2> QED BY <2>1, <2>2
<1>2. ASSUME NEW e \in Draft, Get(e) \/ Approve(e)
      PROVE  log'[d] = log[d]
  <2>1. CASE ExpireDue(e)
    BY <2>1, ExpireDueElsewhere
  <2>2. CASE ~ExpireDue(e)
    <3>1. InState(e, {"pending"}) /\ \E r : WriteOrTear(Line(e, r))
      BY <1>2, <2>2 DEF Get, Approve
    <3> QED BY <3>1, <1>0, LineElsewhere
  <2> QED BY <2>1, <2>2
<1>3. ASSUME NEW e \in Draft, NEW state \in {"rejected", "expired"}, Finish(e, state)
      PROVE  log'[d] = log[d]
  <2>1. CASE ExpireDue(e)
    BY <2>1, ExpireDueElsewhere
  <2>2. CASE ~ExpireDue(e)
    <3>1. InState(e, Live) /\ \E r : WriteOrTear(Line(e, r))
      BY <1>3, <2>2 DEF Finish
    <3> QED BY <3>1, <1>0, LineElsewhere
  <2> QED BY <2>1, <2>2
<1>4. ASSUME ListPending
      PROVE  log'[d] = log[d]
  <2> DEFINE ds == {e \in Draft : Due(e)}
  <2>1. ds \in SUBSET Draft /\ \A e \in ds : InState(e, Live)
    BY DEF Due
  <2>2. \E part \in SUBSET ds : WriteOrTear(Lines(part, "expired"))
    BY <1>4 DEF ListPending, WriteOrTear
  <2> HIDE DEF ds
  <2> QED BY <2>1, <2>2, LinesElsewhere
<1>5. ASSUME NEW keys \in SUBSET Key, ExpireIdempotencyPrefixes(keys)
      PROVE  log'[d] = log[d]
  <2> DEFINE ds == {e \in Draft : InState(e, Live) /\ Last(e).key \in keys}
  <2>1. ds \in SUBSET Draft /\ \A e \in ds : InState(e, Live)
    OBVIOUS
  <2>2. \E part \in SUBSET ds : WriteOrTear(Lines(part, "expired"))
    BY <1>5 DEF ExpireIdempotencyPrefixes, WriteOrTear
  <2> HIDE DEF ds
  <2> QED BY <2>1, <2>2, LinesElsewhere
<1>6. ASSUME NEW s \in Sender, NEW e \in Draft, SendGet(s, e)
      PROVE  log'[d] = log[d]
  <2>1. CASE log' = log
    BY <2>1
  <2>2. CASE log' # log
    <3>1. ExpireDue(e)
      BY <1>6, <2>2 DEF SendGet, ExpireDue, WriteOrTear
    <3> QED BY <3>1, ExpireDueElsewhere
  <2> QED BY <2>1, <2>2
<1>7. ASSUME NEW s \in Sender, ClaimSend(s)
      PROVE  log'[d] = log[d]
  <2> DEFINE e == sender[s].draft
  <2>0. e \in Draft
    BY <1>7, SenderDraft DEF ClaimSend, At
  <2>1. CASE log' = log
    BY <2>1
  <2>2. CASE log' # log
    <3>1. ExpireDue(e) \/ (Claimable(e) /\ \E r : WriteOrTear(Line(e, r)))
      BY <1>7, <2>2 DEF ClaimSend, WriteOrTear
    <3>2. Claimable(e) => ~InState(e, Locked)
      BY <1>0, <2>0 DEF Claimable
    <3> QED BY <2>0, <3>1, <3>2, ExpireDueElsewhere, LineElsewhere
  <2> QED BY <2>1, <2>2
<1>8. ASSUME NEW s \in Sender, RecordDelivery(s)
      PROVE  log'[d] = log[d]
  <2> DEFINE e == sender[s].draft
  <2>1. e # d /\ e \in Draft
    BY <1>8, SenderDraft DEF RecordDelivery, At
  <2>2. log' = log \/ \E r : WriteOrTear(Line(e, r))
    BY <1>8 DEF RecordDelivery
  <2> QED BY <2>1, <2>2, Writing DEF Line, TypeOK
<1>9. ASSUME UNCHANGED log
      PROVE  log'[d] = log[d]
  BY <1>9
<1> QED BY <1>1, <1>2, <1>3, <1>4, <1>5, <1>6, <1>7, <1>8, <1>9
        DEF Next, vars, Transport, Crash, Tick, ChangeOwner, EditByHand

\* A step that records no outcome keeps what is locked, and makes nothing "sent".
LEMMA Quiet ==
  ASSUME TypeOK, SendersHaveDrafts, [Next]_vars, ~\E s \in Sender : RecordDelivery(s)
  PROVE  /\ \A d \in Draft : InState(d, Locked) => log'[d] = log[d]
         /\ \A d \in Draft : InState(d, {"sent"})' => InState(d, {"sent"})
<1>1. \A d \in Draft : InState(d, Locked) => log'[d] = log[d]
  BY LockedStays
<1>2. ASSUME NEW d \in Draft, InState(d, {"sent"})'
      PROVE  InState(d, {"sent"})
  <2>1. CASE log'[d] = log[d]
    BY <1>2, <2>1 DEF InState, Known, Last
  <2>2. CASE log'[d] # log[d]
    <3>1. ~InState(d, Locked)
      BY <1>1, <2>2
    <3>2. PICK r \in Record : Follows(d, r) /\ log'[d] = Append(log[d], r)
      BY <2>2, Growth DEF LogGrows, Grows
    <3>3. Last(d)' = r
      <4>1. log[d] \in Seq(Record)
        BY DEF TypeOK
      <4> QED BY <3>2, <4>1 DEF Last
    <3>4. r.state = "sent"
      BY <1>2, <3>3 DEF InState
    <3>5. Known(d) /\ Last(d).state = "sending"
      BY <3>2, <3>4 DEF Follows, AllowedNext
    <3> QED BY <3>1, <3>5 DEF InState, Locked
  <2> QED BY <2>1, <2>2
<1> QED BY <1>1, <1>2

\* What is in a state stays in it while its history is the same.
LEMMA SameState ==
  ASSUME NEW d, log'[d] = log[d], NEW states
  PROVE  InState(d, states)' <=> InState(d, states)
BY DEF InState, Known, Last

Keeps(d) ==
  /\ InState(d, {"sending"})' <=> InState(d, {"sending"})
  /\ InState(d, {"sent"})' <=> InState(d, {"sent"})
  /\ InState(d, {"sending", "sent"})' <=> InState(d, {"sending", "sent"})

LEMMA Keeping ==
  ASSUME NEW d, log'[d] = log[d]
  PROVE  Keeps(d)
BY SameState DEF Keeps

LEMMA AppendState ==
  ASSUME TypeOK, NEW d \in Draft, NEW r \in Record, log'[d] = Append(log[d], r), NEW states
  PROVE  InState(d, states)' <=> r.state \in states
<1>1. log[d] \in Seq(Record)
  BY DEF TypeOK
<1>2. log'[d] # <<>> /\ log'[d][Len(log'[d])] = r
  BY <1>1
<1> QED BY <1>2 DEF InState, Known, Last

\* Steps in which no sender moves past its claim.
LEMMA SendQuiet ==
  ASSUME TypeOK, SendersHaveDrafts, SendInv, [Next]_vars, ~\E s \in Sender : RecordDelivery(s),
         delivered' = delivered,
         \A s \in Sender : Owns(s)' => sender'[s] = sender[s]
  PROVE  SendInv'
<1>1. \A s \in Sender : Owns(s)' => Owns(s)
  BY DEF Owns
<1>2. \A s \in Sender : Owns(s) => sender[s].draft \in Draft
  BY DEF Owns, SendersHaveDrafts
<1>3. \A d \in Draft, states \in SUBSET Locked :
        InState(d, states) => InState(d, states)'
  <2> SUFFICES ASSUME NEW d \in Draft, NEW states \in SUBSET Locked, InState(d, states)
               PROVE  InState(d, states)'
    OBVIOUS
  <2>1. log'[d] = log[d]
    BY Quiet DEF InState
  <2> QED BY <2>1, SameState
<1>4. {"sending"} \in SUBSET Locked /\ {"sending", "sent"} \in SUBSET Locked
  BY DEF Locked
<1>5. ASSUME NEW s \in Sender, Owns(s)'
      PROVE  InState(sender[s].draft, {"sending"})'
  <2>1. PICK d \in Draft : d = sender[s].draft /\ d = sender'[s].draft /\ Owns(s)
    BY <1>1, <1>2, <1>5
  <2>2. InState(d, {"sending"})
    BY <2>1 DEF SendInv
  <2>3. InState(d, {"sending"})'
    BY <1>3, <1>4, <2>2
  <2> QED BY <2>1, <2>3
<1>6. \A s, t \in Sender : Owns(s)' /\ Owns(t)' /\ sender'[s].draft = sender'[t].draft => s = t
  BY <1>1 DEF SendInv
<1>7. /\ \A s \in Sender : At(s, "claimed")' => delivered'[sender'[s].draft] = 0
      /\ \A s \in Sender : At(s, "accepted")' => delivered'[sender'[s].draft] = 1
  BY DEF SendInv, At, Owns
<1>8. /\ \A d \in Draft : delivered'[d] <= 1
      /\ \A d \in Draft : delivered'[d] > 0 => InState(d, {"sending", "sent"})'
      /\ \A d \in Draft : InState(d, {"sent"})' => delivered'[d] = 1
  BY <1>3, <1>4, Quiet DEF SendInv
<1> QED BY <1>5, <1>6, <1>7, <1>8 DEF SendInv

\* The claim: the draft was approved, so nobody owned it and it had not left.
LEMMA SendClaim ==
  ASSUME TypeOK, SendersHaveDrafts, SendInv, NEW s \in Sender, ClaimSend(s), [Next]_vars,
         sender' # [sender EXCEPT ![s] = Idle]
  PROVE  SendInv'
<1>0. PICK d \in Draft :
      /\ d = sender[s].draft /\ ~Owns(s)
      /\ sender \in [Sender -> [pc : {"idle", "got", "claimed", "accepted", "failed"},
                                draft : Draft \cup {NoDraft}]]
  BY SenderDraft DEF ClaimSend, At, Owns, TypeOK
<1>1. /\ Claimable(d) /\ Write(Line(d, Moved(d, "sending"))) /\ Goto(s, "claimed")
      /\ delivered' = delivered
  BY <1>0 DEF ClaimSend, Stop
<1>2. InState(d, {"approved"}) /\ ~InState(d, Locked)
  BY <1>1 DEF Claimable, InState, Locked
<1>3. sender'[s] = [pc |-> "claimed", draft |-> d] /\ \A t \in Sender \ {s} : sender'[t] = sender[t]
  BY <1>0, <1>1 DEF Goto
<1>4. delivered[d] = 0
  BY <1>0, <1>2 DEF SendInv, TypeOK, Locked
<1>5. \A t \in Sender : Owns(t) => sender[t].draft # d /\ sender[t].draft \in Draft
  BY <1>0, <1>2 DEF SendInv, SendersHaveDrafts, Owns, InState, Locked
<1>6. \A e \in Draft \ {d} : log'[e] = log[e]
  BY <1>1 DEF Write, Line, TypeOK
<1>7. InState(d, {"sending"})' /\ ~InState(d, {"sent"})'
  <2>1. Moved(d, "sending") \in Record /\ Moved(d, "sending").state = "sending"
    BY <1>0, <1>2, MovedFields DEF InState, State
  <2>2. log'[d] = Append(log[d], Moved(d, "sending"))
    BY <1>0, <1>1 DEF Write, Line, TypeOK
  <2> QED BY <2>1, <2>2, AppendState
<1>8. ASSUME NEW t \in Sender, Owns(t)'
      PROVE  InState(sender[t].draft, {"sending"})'
  <2>1. CASE t = s
    <3>1. sender'[t].draft = d
      BY <1>3, <2>1
    <3> QED BY <1>7, <3>1 DEF InState, Known, Last
  <2>2. CASE t # s
    <3>1. PICK e \in Draft : e = sender[t].draft /\ e = sender'[t].draft /\ e # d /\ Owns(t)
      BY <1>3, <1>5, <1>8, <2>2 DEF Owns
    <3>2. InState(e, {"sending"})
      BY <3>1 DEF SendInv
    <3>3. InState(e, {"sending"})'
      BY <1>6, <3>1, <3>2, Keeping DEF Keeps
    <3> QED BY <3>1, <3>3
  <2> QED BY <2>1, <2>2
<1>9. \A t, u \in Sender : Owns(t)' /\ Owns(u)' /\ sender'[t].draft = sender'[u].draft => t = u
  BY <1>3, <1>5 DEF SendInv, Owns
<1>10. /\ \A t \in Sender : At(t, "claimed")' => delivered'[sender'[t].draft] = 0
       /\ \A t \in Sender : At(t, "accepted")' => delivered'[sender'[t].draft] = 1
  BY <1>1, <1>3, <1>4 DEF SendInv, At
<1>11. /\ \A e \in Draft : delivered'[e] <= 1
       /\ \A e \in Draft : delivered'[e] > 0 => InState(e, {"sending", "sent"})'
       /\ \A e \in Draft : InState(e, {"sent"})' => delivered'[e] = 1
  <2>1. \A e \in Draft \ {d} : Keeps(e)
    BY <1>6, Keeping
  <2> QED BY <1>1, <1>4, <1>7, <2>1 DEF SendInv, Keeps
<1> QED BY <1>8, <1>9, <1>10, <1>11 DEF SendInv

\* The transport: only the owner's draft is counted, and it had not left.
LEMMA SendTransport ==
  ASSUME TypeOK, SendersHaveDrafts, SendInv, NEW s \in Sender, Transport(s)
  PROVE  SendInv'
<1>0. PICK d \in Draft :
      /\ d = sender[s].draft /\ Owns(s) /\ At(s, "claimed")
      /\ delivered \in [Draft -> Nat]
      /\ sender \in [Sender -> [pc : {"idle", "got", "claimed", "accepted", "failed"},
                                draft : Draft \cup {NoDraft}]]
  BY SenderDraft DEF Transport, At, Owns, TypeOK
<1>1. log' = log /\ delivered[d] = 0 /\ InState(d, {"sending"})
  BY <1>0 DEF Transport, SendInv
<1>2. PICK pc \in {"accepted", "failed"} :
        /\ sender' = [sender EXCEPT ![s].pc = pc]
        /\ \/ delivered' = [delivered EXCEPT ![d] = @ + 1]
           \/ pc = "failed" /\ delivered' = delivered
  BY <1>0 DEF Transport, Goto
<1>3. sender'[s] = [pc |-> pc, draft |-> d] /\ \A t \in Sender \ {s} : sender'[t] = sender[t]
  BY <1>0, <1>2
<1>4. \A e \in Draft : Keeps(e)
  BY <1>1, Keeping
<1>5. \A t \in Sender \ {s} : Owns(t) => sender[t].draft # d /\ sender[t].draft \in Draft
  BY <1>0 DEF SendInv, SendersHaveDrafts, Owns
<1>6. (\A e \in Draft \ {d} : delivered'[e] = delivered[e]) /\ delivered'[d] \in {0, 1}
      /\ (pc = "accepted" => delivered'[d] = 1)
  BY <1>0, <1>1, <1>2
<1>7. ASSUME NEW t \in Sender, Owns(t)'
      PROVE  InState(sender[t].draft, {"sending"})'
  <2>1. PICK e \in Draft : e = sender[t].draft /\ e = sender'[t].draft /\ Owns(t)
    BY <1>0, <1>3, <1>5, <1>7 DEF Owns
  <2>2. InState(e, {"sending"})'
    BY <1>4, <2>1 DEF SendInv, Keeps
  <2> QED BY <2>1, <2>2
<1>8. \A t, u \in Sender : Owns(t)' /\ Owns(u)' /\ sender'[t].draft = sender'[u].draft => t = u
  BY <1>3, <1>5 DEF SendInv, Owns
<1>9. /\ \A t \in Sender : At(t, "claimed")' => delivered'[sender'[t].draft] = 0
      /\ \A t \in Sender : At(t, "accepted")' => delivered'[sender'[t].draft] = 1
  BY <1>3, <1>5, <1>6 DEF SendInv, At, Owns
<1>10. /\ \A e \in Draft : delivered'[e] <= 1
       /\ \A e \in Draft : delivered'[e] > 0 => InState(e, {"sending", "sent"})'
       /\ \A e \in Draft : InState(e, {"sent"})' => delivered'[e] = 1
  <2>1. InState(d, {"sending", "sent"}) /\ ~InState(d, {"sent"})
    BY <1>1 DEF InState
  <2> QED BY <1>0, <1>4, <1>6, <2>1 DEF SendInv, Keeps
<1> QED BY <1>7, <1>8, <1>9, <1>10 DEF SendInv

\* The outcome: the process lets go of a draft nobody else owns.
LEMMA SendRecord ==
  ASSUME TypeOK, SendersHaveDrafts, SendInv, NEW s \in Sender, RecordDelivery(s)
  PROVE  SendInv'
<1>0. PICK d \in Draft :
      /\ d = sender[s].draft /\ Owns(s)
      /\ sender \in [Sender -> [pc : {"idle", "got", "claimed", "accepted", "failed"},
                                draft : Draft \cup {NoDraft}]]
  BY SenderDraft DEF RecordDelivery, At, Owns, TypeOK
<1>1. InState(d, {"sending"}) /\ delivered' = delivered
  BY <1>0 DEF RecordDelivery, SendInv
<1>2. ~Owns(s)' /\ \A t \in Sender \ {s} : sender'[t] = sender[t]
  BY <1>0 DEF RecordDelivery, Stop, Idle, Owns
<1>3. \A t \in Sender \ {s} : Owns(t) => sender[t].draft # d /\ sender[t].draft \in Draft
  BY <1>0 DEF SendInv, SendersHaveDrafts, Owns
<1>4. \A e \in Draft \ {d} : log'[e] = log[e]
  BY <1>0, Writing DEF RecordDelivery, Line, TypeOK
<1>5. \A e \in Draft \ {d} : Keeps(e)
  BY <1>4, Keeping
<1>6. InState(d, {"sending", "sent"})' /\ (InState(d, {"sent"})' => delivered[d] = 1)
  <2>1. CASE log' = log
    <3>1. Keeps(d)
      BY <2>1, Keeping
    <3>2. InState(d, {"sending", "sent"}) /\ ~InState(d, {"sent"})
      BY <1>1 DEF InState
    <3> QED BY <3>1, <3>2 DEF Keeps
  <2>2. CASE log' # log
    <3>1. log'[d] = Append(log[d], Moved(d, Outcome(s)))
      BY <1>0, <2>2, Writing DEF RecordDelivery, Line, TypeOK
    <3>2. /\ Known(d) /\ Outcome(s) \in {"sending", "sent"} /\ Outcome(s) \in State
          /\ Outcome(s) = "sent" => delivered[d] = 1
      BY <1>0, <1>1 DEF InState, Outcome, State, SendInv
    <3>3. Moved(d, Outcome(s)) \in Record /\ Moved(d, Outcome(s)).state = Outcome(s)
      BY <1>0, <3>2, MovedFields
    <3>4. /\ InState(d, {"sending", "sent"})' <=> Outcome(s) \in {"sending", "sent"}
          /\ InState(d, {"sent"})' <=> Outcome(s) \in {"sent"}
      BY <3>1, <3>3, AppendState
    <3>5. Outcome(s) \in {"sent"} => delivered[d] = 1
      BY <3>2
    <3> QED BY <3>2, <3>4, <3>5
  <2> QED BY <2>1, <2>2
<1>7. ASSUME NEW t \in Sender, Owns(t)'
      PROVE  InState(sender[t].draft, {"sending"})'
  <2>1. PICK e \in Draft \ {d} : e = sender[t].draft /\ e = sender'[t].draft /\ Owns(t)
    BY <1>2, <1>3, <1>7 DEF Owns
  <2>2. InState(e, {"sending"})'
    BY <1>5, <2>1 DEF SendInv, Keeps
  <2> QED BY <2>1, <2>2
<1>8. \A t, u \in Sender : Owns(t)' /\ Owns(u)' /\ sender'[t].draft = sender'[u].draft => t = u
  BY <1>2 DEF SendInv, Owns
<1>9. /\ \A t \in Sender : At(t, "claimed")' => delivered'[sender'[t].draft] = 0
      /\ \A t \in Sender : At(t, "accepted")' => delivered'[sender'[t].draft] = 1
  BY <1>1, <1>2 DEF SendInv, At, Owns
<1>10. /\ \A e \in Draft : delivered'[e] <= 1
       /\ \A e \in Draft : delivered'[e] > 0 => InState(e, {"sending", "sent"})'
       /\ \A e \in Draft : InState(e, {"sent"})' => delivered'[e] = 1
  BY <1>1, <1>5, <1>6 DEF SendInv, Keeps
<1> QED BY <1>7, <1>8, <1>9, <1>10 DEF SendInv

LEMMA SendStep ==
  ASSUME TypeOK, SendersHaveDrafts, SendInv, [Next]_vars
  PROVE  SendInv'
<1>1. ASSUME NEW s \in Sender, Transport(s)
      PROVE  SendInv'
  BY <1>1, SendTransport
<1>2. ASSUME NEW s \in Sender, RecordDelivery(s)
      PROVE  SendInv'
  BY <1>2, SendRecord
<1>3. ASSUME NEW s \in Sender, ClaimSend(s), sender' # [sender EXCEPT ![s] = Idle]
      PROVE  SendInv'
  BY <1>3, SendClaim
<1>4. ASSUME ~\E s \in Sender : RecordDelivery(s),
             delivered' = delivered,
             \A s \in Sender : Owns(s)' => sender'[s] = sender[s]
      PROVE  SendInv'
  BY <1>4, SendQuiet
<1>5. ASSUME NEW s \in Sender,
             sender' = [sender EXCEPT ![s] = Idle]
             \/ \E d \in Draft : sender' = [sender EXCEPT ![s] = [pc |-> "got", draft |-> d]]
             \/ sender' = sender
      PROVE  \A t \in Sender : Owns(t)' => sender'[t] = sender[t]
  BY <1>5 DEF TypeOK, Owns, Idle
<1>6. ASSUME NEW s \in Sender, ClaimSend(s) \/ Crash(s) \/ \E d \in Draft : SendGet(s, d)
      PROVE  /\ delivered' = delivered
             /\ \/ sender' = [sender EXCEPT ![s] = Idle]
                \/ \E d \in Draft : sender' = [sender EXCEPT ![s] = [pc |-> "got", draft |-> d]]
                \/ sender' = sender
                \/ ClaimSend(s) /\ sender' # [sender EXCEPT ![s] = Idle]
  BY <1>6 DEF ClaimSend, Crash, SendGet, Stop
<1>7. CASE \E s \in Sender : RecordDelivery(s)
  BY <1>2, <1>7
<1>8. CASE ~\E s \in Sender : RecordDelivery(s)
  <2>1. ASSUME NEW s \in Sender, ClaimSend(s) \/ Crash(s) \/ \E d \in Draft : SendGet(s, d)
        PROVE  SendInv'
    BY <1>3, <1>4, <1>5, <1>6, <1>8, <2>1
  <2>2. CASE UNCHANGED <<sender, delivered>>
    BY <1>4, <1>8, <2>2
  <2>3. CASE UNCHANGED vars
    BY <2>2, <2>3 DEF vars
  <2> QED BY <1>1, <1>8, <2>1, <2>2, <2>3, StepKinds
<1> QED BY <1>7, <1>8

-----------------------------------------------------------------------------
(* The results.                                                            *)

\* The inductive invariant: types, what each history looks like, and who may
\* still deliver.
LedgerInv == TypeOK /\ SendersHaveDrafts /\ HistoryInv /\ SendInv

THEOREM LedgerInvariance == Spec => []LedgerInv
<1>1. Init => LedgerInv
  BY TypeInit, HistoryInit, SendInit DEF LedgerInv
<1>2. LedgerInv /\ [Next]_vars => LedgerInv'
  BY TypeStep, HistoryStep, SendStep DEF LedgerInv
<1> QED BY <1>1, <1>2, PTL DEF Spec

\* No draft is delivered twice, for any number of drafts and senders, any
\* crashes, torn lines and lost outcomes.
THEOREM AtMostOnceTheorem == Spec => []AtMostOnce
<1>1. LedgerInv => AtMostOnce
  BY DEF LedgerInv, SendInv, AtMostOnce
<1> QED BY <1>1, LedgerInvariance, PTL

\* "sent" in the journal is never written for a message that did not leave.
THEOREM ReceiptTheorem == Spec => []SentWasDelivered
<1>1. LedgerInv => SentWasDelivered
  BY DEF LedgerInv, SendInv, SentWasDelivered
<1> QED BY <1>1, LedgerInvariance, PTL

\* Whatever was delivered had been approved by the human and claimed in time,
\* and was neither rejected nor expired.
THEOREM AuthorisedTheorem == Spec => []DeliveryAuthorised
<1>1. LedgerInv => DeliveryAuthorised
  <2> SUFFICES ASSUME LedgerInv, NEW d \in Draft, delivered[d] > 0
               PROVE  /\ Authorised(d)
                      /\ \A i \in 1..Len(log[d]) : log[d][i].state \notin {"rejected", "expired"}
    BY DEF DeliveryAuthorised, Authorised
  <2>1. InState(d, {"sending", "sent"}) /\ Authorised(d) /\ DeadIsLast(d)
    BY DEF LedgerInv, SendInv, HistoryInv
  <2> QED BY <2>1 DEF DeadIsLast, InState, Last
<1> QED BY <1>1, LedgerInvariance, PTL

-----------------------------------------------------------------------------
(* One draft for one idempotency key.                                      *)

LEMMA AppendKey ==
  ASSUME TypeOK, NEW d \in Draft, NEW r \in Record, log'[d] = Append(log[d], r)
  PROVE  Known(d)' /\ Last(d)' = r
<1>1. log[d] \in Seq(Record)
  BY DEF TypeOK
<1> QED BY <1>1 DEF Known, Last

LEMMA SameKey ==
  ASSUME NEW d, log'[d] = log[d]
  PROVE  (Known(d)' <=> Known(d)) /\ Last(d)' = Last(d)
BY DEF Known, Last

LEMMA KeyStep ==
  ASSUME TypeOK, SendersHaveDrafts, OneDraftPerKey, [Next]_vars
  PROVE  OneDraftPerKey'
<1> SUFFICES ASSUME NEW d \in Draft, NEW e \in Draft, Known(d)', Known(e)',
                    Last(d)'.key = Last(e)'.key, Last(d)'.key # NoKey
             PROVE  d = e
  BY DEF OneDraftPerKey
<1>1. CASE log' = log
  BY <1>1, SameKey DEF OneDraftPerKey
<1>2. CASE LineStep
  <2>1. PICK w \in Draft, r \in Record : Follows(w, r) /\ log' = Line(w, r)
    BY <1>2 DEF LineStep
  <2>2. Known(w)' /\ Last(w)' = r
    <3>1. log'[w] = Append(log[w], r)
      BY <2>1 DEF Line, TypeOK
    <3> QED BY <3>1, AppendKey
  <2>3. \A x \in Draft \ {w} : (Known(x)' <=> Known(x)) /\ Last(x)' = Last(x)
    <3>1. \A x \in Draft \ {w} : log'[x] = log[x]
      BY <2>1 DEF Line, TypeOK
    <3> QED BY <3>1, SameKey
  <2>4. \A x \in Draft \ {w} : Known(x) /\ Last(x).key # NoKey => Last(x).key # r.key
    BY <2>1 DEF Follows, SameDigest, OneDraftPerKey
  <2> QED BY <2>2, <2>3, <2>4 DEF OneDraftPerKey
<1>3. CASE LinesStep
  <2>1. PICK ds \in SUBSET Draft : (\A x \in ds : InState(x, Live)) /\ log' = Lines(ds, "expired")
    BY <1>3 DEF LinesStep
  <2>2. ASSUME NEW x \in Draft
        PROVE  (Known(x)' <=> Known(x)) /\ Last(x)'.key = Last(x).key
    <3>1. CASE x \in ds
      <4>1. Known(x) /\ Moved(x, "expired") \in Record /\ Moved(x, "expired").key = Last(x).key
        BY <2>1, <3>1, MovedFields DEF InState, State, SameDigest
      <4>2. log'[x] = Append(log[x], Moved(x, "expired"))
        BY <2>1, <3>1 DEF Lines
      <4> QED BY <4>1, <4>2, AppendKey
    <3>2. CASE x \notin ds
      BY <2>1, <3>2, SameKey DEF Lines
    <3> QED BY <3>1, <3>2
  <2> QED BY <2>2 DEF OneDraftPerKey
<1> QED BY <1>1, <1>2, <1>3, LogStep DEF Step

\* However often a caller retries with a key, and whatever became of the first
\* draft, the key has one draft.
THEOREM OneDraftTheorem == Spec => []OneDraftPerKey
<1>1. Init => OneDraftPerKey
  BY DEF Init, OneDraftPerKey, Known
<1>2. LedgerInv /\ OneDraftPerKey /\ [Next]_vars => OneDraftPerKey'
  BY KeyStep DEF LedgerInv
<1> QED BY <1>1, <1>2, LedgerInvariance, PTL DEF Spec
-----------------------------------------------------------------------------
(* The refinement.                                                         *)

\* The stage a record's state stands for.
StageNamed(state) ==
  CASE state \in {"rejected", "expired"} -> "dead"
    [] state = "sending"                 -> "claimed"
    [] OTHER                             -> state

Stages == [d \in Draft |-> StageOf(d)]

LEMMA StageUnknown ==
  ASSUME NEW d, ~Known(d)
  PROVE  StageOf(d) = "none"
BY DEF StageOf, InState

LEMMA StageKnown ==
  ASSUME NEW d, Known(d)
  PROVE  StageOf(d) = StageNamed(Last(d).state)
BY DEF StageOf, StageNamed, InState

LEMMA StageSame ==
  ASSUME NEW d, log'[d] = log[d]
  PROVE  StageOf(d)' = StageOf(d)
BY DEF StageOf, InState, Known, Last

LEMMA StageAppended ==
  ASSUME TypeOK, NEW d \in Draft, NEW r \in Record, log'[d] = Append(log[d], r)
  PROVE  StageOf(d)' = StageNamed(r.state)
<1>1. Known(d)' /\ Last(d)' = r
  BY AppendKey
<1> QED BY <1>1 DEF StageOf, StageNamed, InState

\* One line: its draft's stage moves as one action of GatedSend, or not at all
\* (a recorded failure leaves the claim as it is).
LEMMA LineMaps ==
  ASSUME TypeOK, SendInv, LineStep, delivered' = delivered
  PROVE  [Gate!Next]_(Gate!vars)
<1>1. PICK d \in Draft, r \in Record :
        /\ Follows(d, r) /\ log' = Line(d, r)
        /\ r.state = "sent" => \E s \in Sender : At(s, "accepted") /\ sender[s].draft = d
  BY DEF LineStep
<1>2. StageOf(d)' = StageNamed(r.state)
  <2>1. log'[d] = Append(log[d], r)
    BY <1>1 DEF Line, TypeOK
  <2> QED BY <2>1, StageAppended
<1>3. \A e \in Draft \ {d} : StageOf(e)' = StageOf(e)
  <2>1. \A e \in Draft \ {d} : log'[e] = log[e]
    BY <1>1 DEF Line, TypeOK
  <2> QED BY <2>1, StageSame
<1>4. Stages' = [Stages EXCEPT ![d] = StageNamed(r.state)]
  BY <1>2, <1>3 DEF Stages
<1>5. Stages[d] = StageOf(d)
  BY DEF Stages
<1>6. CASE ~Known(d)
  <2>1. Stages[d] = "none" /\ StageNamed(r.state) = "pending"
    BY <1>1, <1>5, <1>6, StageUnknown DEF StageNamed, Follows
  <2>2. Gate!Propose(d)
    BY <1>4, <2>1 DEF Gate!Propose, Gate!Advance, Stages
  <2> QED BY <2>2 DEF Gate!Next
<1>7. CASE Known(d)
  <2>1. r.state \in AllowedNext(Last(d).state) /\ Stages[d] = StageNamed(Last(d).state)
    BY <1>1, <1>5, <1>7, StageKnown DEF Follows
  <2>2. CASE Last(d).state = "pending" /\ r.state = "approved"
    <3>1. Stages[d] = "pending" /\ StageNamed(r.state) = "approved"
      BY <2>1, <2>2 DEF StageNamed
    <3>2. Gate!Approve(d)
      BY <1>4, <3>1 DEF Gate!Approve, Gate!Advance, Stages
    <3> QED BY <3>2 DEF Gate!Next
  <2>3. CASE Last(d).state \in Live /\ r.state \in {"rejected", "expired"}
    <3>1. Stages[d] \in {"pending", "approved"} /\ StageNamed(r.state) = "dead"
      BY <2>1, <2>3 DEF StageNamed, Live
    <3>2. Stages' = [e \in Draft |-> IF e \in {d} THEN "dead" ELSE Stages[e]]
      BY <1>4, <3>1 DEF Stages
    <3>3. Gate!Withdraw({d})
      BY <3>1, <3>2 DEF Gate!Withdraw, Stages
    <3> QED BY <3>3 DEF Gate!Next
  <2>4. CASE Last(d).state = "approved" /\ r.state = "sending"
    <3>1. Stages[d] = "approved" /\ StageNamed(r.state) = "claimed"
      BY <2>1, <2>4 DEF StageNamed
    <3>2. Gate!Claim(d)
      BY <1>4, <3>1 DEF Gate!Claim, Gate!Advance, Stages
    <3> QED BY <3>2 DEF Gate!Next
  <2>5. CASE Last(d).state = "sending" /\ r.state = "sending"
    <3>1. Stages' = Stages
      BY <1>4, <2>1, <2>5 DEF Stages
    <3> QED BY <3>1 DEF Gate!vars, Stages
  <2>6. CASE Last(d).state = "sending" /\ r.state = "sent"
    <3>1. Stages[d] = "claimed" /\ StageNamed(r.state) = "sent"
      BY <2>1, <2>6 DEF StageNamed
    <3>2. delivered[d] = 1
      BY <1>1, <2>6 DEF SendInv
    <3>3. Gate!Confirm(d)
      BY <1>4, <3>1, <3>2 DEF Gate!Confirm, Gate!Advance, Stages
    <3> QED BY <3>3 DEF Gate!Next
  <2> QED BY <2>1, <2>2, <2>3, <2>4, <2>5, <2>6 DEF AllowedNext, Live
<1> QED BY <1>6, <1>7

\* A bulk expiry withdraws its drafts.
LEMMA LinesMap ==
  ASSUME TypeOK, LinesStep, delivered' = delivered
  PROVE  [Gate!Next]_(Gate!vars)
<1>1. PICK ds \in SUBSET Draft : (\A d \in ds : InState(d, Live)) /\ log' = Lines(ds, "expired")
  BY DEF LinesStep
<1>2. \A d \in ds : Stages[d] \in {"pending", "approved"}
  BY <1>1, StageKnown DEF Stages, InState, Live, StageNamed
<1>3. ASSUME NEW d \in ds
      PROVE  StageOf(d)' = "dead"
  <2>1. /\ Moved(d, "expired") \in Record /\ Moved(d, "expired").state = "expired"
        /\ log'[d] = Append(log[d], Moved(d, "expired"))
    BY <1>1, MovedFields DEF Lines, InState, State
  <2> QED BY <2>1, StageAppended DEF StageNamed
<1>4. \A d \in Draft \ ds : StageOf(d)' = StageOf(d)
  BY <1>1, StageSame DEF Lines
<1>5. Stages' = [d \in Draft |-> IF d \in ds THEN "dead" ELSE Stages[d]]
  BY <1>3, <1>4 DEF Stages
<1>6. Gate!Withdraw(ds)
  BY <1>2, <1>5 DEF Gate!Withdraw, Stages
<1> QED BY <1>6 DEF Gate!Next

\* The transport takes a claimed message that had not left, or nothing.
LEMMA TransportMaps ==
  ASSUME TypeOK, SendersHaveDrafts, SendInv, NEW s \in Sender, Transport(s)
  PROVE  [Gate!Next]_(Gate!vars)
<1> DEFINE d == sender[s].draft
<1>1. Stages' = Stages
  BY StageSame DEF Transport, Stages
<1>2. CASE delivered' = delivered
  BY <1>1, <1>2 DEF Gate!vars, Stages
<1>3. CASE delivered' # delivered
  <2>1. d \in Draft /\ delivered[d] = 0 /\ InState(d, {"sending"})
    BY SenderDraft DEF Transport, At, SendInv, Owns
  <2>2. delivered' = [delivered EXCEPT ![d] = 1]
    BY <1>3, <2>1 DEF Transport, TypeOK
  <2>3. Stages[d] = "claimed"
    BY <2>1, StageKnown DEF Stages, InState, StageNamed
  <2>4. Gate!Leave(d)
    BY <1>1, <2>1, <2>2, <2>3 DEF Gate!Leave, Stages
  <2> QED BY <2>1, <2>4 DEF Gate!Next
<1> QED BY <1>2, <1>3

\* Only the transport counts a delivery.
LEMMA OnlyTransportDelivers ==
  ASSUME TypeOK, [Next]_vars, ~\E s \in Sender : Transport(s)
  PROVE  delivered' = delivered
BY StepKinds DEF SendGet, ClaimSend, RecordDelivery, Crash, vars

\* The ledger and its senders implement GatedSend: a draft's stage is its last
\* record's state, and the outbox is what the transport took.
THEOREM RefinementTheorem == Spec => ImplementsGatedSend
<1>1. Init => Gate!Init
  <2> SUFFICES ASSUME Init
               PROVE  Gate!Init
    OBVIOUS
  <2>1. \A d \in Draft : StageOf(d) = "none"
    BY StageUnknown DEF Init, Known
  <2> QED BY <2>1 DEF Init, Gate!Init
<1>2. LedgerInv /\ [Next]_vars => [Gate!Next]_(Gate!vars)
  <2> SUFFICES ASSUME LedgerInv, [Next]_vars
               PROVE  [Gate!Next]_(Gate!vars)
    OBVIOUS
  <2>1. TypeOK /\ SendersHaveDrafts /\ SendInv
    BY DEF LedgerInv
  <2>2. CASE \E s \in Sender : Transport(s)
    BY <2>1, <2>2, TransportMaps
  <2>3. CASE ~\E s \in Sender : Transport(s)
    <3>1. delivered' = delivered
      BY <2>1, <2>3, OnlyTransportDelivers
    <3>2. CASE log' = log
      <4>1. Stages' = Stages
        BY <3>2, StageSame DEF Stages
      <4> QED BY <3>1, <4>1 DEF Gate!vars, Stages
    <3> QED BY <2>1, <3>1, <3>2, LineMaps, LinesMap, LogStep DEF Step
  <2> QED BY <2>2, <2>3
<1> QED BY <1>1, <1>2, LedgerInvariance, PTL DEF Spec, ImplementsGatedSend, Gate!Spec
=============================================================================
