--------------------------- MODULE ApprovalLedger ---------------------------
(***************************************************************************)
(* The approval journal (safety/approval.py) and the operator's sender     *)
(* (email/send.py, scripts/send_approved.py).                              *)
(*                                                                         *)
(* The journal is one append-only JSON-lines file.  Every operation takes  *)
(* an exclusive lock, replays the whole file, decides, appends and fsyncs, *)
(* so an operation is one step here; what can be seen between steps is a   *)
(* crash.  log[d] is the sequence of lines of draft d, each a full record, *)
(* and tail says in what state the end of the file is.  Only the order of  *)
(* one draft's lines matters to the replay, so the order between drafts is *)
(* not kept.                                                               *)
(*                                                                         *)
(* A sender is not one step: it reads the draft, claims it, hands the      *)
(* message to the transport and records the outcome, and it may crash      *)
(* between any two of these.                                               *)
(***************************************************************************)
EXTENDS Integers, Sequences

CONSTANTS
  Draft,      \* the ids drafts can get
  Key,        \* idempotency keys callers may pass
  NoKey,      \* "no idempotency key"
  Address,    \* e-mail addresses the owner label may resolve to
  Sender,     \* processes that run send()
  NoDraft,    \* what an idle sender works on
  Ttl,        \* a draft's life: 24 hours in the code
  Window,     \* how long an approval may be claimed: 30 minutes in the code
  MaxClock,   \* bound on the clock, for model checking
  LockWait    \* bound on how stale create_draft's clock reading can be

ASSUME ConstantsAssumption ==
  /\ Ttl \in Nat \ {0}
  /\ Window \in Nat \ {0}
  /\ MaxClock \in Nat
  /\ LockWait \in Nat
  /\ NoKey \notin Key
  /\ NoDraft \notin Draft

VARIABLES
  log,        \* log[d]: the journal's lines about draft d, oldest first
  tail,       \* "clean", "open" (newline missing) or "bad" (does not replay)
  owner,      \* the address the owner label resolves to now
  clock,      \* wall clock, assumed not to step back
  sender,     \* sender[s]: where process s is in send(), and on which draft
  delivered   \* delivered[d]: messages the transport took for draft d

vars == <<log, tail, owner, clock, sender, delivered>>

NotYet == -1                       \* approved_at is None

State == {"pending", "approved", "rejected", "expired", "sending", "sent"}

\* One line: the full record, and the time the line was written ("at").
Record == [state : State, at : Nat, approvedAt : Nat \cup {NotYet}, expiresAt : Nat,
           key : Key \cup {NoKey}, recipient : Address]

Idle == [pc |-> "idle", draft |-> NoDraft]

TypeOK ==
  /\ log \in [Draft -> Seq(Record)]
  /\ tail \in {"clean", "open", "bad"}
  /\ owner \in Address
  /\ clock \in Nat
  /\ sender \in [Sender -> [pc : {"idle", "got", "claimed", "accepted", "failed"},
                            draft : Draft \cup {NoDraft}]]
  /\ delivered \in [Draft -> Nat]

Init ==
  /\ log = [d \in Draft |-> <<>>]
  /\ tail = "clean"
  /\ owner \in Address
  /\ clock = 0
  /\ sender = [s \in Sender |-> Idle]
  /\ delivered = [d \in Draft |-> 0]
-----------------------------------------------------------------------------
(* Replay.                                                                 *)

Known(d) == log[d] # <<>>
Last(d) == log[d][Len(log[d])]
InState(d, states) == Known(d) /\ Last(d).state \in states

\* The transitions the replay accepts.
AllowedNext(state) ==
  CASE state = "pending"  -> {"approved", "rejected", "expired"}
    [] state = "approved" -> {"sending", "rejected", "expired"}
    [] state = "sending"  -> {"sending", "sent"}
    [] OTHER              -> {}

\* The digest covers everything but the state and the approval time.
SameDigest(a, b) ==
  /\ a.expiresAt = b.expiresAt
  /\ a.key = b.key
  /\ a.recipient = b.recipient

LegalHistory(h) ==
  /\ h # <<>> => h[1].state = "pending"
  /\ \A i \in 2..Len(h) :
       /\ h[i].state \in AllowedNext(h[i-1].state)
       /\ SameDigest(h[i-1], h[i])
       /\ h[i-1].state # "pending" => h[i].approvedAt = h[i-1].approvedAt

\* Every operation replays first and refuses on a journal it cannot accept.
Replays == tail # "bad" /\ \A d \in Draft : LegalHistory(log[d])
-----------------------------------------------------------------------------
(* Appending.                                                              *)

\* Mutant: a record that changes state forgets its approval time.
MovedUnapproved(d, state) ==
  [Last(d) EXCEPT !.state = state, !.at = clock, !.approvedAt = NotYet]

\* The last record of d in a new state, as a line written now.
Moved(d, state) == [Last(d) EXCEPT !.state = state, !.at = clock]

\* The journal with one more line about d, or about every draft of ds.
Line(d, record) == [log EXCEPT ![d] = Append(log[d], record)]
Lines(ds, state) ==
  [d \in Draft |-> IF d \in ds THEN Append(log[d], Moved(d, state)) ELSE log[d]]

\* A complete append.  After a line without its newline the new line is glued
\* to the old one, and the file does not replay any more.
Write(new) ==
  /\ log' = new
  /\ tail' = IF tail = "open" THEN "bad" ELSE "clean"

\* The writer dies in the append: all but the newline reached the file, or the
\* line was cut short.  (Nothing reads log once tail is "bad".)
Tear(new) ==
  \/ log' = new /\ tail' = IF tail = "open" THEN "bad" ELSE "open"
  \/ log' = log /\ tail' = "bad"

WriteOrTear(new) == Write(new) \/ Tear(new)

\* Mutant: a locked draft counts as outstanding.
LiveOrLocked == {"pending", "approved", "sending"}

\* A draft that can still be sent, and can still be withdrawn.
Live == {"pending", "approved"}

\* A draft whose life is over and which nobody finished: the next operation
\* that touches it writes "expired" before anything else.
Due(d) == InState(d, Live) /\ clock >= Last(d).expiresAt

\* _current, when it writes.  Its caller then refuses, except get and
\* create_draft, whose callers only show the draft or log its id.
ExpireDue(d) == Due(d) /\ WriteOrTear(Line(d, Moved(d, "expired")))
-----------------------------------------------------------------------------
(* The operator's and the tools' operations.  Each may die in its append.  *)

\* Mutant: only drafts that can still be sent answer for their key.
HoldersLive(key) == {d \in Draft : InState(d, Live) /\ Last(d).key = key}

\* The draft an idempotency key already has, in any state.
Holders(key) == {d \in Draft : key # NoKey /\ Known(d) /\ Last(d).key = key}

\* now is read before the lock is taken, so it may be LockWait old.
CreateDraft(key, now) ==
  /\ Replays
  /\ clock - LockWait <= now /\ now <= clock
  /\ \/ \E d \in Holders(key) : ExpireDue(d)
     \/ /\ Holders(key) = {}
        /\ \E d \in Draft :
             /\ ~Known(d)
             /\ WriteOrTear(Line(d, [state |-> "pending", at |-> clock,
                                     approvedAt |-> NotYet, expiresAt |-> now + Ttl,
                                     key |-> key, recipient |-> owner]))
  /\ UNCHANGED <<owner, clock, sender, delivered>>

\* get, and so `approve.py show`.
Get(d) ==
  /\ Replays
  /\ ExpireDue(d)
  /\ UNCHANGED <<owner, clock, sender, delivered>>

\* All due drafts expire under one lock; a crash leaves some of them done.
ListPending ==
  /\ Replays
  /\ LET due == {d \in Draft : Due(d)} IN
       /\ due # {}
       /\ \/ Write(Lines(due, "expired"))
          \/ \E part \in SUBSET due : part # {} /\ WriteOrTear(Lines(part, "expired"))
  /\ UNCHANGED <<owner, clock, sender, delivered>>

\* The human approves the draft whose digest was shown.
Approve(d) ==
  /\ Replays
  /\ \/ ExpireDue(d)
     \/ /\ ~Due(d) /\ InState(d, {"pending"})
        /\ WriteOrTear(Line(d, [Moved(d, "approved") EXCEPT !.approvedAt = clock]))
  /\ UNCHANGED <<owner, clock, sender, delivered>>

\* reject and expire.
Finish(d, state) ==
  /\ Replays
  /\ \/ ExpireDue(d)
     \/ /\ ~Due(d) /\ InState(d, Live)
        /\ WriteOrTear(Line(d, Moved(d, state)))
  /\ UNCHANGED <<owner, clock, sender, delivered>>

\* Removal of saved searches: every outstanding draft under their keys dies,
\* due or not.  A crash leaves some of them done.
ExpireIdempotencyPrefixes(keys) ==
  /\ Replays
  /\ LET live == {d \in Draft : InState(d, Live) /\ Last(d).key \in keys} IN
       /\ live # {}
       /\ \/ Write(Lines(live, "expired"))
          \/ \E part \in SUBSET live : part # {} /\ WriteOrTear(Lines(part, "expired"))
  /\ UNCHANGED <<owner, clock, sender, delivered>>
-----------------------------------------------------------------------------
(* One run of send().                                                      *)

At(s, pc) == sender[s].pc = pc
Goto(s, pc) == sender' = [sender EXCEPT ![s].pc = pc]
Stop(s) == sender' = [sender EXCEPT ![s] = Idle]

\* The draft is read, the recipient compared with the owner's address now, and
\* the message built.  The draft's state is not looked at here.  With SMTP the
\* paid token is spent at the end of this step and may refuse.
SendGet(s, d) ==
  /\ At(s, "idle") /\ Known(d) /\ Replays
  /\ LET expired == Line(d, Moved(d, "expired"))
         passed == /\ Last(d).recipient = owner
                   /\ sender' = [sender EXCEPT ![s] = [pc |-> "got", draft |-> d]] IN
       \/ Due(d) /\ Write(expired) /\ (passed \/ UNCHANGED sender)
       \/ Due(d) /\ Tear(expired) /\ UNCHANGED sender
       \/ ~Due(d) /\ passed /\ UNCHANGED <<log, tail>>
  /\ UNCHANGED <<owner, clock, delivered>>

\* Mutant: a locked draft may be sent again.
ClaimableLocked(d) ==
  InState(d, {"approved", "sending"}) /\ clock - Last(d).approvedAt < Window

\* Mutant: the age of the approval is not looked at.
ClaimableAnyTime(d) == InState(d, {"approved"})

\* Approved, and the approval is fresh when it is claimed.
Claimable(d) == InState(d, {"approved"}) /\ clock - Last(d).approvedAt < Window

ClaimSend(s) ==
  /\ At(s, "got")
  /\ LET d == sender[s].draft IN
       \/ /\ Replays /\ ~Due(d) /\ Claimable(d)
          /\ \/ Write(Line(d, Moved(d, "sending"))) /\ Goto(s, "claimed")
             \/ Tear(Line(d, Moved(d, "sending"))) /\ Stop(s)
       \/ Replays /\ ExpireDue(d) /\ Stop(s)
       \/ /\ ~(Replays /\ (Due(d) \/ Claimable(d)))
          /\ Stop(s) /\ UNCHANGED <<log, tail>>
  /\ UNCHANGED <<owner, clock, delivered>>

\* The transport may take the message and still raise (a timeout after the
\* data, a file that could not be synced).
Transport(s) ==
  /\ At(s, "claimed")
  /\ \/ Goto(s, "accepted") /\ delivered' = [delivered EXCEPT ![sender[s].draft] = @ + 1]
     \/ Goto(s, "failed") /\ delivered' = [delivered EXCEPT ![sender[s].draft] = @ + 1]
     \/ Goto(s, "failed") /\ UNCHANGED delivered
  /\ UNCHANGED <<log, tail, owner, clock>>

\* Mutant: the attempt is the receipt.
OutcomeAlwaysSent(s) == "sent"

\* Mutant: a failure gets a state of its own, which no reader knows.
OutcomeFailed(s) == IF At(s, "accepted") THEN "sent" ELSE "failed"

\* What the journal learns of an attempt.
Outcome(s) == IF At(s, "accepted") THEN "sent" ELSE "sending"

\* A failure is recorded and stays locked; success becomes "sent".  When the
\* journal does not replay, the exception leaves it as it is.
RecordDelivery(s) ==
  /\ At(s, "accepted") \/ At(s, "failed")
  /\ LET d == sender[s].draft IN
       \/ Replays /\ InState(d, {"sending"}) /\ WriteOrTear(Line(d, Moved(d, Outcome(s))))
       \/ ~(Replays /\ InState(d, {"sending"})) /\ UNCHANGED <<log, tail>>
  /\ Stop(s)
  /\ UNCHANGED <<owner, clock, delivered>>

Crash(s) ==
  /\ ~At(s, "idle")
  /\ Stop(s)
  /\ UNCHANGED <<log, tail, owner, clock, delivered>>
-----------------------------------------------------------------------------
(* The surroundings.                                                       *)

Tick ==
  /\ clock < MaxClock
  /\ clock' = clock + 1
  /\ UNCHANGED <<log, tail, owner, sender, delivered>>

\* OWNER_EMAIL is changed.
ChangeOwner ==
  /\ owner' \in Address \ {owner}
  /\ UNCHANGED <<log, tail, clock, sender, delivered>>

\* A stored line is edited in place: its digest does not match any more.
EditByHand ==
  /\ \E d \in Draft : Known(d)
  /\ tail # "bad" /\ tail' = "bad"
  /\ UNCHANGED <<log, owner, clock, sender, delivered>>

Next ==
  \/ \E key \in Key \cup {NoKey}, now \in 0..clock : CreateDraft(key, now)
  \/ \E d \in Draft : Get(d) \/ Approve(d)
  \/ \E d \in Draft, state \in {"rejected", "expired"} : Finish(d, state)
  \/ ListPending
  \/ \E keys \in SUBSET Key : ExpireIdempotencyPrefixes(keys)
  \/ \E s \in Sender, d \in Draft : SendGet(s, d)
  \/ \E s \in Sender : ClaimSend(s) \/ Transport(s) \/ RecordDelivery(s) \/ Crash(s)
  \/ Tick \/ ChangeOwner \/ EditByHand

Spec == Init /\ [][Next]_vars
-----------------------------------------------------------------------------
(* Properties.                                                             *)

\* No draft leaves twice: not on a retry after a crash, a lost outcome or a
\* recorded failure, and not when two senders run at once ("Send an email ...
\* on a retry" is what SAFETY_INVARIANTS.md forbids).
AtMostOnce == \A d \in Draft : delivered[d] <= 1

\* A message that left was approved by the human before it was claimed, the
\* claim came within the approval window and before the draft's expiry, and the
\* draft was never rejected or expired, before or since.
DeliveryAuthorised ==
  \A d \in Draft : delivered[d] > 0 =>
    /\ \E i \in 2..Len(log[d]) :
         /\ log[d][i-1].state = "approved" /\ log[d][i].state = "sending"
         /\ log[d][i].at < log[d][i].expiresAt
         /\ log[d][i].at - log[d][i].approvedAt < Window
    /\ \A i \in 1..Len(log[d]) : log[d][i].state \notin {"rejected", "expired"}

\* What one operation appends, the replay of every later one accepts: no
\* sequence of legal calls makes the journal refuse itself.
WritersKeepReplay == \A d \in Draft : LegalHistory(log[d])

\* "sent" in the journal is a true receipt, also after a crash.
SentWasDelivered == \A d \in Draft : InState(d, {"sent"}) => delivered[d] = 1

\* A caller's retry with the same idempotency key never makes a second draft,
\* whatever became of the first one.
OneDraftPerKey ==
  \A d, e \in Draft :
    Known(d) /\ Known(e) /\ Last(d).key = Last(e).key /\ Last(d).key # NoKey => d = e

\* The refinement: a draft's stage is its last record's state, and the outbox
\* is what the transport took.
StageOf(d) ==
  CASE ~Known(d)                            -> "none"
    [] InState(d, {"rejected", "expired"})  -> "dead"
    [] InState(d, {"sending"})              -> "claimed"
    [] OTHER                                -> Last(d).state

Gate == INSTANCE GatedSend WITH stage <- [d \in Draft |-> StageOf(d)], outbox <- delivered

\* The ledger and its senders keep the promise of GatedSend.
ImplementsGatedSend == Gate!Spec
=============================================================================
