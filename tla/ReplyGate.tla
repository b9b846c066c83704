----------------------------- MODULE ReplyGate -----------------------------
(***************************************************************************)
(* The WhatsApp channel (extensions/idx-whatsapp-channel): the store of    *)
(* inbound turns (ingress.mjs), the decision before a tool call            *)
(* (channel.mjs) and the gate every reply passes (outbound.mjs,            *)
(* verifier.mjs).                                                          *)
(*                                                                         *)
(* The channel runs on one event loop and every function below is          *)
(* synchronous up to the transport call, so each is one step; what         *)
(* interleaves are the host's runners, one per turn, each of which calls   *)
(* tools and delivers replies at any time, also long after later turns     *)
(* arrived.  Turns are numbered in the order they are recorded; a turn's   *)
(* number stands for its trusted handle, which only the turn's own runner  *)
(* can reach, through its closures.  A caller with no handle, or with only *)
(* a turn id, is refused and changes nothing, so it has no action.         *)
(*                                                                         *)
(* A card tool makes the one card of its turn, so a card is named by its   *)
(* turn.  A text is the set of figures in it, or the set of cards it       *)
(* refers to by token.                                                     *)
(***************************************************************************)
EXTENDS Integers, Sequences, SequencesExt

CONSTANTS
  Peer,          \* canonical peers (of one account)
  Session,       \* host session keys
  SessionOf,     \* the session a peer's messages are routed to
  Figure,        \* figures a text may carry
  MaxEntries,    \* peers kept: 512 in the code
  TurnsPerPeer,  \* turns kept per peer: 4 in the code
  Ttl,           \* a turn's life: 30 minutes in the code
  MaxTurns,      \* bound on the turns recorded
  MaxClock       \* bound on the clock

ASSUME ReplyGateAssumption ==
  /\ SessionOf \in [Peer -> Session]
  /\ MaxEntries \in Nat \ {0}
  /\ TurnsPerPeer \in Nat
  /\ {Ttl, MaxTurns, MaxClock} \subseteq Nat

VARIABLES
  clock,    \* Date.now, assumed not to step back
  turn,     \* turn[t]: who wrote it, the figures in it, and when it was stored
  order,    \* the store's peers, least recently active first
  stored,   \* stored[p]: the turns kept for p, newest first
  card,     \* turns whose cardToolCalled is set
  blocked,  \* turns whose toolCallBlocked is set
  ran,      \* turns on which the host was told a card tool may run
  denied,   \* turns on which a card tool call was blocked
  handed    \* the message the transport was handed last

vars == <<clock, turn, order, stored, card, blocked, ran, denied, handed>>

Turn == 1..MaxTurns

\* What a runner may deliver: words, or tokens only.  (Tokens mixed with words,
\* cut or repeated tokens are withheld whatever the turn; "broken" is all these.)
Text ==
  [kind : {"words"}, figures : SUBSET Figure, cards : {{}}]
    \cup [kind : {"tokens"}, figures : {{}}, cards : {{u} : u \in Turn}]
    \cup [kind : {"broken"}, figures : {{}}, cards : {{}}]

SafeText == [kind |-> "safe", figures |-> {}, cards |-> {}]

NoMessage == [turn |-> 0, text |-> SafeText]

TypeOK ==
  /\ clock \in 0..MaxClock
  /\ turn \in Seq([peer : Peer, figures : SUBSET Figure, at : 0..MaxClock])
  /\ Len(turn) <= MaxTurns
  /\ order \in Seq(Peer) /\ IsInjective(order) /\ Len(order) <= MaxEntries
  /\ stored \in [Peer -> Seq(DOMAIN turn)]
  /\ \A p \in Peer :
       /\ IsInjective(stored[p])
       /\ Len(stored[p]) <= IF TurnsPerPeer = 0 THEN 1 ELSE TurnsPerPeer
       /\ stored[p] # <<>> <=> p \in ToSet(order)
  /\ {card, blocked, ran, denied} \subseteq SUBSET DOMAIN turn
  /\ \/ handed = NoMessage
     \/ handed \in [turn : DOMAIN turn, text : Text \cup {SafeText}]

Init ==
  /\ clock = 0
  /\ turn = <<>>
  /\ order = <<>>
  /\ stored = [p \in Peer |-> <<>>]
  /\ card = {} /\ blocked = {} /\ ran = {} /\ denied = {}
  /\ handed = NoMessage
-----------------------------------------------------------------------------
(* The store.                                                              *)

Expired(t) == clock - turn[t].at > Ttl

\* The stored, unexpired entry a handle names: what forTurn, markCardTool and
\* blockTurn all go by.
Trusted(t) == t \in ToSet(stored[turn[t].peer]) /\ ~Expired(t)

Open == {t \in DOMAIN turn : Trusted(t)}

\* Mutant: a peer that writes again keeps its place (Map.set without delete).
TouchedInPlace(p) == IF p \in ToSet(order) THEN order ELSE Append(order, p)

\* The peers with p most recently active.
Touched(p) ==
  LET places == {i \in DOMAIN order : order[i] = p}
  IN  Append(IF places = {} THEN order ELSE RemoveAt(order, CHOOSE i \in places : TRUE), p)

\* Mutant: one turn too many is kept.
KeptOneMore(turns) ==
  SubSeq(turns, 1, IF Len(turns) > TurnsPerPeer + 1 THEN TurnsPerPeer + 1 ELSE Len(turns))

\* The newest turns of a peer, at least one.
Kept(turns) ==
  LET n == IF TurnsPerPeer = 0 THEN 1 ELSE TurnsPerPeer
  IN  SubSeq(turns, 1, IF Len(turns) > n THEN n ELSE Len(turns))

\* ingress.record, from onInbound: the new turn goes in front, its peer becomes
\* the most recent, and the peers above the bound are dropped, oldest first.
\* Both flags of the new turn are false.
RecordTurn(p, figures) ==
  LET t     == Len(turn) + 1
      peers == Touched(p)
      over  == IF Len(peers) > MaxEntries THEN Len(peers) - MaxEntries ELSE 0
      gone  == {peers[i] : i \in 1..over}
  IN  /\ t \in Turn
      /\ turn' = Append(turn, [peer |-> p, figures |-> figures, at |-> clock])
      /\ order' = SubSeq(peers, over + 1, Len(peers))
      /\ stored' = [q \in Peer |->
                      CASE q \in gone -> <<>>
                        [] q = p      -> Kept(<<t>> \o stored[p])
                        [] OTHER      -> stored[q]]
      /\ UNCHANGED <<clock, card, blocked, ran, denied, handed>>
-----------------------------------------------------------------------------
(* Before a card tool runs.  The tool runs, if at all, after the decision; *)
(* the model lets it run at once, the earliest moment it can.  (A tool that *)
(* is no card tool runs and changes nothing.)                              *)

\* The turn's own seam, beforeToolCall: mark the turn, or refuse.  The mark
\* fails only on a turn that is not trusted, and then there is no entry left
\* for blockTurn to taint.
SeamAllows(t) ==
  /\ Trusted(t)
  /\ card' = card \cup {t}
  /\ ran' = ran \cup {t}
  /\ UNCHANGED <<clock, turn, order, stored, blocked, denied, handed>>

SeamRefuses(t) ==
  /\ ~Trusted(t)
  /\ denied' = denied \cup {t}
  /\ UNCHANGED <<clock, turn, order, stored, card, blocked, ran, handed>>

\* The seam's handler fails (the tool's name is not a string): the turn is
\* tainted if it can be.
SeamFails(t) ==
  /\ blocked' = IF Trusted(t) THEN blocked \cup {t} ELSE blocked
  /\ denied' = denied \cup {t}
  /\ UNCHANGED <<clock, turn, order, stored, card, ran, handed>>

\* Mutant: only the newest turn of each peer is marked.
MarkableNewest(s) ==
  {t \in Open : SessionOf[turn[t].peer] = s /\ t = stored[turn[t].peer][1]}

\* markCardToolForSession: every open turn of the session.
Markable(s) == {t \in Open : SessionOf[turn[t].peer] = s}

\* Mutant: only the newest turn of each peer is tainted.
TaintableNewest == {t \in Open : t = stored[turn[t].peer][1]}

\* blockOpenTurns: every open turn of every peer.
Taintable == Open

\* The host's hook, for a call of t's runner.  The event carries the key of the
\* call's session (the host is trusted not to name another session that has an
\* open turn): all open turns of the session are marked, if there are any.
HookAllows(t) ==
  LET marks == Markable(SessionOf[turn[t].peer])
  IN  /\ marks # {}
      /\ card' = card \cup marks
      /\ ran' = ran \cup {t}
      /\ UNCHANGED <<clock, turn, order, stored, blocked, denied, handed>>

\* The session has no open turn, the event's key is no turn's session, or the
\* handler failed: which turn the call belongs to is unknown, so all are tainted.
HookRefuses(t) ==
  /\ blocked' = blocked \cup Taintable
  /\ denied' = denied \cup {t}
  /\ UNCHANGED <<clock, turn, order, stored, card, ran, handed>>

\* The hook fires for every session of the host: a card tool call of one that
\* has no turn here is blocked in the same way.
HookForeign ==
  /\ blocked' = blocked \cup Taintable
  /\ UNCHANGED <<clock, turn, order, stored, card, ran, denied, handed>>
-----------------------------------------------------------------------------
(* The gate.                                                               *)

\* Mutant: the figures are looked up in the peer's newest turn.
UserFiguresNewest(t) == turn[stored[turn[t].peer][1]].figures

\* The figures the user wrote in the turn being answered.
UserFigures(t) == turn[t].figures

\* The resolver the channel is given: a token resolves only under the session
\* and turn its card was made for.
Resolves(u, t) == u = t /\ u \in ran

\* verifyReply: what may leave on turn t.
Verified(t, text) ==
  /\ t \notin blocked
  /\ \/ text.kind = "tokens" /\ \A u \in text.cards : Resolves(u, t)
     \/ text.kind = "words" /\ t \notin card /\ text.figures \subseteq UserFigures(t)

\* isWellFormedVerdict: the gate's own check of a release, which cannot resolve.
WellFormedRelease(t, text) ==
  /\ t \notin blocked
  /\ text.kind = "words" => t \notin card /\ text.figures \subseteq UserFigures(t)
  /\ text.kind # "broken"

Hand(t, text) == handed' = [turn |-> t, text |-> text]

\* deliver -> sendText, on a turn the store vouches for.  Released text is
\* handed over as it is (with the cards' own bytes for the tokens); anything
\* else, a verifier that threw or a verifier that took too long leaves SAFE_TEXT.
Release(t, text) ==
  /\ Trusted(t)
  /\ Verified(t, text) /\ WellFormedRelease(t, text)
  /\ Hand(t, text)
  /\ UNCHANGED <<clock, turn, order, stored, card, blocked, ran, denied>>

\* The deadline may pass on any text, so withholding needs no condition.
Withhold(t) ==
  /\ Trusted(t)
  /\ Hand(t, SafeText)
  /\ UNCHANGED <<clock, turn, order, stored, card, blocked, ran, denied>>

Tick ==
  /\ clock < MaxClock
  /\ clock' = clock + 1
  /\ UNCHANGED <<turn, order, stored, card, blocked, ran, denied, handed>>

Next ==
  \/ \E p \in Peer, figures \in SUBSET Figure : RecordTurn(p, figures)
  \/ \E t \in DOMAIN turn :
       \/ SeamAllows(t) \/ SeamRefuses(t) \/ SeamFails(t)
       \/ HookAllows(t) \/ HookRefuses(t)
       \/ Withhold(t)
       \/ \E text \in Text : Release(t, text)
  \/ HookForeign \/ Tick

Spec == Init /\ [][Next]_vars
-----------------------------------------------------------------------------
(* What the gate promises.                                                 *)

\* Whatever leaves on a turn is grounded in that turn: words carry no figure the
\* user did not write in it, and a card was made by that turn's own tool call.
\* Replies to several turns of a peer overlap, so it matters which turn a reply
\* is compared with.
Grounded ==
  LET t == handed.turn
  IN  t # 0 => /\ handed.text.figures \subseteq turn[t].figures
               /\ handed.text.cards \subseteq ran \cap {t}

\* Once a card tool may have run on a turn, no words of the model leave on that
\* turn, however late the reply and whichever way the call was announced.
NoWordsAfterCard ==
  [][handed' # handed => ~(handed'.turn \in ran /\ handed'.text.kind = "words")]_vars

\* Once a card tool call of a turn was blocked, nothing but SAFE_TEXT leaves on
\* that turn, also when the hook could not tell which turn the call belonged to.
BlockedIsSilent ==
  [][handed' # handed => ~(handed'.turn \in denied /\ handed'.text # SafeText)]_vars

\* The turn a peer wrote last.
LastOf(p) ==
  LET of == {t \in DOMAIN turn : turn[t].peer = p}
  IN  IF of = {} THEN 0 ELSE CHOOSE t \in of : \A u \in of : u <= t

\* The store forgets peers by last activity: every peer it knows wrote after
\* every peer it has forgotten, and what it has of a peer ends in its last turn.
ForgetsOldestPeer ==
  \A p \in ToSet(order) :
    /\ stored[p][1] = LastOf(p)
    /\ \A q \in Peer \ ToSet(order) : LastOf(q) < LastOf(p)
=============================================================================
