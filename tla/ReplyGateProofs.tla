-------------------------- MODULE ReplyGateProofs --------------------------
(***************************************************************************)
(* Proofs about ReplyGate for any peers, sessions and figures, any bounds  *)
(* of the store and any times.                                             *)
(*                                                                         *)
(* The flags of a turn are kept in its entry of the store, which may be    *)
(* gone or expired when a tool call or a reply asks for it.  What makes    *)
(* the gate sound is that trust is never regained (TrustShrinks): a mark   *)
(* that could not be set any more guards a turn that cannot send any more. *)
(***************************************************************************)
EXTENDS ReplyGate, TLAPS

\* Types, without the order of the peers, on which the gate does not depend.
GateTypes ==
  /\ clock \in Nat
  /\ turn \in Seq([peer : Peer, figures : SUBSET Figure, at : Nat])
  /\ stored \in [Peer -> Seq(Nat)]
  /\ \A p \in Peer : \A i \in DOMAIN stored[p] : stored[p][i] \in DOMAIN turn
  /\ ran \subseteq DOMAIN turn
  /\ denied \subseteq DOMAIN turn
  /\ handed.turn \in DOMAIN turn \cup {0}

\* An open turn on which a card tool may have run is marked.
Marked == \A t \in ran : Trusted(t) => t \in card

\* An open turn on which a card tool call was blocked is tainted.
Tainted == \A t \in denied : Trusted(t) => t \in blocked

GateInv == GateTypes /\ Marked /\ Tainted /\ Grounded

-----------------------------------------------------------------------------
(* The store.                                                              *)

LEMMA ElementType ==
  ASSUME NEW S, NEW s \in Seq(S), NEW i \in DOMAIN s
  PROVE  s[i] \in S
OBVIOUS

LEMMA Narrowed ==
  ASSUME NEW S, NEW T, NEW s \in Seq(S), \A i \in DOMAIN s : s[i] \in T
  PROVE  s \in Seq(T)
OBVIOUS

LEMMA TurnType ==
  ASSUME GateTypes, NEW t \in DOMAIN turn
  PROVE  turn[t].peer \in Peer /\ turn[t].at \in Nat /\ t \in 1..Len(turn) /\ Len(turn) \in Nat
<1>1. turn[t] \in [peer : Peer, figures : SUBSET Figure, at : Nat]
  BY ElementType DEF GateTypes
<1> QED BY <1>1 DEF GateTypes

\* What is kept of a peer's turns is some of them.
LEMMA KeptSome ==
  ASSUME NEW s \in Seq(Nat)
  PROVE  /\ Kept(s) \in Seq(Nat)
         /\ \A i \in DOMAIN Kept(s) : i \in DOMAIN s /\ Kept(s)[i] = s[i]
<1> DEFINE n == IF TurnsPerPeer = 0 THEN 1 ELSE TurnsPerPeer
           m == IF Len(s) > n THEN n ELSE Len(s)
<1>1. n \in Nat /\ m \in 0..Len(s)
  BY ReplyGateAssumption
<1>2. Kept(s) = SubSeq(s, 1, m)
  BY DEF Kept
<1> HIDE DEF m
<1> QED BY <1>1, <1>2

\* A new turn is the next number; the others keep theirs.
LEMMA TurnAppended ==
  ASSUME GateTypes, NEW p \in Peer, NEW figures \in SUBSET Figure, RecordTurn(p, figures)
  PROVE  /\ turn' \in Seq([peer : Peer, figures : SUBSET Figure, at : Nat])
         /\ DOMAIN turn' = DOMAIN turn \cup {Len(turn) + 1}
         /\ Len(turn) + 1 \notin DOMAIN turn
         /\ \A t \in DOMAIN turn : turn'[t] = turn[t]
<1>1. turn' = Append(turn, [peer |-> p, figures |-> figures, at |-> clock])
  BY DEF RecordTurn
<1>2. [peer |-> p, figures |-> figures, at |-> clock]
        \in [peer : Peer, figures : SUBSET Figure, at : Nat]
  BY DEF GateTypes
<1> QED BY <1>1, <1>2 DEF GateTypes

\* Nothing comes into the store but the new turn.
LEMMA StoreRecorded ==
  ASSUME GateTypes, NEW p \in Peer, NEW figures \in SUBSET Figure, RecordTurn(p, figures)
  PROVE  /\ stored' \in [Peer -> Seq(Nat)]
         /\ \A q \in Peer : \A i \in DOMAIN stored'[q] :
              stored'[q][i] = Len(turn) + 1 \/ stored'[q][i] \in ToSet(stored[q])
<1> DEFINE new == <<Len(turn) + 1>> \o stored[p]
<1>1. /\ new \in Seq(Nat)
      /\ \A i \in DOMAIN new : new[i] = Len(turn) + 1 \/ new[i] \in ToSet(stored[p])
  <2>1. stored[p] \in Seq(Nat) /\ Len(turn) + 1 \in Nat
    BY DEF GateTypes
  <2>2. \A i \in DOMAIN new : i = 1 \/ (i - 1 \in DOMAIN stored[p] /\ new[i] = stored[p][i - 1])
    BY <2>1
  <2>3. new[1] = Len(turn) + 1
    BY <2>1
  <2>4. new \in Seq(Nat)
    BY <2>1
  <2> QED BY <2>2, <2>3, <2>4 DEF ToSet
<1>2. /\ Kept(new) \in Seq(Nat)
      /\ \A i \in DOMAIN Kept(new) : i \in DOMAIN new /\ Kept(new)[i] = new[i]
  BY <1>1, KeptSome
<1> DEFINE peers == Touched(p)
           over == IF Len(peers) > MaxEntries THEN Len(peers) - MaxEntries ELSE 0
           gone == {peers[i] : i \in 1..over}
<1>3. stored' = [q \in Peer |-> CASE q \in gone -> <<>>
                                   [] q = p      -> Kept(new)
                                   [] OTHER      -> stored[q]]
  BY DEF RecordTurn
<1> HIDE DEF new, gone
<1>4. ASSUME NEW q \in Peer
      PROVE  \/ stored'[q] = <<>>
             \/ q = p /\ stored'[q] = Kept(new)
             \/ stored'[q] = stored[q]
  BY <1>3
<1>5. \A q \in Peer : stored[q] \in Seq(Nat)
  BY DEF GateTypes
<1>6. stored' \in [Peer -> Seq(Nat)]
  <2>1. ASSUME NEW q \in Peer
        PROVE  stored'[q] \in Seq(Nat)
    <3>1. CASE stored'[q] = <<>>
      BY <3>1
    <3>2. CASE stored'[q] = Kept(new)
      BY <1>2, <3>2
    <3>3. CASE stored'[q] = stored[q]
      BY <1>5, <3>3
    <3> QED BY <1>4, <3>1, <3>2, <3>3
  <2> QED BY <1>3, <2>1
<1>7. ASSUME NEW q \in Peer, NEW i \in DOMAIN stored'[q]
      PROVE  stored'[q][i] = Len(turn) + 1 \/ stored'[q][i] \in ToSet(stored[q])
  <2>1. CASE stored'[q] = <<>>
    BY <1>7, <2>1
  <2>2. CASE q = p /\ stored'[q] = Kept(new)
    BY <1>1, <1>2, <1>7, <2>2
  <2>3. CASE stored'[q] = stored[q]
    BY <1>7, <2>3 DEF ToSet
  <2> QED BY <1>4, <2>1, <2>2, <2>3
<1> QED BY <1>6, <1>7

\* Trust is never regained: not by a later message, an eviction or the clock.
LEMMA TrustShrinks ==
  ASSUME GateTypes, Next, NEW t \in DOMAIN turn, Trusted(t)'
  PROVE  Trusted(t)
<1>1. CASE \E p \in Peer, figures \in SUBSET Figure : RecordTurn(p, figures)
  <2>1. PICK p \in Peer, figures \in SUBSET Figure : RecordTurn(p, figures)
    BY <1>1
  <2>2. turn'[t] = turn[t] /\ t # Len(turn) + 1 /\ turn[t].peer \in Peer
    BY <2>1, TurnAppended, TurnType
  <2>3. t \in ToSet(stored'[turn[t].peer])
    BY <2>2 DEF Trusted
  <2>4. t \in ToSet(stored[turn[t].peer])
    BY <2>1, <2>2, <2>3, StoreRecorded DEF ToSet
  <2>5. ~Expired(t)
    BY <2>1, <2>2 DEF Trusted, Expired, RecordTurn
  <2> QED BY <2>4, <2>5 DEF Trusted
<1>2. CASE Tick
  <2>1. turn[t].at \in Nat /\ clock \in Nat
    BY TurnType DEF GateTypes
  <2> QED BY <1>2, <2>1, ReplyGateAssumption DEF Tick, Trusted, Expired
<1>3. CASE UNCHANGED <<clock, turn, stored>>
  BY <1>3 DEF Trusted, Expired
<1> QED BY <1>1, <1>2, <1>3
        DEF Next, SeamAllows, SeamRefuses, SeamFails, HookAllows, HookRefuses, HookForeign,
            Withhold, Release

\* Steps other than a new message and the clock.
TurnStep(t) ==
  \/ SeamAllows(t) \/ SeamRefuses(t) \/ SeamFails(t)
  \/ HookAllows(t) \/ HookRefuses(t)
  \/ Withhold(t)
  \/ \E text \in Text : Release(t, text)

LEMMA TypesStep ==
  ASSUME GateTypes, [Next]_vars
  PROVE  GateTypes'
<1>1. ASSUME NEW p \in Peer, NEW figures \in SUBSET Figure, RecordTurn(p, figures)
      PROVE  GateTypes'
  <2>1. UNCHANGED <<clock, ran, denied, handed>>
    BY <1>1 DEF RecordTurn
  <2>2. ASSUME NEW q \in Peer, NEW i \in DOMAIN stored'[q]
        PROVE  stored'[q][i] \in DOMAIN turn'
    <3>1. DOMAIN turn' = DOMAIN turn \cup {Len(turn) + 1}
      BY <1>1, TurnAppended
    <3>2. ToSet(stored[q]) \subseteq DOMAIN turn
      BY DEF GateTypes, ToSet
    <3>3. stored'[q][i] = Len(turn) + 1 \/ stored'[q][i] \in ToSet(stored[q])
      BY <1>1, StoreRecorded
    <3> QED BY <3>1, <3>2, <3>3
  <2> QED BY <1>1, <2>1, <2>2, StoreRecorded, TurnAppended DEF GateTypes
<1>2. ASSUME NEW t \in DOMAIN turn, TurnStep(t)
      PROVE  GateTypes'
  <2>1. UNCHANGED <<clock, turn, stored>>
    BY <1>2 DEF TurnStep, SeamAllows, SeamRefuses, SeamFails, HookAllows, HookRefuses,
                Withhold, Release
  <2>2. ran' \subseteq DOMAIN turn /\ denied' \subseteq DOMAIN turn
    BY <1>2 DEF GateTypes, TurnStep, SeamAllows, SeamRefuses, SeamFails, HookAllows,
                HookRefuses, Withhold, Release
  <2>3. handed'.turn \in DOMAIN turn \cup {0}
    BY <1>2 DEF GateTypes, TurnStep, SeamAllows, SeamRefuses, SeamFails, HookAllows,
                HookRefuses, Withhold, Release, Hand
  <2> QED BY <2>1, <2>2, <2>3 DEF GateTypes
<1>3. CASE HookForeign \/ Tick \/ UNCHANGED vars
  BY <1>3 DEF GateTypes, HookForeign, Tick, vars
<1> QED BY <1>1, <1>2, <1>3 DEF Next, TurnStep

-----------------------------------------------------------------------------
(* The marks.                                                              *)

\* A turn that ran or was denied before still has its mark, or lost its trust.
LEMMA MarksStep ==
  ASSUME GateTypes, Marked, Tainted, [Next]_vars
  PROVE  Marked' /\ Tainted'
<1>1. CASE UNCHANGED vars
  BY <1>1 DEF vars, Marked, Tainted, Trusted, Expired
<1>2. CASE Next
  <2>1. card \subseteq card' /\ blocked \subseteq blocked'
    BY <1>2 DEF Next, RecordTurn, SeamAllows, SeamRefuses, SeamFails, HookAllows,
                HookRefuses, HookForeign, Withhold, Release, Tick
  <2>2. /\ \A t \in ran : Trusted(t)' => t \in card'
        /\ \A t \in denied : Trusted(t)' => t \in blocked'
    BY <1>2, <2>1, TrustShrinks DEF GateTypes, Marked, Tainted
  <2>3. ASSUME NEW t \in ran' \ ran, Trusted(t)'
        PROVE  t \in card'
    <3>1. PICK u \in DOMAIN turn : SeamAllows(u) \/ HookAllows(u)
      BY <1>2, <2>3 DEF Next, RecordTurn, SeamRefuses, SeamFails, HookRefuses, HookForeign,
                        Withhold, Release, Tick
    <3>2. t = u /\ Trusted(u)
      BY <1>2, <2>3, <3>1, TrustShrinks DEF SeamAllows, HookAllows
    <3> QED BY <3>1, <3>2 DEF SeamAllows, HookAllows, Markable, Open
  <2>4. ASSUME NEW t \in denied' \ denied, Trusted(t)'
        PROVE  t \in blocked'
    <3>1. PICK u \in DOMAIN turn : SeamRefuses(u) \/ SeamFails(u) \/ HookRefuses(u)
      BY <1>2, <2>4 DEF Next, RecordTurn, SeamAllows, HookAllows, HookForeign,
                        Withhold, Release, Tick
    <3>2. t = u /\ Trusted(u)
      BY <1>2, <2>4, <3>1, TrustShrinks DEF SeamRefuses, SeamFails, HookRefuses
    <3> QED BY <3>1, <3>2 DEF SeamRefuses, SeamFails, HookRefuses, Taintable, Open
  <2> QED BY <2>2, <2>3, <2>4 DEF Marked, Tainted
<1> QED BY <1>1, <1>2

LEMMA GroundedStep ==
  ASSUME GateTypes, Grounded, [Next]_vars
  PROVE  Grounded'
<1>1. CASE \E t \in DOMAIN turn, text \in Text : Release(t, text)
  <2>1. PICK t \in DOMAIN turn, text \in Text : Release(t, text)
    BY <1>1
  <2>2. handed' = [turn |-> t, text |-> text] /\ UNCHANGED <<turn, ran>>
    BY <2>1 DEF Release, Hand
  <2>3. text.figures \subseteq turn[t].figures
    BY <2>1 DEF Release, Verified, Text, UserFigures
  <2>4. text.cards \subseteq ran \cap {t}
    BY <2>1 DEF Release, Verified, Text, Resolves
  <2> QED BY <2>2, <2>3, <2>4 DEF Grounded
<1>2. CASE \E t \in DOMAIN turn : Withhold(t)
  BY <1>2 DEF Withhold, Hand, Grounded, SafeText
<1>3. CASE ~(\E t \in DOMAIN turn, text \in Text : Release(t, text))
           /\ ~(\E t \in DOMAIN turn : Withhold(t))
  <2>1. handed' = handed /\ ran \subseteq ran'
    BY <1>3 DEF Next, vars, RecordTurn, SeamAllows, SeamRefuses, SeamFails, HookAllows,
                HookRefuses, HookForeign, Tick
  <2>2. \A t \in DOMAIN turn : turn'[t] = turn[t]
    <3>1. CASE \E p \in Peer, figures \in SUBSET Figure : RecordTurn(p, figures)
      BY <3>1, TurnAppended
    <3>2. CASE ~\E p \in Peer, figures \in SUBSET Figure : RecordTurn(p, figures)
      BY <1>3, <3>2 DEF Next, vars, SeamAllows, SeamRefuses, SeamFails, HookAllows,
                        HookRefuses, HookForeign, Tick
    <3> QED BY <3>1, <3>2
  <2> QED BY <2>1, <2>2 DEF Grounded, GateTypes
<1> QED BY <1>1, <1>2, <1>3

-----------------------------------------------------------------------------
(* The order of the peers.                                                 *)

\* The turn each peer wrote last.
Lasts == [p \in Peer |-> LastOf(p)]

\* The turns kept of a peer.
KeptTurns == IF TurnsPerPeer = 0 THEN 1 ELSE TurnsPerPeer

\* What is in the store, and in which order: the peers by their last turns, each
\* with its newest turns, newest first.
OrderInv ==
  /\ order \in Seq(Peer) /\ Len(order) <= MaxEntries
  /\ \A p \in Peer : Lasts[p] \in 0..Len(turn)
  /\ \A i, j \in DOMAIN order : i < j => Lasts[order[i]] < Lasts[order[j]]
  /\ \A p \in Peer \ ToSet(order), i \in DOMAIN order : Lasts[p] < Lasts[order[i]]
  /\ \A p \in Peer : stored[p] # <<>> <=> p \in ToSet(order)
  /\ \A p \in Peer :
       /\ Len(stored[p]) <= KeptTurns
       /\ stored[p] # <<>> => stored[p][1] = Lasts[p]
       /\ \A i, j \in DOMAIN stored[p] : i < j => stored[p][j] < stored[p][i]

\* A sequence without its i-th element.
LEMMA ElementRemoved ==
  ASSUME NEW S, NEW s \in Seq(S), NEW i \in DOMAIN s
  PROVE  /\ RemoveAt(s, i) \in Seq(S)
         /\ Len(RemoveAt(s, i)) = Len(s) - 1
         /\ \A j \in DOMAIN RemoveAt(s, i) :
              RemoveAt(s, i)[j] = IF j < i THEN s[j] ELSE s[j + 1]
<1> DEFINE front == SubSeq(s, 1, i - 1)
           back == SubSeq(s, i + 1, Len(s))
<1>1. Len(s) \in Nat /\ i \in 1..Len(s)
  OBVIOUS
<1>2. /\ front \in Seq(S) /\ Len(front) = i - 1
      /\ \A j \in 1..(i - 1) : front[j] = s[j]
  BY <1>1
<1>3. /\ back \in Seq(S) /\ Len(back) = Len(s) - i
      /\ \A j \in 1..(Len(s) - i) : back[j] = s[i + j]
  BY <1>1
<1>4. RemoveAt(s, i) = front \o back
  BY DEF RemoveAt
<1> HIDE DEF front, back
<1>5. /\ front \o back \in Seq(S) /\ Len(front \o back) = Len(s) - 1
      /\ \A j \in 1..(Len(s) - 1) :
           (front \o back)[j] = IF j < i THEN front[j] ELSE back[j - (i - 1)]
  BY <1>1, <1>2, <1>3
<1>6. ASSUME NEW j \in 1..(Len(s) - 1)
      PROVE  (front \o back)[j] = IF j < i THEN s[j] ELSE s[j + 1]
  <2>1. CASE j < i
    BY <1>1, <1>2, <1>5, <2>1
  <2>2. CASE ~(j < i)
    <3>1. j - (i - 1) \in 1..(Len(s) - i) /\ i + (j - (i - 1)) = j + 1
      BY <1>1, <2>2
    <3>2. back[j - (i - 1)] = s[j + 1]
      BY <1>3, <3>1
    <3> QED BY <1>5, <2>2, <3>2
  <2> QED BY <2>1, <2>2
<1>7. DOMAIN (front \o back) = 1..(Len(s) - 1)
  BY <1>1, <1>5
<1> QED BY <1>4, <1>5, <1>6, <1>7

\* The peer that writes goes to the end; the others keep their places.
LEMMA PeerTouched ==
  ASSUME GateTypes, OrderInv, NEW p \in Peer
  PROVE  /\ Touched(p) \in Seq(Peer)
         /\ Len(Touched(p)) \in 1..(Len(order) + 1)
         /\ Touched(p)[Len(Touched(p))] = p
         /\ \A i \in 1..(Len(Touched(p)) - 1) : Touched(p)[i] \in ToSet(order) \ {p}
         /\ \A i, j \in 1..(Len(Touched(p)) - 1) :
              i < j => Lasts[Touched(p)[i]] < Lasts[Touched(p)[j]]
         /\ \A q \in ToSet(order) \ {p} : \E i \in 1..(Len(Touched(p)) - 1) : Touched(p)[i] = q
<1> DEFINE places == {i \in DOMAIN order : order[i] = p}
           rest == IF places = {} THEN order ELSE RemoveAt(order, CHOOSE i \in places : TRUE)
<1>1. Touched(p) = Append(rest, p)
  BY DEF Touched
<1>2. order \in Seq(Peer)
  BY DEF OrderInv
<1>3. /\ rest \in Seq(Peer) /\ Len(rest) <= Len(order)
      /\ \A i \in DOMAIN rest : rest[i] \in ToSet(order) \ {p}
      /\ \A i, j \in DOMAIN rest : i < j => Lasts[rest[i]] < Lasts[rest[j]]
      /\ \A q \in ToSet(order) \ {p} : \E i \in DOMAIN rest : rest[i] = q
  <2>1. CASE places = {}
    BY <1>2, <2>1 DEF OrderInv, ToSet
  <2>2. CASE places # {}
    <3> DEFINE k == CHOOSE i \in places : TRUE
    <3>1. k \in places
      BY <2>2
    <3>2. k \in DOMAIN order /\ order[k] = p /\ rest = RemoveAt(order, k)
      BY <2>2, <3>1
    <3> HIDE DEF k, rest
    <3>3. /\ rest \in Seq(Peer) /\ Len(rest) = Len(order) - 1
          /\ \A j \in DOMAIN rest : rest[j] = IF j < k THEN order[j] ELSE order[j + 1]
      BY <1>2, <3>2, ElementRemoved
    <3>4. Len(order) \in Nat /\ DOMAIN order = 1..Len(order) /\ DOMAIN rest = 1..(Len(order) - 1)
      BY <1>2, <3>3
    <3>5. \A i, j \in DOMAIN order : i < j => Lasts[order[i]] < Lasts[order[j]]
      BY DEF OrderInv
    <3>6. \A i \in DOMAIN order : Lasts[order[i]] \in Nat
      BY <1>2, ElementType DEF OrderInv
    <3>7. \A i, j \in DOMAIN order : i # j => order[i] # order[j]
      <4> SUFFICES ASSUME NEW i \in DOMAIN order, NEW j \in DOMAIN order, i # j,
                          order[i] = order[j]
                   PROVE  FALSE
        OBVIOUS
      <4>1. i < j \/ j < i
        BY <3>4
      <4> QED BY <3>5, <3>6, <4>1
    <3>8. ASSUME NEW i \in DOMAIN rest
          PROVE  rest[i] \in ToSet(order) \ {p}
      <4>1. PICK m \in DOMAIN order : m # k /\ rest[i] = order[m]
        <5>1. CASE i < k
          BY <3>2, <3>3, <3>4, <5>1
        <5>2. CASE ~(i < k)
          BY <3>2, <3>3, <3>4, <5>2
        <5> QED BY <5>1, <5>2
      <4> QED BY <3>2, <3>7, <4>1 DEF ToSet
    <3>9. ASSUME NEW i \in DOMAIN rest, NEW j \in DOMAIN rest, i < j
          PROVE  Lasts[rest[i]] < Lasts[rest[j]]
      <4>1. PICK m \in DOMAIN order, n \in DOMAIN order :
              m < n /\ rest[i] = order[m] /\ rest[j] = order[n]
        <5>1. CASE j < k
          BY <3>2, <3>3, <3>4, <3>9, <5>1
        <5>2. CASE i < k /\ ~(j < k)
          BY <3>2, <3>3, <3>4, <3>9, <5>2
        <5>3. CASE ~(i < k) /\ ~(j < k)
          BY <3>2, <3>3, <3>4, <3>9, <5>3
        <5> QED BY <3>2, <3>4, <3>9, <5>1, <5>2, <5>3
      <4> QED BY <3>5, <4>1
    <3>10. ASSUME NEW q \in ToSet(order) \ {p}
           PROVE  \E i \in DOMAIN rest : rest[i] = q
      <4>1. PICK m \in DOMAIN order : order[m] = q
        BY <3>10 DEF ToSet
      <4>2. m # k
        BY <3>2, <3>10, <4>1
      <4>3. CASE m < k
        <5>1. m \in DOMAIN rest
          BY <3>2, <3>4, <4>3
        <5> QED BY <3>3, <4>1, <4>3, <5>1
      <4>4. CASE m > k
        <5>1. m - 1 \in DOMAIN rest /\ ~(m - 1 < k) /\ (m - 1) + 1 = m
          BY <3>2, <3>4, <4>4
        <5> QED BY <3>3, <4>1, <5>1
      <4> QED BY <3>2, <3>4, <4>2, <4>3, <4>4
    <3> QED BY <3>3, <3>4, <3>8, <3>9, <3>10
  <2> QED BY <2>1, <2>2
<1> HIDE DEF rest
<1>4. /\ Append(rest, p) \in Seq(Peer) /\ Len(Append(rest, p)) = Len(rest) + 1
      /\ Append(rest, p)[Len(rest) + 1] = p
      /\ \A i \in 1..Len(rest) : Append(rest, p)[i] = rest[i]
  BY <1>3
<1>5. DOMAIN rest = 1..Len(rest) /\ Len(rest) \in Nat /\ Len(order) \in Nat
  BY <1>2, <1>3
<1> QED BY <1>1, <1>3, <1>4, <1>5

\* A new message makes its turn its peer's last, and no other peer's.
LEMMA LastRecorded ==
  ASSUME GateTypes, NEW p \in Peer, NEW figures \in SUBSET Figure, RecordTurn(p, figures)
  PROVE  /\ Lasts'[p] = Len(turn) + 1
         /\ \A q \in Peer \ {p} : Lasts'[q] = Lasts[q]
<1>1. /\ DOMAIN turn' = DOMAIN turn \cup {Len(turn) + 1}
      /\ Len(turn) + 1 \notin DOMAIN turn
      /\ \A t \in DOMAIN turn : turn'[t] = turn[t]
  BY TurnAppended
<1>2. turn'[Len(turn) + 1].peer = p
  <2>1. turn' = Append(turn, [peer |-> p, figures |-> figures, at |-> clock])
    BY DEF RecordTurn
  <2> QED BY <2>1 DEF GateTypes
<1>3. \A t \in DOMAIN turn : t \in Nat /\ t <= Len(turn)
  BY TurnType
<1>4. LastOf(p)' = Len(turn) + 1
  <2> DEFINE of == {t \in DOMAIN turn' : turn'[t].peer = p}
             Latest(t) == \A u \in of : u <= t
  <2>1. Len(turn) + 1 \in of /\ Len(turn) \in Nat
    BY <1>1, <1>2 DEF GateTypes
  <2>2. Latest(Len(turn) + 1)
    BY <1>1, <1>3, <2>1
  <2>3. \A t \in of : Latest(t) => t = Len(turn) + 1
    BY <1>1, <1>3, <2>1
  <2>4. LastOf(p)' = IF of = {} THEN 0 ELSE CHOOSE t \in of : Latest(t)
    BY DEF LastOf
  <2> HIDE DEF of, Latest
  <2> QED BY <2>1, <2>2, <2>3, <2>4
<1>5. ASSUME NEW q \in Peer \ {p}
      PROVE  LastOf(q)' = LastOf(q)
  <2> DEFINE before == {t \in DOMAIN turn : turn[t].peer = q}
             after == {t \in DOMAIN turn' : turn'[t].peer = q}
  <2>1. after = before
    BY <1>1, <1>2
  <2>2. /\ LastOf(q) = IF before = {} THEN 0
                       ELSE CHOOSE t \in before : \A u \in before : u <= t
        /\ LastOf(q)' = IF after = {} THEN 0
                        ELSE CHOOSE t \in after : \A u \in after : u <= t
    BY DEF LastOf
  <2> HIDE DEF before, after
  <2> QED BY <2>1, <2>2
<1> QED BY <1>4, <1>5 DEF Lasts

\* A new message and what it pushes out keep the order.
LEMMA OrderRecorded ==
  ASSUME GateTypes, OrderInv, NEW p \in Peer, NEW figures \in SUBSET Figure,
         RecordTurn(p, figures)
  PROVE  OrderInv'
<1> DEFINE t == Len(turn) + 1
           peers == Touched(p)
           n == Len(peers)
           over == IF n > MaxEntries THEN n - MaxEntries ELSE 0
           gone == {peers[i] : i \in 1..over}
<1>1. /\ order' = SubSeq(peers, over + 1, n)
      /\ stored' = [q \in Peer |-> CASE q \in gone -> <<>>
                                     [] q = p      -> Kept(<<t>> \o stored[p])
                                     [] OTHER      -> stored[q]]
  BY DEF RecordTurn
<1>2. /\ peers \in Seq(Peer) /\ n \in 1..(Len(order) + 1) /\ peers[n] = p
      /\ \A i \in 1..(n - 1) : peers[i] \in ToSet(order) \ {p}
      /\ \A i, j \in 1..(n - 1) : i < j => Lasts[peers[i]] < Lasts[peers[j]]
      /\ \A q \in ToSet(order) \ {p} : \E i \in 1..(n - 1) : peers[i] = q
  BY PeerTouched
<1>3. Len(order) \in Nat /\ Len(order) <= MaxEntries /\ MaxEntries \in Nat \ {0}
  BY ReplyGateAssumption DEF OrderInv
<1>4. /\ Lasts'[p] = t
      /\ \A q \in Peer \ {p} : Lasts'[q] = Lasts[q]
  BY LastRecorded
<1>5. Len(turn) \in Nat /\ Len(turn') = Len(turn) + 1
  BY DEF GateTypes, RecordTurn
<1>6. \A q \in Peer : Lasts[q] \in 0..Len(turn)
  BY DEF OrderInv
<1>7. ToSet(order) \subseteq Peer
  BY ElementType DEF OrderInv, ToSet
<1> HIDE DEF t, peers, n, gone
<1>8. over \in {0, 1} /\ over < n /\ n \in Nat \ {0}
  BY <1>2, <1>3
<1>9. gone = IF over = 0 THEN {} ELSE {peers[1]}
  BY <1>8 DEF gone
<1> HIDE DEF over
<1>10. /\ order' \in Seq(Peer) /\ Len(order') = n - over
       /\ \A i \in 1..(n - over) : order'[i] = peers[i + over]
  <2>1. n = Len(peers) /\ peers \in Seq(Peer) /\ over + 1 \in 1..n
    BY <1>2, <1>8 DEF n
  <2> QED BY <1>1, <1>8, <2>1
<1>11. Len(order') <= MaxEntries
  BY <1>2, <1>3, <1>10 DEF over
<1>12. \A q \in Peer : Lasts'[q] \in 0..Len(turn')
  BY <1>4, <1>5, <1>6 DEF t
<1>13. DOMAIN order' = 1..(n - over)
  BY <1>10
<1>14. ASSUME NEW i \in DOMAIN order', NEW j \in DOMAIN order', i < j
       PROVE  Lasts'[order'[i]] < Lasts'[order'[j]]
  <2>1. /\ i + over \in 1..(n - 1) /\ j + over \in 1..n
        /\ order'[i] = peers[i + over] /\ order'[j] = peers[j + over]
    BY <1>8, <1>10, <1>13, <1>14
  <2>2. peers[i + over] \in Peer \ {p}
    BY <1>2, <1>7, <2>1
  <2>3. CASE j + over = n
    BY <1>2, <1>4, <1>5, <1>6, <2>1, <2>2, <2>3 DEF t
  <2>4. CASE j + over # n
    <3>1. j + over \in 1..(n - 1) /\ i + over < j + over
      BY <1>8, <1>13, <1>14, <2>1, <2>4
    <3>2. peers[j + over] \in Peer \ {p}
      BY <1>2, <1>7, <3>1
    <3>3. Lasts[peers[i + over]] < Lasts[peers[j + over]]
      BY <1>2, <2>1, <3>1
    <3> QED BY <1>4, <2>1, <2>2, <3>2, <3>3
  <2> QED BY <2>3, <2>4
<1>15. ToSet(order') = (ToSet(order) \cup {p}) \ gone
  <2>1. ASSUME NEW i \in DOMAIN order'
        PROVE  order'[i] \in (ToSet(order) \cup {p}) \ gone
    <3>1. order'[i] = peers[i + over] /\ i + over \in 1..n
      BY <1>8, <1>10, <1>13, <2>1
    <3>2. peers[i + over] \in ToSet(order) \cup {p}
      BY <1>2, <3>1
    <3>3. CASE over = 0
      BY <1>9, <3>1, <3>2, <3>3
    <3>4. CASE over = 1
      <4>1. 1 \in 1..(n - 1) /\ 1 < i + over
        BY <1>2, <1>8, <1>13, <3>4
      <4>2. peers[1] \in Peer \ {p}
        BY <1>2, <1>7, <4>1
      <4>3. peers[i + over] # peers[1]
        <5>1. CASE i + over = n
          BY <1>2, <4>2, <5>1
        <5>2. CASE i + over # n
          <6>1. i + over \in 1..(n - 1)
            BY <1>2, <3>1, <5>2
          <6>2. Lasts[peers[1]] < Lasts[peers[i + over]]
            BY <1>2, <4>1, <6>1
          <6>3. Lasts[peers[1]] \in Nat
            BY <1>6, <4>2
          <6> QED BY <6>2, <6>3
        <5> QED BY <5>1, <5>2
      <4> QED BY <1>9, <3>1, <3>2, <3>4, <4>3
    <3> QED BY <1>8, <3>3, <3>4
  <2>2. ASSUME NEW q \in (ToSet(order) \cup {p}) \ gone
        PROVE  \E i \in DOMAIN order' : order'[i] = q
    <3>1. PICK k \in 1..n : peers[k] = q
      <4>1. CASE q = p
        BY <1>2, <4>1
      <4>2. CASE q # p
        <5>1. PICK k \in 1..(n - 1) : peers[k] = q
          BY <1>2, <2>2, <4>2
        <5> QED BY <1>2, <5>1
      <4> QED BY <4>1, <4>2
    <3>2. k > over
      BY <1>8, <1>9, <2>2, <3>1
    <3>3. k - over \in 1..(n - over) /\ (k - over) + over = k
      BY <1>2, <1>8, <3>1, <3>2
    <3> QED BY <1>10, <1>13, <3>1, <3>3
  <2> QED BY <2>1, <2>2 DEF ToSet
<1>16. p \notin gone
  <2>1. CASE over = 0
    BY <1>9, <2>1
  <2>2. CASE over = 1
    BY <1>2, <1>8, <1>9, <2>2
  <2> QED BY <1>8, <2>1, <2>2
\* Who is not in the order any more, or was not, wrote before all who are.
<1>17. ASSUME NEW q \in Peer \ ToSet(order'), NEW i \in DOMAIN order'
       PROVE  Lasts'[q] < Lasts'[order'[i]]
  <2>1. q # p
    BY <1>15, <1>16
  <2>2. order'[i] = peers[i + over] /\ i + over \in 1..n
    BY <1>8, <1>10, <1>13, <1>17
  <2>3. CASE i + over = n
    BY <1>2, <1>4, <1>5, <1>6, <2>1, <2>2, <2>3 DEF t
  <2>4. CASE i + over # n
    <3>1. i + over \in 1..(n - 1)
      BY <1>2, <2>2, <2>4
    <3>2. peers[i + over] \in ToSet(order) \ {p}
      BY <1>2, <3>1
    <3>3. Lasts[q] < Lasts[peers[i + over]]
      <4>1. CASE q \in gone
        <5>1. over = 1 /\ q = peers[1]
          BY <1>8, <1>9, <4>1
        <5>2. 1 \in 1..(n - 1) /\ 1 < i + over
          BY <1>8, <1>13, <1>17, <3>1, <5>1
        <5> QED BY <1>2, <3>1, <5>1, <5>2
      <4>2. CASE q \notin gone
        <5>1. q \notin ToSet(order)
          BY <1>15, <4>2
        <5>2. PICK m \in DOMAIN order : order[m] = peers[i + over]
          BY <3>2 DEF ToSet
        <5> QED BY <5>1, <5>2 DEF OrderInv
      <4> QED BY <4>1, <4>2
    <3> QED BY <1>4, <1>7, <2>1, <2>2, <3>2, <3>3
  <2> QED BY <2>3, <2>4
<1>18. /\ stored'[p] # <<>> /\ Len(stored'[p]) <= KeptTurns /\ stored'[p][1] = t
       /\ \A i, j \in DOMAIN stored'[p] : i < j => stored'[p][j] < stored'[p][i]
  <2> DEFINE new == <<t>> \o stored[p]
             m == IF Len(new) > KeptTurns THEN KeptTurns ELSE Len(new)
  <2>1. stored'[p] = Kept(new)
    BY <1>1, <1>16
  <2>2. Kept(new) = SubSeq(new, 1, m)
    BY DEF Kept, KeptTurns
  <2>3. stored[p] \in Seq(Nat) /\ t \in Nat /\ KeptTurns \in Nat \ {0}
    BY <1>5, ReplyGateAssumption DEF GateTypes, t, KeptTurns
  <2>4. /\ new \in Seq(Nat) /\ Len(new) = Len(stored[p]) + 1 /\ new[1] = t
        /\ \A i \in 2..Len(new) : new[i] = stored[p][i - 1] /\ i - 1 \in DOMAIN stored[p]
    BY <2>3
  <2>5. \A i \in DOMAIN stored[p] : stored[p][i] < t
    BY TurnType DEF GateTypes, t
  <2> HIDE DEF new
  <2>6. ASSUME NEW i \in 1..Len(new), NEW j \in 1..Len(new), i < j
        PROVE  new[j] < new[i]
    <3>1. j \in 2..Len(new)
      BY <2>4, <2>6
    <3>2. CASE i = 1
      BY <2>4, <2>5, <3>1, <3>2
    <3>3. CASE i # 1
      <4>1. i \in 2..Len(new) /\ i - 1 < j - 1
        BY <2>4, <2>6, <3>1, <3>3
      <4> QED BY <2>4, <3>1, <4>1 DEF OrderInv
    <3> QED BY <3>2, <3>3
  <2>7. m \in 1..Len(new) /\ m <= KeptTurns
    BY <2>3, <2>4
  <2> HIDE DEF m
  <2>8. /\ Len(SubSeq(new, 1, m)) = m
        /\ \A i \in 1..m : SubSeq(new, 1, m)[i] = new[i]
        /\ SubSeq(new, 1, m) # <<>> /\ DOMAIN SubSeq(new, 1, m) = 1..m
    BY <2>4, <2>7
  <2>9. DOMAIN stored'[p] = 1..m /\ \A i \in 1..m : stored'[p][i] = new[i]
    BY <2>1, <2>2, <2>8
  <2>10. 1..m \subseteq 1..Len(new) /\ 1 \in 1..m
    BY <2>4, <2>7
  <2>11. \A i, j \in DOMAIN stored'[p] : i < j => stored'[p][j] < stored'[p][i]
    BY <2>6, <2>9, <2>10
  <2> QED BY <2>1, <2>2, <2>4, <2>7, <2>8, <2>9, <2>10, <2>11
<1>19. ASSUME NEW q \in Peer
       PROVE  /\ stored'[q] # <<>> <=> q \in ToSet(order')
              /\ Len(stored'[q]) <= KeptTurns
              /\ stored'[q] # <<>> => stored'[q][1] = Lasts'[q]
              /\ \A i, j \in DOMAIN stored'[q] : i < j => stored'[q][j] < stored'[q][i]
  <2>1. CASE q = p
    BY <1>4, <1>15, <1>16, <1>18, <2>1
  <2>2. CASE q # p /\ q \in gone
    <3>1. stored'[q] = <<>> /\ q \notin ToSet(order')
      BY <1>1, <1>15, <2>2
    <3>2. KeptTurns \in Nat
      BY ReplyGateAssumption DEF KeptTurns
    <3> QED BY <3>1, <3>2
  <2>3. CASE q # p /\ q \notin gone
    <3>1. stored'[q] = stored[q] /\ (q \in ToSet(order') <=> q \in ToSet(order))
      BY <1>1, <1>15, <2>3
    <3>2. Lasts'[q] = Lasts[q]
      BY <1>4, <2>3
    <3> QED BY <3>1, <3>2 DEF OrderInv
  <2> QED BY <2>1, <2>2, <2>3
<1>20. \A q \in Peer \ ToSet(order'), i \in DOMAIN order' : Lasts'[q] < Lasts'[order'[i]]
  BY <1>17
<1>21. \A i, j \in DOMAIN order' : i < j => Lasts'[order'[i]] < Lasts'[order'[j]]
  BY <1>14
<1>22. \A q \in Peer : stored'[q] # <<>> <=> q \in ToSet(order')
  BY <1>19
<1>23. \A q \in Peer :
         /\ Len(stored'[q]) <= KeptTurns
         /\ stored'[q] # <<>> => stored'[q][1] = Lasts'[q]
         /\ \A i, j \in DOMAIN stored'[q] : i < j => stored'[q][j] < stored'[q][i]
  BY <1>19
<1> QED BY <1>10, <1>11, <1>12, <1>20, <1>21, <1>22, <1>23 DEF OrderInv

LEMMA OrderStep ==
  ASSUME GateTypes, OrderInv, [Next]_vars
  PROVE  OrderInv'
<1>1. CASE \E p \in Peer, figures \in SUBSET Figure : RecordTurn(p, figures)
  BY <1>1, OrderRecorded
<1>2. CASE UNCHANGED <<turn, order, stored>>
  <2>1. Lasts' = Lasts
    BY <1>2 DEF Lasts, LastOf
  <2> QED BY <1>2, <2>1 DEF OrderInv
<1> QED BY <1>1, <1>2
        DEF Next, vars, SeamAllows, SeamRefuses, SeamFails, HookAllows, HookRefuses,
            HookForeign, Withhold, Release, Tick

\* The bounds of the model, the marks and the message.
RestTypes ==
  /\ clock \in 0..MaxClock
  /\ \A t \in DOMAIN turn : turn[t].at \in 0..MaxClock
  /\ Len(turn) <= MaxTurns
  /\ card \subseteq DOMAIN turn /\ blocked \subseteq DOMAIN turn
  /\ handed = NoMessage \/ handed \in [turn : DOMAIN turn, text : Text \cup {SafeText}]

LEMMA RestStep ==
  ASSUME GateTypes, RestTypes, [Next]_vars
  PROVE  RestTypes'
<1>1. ASSUME NEW p \in Peer, NEW figures \in SUBSET Figure, RecordTurn(p, figures)
      PROVE  RestTypes'
  <2>1. /\ DOMAIN turn' = DOMAIN turn \cup {Len(turn) + 1}
        /\ \A t \in DOMAIN turn : turn'[t] = turn[t]
    BY <1>1, TurnAppended
  <2>2. /\ turn' = Append(turn, [peer |-> p, figures |-> figures, at |-> clock])
        /\ Len(turn) + 1 \in Turn
        /\ UNCHANGED <<clock, card, blocked, handed>>
    BY <1>1 DEF RecordTurn
  <2>3. Len(turn') = Len(turn) + 1 /\ turn'[Len(turn) + 1].at = clock /\ Len(turn') <= MaxTurns
    BY <2>2, ReplyGateAssumption DEF GateTypes, Turn
  <2>4. \A t \in DOMAIN turn' : turn'[t].at \in 0..MaxClock
    BY <2>1, <2>3 DEF RestTypes
  <2>5. handed' = NoMessage \/ handed' \in [turn : DOMAIN turn', text : Text \cup {SafeText}]
    BY <2>1, <2>2 DEF RestTypes
  <2> QED BY <2>1, <2>2, <2>3, <2>4, <2>5 DEF RestTypes
<1>2. ASSUME NEW t \in DOMAIN turn, TurnStep(t)
      PROVE  RestTypes'
  <2>1. UNCHANGED <<clock, turn>>
    BY <1>2 DEF TurnStep, SeamAllows, SeamRefuses, SeamFails, HookAllows, HookRefuses,
                Withhold, Release
  <2>2. card' \subseteq DOMAIN turn /\ blocked' \subseteq DOMAIN turn
    BY <1>2 DEF RestTypes, TurnStep, SeamAllows, SeamRefuses, SeamFails, HookAllows,
                HookRefuses, Withhold, Release, Markable, Taintable, Open
  <2>3. handed' = handed \/ handed' \in [turn : DOMAIN turn, text : Text \cup {SafeText}]
    BY <1>2 DEF TurnStep, SeamAllows, SeamRefuses, SeamFails, HookAllows, HookRefuses,
                Withhold, Release, Hand
  <2> QED BY <2>1, <2>2, <2>3 DEF RestTypes
<1>3. CASE HookForeign \/ UNCHANGED vars
  BY <1>3 DEF RestTypes, HookForeign, Taintable, Open, vars
<1>4. CASE Tick
  BY <1>4, ReplyGateAssumption DEF RestTypes, Tick
<1> QED BY <1>1, <1>2, <1>3, <1>4 DEF Next, TurnStep

-----------------------------------------------------------------------------
(* The results.                                                            *)

\* The inductive invariant: wherever a turn can still send, the marks its tool
\* calls left on it are there, and what was handed on was grounded.
THEOREM GateInvariance == Spec => []GateInv
<1>1. Init => GateInv
  BY DEF Init, GateInv, GateTypes, Marked, Tainted, Grounded, NoMessage
<1>2. GateInv /\ [Next]_vars => GateInv'
  BY TypesStep, MarksStep, GroundedStep DEF GateInv
<1> QED BY <1>1, <1>2, PTL DEF Spec

\* Whatever leaves on a turn carries only figures the user wrote in that turn,
\* and only the card of that turn.
THEOREM GroundedTheorem == Spec => []Grounded
BY GateInvariance, PTL DEF GateInv

\* The step that hands a message over: on a trusted turn, as verified, or safe.
LEMMA HandedStep ==
  ASSUME Next, handed' # handed
  PROVE  \E t \in DOMAIN turn :
           /\ Trusted(t) /\ handed'.turn = t /\ UNCHANGED <<ran, denied>>
           /\ \/ handed'.text = SafeText
              \/ Verified(t, handed'.text)
<1>1. PICK t \in DOMAIN turn : Withhold(t) \/ \E text \in Text : Release(t, text)
  BY DEF Next, RecordTurn, SeamAllows, SeamRefuses, SeamFails, HookAllows, HookRefuses,
         HookForeign, Tick
<1>2. CASE Withhold(t)
  BY <1>2 DEF Withhold, Hand
<1>3. ASSUME NEW text \in Text, Release(t, text)
      PROVE  /\ Trusted(t) /\ handed'.turn = t /\ UNCHANGED <<ran, denied>>
             /\ Verified(t, handed'.text)
  <2>1. handed'.text = text /\ handed'.turn = t
    BY <1>3 DEF Release, Hand
  <2>2. Trusted(t) /\ Verified(t, text) /\ UNCHANGED <<ran, denied>>
    BY <1>3 DEF Release
  <2> QED BY <2>1, <2>2
<1> QED BY <1>1, <1>2, <1>3

\* Once a card tool may have run on a turn no words leave on it, whichever seam
\* announced the call and whatever was evicted or expired in between.
THEOREM CardTheorem == Spec => NoWordsAfterCard
<1>1. GateInv /\ [Next]_vars =>
        [handed' # handed => ~(handed'.turn \in ran /\ handed'.text.kind = "words")]_vars
  <2> SUFFICES ASSUME GateInv, Next, handed' # handed, handed'.turn \in ran,
                      handed'.text.kind = "words"
               PROVE  FALSE
    BY DEF vars
  <2>1. PICK t \in DOMAIN turn :
          /\ Trusted(t) /\ handed'.turn = t
          /\ handed'.text = SafeText \/ Verified(t, handed'.text)
    BY HandedStep
  <2>2. t \in card
    BY <2>1 DEF GateInv, Marked
  <2> QED BY <2>1, <2>2 DEF Verified, SafeText
<1> QED BY <1>1, GateInvariance, PTL DEF Spec, NoWordsAfterCard

\* Once a card tool call was blocked on a turn nothing but SAFE_TEXT leaves on it.
THEOREM SilenceTheorem == Spec => BlockedIsSilent
<1>1. GateInv /\ [Next]_vars =>
        [handed' # handed => ~(handed'.turn \in denied /\ handed'.text # SafeText)]_vars
  <2> SUFFICES ASSUME GateInv, Next, handed' # handed, handed'.turn \in denied,
                      handed'.text # SafeText
               PROVE  FALSE
    BY DEF vars
  <2>1. PICK t \in DOMAIN turn : Trusted(t) /\ handed'.turn = t /\ Verified(t, handed'.text)
    BY HandedStep
  <2>2. t \in blocked
    BY <2>1 DEF GateInv, Tainted
  <2> QED BY <2>1, <2>2 DEF Verified
<1> QED BY <1>1, GateInvariance, PTL DEF Spec, BlockedIsSilent

\* The order of the store and the types, inductive with the types above.
LEMMA OrderInvariance == Spec => [](GateTypes /\ OrderInv /\ RestTypes)
<1>1. Init => GateTypes /\ OrderInv /\ RestTypes
  <2> SUFFICES ASSUME Init PROVE GateTypes /\ OrderInv /\ RestTypes
    OBVIOUS
  <2>1. GateTypes /\ RestTypes
    BY ReplyGateAssumption DEF Init, GateTypes, RestTypes, NoMessage
  <2>2. \A p \in Peer : Lasts[p] = 0
    BY DEF Init, Lasts, LastOf
  <2>3. Len(turn) = 0 /\ Len(order) = 0 /\ ToSet(order) = {} /\ order \in Seq(Peer)
    BY DEF Init, ToSet
  <2>4. KeptTurns \in Nat
    BY ReplyGateAssumption DEF KeptTurns
  <2> QED BY <2>1, <2>2, <2>3, <2>4, ReplyGateAssumption DEF Init, OrderInv
<1>2. GateTypes /\ OrderInv /\ RestTypes /\ [Next]_vars => (GateTypes /\ OrderInv /\ RestTypes)'
  BY TypesStep, OrderStep, RestStep
<1> QED BY <1>1, <1>2, PTL DEF Spec

\* Type correctness: the store keeps at most MaxEntries peers, each once, with at
\* most TurnsPerPeer turns, and has turns of exactly the peers in its order.
THEOREM TypeTheorem == Spec => []TypeOK
<1>1. GateTypes /\ OrderInv /\ RestTypes => TypeOK
  <2> SUFFICES ASSUME GateTypes, OrderInv, RestTypes PROVE TypeOK
    OBVIOUS
  <2>1. turn \in Seq([peer : Peer, figures : SUBSET Figure, at : 0..MaxClock])
    <3>1. \A t \in DOMAIN turn : turn[t] \in [peer : Peer, figures : SUBSET Figure, at : Nat]
      BY ElementType DEF GateTypes
    <3>2. \A t \in DOMAIN turn :
            turn[t] \in [peer : Peer, figures : SUBSET Figure, at : 0..MaxClock]
      BY <3>1 DEF RestTypes
    <3>3. turn \in Seq([peer : Peer, figures : SUBSET Figure, at : Nat])
      BY DEF GateTypes
    <3> QED BY <3>2, <3>3, Narrowed
  <2>2. IsInjective(order)
    <3> SUFFICES ASSUME NEW i \in DOMAIN order, NEW j \in DOMAIN order, order[i] = order[j],
                        i # j
                 PROVE  FALSE
      BY DEF IsInjective
    <3>1. i < j \/ j < i
      BY DEF OrderInv
    <3>2. Lasts[order[i]] \in Nat /\ Lasts[order[j]] \in Nat
      BY ElementType DEF OrderInv
    <3> QED BY <3>1, <3>2 DEF OrderInv
  <2>3. ASSUME NEW p \in Peer
        PROVE  stored[p] \in Seq(DOMAIN turn) /\ IsInjective(stored[p])
    <3>1. stored[p] \in Seq(Nat) /\ \A i \in DOMAIN stored[p] : stored[p][i] \in DOMAIN turn
      BY DEF GateTypes
    <3>2. stored[p] \in Seq(DOMAIN turn)
      BY <3>1
    <3>3. ASSUME NEW i \in DOMAIN stored[p], NEW j \in DOMAIN stored[p],
                 stored[p][i] = stored[p][j], i # j
          PROVE  FALSE
      <4>1. i < j \/ j < i
        BY <3>1, <3>3
      <4>2. stored[p][i] \in Nat
        BY <3>1, ElementType
      <4> QED BY <3>3, <4>1, <4>2 DEF OrderInv
    <3> QED BY <3>2, <3>3 DEF IsInjective
  <2>4. stored \in [Peer -> Seq(DOMAIN turn)]
    BY <2>3 DEF GateTypes
  <2> QED BY <2>1, <2>2, <2>3, <2>4 DEF GateTypes, OrderInv, RestTypes, TypeOK, KeptTurns
<1> QED BY <1>1, OrderInvariance, PTL

\* A peer is forgotten only after every peer that wrote before it, and what is
\* kept of a peer begins with the turn it wrote last.
THEOREM ForgetsTheorem == Spec => []ForgetsOldestPeer
<1>1. GateTypes /\ OrderInv => ForgetsOldestPeer
  <2> SUFFICES ASSUME GateTypes, OrderInv, NEW p \in ToSet(order)
               PROVE  /\ stored[p][1] = LastOf(p)
                      /\ \A q \in Peer \ ToSet(order) : LastOf(q) < LastOf(p)
    BY DEF ForgetsOldestPeer
  <2>1. PICK i \in DOMAIN order : order[i] = p
    BY DEF ToSet
  <2>2. p \in Peer
    BY <2>1, ElementType DEF OrderInv
  <2>3. \A q \in Peer : LastOf(q) = Lasts[q]
    BY DEF Lasts
  <2>4. stored[p] # <<>> /\ stored[p][1] = Lasts[p]
    BY <2>2 DEF OrderInv
  <2>5. \A q \in Peer \ ToSet(order) : Lasts[q] < Lasts[p]
    BY <2>1 DEF OrderInv
  <2> QED BY <2>2, <2>3, <2>4, <2>5
<1> QED BY <1>1, OrderInvariance, PTL
=============================================================================
