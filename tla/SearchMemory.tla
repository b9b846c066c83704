---------------------------- MODULE SearchMemory ----------------------------
(***************************************************************************)
(* What search_listings remembers of each sender (memory/store.py and      *)
(* merge.py, and the search body of mcp_server/server.py).                 *)
(*                                                                         *)
(* Tool calls run on threads.  A call with a sender key holds that key's   *)
(* lock from the read of the session to its write; the locks are made and  *)
(* dropped as calls come and go.  The lookup of a position (recommend)     *)
(* reads a session without it, and other senders' sessions evict each      *)
(* other.  A call without a key touches none of this.                      *)
(*                                                                         *)
(* Filters are the set of the fields they give and a page.                 *)
(***************************************************************************)
EXTENDS Naturals, Sequences, SequencesExt, FiniteSets

CONSTANTS
  Sender,       \* sender keys
  Call,         \* threads of the tool server
  Lock,         \* places for lock objects
  MaxSessions,  \* the cap of the store: 1000
  SessionTtl,   \* the idle TTL: 30 minutes
  MaxPage,      \* the last allowed page: 1000
  Request,      \* Request[s]: the requests of sender s that are considered
  None          \* no session, no lock, no thread

Field == {"city", "postal_code", "features"}
Mode == {"replace", "update", "more", "reset"}

\* What a call asks for; page 0: none given.
Asked == [mode : Mode, given : SUBSET Field, page : 0..MaxPage, clear : SUBSET Field]

ASSUME MemoryAssumption ==
  /\ Request \in [Sender -> SUBSET Asked]
  /\ MaxSessions \in Nat \ {0} /\ SessionTtl \in Nat \ {0} /\ MaxPage \in Nat \ {0}
  /\ None \notin Sender \cup Call \cup Lock
  /\ IsFiniteSet(Call) /\ Cardinality(Lock) > Cardinality(Call)

VARIABLES
  sessions,  \* the store, oldest put first
  entry,     \* entry[s]: the lock of key s and the calls that use it
  holder,    \* holder[l]: the call that holds lock l
  call,      \* call[c]: what thread c does
  last       \* last[s]: history, the last page of listings shown to s

memVars == <<sessions, entry, holder, call, last>>

NoEntry == [lock |-> None, users |-> 0]
NoFilters == [fields |-> {}, page |-> 0]
NoRequest == [mode |-> "replace", given |-> {}, page |-> 0, clear |-> {}]
NoSession == [fields |-> {}, page |-> 0, refused |-> FALSE]
Idle == [at |-> "idle", key |-> None, lock |-> None, req |-> NoRequest,
         found |-> NoSession, wanted |-> NoFilters]

Filters == [fields : SUBSET Field, page : 0..MaxPage]

\* Types, and the cap of the store, which has one session of a sender.
MemTypeOK ==
  /\ sessions \in Seq([key : Sender, fields : SUBSET Field, page : 1..MaxPage,
                       refused : BOOLEAN, age : 0..SessionTtl])
  /\ Len(sessions) <= MaxSessions
  /\ \A i, j \in DOMAIN sessions : sessions[i].key = sessions[j].key => i = j
  /\ entry \in [Sender -> [lock : Lock \cup {None}, users : 0..Cardinality(Call)]]
  /\ holder \in [Lock -> Call \cup {None}]
  /\ call \in [Call -> [at : {"idle", "wait", "search", "leave", "drop"},
                        key : Sender \cup {None}, lock : Lock \cup {None},
                        req : Asked,
                        found : [fields : SUBSET Field, page : 0..MaxPage,
                                 refused : BOOLEAN],
                        wanted : Filters]]
  /\ last \in [Sender -> Filters]

MemInit ==
  /\ sessions = <<>>
  /\ entry = [s \in Sender |-> NoEntry]
  /\ holder = [l \in Lock |-> None]
  /\ call = [c \in Call |-> Idle]
  /\ last = [s \in Sender |-> NoFilters]
-----------------------------------------------------------------------------
(* The store.                                                              *)

\* The store with no session of sender s, which has one at most.
Without(s) ==
  LET of == {i \in DOMAIN sessions : sessions[i].key = s}
  IN  IF of = {} THEN sessions ELSE RemoveAt(sessions, CHOOSE i \in of : TRUE)

Live(s) == {i \in DOMAIN sessions : sessions[i].key = s /\ sessions[i].age < SessionTtl}

\* The store after a `get`, which drops an expired session.
AfterGet(s) == IF Live(s) = {} THEN Without(s) ELSE sessions

Got(s) ==
  IF Live(s) = {} THEN NoSession
  ELSE LET e == sessions[CHOOSE i \in Live(s) : TRUE]
       IN [fields |-> e.fields, page |-> e.page, refused |-> e.refused]

\* Past the cap the session put longest ago goes.
Put(s, filters, refused) ==
  LET new == Append(Without(s),
               [key |-> s, fields |-> filters.fields, page |-> filters.page,
                refused |-> refused, age |-> 0])
  IN sessions' = IF Len(new) > MaxSessions THEN Tail(new) ELSE new
-----------------------------------------------------------------------------
(* Which filters a call searches with.                                     *)

\* A new city drops the old ZIP and the reverse.
Paired(given) ==
  {f \in {"city", "postal_code"} : given \cap ({"city", "postal_code"} \ {f}) # {}}

Merged(previous, given, clear) == ((previous \ clear) \ Paired(given)) \cup given

PageOr1(page) == IF page = 0 THEN 1 ELSE page

\* Mutant: a refused search is not told apart.
ResolvedNextAlways(found, req) ==
  IF req.mode = "more" THEN [fields |-> found.fields, page |-> found.page + 1]
  ELSE IF req.mode = "update" /\ found # NoSession
  THEN [fields |-> Merged(found.fields, req.given, req.clear), page |-> PageOr1(req.page)]
  ELSE [fields |-> req.given, page |-> PageOr1(req.page)]

\* `found` is the session the call read, NoSession without one.
Resolved(found, req) ==
  IF req.mode = "more"
  THEN [fields |-> found.fields,
        page   |-> IF found.refused THEN found.page ELSE found.page + 1]
  ELSE IF req.mode = "update" /\ found # NoSession
  THEN [fields |-> Merged(found.fields, req.given, req.clear), page |-> PageOr1(req.page)]
  ELSE [fields |-> req.given, page |-> PageOr1(req.page)]

\* Anything else is a Clarification: no place to search in, or a page too far.
Acceptable(filters) ==
  filters.fields \cap {"city", "postal_code"} # {} /\ filters.page <= MaxPage
\* What a call that is done with the store still is.
Done(c) == [Idle EXCEPT !.at = "leave", !.key = call[c].key, !.lock = call[c].lock]
-----------------------------------------------------------------------------
(* A call.                                                                 *)

FreshLock ==
  CHOOSE l \in Lock :
    (\A s \in Sender : entry[s].lock # l) /\ (\A c \in Call : call[c].lock # l)

\* The call registers with its key's lock and waits for it.
Enter(c, s, req) ==
  /\ call[c].at = "idle"
  /\ LET l == IF entry[s] = NoEntry THEN FreshLock ELSE entry[s].lock
     IN /\ entry' = [entry EXCEPT ![s] = [lock |-> l, users |-> @.users + 1]]
        /\ call' = [call EXCEPT ![c] = [Idle EXCEPT !.at = "wait", !.key = s, !.lock = l,
                                                    !.req = req]]
  /\ UNCHANGED <<sessions, holder, last>>

\* The call gets the lock.  (Nobody of the same sender comes between that and the
\* first access to the store.)
Locks(c) ==
  /\ call[c].at = "wait" /\ holder[call[c].lock] = None
  /\ holder' = [holder EXCEPT ![call[c].lock] = c]
  /\ UNCHANGED <<entry, last>>

ResetsOnly(req) == req.mode = "reset" /\ req.given = {} /\ req.page = 0

\* Reset with no filters: the session goes.
Reset(c) ==
  /\ Locks(c) /\ ResetsOnly(call[c].req)
  /\ sessions' = Without(call[c].key)
  /\ call' = [call EXCEPT ![c] = Done(c)]

\* The session is read (a reset reads none) and merged: a search, or a Clarification.
Read(c) ==
  LET req    == call[c].req
      found  == IF req.mode = "reset" THEN NoSession ELSE Got(call[c].key)
      wanted == Resolved(found, req)
  IN /\ Locks(c) /\ ~ResetsOnly(req)
     /\ sessions' = IF req.mode = "reset" THEN sessions ELSE AfterGet(call[c].key)
     /\ call' = [call EXCEPT ![c] =
                   IF Acceptable(wanted)
                   THEN [@ EXCEPT !.at = "search", !.found = found, !.wanted = wanted]
                   ELSE Done(c)]

Answers(c) ==
  /\ call[c].at = "search"
  /\ call' = [call EXCEPT ![c] = Done(c)]
  /\ UNCHANGED <<entry, holder>>

\* The database or the feature store fails: the state is untouched.
Fails(c) ==
  /\ Answers(c)
  /\ UNCHANGED <<sessions, last>>

\* A feature search without a usable store is refused; a later page is not stored.
Refuse(c) ==
  /\ Answers(c) /\ "features" \in call[c].wanted.fields
  /\ IF call[c].wanted.page = 1
     THEN Put(call[c].key, call[c].wanted, TRUE) ELSE sessions' = sessions
  /\ last' = last

\* The page has listings, or is the first.
Show(c) ==
  /\ Answers(c)
  /\ Put(call[c].key, call[c].wanted, FALSE)
  /\ last' = [last EXCEPT ![call[c].key] = call[c].wanted]

\* An empty page past the first is never stored; after a reset nothing is kept.
EmptyPage(c) ==
  /\ Answers(c) /\ call[c].wanted.page > 1
  /\ sessions' = IF call[c].req.mode = "reset" THEN Without(call[c].key) ELSE sessions
  /\ last' = last

Unlock(c) ==
  /\ call[c].at = "leave"
  /\ holder' = [holder EXCEPT ![call[c].lock] = None]
  /\ call' = [call EXCEPT ![c].at = "drop"]
  /\ UNCHANGED <<sessions, entry, last>>

\* Mutant: the entry goes with the first call that leaves.
LeaveDropping(c) ==
  LET s == call[c].key IN
  /\ call[c].at = "drop"
  /\ entry' = [entry EXCEPT ![s] = NoEntry]
  /\ call' = [call EXCEPT ![c] = Idle]
  /\ UNCHANGED <<sessions, holder, last>>

\* The last call to leave drops the key's lock.
Leave(c) ==
  LET s == call[c].key IN
  /\ call[c].at = "drop"
  /\ entry' = [entry EXCEPT ![s] = IF @.users = 1 THEN NoEntry
                                   ELSE [lock |-> @.lock, users |-> @.users - 1]]
  /\ call' = [call EXCEPT ![c] = Idle]
  /\ UNCHANGED <<sessions, holder, last>>

\* recommend looks a position up in the sender's last result.
LookUp(s) ==
  /\ sessions' = AfterGet(s)
  /\ UNCHANGED <<entry, holder, call, last>>

MemTick ==
  /\ \E i \in DOMAIN sessions : sessions[i].age < SessionTtl
  /\ sessions' = [i \in DOMAIN sessions |->
       [sessions[i] EXCEPT !.age = IF @ < SessionTtl THEN @ + 1 ELSE @]]
  /\ UNCHANGED <<entry, holder, call, last>>

MemStep(c) ==
  \/ Reset(c) \/ Read(c) \/ Fails(c) \/ Refuse(c) \/ Show(c) \/ EmptyPage(c)
  \/ Unlock(c) \/ Leave(c)

MemNext ==
  \/ \E c \in Call, s \in Sender : \E req \in Request[s] : Enter(c, s, req)
  \/ \E c \in Call : MemStep(c)
  \/ \E s \in Sender : LookUp(s)
  \/ MemTick

MemSpec == MemInit /\ [][MemNext]_memVars
-----------------------------------------------------------------------------
(* Properties.                                                             *)

\* "Calls for one sender key run one at a time, so a reset is never undone by a
\* search already in flight": no two of them are between lock and unlock although
\* the locks come and go, and what a search read is still there when it writes,
\* unless it was evicted or has expired.
OneAtATime ==
  /\ \A c, d \in Call :
       {call[c].at, call[d].at} \subseteq {"search", "leave"} /\ call[c].key = call[d].key
         => c = d
  /\ \A c \in Call :
       call[c].at = "search" /\ call[c].req.mode # "reset"
         => \A e \in {sessions[i] : i \in DOMAIN sessions} :
              e.key = call[c].key
                => call[c].found =
                     [fields |-> e.fields, page |-> e.page, refused |-> e.refused]

\* "more" goes through the pages one by one: it searches a first page, or the page
\* after the one last shown to this sender, under the same filters; refused, failed
\* and empty pages in between are not skipped.
NoPageSkipped ==
  \A c \in Call :
    call[c].at = "search" /\ call[c].req.mode = "more" /\ call[c].wanted.page > 1
      => last[call[c].key] = [call[c].wanted EXCEPT !.page = @ - 1]
=============================================================================
