---------------------------- MODULE WorkerSlots ----------------------------
(***************************************************************************)
(* The container runs of the analysis worker (analysis/executor.py).       *)
(*                                                                         *)
(* A run takes one of MAX_CONCURRENT slots, starts a docker client that    *)
(* asks the daemon for a container, reads its output until a wall-clock    *)
(* deadline and cleans up: the client is killed, the container removed,    *)
(* and the slot freed.  When the removal is not confirmed, the slot is     *)
(* freed by a timer set past the container's own deadline.  It is taken    *)
(* for confirmed when an inspect exits with an error, whatever the error.  *)
(*                                                                         *)
(* The daemon is external: it may start a container late, end it at any    *)
(* time, refuse a command or not answer. The container's own timer is      *)
(* process 1 inside it, counts from the container's start and is taken to  *)
(* be exact. Time is measured from the moment a run starts its client.     *)
(***************************************************************************)
EXTENDS Naturals, FiniteSets

CONSTANTS
  Run,            \* runs in progress, and places for runs to come
  MaxConcurrent,  \* slots: 2 in the code
  WallClock,      \* how long a run may read: 30 s
  Grace,          \* what the container's own deadline adds: 5 s
  RemoveTimeout,  \* bound on a removal, and on waiting for the client: 10 s
  StartDelay      \* how long the daemon may take to start a container

ASSUME ConstantsAssumption ==
  /\ {MaxConcurrent, WallClock, Grace, RemoveTimeout} \subseteq Nat \ {0}
  /\ StartDelay \in 0..WallClock
  /\ IsFiniteSet(Run)

VARIABLES
  free,    \* the semaphore
  pc,      \* pc[r]: where run r is
  age,     \* age[r]: time since r started its client
  box,     \* box[r]: its container, as the daemon knows it
  up,      \* up[r]: how long the container has been running
  misread  \* the runs whose container was there when an inspect of it failed
           \* and was read as "gone"; only the properties look at it

vars == <<free, pc, age, box, up, misread>>

\* The container's own deadline, from its start.
BoxDeadline == WallClock + Grace

\* When the slot of a run whose container may still be there is freed.
HoldUntil == WallClock + Grace + RemoveTimeout

\* A run's clean-up is over by then: the client is waited for, then the removal.
CleanBy == WallClock + 2 * RemoveTimeout

\* Ages past this one are not told apart.
MaxAge == IF HoldUntil > CleanBy THEN HoldUntil ELSE CleanBy

TypeOK ==
  /\ free \in 0..MaxConcurrent
  /\ pc \in [Run -> {"new", "slot", "client", "cleanup", "held", "done"}]
  /\ age \in [Run -> 0..MaxAge]
  /\ box \in [Run -> {"none", "asked", "up", "gone"}]
  /\ up \in [Run -> 0..BoxDeadline]
  /\ misread \subseteq Run

Init ==
  /\ free = MaxConcurrent
  /\ pc = [r \in Run |-> "new"]
  /\ age = [r \in Run |-> 0]
  /\ box = [r \in Run |-> "none"]
  /\ up = [r \in Run |-> 0]
  /\ misread = {}
-----------------------------------------------------------------------------
Goto(r, to) == pc' = [pc EXCEPT ![r] = to]

\* The run is over and its slot is free.  Its age is not needed any more.
Finish(r) ==
  /\ Goto(r, "done") /\ free' = free + 1
  /\ age' = [age EXCEPT ![r] = 0]

Acquire(r) ==
  /\ pc[r] = "new" /\ free > 0
  /\ free' = free - 1 /\ Goto(r, "slot")
  /\ UNCHANGED <<age, box, up, misread>>

\* The image is not there, or no slot came free while the run waited.
Refuse(r) ==
  /\ pc[r] = "new"
  /\ Goto(r, "done")
  /\ UNCHANGED <<free, age, box, up, misread>>

\* The inputs cannot be written, or the client cannot be started: no container.
NotLaunched(r) ==
  /\ pc[r] = "slot"
  /\ Finish(r)
  /\ UNCHANGED <<box, up, misread>>

Launch(r) ==
  /\ pc[r] = "slot"
  /\ Goto(r, "client")
  /\ box' = [box EXCEPT ![r] = "asked"]
  /\ UNCHANGED <<free, age, up, misread>>

\* The reading ends: the client exits, the output is too large, the wall clock
\* strikes or the caller is interrupted.
Collect(r) ==
  /\ pc[r] = "client"
  /\ Goto(r, "cleanup")
  /\ UNCHANGED <<free, age, box, up, misread>>

\* The container is confirmed gone; one not started yet never will be.
Removed(r) ==
  /\ pc[r] = "cleanup"
  /\ Finish(r)
  /\ box' = [box EXCEPT ![r] = "gone"]
  /\ UNCHANGED <<up, misread>>

\* The removal fails and so does the inspect that would show it (the daemon cannot
\* be reached): the slot is freed, and the container stays or starts later on.
RemovedUnseen(r) ==
  /\ pc[r] = "cleanup" /\ box[r] \in {"asked", "up"}
  /\ Finish(r)
  /\ misread' = misread \cup {r}
  /\ UNCHANGED <<box, up>>

\* Mutant: the slot is freed whether or not the container is gone.
NotRemovedFree(r) ==
  /\ pc[r] = "cleanup"
  /\ Finish(r)
  /\ UNCHANGED <<box, up, misread>>

\* Mutant: the slot of a container that may be left is given up.
NotRemovedLost(r) ==
  /\ pc[r] = "cleanup"
  /\ Goto(r, "done")
  /\ UNCHANGED <<free, age, box, up, misread>>

\* Mutant: the slot is freed now, and by the timer again.
NotRemovedTwice(r) ==
  /\ pc[r] = "cleanup"
  /\ Goto(r, "held") /\ free' = free + 1
  /\ UNCHANGED <<age, box, up, misread>>

\* The removal fails or is not confirmed, whatever became of the container.
NotRemoved(r) ==
  /\ pc[r] = "cleanup"
  /\ Goto(r, "held")
  /\ UNCHANGED <<free, age, box, up, misread>>

\* Mutant: the timer looks for the container first.
ReleaseLaterIfUp(r) ==
  /\ pc[r] = "held" /\ age[r] >= HoldUntil /\ box[r] = "up"
  /\ Finish(r)
  /\ UNCHANGED <<box, up, misread>>

\* The timer that frees the slot.
ReleaseLater(r) ==
  /\ pc[r] = "held" /\ age[r] >= HoldUntil
  /\ Finish(r)
  /\ UNCHANGED <<box, up, misread>>

\* The place is used for another run.
Again(r) ==
  /\ pc[r] = "done" /\ box[r] \in {"none", "gone"}
  /\ Goto(r, "new")
  /\ up' = [up EXCEPT ![r] = 0]
  /\ box' = [box EXCEPT ![r] = "none"]
  /\ misread' = misread \ {r}
  /\ UNCHANGED <<free, age>>
-----------------------------------------------------------------------------
(* The daemon and the time.                                                *)

BoxStarts(r) ==
  /\ box[r] = "asked" /\ age[r] <= StartDelay
  /\ box' = [box EXCEPT ![r] = "up"]
  /\ UNCHANGED <<free, pc, age, up, misread>>

\* The worker ends, its timer strikes, or the daemon gives up starting it.
BoxEnds(r) ==
  /\ box[r] \in {"asked", "up"}
  /\ box' = [box EXCEPT ![r] = "gone"]
  /\ UNCHANGED <<free, pc, age, up, misread>>

\* Time does not pass a deadline that somebody keeps.
Tick ==
  /\ \A r \in Run :
       /\ ~(box[r] = "up" /\ up[r] = BoxDeadline)
       /\ ~(pc[r] = "client" /\ age[r] = WallClock)
       /\ ~(pc[r] = "cleanup" /\ age[r] = CleanBy)
       /\ ~(box[r] = "asked" /\ age[r] > StartDelay)
  /\ age' = [r \in Run |->
               IF pc[r] \in {"client", "cleanup", "held"} /\ age[r] < MaxAge
               THEN age[r] + 1 ELSE age[r]]
  /\ up' = [r \in Run |-> IF box[r] = "up" THEN up[r] + 1 ELSE up[r]]
  /\ <<age, up>>' # <<age, up>>
  /\ UNCHANGED <<free, pc, box, misread>>

Step(r) ==
  \/ Acquire(r) \/ Refuse(r) \/ NotLaunched(r) \/ Launch(r) \/ Collect(r)
  \/ Removed(r) \/ RemovedUnseen(r) \/ NotRemoved(r) \/ ReleaseLater(r)

Next ==
  \/ \E r \in Run : Step(r) \/ Again(r) \/ BoxStarts(r) \/ BoxEnds(r)
  \/ Tick

\* A run's own steps come (every wait in them has a timeout, and the timer of a
\* held slot is a thread of the process), containers end by their timer, and
\* time goes on.
Spec ==
  /\ Init /\ [][Next]_vars
  /\ \A r \in Run : WF_vars(Step(r)) /\ WF_vars(BoxEnds(r))
  /\ WF_vars(Tick)
-----------------------------------------------------------------------------
(* Properties.                                                             *)

\* No more containers run than there are slots, also while runs that lost
\* theirs are replaced by new ones ("so the two-run cap still holds"), but for
\* those that an inspect which failed declared gone: whatever else fails, and
\* however many of those there are, they are the only ones over the cap.
CapHolds == Cardinality({r \in Run : box[r] = "up"} \ misread) <= MaxConcurrent

\* Every slot that is not free belongs to one run, so none is lost and none is
\* freed twice.
SlotsAddUp ==
  free + Cardinality({r \in Run : pc[r] \in {"slot", "client", "cleanup", "held"}})
    = MaxConcurrent

\* A slot that was taken comes back, also when the daemon never answers.
SlotComesBack == \A r \in Run : pc[r] = "slot" ~> pc[r] = "done"
=============================================================================
