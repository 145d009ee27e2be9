---------------------------- MODULE WaitObjects ----------------------------
(***************************************************************************)
(* The kernel objects a thread can wait for, as values: when an object is  *)
(* signaled for a thread and what a satisfied wait makes of it             *)
(* (signaled() and post_execution() of PosixCondition<Event>, <Semaphore>  *)
(* and <Mutant>).  The state is signal_ as 0 or 1, or count_.              *)
(***************************************************************************)
EXTENDS Naturals, Sequences

CONSTANTS Threads, Nobody,
          ManualReset, AutoReset,        \* events
          Semaphores, Mutants,
          MaximumCount,        \* of a semaphore
          Requests             \* per thread: the waits it issues

Events == ManualReset \cup AutoReset
Objects == Events \cup Semaphores \cup Mutants

\* A wait names each of its objects once.
ASSUME WaitAssumption ==
  /\ Nobody \notin Threads
  /\ \A t \in Threads : Nobody \notin Requests[t]
  /\ AutoReset \cap ManualReset = {} /\ Semaphores \cap Events = {}
  /\ Mutants \cap (Events \cup Semaphores) = {}
  /\ MaximumCount \in Nat \ {0}
  /\ \A t \in Threads : \A r \in Requests[t] :
       /\ r.handles \in Seq(Objects) /\ r.handles # <<>>
       /\ {r.all, r.timed, r.alertable} \subseteq BOOLEAN
       /\ \A i, j \in DOMAIN r.handles : r.handles[i] = r.handles[j] => i = j

\* An object: its state and, for a mutant that is held, its owner.  (The code leaves
\* owner_ as it is in a free mutant, and does not look at it.)
Object == [state : Nat, owner : Threads \cup {Nobody}]

Signaled(o, x, t) ==
  IF o \in Mutants THEN x.state = 0 \/ x.owner = t ELSE x.state > 0

Acquired(o, x, t) ==
  CASE o \in ManualReset -> x
    [] o \in AutoReset -> [x EXCEPT !.state = 0]
    [] o \in Semaphores -> [x EXCEPT !.state = @ - 1]
    [] o \in Mutants -> [state |-> x.state + 1, owner |-> t]

\* Signal(): set an event, release a semaphore by n or a mutant once.
MaySignal(o, x, t, n) ==
  CASE o \in Events -> n = 1
    [] o \in Semaphores -> n <= MaximumCount - x.state
    [] o \in Mutants -> n = 1 /\ x.owner = t /\ x.state > 0
SignaledBy(o, x, n) ==
  CASE o \in Events -> [x EXCEPT !.state = 1]
    [] o \in Semaphores -> [x EXCEPT !.state = @ + n]
    [] o \in Mutants -> [state |-> x.state - 1, owner |-> IF x.state = 1 THEN Nobody ELSE x.owner]

\* What a scan of the objects x may take for a request: all of its objects, or the
\* first that is signaled; nothing while it is not satisfied.
Grants(r, x, t) ==
  LET OK(i) == Signaled(r.handles[i], x[r.handles[i]], t)
      First == {i \in DOMAIN r.handles : OK(i) /\ \A j \in 1 .. i - 1 : ~OK(j)}
  IN IF r.all THEN {w \in {r.handles} : \A i \in DOMAIN w : OK(i)}
              ELSE {<<r.handles[i]>> : i \in First}
=============================================================================
