----------------------------- MODULE Dispatcher -----------------------------
(***************************************************************************)
(* What the kernel promises of its waits: a wait is satisfied in one step, *)
(* which takes everything it takes at once and nothing when it fails; a    *)
(* wait-any takes the first signaled object of its list; a wait that is    *)
(* not alertable times out only when it is not satisfied.                  *)
(***************************************************************************)
EXTENDS WaitObjects

CONSTANT NoRequest
VARIABLES objects, waiting

vars == <<objects, waiting>>

Init ==
  /\ objects \in [Objects -> Object]
  /\ waiting = [t \in Threads |-> NoRequest]

Begin(t) ==
  /\ waiting[t] = NoRequest
  /\ \E r \in Requests[t] : waiting' = [waiting EXCEPT ![t] = r]
  /\ UNCHANGED objects

Grant(t) ==
  /\ waiting[t] # NoRequest
  /\ \E w \in Grants(waiting[t], objects, t) :
       objects' = [o \in Objects |->
         IF \E i \in DOMAIN w : w[i] = o THEN Acquired(o, objects[o], t) ELSE objects[o]]
  /\ waiting' = [waiting EXCEPT ![t] = NoRequest]

GiveUp(t) ==
  /\ waiting[t] # NoRequest
  /\ waiting[t].alertable \/ (waiting[t].timed /\ Grants(waiting[t], objects, t) = {})
  /\ waiting' = [waiting EXCEPT ![t] = NoRequest]
  /\ UNCHANGED objects

\* SignalAndWait signals one object as its wait begins.
Signal(t) ==
  /\ waiting[t] = NoRequest
  /\ \E o \in Objects, n \in 1 .. MaximumCount :
       /\ MaySignal(o, objects[o], t, n)
       /\ objects' = [objects EXCEPT ![o] = SignaledBy(o, @, n)]
  /\ waiting' \in {waiting} \cup {[waiting EXCEPT ![t] = r] : r \in Requests[t]}

Reset ==
  /\ \E e \in Events : objects' = [objects EXCEPT ![e].state = 0]
  /\ UNCHANGED waiting

Next == Reset \/ \E t \in Threads : Begin(t) \/ Grant(t) \/ GiveUp(t) \/ Signal(t)

Spec == Init /\ [][Next]_vars
=============================================================================
