----------------------------- MODULE HandedLock -----------------------------
(***************************************************************************)
(* What a critical section promises: a recursive lock that one thread has  *)
(* at a time and that is handed over. A thread that cannot have it waits,  *)
(* and a lock that is left while threads wait goes to one of them, never   *)
(* to a thread that comes later.                                           *)
(***************************************************************************)
EXTENDS Naturals

CONSTANT Threads

VARIABLES
  entries,   \* per thread: its entries that it has not left
  waiting,   \* the threads that wait
  handed,    \* the lock is on its way to one of them
  broken     \* all promises are off

vars == <<entries, waiting, handed, broken>>

IsFree == ~handed /\ \A t \in Threads : entries[t] = 0

Init ==
  /\ entries = [t \in Threads |-> 0] /\ waiting = {}
  /\ ~handed /\ ~broken

\* A lock that is free has no waiters: nobody overtakes them.
Acquire(t) ==
  /\ IsFree /\ waiting = {}
  /\ entries' = [entries EXCEPT ![t] = 1]
  /\ UNCHANGED <<waiting, handed, broken>>

Wait(t) ==
  /\ ~IsFree /\ entries[t] = 0 /\ t \notin waiting
  /\ waiting' = waiting \union {t}
  /\ UNCHANGED <<entries, handed, broken>>

Receive(t) ==
  /\ handed /\ t \in waiting
  /\ handed' = FALSE /\ waiting' = waiting \ {t}
  /\ entries' = [entries EXCEPT ![t] = 1]
  /\ UNCHANGED broken

EnterAgain(t) ==
  /\ entries[t] > 0
  /\ entries' = [entries EXCEPT ![t] = @ + 1]
  /\ UNCHANGED <<waiting, handed, broken>>

Leave(t) ==
  /\ entries[t] > 0
  /\ entries' = [entries EXCEPT ![t] = @ - 1]
  /\ handed' = (entries[t] = 1 /\ waiting # {})
  /\ UNCHANGED <<waiting, broken>>

Break == broken' = TRUE

Next ==
  \/ \E t \in Threads :
       Acquire(t) \/ Wait(t) \/ Receive(t) \/ EnterAgain(t) \/ Leave(t)
  \/ Break

Spec == Init /\ [][Next]_vars
=============================================================================
