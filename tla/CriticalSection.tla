--------------------------- MODULE CriticalSection ---------------------------
(***************************************************************************)
(* A guest critical section (X_RTL_CRITICAL_SECTION and the Rtl*Critical-  *)
(* Section calls in src/kernel/xboxkrnl/xboxkrnl_rtl.cpp), one step per    *)
(* access to the object in guest memory.                                   *)
(*                                                                         *)
(* lock_count is changed with atomic operations; recursion_count and       *)
(* owning_thread with plain ones. A thread that finds the section taken    *)
(* waits for the auto-reset event in the object's header, which the        *)
(* leaving thread sets: the section is handed over.                        *)
(*                                                                         *)
(* RtlEnterCriticalSection first repairs what it takes for an orphaned     *)
(* object, reading the fields one by one, and does not look at the status  *)
(* of its wait, which ends after 30 ms on the render workers. The history  *)
(* variable "intruded" says that a repair or an expired wait hit a section *)
(* that was in use. From then on two threads may use the plain fields at   *)
(* once, which is a data race: each access stays atomic here.              *)
(*                                                                         *)
(* The guest calls RtlLeaveCriticalSection as often as it has entered. The *)
(* ledger that each call writes is not part of this module.                *)
(***************************************************************************)
EXTENDS Integers, FiniteSets

CONSTANTS
  Threads,     \* the guest threads that use the section
  Workers,     \* those among them whose waits expire (start 0x821A4A68)
  NoThread,    \* owning_thread = 0
  MaxDepth,    \* bound on the recursion of one thread
  MaxCalls     \* bound on the calls of Enter and TryEnter

ASSUME ThreadAssumption ==
  IsFiniteSet(Threads) /\ Workers \subseteq Threads /\ NoThread \notin Threads
ASSUME BoundAssumption == MaxDepth \in Nat \ {0} /\ MaxCalls \in Nat

VARIABLES
  lock_count, recursion_count, owning_thread,   \* the object's fields
  signaled,    \* the event of the object's header is set
  pc,          \* per thread: the access that comes next
  depth,       \* per thread: how often it has entered and not left
  calls,       \* calls of Enter and TryEnter so far (the bound)
  embedded,    \* never changes: the object is embedded data, lock_count 0
  intruded     \* history: a section in use was repaired, or not waited for

object == <<lock_count, recursion_count, owning_thread>>
vars == <<lock_count, recursion_count, owning_thread, signaled, pc, depth, calls,
          embedded, intruded>>

\* The thread has the section, or is about to say so in the object.
Admitted == {"check_owner", "drop_owner", "drop_recursion", "take_owner",
             "take_recursion"}
Leaving == {"leave_owner", "leave_recursion", "leave_nested", "leave_clear",
            "leave_count", "leave_set"}
Steps == Admitted \union Leaving \union
  {"out", "orphan_count", "orphan_owner", "orphan_recursion", "orphan_cas",
   "stale_count", "stale_owner", "clear_owner", "clear_recursion", "own", "spin",
   "inc", "wait", "try_cas", "try_owner", "reenter_count", "reenter_recursion",
   "reset"}

FlagsOK == signaled \in BOOLEAN /\ embedded \in BOOLEAN /\ intruded \in BOOLEAN

TypeOK ==
  /\ lock_count \in Int /\ recursion_count \in Nat
  /\ owning_thread \in Threads \union {NoThread}
  /\ pc \in [Threads -> Steps]
  /\ depth \in [Threads -> Nat]
  /\ calls \in 0..MaxCalls
  /\ FlagsOK

Init ==
  /\ embedded \in BOOLEAN
  /\ lock_count = IF embedded THEN 0 ELSE -1
  /\ recursion_count = 0 /\ owning_thread = NoThread
  /\ signaled = FALSE
  /\ pc = [t \in Threads |-> "out"]
  /\ depth = [t \in Threads |-> 0]
  /\ calls = 0 /\ intruded = FALSE

\* The section is t's: from its admission to the end of its last Leave.
Has(t) == pc[t] \in Admitted \union Leaving \/ depth[t] > 0
InUse == signaled \/ \E t \in Threads : Has(t)
Waiting == {t \in Threads : pc[t] = "wait"}

Goto(t, from, to) == pc[t] = from /\ pc' = [pc EXCEPT ![t] = to]
Branch(t, from, test, yes, no) == Goto(t, from, IF test THEN yes ELSE no)

-----------------------------------------------------------------------------
(* RtlEnterCriticalSection: the repairs.                                   *)

CallEnter(t) ==
  /\ depth[t] < MaxDepth /\ calls < MaxCalls
  /\ Goto(t, "out", "orphan_count")
  /\ calls' = calls + 1
  /\ UNCHANGED <<object, signaled, depth, embedded, intruded>>

\* The tests of "lock_count == 0 && owning_thread == 0 && recursion_count == 0"
\* and of "lock_count == -1 && owning_thread != 0".
TestOrphan(t) ==
  /\ \/ Branch(t, "orphan_count", lock_count = 0, "orphan_owner", "stale_count")
     \/ Branch(t, "orphan_owner", owning_thread = NoThread, "orphan_recursion",
               "stale_count")
     \/ Branch(t, "orphan_recursion", recursion_count = 0, "orphan_cas",
               "stale_count")
  /\ UNCHANGED <<object, signaled, depth, calls, embedded, intruded>>

RepairOrphan(t) ==
  /\ Goto(t, "orphan_cas", "stale_count")
  /\ IF lock_count = 0
     THEN lock_count' = -1 /\ intruded' = (intruded \/ InUse)
     ELSE UNCHANGED <<lock_count, intruded>>
  /\ UNCHANGED <<recursion_count, owning_thread, signaled, depth, calls, embedded>>

TestStale(t) ==
  /\ \/ Branch(t, "stale_count", lock_count = -1, "stale_owner", "own")
     \/ Branch(t, "stale_owner", owning_thread # NoThread, "clear_owner", "own")
  /\ UNCHANGED <<object, signaled, depth, calls, embedded, intruded>>

RepairStaleOwner(t) ==
  /\ Goto(t, "clear_owner", "clear_recursion")
  /\ owning_thread' = NoThread
  /\ intruded' = (intruded \/ InUse)
  /\ UNCHANGED <<lock_count, recursion_count, signaled, depth, calls, embedded>>

RepairStaleRecursion(t) ==
  /\ Goto(t, "clear_recursion", "own")
  /\ recursion_count' = 0
  /\ intruded' = (intruded \/ InUse)
  /\ UNCHANGED <<lock_count, owning_thread, signaled, depth, calls, embedded>>

-----------------------------------------------------------------------------
(* RtlEnterCriticalSection and RtlTryEnterCriticalSection: acquiring.      *)

TestOwn(t) ==
  /\ Branch(t, "own", owning_thread = t, "reenter_count", "spin")
  /\ UNCHANGED <<object, signaled, depth, calls, embedded, intruded>>

ReenterCount(t) ==
  /\ Goto(t, "reenter_count", "reenter_recursion")
  /\ lock_count' = lock_count + 1
  /\ UNCHANGED <<recursion_count, owning_thread, signaled, depth, calls, embedded,
                 intruded>>

\* "Enter" returns.
ReenterRecursion(t) ==
  /\ Goto(t, "reenter_recursion", "out")
  /\ recursion_count' = recursion_count + 1
  /\ depth' = [depth EXCEPT ![t] = @ + 1]
  /\ UNCHANGED <<lock_count, owning_thread, signaled, calls, embedded, intruded>>

\* A compare-and-swap of the spin loop, which takes the section or not.
Spin(t) ==
  /\ lock_count = -1
  /\ Goto(t, "spin", "take_owner")
  /\ lock_count' = 0
  /\ UNCHANGED <<recursion_count, owning_thread, signaled, depth, calls, embedded,
                 intruded>>

\* The spin count is used up, or was zero.
SpinEnds(t) ==
  /\ Goto(t, "spin", "inc")
  /\ UNCHANGED <<object, signaled, depth, calls, embedded, intruded>>

\* A mistake: The value before the increment is tested.
CountTestsOld(t) ==
  /\ Branch(t, "inc", lock_count # 0, "wait", "check_owner")
  /\ lock_count' = lock_count + 1
  /\ UNCHANGED <<recursion_count, owning_thread, signaled, depth, calls, embedded,
                 intruded>>

Count(t) ==
  /\ Branch(t, "inc", lock_count + 1 # 0, "wait", "check_owner")
  /\ lock_count' = lock_count + 1
  /\ UNCHANGED <<recursion_count, owning_thread, signaled, depth, calls, embedded,
                 intruded>>

Wake(t) ==
  /\ signaled
  /\ Goto(t, "wait", "check_owner")
  /\ signaled' = FALSE
  /\ UNCHANGED <<object, depth, calls, embedded, intruded>>

\* The 30 ms of a render worker are over; RtlEnter drops the status.
WaitExpires(t) ==
  /\ t \in Workers
  /\ Goto(t, "wait", "check_owner")
  /\ intruded' = (intruded \/ InUse)
  /\ UNCHANGED <<object, signaled, depth, calls, embedded>>

TestStaleAcquired(t) ==
  /\ Branch(t, "check_owner", owning_thread # NoThread, "drop_owner", "take_owner")
  /\ UNCHANGED <<object, signaled, depth, calls, embedded, intruded>>

DropOwner(t) ==
  /\ Goto(t, "drop_owner", "drop_recursion")
  /\ owning_thread' = NoThread
  /\ UNCHANGED <<lock_count, recursion_count, signaled, depth, calls, embedded,
                 intruded>>

DropRecursion(t) ==
  /\ Goto(t, "drop_recursion", "take_owner")
  /\ recursion_count' = 0
  /\ UNCHANGED <<lock_count, owning_thread, signaled, depth, calls, embedded, intruded>>

TakeOwner(t) ==
  /\ Goto(t, "take_owner", "take_recursion")
  /\ owning_thread' = t
  /\ UNCHANGED <<lock_count, recursion_count, signaled, depth, calls, embedded,
                 intruded>>

\* "Enter" or "TryEnter" returns.
TakeRecursion(t) ==
  /\ Goto(t, "take_recursion", "out")
  /\ recursion_count' = 1
  /\ depth' = [depth EXCEPT ![t] = @ + 1]
  /\ UNCHANGED <<lock_count, owning_thread, signaled, calls, embedded, intruded>>

CallTryEnter(t) ==
  /\ depth[t] < MaxDepth /\ calls < MaxCalls
  /\ Goto(t, "out", "try_cas")
  /\ calls' = calls + 1
  /\ UNCHANGED <<object, signaled, depth, embedded, intruded>>

Try(t) ==
  /\ Branch(t, "try_cas", lock_count = -1, "take_owner", "try_owner")
  /\ lock_count' = IF lock_count = -1 THEN 0 ELSE lock_count
  /\ UNCHANGED <<recursion_count, owning_thread, signaled, depth, calls, embedded,
                 intruded>>

TryOwn(t) ==
  /\ Branch(t, "try_owner", owning_thread = t, "reenter_count", "out")
  /\ UNCHANGED <<object, signaled, depth, calls, embedded, intruded>>

-----------------------------------------------------------------------------
(* RtlLeaveCriticalSection.                                                *)

CallLeave(t) ==
  /\ depth[t] > 0
  /\ Goto(t, "out", "leave_owner")
  /\ depth' = [depth EXCEPT ![t] = @ - 1]
  /\ UNCHANGED <<object, signaled, calls, embedded, intruded>>

\* With another owner the section is reset, or taken over and then left. The
\* three tests and the store are one step: only an intruded section gets here.
TestOwner(t) ==
  /\ \/ /\ owning_thread = t
        /\ Goto(t, "leave_owner", "leave_recursion")
        /\ UNCHANGED owning_thread
     \/ /\ owning_thread # t
        /\ IF owning_thread = NoThread \/ lock_count < 0 \/ recursion_count <= 0
           THEN Goto(t, "leave_owner", "reset") /\ UNCHANGED owning_thread
           ELSE Goto(t, "leave_owner", "leave_recursion") /\ owning_thread' = t
  /\ UNCHANGED <<lock_count, recursion_count, signaled, depth, calls, embedded,
                 intruded>>

\* The four stores of the repair branches, as one step. The one to the
\* header's signal_state does not reach the event.
Reset(t) ==
  /\ Goto(t, "reset", "out")
  /\ lock_count' = -1 /\ recursion_count' = 0 /\ owning_thread' = NoThread
  /\ UNCHANGED <<signaled, depth, calls, embedded, intruded>>

\* The tests and the decrement are one step: only the thread that has the section
\* gets here, until it is intruded upon.
LeaveRecursion(t) ==
  /\ pc[t] = "leave_recursion"
  /\ \/ /\ recursion_count <= 0
        /\ Goto(t, "leave_recursion", "reset")
        /\ UNCHANGED recursion_count
     \/ /\ recursion_count > 0
        /\ recursion_count' = recursion_count - 1
        /\ Branch(t, "leave_recursion", recursion_count > 1, "leave_nested",
                  "leave_clear")
  /\ UNCHANGED <<lock_count, owning_thread, signaled, depth, calls, embedded, intruded>>

\* A mistake: A nested Leave keeps its lock count.
LeaveNestedUncounted(t) ==
  /\ Goto(t, "leave_nested", "out")
  /\ UNCHANGED <<object, signaled, depth, calls, embedded, intruded>>

LeaveNested(t) ==
  /\ Goto(t, "leave_nested", "out")
  /\ lock_count' = lock_count - 1
  /\ UNCHANGED <<recursion_count, owning_thread, signaled, depth, calls, embedded,
                 intruded>>

LeaveClear(t) ==
  /\ Goto(t, "leave_clear", "leave_count")
  /\ owning_thread' = NoThread
  /\ UNCHANGED <<lock_count, recursion_count, signaled, depth, calls, embedded,
                 intruded>>

\* A mistake: The last waiter is not woken.
LeaveCountOffByOne(t) ==
  /\ Branch(t, "leave_count", lock_count - 1 > 0, "leave_set", "out")
  /\ lock_count' = lock_count - 1
  /\ UNCHANGED <<recursion_count, owning_thread, signaled, depth, calls, embedded,
                 intruded>>

\* The section is free, or some thread waits for it.
LeaveCount(t) ==
  /\ Branch(t, "leave_count", lock_count - 1 # -1, "leave_set", "out")
  /\ lock_count' = lock_count - 1
  /\ UNCHANGED <<recursion_count, owning_thread, signaled, depth, calls, embedded,
                 intruded>>

LeaveSet(t) ==
  /\ Goto(t, "leave_set", "out")
  /\ signaled' = TRUE
  /\ UNCHANGED <<object, depth, calls, embedded, intruded>>

-----------------------------------------------------------------------------
Repair(t) == TestOrphan(t) \/ RepairOrphan(t) \/ TestStale(t) \/
  RepairStaleOwner(t) \/ RepairStaleRecursion(t)
Reenter(t) == TestOwn(t) \/ TryOwn(t) \/ ReenterCount(t) \/ ReenterRecursion(t)
Acquire(t) == Spin(t) \/ SpinEnds(t) \/ Try(t) \/ Count(t) \/ Wake(t)
Take(t) == TestStaleAcquired(t) \/ DropOwner(t) \/ DropRecursion(t) \/
  TakeOwner(t) \/ TakeRecursion(t)
Leave(t) == TestOwner(t) \/ Reset(t) \/ LeaveRecursion(t) \/ LeaveNested(t) \/
  LeaveClear(t) \/ LeaveCount(t) \/ LeaveSet(t)

\* A call goes on.
Step(t) == Repair(t) \/ Reenter(t) \/ Acquire(t) \/ Take(t) \/ Leave(t)
Call(t) == CallEnter(t) \/ CallTryEnter(t) \/ CallLeave(t)

Next == \E t \in Threads : Step(t) \/ Call(t) \/ WaitExpires(t)

Spec == Init /\ [][Next]_vars

-----------------------------------------------------------------------------
(* What the section promises while it is not intruded upon.                *)

Inside == {t \in Threads : depth[t] > 0}

\* RtlCriticalSectionStateIsCoherent and RtlCriticalSectionEstimatedWaiters,
\* the helpers of the diagnostics in rtl.h.
StateIsCoherent ==
  IF owning_thread = NoThread
  THEN lock_count = -1 /\ recursion_count = 0
  ELSE recursion_count > 0 /\ lock_count >= recursion_count - 1
EstimatedWaiters ==
  IF lock_count - recursion_count + 1 <= 0 THEN 0 ELSE lock_count - recursion_count + 1

\* Unconditionally: at most one thread is inside. (RtlEnterCriticalSection is
\* said to normalize only an orphaned object; it takes apart one in use.)
Exclusive == \A t, u \in Inside : t = u

\* Until a repair or an expired wait hits a section in use, at most one
\* thread is between Enter and Leave, however the accesses interleave.
OneInside == ~intruded => Exclusive

\* When no thread is in the middle of a call, what the diagnostics compute
\* from the object is right: it is coherent, its owner is the thread inside,
\* the recursion is that thread's and the estimate is the number of waiters.
\* (The embedded object that nobody has entered is not coherent.)
SnapshotIsRight ==
  /\ ~intruded /\ ~signaled
  /\ \A t \in Threads : pc[t] \in {"out", "wait"}
  /\ ~embedded \/ Inside # {}
  => /\ StateIsCoherent
     /\ \A t \in Threads : (t \in Inside) <=> (owning_thread = t)
     /\ \A t \in Inside : depth[t] = recursion_count
     /\ EstimatedWaiters = Cardinality(Waiting)

\* A thread that waits is not forgotten: the event is set, or some thread has
\* the section and lock_count will make it set the event.
WaitersAreWoken ==
  ~intruded /\ Waiting # {} =>
    \/ signaled
    \/ \E t \in Threads \ Waiting : Has(t) /\ (lock_count > 0 \/ pc[t] = "leave_set")

\* The thread's entries: from its admission to the step of its Leave that gives
\* the entry back.
Entries == [t \in Threads |-> depth[t] + IF pc[t] \in Admitted \union Leaving THEN 1 ELSE 0]

\* Access by access, the section is a recursive lock that is handed over to a
\* waiter: a thread that arrives takes it only if it is free and nobody waits, and
\* a section that is left while a thread waits goes to a waiter, until a repair or
\* an expired wait hits it in use.
Lock == INSTANCE HandedLock WITH
  entries <- Entries, waiting <- Waiting, handed <- signaled, broken <- intruded
ImplementsLock == Lock!Spec
=============================================================================
