------------------------ MODULE CriticalSectionProofs ------------------------
(***************************************************************************)
(* Theorems about CriticalSection, for any number of threads, workers and  *)
(* calls and any depth of recursion.                                       *)
(*                                                                         *)
(* The section has a place: some thread has it, or the event carries it to *)
(* a waiter, or it is free. In each of the three the fields of the object  *)
(* are known: lock_count is one less than the number of waiters and of the *)
(* entries of the thread that has the section.                             *)
(* From the same invariant, every access is a step of HandedLock or none.  *)
(***************************************************************************)
EXTENDS CriticalSection, FiniteSetTheorems, TLAPS

NWaiting == Cardinality(Waiting)

\* One place for the section.
OnePlace ==
  /\ \A t, u \in Threads : Has(t) /\ Has(u) => t = u
  /\ \A t \in Threads : Has(t) => ~signaled

\* On its way to a waiter.
HandedOver ==
  signaled => /\ NWaiting > 0 /\ lock_count = NWaiting - 1
              /\ owning_thread = NoThread /\ recursion_count = 0

\* Free, or never entered.
Free ==
  ~InUse => /\ NWaiting = 0 /\ lock_count \in {-1, 0}
            /\ owning_thread = NoThread /\ recursion_count = 0
            /\ lock_count = 0 =>
                 embedded /\ \A t \in Threads : pc[t] \in
                   {"out", "orphan_count", "orphan_owner", "orphan_recursion",
                    "orphan_cas", "try_cas", "try_owner"}

\* With t, in the middle of acquiring it, inside, or leaving.
Taken(t) ==
  pc[t] \in Admitted =>
    /\ depth[t] = 0 /\ recursion_count = 0 /\ lock_count = NWaiting
    /\ pc[t] \in {"check_owner", "take_owner", "take_recursion"}
    /\ owning_thread = IF pc[t] = "take_recursion" THEN t ELSE NoThread
Held(t) ==
  pc[t] \notin Admitted \union Leaving /\ depth[t] > 0 =>
    /\ owning_thread = t /\ recursion_count = depth[t]
    /\ lock_count = NWaiting - 1 + depth[t]
                    + (IF pc[t] = "reenter_recursion" THEN 1 ELSE 0)
Left(t) ==
  /\ pc[t] \in {"leave_owner", "leave_recursion"} =>
       owning_thread = t /\ recursion_count = depth[t] + 1
         /\ lock_count = NWaiting + depth[t]
  /\ pc[t] = "leave_nested" =>
       /\ owning_thread = t /\ recursion_count = depth[t] /\ depth[t] > 0
       /\ lock_count = NWaiting + depth[t]
  /\ pc[t] \in {"leave_clear", "leave_count", "leave_set"} =>
       /\ depth[t] = 0 /\ recursion_count = 0
       /\ owning_thread = IF pc[t] = "leave_clear" THEN t ELSE NoThread
       /\ lock_count = IF pc[t] = "leave_set" THEN NWaiting - 1 ELSE NWaiting
  /\ pc[t] = "leave_set" => NWaiting > 0

\* Who has the section does not come to the steps of those who do not.
Outside(t) ==
  /\ pc[t] # "reset"
  /\ pc[t] \in {"orphan_recursion", "orphan_cas", "stale_owner", "clear_owner",
                "clear_recursion", "spin", "inc", "wait"} => depth[t] = 0
  /\ pc[t] \in {"reenter_count", "reenter_recursion"} => depth[t] > 0

Here(t) == Taken(t) /\ Held(t) /\ Left(t) /\ Outside(t)

Sound ==
  /\ OnePlace /\ HandedOver /\ Free
  /\ \A t \in Threads : Here(t)

\* The inductive invariant.
IInv == TypeOK /\ (~intruded => Sound)

-----------------------------------------------------------------------------
LEMMA FlagsStep == ASSUME FlagsOK, Next PROVE FlagsOK'
<1> USE DEF FlagsOK, object
<1>1. ASSUME NEW t \in Threads, Repair(t) \/ Reenter(t) \/ Acquire(t)
      PROVE  FlagsOK'
  BY <1>1, Zenon DEF Repair, TestOrphan, RepairOrphan, TestStale, RepairStaleOwner,
     RepairStaleRecursion, Reenter, TestOwn, TryOwn, ReenterCount, ReenterRecursion,
     Acquire, Spin, SpinEnds, Try, Count, Wake, InUse
<1>2. ASSUME NEW t \in Threads, Take(t) \/ Leave(t) \/ Call(t) \/ WaitExpires(t)
      PROVE  FlagsOK'
  BY <1>2, Zenon DEF Take, TestStaleAcquired, DropOwner, DropRecursion, TakeOwner,
     TakeRecursion, Leave, TestOwner, Reset, LeaveRecursion, LeaveNested, LeaveClear,
     LeaveCount, LeaveSet, Call, CallEnter, CallTryEnter, CallLeave, WaitExpires, InUse
<1> QED BY <1>1, <1>2 DEF Next, Step

\* How a step of one thread changes the number of waiters.
LEMMA WaitingChange ==
  ASSUME pc \in [Threads -> Steps], NEW t \in Threads, NEW x,
         pc' = [pc EXCEPT ![t] = x]
  PROVE  /\ NWaiting \in Nat /\ NWaiting' \in Nat
         /\ (pc[t] = "wait") = (x = "wait") => NWaiting' = NWaiting
         /\ pc[t] = "wait" /\ x # "wait" => NWaiting' = NWaiting - 1
         /\ pc[t] # "wait" /\ x = "wait" => NWaiting' = NWaiting + 1
<1>1. IsFiniteSet(Waiting) /\ IsFiniteSet(Waiting')
  BY ThreadAssumption, FS_Subset DEF Waiting
<1>2. NWaiting \in Nat /\ NWaiting' \in Nat
  BY <1>1, FS_CardinalityType DEF NWaiting
<1>3. CASE (pc[t] = "wait") = (x = "wait")
  <2>1. Waiting' = Waiting
    BY <1>3 DEF Waiting
  <2> QED BY <1>2, <1>3, <2>1 DEF NWaiting
<1>4. CASE pc[t] = "wait" /\ x # "wait"
  <2>1. Waiting' = Waiting \ {t} /\ t \in Waiting
    BY <1>4 DEF Waiting
  <2> QED BY <1>1, <1>2, <1>4, <2>1, FS_RemoveElement DEF NWaiting
<1>5. CASE pc[t] # "wait" /\ x = "wait"
  <2>1. Waiting' = Waiting \cup {t} /\ t \notin Waiting
    BY <1>5 DEF Waiting
  <2> QED BY <1>1, <1>2, <1>5, <2>1, FS_AddElement DEF NWaiting
<1> QED BY <1>2, <1>3, <1>4, <1>5

\* A step of t leaves what is said of another thread u as it is, if u does not
\* have the section or the step keeps the fields of the object.
LEMMA OthersKept ==
  ASSUME NEW u \in Threads, pc'[u] = pc[u], depth'[u] = depth[u], Here(u),
         NWaiting \in Nat, NWaiting' \in Nat, lock_count \in Int, lock_count' \in Int,
         \/ ~Has(u)
         \/ /\ owning_thread' = owning_thread /\ recursion_count' = recursion_count
            /\ lock_count' - NWaiting' = lock_count - NWaiting /\ NWaiting' >= NWaiting,
         depth[u] \in Nat
  PROVE  Here(u)' /\ (Has(u)' <=> Has(u))
<1>1. Has(u)' <=> Has(u)
  BY DEF Has
<1>2. CASE ~Has(u)
  BY <1>2 DEF Here, Taken, Held, Left, Outside, Has, Leaving
<1>3. CASE Has(u)
  <2>1. Outside(u)'
    BY DEF Here, Outside
  <2>2. Taken(u)'
    BY <1>3 DEF Here, Taken
  <2>3. Held(u)'
    BY <1>3 DEF Here, Held
  <2>4. Left(u)'
    BY <1>3 DEF Here, Left
  <2> QED BY <1>1, <2>1, <2>2, <2>3, <2>4 DEF Here
<1> QED BY <1>1, <1>2, <1>3

\* A step of t, and what it does to t: it goes to x with depth d.
Moves(t, x, d) ==
  pc' = [pc EXCEPT ![t] = x] /\ depth' = [depth EXCEPT ![t] = d]

LEMMA MovesOne ==
  ASSUME TypeOK, TypeOK', NEW t \in Threads, NEW x, NEW d, Moves(t, x, d)
  PROVE  /\ pc'[t] = x /\ depth'[t] = d /\ d \in Nat /\ depth[t] \in Nat
         /\ \A u \in Threads \ {t} :
              pc'[u] = pc[u] /\ depth'[u] = depth[u] /\ depth[u] \in Nat
         /\ lock_count \in Int /\ lock_count' \in Int
         /\ recursion_count \in Nat /\ recursion_count' \in Nat
         /\ NWaiting \in Nat /\ NWaiting' \in Nat
         /\ (pc[t] = "wait") = (x = "wait") => NWaiting' = NWaiting
         /\ pc[t] = "wait" /\ x # "wait" => NWaiting' = NWaiting - 1
         /\ pc[t] # "wait" /\ x = "wait" => NWaiting' = NWaiting + 1
<1>1. /\ NWaiting \in Nat /\ NWaiting' \in Nat
      /\ (pc[t] = "wait") = (x = "wait") => NWaiting' = NWaiting
      /\ pc[t] = "wait" /\ x # "wait" => NWaiting' = NWaiting - 1
      /\ pc[t] # "wait" /\ x = "wait" => NWaiting' = NWaiting + 1
  BY WaitingChange DEF TypeOK, Moves
<1>2. /\ pc'[t] = x /\ depth'[t] = d
      /\ \A u \in Threads \ {t} : pc'[u] = pc[u] /\ depth'[u] = depth[u]
  BY DEF TypeOK, Moves
<1>3. \A u \in Threads : depth[u] \in Nat /\ depth'[u] \in Nat
  BY DEF TypeOK
<1> QED BY <1>1, <1>2, <1>3 DEF TypeOK

Before == {"out", "orphan_count", "orphan_owner", "orphan_recursion", "orphan_cas",
  "stale_count", "stale_owner", "clear_owner", "clear_recursion", "own", "spin",
  "inc", "wait", "try_cas", "try_owner", "reenter_count"}
Unrepaired == {"out", "orphan_count", "orphan_owner", "orphan_recursion",
  "orphan_cas", "try_cas", "try_owner"}
NotInside == {"orphan_recursion", "orphan_cas", "stale_owner", "clear_owner",
  "clear_recursion", "spin", "inc", "wait"}

\* A step before the section is acquired.
LEMMA GoesOn ==
  ASSUME TypeOK, TypeOK', Sound, NEW t \in Threads, NEW x, Moves(t, x, depth[t]),
         pc[t] \in Before \ {"wait"}, x \in Before,
         owning_thread' = owning_thread, recursion_count' = recursion_count,
         signaled' = signaled, embedded' = embedded,
         lock_count' = IF x = "wait" THEN lock_count + 1 ELSE lock_count,
         x \in NotInside => depth[t] = 0,
         x = "reenter_count" => depth[t] > 0,
         ~InUse /\ lock_count = 0 => x \in Unrepaired,
         x = "wait" => InUse
  PROVE  Sound'
<1>1. Here(t)
  BY DEF Sound
<1>2. /\ pc'[t] \notin Admitted \union Leaving \union {"reset", "reenter_recursion"}
      /\ pc[t] \notin Admitted \union Leaving \union {"reset", "reenter_recursion"}
  BY MovesOne DEF Before, Admitted, Leaving
<1>3. Outside(t)'
  BY <1>2, MovesOne DEF Outside, NotInside
<1>4. Held(t)'
  BY <1>1, <1>2, MovesOne DEF Here, Held
<1>5. Here(t)'
  BY <1>2, <1>3, <1>4 DEF Here, Taken, Left, Leaving
<1>6. Has(t)' <=> Has(t)
  BY <1>2, MovesOne DEF Has
<1>7. \A u \in Threads \ {t} : Here(u)' /\ (Has(u)' <=> Has(u))
  BY MovesOne, OthersKept DEF Sound
<1>8. OnePlace' /\ (InUse' <=> InUse)
  BY <1>6, <1>7 DEF Sound, OnePlace, InUse
<1>9. HandedOver'
  BY MovesOne DEF Sound, HandedOver
<1>10. Free'
  BY <1>8, MovesOne DEF Sound, Free, Unrepaired
<1> QED BY <1>5, <1>7, <1>8, <1>9, <1>10 DEF Sound

\* The free section, or the one the event carries, becomes t's.
LEMMA Acquires ==
  ASSUME TypeOK, TypeOK', Sound, NEW t \in Threads, NEW x, Moves(t, x, depth[t]),
         x \in {"check_owner", "take_owner"}, ~signaled', depth[t] = 0,
         owning_thread' = NoThread, recursion_count' = 0, lock_count' = NWaiting',
         \A u \in Threads : ~Has(u)
  PROVE  Sound'
<1>1. Here(t)' /\ Has(t)'
  BY MovesOne DEF Here, Taken, Held, Left, Outside, Admitted, Leaving, Has
<1>2. \A u \in Threads \ {t} : Here(u)' /\ (Has(u)' <=> Has(u))
  BY MovesOne, OthersKept DEF Sound
<1>3. OnePlace' /\ InUse'
  BY <1>1, <1>2 DEF OnePlace, InUse
<1> QED BY <1>1, <1>2, <1>3 DEF Sound, HandedOver, Free

\* A step of the thread that has the section and keeps it.
LEMMA Keeps ==
  ASSUME TypeOK, TypeOK', Sound, NEW t \in Threads, NEW x, NEW d, Moves(t, x, d),
         Has(t), Has(t)', Here(t)', signaled' = signaled
  PROVE  Sound'
<1>1. ~signaled /\ \A u \in Threads \ {t} : ~Has(u)
  BY DEF Sound, OnePlace
<1>2. \A u \in Threads \ {t} : Here(u)' /\ (Has(u)' <=> Has(u))
  BY <1>1, MovesOne, OthersKept DEF Sound
<1>3. OnePlace' /\ InUse'
  BY <1>1, <1>2 DEF OnePlace, InUse
<1> QED BY <1>1, <1>2, <1>3 DEF Sound, HandedOver, Free

\* The last step of the thread that has it.
LEMMA Releases ==
  ASSUME TypeOK, TypeOK', Sound, NEW t \in Threads, Moves(t, "out", depth[t]),
         Has(t), depth[t] = 0, pc[t] # "wait",
         owning_thread' = NoThread, recursion_count' = 0,
         \/ signaled' /\ NWaiting' > 0 /\ lock_count' = NWaiting' - 1
         \/ ~signaled' /\ NWaiting' = 0 /\ lock_count' = -1
  PROVE  Sound'
<1>1. ~signaled /\ \A u \in Threads \ {t} : ~Has(u)
  BY DEF Sound, OnePlace
<1>2. Here(t)' /\ ~Has(t)'
  BY MovesOne DEF Here, Taken, Held, Left, Outside, Admitted, Leaving, Has
<1>3. \A u \in Threads \ {t} : Here(u)' /\ (Has(u)' <=> Has(u))
  BY <1>1, MovesOne, OthersKept DEF Sound
<1>4. \A u \in Threads : ~Has(u)'
  BY <1>1, <1>2, <1>3
<1>5. OnePlace' /\ HandedOver' /\ Free'
  BY <1>4 DEF OnePlace, HandedOver, Free, InUse
<1> QED BY <1>2, <1>3, <1>5 DEF Sound

\* A step while the section is free.
LEMMA IdleStep ==
  ASSUME TypeOK, TypeOK', Sound, NEW t \in Threads, NEW x, Moves(t, x, depth[t]),
         ~InUse, pc[t] \in Before \ {"wait"}, x \in Before \ {"wait", "reenter_count"},
         depth[t] = 0, lock_count' = -1, signaled' = signaled,
         owning_thread' = NoThread, recursion_count' = 0
  PROVE  Sound'
<1>1. Here(t)' /\ ~Has(t)'
  BY MovesOne DEF Here, Taken, Held, Left, Outside, Before, Admitted, Leaving, Has
<1>2. \A u \in Threads \ {t} : Here(u)' /\ (Has(u)' <=> Has(u))
  BY MovesOne, OthersKept DEF Sound, InUse
<1>3. ~InUse' /\ \A u \in Threads : ~Has(u)'
  BY <1>1, <1>2 DEF InUse
<1>4. NWaiting' = 0
  BY MovesOne DEF Sound, Free
<1> QED BY <1>1, <1>2, <1>3, <1>4 DEF Sound, OnePlace, HandedOver, Free, InUse

-----------------------------------------------------------------------------
\* What Sound says of a thread before one of its steps.
LEMMA WhereItIs ==
  ASSUME TypeOK, Sound, NEW t \in Threads
  PROVE  /\ pc[t] \in Before /\ Has(t) => depth[t] > 0
         /\ Has(t) => Here(t) /\ ~signaled /\ \A u \in Threads \ {t} : ~Has(u)
         /\ Outside(t) /\ depth[t] \in Nat /\ NWaiting \in Nat
         /\ lock_count = -1 => ~InUse /\ NWaiting = 0
         /\ owning_thread = t /\ pc[t] \in Before => depth[t] > 0
         /\ InUse \/ NWaiting = 0
         /\ pc[t] \in Before /\ depth[t] > 0 =>
              /\ owning_thread = t /\ recursion_count = depth[t]
              /\ lock_count = NWaiting - 1 + depth[t]
         /\ NoThread # t
<1>0. /\ depth[t] \in Nat /\ Here(t) /\ NoThread \notin Threads
      /\ \A u \in Threads : Here(u) /\ depth[u] \in Nat
  BY ThreadAssumption DEF TypeOK, Sound
<1>1. NWaiting \in Nat
  BY ThreadAssumption, FS_Subset, FS_CardinalityType DEF NWaiting, Waiting
<1>2. pc[t] \in Before /\ Has(t) => depth[t] > 0
  BY DEF Before, Has, Admitted, Leaving
<1>3. Has(t) => ~signaled /\ \A u \in Threads \ {t} : ~Has(u)
  BY DEF Sound, OnePlace
<1>4. ASSUME NEW u \in Threads, Has(u)
      PROVE  lock_count >= 0 /\ owning_thread \in {u, NoThread}
  <2>1. pc[u] \notin Admitted \union Leaving => depth[u] > 0
    BY <1>4 DEF Has
  <2>2. CASE pc[u] \in Admitted
    BY <1>0, <1>1, <2>2 DEF Here, Taken
  <2>3. CASE pc[u] \in Leaving
    BY <1>0, <1>1, <2>3 DEF Here, Left, Leaving
  <2>4. CASE pc[u] \notin Admitted \union Leaving
    BY <1>0, <1>1, <2>1, <2>4 DEF Here, Held
  <2> QED BY <2>2, <2>3, <2>4
<1>5. lock_count = -1 => ~InUse /\ NWaiting = 0
  BY <1>1, <1>4 DEF Sound, HandedOver, Free, InUse
<1>6. owning_thread = t /\ pc[t] \in Before => depth[t] > 0
  BY <1>0, <1>2, <1>4 DEF Sound, HandedOver, Free, InUse
<1>7. pc[t] \in Before /\ depth[t] > 0 =>
        /\ owning_thread = t /\ recursion_count = depth[t]
        /\ lock_count = NWaiting - 1 + depth[t]
  BY <1>0, <1>1 DEF Here, Held, Before, Admitted, Leaving
<1> QED BY <1>0, <1>1, <1>2, <1>3, <1>5, <1>6, <1>7 DEF Sound, Free, Here

LEMMA RepairsAreSound ==
  ASSUME TypeOK, TypeOK', Sound, ~intruded', NEW t \in Threads, Repair(t)
  PROVE  Sound'
<1> USE DEF Goto, Branch, object, Before, NotInside, Unrepaired
<1>1. depth = [depth EXCEPT ![t] = depth[t]] /\ depth[t] \in Nat
  BY DEF TypeOK
<1>2. CASE TestOrphan(t)
  <2>1. CASE pc[t] = "orphan_count"
    <3>1. PICK x \in {"orphan_owner", "stale_count"} :
            Moves(t, x, depth[t]) /\ (lock_count = 0 => x = "orphan_owner")
      BY <1>1, <1>2, <2>1 DEF TestOrphan, Moves
    <3> QED BY <1>2, <2>1, <3>1, GoesOn DEF TestOrphan
  <2>2. CASE pc[t] = "orphan_owner"
    BY <1>1, <1>2, <2>2, GoesOn, WhereItIs DEF TestOrphan, Sound, Free, Moves
  <2>3. CASE pc[t] = "orphan_recursion"
    BY <1>1, <1>2, <2>3, GoesOn, WhereItIs DEF TestOrphan, Sound, Free, Outside, Moves
  <2> QED BY <1>2, <2>1, <2>2, <2>3 DEF TestOrphan
<1>3. CASE RepairOrphan(t)
  <2>1. CASE lock_count # 0
    <3>1. Moves(t, "stale_count", depth[t]) /\ pc[t] = "orphan_cas"
      BY <1>1, <1>3 DEF RepairOrphan, Moves
    <3> QED BY <1>3, <2>1, <3>1, GoesOn DEF RepairOrphan
  <2>2. CASE lock_count = 0
    <3>1. ~InUse /\ ~Has(t)
      BY <1>3, <2>2 DEF RepairOrphan, InUse
    <3>2. Moves(t, "stale_count", depth[t]) /\ depth[t] = 0 /\ pc[t] = "orphan_cas"
      BY <1>1, <1>3, <3>1, WhereItIs DEF RepairOrphan, Outside, Moves
    <3> QED BY <1>3, <2>2, <3>1, <3>2, IdleStep DEF RepairOrphan, Sound, Free
  <2> QED BY <2>1, <2>2
<1>4. CASE TestStale(t)
  <2>1. CASE pc[t] = "stale_count"
    BY <1>1, <1>4, <2>1, GoesOn, WhereItIs DEF TestStale, Sound, Free, Moves
  <2>2. CASE pc[t] = "stale_owner"
    <3>1. PICK x \in {"clear_owner", "own"} : Moves(t, x, depth[t])
      BY <1>1, <1>4, <2>2 DEF TestStale, Moves
    <3>2. depth[t] = 0 /\ (~InUse => lock_count # 0)
      BY <2>2, WhereItIs DEF Outside, Sound, Free
    <3> QED BY <1>4, <2>2, <3>1, <3>2, GoesOn DEF TestStale
  <2> QED BY <1>4, <2>1, <2>2 DEF TestStale
<1>5. CASE RepairStaleOwner(t) \/ RepairStaleRecursion(t)
  <2>1. ~InUse
    BY <1>5 DEF RepairStaleOwner, RepairStaleRecursion
  <2>2. lock_count = -1 /\ recursion_count = 0 /\ owning_thread = NoThread
    BY <1>5, <2>1, WhereItIs DEF RepairStaleOwner, RepairStaleRecursion, Sound, Free
  <2>3. CASE RepairStaleOwner(t)
    <3>1. Moves(t, "clear_recursion", depth[t]) /\ depth[t] = 0 /\ pc[t] = "clear_owner"
      BY <1>1, <2>3, WhereItIs DEF RepairStaleOwner, Outside, Moves
    <3> QED BY <2>1, <2>2, <2>3, <3>1, IdleStep DEF RepairStaleOwner
  <2>4. CASE RepairStaleRecursion(t)
    <3>1. Moves(t, "own", depth[t]) /\ depth[t] = 0 /\ pc[t] = "clear_recursion"
      BY <1>1, <2>4, WhereItIs DEF RepairStaleRecursion, Outside, Moves
    <3> QED BY <2>1, <2>2, <2>4, <3>1, IdleStep DEF RepairStaleRecursion
  <2> QED BY <1>5, <2>3, <2>4
<1> QED BY <1>2, <1>3, <1>4, <1>5 DEF Repair

LEMMA AcquiringIsSound ==
  ASSUME TypeOK, TypeOK', Sound, ~intruded', NEW t \in Threads, Reenter(t) \/ Acquire(t)
  PROVE  Sound'
<1> USE DEF Goto, Branch, object, Before, NotInside, Unrepaired
<1>1. depth = [depth EXCEPT ![t] = depth[t]] /\ depth[t] \in Nat
  BY DEF TypeOK
<1>2. CASE TestOwn(t)
  <2>1. PICK x \in {"reenter_count", "spin"} :
          Moves(t, x, depth[t]) /\ (x = "reenter_count" <=> owning_thread = t)
    BY <1>1, <1>2 DEF TestOwn, Moves
  <2>2. /\ pc[t] = "own" /\ (~InUse => lock_count # 0)
        /\ depth[t] > 0 <=> owning_thread = t
    BY <1>1, <1>2, WhereItIs DEF TestOwn, Sound, Free
  <2> QED BY <1>1, <1>2, <2>1, <2>2, GoesOn DEF TestOwn
<1>3. CASE TryOwn(t)
  <2>1. PICK x \in {"reenter_count", "out"} :
          Moves(t, x, depth[t]) /\ (x = "reenter_count" => owning_thread = t)
    BY <1>1, <1>3 DEF TryOwn, Moves
  <2>2. pc[t] = "try_owner" /\ (owning_thread = t => depth[t] > 0 /\ InUse)
    BY <1>1, <1>3, WhereItIs DEF TryOwn, InUse, Has
  <2> QED BY <1>3, <2>1, <2>2, GoesOn DEF TryOwn
<1>4. CASE ReenterCount(t)
  <2>1. Moves(t, "reenter_recursion", depth[t]) /\ depth[t] > 0 /\ Has(t)
    BY <1>1, <1>4, WhereItIs DEF ReenterCount, Outside, Has, Moves
  <2>2. /\ owning_thread = t /\ recursion_count = depth[t]
        /\ lock_count = NWaiting - 1 + depth[t] /\ pc[t] = "reenter_count"
    BY <1>4, <2>1, WhereItIs DEF ReenterCount
  <2>3. /\ pc'[t] = "reenter_recursion" /\ depth'[t] = depth[t] /\ NWaiting' = NWaiting
        /\ NWaiting \in Nat
    BY <2>1, <2>2, MovesOne
  <2>4. Here(t)' /\ Has(t)'
    BY <1>1, <1>4, <2>1, <2>2, <2>3
    DEF ReenterCount, Here, Taken, Held, Left, Outside, Has, Admitted, Leaving
  <2> QED BY <1>4, <2>1, <2>4, Keeps DEF ReenterCount
<1>5. CASE ReenterRecursion(t)
  <2>1. Moves(t, "out", depth[t] + 1) /\ depth[t] > 0 /\ Has(t)
    BY <1>1, <1>5, WhereItIs DEF ReenterRecursion, Outside, Has, Moves
  <2>2. /\ owning_thread = t /\ recursion_count = depth[t]
        /\ lock_count = NWaiting + depth[t] /\ NWaiting \in Nat
    BY <1>1, <1>5, <2>1, WhereItIs
    DEF ReenterRecursion, Sound, Here, Held, Admitted, Leaving
  <2>3. /\ pc'[t] = "out" /\ depth'[t] = depth[t] + 1 /\ NWaiting' = NWaiting
    BY <1>5, <2>1, MovesOne DEF ReenterRecursion
  <2>4. Here(t)' /\ Has(t)'
    BY <1>1, <1>5, <2>2, <2>3
    DEF ReenterRecursion, Here, Taken, Held, Left, Outside, Has, Admitted, Leaving
  <2> QED BY <1>5, <2>1, <2>4, Keeps DEF ReenterRecursion
<1>6. CASE SpinEnds(t)
  <2>1. Moves(t, "inc", depth[t]) /\ pc[t] = "spin"
    BY <1>1, <1>6 DEF SpinEnds, Moves
  <2>2. depth[t] = 0 /\ (~InUse => lock_count # 0)
    BY <2>1, WhereItIs DEF Outside, Sound, Free
  <2> QED BY <1>6, <2>1, <2>2, GoesOn DEF SpinEnds
<1>7. ASSUME lock_count = -1, Spin(t) \/ Try(t) \/ Count(t)
      PROVE  Sound'
  <2>1. ~InUse /\ NWaiting = 0 /\ depth[t] = 0
    BY <1>7, WhereItIs DEF InUse, Has
  <2>2. owning_thread = NoThread /\ recursion_count = 0 /\ ~signaled
        /\ \A u \in Threads : ~Has(u)
    BY <2>1 DEF Sound, Free, InUse
  <2>3. PICK x \in {"check_owner", "take_owner"} : Moves(t, x, depth[t]) /\ pc[t] # "wait"
    BY <1>1, <1>7 DEF Spin, Try, Count, Moves
  <2>4. NWaiting' = 0
    BY <2>1, <2>3, MovesOne
  <2>5. /\ owning_thread' = NoThread /\ recursion_count' = 0 /\ ~signaled'
        /\ lock_count' = 0
    BY <1>7, <2>2 DEF Spin, Try, Count
  <2> QED BY <2>1, <2>2, <2>3, <2>4, <2>5, Acquires
<1>8. CASE Try(t) /\ lock_count # -1
  <2>1. Moves(t, "try_owner", depth[t]) /\ pc[t] = "try_cas"
    BY <1>1, <1>8 DEF Try, Moves
  <2> QED BY <1>8, <2>1, GoesOn DEF Try
<1>9. CASE Count(t) /\ lock_count # -1
  <2>1. InUse
    BY <1>9 DEF Count, Sound, Free
  <2>2. Moves(t, "wait", depth[t]) /\ pc[t] = "inc"
    <3>1. lock_count + 1 # 0
      BY <1>9 DEF TypeOK
    <3> QED BY <1>1, <1>9, <3>1 DEF Count, Moves
  <2>3. depth[t] = 0
    BY <2>2, WhereItIs DEF Outside
  <2> QED BY <1>9, <2>1, <2>2, <2>3, GoesOn DEF Count
<1>10. CASE Wake(t)
  <2>1. \A u \in Threads : ~Has(u)
    BY <1>10 DEF Wake, Sound, OnePlace
  <2>2. Moves(t, "check_owner", depth[t]) /\ pc[t] = "wait" /\ depth[t] = 0
    BY <1>1, <1>10, WhereItIs DEF Wake, Outside, Moves
  <2>3. lock_count' = NWaiting'
    <3>1. NWaiting' = NWaiting - 1
      BY <2>2, MovesOne
    <3> QED BY <1>10, <3>1 DEF Wake, Sound, HandedOver
  <2> QED BY <1>10, <2>1, <2>2, <2>3, Acquires DEF Wake, Sound, HandedOver
<1> QED BY <1>2, <1>3, <1>4, <1>5, <1>6, <1>7, <1>8, <1>9, <1>10 DEF Reenter, Acquire, Spin

LEMMA TakingIsSound ==
  ASSUME TypeOK, TypeOK', Sound, NEW t \in Threads, Take(t)
  PROVE  Sound'
<1> USE DEF Goto, Branch, object
<1>1. depth = [depth EXCEPT ![t] = depth[t]]
  BY DEF TypeOK
<1>2. /\ pc[t] \in Admitted /\ Has(t) /\ depth[t] = 0 /\ recursion_count = 0
      /\ lock_count = NWaiting /\ NWaiting \in Nat
      /\ owning_thread = IF pc[t] = "take_recursion" THEN t ELSE NoThread
      /\ pc[t] \in {"check_owner", "take_owner", "take_recursion"}
  BY WhereItIs DEF Take, TestStaleAcquired, DropOwner, DropRecursion, TakeOwner,
     TakeRecursion, Admitted, Has, Here, Taken
<1>3. CASE TestStaleAcquired(t)
  <2>1. Moves(t, "take_owner", depth[t])
    BY <1>1, <1>2, <1>3 DEF TestStaleAcquired, Moves
  <2>2. pc'[t] = "take_owner" /\ depth'[t] = 0 /\ NWaiting' = NWaiting
    BY <1>2, <2>1, MovesOne
  <2>3. Here(t)' /\ Has(t)'
    BY <1>2, <1>3, <2>2
    DEF TestStaleAcquired, Here, Taken, Held, Left, Outside, Has, Admitted, Leaving
  <2> QED BY <1>2, <1>3, <2>1, <2>3, Keeps DEF TestStaleAcquired
<1>4. CASE TakeOwner(t)
  <2>1. Moves(t, "take_recursion", depth[t])
    BY <1>1, <1>4 DEF TakeOwner, Moves
  <2>2. pc'[t] = "take_recursion" /\ depth'[t] = 0 /\ NWaiting' = NWaiting
    BY <1>2, <2>1, MovesOne
  <2>3. Here(t)' /\ Has(t)'
    BY <1>2, <1>4, <2>2
    DEF TakeOwner, Here, Taken, Held, Left, Outside, Has, Admitted, Leaving
  <2> QED BY <1>2, <1>4, <2>1, <2>3, Keeps DEF TakeOwner
<1>5. CASE TakeRecursion(t)
  <2>1. Moves(t, "out", 1) /\ pc[t] = "take_recursion"
    BY <1>2, <1>5 DEF TakeRecursion, Moves
  <2>2. pc'[t] = "out" /\ depth'[t] = 1 /\ NWaiting' = NWaiting
    BY <2>1, MovesOne
  <2>3. Here(t)' /\ Has(t)'
    BY <1>2, <1>5, <2>1, <2>2
    DEF TakeRecursion, Here, Taken, Held, Left, Outside, Has, Admitted, Leaving
  <2> QED BY <1>2, <1>5, <2>1, <2>3, Keeps DEF TakeRecursion
<1>6. ~DropOwner(t) /\ ~DropRecursion(t)
  BY <1>2 DEF DropOwner, DropRecursion
<1> QED BY <1>3, <1>4, <1>5, <1>6 DEF Take

LEMMA LeavingIsSound ==
  ASSUME TypeOK, TypeOK', Sound, NEW t \in Threads, Leave(t)
  PROVE  Sound'
<1> USE DEF Goto, Branch, object
<1>1. depth = [depth EXCEPT ![t] = depth[t]] /\ depth[t] \in Nat
  BY DEF TypeOK
<1>2. /\ pc[t] \in Leaving /\ Has(t) /\ Left(t) /\ NWaiting \in Nat
  BY WhereItIs DEF Leave, TestOwner, Reset, LeaveRecursion, LeaveNested, LeaveClear,
     LeaveCount, LeaveSet, Leaving, Has, Here, Outside
<1>3. CASE TestOwner(t)
  <2>1. /\ owning_thread = t /\ recursion_count = depth[t] + 1
        /\ lock_count = NWaiting + depth[t] /\ pc[t] = "leave_owner"
    BY <1>2, <1>3 DEF TestOwner, Left
  <2>2. Moves(t, "leave_recursion", depth[t]) /\ owning_thread' = t
    BY <1>1, <1>3, <2>1 DEF TestOwner, Moves
  <2>3. pc'[t] = "leave_recursion" /\ depth'[t] = depth[t] /\ NWaiting' = NWaiting
    BY <2>1, <2>2, MovesOne
  <2>4. Here(t)' /\ Has(t)'
    BY <1>1, <1>2, <1>3, <2>1, <2>2, <2>3
    DEF TestOwner, Here, Taken, Held, Left, Outside, Has, Admitted, Leaving
  <2> QED BY <1>2, <1>3, <2>2, <2>4, Keeps DEF TestOwner
<1>4. CASE LeaveRecursion(t)
  <2>1. /\ owning_thread = t /\ recursion_count = depth[t] + 1
        /\ lock_count = NWaiting + depth[t] /\ pc[t] = "leave_recursion"
    BY <1>2, <1>4 DEF LeaveRecursion, Left
  <2>2. PICK x \in {"leave_nested", "leave_clear"} :
          Moves(t, x, depth[t]) /\ (x = "leave_nested" <=> depth[t] > 0)
    BY <1>1, <1>4, <2>1 DEF LeaveRecursion, Moves
  <2>3. pc'[t] = x /\ depth'[t] = depth[t] /\ NWaiting' = NWaiting
    BY <2>1, <2>2, MovesOne
  <2>4. /\ recursion_count' = depth[t] /\ owning_thread' = t
        /\ lock_count' = NWaiting + depth[t] /\ signaled' = signaled
    BY <1>1, <1>4, <2>1 DEF LeaveRecursion
  <2>5. Here(t)' /\ Has(t)'
    BY <1>1, <1>2, <2>2, <2>3, <2>4
    DEF Here, Taken, Held, Left, Outside, Has, Admitted, Leaving
  <2> QED BY <1>2, <2>2, <2>4, <2>5, Keeps
<1>5. CASE LeaveNested(t)
  <2>1. /\ owning_thread = t /\ recursion_count = depth[t] /\ depth[t] > 0
        /\ lock_count = NWaiting + depth[t] /\ pc[t] = "leave_nested"
    BY <1>2, <1>5 DEF LeaveNested, Left
  <2>2. Moves(t, "out", depth[t])
    BY <1>1, <1>5 DEF LeaveNested, Moves
  <2>3. pc'[t] = "out" /\ depth'[t] = depth[t] /\ NWaiting' = NWaiting
    BY <2>1, <2>2, MovesOne
  <2>4. Here(t)' /\ Has(t)'
    BY <1>1, <1>2, <1>5, <2>1, <2>3
    DEF LeaveNested, Here, Taken, Held, Left, Outside, Has, Admitted, Leaving
  <2> QED BY <1>2, <1>5, <2>2, <2>4, Keeps DEF LeaveNested
<1>6. CASE LeaveClear(t)
  <2>1. /\ depth[t] = 0 /\ recursion_count = 0 /\ lock_count = NWaiting
        /\ pc[t] = "leave_clear"
    BY <1>2, <1>6 DEF LeaveClear, Left
  <2>2. Moves(t, "leave_count", depth[t])
    BY <1>1, <1>6 DEF LeaveClear, Moves
  <2>3. pc'[t] = "leave_count" /\ depth'[t] = 0 /\ NWaiting' = NWaiting
    BY <2>1, <2>2, MovesOne
  <2>4. Here(t)' /\ Has(t)'
    BY <1>2, <1>6, <2>1, <2>3
    DEF LeaveClear, Here, Taken, Held, Left, Outside, Has, Admitted, Leaving
  <2> QED BY <1>2, <1>6, <2>2, <2>4, Keeps DEF LeaveClear
<1>7. CASE LeaveCount(t)
  <2>1. /\ depth[t] = 0 /\ recursion_count = 0 /\ lock_count = NWaiting
        /\ owning_thread = NoThread /\ pc[t] = "leave_count" /\ ~signaled
    BY <1>2, <1>7, WhereItIs DEF LeaveCount, Left
  <2>2. CASE NWaiting = 0
    <3>1. Moves(t, "out", depth[t])
      BY <1>1, <1>7, <2>1, <2>2 DEF LeaveCount, Moves
    <3>2. NWaiting' = 0
      BY <2>1, <2>2, <3>1, MovesOne
    <3> QED BY <1>2, <1>7, <2>1, <2>2, <3>1, <3>2, Releases DEF LeaveCount
  <2>3. CASE NWaiting # 0
    <3>1. Moves(t, "leave_set", depth[t])
      BY <1>1, <1>2, <1>7, <2>1, <2>3 DEF LeaveCount, Moves
    <3>2. pc'[t] = "leave_set" /\ depth'[t] = 0 /\ NWaiting' = NWaiting
      BY <2>1, <3>1, MovesOne
    <3>3. Here(t)' /\ Has(t)'
      BY <1>2, <1>7, <2>1, <2>3, <3>2
      DEF LeaveCount, Here, Taken, Held, Left, Outside, Has, Admitted, Leaving
    <3> QED BY <1>2, <1>7, <3>1, <3>3, Keeps DEF LeaveCount
  <2> QED BY <2>2, <2>3
<1>8. CASE LeaveSet(t)
  <2>1. /\ depth[t] = 0 /\ recursion_count = 0 /\ lock_count = NWaiting - 1
        /\ owning_thread = NoThread /\ NWaiting > 0 /\ pc[t] = "leave_set"
    BY <1>2, <1>8 DEF LeaveSet, Left
  <2>2. Moves(t, "out", depth[t])
    BY <1>1, <1>8 DEF LeaveSet, Moves
  <2>3. NWaiting' = NWaiting
    BY <2>1, <2>2, MovesOne
  <2> QED BY <1>2, <1>8, <2>1, <2>2, <2>3, Releases DEF LeaveSet
<1>9. ~Reset(t)
  BY WhereItIs DEF Reset, Outside
<1> QED BY <1>3, <1>4, <1>5, <1>6, <1>7, <1>8, <1>9 DEF Leave

LEMMA CallsAreSound ==
  ASSUME TypeOK, TypeOK', Sound, NEW t \in Threads, Call(t)
  PROVE  Sound'
<1> USE DEF Goto, object
<1>1. depth = [depth EXCEPT ![t] = depth[t]] /\ depth[t] \in Nat
  BY DEF TypeOK
<1>2. CASE CallEnter(t) \/ CallTryEnter(t)
  <2>1. PICK x \in {"orphan_count", "try_cas"} : Moves(t, x, depth[t])
    BY <1>1, <1>2 DEF CallEnter, CallTryEnter, Moves
  <2>2. pc[t] = "out"
    BY <1>2 DEF CallEnter, CallTryEnter
  <2> QED BY <1>2, <2>1, <2>2, GoesOn
          DEF CallEnter, CallTryEnter, Before, NotInside, Unrepaired
<1>3. CASE CallLeave(t)
  <2>1. /\ Moves(t, "leave_owner", depth[t] - 1) /\ Has(t) /\ depth[t] > 0
        /\ pc[t] = "out"
    BY <1>3 DEF CallLeave, Moves, Has
  <2>2. /\ owning_thread = t /\ recursion_count = depth[t]
        /\ lock_count = NWaiting - 1 + depth[t] /\ NWaiting \in Nat
    BY <2>1, WhereItIs DEF Before
  <2>3. pc'[t] = "leave_owner" /\ depth'[t] = depth[t] - 1 /\ NWaiting' = NWaiting
    BY <2>1, MovesOne
  <2>4. Here(t)' /\ Has(t)'
    BY <1>1, <1>3, <2>1, <2>2, <2>3
    DEF CallLeave, Here, Taken, Held, Left, Outside, Has, Admitted, Leaving
  <2> QED BY <1>3, <2>1, <2>4, Keeps DEF CallLeave
<1> QED BY <1>2, <1>3 DEF Call

\* No wait expires in a section that is not in use: it has no waiters.
LEMMA ExpiryIntrudes ==
  ASSUME TypeOK, Sound, NEW t \in Threads, WaitExpires(t)
  PROVE  intruded'
<1>1. t \in Waiting /\ IsFiniteSet(Waiting)
  BY ThreadAssumption, FS_Subset DEF WaitExpires, Goto, Waiting
<1>2. NWaiting # 0
  BY <1>1, FS_EmptySet DEF NWaiting
<1> QED BY <1>2, WhereItIs DEF WaitExpires

-----------------------------------------------------------------------------
LEMMA TypeStep == ASSUME TypeOK, Next PROVE TypeOK'
<1>1. FlagsOK'
  BY FlagsStep DEF TypeOK
<1> USE BoundAssumption DEF TypeOK, Goto, Branch, Steps, Admitted, Leaving, object
<1>2. ASSUME NEW t \in Threads, Repair(t)
      PROVE  TypeOK'
  BY <1>1, <1>2 DEF Repair, TestOrphan, RepairOrphan, TestStale, RepairStaleOwner,
     RepairStaleRecursion
<1>3. ASSUME NEW t \in Threads, Reenter(t)
      PROVE  TypeOK'
  BY <1>1, <1>3 DEF Reenter, TestOwn, TryOwn, ReenterCount, ReenterRecursion
<1>4. ASSUME NEW t \in Threads, Acquire(t)
      PROVE  TypeOK'
  BY <1>1, <1>4 DEF Acquire, Spin, SpinEnds, Try, Count, Wake
<1>5. ASSUME NEW t \in Threads, Take(t)
      PROVE  TypeOK'
  BY <1>1, <1>5 DEF Take, TestStaleAcquired, DropOwner, DropRecursion, TakeOwner,
     TakeRecursion
<1>6. ASSUME NEW t \in Threads, Leave(t)
      PROVE  TypeOK'
  BY <1>1, <1>6 DEF Leave, TestOwner, Reset, LeaveRecursion, LeaveNested, LeaveClear,
     LeaveCount, LeaveSet
<1>7. ASSUME NEW t \in Threads, Call(t) \/ WaitExpires(t)
      PROVE  TypeOK'
  BY <1>1, <1>7 DEF Call, CallEnter, CallTryEnter, CallLeave, WaitExpires
<1> QED BY <1>2, <1>3, <1>4, <1>5, <1>6, <1>7 DEF Next, Step

\* Once intruded upon, always so.
LEMMA IntrusionStays == ASSUME FlagsOK, Next PROVE intruded => intruded'
<1> USE DEF FlagsOK, object
<1>1. ASSUME NEW t \in Threads, Repair(t) \/ Reenter(t) \/ Acquire(t)
      PROVE  intruded => intruded'
  BY <1>1, Zenon DEF Repair, TestOrphan, RepairOrphan, TestStale, RepairStaleOwner,
     RepairStaleRecursion, Reenter, TestOwn, TryOwn, ReenterCount, ReenterRecursion,
     Acquire, Spin, SpinEnds, Try, Count, Wake
<1>2. ASSUME NEW t \in Threads, Take(t) \/ Leave(t) \/ Call(t) \/ WaitExpires(t)
      PROVE  intruded => intruded'
  BY <1>2, Zenon DEF Take, TestStaleAcquired, DropOwner, DropRecursion, TakeOwner,
     TakeRecursion, Leave, TestOwner, Reset, LeaveRecursion, LeaveNested, LeaveClear,
     LeaveCount, LeaveSet, Call, CallEnter, CallTryEnter, CallLeave, WaitExpires
<1> QED BY <1>1, <1>2 DEF Next, Step

LEMMA InitSound == ASSUME Init PROVE IInv
<1>1. Waiting = {} /\ NWaiting = 0
  BY FS_EmptySet DEF Init, Waiting, NWaiting
<1>2. TypeOK
  <2>1. FlagsOK
    BY Zenon DEF Init, FlagsOK
  <2>2. lock_count \in {0, -1}
    BY DEF Init
  <2> QED BY <2>1, <2>2, BoundAssumption DEF Init, TypeOK, Steps
<1>3. \A t \in Threads : ~Has(t) /\ Here(t)
  BY DEF Init, Has, Here, Taken, Held, Left, Outside, Admitted, Leaving
<1> QED BY <1>1, <1>2, <1>3 DEF Init, IInv, Sound, OnePlace, HandedOver, Free, InUse

LEMMA Inductive == ASSUME IInv, [Next]_vars PROVE IInv'
<1>1. CASE UNCHANGED vars
  BY <1>1 DEF vars, IInv, TypeOK, FlagsOK, Sound, OnePlace, HandedOver, Free, Here,
     Taken, Held, Left, Outside, Has, InUse, NWaiting, Waiting
<1>2. CASE Next
  <2>1. TypeOK /\ TypeOK'
    BY <1>2, TypeStep DEF IInv
  <2>2. ASSUME ~intruded' PROVE Sound'
    <3>1. Sound
      BY <1>2, <2>1, <2>2, IntrusionStays DEF IInv, TypeOK
    <3>2. PICK t \in Threads : Step(t) \/ Call(t) \/ WaitExpires(t)
      BY <1>2 DEF Next
    <3> QED BY <2>1, <2>2, <3>1, <3>2, RepairsAreSound, AcquiringIsSound,
               TakingIsSound, LeavingIsSound, CallsAreSound, ExpiryIntrudes DEF Step
  <2> QED BY <2>1, <2>2 DEF IInv
<1> QED BY <1>1, <1>2

-----------------------------------------------------------------------------
(* The theorems.                                                           *)

\* IInv holds in every state of every behaviour of the calls that Rtl*Critical-
\* Section make.
THEOREM Invariant == Spec => []IInv
BY InitSound, Inductive, PTL DEF Spec

\* The fields of the object, the event and the threads always have their types:
\* the decrement in RtlLeaveCriticalSection never takes recursion_count below 0.
THEOREM TypeCorrect == Spec => []TypeOK
<1>1. IInv => TypeOK
  BY DEF IInv
<1> QED BY <1>1, Invariant, PTL

\* Until a repair or an expired wait hits a section in use, RtlEnter- and
\* RtlTryEnterCriticalSection let at most one thread inside.
THEOREM OneInsideHolds == Spec => []OneInside
<1>1. IInv => OneInside
  BY DEF IInv, Sound, OnePlace, OneInside, Exclusive, Inside, Has, TypeOK
<1> QED BY <1>1, Invariant, PTL

\* Until then RtlLeaveCriticalSection has set the event for a thread that waits, or
\* a thread has the section that will set it.
THEOREM WaitersAreWokenHolds == Spec => []WaitersAreWoken
<1>1. ASSUME IInv, ~intruded, Waiting # {}, ~signaled
      PROVE  \E t \in Threads \ Waiting : Has(t) /\ (lock_count > 0 \/ pc[t] = "leave_set")
  <2>1. Sound /\ TypeOK
    BY <1>1 DEF IInv
  <2>2. NWaiting # 0 /\ NWaiting \in Nat
    BY <1>1, ThreadAssumption, FS_Subset, FS_EmptySet, FS_CardinalityType
    DEF NWaiting, Waiting
  <2>3. PICK t \in Threads : Has(t)
    BY <1>1, <2>1, <2>2 DEF Sound, Free, InUse
  <2>4. Here(t) /\ depth[t] \in Nat
    BY <2>1, WhereItIs DEF Sound
  <2>5. pc[t] # "wait"
    BY <2>3, <2>4 DEF Here, Outside, Has, Admitted, Leaving
  <2>6. lock_count > 0 \/ pc[t] = "leave_set"
    <3>1. CASE pc[t] \in Admitted
      BY <2>2, <2>4, <3>1 DEF Here, Taken
    <3>2. CASE pc[t] \in Leaving
      BY <2>2, <2>4, <3>2 DEF Here, Left, Leaving
    <3>3. CASE pc[t] \notin Admitted \union Leaving
      BY <2>2, <2>3, <2>4, <3>3 DEF Here, Held, Has
    <3> QED BY <3>1, <3>2, <3>3
  <2> QED BY <2>3, <2>5, <2>6 DEF Waiting
<1>2. IInv => WaitersAreWoken
  BY <1>1 DEF WaitersAreWoken
<1> QED BY <1>2, Invariant, PTL

\* Until then what rtl.h computes from an object at rest is right: coherence,
\* owner, recursion and the number of waiters.
THEOREM SnapshotIsRightHolds == Spec => []SnapshotIsRight
<1>1. ASSUME IInv, ~intruded, ~signaled, \A t \in Threads : pc[t] \in {"out", "wait"},
             ~embedded \/ Inside # {}
      PROVE  /\ StateIsCoherent
             /\ \A t \in Threads : (t \in Inside) <=> (owning_thread = t)
             /\ \A t \in Inside : depth[t] = recursion_count
             /\ EstimatedWaiters = NWaiting
  <2>1. /\ Sound /\ TypeOK /\ NWaiting \in Nat
        /\ \A t \in Threads : Here(t) /\ depth[t] \in Nat /\ NoThread # t
    BY <1>1, ThreadAssumption, FS_Subset, FS_CardinalityType
    DEF IInv, Sound, TypeOK, NWaiting, Waiting
  <2>2. \A t \in Threads : Has(t) <=> t \in Inside
    BY <1>1 DEF Has, Inside, Admitted, Leaving
  <2>3. CASE Inside = {}
    <3>1. ~InUse
      BY <1>1, <2>2, <2>3 DEF InUse
    <3>2. NWaiting = 0 /\ lock_count = -1 /\ owning_thread = NoThread /\ recursion_count = 0
      BY <1>1, <2>1, <2>3, <3>1 DEF Sound, Free
    <3> QED BY <2>1, <2>3, <3>2 DEF StateIsCoherent, EstimatedWaiters
  <2>4. CASE Inside # {}
    <3>1. PICK t \in Inside : TRUE
      BY <2>4
    <3>2. t \in Threads /\ depth[t] > 0 /\ pc[t] \in {"out", "wait"}
      BY <1>1, <3>1 DEF Inside
    <3>3. /\ owning_thread = t /\ recursion_count = depth[t]
          /\ lock_count = NWaiting - 1 + depth[t]
      BY <2>1, <3>2 DEF Here, Held, Admitted, Leaving
    <3>4. \A u \in Inside : u = t
      BY <2>1, <2>2, <3>1 DEF Sound, OnePlace, Inside
    <3> QED BY <2>1, <3>1, <3>2, <3>3, <3>4 DEF StateIsCoherent, EstimatedWaiters
  <2> QED BY <2>3, <2>4
<1>2. IInv => SnapshotIsRight
  BY <1>1 DEF SnapshotIsRight, NWaiting
<1> QED BY <1>2, Invariant, PTL

-----------------------------------------------------------------------------
(* The section is a HandedLock.                                            *)

More(x) == IF x \in Admitted \union Leaving THEN 1 ELSE 0

\* What a step of t shows of the lock.
LEMMA Shown ==
  ASSUME TypeOK, TypeOK', NEW t \in Threads, NEW x, NEW d, Moves(t, x, d)
  PROVE  /\ d \in Nat /\ Entries[t] = depth[t] + More(pc[t])
         /\ Entries' = [Entries EXCEPT ![t] = d + More(x)]
         /\ Waiting' = IF x = "wait" THEN Waiting \union {t} ELSE Waiting \ {t}
<1>1. d \in Nat /\ pc'[t] = x /\ depth'[t] = d
  BY MovesOne
<1>2. \A u \in Threads \ {t} : pc'[u] = pc[u] /\ depth'[u] = depth[u]
  BY MovesOne
<1>3. Entries' = [Entries EXCEPT ![t] = d + More(x)]
  BY <1>1, <1>2 DEF Entries, More
<1>4. Waiting' = IF x = "wait" THEN Waiting \union {t} ELSE Waiting \ {t}
  BY <1>1, <1>2 DEF Waiting
<1> QED BY <1>1, <1>3, <1>4 DEF Entries, More

LEMMA FreeIsFree == ASSUME TypeOK PROVE Lock!IsFree <=> ~InUse
<1>1. \A t \in Threads : Entries[t] = 0 <=> ~Has(t)
  BY DEF TypeOK, Entries, Has
<1> QED BY <1>1 DEF Lock!IsFree, InUse

\* A step that shows nothing: t has as many entries as before and waits if it did.
LEMMA Unseen ==
  ASSUME TypeOK, TypeOK', NEW t \in Threads, NEW x, NEW d, Moves(t, x, d),
         depth[t] + More(pc[t]) = d + More(x), pc[t] = "wait" <=> x = "wait",
         signaled' = signaled, intruded' = intruded
  PROVE  UNCHANGED Lock!vars
<1>1. Entries' = Entries
  <2>1. Entries' = [Entries EXCEPT ![t] = Entries[t]]
    BY Shown
  <2>2. Entries = [Entries EXCEPT ![t] = Entries[t]]
    BY DEF Entries
  <2> QED BY <2>1, <2>2
<1>2. Waiting' = Waiting
  BY Shown DEF Waiting
<1> QED BY <1>1, <1>2 DEF Lock!vars

LEMMA FirstLock == ASSUME Init PROVE Lock!Init
<1>1. Entries = [t \in Threads |-> 0] /\ Waiting = {}
  BY DEF Init, Entries, Waiting, Admitted, Leaving
<1> QED BY <1>1 DEF Init, Lock!Init

LEMMA AcquiresLock ==
  ASSUME TypeOK, TypeOK', Sound, NEW t \in Threads, NEW x, Moves(t, x, depth[t]),
         lock_count = -1, pc[t] # "wait", x \in {"take_owner", "check_owner"},
         signaled' = signaled, intruded' = intruded
  PROVE  Lock!Acquire(t)
<1>1. ~InUse /\ NWaiting = 0 /\ depth[t] = 0
  BY WhereItIs DEF InUse, Has
<1>2. Waiting = {}
  BY <1>1, ThreadAssumption, FS_Subset, FS_EmptySet DEF NWaiting, Waiting
<1>3. Entries' = [Entries EXCEPT ![t] = 1] /\ Waiting' = Waiting
  BY <1>1, <1>2, Shown DEF More, Admitted
<1> QED BY <1>1, <1>2, <1>3, FreeIsFree DEF Lock!Acquire

LEMMA RepairsUnseen ==
  ASSUME TypeOK, TypeOK', NEW t \in Threads, Repair(t), intruded' = intruded
  PROVE  UNCHANGED Lock!vars
<1>1. PICK x \in {"orphan_owner", "orphan_recursion", "orphan_cas", "stale_count",
                  "stale_owner", "clear_owner", "clear_recursion", "own"} :
        Moves(t, x, depth[t]) /\ signaled' = signaled
        /\ pc[t] # "wait" /\ pc[t] \notin Admitted \union Leaving
  <2>1. depth = [depth EXCEPT ![t] = depth[t]]
    BY DEF TypeOK
  <2> QED BY <2>1 DEF Repair, TestOrphan, RepairOrphan, TestStale, RepairStaleOwner,
          RepairStaleRecursion, Moves, Goto, Branch, Admitted, Leaving
<1>2. More(x) = 0 /\ More(pc[t]) = 0 /\ x # "wait"
  BY <1>1 DEF More, Admitted, Leaving
<1> QED BY <1>1, <1>2, Unseen

LEMMA AcquiringIsLocking ==
  ASSUME TypeOK, TypeOK', Sound, NEW t \in Threads, Reenter(t) \/ Acquire(t),
         intruded' = intruded
  PROVE  Lock!Next \/ UNCHANGED Lock!vars
<1> USE DEF Goto, Branch, object
<1>1. depth = [depth EXCEPT ![t] = depth[t]] /\ depth[t] \in Nat
  BY DEF TypeOK
<1>2. CASE TestOwn(t) \/ TryOwn(t) \/ ReenterCount(t) \/ SpinEnds(t)
  <2>1. PICK x \in {"reenter_count", "spin", "out", "reenter_recursion", "inc"} :
          Moves(t, x, depth[t]) /\ signaled' = signaled
          /\ pc[t] \in {"own", "try_owner", "reenter_count", "spin"}
    BY <1>1, <1>2 DEF TestOwn, TryOwn, ReenterCount, SpinEnds, Moves
  <2>2. More(x) = 0 /\ More(pc[t]) = 0 /\ x # "wait" /\ pc[t] # "wait"
    BY <2>1 DEF More, Admitted, Leaving
  <2> QED BY <2>1, <2>2, Unseen
<1>3. CASE ReenterRecursion(t)
  <2>1. /\ Moves(t, "out", depth[t] + 1) /\ depth[t] > 0 /\ pc[t] = "reenter_recursion"
        /\ signaled' = signaled
    BY <1>1, <1>3, WhereItIs DEF ReenterRecursion, Outside, Moves
  <2>2. More("out") = 0 /\ More(pc[t]) = 0
    BY <2>1 DEF More, Admitted, Leaving
  <2>3. /\ Entries[t] = depth[t] /\ Entries' = [Entries EXCEPT ![t] = depth[t] + 1]
        /\ Waiting' = Waiting
    <3>1. t \notin Waiting /\ depth[t] + 0 = depth[t] /\ depth[t] + 1 + 0 = depth[t] + 1
      BY <1>1, <2>1 DEF Waiting
    <3>2. /\ Entries[t] = depth[t] + 0
          /\ Entries' = [Entries EXCEPT ![t] = depth[t] + 1 + 0]
          /\ Waiting' = Waiting \ {t}
      BY <2>1, <2>2, Shown
    <3> QED BY <3>1, <3>2
  <2>4. Lock!EnterAgain(t)
    BY <2>1, <2>3 DEF Lock!EnterAgain
  <2> QED BY <2>4 DEF Lock!Next
<1>4. ASSUME lock_count = -1, Spin(t) \/ Try(t) \/ Count(t)
      PROVE  Lock!Next \/ UNCHANGED Lock!vars
  <2>1. PICK x \in {"check_owner", "take_owner"} : Moves(t, x, depth[t]) /\ pc[t] # "wait"
    BY <1>1, <1>4 DEF Spin, Try, Count, Moves
  <2>2. signaled' = signaled
    BY <1>4 DEF Spin, Try, Count
  <2>3. Lock!Acquire(t)
    BY <1>4, <2>1, <2>2, AcquiresLock
  <2> QED BY <2>3 DEF Lock!Next
<1>5. CASE Try(t) /\ lock_count # -1
  <2>1. Moves(t, "try_owner", depth[t]) /\ pc[t] = "try_cas" /\ signaled' = signaled
    BY <1>1, <1>5 DEF Try, Moves
  <2> QED BY <2>1, Unseen DEF More, Admitted, Leaving
<1>6. CASE Count(t) /\ lock_count # -1
  <2>1. Moves(t, "wait", depth[t]) /\ pc[t] = "inc" /\ signaled' = signaled
    <3>1. lock_count + 1 # 0
      BY <1>6 DEF TypeOK
    <3> QED BY <1>1, <1>6, <3>1 DEF Count, Moves
  <2>2. InUse /\ depth[t] = 0 /\ t \notin Waiting
    BY <1>6, <2>1, WhereItIs DEF Sound, Free, Outside, Waiting
  <2>3. Entries[t] = 0 /\ More("wait") = 0
    BY <2>1, <2>2, Shown DEF More, Admitted, Leaving
  <2>4. Entries' = Entries
    <3>1. Entries' = [Entries EXCEPT ![t] = 0]
      BY <2>1, <2>2, <2>3, Shown
    <3>2. Entries = [Entries EXCEPT ![t] = 0]
      BY <2>3 DEF Entries
    <3> QED BY <3>1, <3>2
  <2>5. Lock!Wait(t)
    BY <2>1, <2>2, <2>3, <2>4, Shown, FreeIsFree DEF Lock!Wait
  <2> QED BY <2>5 DEF Lock!Next
<1>7. CASE Wake(t)
  <2>1. /\ Moves(t, "check_owner", depth[t]) /\ t \in Waiting /\ depth[t] = 0
        /\ signaled /\ ~signaled'
    BY <1>1, <1>7, WhereItIs DEF Wake, Outside, Moves, Waiting
  <2>2. Entries' = [Entries EXCEPT ![t] = 1] /\ Waiting' = Waiting \ {t}
    BY <2>1, Shown DEF More, Admitted
  <2>3. Lock!Receive(t)
    BY <1>7, <2>1, <2>2 DEF Wake, Lock!Receive
  <2> QED BY <2>3 DEF Lock!Next
<1> QED BY <1>2, <1>3, <1>4, <1>5, <1>6, <1>7 DEF Reenter, Acquire, Spin

LEMMA TakingIsLocking ==
  ASSUME TypeOK, TypeOK', Sound, NEW t \in Threads, Take(t), intruded' = intruded
  PROVE  UNCHANGED Lock!vars
<1>1. depth = [depth EXCEPT ![t] = depth[t]] /\ signaled' = signaled
  BY DEF TypeOK, Take, TestStaleAcquired, DropOwner, DropRecursion, TakeOwner,
     TakeRecursion
<1>2. CASE TakeRecursion(t)
  <2>1. Moves(t, "out", depth[t] + 1) /\ pc[t] = "take_recursion"
    BY <1>2 DEF TakeRecursion, Moves, Goto
  <2>2. More("out") = 0 /\ More(pc[t]) = 1 /\ depth[t] \in Nat
    BY <2>1 DEF More, Admitted, Leaving, TypeOK
  <2> QED BY <1>1, <2>1, <2>2, Unseen
<1>3. CASE TestStaleAcquired(t) \/ DropOwner(t) \/ DropRecursion(t) \/ TakeOwner(t)
  <2>1. PICK x \in Admitted : Moves(t, x, depth[t]) /\ pc[t] \in Admitted
    BY <1>1, <1>3 DEF TestStaleAcquired, DropOwner, DropRecursion, TakeOwner, Moves, Goto,
       Branch, Admitted
  <2>2. More(x) = 1 /\ More(pc[t]) = 1 /\ x # "wait" /\ pc[t] # "wait"
    BY <2>1 DEF More, Admitted
  <2> QED BY <1>1, <2>1, <2>2, Unseen
<1> QED BY <1>2, <1>3 DEF Take

LEMMA LeavingIsLocking ==
  ASSUME TypeOK, TypeOK', Sound, NEW t \in Threads, Leave(t), intruded' = intruded
  PROVE  Lock!Next \/ UNCHANGED Lock!vars
<1> USE DEF Goto, Branch, object
<1>1. depth = [depth EXCEPT ![t] = depth[t]] /\ depth[t] \in Nat
  BY DEF TypeOK
<1>2. /\ pc[t] \in Leaving /\ Has(t) /\ Left(t) /\ NWaiting \in Nat /\ ~signaled
      /\ More(pc[t]) = 1 /\ More("out") = 0 /\ t \notin Waiting
  <2>1. pc[t] \in Leaving /\ Has(t)
    BY WhereItIs DEF Leave, TestOwner, Reset, LeaveRecursion, LeaveNested, LeaveClear,
       LeaveCount, LeaveSet, Leaving, Has, Outside
  <2>2. Left(t) /\ NWaiting \in Nat /\ ~signaled
    BY <2>1, WhereItIs DEF Here
  <2> QED BY <2>1, <2>2 DEF More, Waiting, Leaving, Admitted
<1>3. Entries[t] = depth[t] + 1 /\ (Waiting = {} <=> NWaiting = 0)
  <2>1. Waiting = {} <=> NWaiting = 0
    BY ThreadAssumption, FS_Subset, FS_EmptySet DEF NWaiting, Waiting
  <2> QED BY <1>2, <2>1 DEF Entries, More
<1>4. CASE TestOwner(t) \/ LeaveRecursion(t) \/ LeaveClear(t)
  <2>1. PICK x \in Leaving : Moves(t, x, depth[t]) /\ signaled' = signaled
    <3>1. CASE TestOwner(t)
      BY <1>1, <1>2, <3>1 DEF TestOwner, Left, Moves, Leaving
    <3>2. CASE LeaveRecursion(t)
      BY <1>1, <1>2, <3>2 DEF LeaveRecursion, Left, Moves, Leaving
    <3>3. CASE LeaveClear(t)
      BY <1>1, <3>3 DEF LeaveClear, Moves, Leaving
    <3> QED BY <1>4, <3>1, <3>2, <3>3
  <2>2. More(x) = 1 /\ x # "wait" /\ pc[t] # "wait"
    BY <1>2, <2>1 DEF More, Leaving
  <2> QED BY <1>2, <2>1, <2>2, Unseen
<1>5. ASSUME Moves(t, "out", depth[t]), signaled' = (depth[t] = 0 /\ NWaiting # 0)
      PROVE  Lock!Next
  <2>1. Entries' = [Entries EXCEPT ![t] = Entries[t] - 1] /\ Waiting' = Waiting
    BY <1>1, <1>2, <1>3, <1>5, Shown
  <2>2. signaled' = (Entries[t] = 1 /\ Waiting # {})
    BY <1>1, <1>3, <1>5
  <2>3. Lock!Leave(t)
    BY <1>1, <1>3, <2>1, <2>2 DEF Lock!Leave
  <2> QED BY <2>3 DEF Lock!Next
<1>6. CASE LeaveNested(t)
  <2>1. Moves(t, "out", depth[t]) /\ depth[t] > 0 /\ ~signaled' /\ signaled' \in BOOLEAN
    BY <1>1, <1>2, <1>6 DEF LeaveNested, Left, Moves, TypeOK, FlagsOK
  <2> QED BY <1>5, <2>1
<1>7. CASE LeaveCount(t)
  <2>1. depth[t] = 0 /\ lock_count = NWaiting /\ pc[t] = "leave_count"
    BY <1>2, <1>7 DEF LeaveCount, Left
  <2>2. CASE NWaiting = 0
    <3>1. Moves(t, "out", depth[t]) /\ ~signaled' /\ signaled' \in BOOLEAN
      BY <1>1, <1>2, <1>7, <2>1, <2>2 DEF LeaveCount, Moves, TypeOK, FlagsOK
    <3> QED BY <1>5, <2>2, <3>1
  <2>3. CASE NWaiting # 0
    <3>1. Moves(t, "leave_set", depth[t]) /\ signaled' = signaled
      BY <1>1, <1>2, <1>7, <2>1, <2>3 DEF LeaveCount, Moves
    <3> QED BY <1>2, <2>1, <3>1, Unseen DEF More, Leaving
  <2> QED BY <2>2, <2>3
<1>8. CASE LeaveSet(t)
  <2>1. Moves(t, "out", depth[t]) /\ depth[t] = 0 /\ NWaiting # 0 /\ signaled'
    BY <1>1, <1>2, <1>8 DEF LeaveSet, Left, Moves
  <2>2. signaled' = (depth[t] = 0 /\ NWaiting # 0)
    BY <1>8, <2>1 DEF LeaveSet
  <2> QED BY <1>5, <2>1, <2>2
<1>9. ~Reset(t)
  BY WhereItIs DEF Reset, Outside
<1> QED BY <1>4, <1>6, <1>7, <1>8, <1>9 DEF Leave

LEMMA CallsUnseen ==
  ASSUME TypeOK, TypeOK', NEW t \in Threads, Call(t)
  PROVE  UNCHANGED Lock!vars
<1> USE DEF Goto, More, Admitted, Leaving
<1>1. CASE CallEnter(t) \/ CallTryEnter(t)
  <2>1. PICK x \in {"orphan_count", "try_cas"} : Moves(t, x, depth[t])
    <3>1. depth = [depth EXCEPT ![t] = depth[t]]
      BY DEF TypeOK
    <3> QED BY <1>1, <3>1 DEF CallEnter, CallTryEnter, Moves
  <2> QED BY <1>1, <2>1, Unseen DEF CallEnter, CallTryEnter
<1>2. CASE CallLeave(t)
  <2>1. Moves(t, "leave_owner", depth[t] - 1) /\ depth[t] \in Nat
    BY <1>2 DEF CallLeave, Moves, TypeOK
  <2> QED BY <1>2, <2>1, Unseen DEF CallLeave
<1> QED BY <1>1, <1>2 DEF Call

\* Each access, as HandedLock sees it.
LEMMA NextLocks ==
  ASSUME IInv, IInv', [Next]_vars
  PROVE  Lock!Next \/ UNCHANGED Lock!vars
<1>1. TypeOK /\ TypeOK'
  BY DEF IInv
<1>2. CASE UNCHANGED vars
  BY <1>2 DEF vars, Lock!vars, Entries, Waiting
<1>3. CASE intruded'
  BY <1>1, <1>3 DEF Lock!Next, Lock!Break, TypeOK, FlagsOK
<1>4. CASE Next /\ ~intruded'
  <2>1. ~intruded /\ intruded' = intruded
    BY <1>1, <1>4, IntrusionStays DEF TypeOK, FlagsOK
  <2>2. Sound
    BY <2>1 DEF IInv
  <2>3. PICK t \in Threads : Step(t) \/ Call(t) \/ WaitExpires(t)
    BY <1>4 DEF Next
  <2>4. ~WaitExpires(t)
    BY <1>1, <1>4, <2>2, ExpiryIntrudes
  <2> QED BY <1>1, <2>1, <2>2, <2>3, <2>4, RepairsUnseen, AcquiringIsLocking,
          TakingIsLocking, LeavingIsLocking, CallsUnseen DEF Step
<1> QED BY <1>2, <1>3, <1>4

\* Until a repair or an expired wait hits a section in use, every interleaving of the
\* accesses of RtlEnter-, RtlTryEnter- and RtlLeaveCriticalSection is a behaviour of a
\* recursive lock that is handed over to a waiter.
THEOREM SectionIsALock == Spec => ImplementsLock
<1>1. IInv /\ IInv' /\ [Next]_vars => [Lock!Next]_(Lock!vars)
  BY NextLocks
<1> QED BY <1>1, FirstLock, Invariant, PTL DEF Spec, ImplementsLock, Lock!Spec
=============================================================================
