-------------------------- MODULE PosixHostProofs --------------------------
(***************************************************************************)
(* Theorems about the two POSIX host objects whose calls race with a       *)
(* signal handler or a callback: ThreadSuspend, for any number of          *)
(* controllers and calls, and HostTimer, for any threads and wait items.   *)
(* The modules share no state; what is said of one names nothing of the    *)
(* other.                                                                  *)
(*                                                                         *)
(* Suspension is a balance of tokens: the waits the thread is in or will   *)
(* enter never exceed the tokens that exist or are still to be posted and  *)
(* the suspensions that were nested. On Linux, with a thread that is       *)
(* created running, they are equal, so no token is left over.              *)
(*                                                                         *)
(* The timer is a matter of ownership: the item whose callback runs is the *)
(* one the dispatch thread holds; and until two setters race, an item that *)
(* can fire is in wait_item_ or in the hands of the setter with the mutex. *)
(***************************************************************************)
EXTENDS ThreadSuspend, HostTimer, FiniteSetTheorems, SequenceTheorems, TLAPS

-----------------------------------------------------------------------------
(***************************************************************************)
(* Suspending a thread.                                                    *)
(***************************************************************************)
\* The callers of Suspend that have not sent their signal yet.
Killing == {k \in Controllers : pc[k] = "kill"}

\* Nothing has happened to a thread that has not published its state.
Fresh ==
  target = "starting" =>
    /\ state = "uninitialized" /\ count = 0 /\ sem = 0 /\ pending = 0 /\ nested = 0
    /\ Killing = {} /\ ~inHandler /\ ~inSelf

\* The state of a thread that runs follows its count.
Follows ==
  Judged => /\ state = "suspended" <=> count > 0
            /\ state \in {"running", "suspended"}

\* Cancellation is Terminate's.
Ends ==
  /\ ~terminated => canceled = "no" /\ \A k \in Controllers : pc[k] # "cancel"
  /\ setting.suspended \/ target # "startwait"

\* The balance of tokens.
Tokens == sem + AsNumber(count > 0) + nested
Balance ==
  Judged => IF setting.queued /\ ~setting.suspended THEN Waits = Tokens ELSE Waits <= Tokens

\* The inductive invariant.
IInv == TypeOK /\ (~terminated => Fresh) /\ Follows /\ Ends /\ Balance

-----------------------------------------------------------------------------
LEMMA FlagsStep == ASSUME FlagsOK, Next PROVE FlagsOK'
<1> USE DEF FlagsOK
<1>1. CASE Thread
  BY <1>1, Zenon DEF Thread, ThreadStart, LeaveStartWait, DeliverSignal, HandlerWakes,
     SelfSuspend, SelfWakes, Finish, Canceled, End
<1>2. ASSUME NEW k \in Controllers, Controller(k)
      PROVE  FlagsOK'
  BY <1>2, Zenon DEF Controller, Suspend, SendSignal, Resume, Terminate, TerminateCancel
<1> QED BY <1>1, <1>2 DEF Next

LEMMA TypeStep == ASSUME TypeOK, Next PROVE TypeOK'
<1> USE BoundAssumption DEF TypeOK
<1>0. FlagsOK'
  BY FlagsStep
<1>1. CASE ThreadStart \/ LeaveStartWait \/ DeliverSignal \/ HandlerWakes
  BY <1>0, <1>1 DEF ThreadStart, LeaveStartWait, DeliverSignal, HandlerWakes, States, Places
<1>2. CASE SelfSuspend \/ SelfWakes
  BY <1>0, <1>2 DEF SelfSuspend, SelfWakes, AsNumber, States, Places
<1>3. CASE Finish \/ Canceled \/ End
  BY <1>0, <1>3 DEF Finish, Canceled, End, States, Places
<1>4. ASSUME NEW k \in Controllers, Suspend(k) \/ SendSignal(k)
      PROVE  TypeOK'
  BY <1>0, <1>4 DEF Suspend, SendSignal, AsNumber, States, Places
<1>5. ASSUME NEW k \in Controllers, Resume(k)
      PROVE  TypeOK'
  BY <1>0, <1>5 DEF Resume, States, Places
<1>6. ASSUME NEW k \in Controllers, Terminate(k) \/ TerminateCancel(k)
      PROVE  TypeOK'
  BY <1>0, <1>6 DEF Terminate, TerminateCancel, States, Places
<1> QED BY <1>1, <1>2, <1>3, <1>4, <1>5, <1>6 DEF Next, Thread, Controller

\* What the steps do to the set of callers that have not sent their signal.
LEMMA KillingStep ==
  ASSUME TypeOK, Next
  PROVE  /\ IsFiniteSet(Killing) /\ Cardinality(Killing) \in Nat
         /\ Thread => Killing' = Killing
         /\ \A k \in Controllers :
              /\ Resume(k) \/ Terminate(k) \/ TerminateCancel(k) => Killing' = Killing
              /\ Suspend(k) => Cardinality(Killing') = Cardinality(Killing) + 1
              /\ SendSignal(k) => Cardinality(Killing') = Cardinality(Killing) - 1
                                  /\ Cardinality(Killing') \in Nat
<1> USE DEF TypeOK
<1>1. IsFiniteSet(Killing) /\ Cardinality(Killing) \in Nat
  BY ControllerAssumption, FS_Subset, FS_CardinalityType DEF Killing
<1>2. Thread => Killing' = Killing
  BY DEF Killing, Thread, ThreadStart, LeaveStartWait, DeliverSignal, HandlerWakes,
     SelfSuspend, SelfWakes, Finish, Canceled, End
<1>3. ASSUME NEW k \in Controllers, Resume(k) \/ Terminate(k) \/ TerminateCancel(k)
      PROVE  Killing' = Killing
  BY <1>3 DEF Killing, Resume, Terminate, TerminateCancel
<1>4. ASSUME NEW k \in Controllers, Suspend(k)
      PROVE  Cardinality(Killing') = Cardinality(Killing) + 1
  <2>1. Killing' = Killing \cup {k} /\ k \notin Killing
    BY <1>4 DEF Killing, Suspend
  <2> QED BY <1>1, <2>1, FS_AddElement
<1>5. ASSUME NEW k \in Controllers, SendSignal(k)
      PROVE  Cardinality(Killing') = Cardinality(Killing) - 1
             /\ Cardinality(Killing') \in Nat
  <2>1. Killing' = Killing \ {k} /\ k \in Killing
    BY <1>5 DEF Killing, SendSignal
  <2>2. IsFiniteSet(Killing')
    BY <1>1, <2>1, FS_Subset
  <2> QED BY <1>1, <2>1, <2>2, FS_RemoveElement, FS_CardinalityType
<1> QED BY <1>1, <1>2, <1>3, <1>4, <1>5

LEMMA ControlStep == ASSUME IInv, Next PROVE (~terminated => Fresh)' /\ Follows' /\ Ends'
<1> USE BoundAssumption DEF IInv, TypeOK, Fresh, Follows, Ends, Judged, Killing, Awake
<1>1. CASE ThreadStart
  BY <1>1 DEF ThreadStart
<1>2. CASE LeaveStartWait \/ DeliverSignal \/ HandlerWakes
  BY <1>2 DEF LeaveStartWait, DeliverSignal, HandlerWakes
<1>3. CASE SelfSuspend \/ SelfWakes
  BY <1>3 DEF SelfSuspend, SelfWakes
<1>4. CASE Finish \/ Canceled \/ End
  BY <1>4 DEF Finish, Canceled, End
<1>5. ASSUME NEW k \in Controllers, Suspend(k)
      PROVE (~terminated => Fresh)' /\ Follows' /\ Ends'
  BY <1>5 DEF Suspend
<1>6. ASSUME NEW k \in Controllers, SendSignal(k)
      PROVE (~terminated => Fresh)' /\ Follows' /\ Ends'
  BY <1>6 DEF SendSignal
<1>7. ASSUME NEW k \in Controllers, Resume(k)
      PROVE (~terminated => Fresh)' /\ Follows' /\ Ends'
  BY <1>7 DEF Resume
<1>8. ASSUME NEW k \in Controllers, Terminate(k) \/ TerminateCancel(k)
      PROVE (~terminated => Fresh)' /\ Follows' /\ Ends'
  BY <1>8 DEF Terminate, TerminateCancel
<1> QED BY <1>1, <1>2, <1>3, <1>4, <1>5, <1>6, <1>7, <1>8 DEF Next, Thread, Controller

LEMMA BalanceStep ==
  ASSUME IInv, Next
  PROVE  Balance'
<1> USE BoundAssumption DEF IInv, TypeOK, FlagsOK, Balance, Tokens, Follows, Ends, Judged
<1> DEFINE C == Cardinality(Killing)
<1>0. C \in Nat /\ Waits = C + pending + AsNumber(inHandler) + AsNumber(inSelf)
      /\ Waits' = C' + pending' + AsNumber(inHandler)' + AsNumber(inSelf)'
  BY KillingStep DEF Waits, Killing
<1>1. CASE ThreadStart
  <2>1. (C = 0 /\ C' = C) \/ terminated
    BY <1>1, KillingStep, FS_EmptySet DEF Fresh, Thread, ThreadStart
  <2> QED BY <1>0, <1>1, <2>1 DEF ThreadStart, Fresh, AsNumber
<1>2. CASE LeaveStartWait
  <2>1. C' = C
    BY <1>2, KillingStep DEF Thread
  <2> QED BY <1>0, <1>2, <2>1 DEF LeaveStartWait, AsNumber
<1>3. CASE DeliverSignal \/ HandlerWakes
  <2>1. C' = C
    BY <1>3, KillingStep DEF Thread
  <2> QED BY <1>0, <1>3, <2>1 DEF DeliverSignal, HandlerWakes, AsNumber
<1>4. CASE SelfSuspend \/ SelfWakes
  <2>1. C' = C
    BY <1>4, KillingStep DEF Thread
  <2> QED BY <1>0, <1>4, <2>1 DEF SelfSuspend, SelfWakes, AsNumber, Awake
<1>5. CASE Finish \/ Canceled \/ End
  BY <1>5 DEF Finish, Canceled, End
<1>6. ASSUME NEW k \in Controllers, Suspend(k)
      PROVE  Balance'
  <2>1. C' = C + 1
    BY <1>6, KillingStep
  <2> QED BY <1>0, <1>6, <2>1 DEF Suspend, AsNumber
<1>7. ASSUME NEW k \in Controllers, SendSignal(k)
      PROVE  Balance'
  <2>1. C' = C - 1 /\ C' \in Nat
    BY <1>7, KillingStep
  <2> QED BY <1>0, <1>7, <2>1 DEF SendSignal, AsNumber
<1>8. ASSUME NEW k \in Controllers, Resume(k)
      PROVE  Balance'
  <2>1. C' = C
    BY <1>8, KillingStep
  <2> QED BY <1>0, <1>8, <2>1 DEF Resume, AsNumber
<1>9. ASSUME NEW k \in Controllers, Terminate(k) \/ TerminateCancel(k)
      PROVE  Balance'
  BY <1>9 DEF Terminate, TerminateCancel
<1> QED BY <1>1, <1>2, <1>3, <1>4, <1>5, <1>6, <1>7, <1>8, <1>9
        DEF Next, Thread, Controller

-----------------------------------------------------------------------------
LEMMA InitIInv == Init => IInv
<1> SUFFICES ASSUME Init PROVE IInv
  OBVIOUS
<1>0. FlagsOK
  BY Zenon DEF Init, FlagsOK
<1>1. TypeOK
  BY <1>0, BoundAssumption DEF Init, TypeOK, States, Places
<1>2. Fresh /\ Follows /\ Ends
  BY DEF Init, Fresh, Killing, Follows, Judged, Ends
<1> QED BY <1>1, <1>2 DEF Init, IInv, Balance, Judged

LEMMA Inductive == Spec => []IInv
<1>1. IInv /\ [Next]_vars => IInv'
  <2> SUFFICES ASSUME IInv, [Next]_vars PROVE IInv'
    OBVIOUS
  <2>1. CASE Next
    BY <2>1, TypeStep, ControlStep, BalanceStep DEF IInv
  <2>2. CASE UNCHANGED vars
    BY <2>2 DEF vars, IInv, TypeOK, FlagsOK, Fresh, Follows, Ends, Balance, Tokens, Judged,
       Killing, Waits, AsNumber
  <2> QED BY <2>1, <2>2
<1> QED BY <1>1, InitIInv, PTL DEF Spec

\* The type invariant, however deep suspensions nest; in particular the count
\* never goes below zero.
THEOREM TypeCorrect == Spec => []TypeOK
<1>1. IInv => TypeOK
  BY DEF IInv
<1> QED BY <1>1, Inductive, PTL

\* However deep suspensions nest, no more waits are left without a token than
\* there were nested suspensions, on Linux and on macOS.
THEOREM NoWaitStranded == Spec => []NoStrandedWait
<1>1. IInv => NoStrandedWait
  BY DEF IInv, TypeOK, Balance, Tokens, AsNumber, NoStrandedWait
<1> QED BY <1>1, Inductive, PTL

\* On Linux a thread that was created running stops when it is suspended,
\* however deep suspensions nest.
THEOREM SuspendedThreadStops == Spec => []QueuedSuspendStops
<1>1. IInv => QueuedSuspendStops
  <2> SUFFICES ASSUME IInv, setting.queued, ~setting.suspended, target = "run", ~terminated, count > 0, pending = 0, Awake,
                      \A k \in Controllers : pc[k] # "kill"
               PROVE  FALSE
    BY DEF QueuedSuspendStops, SuspendedStops
  <2>1. Killing = {} /\ Waits = Cardinality(Killing) + pending
    BY FS_EmptySet DEF Killing, Waits, AsNumber, Awake, IInv, TypeOK
  <2>2. Waits = 0
    BY <2>1, FS_EmptySet
  <2> QED BY <2>2 DEF IInv, Balance, Tokens, AsNumber, Judged, TypeOK
<1> QED BY <1>1, Inductive, PTL

\* A thread that was created suspended has been resumed before it runs; this
\* needs only that its count leaves zero by a suspension and returns by Resume.
THEOREM StartsOnlyResumed == Spec => []StartsWhenResumed
<1> DEFINE J == /\ TypeOK
                /\ setting.suspended /\ target = "run" => resumed
                /\ setting.suspended /\ target = "startwait" /\ ~resumed
                     => count > 0 \/ state = "finished"
<1>1. Init => J
  BY InitIInv DEF IInv, Init
<1>2. J /\ [Next]_vars => J'
  <2> SUFFICES ASSUME J, [Next]_vars PROVE J'
    OBVIOUS
  <2> USE DEF TypeOK
  <2>1. CASE UNCHANGED vars
    BY <2>1 DEF vars, FlagsOK
  <2>2. CASE Thread
    <3>1. TypeOK'
      BY <2>2, TypeStep DEF Next
    <3> QED BY <2>2, <3>1 DEF Thread, ThreadStart, LeaveStartWait, DeliverSignal,
       HandlerWakes, SelfSuspend, SelfWakes, Finish, Canceled, End
  <2>3. ASSUME NEW k \in Controllers, Controller(k)
        PROVE  J'
    <3>1. TypeOK'
      BY <2>3, TypeStep DEF Next
    <3> QED BY <2>3, <3>1 DEF Controller, Suspend, SendSignal, Resume,
       Terminate, TerminateCancel
  <2> QED BY <2>1, <2>2, <2>3 DEF Next
<1>3. J => StartsWhenResumed
  BY DEF StartsWhenResumed
<1> QED BY <1>1, <1>2, <1>3, PTL DEF Spec

-----------------------------------------------------------------------------
(***************************************************************************)
(* The timer.                                                              *)
(***************************************************************************)
\* TimerQueueWaitItem::State, what an entry of the ring is, and a call in progress.
ItemStates == {"disarmed", "idle", "callback", "callback self-disarmed"}
Entries == Items \cup {NoItem}
Calls == [pc : {"idle", "disarm", "parked", "lock", "queue", "assign"},
          set : BOOLEAN, recurring : BOOLEAN, item : Entries]

\* The type invariant of the timer and its queue.
TimerTypeOK ==
  /\ item \in [Items -> [state : ItemStates, recurring : BOOLEAN]]
  /\ ring \in Seq(Entries) /\ waitQueue \subseteq Items /\ again \subseteq Items
  /\ dispatch \in [pc : {"top", "exited", "consume", "fire", "signal", "call", "body"},
                   item : Entries]
  /\ stopping \in BOOLEAN /\ raced \in BOOLEAN
  /\ current \in Entries
  /\ op \in [Actors -> Calls]
  /\ quiet \in [Items -> {"no", "callback", "all"}]

\* What a call has in its hands.
Hands ==
  \A a \in Actors :
    /\ op[a].pc \in {"disarm", "parked", "queue", "assign"} => op[a].item \in Items
    /\ op[a].pc \in {"lock", "queue", "assign"} => op[a].set
    /\ op[a].pc \in {"queue", "assign"} <=> mutex = a

\* The item whose callback runs.
Running ==
  /\ dispatch.item # NoItem <=> dispatch.pc \in {"signal", "call", "body"}
  /\ \A i \in Items : MustWait(item[i].state) <=> dispatch.item = i
  /\ dispatch.pc # "body" =>
       /\ op[Dispatch].pc = "idle"
       /\ \A i \in Items : item[i].state # "callback self-disarmed"

\* An item that has left the queue has been told nothing that still holds: the next
\* timer to use it starts afresh.
Unheard == \A i \in Items : i \notin Held => quiet[i] = "no"

\* The actors on the way from their own Cancel to wait_item_.
Setting == {a \in Actors : op[a].pc \in {"lock", "queue", "assign"}}

\* An item a setter has armed and not yet put into wait_item_.
IsNew(i) == \E a \in Actors : op[a].pc \in {"queue", "assign"} /\ op[a].item = i

\* An item whose callback may still be started, or whose interval may still run.
Live(i) == item[i].state \in {"idle", "callback"}

\* Until two setters have raced, the item that can fire is the one in wait_item_, or
\* the one in the hands of a setter whose Cancel has disarmed what wait_item_ held.
Owned ==
  ~raced =>
    /\ \A a \in Actors : op[a].set /\ op[a].pc \in {"disarm", "parked"} => op[a].item = current
    /\ \A i \in Items : Live(i) => IF Setting # {} THEN IsNew(i) ELSE current = i

\* The callback waits for mutex_ before it is called, so its item is in wait_item_.
Answered == dispatch.pc \in {"call", "body"} => ~IsNew(dispatch.item)

\* The inductive invariant.
TimerInv == TimerTypeOK /\ Hands /\ Running /\ Unheard /\ NoneAfterDisarm /\ Owned /\ Answered

-----------------------------------------------------------------------------
\* An actor with nothing to do.
LEMMA NoOpIsCall == NoOp \in Calls
  BY DEF NoOp, Calls, Entries

\* Where a call stands after its Cancel: a setter before the lock, a canceller done.
LEMMA AfterCancelShape ==
  ASSUME NEW r \in Calls
  PROVE  /\ AfterCancel(r) \in Calls
         /\ r.set => /\ AfterCancel(r).pc = "lock" /\ AfterCancel(r).set
                     /\ AfterCancel(r).item = NoItem
         /\ ~r.set => AfterCancel(r) = NoOp
  BY NoOpIsCall DEF AfterCancel, Calls, Entries

\* A call that has just begun: wait_item_ was empty, or its item is to be disarmed.
Begun(r) ==
  \/ r.pc = "idle"
  \/ r.pc = "lock" /\ r.set /\ current = NoItem
  \/ r.pc = "disarm" /\ r.item = current /\ current \in Items

\* What Call does to the actor that calls.
LEMMA CallBegins ==
  ASSUME TimerTypeOK, NEW a \in Actors, Call(a)
  PROVE  ~raced /\ \E r \in Calls : Begun(r) /\ op' = [op EXCEPT ![a] = r]
<1>1. ASSUME NEW r \in Calls, r.pc = "idle", Begin(a, r)
      PROVE  \E q \in Calls : Begun(q) /\ op' = [op EXCEPT ![a] = q]
  <2>1. CASE current = NoItem
    <3>1. AfterCancel(r) \in Calls /\ Begun(AfterCancel(r))
      BY <2>1, AfterCancelShape DEF Begun, NoOp
    <3>2. op' = [op EXCEPT ![a] = AfterCancel(r)]
      BY <1>1, <2>1 DEF Begin
    <3> QED BY <3>1, <3>2
  <2>2. CASE current # NoItem
    <3> DEFINE q == [r EXCEPT !.pc = "disarm", !.item = current]
    <3>1. q \in Calls /\ Begun(q)
      BY <2>2 DEF Begun, Calls, TimerTypeOK, Entries
    <3>2. op' = [op EXCEPT ![a] = q]
      BY <1>1, <2>2 DEF Begin
    <3> QED BY <3>1, <3>2
  <2> QED BY <2>1, <2>2
<1>2. NoOp \in Calls /\ NoOp.pc = "idle"
  BY NoOpIsCall DEF NoOp
<1>3. ASSUME NEW r \in BOOLEAN
      PROVE  LET q == [NoOp EXCEPT !.set = TRUE, !.recurring = r] IN q \in Calls /\ q.pc = "idle"
  BY DEF NoOp, Calls, Entries
<1> QED BY <1>1, <1>2, <1>3 DEF Call

\* The item Lock takes from those nobody refers to.
LEMMA LockPicks ==
  ASSUME TimerTypeOK, NEW a \in Actors, Lock(a)
  PROVE  \E n \in Unused :
           /\ item' = [item EXCEPT ![n] = [state |-> "idle", recurring |-> op[a].recurring]]
           /\ current' = IF current = n THEN NoItem ELSE current
           /\ op' = [op EXCEPT ![a].pc = "queue", ![a].item = n]
<1>1. Unused # {}
  BY FS_EmptySet DEF Lock, MayTake
<1>2. (CHOOSE i \in Unused : TRUE) \in Unused
  BY <1>1
<1> QED BY <1>2 DEF Lock

\* Nobody has an unused item in its hands.
LEMMA UnusedItem ==
  ASSUME NEW n \in Unused
  PROVE  /\ n \in Items /\ n \notin Held
         /\ \A a \in Actors : op[a].item # n
  BY DEF Unused

-----------------------------------------------------------------------------
\* Every step keeps the type invariant.
LEMMA TimerTypeStep ==
  ASSUME TimerTypeOK, Hands, Running, TimerNext
  PROVE  TimerTypeOK'
<1> USE DEF TimerTypeOK, queueVars, timerVars
<1>0. \A a \in Actors : op[a] \in Calls
  OBVIOUS
<1>1. ASSUME NEW t \in Threads, ThreadCalls(t)
      PROVE  TimerTypeOK'
  <2>1. op' \in [Actors -> Calls]
    BY <1>1, CallBegins DEF ThreadCalls, Actors
  <2> QED BY <1>1, <2>1 DEF ThreadCalls
<1>2. ASSUME NEW a \in Actors, DisarmWaits(a) \/ QueueTimer(a)
      PROVE  TimerTypeOK'
  <2>1. op' \in [Actors -> Calls]
    BY <1>2 DEF DisarmWaits, QueueTimer, Calls
  <2>2. QueueTimer(a) => op[a].item \in Entries
    BY DEF Calls
  <2> QED BY <1>2, <2>1, <2>2 DEF DisarmWaits, QueueTimer
<1>3. ASSUME NEW a \in Actors, DisarmNow(a)
      PROVE  TimerTypeOK'
  <2>1. op' \in [Actors -> Calls]
    BY <1>3, <1>0, AfterCancelShape DEF DisarmNow, Told
  <2>2. op[a].item \in Items
    BY <1>3 DEF DisarmNow, Disarming, Hands
  <2> QED BY <1>3, <2>1, <2>2 DEF DisarmNow, Told, ItemStates
<1>4. CASE DisarmOwn
  <2>1. op' \in [Actors -> Calls]
    BY <1>4, <1>0, AfterCancelShape DEF DisarmOwn, Told, Actors
  <2>2. op[Dispatch].item \in Items
    BY <1>4 DEF DisarmOwn, Hands, Actors
  <2> QED BY <1>4, <2>1, <2>2 DEF DisarmOwn, Told, ItemStates
<1>5. ASSUME NEW a \in Actors, Lock(a)
      PROVE  TimerTypeOK'
  <2>1. PICK n \in Unused :
           /\ item' = [item EXCEPT ![n] = [state |-> "idle", recurring |-> op[a].recurring]]
           /\ current' = IF current = n THEN NoItem ELSE current
           /\ op' = [op EXCEPT ![a].pc = "queue", ![a].item = n]
    BY <1>5, LockPicks
  <2>2. n \in Items
    BY UnusedItem
  <2>3. op' \in [Actors -> Calls]
    <3>1. [op[a] EXCEPT !.pc = "queue", !.item = n] \in Calls
      BY <1>0, <2>2 DEF Calls, Entries
    <3>2. op' = [op EXCEPT ![a] = [op[a] EXCEPT !.pc = "queue", !.item = n]]
      BY <2>1
    <3> QED BY <3>1, <3>2
  <2>4. item' \in [Items -> [state : ItemStates, recurring : BOOLEAN]]
    BY <1>0, <2>1, <2>2 DEF Calls, ItemStates
  <2> QED BY <1>5, <2>1, <2>3, <2>4 DEF Lock, Entries
<1>6. ASSUME NEW a \in Actors, Assign(a)
      PROVE  TimerTypeOK'
  <2>1. op' \in [Actors -> Calls]
    BY <1>6, NoOpIsCall DEF Assign
  <2>2. op[a].item \in Entries
    BY DEF Calls
  <2> QED BY <1>6, <2>1, <2>2 DEF Assign
<1>7. CASE Top \/ EndPass \/ Signal
  BY <1>7 DEF Top, EndPass, Signal, Step, Rescheduled
<1>8. CASE Consume
  <2>1. waitQueue' \subseteq Items
    BY <1>8 DEF Consume, ToSet, Entries
  <2>2. ring' \in Seq(Entries)
    BY <1>8 DEF Consume
  <2> QED BY <1>8, <2>1, <2>2 DEF Consume, Step
<1>9. ASSUME NEW i \in Items, Fire(i)
      PROVE  TimerTypeOK'
  <2>1. item' \in [Items -> [state : ItemStates, recurring : BOOLEAN]]
    <3>1. [item[i] EXCEPT !.state = "callback"] \in [state : ItemStates, recurring : BOOLEAN]
      BY DEF ItemStates
    <3>2. item' = item \/ item' = [item EXCEPT ![i] = [item[i] EXCEPT !.state = "callback"]]
      BY <1>9 DEF Fire
    <3> QED BY <3>1, <3>2
  <2>2. quiet' \in [Items -> {"no", "callback", "all"}]
    BY <1>9 DEF Fire, Forget
  <2>3. dispatch' \in [pc : {"top", "exited", "consume", "fire", "signal", "call", "body"},
                      item : Entries]
    BY <1>9 DEF Fire, Entries
  <2> QED BY <1>9, <2>1, <2>2, <2>3 DEF Fire
<1>10. CASE RunCallback
  BY <1>10 DEF RunCallback, Step
<1>11. CASE CallbackReturns
  <2>1. op' \in [Actors -> Calls]
    BY <1>11 DEF CallbackReturns, Calls
  <2>0. dispatch.item \in Items
    BY <1>11 DEF CallbackReturns, Running, At, Entries
  <2>2. item' \in [Items -> [state : ItemStates, recurring : BOOLEAN]]
    <3>1. Disarmed \in [state : ItemStates, recurring : BOOLEAN]
      BY DEF Disarmed, ItemStates
    <3>2. CASE MayRecur(item[dispatch.item])
      <4> DEFINE i == dispatch.item
      <4>1. [item[i] EXCEPT !.state = "idle"] \in [state : ItemStates, recurring : BOOLEAN]
        BY <2>0 DEF ItemStates
      <4>2. item' = [item EXCEPT ![i] = [item[i] EXCEPT !.state = "idle"]]
        BY <1>11, <3>2 DEF CallbackReturns
      <4> QED BY <2>0, <4>1, <4>2
    <3>3. CASE ~MayRecur(item[dispatch.item])
      BY <1>11, <2>0, <3>1, <3>3 DEF CallbackReturns
    <3> QED BY <3>2, <3>3
  <2>3. quiet' \in [Items -> {"no", "callback", "all"}]
    BY <1>11 DEF CallbackReturns, Forget
  <2>4. again' \subseteq Items
    BY <1>11, <2>0 DEF CallbackReturns
  <2> QED BY <1>11, <2>1, <2>2, <2>3, <2>4 DEF CallbackReturns, Entries
<1>12. ASSUME NEW i \in Items, BecomeDue(i)
      PROVE  TimerTypeOK'
  BY <1>12 DEF BecomeDue
<1>13. CASE Stop
  BY <1>13 DEF Stop, Kick, Entries
<1>14. CASE CallbackCalls
  <2>1. op' \in [Actors -> Calls]
    BY <1>14, CallBegins DEF CallbackCalls, Actors
  <2> QED BY <1>14, <2>1 DEF CallbackCalls
<1> QED BY <1>1, <1>2, <1>3, <1>4, <1>5, <1>6, <1>7, <1>8, <1>9, <1>10, <1>11, <1>12, <1>13, <1>14
        DEF TimerNext, Goes, DispatchNext, Actors

-----------------------------------------------------------------------------
\* The lists an item moves between.
LEMMA HeldKept ==
  ASSUME TimerTypeOK, Consume \/ EndPass \/ Stop, NEW i \in Items
  PROVE  i \in Held' <=> i \in Held
<1>0. dispatch'.item = dispatch.item
  BY DEF Consume, EndPass, Stop, Step, TimerTypeOK
<1>1. DOMAIN ring = 1..Len(ring)
  BY DEF TimerTypeOK
<1>2. CASE Consume
  <2>1. DOMAIN ring' = {} /\ again' = again
    BY <1>2 DEF Consume
  <2>2. i \in waitQueue' <=> i \in waitQueue \/ \E k \in 1..Len(ring) : ring[k] = i
    BY <1>1, <1>2, TimerAssumption DEF Consume, ToSet
  <2> QED BY <1>0, <1>1, <2>1, <2>2 DEF Held, ToSet
<1>3. CASE EndPass
  BY <1>0, <1>3 DEF EndPass, Held, Rescheduled
<1>4. CASE Stop
  <2>1. ring' = Append(ring, NoItem) /\ i # NoItem
    BY <1>4, TimerAssumption DEF Stop, Kick
  <2>2. DOMAIN ring' = 1..Len(ring')
    BY <2>1 DEF TimerTypeOK, Entries
  <2>3. (\E k \in 1..Len(ring') : ring'[k] = i) <=> (\E k \in 1..Len(ring) : ring[k] = i)
    BY <2>1 DEF TimerTypeOK, Entries
  <2>4. UNCHANGED <<waitQueue, again, dispatch>>
    BY <1>4 DEF Stop
  <2> QED BY <1>1, <2>2, <2>3, <2>4 DEF Held, ToSet
<1> QED BY <1>2, <1>3, <1>4

-----------------------------------------------------------------------------
\* Every step keeps what a call has in its hands: only the holder of mutex_ has a new
\* item, and mutex_ has one holder.
LEMMA HandsStep ==
  ASSUME TimerTypeOK, Hands, Running, TimerNext
  PROVE  Hands'
<1> USE TimerAssumption DEF TimerTypeOK, queueVars, timerVars
<1>0. \A a \in Actors : op[a] \in Calls
  OBVIOUS
<1>1. ASSUME NEW a \in Actors, Call(a), op[a].pc = "idle", UNCHANGED mutex
      PROVE  Hands'
  <2>1. PICK r \in Calls : Begun(r) /\ op' = [op EXCEPT ![a] = r]
    BY <1>1, CallBegins
  <2> QED BY <1>1, <2>1 DEF Hands, Begun
<1>2. ASSUME NEW a \in Actors, DisarmWaits(a) \/ QueueTimer(a)
      PROVE  Hands'
  BY <1>0, <1>2 DEF DisarmWaits, Disarming, QueueTimer, Hands, Calls
<1>3. ASSUME NEW a \in Actors, op[a].pc = "disarm", op' = [op EXCEPT ![a] = AfterCancel(@)],
             UNCHANGED mutex
      PROVE  Hands'
  BY <1>0, <1>3, AfterCancelShape DEF Hands, NoOp
<1>4. ASSUME NEW a \in Actors, DisarmNow(a)
      PROVE  Hands'
  BY <1>3, <1>4 DEF DisarmNow, Disarming, Told
<1>5. CASE DisarmOwn
  BY <1>3, <1>5 DEF DisarmOwn, Told, Actors
<1>6. ASSUME NEW a \in Actors, Lock(a)
      PROVE  Hands'
  <2>1. PICK n \in Unused : op' = [op EXCEPT ![a].pc = "queue", ![a].item = n]
    BY <1>6, LockPicks
  <2>2. n \in Items
    BY UnusedItem
  <2>3. \A b \in Actors : b # Free
    BY DEF Actors
  <2>4. /\ op'[a].pc = "queue" /\ op'[a].item = n /\ op'[a].set = op[a].set
        /\ \A b \in Actors \ {a} : op'[b] = op[b]
    BY <1>0, <2>1 DEF Calls
  <2>5. op[a].pc = "lock" /\ mutex = Free /\ mutex' = a
    BY <1>6 DEF Lock
  <2> QED BY <2>2, <2>3, <2>4, <2>5 DEF Hands
<1>7. ASSUME NEW a \in Actors, Assign(a)
      PROVE  Hands'
  <2>1. \A b \in Actors : b # Free
    BY DEF Actors
  <2>2. op' = [op EXCEPT ![a] = NoOp] /\ mutex' = Free /\ op[a].pc = "assign"
    BY <1>7 DEF Assign
  <2> QED BY <1>0, <2>1, <2>2 DEF Hands, NoOp
<1>8. ASSUME UNCHANGED <<op, mutex>>
      PROVE  Hands'
  BY <1>8 DEF Hands
<1>9. CASE CallbackReturns
  <2>1. \A a \in Actors :
          \/ op'[a] = op[a]
          \/ op[a].pc = "parked" /\ op'[a] = [op[a] EXCEPT !.pc = "disarm"]
    BY <1>9 DEF CallbackReturns, Notified
  <2>2. mutex' = mutex
    BY <1>9 DEF CallbackReturns
  <2>3. \A a \in Actors :
          /\ op'[a].item = op[a].item /\ op'[a].set = op[a].set
          /\ op'[a].pc = op[a].pc \/ (op[a].pc = "parked" /\ op'[a].pc = "disarm")
    <3> SUFFICES ASSUME NEW a \in Actors
                 PROVE  /\ op'[a].item = op[a].item /\ op'[a].set = op[a].set
                        /\ op'[a].pc = op[a].pc \/ (op[a].pc = "parked" /\ op'[a].pc = "disarm")
      OBVIOUS
    <3>1. op[a] \in Calls
      BY <1>0
    <3>2. CASE op[a].pc = "parked" /\ op'[a] = [op[a] EXCEPT !.pc = "disarm"]
      BY <3>1, <3>2 DEF Calls
    <3> HIDE DEF TimerTypeOK
    <3>3. CASE op'[a] = op[a]
      BY <3>3
    <3> QED BY <2>1, <3>2, <3>3
  <2> QED BY <2>2, <2>3 DEF Hands
<1>10. ASSUME NEW t \in Threads, ThreadCalls(t)
       PROVE  Hands'
  BY <1>1, <1>10 DEF ThreadCalls, Actors
<1>11. CASE CallbackCalls
  BY <1>1, <1>11 DEF CallbackCalls, Actors
<1>12. CASE \/ Top \/ Consume \/ (\E i \in Items : Fire(i) \/ BecomeDue(i)) \/ EndPass
            \/ Signal \/ RunCallback \/ Stop
  BY <1>8, <1>12 DEF Top, Consume, Fire, BecomeDue, EndPass, Signal, RunCallback, Stop
<1> QED BY <1>2, <1>4, <1>5, <1>6, <1>7, <1>8, <1>9, <1>10, <1>11, <1>12
        DEF TimerNext, Goes, DispatchNext

-----------------------------------------------------------------------------
\* What a step does to an item: a thread's disarm finds no callback of it running,
\* the callback's own one does.
LEMMA RunningStep ==
  ASSUME TimerTypeOK, Hands, Running, NoneAfterDisarm, TimerNext
  PROVE  Running'
<1> USE TimerAssumption DEF TimerTypeOK, queueVars, timerVars
<1>0. \A a \in Actors : op[a] \in Calls
  OBVIOUS
<1>1. ASSUME NEW a \in Actors, a # Dispatch, op'[Dispatch] = op[Dispatch],
             UNCHANGED <<item, dispatch>>
      PROVE  Running'
  BY <1>1 DEF Running
<1>2. ASSUME NEW t \in Threads, ThreadCalls(t)
      PROVE  Running'
  <2>1. \E r \in Calls : op' = [op EXCEPT ![t] = r]
    BY <1>2, CallBegins DEF ThreadCalls, Actors
  <2> QED BY <1>1, <1>2, <2>1 DEF ThreadCalls, Actors
<1>3. ASSUME NEW a \in Actors, DisarmWaits(a) \/ QueueTimer(a) \/ Assign(a)
      PROVE  Running'
  <2>1. op[a].pc # "idle" /\ UNCHANGED <<item, dispatch>>
        /\ \A b \in Actors \ {a} : op'[b] = op[b]
    BY <1>3 DEF DisarmWaits, Disarming, QueueTimer, Assign
  <2> QED BY <2>1 DEF Running, Actors
<1>4. ASSUME NEW a \in Actors, DisarmNow(a)
      PROVE  Running'
  <2>1. op[a].item \in Items /\ ~MustWait(item[op[a].item].state) /\ op[a].pc # "idle"
    BY <1>4 DEF DisarmNow, Disarming, Hands
  <2>2. item' = [item EXCEPT ![op[a].item].state = "disarmed"] /\ dispatch' = dispatch
        /\ \A b \in Actors \ {a} : op'[b] = op[b]
    BY <1>4 DEF DisarmNow, Told
  <2>3. \A i \in Items : MustWait(item'[i].state) <=> MustWait(item[i].state)
    BY <2>1, <2>2 DEF MustWait
  <2>4. \A i \in Items : item'[i].state \in {item[i].state, "disarmed"}
    BY <2>1, <2>2
  <2>5. dispatch.pc # "body" => op'[Dispatch] = op[Dispatch]
    BY <2>1, <2>2 DEF Running, Actors
  <2> HIDE DEF TimerTypeOK
  <2> QED BY <2>2, <2>3, <2>4, <2>5 DEF Running
<1>5. CASE DisarmOwn
  <2>1. op[Dispatch].item \in Items /\ item[op[Dispatch].item].state = "callback"
        /\ op[Dispatch].pc # "idle"
    BY <1>5 DEF DisarmOwn, Hands, Actors
  <2>2. item' = [item EXCEPT ![op[Dispatch].item].state = "callback self-disarmed"]
        /\ dispatch' = dispatch
    BY <1>5 DEF DisarmOwn, Told
  <2>3. \A i \in Items : MustWait(item'[i].state) <=> MustWait(item[i].state)
    BY <2>1, <2>2 DEF MustWait
  <2> QED BY <2>1, <2>2, <2>3 DEF Running
<1>6. ASSUME NEW a \in Actors, Lock(a)
      PROVE  Running'
  <2>1. PICK n \in Unused :
          /\ item' = [item EXCEPT ![n] = [state |-> "idle", recurring |-> op[a].recurring]]
          /\ op' = [op EXCEPT ![a].pc = "queue", ![a].item = n]
    BY <1>6, LockPicks
  <2>2. n \in Items /\ dispatch.item # n
    BY UnusedItem DEF Held
  <2>3. \A i \in Items : MustWait(item'[i].state) <=> MustWait(item[i].state)
    <3>1. ~MustWait(item[n].state)
      BY <2>2 DEF Running
    <3>2. item'[n].state = "idle" /\ \A i \in Items : i # n => item'[i] = item[i]
      BY <2>1, <2>2
    <3> QED BY <3>1, <3>2 DEF MustWait
  <2>4. \A i \in Items : item'[i].state \in {item[i].state, "idle"}
    BY <2>1, <2>2
  <2>5. op[a].pc = "lock" /\ dispatch' = dispatch /\ \A b \in Actors \ {a} : op'[b] = op[b]
    BY <1>6, <2>1 DEF Lock
  <2> QED BY <2>2, <2>3, <2>4, <2>5 DEF Running, Actors
<1>7. CASE Top \/ Consume \/ EndPass \/ Signal
  <2>1. UNCHANGED <<item, op>> /\ dispatch.pc # "body" /\ dispatch'.item = dispatch.item
        /\ dispatch'.pc # "body"
        /\ (dispatch'.pc = "call" <=> dispatch.pc = "signal") /\ dispatch.pc # "call"
        /\ dispatch'.pc # "signal"
    BY <1>7 DEF Top, Consume, EndPass, Signal, Step, At
  <2> HIDE DEF TimerTypeOK
  <2> QED BY <2>1 DEF Running
<1>8. ASSUME NEW i \in Items, Fire(i)
      PROVE  Running'
  <2>1. CASE MayFire(i)
    <3>1. item' = [item EXCEPT ![i].state = "callback"] /\ op' = op
          /\ dispatch'.item = i /\ dispatch'.pc = "signal" /\ dispatch.pc = "fire"
      BY <1>8, <2>1 DEF Fire, At
    <3>2. \A j \in Items : j # i => item'[j] = item[j]
      BY <3>1
    <3>3. item'[i].state = "callback"
      BY <3>1
    <3>4. \A j \in Items : ~MustWait(item[j].state) /\ item[j].state # "callback self-disarmed"
      <4>1. dispatch.item = NoItem /\ dispatch.pc # "body"
        BY <3>1 DEF Running
      <4> HIDE DEF TimerTypeOK
      <4> QED BY <4>1 DEF Running
    <3> HIDE DEF TimerTypeOK
    <3>5. \A j \in Items : MustWait(item'[j].state) <=> j = i
      BY <3>2, <3>3, <3>4 DEF MustWait
    <3>6. \A j \in Items : item'[j].state # "callback self-disarmed"
      BY <3>2, <3>3, <3>4
    <3>7. op'[Dispatch].pc = "idle"
      BY <3>1 DEF Running
    <3> QED BY <3>1, <3>5, <3>6, <3>7 DEF Running
  <2>2. CASE ~MayFire(i)
    BY <1>8, <2>2 DEF Fire, Running
  <2> QED BY <2>1, <2>2
<1>9. CASE RunCallback
  BY <1>9 DEF RunCallback, Step, At, Running
<1>10. CASE CallbackReturns
  <2> DEFINE i == dispatch.item
  <2>1. i \in Items /\ dispatch.pc = "body"
    BY <1>10 DEF CallbackReturns, At, Running, Entries
  <2>2. item'[i].state \in {"idle", "disarmed"} /\ \A j \in Items : j # i => item'[j] = item[j]
    BY <1>10, <2>1 DEF CallbackReturns, Disarmed
  <2>3. dispatch'.item = NoItem /\ dispatch'.pc = "fire"
    BY <1>10 DEF CallbackReturns
  <2>4. op'[Dispatch] = op[Dispatch] /\ op[Dispatch].pc = "idle"
    BY <1>10 DEF CallbackReturns, Notified, Actors
  <2> QED BY <2>1, <2>2, <2>3, <2>4 DEF Running, MustWait
<1>11. CASE Stop
  BY <1>11 DEF Stop, Running
<1>12. ASSUME NEW i \in Items, BecomeDue(i)
       PROVE  Running'
  BY <1>12 DEF BecomeDue, Running
<1>13. CASE CallbackCalls
  BY <1>13 DEF CallbackCalls, At, Running
<1> QED BY <1>2, <1>3, <1>4, <1>5, <1>6, <1>7, <1>8, <1>9, <1>10, <1>11, <1>12, <1>13
        DEF TimerNext, Goes, DispatchNext

-----------------------------------------------------------------------------
(* Who has been told that an item is disarmed.                             *)

Quiet(i) == /\ quiet[i] = "all" => item[i].state = "disarmed" /\ dispatch.item # i
            /\ quiet[i] = "callback" => item[i].state \in {"callback self-disarmed", "disarmed"}

\* A step breaks no promise Disarm has made, to a thread or to the callback.
LEMMA QuietStep ==
  ASSUME TimerTypeOK, Hands, Running, Unheard, NoneAfterDisarm, TimerNext, NEW i \in Items
  PROVE  Quiet(i)' /\ (i \notin Held' => quiet'[i] = "no")
<1> USE TimerAssumption DEF queueVars, timerVars
<1>0. /\ \A a \in Actors : op[a] \in Calls
      /\ quiet \in [Items -> {"no", "callback", "all"}]
      /\ item \in [Items -> [state : ItemStates, recurring : BOOLEAN]]
  BY DEF TimerTypeOK
<1>1. Quiet(i) /\ (i \notin Held => quiet[i] = "no")
  BY DEF NoneAfterDisarm, Unheard, Quiet
<1>2. ASSUME UNCHANGED <<item, quiet>>, dispatch'.item = dispatch.item, i \in Held' <=> i \in Held
      PROVE  Quiet(i)' /\ (i \notin Held' => quiet'[i] = "no")
  BY <1>1, <1>2 DEF Quiet
<1>4. ASSUME NEW a \in Actors, NEW j \in Items, Told(a, j, "disarmed", "all"),
             ~MustWait(item[j].state), UNCHANGED dispatch
      PROVE  Quiet(i)'
  <2>1. dispatch.item # j
    BY <1>4 DEF Running
  <2>2. CASE j # i
    BY <1>0, <1>1, <1>4, <2>2 DEF Told, Quiet
  <2>3. CASE j = i
    <3>1. item'[i].state = "disarmed" /\ dispatch'.item # i
      BY <1>0, <1>4, <2>1, <2>3 DEF Told
    <3> QED BY <3>1 DEF Quiet
  <2> QED BY <2>2, <2>3
<1>5. ASSUME NEW a \in Actors, NEW j \in Items, NEW st, NEW who, Told(a, j, st, who), i \notin Held
      PROVE  quiet'[i] = "no"
  BY <1>0, <1>1, <1>5 DEF Told
<1>6. ASSUME NEW a \in Actors, DisarmNow(a)
      PROVE  Quiet(i)' /\ (i \notin Held' => quiet'[i] = "no")
  <2>1. op[a].item \in Items /\ ~MustWait(item[op[a].item].state)
        /\ Told(a, op[a].item, "disarmed", "all") /\ UNCHANGED <<dispatch, queueVars>>
    BY <1>6 DEF DisarmNow, Disarming, Hands
  <2>2. i \in Held' <=> i \in Held
    BY <2>1 DEF Held
  <2> QED BY <1>4, <1>5, <2>1, <2>2
<1>7. CASE DisarmOwn
  <2> DEFINE j == op[Dispatch].item
  <2>1. /\ Dispatch \in Actors /\ j \in Items /\ item[j].state = "callback"
        /\ Told(Dispatch, j, "callback self-disarmed", "callback")
        /\ UNCHANGED <<dispatch, queueVars>>
    BY <1>7 DEF DisarmOwn, Hands, Actors
  <2>2. i \in Held' <=> i \in Held
    BY <2>1 DEF Held
  <2>3. Quiet(i)'
    <3>1. CASE j # i
      BY <1>0, <1>1, <2>1, <3>1 DEF Told, Quiet
    <3>2. CASE j = i
      <4>1. quiet[i] # "all"
        BY <1>1, <2>1, <3>2 DEF Quiet
      <4>2. item'[i].state = "callback self-disarmed" /\ quiet'[i] # "all"
        BY <1>0, <2>1, <3>2, <4>1 DEF Told
      <4> QED BY <4>2 DEF Quiet
    <3> QED BY <3>1, <3>2
  <2> QED BY <1>5, <2>1, <2>2, <2>3
<1>8. ASSUME NEW a \in Actors, Lock(a)
      PROVE  Quiet(i)' /\ (i \notin Held' => quiet'[i] = "no")
  <2>1. PICK n \in Unused :
           item' = [item EXCEPT ![n] = [state |-> "idle", recurring |-> op[a].recurring]]
    BY <1>8, LockPicks
  <2>2. quiet[n] = "no" /\ n \in Items
    BY UnusedItem DEF Unheard
  <2>3. UNCHANGED <<quiet, dispatch, queueVars>>
    BY <1>8 DEF Lock
  <2>4. i \in Held' <=> i \in Held
    BY <2>3 DEF Held
  <2>5. CASE i = n
    BY <2>2, <2>3, <2>4, <2>5 DEF Quiet
  <2>6. CASE i # n
    BY <1>0, <1>1, <2>1, <2>2, <2>3, <2>4, <2>6 DEF Quiet
  <2> QED BY <2>5, <2>6
<1>9. ASSUME NEW a \in Actors, QueueTimer(a)
      PROVE  Quiet(i)' /\ (i \notin Held' => quiet'[i] = "no")
  <2>1. i \in Held => i \in Held'
    <3>1. /\ ring \in Seq(Entries) /\ op[a].item \in Entries /\ ring' = Append(ring, op[a].item)
          /\ UNCHANGED <<waitQueue, again, dispatch>>
      BY <1>0, <1>9 DEF QueueTimer, TimerTypeOK, Calls
    <3>2. \A k \in 1..Len(ring) : k \in 1..Len(ring') /\ ring'[k] = ring[k]
      BY <3>1
    <3>3. DOMAIN ring = 1..Len(ring) /\ DOMAIN ring' = 1..Len(ring')
      BY <3>1
    <3> QED BY <3>1, <3>2, <3>3 DEF Held, ToSet
  <2> QED BY <1>1, <1>9, <2>1 DEF QueueTimer, Quiet
<1>10. ASSUME NEW j \in Items, Fire(j)
       PROVE  Quiet(i)' /\ (i \notin Held' => quiet'[i] = "no")
  <2>1. CASE MayFire(j)
    <3>1. /\ item[j].state = "idle" /\ item' = [item EXCEPT ![j].state = "callback"]
          /\ dispatch'.item = j /\ quiet' = quiet
      BY <1>10, <2>1 DEF Fire, MayFire, TimerTypeOK
    <3>2. CASE i = j
      <4>1. quiet[i] = "no"
        BY <1>0, <1>1, <3>1, <3>2 DEF Quiet
      <4> QED BY <3>1, <4>1 DEF Quiet
    <3>3. CASE i # j
      <4>1. i \in Held' <=> i \in Held
        <5>1. dispatch.item = NoItem
          BY <1>10 DEF Fire, At, Running
        <5> QED BY <1>10, <3>1, <3>3, <5>1 DEF Fire, Held
      <4>2. item'[i] = item[i]
        BY <3>1, <3>3
      <4> QED BY <1>1, <3>1, <3>3, <4>1, <4>2 DEF Quiet
    <3> QED BY <3>2, <3>3
  <2>2. CASE ~MayFire(j)
    <3>1. item' = item /\ dispatch' = dispatch /\ quiet' = [quiet EXCEPT ![j] = "no"]
      BY <1>10, <2>2 DEF Fire, Forget
    <3>2. CASE i = j
      BY <1>0, <3>1, <3>2 DEF Quiet
    <3>3. CASE i # j
      <4>1. i \in Held' <=> i \in Held
        BY <1>10, <3>1, <3>3 DEF Fire, Held
      <4> QED BY <1>0, <1>1, <3>1, <3>3, <4>1 DEF Quiet
    <3> QED BY <3>2, <3>3
  <2> QED BY <2>1, <2>2
<1>11. CASE CallbackReturns
  <2> DEFINE j == dispatch.item
  <2>1. j \in Items /\ MustWait(item[j].state)
    BY <1>11 DEF CallbackReturns, At, Running, TimerTypeOK, Entries
  <2>2. dispatch'.item = NoItem
    BY <1>11 DEF CallbackReturns, TimerTypeOK
  <2>3. CASE i # j
    <3>1. item'[i] = item[i] /\ quiet'[i] = quiet[i]
      BY <1>0, <1>11, <2>1, <2>3 DEF CallbackReturns, Forget
    <3>2. i \in Held' <=> i \in Held
      <4>1. again' \ {j} = again \ {j} /\ UNCHANGED <<ring, waitQueue>>
        BY <1>11 DEF CallbackReturns
      <4> QED BY <2>2, <2>3, <4>1 DEF Held
    <3> QED BY <1>1, <2>2, <3>1, <3>2 DEF Quiet
  <2>4. CASE i = j /\ MayRecur(item[i])
    <3>1. quiet[i] = "no"
      <4>1. item[i].state = "callback"
        BY <2>1, <2>4 DEF MayRecur, MustWait
      <4> QED BY <1>0, <1>1, <4>1 DEF Quiet
    <3>2. quiet' = quiet
      BY <1>11, <2>4 DEF CallbackReturns
    <3> QED BY <3>1, <3>2 DEF Quiet
  <2>5. CASE i = j /\ ~MayRecur(item[i])
    <3>1. quiet'[i] = "no"
      BY <1>0, <1>11, <2>5 DEF CallbackReturns, Forget
    <3> QED BY <3>1 DEF Quiet
  <2> QED BY <2>3, <2>4, <2>5
<1>12. ASSUME NEW a \in Actors, DisarmWaits(a) \/ Assign(a)
       PROVE  Quiet(i)' /\ (i \notin Held' => quiet'[i] = "no")
  <2>1. UNCHANGED <<item, quiet, dispatch, queueVars>>
    BY <1>12 DEF DisarmWaits, Assign
  <2>2. i \in Held' <=> i \in Held
    BY <2>1 DEF Held
  <2> QED BY <1>2, <2>1, <2>2
<1>13. CASE Top \/ Signal \/ RunCallback
  <2>1. UNCHANGED <<item, quiet, queueVars>> /\ dispatch'.item = dispatch.item
    BY <1>13 DEF Top, Signal, RunCallback, Step, TimerTypeOK
  <2>2. i \in Held' <=> i \in Held
    BY <2>1 DEF Held
  <2> QED BY <1>2, <2>1, <2>2
<1>14. CASE Consume \/ EndPass \/ Stop
  <2>1. UNCHANGED <<item, quiet>> /\ dispatch'.item = dispatch.item
    BY <1>14 DEF Consume, EndPass, Stop, Step, TimerTypeOK
  <2>2. i \in Held' <=> i \in Held
    BY <1>14, HeldKept
  <2> QED BY <1>2, <2>1, <2>2
<1>15. ASSUME NEW j \in Items, BecomeDue(j)
       PROVE  Quiet(i)' /\ (i \notin Held' => quiet'[i] = "no")
  <2>1. UNCHANGED <<item, quiet, dispatch, queueVars>>
    BY <1>15 DEF BecomeDue
  <2> QED BY <1>2, <2>1 DEF Held
<1>16. CASE CallbackCalls \/ \E t \in Threads : ThreadCalls(t)
  <2>1. UNCHANGED <<item, quiet, dispatch, queueVars>>
    BY <1>16 DEF ThreadCalls, CallbackCalls
  <2> QED BY <1>2, <2>1 DEF Held
<1> QED BY <1>6, <1>7, <1>8, <1>9, <1>10, <1>11, <1>12, <1>13, <1>14, <1>15, <1>16
        DEF TimerNext, Goes, DispatchNext, Actors

-----------------------------------------------------------------------------
(* The armed item is the one in wait_item_.                                *)

\* A call that stays where it is, as far as Owned can tell.
Stays(a) ==
  /\ op'[a].item = op[a].item /\ op'[a].set = op[a].set
  /\ \/ op'[a].pc = op[a].pc
     \/ op'[a].pc \in {"disarm", "parked"} /\ op[a].pc \in {"disarm", "parked"}
     \/ op'[a].pc \in {"queue", "assign"} /\ op[a].pc \in {"queue", "assign"}

\* A call that stays where it is keeps its part of Owned.
LEMMA StayStep ==
  ASSUME Owned, Answered, \A a \in Actors : Stays(a), UNCHANGED <<current, raced>>,
         \A i \in Items : Live(i)' => Live(i),
         dispatch'.pc \in {"call", "body"} =>
            dispatch.pc \in {"call", "body"} /\ dispatch'.item = dispatch.item
  PROVE  Owned' /\ Answered'
<1>1. \A a \in Actors : (a \in Setting)' <=> a \in Setting
  BY DEF Stays, Setting
<1>2. \A i : IsNew(i)' <=> IsNew(i)
  BY DEF Stays, IsNew
<1>3. (Setting # {})' <=> Setting # {}
  BY <1>1 DEF Setting
<1>4. Answered'
  BY <1>2 DEF Answered
<1>5. Owned'
  BY <1>2, <1>3 DEF Owned, Stays
<1> QED BY <1>4, <1>5

\* A call that has nothing armed before or after the step.
LEMMA OthersStep ==
  ASSUME NEW a \in Actors, \A b \in Actors \ {a} : op'[b] = op[b],
         op[a].pc \notin {"lock", "queue", "assign"}
  PROVE  /\ op'[a].pc \notin {"queue", "assign"} => \A i : IsNew(i)' <=> IsNew(i)
         /\ op'[a].pc = "lock" => (Setting # {})'
         /\ op'[a].pc \notin {"lock", "queue", "assign"} => ((Setting # {})' <=> Setting # {})
<1>1. op'[a].pc \notin {"queue", "assign"} => \A i : IsNew(i)' <=> IsNew(i)
  BY DEF IsNew
<1>2. op'[a].pc = "lock" => (Setting # {})'
  BY DEF Setting
<1>3. ASSUME op'[a].pc \notin {"lock", "queue", "assign"}
      PROVE  (Setting # {})' <=> Setting # {}
  BY <1>3 DEF Setting
<1> QED BY <1>1, <1>2, <1>3

\* A call that begins reads wait_item_, so what it will disarm is the armed item.
LEMMA BeginStep ==
  ASSUME TimerTypeOK, Owned, Answered, NEW a \in Actors, op[a].pc = "idle", Call(a),
         UNCHANGED <<item, current, raced>>,
         dispatch'.pc \in {"call", "body"} =>
            dispatch.pc \in {"call", "body"} /\ dispatch'.item = dispatch.item
  PROVE  Owned' /\ Answered'
<1>1. PICK r \in Calls : Begun(r) /\ op' = [op EXCEPT ![a] = r]
  BY CallBegins
<1>2. op'[a] = r /\ \A b \in Actors \ {a} : op'[b] = op[b]
  BY <1>1 DEF TimerTypeOK
<1>3. \A i : IsNew(i)' <=> IsNew(i)
  BY <1>1, <1>2, OthersStep DEF Begun
<1>4. Answered'
  BY <1>3 DEF Answered
<1>5. ASSUME ~raced', NEW i \in Items, Live(i)'
      PROVE  IF (Setting # {})' THEN IsNew(i)' ELSE current' = i
  <2>1. IF Setting # {} THEN IsNew(i) ELSE current = i
    BY <1>5 DEF Owned, Live
  <2>2. CASE r.pc = "lock"
    <3>1. (Setting # {})' /\ current # i
      BY <1>1, <1>2, <2>2, OthersStep, TimerAssumption DEF Begun
    <3> QED BY <1>3, <2>1, <3>1
  <2>3. CASE r.pc # "lock"
    <3>1. (Setting # {})' <=> Setting # {}
      BY <1>1, <1>2, <2>3, OthersStep DEF Begun
    <3> QED BY <1>3, <2>1, <3>1
  <2> QED BY <2>2, <2>3
<1>6. ASSUME ~raced', NEW b \in Actors, op'[b].set, op'[b].pc \in {"disarm", "parked"}
      PROVE  op'[b].item = current'
  BY <1>1, <1>2, <1>6 DEF Begun, Owned
<1> QED BY <1>4, <1>5, <1>6 DEF Owned

\* Cancel's disarm: a setter goes on to the lock, with nothing armed but what
\* another setter has in its hands.
LEMMA CancelStep ==
  ASSUME TimerTypeOK, Owned, Answered, NEW a \in Actors, op[a].pc = "disarm",
         op[a].item \in Items,
         op' = [op EXCEPT ![a] = AfterCancel(@)],
         \A i \in Items : Live(i)' => Live(i) /\ i # op[a].item,
         UNCHANGED <<current, raced, dispatch>>
  PROVE  Owned' /\ Answered'
<1>0. op[a] \in Calls
  BY DEF TimerTypeOK
<1>1. /\ op'[a] = AfterCancel(op[a]) /\ \A b \in Actors \ {a} : op'[b] = op[b]
      /\ op'[a].pc \in {"idle", "lock"} /\ (op'[a].pc = "lock" <=> op[a].set)
  BY <1>0, AfterCancelShape DEF NoOp, TimerTypeOK
<1>2. \A i : IsNew(i)' <=> IsNew(i)
  BY <1>1, OthersStep
<1>3. Answered'
  BY <1>2 DEF Answered
<1>4. ASSUME ~raced', NEW i \in Items, Live(i)'
      PROVE  IF (Setting # {})' THEN IsNew(i)' ELSE current' = i
  <2>1. IF Setting # {} THEN IsNew(i) ELSE current = i
    BY <1>4 DEF Owned
  <2>2. CASE op[a].set
    <3>1. (Setting # {})' /\ current # i
      BY <1>1, <1>4, <2>2, OthersStep DEF Owned
    <3> QED BY <1>2, <2>1, <3>1
  <2>3. CASE ~op[a].set
    <3>1. (Setting # {})' <=> Setting # {}
      BY <1>1, <2>3, OthersStep
    <3> QED BY <1>2, <2>1, <3>1
  <2> QED BY <2>2, <2>3
<1>5. ASSUME ~raced', NEW b \in Actors, op'[b].set, op'[b].pc \in {"disarm", "parked"}
      PROVE  op'[b].item = current'
  BY <1>1, <1>5 DEF Owned
<1> QED BY <1>3, <1>4, <1>5 DEF Owned

\* SetOnce and SetRepeating arm their item with everything else disarmed.
LEMMA LockOwned ==
  ASSUME TimerTypeOK, Hands, Owned, NEW a \in Actors, Lock(a)
  PROVE  Owned' /\ Answered'
<1>1. PICK n \in Unused :
        /\ item' = [item EXCEPT ![n] = [state |-> "idle", recurring |-> op[a].recurring]]
        /\ current' = IF current = n THEN NoItem ELSE current
        /\ op' = [op EXCEPT ![a].pc = "queue", ![a].item = n]
  BY LockPicks
<1>2. n \in Items /\ n \notin Held /\ \A b \in Actors : op[b].item # n
  BY UnusedItem
<1>3. /\ op[a].pc = "lock" /\ mutex = Free /\ raced' = raced /\ dispatch' = dispatch
      /\ \A b \in Actors \ {a} : op'[b] = op[b]
  <2>1. \A b \in Actors \ {a} : op'[b] = op[b]
    BY <1>1 DEF TimerTypeOK
  <2> QED BY <2>1 DEF Lock
<1>4. op'[a].pc = "queue" /\ op'[a].item = n
  BY <1>1 DEF TimerTypeOK, Calls
<1>5. \A b \in Actors : op[b].pc \notin {"queue", "assign"}
  BY <1>3, TimerAssumption DEF Hands, Actors
<1>6. \A i : IsNew(i)' <=> i = n
  BY <1>3, <1>4, <1>5 DEF IsNew
<1>7. Answered'
  <2>1. dispatch'.item # n
    BY <1>2, <1>3 DEF Held
  <2> QED BY <1>6, <2>1 DEF Answered
<1>8. ASSUME ~raced', NEW i \in Items, Live(i)'
      PROVE  i = n
  <2>1. i # n => ~Live(i)
    BY <1>3, <1>5, <1>8 DEF Owned, Setting, IsNew
  <2>2. i # n => item'[i] = item[i]
    BY <1>1 DEF TimerTypeOK
  <2> QED BY <1>8, <2>1, <2>2 DEF Live
<1>9. (Setting # {})'
  BY <1>4 DEF Setting
<1>10. ASSUME ~raced', NEW b \in Actors, op'[b].set, op'[b].pc \in {"disarm", "parked"}
       PROVE  op'[b].item = current'
  <2>1. b # a /\ op'[b] = op[b] /\ op[b].item = current
    BY <1>3, <1>4, <1>10 DEF Owned
  <2> QED BY <1>1, <1>2, <2>1
<1> QED BY <1>6, <1>7, <1>8, <1>9, <1>10 DEF Owned

\* wait_item_ takes over the new item; a setter in wait for the lock is a race.
LEMMA AssignOwned ==
  ASSUME TimerTypeOK, Hands, Owned, NEW a \in Actors, Assign(a)
  PROVE  Owned' /\ Answered'
<1>1. /\ op[a].pc = "assign" /\ op'[a] = NoOp /\ \A b \in Actors \ {a} : op'[b] = op[b]
      /\ current' = op[a].item /\ item' = item
  BY DEF Assign, TimerTypeOK
<1>2. \A b \in Actors \ {a} : op[b].pc \notin {"queue", "assign"}
  BY <1>1 DEF Hands
<1>3. \A b \in Actors : op'[b].pc \notin {"queue", "assign"}
  BY <1>1, <1>2 DEF NoOp
<1>4. ASSUME ~raced'
      PROVE  ~raced /\ \A b \in Actors \ {a} : ~(op[b].set /\ op[b].pc \in {"disarm", "parked", "lock"})
  BY <1>4 DEF Assign
<1>5. ASSUME ~raced', NEW b \in Actors
      PROVE  op'[b].pc # "lock" /\ ~(op'[b].set /\ op'[b].pc \in {"disarm", "parked"})
  BY <1>1, <1>4, <1>5 DEF Hands, NoOp
<1>6. ASSUME ~raced', NEW i \in Items, Live(i)'
      PROVE  current' = i
  <2>1. Live(i) /\ Setting # {}
    BY <1>1, <1>6 DEF Live, Setting
  <2>2. IsNew(i)
    BY <1>4, <1>6, <2>1 DEF Owned
  <2> QED BY <1>1, <1>2, <2>2 DEF IsNew
<1>7. ~raced' => (Setting = {})'
  BY <1>3, <1>5 DEF Setting
<1>8. Answered'
  BY <1>3 DEF Answered, IsNew
<1> QED BY <1>5, <1>6, <1>7, <1>8 DEF Owned

\* Every step keeps Owned.
LEMMA OwnedStep ==
  ASSUME TimerTypeOK, Hands, Running, Owned, Answered, TimerNext
  PROVE  Owned' /\ Answered'
<1> USE DEF queueVars, timerVars
<1>1. CASE CallbackCalls \/ \E t \in Threads : ThreadCalls(t)
  <2>1. PICK a \in Actors : op[a].pc = "idle" /\ Call(a)
    BY <1>1 DEF CallbackCalls, ThreadCalls, Actors
  <2>2. UNCHANGED <<item, current, raced, dispatch>>
    BY <1>1 DEF CallbackCalls, ThreadCalls
  <2> QED BY <2>1, <2>2, BeginStep
<1>2. ASSUME NEW a \in Actors, DisarmWaits(a) \/ QueueTimer(a)
      PROVE  Owned' /\ Answered'
  <2>1. /\ UNCHANGED <<current, raced, item, dispatch>>
        /\ \/ op[a].pc = "disarm" /\ op' = [op EXCEPT ![a].pc = "parked"]
           \/ op[a].pc = "queue" /\ op' = [op EXCEPT ![a].pc = "assign"]
    BY <1>2 DEF DisarmWaits, Disarming, QueueTimer
  <2>2. ASSUME NEW b \in Actors PROVE Stays(b)
    <3>1. op[b] \in Calls
      BY DEF TimerTypeOK
    <3>2. CASE b = a
      BY <2>1, <3>1, <3>2 DEF Stays, TimerTypeOK, Calls
    <3>3. CASE b # a
      BY <2>1, <3>3 DEF Stays, TimerTypeOK
    <3> QED BY <3>2, <3>3
  <2> QED BY <2>1, <2>2, StayStep DEF Live
<1>3. ASSUME NEW a \in Actors, DisarmNow(a)
      PROVE  Owned' /\ Answered'
  <2>1. /\ op[a].item \in Items /\ op[a].pc = "disarm"
        /\ item' = [item EXCEPT ![op[a].item].state = "disarmed"]
        /\ op' = [op EXCEPT ![a] = AfterCancel(@)]
        /\ UNCHANGED <<current, raced, dispatch>>
    BY <1>3 DEF DisarmNow, Disarming, Told, Hands
  <2>2. \A i \in Items : Live(i)' => Live(i) /\ i # op[a].item
    BY <2>1 DEF Live, TimerTypeOK
  <2> QED BY <2>1, <2>2, CancelStep
<1>4. CASE DisarmOwn
  <2> DEFINE a == Dispatch
  <2>1. /\ a \in Actors /\ op[a].item \in Items /\ op[a].pc = "disarm"
        /\ item' = [item EXCEPT ![op[a].item].state = "callback self-disarmed"]
        /\ op' = [op EXCEPT ![a] = AfterCancel(@)]
        /\ UNCHANGED <<current, raced, dispatch>>
    BY <1>4 DEF DisarmOwn, Told, Hands, Actors
  <2>2. \A i \in Items : Live(i)' => Live(i) /\ i # op[a].item
    BY <2>1 DEF Live, TimerTypeOK
  <2> QED BY <2>1, <2>2, CancelStep
<1>5. CASE RunCallback
  <2>1. UNCHANGED <<op, item, current, raced>> /\ dispatch.pc = "call" /\ dispatch'.item = dispatch.item
    BY <1>5 DEF RunCallback, At, Step, TimerTypeOK
  <2> QED BY <2>1, StayStep DEF Stays, Live
<1>6. ASSUME NEW i \in Items, Fire(i)
      PROVE  Owned' /\ Answered'
  <2>1. /\ UNCHANGED <<op, current, raced>> /\ dispatch'.pc \in {"fire", "signal"}
        /\ \/ item' = item
           \/ item' = [item EXCEPT ![i].state = "callback"] /\ item[i].state = "idle"
    <3>1. UNCHANGED <<op, current, raced>>
      BY <1>6 DEF Fire
    <3>2. CASE MayFire(i)
      BY <1>6, <3>1, <3>2 DEF Fire, MayFire, TimerTypeOK
    <3>3. CASE ~MayFire(i)
      BY <1>6, <3>1, <3>3 DEF Fire, At
    <3> QED BY <3>2, <3>3
  <2>2. \A j \in Items : Live(j)' => Live(j)
    BY <2>1 DEF Live, TimerTypeOK
  <2> QED BY <2>1, <2>2, StayStep DEF Stays
<1>7. CASE CallbackReturns
  <2> DEFINE i == dispatch.item
  <2>1. i \in Items /\ MustWait(item[i].state)
    BY <1>7 DEF CallbackReturns, At, Running, TimerTypeOK, Entries
  <2>2. \A j \in Items : Live(j)' => Live(j)
    <3>1. CASE MayRecur(item[i])
      <4>1. item' = [item EXCEPT ![i].state = "idle"] /\ Live(i)
        BY <1>7, <2>1, <3>1 DEF CallbackReturns, MayRecur, MustWait, Live
      <4> QED BY <4>1 DEF Live, TimerTypeOK
    <3>2. CASE ~MayRecur(item[i])
      <4>1. item' = [item EXCEPT ![i] = Disarmed]
        BY <1>7, <3>2 DEF CallbackReturns
      <4> QED BY <4>1 DEF Live, Disarmed, TimerTypeOK
    <3> QED BY <3>1, <3>2
  <2>3. \A a \in Actors :
          \/ op'[a] = op[a]
          \/ op[a].pc = "parked" /\ op'[a] = [op[a] EXCEPT !.pc = "disarm"]
    BY <1>7 DEF CallbackReturns, Notified
  <2>4. ASSUME NEW a \in Actors PROVE Stays(a)
    <3>1. op[a] \in Calls
      BY DEF TimerTypeOK
    <3>2. CASE op[a].pc = "parked" /\ op'[a] = [op[a] EXCEPT !.pc = "disarm"]
      BY <3>1, <3>2 DEF Calls, Stays
    <3>3. CASE op'[a] = op[a]
      BY <3>3 DEF Stays
    <3> QED BY <2>3, <3>2, <3>3
  <2>5. UNCHANGED <<current, raced>> /\ dispatch'.pc = "fire"
    BY <1>7 DEF CallbackReturns, TimerTypeOK
  <2> QED BY <2>2, <2>4, <2>5, StayStep
<1>8. CASE Signal
  <2>1. \A b \in Actors : op[b].pc \notin {"queue", "assign"}
    BY <1>8, TimerAssumption DEF Signal, MayLock, Hands, Actors
  <2>2. UNCHANGED <<op, item, current, raced>>
    BY <1>8 DEF Signal
  <2>3. Answered'
    BY <2>1, <2>2 DEF Answered, IsNew
  <2>4. Owned'
    BY <2>2 DEF Owned, Live, Setting, IsNew
  <2> QED BY <2>3, <2>4
<1>9. CASE Top \/ Consume \/ EndPass \/ Stop \/ (\E i \in Items : BecomeDue(i))
  <2>1. /\ UNCHANGED <<op, item, current, raced>>
        /\ dispatch'.pc \in {"call", "body"} =>
              dispatch.pc \in {"call", "body"} /\ dispatch'.item = dispatch.item
    BY <1>9 DEF Top, Consume, EndPass, Stop, BecomeDue, Step, At, TimerTypeOK
  <2> QED BY <2>1, StayStep DEF Stays, Live
<1> QED BY <1>1, <1>2, <1>3, <1>4, <1>5, <1>6, <1>7, <1>8, <1>9, LockOwned, AssignOwned
        DEF TimerNext, Goes, DispatchNext

-----------------------------------------------------------------------------
\* A timer that was never set, in a queue that has just started.
LEMMA InitTimerInv == TimerInit => TimerInv
<1> SUFFICES ASSUME TimerInit PROVE TimerInv
  OBVIOUS
<1> USE TimerAssumption
<1>1. TimerTypeOK
  <2>1. op \in [Actors -> Calls]
    BY NoOpIsCall DEF TimerInit
  <2>2. item \in [Items -> [state : ItemStates, recurring : BOOLEAN]]
    BY DEF TimerInit, Disarmed, ItemStates
  <2>3. ring \in Seq(Entries)
    BY DEF TimerInit
  <2> QED BY <2>1, <2>2, <2>3 DEF TimerInit, TimerTypeOK, Entries
<1>2. \A a \in Actors : op[a].pc = "idle"
  BY DEF TimerInit, NoOp
<1>3. Hands
  <2>1. \A a \in Actors : mutex # a
    BY DEF TimerInit, Actors
  <2> QED BY <1>2, <2>1 DEF Hands
<1>4. Running
  <2>1. \A i \in Items : item[i].state = "disarmed" /\ i # NoItem
    BY DEF TimerInit, Disarmed
  <2> QED BY <1>2, <2>1 DEF TimerInit, Running, MustWait, Actors
<1>5. Unheard /\ NoneAfterDisarm
  BY DEF TimerInit, Unheard, NoneAfterDisarm
<1>6. Owned /\ Answered
  <2>1. \A i \in Items : item[i].state = "disarmed"
    BY DEF TimerInit, Disarmed
  <2> QED BY <1>2, <2>1 DEF TimerInit, Owned, Answered, Live
<1> QED BY <1>1, <1>3, <1>4, <1>5, <1>6 DEF TimerInv

\* A stuttering step.
LEMMA StutterTimerInv == TimerInv /\ UNCHANGED hostTimerVars => TimerInv'
<1> SUFFICES ASSUME TimerInv, UNCHANGED hostTimerVars PROVE TimerInv'
  OBVIOUS
<1> USE DEF TimerInv, hostTimerVars, queueVars, timerVars
<1>1. TimerTypeOK'
  BY DEF TimerTypeOK
<1>2. Hands' /\ Running'
  BY DEF Hands, Running
<1>3. Unheard' /\ NoneAfterDisarm'
  BY DEF Unheard, NoneAfterDisarm, Held
<1>4. Owned' /\ Answered'
  BY DEF Owned, Answered, Setting, IsNew, Live
<1> QED BY <1>1, <1>2, <1>3, <1>4

\* The inductive invariant holds, for any threads and any wait items.
THEOREM TimerInvariance == TimerSpec => []TimerInv
<1>1. TimerInv /\ TimerNext => TimerInv'
  <2> SUFFICES ASSUME TimerInv, TimerNext PROVE TimerInv'
    OBVIOUS
  <2>1. TimerTypeOK' /\ Hands' /\ Running'
    BY TimerTypeStep, HandsStep, RunningStep DEF TimerInv
  <2>2. Unheard' /\ NoneAfterDisarm'
    BY QuietStep DEF TimerInv, Unheard, NoneAfterDisarm, Quiet
  <2>3. Owned' /\ Answered'
    BY OwnedStep DEF TimerInv
  <2> QED BY <2>1, <2>2, <2>3 DEF TimerInv
<1> QED BY <1>1, InitTimerInv, StutterTimerInv, PTL DEF TimerSpec

\* Once Disarm has returned to a thread no callback of the item runs, and once it has
\* returned to the callback there is no other (Disarm, TimerThreadMain).
THEOREM DisarmedStaysSilent == TimerSpec => []NoneAfterDisarm
<1>1. TimerInv => NoneAfterDisarm
  BY DEF TimerInv
<1> QED BY <1>1, TimerInvariance, PTL

\* A callback finds its own item in wait_item_, however soon after the setting it runs
\* (CompletionRoutine, SetOnce, SetRepeating).
THEOREM CallbackFindsItself == TimerSpec => []ExpiryIsItsOwn
<1>1. TimerInv => ExpiryIsItsOwn
  <2> SUFFICES ASSUME TimerInv, dispatch.pc = "call", ~raced PROVE current = dispatch.item
    BY DEF ExpiryIsItsOwn, At
  <2>1. dispatch.item \in Items
    BY DEF TimerInv, TimerTypeOK, Running, Entries
  <2>2. Live(dispatch.item)
    BY <2>1 DEF TimerInv, Running, MustWait, Live
  <2>3. ~IsNew(dispatch.item)
    BY DEF TimerInv, Answered
  <2> QED BY <2>1, <2>2, <2>3 DEF TimerInv, Owned
<1> QED BY <1>1, TimerInvariance, PTL

\* The callback waits for itself only where it has disarmed its own item before, and
\* from then on for ever: DisarmReturns and ArmedFires except no other wait (Disarm).
OwnDisarm == WaitsForItself => /\ dispatch.pc = "body" /\ op[Dispatch].item = dispatch.item
                               /\ dispatch.item \in Items
                               /\ item[dispatch.item].state = "callback self-disarmed"

THEOREM WaitsForItselfForEver ==
  TimerSpec => []OwnDisarm /\ [][WaitsForItself => WaitsForItself']_hostTimerVars
<1> USE TimerAssumption DEF queueVars, timerVars
<1>1. TimerInit => OwnDisarm
  BY DEF TimerInit, OwnDisarm, WaitsForItself, NoOp, Actors
<1>2. ASSUME TimerInv, OwnDisarm, TimerNext
      PROVE  OwnDisarm' /\ (WaitsForItself => WaitsForItself')
  <2>0. /\ TimerTypeOK /\ Dispatch \in Actors /\ \A a \in Actors : op[a] \in Calls
        /\ \A t \in Threads : t # Dispatch
    BY <1>2 DEF TimerInv, TimerTypeOK, Actors
  <2>1. ASSUME UNCHANGED <<op, item, dispatch>>
        PROVE  OwnDisarm' /\ (WaitsForItself => WaitsForItself')
    BY <1>2, <2>1 DEF OwnDisarm, WaitsForItself
  \* A call that begins does not wait yet.
  <2>2. ASSUME NEW a \in Actors, op[a].pc = "idle", Call(a), UNCHANGED <<item, dispatch>>
        PROVE  OwnDisarm' /\ (WaitsForItself => WaitsForItself')
    <3>1. PICK r \in Calls : Begun(r) /\ op' = [op EXCEPT ![a] = r]
      BY <2>0, <2>2, CallBegins
    <3>2. op'[a] = r /\ r.pc # "parked" /\ \A b \in Actors \ {a} : op'[b] = op[b]
      BY <2>0, <3>1 DEF TimerTypeOK, Begun
    <3> QED BY <1>2, <2>0, <2>2, <3>2 DEF OwnDisarm, WaitsForItself
  <2>3. ASSUME NEW a \in Actors, QueueTimer(a) \/ Assign(a)
        PROVE  OwnDisarm' /\ (WaitsForItself => WaitsForItself')
    <3>1. /\ op[a].pc \in {"queue", "assign"} /\ UNCHANGED <<item, dispatch>>
          /\ op' = [op EXCEPT ![a].pc = "assign"] \/ op' = [op EXCEPT ![a] = NoOp]
      BY <2>3 DEF QueueTimer, Assign
    <3>2. op'[a].pc # "parked" /\ op[a].pc # "parked" /\ \A b \in Actors \ {a} : op'[b] = op[b]
      BY <2>0, <3>1 DEF TimerTypeOK, Calls, NoOp
    <3> QED BY <1>2, <2>0, <3>1, <3>2 DEF OwnDisarm, WaitsForItself
  <2>4. ASSUME NEW a \in Actors, DisarmWaits(a)
        PROVE  OwnDisarm' /\ (WaitsForItself => WaitsForItself')
    <3>1. /\ op' = [op EXCEPT ![a].pc = "parked"] /\ UNCHANGED <<item, dispatch>>
          /\ op[a].pc = "disarm" /\ op[a].item \in Items /\ MustWait(item[op[a].item].state)
      BY <1>2, <2>4 DEF DisarmWaits, Disarming, TimerInv, Hands
    <3>2. \A b \in Actors \ {a} : op'[b] = op[b]
      BY <2>0, <3>1 DEF TimerTypeOK
    <3>3. CASE a # Dispatch
      BY <1>2, <2>0, <3>1, <3>2, <3>3 DEF OwnDisarm, WaitsForItself
    <3>4. CASE a = Dispatch
      <4>1. item[op[a].item].state = "callback self-disarmed" /\ dispatch.item = op[a].item
        BY <1>2, <2>4, <3>1, <3>4 DEF DisarmWaits, Disarming, MustWait, TimerInv, Running
      <4>2. dispatch.pc = "body"
        BY <1>2, <3>1, <4>1 DEF TimerInv, Running
      <4>3. op'[a].item = op[a].item
        BY <2>0, <3>1 DEF TimerTypeOK, Calls
      <4> QED BY <3>1, <3>4, <4>1, <4>2, <4>3 DEF OwnDisarm, WaitsForItself
    <3> QED BY <3>3, <3>4
  \* What Disarm does to an item that is not the callback's own, or is not waited for.
  <2>5. ASSUME NEW a \in Actors, DisarmNow(a)
        PROVE  OwnDisarm' /\ (WaitsForItself => WaitsForItself')
    <3>1. /\ op' = [op EXCEPT ![a] = AfterCancel(@)] /\ dispatch' = dispatch
          /\ item' = [item EXCEPT ![op[a].item].state = "disarmed"]
          /\ op[a].pc = "disarm" /\ ~MustWait(item[op[a].item].state)
      BY <2>5 DEF DisarmNow, Disarming, Told
    <3>2. op'[a].pc # "parked" /\ \A b \in Actors \ {a} : op'[b] = op[b]
      BY <2>0, <3>1, AfterCancelShape DEF TimerTypeOK, NoOp
    <3>3. \A i \in Items : MustWait(item[i].state) => item'[i] = item[i]
      BY <2>0, <3>1 DEF TimerTypeOK
    <3> QED BY <1>2, <2>0, <3>1, <3>2, <3>3 DEF OwnDisarm, WaitsForItself, MustWait
  <2>6. CASE DisarmOwn
    <3>1. op[Dispatch].pc = "disarm" /\ op' = [op EXCEPT ![Dispatch] = AfterCancel(@)]
      BY <2>6 DEF DisarmOwn, Told
    <3>2. op'[Dispatch].pc # "parked"
      BY <2>0, <3>1, AfterCancelShape DEF TimerTypeOK, NoOp
    <3> QED BY <3>1, <3>2 DEF OwnDisarm, WaitsForItself
  <2>7. ASSUME NEW a \in Actors, Lock(a)
        PROVE  OwnDisarm' /\ (WaitsForItself => WaitsForItself')
    <3>1. PICK n \in Unused :
             /\ item' = [item EXCEPT ![n] = [state |-> "idle", recurring |-> op[a].recurring]]
             /\ op' = [op EXCEPT ![a].pc = "queue", ![a].item = n]
      BY <2>0, <2>7, LockPicks
    <3>2. n # dispatch.item
      BY UnusedItem DEF Held
    <3>3. /\ op[a].pc = "lock" /\ op'[a].pc = "queue" /\ dispatch' = dispatch
          /\ \A b \in Actors \ {a} : op'[b] = op[b]
      BY <2>0, <2>7, <3>1 DEF Lock, TimerTypeOK, Calls
    <3>4. \A i \in Items \ {n} : item'[i] = item[i]
      BY <2>0, <3>1 DEF TimerTypeOK
    <3> QED BY <1>2, <2>0, <3>2, <3>3, <3>4 DEF OwnDisarm, WaitsForItself
  \* The dispatch thread's other steps find it doing something else.
  <2>8. ASSUME op'[Dispatch].pc = "idle", op[Dispatch].pc = "idle"
        PROVE  OwnDisarm' /\ (WaitsForItself => WaitsForItself')
    BY <2>8 DEF OwnDisarm, WaitsForItself
  <2>9. CASE \/ Top \/ Consume \/ (\E i \in Items : Fire(i)) \/ EndPass \/ Signal \/ RunCallback
    <3>1. dispatch.pc # "body" /\ op' = op
      BY <2>9 DEF Top, Consume, Fire, EndPass, Signal, RunCallback, At
    <3>2. op[Dispatch].pc = "idle"
      BY <1>2, <3>1 DEF TimerInv, Running
    <3> QED BY <2>8, <3>1, <3>2
  <2>10. CASE CallbackReturns
    BY <2>0, <2>8, <2>10 DEF CallbackReturns, Notified
  <2>11. CASE Stop \/ \E i \in Items : BecomeDue(i)
    BY <2>1, <2>11 DEF Stop, BecomeDue
  <2>12. CASE CallbackCalls \/ \E t \in Threads : ThreadCalls(t)
    BY <2>0, <2>2, <2>12 DEF CallbackCalls, ThreadCalls, Actors
  <2> QED BY <1>2, <2>3, <2>4, <2>5, <2>6, <2>7, <2>9, <2>10, <2>11, <2>12
          DEF TimerNext, Goes, DispatchNext, Actors
<1>3. ASSUME OwnDisarm, UNCHANGED hostTimerVars
      PROVE  OwnDisarm' /\ (WaitsForItself => WaitsForItself')
  BY <1>3 DEF OwnDisarm, WaitsForItself, hostTimerVars
<1>4. ASSUME TimerInv, OwnDisarm, [TimerNext]_hostTimerVars
      PROVE  OwnDisarm' /\ [WaitsForItself => WaitsForItself']_hostTimerVars
  BY <1>2, <1>3, <1>4
<1> QED BY <1>1, <1>4, TimerInvariance, PTL DEF TimerSpec
=============================================================================
