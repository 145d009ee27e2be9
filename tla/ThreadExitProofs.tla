--------------------------- MODULE ThreadExitProofs ---------------------------
(***************************************************************************)
(* Theorems about ThreadExit for any number of callbacks and waiters.      *)
(*                                                                         *)
(* The invariant ties three views of the same history together: what the   *)
(* reaper's position says of the flags it has published (Phase), where     *)
(* each registered callback object is and whether it has run (Place), and  *)
(* the counter of synchronous callbacks (Count).                           *)
(***************************************************************************)
EXTENDS ThreadExit, FiniteSetTheorems, TLAPS

\* What the reaper's position says of the flags.
Phase ==
  /\ reaper \notin {"none", "join"} => native = "ended"
  /\ closed <=> reaper \in {"clear", "gone"}
  /\ signaled <=> closed
  /\ released <=> reaper = "gone"
  /\ completed => released

\* Where the callback objects are, and which of them have run.
Place ==
  /\ queue \cup batch \cup kept \subseteq registered
  /\ queue \cap batch = {} /\ queue \cap kept = {} /\ batch \cap kept = {}
  /\ reaper \notin {"drain", "run", "clear"} => kept = {}
  /\ reaper # "run" => batch = {}
  /\ closed => queue = {}
  /\ \A c \in Callbacks :
       /\ c \notin registered => late[c] = "no" /\ runs[c] = 0
       /\ late[c] # "no" => closed /\ c \notin queue \cup batch \cup kept
       /\ late[c] = "no" /\ c \in registered =>
            runs[c] = IF c \in queue \cup batch THEN 0 ELSE 1
       /\ late[c] = "run" => runs[c] = 0
       /\ late[c] \in {"release", "count", "done"} => runs[c] = 1

\* The late callbacks that completion still waits for.
Pending == {c \in tracked : late[c] # "done"}

\* The counter counts them, and completion waits for them.
Count ==
  /\ inFlight = Cardinality(Pending)
  /\ completed => Pending = {}
  /\ \A c \in tracked : late[c] # "no"
  /\ \A c \in Callbacks : late[c] = "count" => c \in tracked

\* Somebody owns the wrapper until the list is closed.
Owned ==
  /\ ~owner => closed \/ (registered \cap Owning # {})
  /\ \A c \in registered : ~closed => c \in queue \cup batch \cup kept
  /\ \A w \in Waiters : waiter[w] = "exited" => completed

\* The inductive invariant.
IInv == TypeOK /\ Phase /\ Place /\ Count /\ Owned

-----------------------------------------------------------------------------
(* Steps that touch neither the callbacks nor what the reaper published.   *)

Quiet ==
  \/ Initialize \/ DropOwner \/ Resume \/ Native \/ Killer
  \/ \E w \in Waiters : Waiter(w)

LEMMA QuietFrame ==
  ASSUME TypeOK, Quiet
  PROVE  /\ UNCHANGED <<setting, complVars, reapVars, lateVars, histVars>>
         /\ reaper' = reaper \/ (reaper = "none" /\ reaper' = "join")
         /\ native = "ended" => native' = "ended"
<1> USE DEF complVars, reapVars, lateVars, histVars, killVars, nativeVars
<1>1. CASE Initialize \/ DropOwner \/ Resume
  BY <1>1 DEF Initialize, DropOwner, Resume
<1>2. CASE Native
  BY <1>2 DEF Native, ThreadStart, LeaveRoutine, ExitCurrent, ExitCurrentReaper,
              CleanupFinish, CleanupReaper, NativeEnds, EnsureReaperStarted
<1>3. CASE Killer
  BY <1>3 DEF Killer, Terminate, TerminateReaper, TerminateCancel, EnsureReaperStarted
<1>4. CASE \E w \in Waiters : Waiter(w)
  BY <1>4 DEF Waiter, WaitForExitUntil, WaitSucceeds, WaitTimesOut, EnsureReaperStarted
<1> QED BY <1>1, <1>2, <1>3, <1>4 DEF Quiet

\* The case split that the step lemmas share.
LEMMA NextCases ==
  ASSUME Next
  PROVE  \/ Quiet
         \/ Join \/ TakeCallbacks \/ CloseCallbacks \/ PublishCompletion
         \/ \E c \in Callbacks :
              \/ RunCallback(c) \/ ReleaseCallback(c) \/ SetExitCallback(c)
              \/ RunLate(c) \/ ReleaseLate(c) \/ CountLate(c)
BY DEF Next, Quiet, Reaper, Registrar, Late

-----------------------------------------------------------------------------
\* Which steps write the flags.
LEMMA FlagsStep == ASSUME FlagsOK, Next PROVE FlagsOK'
<1> USE DEF FlagsOK, complVars, reapVars, killVars, nativeVars
<1>1. CASE Initialize \/ DropOwner \/ Resume
  BY <1>1, Zenon DEF Initialize, DropOwner, Resume
<1>2. CASE Native
  <2>1. UNCHANGED <<joinable, complVars, reapVars, owner>>
    BY <1>2 DEF Native, ThreadStart, LeaveRoutine, ExitCurrent, ExitCurrentReaper,
                CleanupFinish, CleanupReaper, NativeEnds
  <2>2. finished' = finished \/ finished' = TRUE
    BY <1>2 DEF Native, ThreadStart, LeaveRoutine, ExitCurrent, ExitCurrentReaper,
                CleanupFinish, CleanupReaper, NativeEnds
  <2> QED BY <2>1, <2>2, Zenon
<1>3. CASE Killer
  BY <1>3, Zenon DEF Killer, Terminate, TerminateReaper, TerminateCancel
<1>4. CASE \E w \in Waiters : Waiter(w)
  BY <1>4, Zenon DEF Waiter, WaitForExitUntil, WaitSucceeds, WaitTimesOut
<1>5. CASE Join \/ TakeCallbacks \/ CloseCallbacks \/ PublishCompletion
  BY <1>5, Zenon DEF Join, TakeCallbacks, CloseCallbacks, PublishCompletion
<1>6. ASSUME NEW c \in Callbacks, RunCallback(c) \/ ReleaseCallback(c)
      PROVE  FlagsOK'
  BY <1>6, Zenon DEF RunCallback, ReleaseCallback
<1>7. ASSUME NEW c \in Callbacks, SetExitCallback(c)
      PROVE  FlagsOK'
  BY <1>7, Zenon DEF SetExitCallback
<1>8. ASSUME NEW c \in Callbacks, RunLate(c) \/ ReleaseLate(c) \/ CountLate(c)
      PROVE  FlagsOK'
  BY <1>8, Zenon DEF RunLate, ReleaseLate, CountLate
<1> QED BY <1>1, <1>2, <1>3, <1>4, <1>5, <1>6, <1>7, <1>8
        DEF Next, Reaper, Registrar, Late

LEMMA TypeStep == ASSUME IInv, Next PROVE TypeOK'
<1> USE DEF IInv, TypeOK, complVars, reapVars, lateVars, histVars, killVars, nativeVars
<1>0. FlagsOK'
  BY FlagsStep
<1>1. CASE Quiet
  <2>1. native' \in NativeStates
    BY <1>1 DEF Quiet, Initialize, DropOwner, Resume, Native, ThreadStart, LeaveRoutine,
       ExitCurrent, ExitCurrentReaper, CleanupFinish, CleanupReaper, NativeEnds, Killer,
       Terminate, TerminateReaper, TerminateCancel, Waiter, WaitForExitUntil,
       WaitSucceeds, WaitTimesOut, NativeStates
  <2>2. killer' \in {"idle", "reaper", "cancel", "done"} /\ cancel' \in {"none", "pending", "late"}
    BY <1>1 DEF Quiet, Initialize, DropOwner, Resume, Native, ThreadStart, LeaveRoutine,
       ExitCurrent, ExitCurrentReaper, CleanupFinish, CleanupReaper, NativeEnds, Killer,
       Terminate, TerminateReaper, TerminateCancel, Waiter, WaitForExitUntil,
       WaitSucceeds, WaitTimesOut
  <2>3. waiter' \in [Waiters -> WaiterStates]
    BY <1>1 DEF Quiet, Initialize, DropOwner, Resume, Native, ThreadStart, LeaveRoutine,
       ExitCurrent, ExitCurrentReaper, CleanupFinish, CleanupReaper, NativeEnds, Killer,
       Terminate, TerminateReaper, TerminateCancel, Waiter, WaitForExitUntil,
       WaitSucceeds, WaitTimesOut, WaiterStates
  <2> QED BY <1>0, <1>1, <2>1, <2>2, <2>3, QuietFrame DEF ReaperStates
<1>5. CASE Join \/ TakeCallbacks \/ CloseCallbacks \/ PublishCompletion
  BY <1>0, <1>5 DEF Join, TakeCallbacks, CloseCallbacks, PublishCompletion, ReaperStates
<1>6. ASSUME NEW c \in Callbacks, RunCallback(c) \/ ReleaseCallback(c)
      PROVE  TypeOK'
  BY <1>0, <1>6 DEF RunCallback, ReleaseCallback, ReaperStates
<1>7. ASSUME NEW c \in Callbacks, SetExitCallback(c)
      PROVE  TypeOK'
  BY <1>0, <1>7 DEF SetExitCallback, LateStates
<1>8. ASSUME NEW c \in Callbacks, RunLate(c) \/ ReleaseLate(c)
      PROVE  TypeOK'
  BY <1>0, <1>8 DEF RunLate, ReleaseLate, LateStates
<1>9. ASSUME NEW c \in Callbacks, CountLate(c)
      PROVE  TypeOK'
  <2>1. c \in Pending
    BY <1>9 DEF CountLate, Count, Pending
  <2>2. inFlight # 0
    <3>1. IsFiniteSet(Pending)
      BY CallbackAssumption, FS_Subset DEF Pending
    <3> QED BY <2>1, <3>1, FS_EmptySet DEF Count
  <2> QED BY <1>0, <1>9, <2>2 DEF CountLate, LateStates
<1> QED BY <1>1, <1>5, <1>6, <1>7, <1>8, <1>9, NextCases

LEMMA PhaseStep == ASSUME IInv, Next PROVE Phase'
<1> USE DEF IInv, TypeOK, Phase, complVars, reapVars, lateVars, histVars, killVars,
        nativeVars, ReaperStates
<1>1. CASE Quiet
  BY <1>1, QuietFrame
<1>2. CASE Join \/ TakeCallbacks \/ CloseCallbacks \/ PublishCompletion
  BY <1>2 DEF Join, TakeCallbacks, CloseCallbacks, PublishCompletion
<1>3. ASSUME NEW c \in Callbacks,
             \/ RunCallback(c) \/ ReleaseCallback(c) \/ SetExitCallback(c)
             \/ RunLate(c) \/ ReleaseLate(c)
      PROVE  Phase'
  BY <1>3 DEF RunCallback, ReleaseCallback, SetExitCallback, RunLate, ReleaseLate
<1>4. ASSUME NEW c \in Callbacks, CountLate(c)
      PROVE  Phase'
  <2>1. completed' => released
    BY <1>4, Zenon DEF CountLate
  <2> QED BY <1>4, <2>1 DEF CountLate
<1> QED BY <1>1, <1>2, <1>3, <1>4, NextCases

LEMMA PlaceStep == ASSUME IInv, Next PROVE Place'
<1> USE DEF IInv, TypeOK, Phase, Place, complVars, reapVars, lateVars, histVars,
        killVars, nativeVars, ReaperStates
<1>1. CASE Quiet
  BY <1>1, QuietFrame
<1>2. CASE Join
  BY <1>2 DEF Join
<1>3. CASE TakeCallbacks
  BY <1>3 DEF TakeCallbacks
<1>4. CASE CloseCallbacks
  BY <1>4 DEF CloseCallbacks
<1>5. CASE PublishCompletion
  BY <1>5 DEF PublishCompletion
<1>6. ASSUME NEW c \in Callbacks, RunCallback(c)
      PROVE  Place'
  BY <1>6 DEF RunCallback
<1>7. ASSUME NEW c \in Callbacks, ReleaseCallback(c)
      PROVE  Place'
  BY <1>7 DEF ReleaseCallback
<1>8. ASSUME NEW c \in Callbacks, SetExitCallback(c)
      PROVE  Place'
  BY <1>8 DEF SetExitCallback, LateStates
<1>9. ASSUME NEW c \in Callbacks, RunLate(c) \/ ReleaseLate(c) \/ CountLate(c)
      PROVE  Place'
  BY <1>9 DEF RunLate, ReleaseLate, CountLate, LateStates
<1> QED BY <1>1, <1>2, <1>3, <1>4, <1>5, <1>6, <1>7, <1>8, <1>9, NextCases

LEMMA CountStep == ASSUME IInv, Next PROVE Count'
<1> USE DEF IInv, TypeOK, complVars, reapVars, lateVars, histVars, killVars, nativeVars
<1>fin. IsFiniteSet(Pending)
  BY CallbackAssumption, FS_Subset DEF Pending
<1>1. CASE Quiet
  <2>1. UNCHANGED <<late, tracked, inFlight, completed>>
    BY <1>1, QuietFrame
  <2>2. Pending' = Pending
    BY <2>1 DEF Pending
  <2> QED BY <2>1, <2>2 DEF Count
<1>2. CASE Join \/ TakeCallbacks \/ CloseCallbacks
  <2>1. Pending' = Pending
    BY <1>2 DEF Pending, Join, TakeCallbacks, CloseCallbacks
  <2> QED BY <1>2, <2>1 DEF Count, Join, TakeCallbacks, CloseCallbacks
<1>3. CASE PublishCompletion
  <2>1. Pending' = Pending
    BY <1>3 DEF PublishCompletion, Pending
  <2>2. inFlight = 0 => Pending = {}
    BY <1>fin, FS_EmptySet DEF Count
  <2> QED BY <1>3, <2>1, <2>2 DEF Count, PublishCompletion
<1>4. ASSUME NEW c \in Callbacks, RunCallback(c) \/ ReleaseCallback(c)
      PROVE  Count'
  <2>1. Pending' = Pending
    BY <1>4 DEF Pending, RunCallback, ReleaseCallback
  <2> QED BY <1>4, <2>1 DEF Count, RunCallback, ReleaseCallback
<1>5. ASSUME NEW c \in Callbacks, SetExitCallback(c)
      PROVE  Count'
  <2>1. c \notin tracked
    BY <1>5 DEF SetExitCallback, Count, Place
  <2>2. CASE closed /\ ~completed
    <3>1. Pending' = Pending \cup {c} /\ c \notin Pending
      BY <1>5, <2>1, <2>2 DEF SetExitCallback, Pending
    <3>2. Cardinality(Pending') = Cardinality(Pending) + 1
      BY <1>fin, <3>1, FS_AddElement
    <3> QED BY <1>5, <2>2, <3>2 DEF SetExitCallback, Count, Place
  <2>3. CASE ~(closed /\ ~completed)
    <3>1. Pending' = Pending
      BY <1>5, <2>1, <2>3 DEF SetExitCallback, Pending
    <3> QED BY <1>5, <2>3, <3>1 DEF SetExitCallback, Count, Place
  <2> QED BY <2>2, <2>3
<1>6. ASSUME NEW c \in Callbacks, RunLate(c)
      PROVE  Count'
  <2>1. Pending' = Pending
    BY <1>6 DEF RunLate, Pending
  <2> QED BY <1>6, <2>1 DEF RunLate, Count
<1>7. ASSUME NEW c \in Callbacks, ReleaseLate(c)
      PROVE  Count'
  <2>1. Pending' = Pending
    BY <1>7 DEF ReleaseLate, Pending
  <2> QED BY <1>7, <2>1 DEF ReleaseLate, Count
<1>8. ASSUME NEW c \in Callbacks, CountLate(c)
      PROVE  Count'
  <2>1. c \in Pending
    BY <1>8 DEF CountLate, Count, Pending
  <2>2. Pending' = Pending \ {c}
    BY <1>8 DEF CountLate, Pending
  <2>3. Cardinality(Pending') = Cardinality(Pending) - 1 /\ IsFiniteSet(Pending')
    BY <1>fin, <2>1, <2>2, FS_RemoveElement
  <2>4. inFlight' = Cardinality(Pending')
    BY <1>8, <2>3 DEF CountLate, Count
  <2>5. completed' => Pending' = {}
    <3>1. inFlight' = 0 => Pending' = {}
      BY <2>3, <2>4, FS_EmptySet
    <3> QED BY <1>8, <2>2, <3>1 DEF CountLate, Count
  <2> QED BY <1>8, <2>4, <2>5 DEF CountLate, Count
<1> QED BY <1>1, <1>2, <1>3, <1>4, <1>5, <1>6, <1>7, <1>8, NextCases

LEMMA OwnedStep == ASSUME IInv, Next PROVE Owned'
<1> USE DEF IInv, TypeOK, Phase, Place, Owned, complVars, reapVars, lateVars, histVars,
        killVars, nativeVars, ReaperStates
<1>1. CASE Initialize \/ Resume \/ Native \/ Killer
  <2>1. UNCHANGED <<complVars, reapVars, lateVars, histVars>>
    BY <1>1, QuietFrame DEF Quiet
  <2>2. UNCHANGED <<owner, waiter>>
    BY <1>1 DEF Initialize, Resume, Native, ThreadStart, LeaveRoutine, ExitCurrent,
       ExitCurrentReaper, CleanupFinish, CleanupReaper, NativeEnds, Killer, Terminate,
       TerminateReaper, TerminateCancel
  <2> QED BY <2>1, <2>2
<1>2. CASE DropOwner
  BY <1>2 DEF DropOwner
<1>3. ASSUME NEW w \in Waiters, Waiter(w)
      PROVE  Owned'
  BY <1>3 DEF Waiter, WaitForExitUntil, WaitSucceeds, WaitTimesOut
<1>4. CASE Join \/ TakeCallbacks \/ CloseCallbacks \/ PublishCompletion
  BY <1>4 DEF Join, TakeCallbacks, CloseCallbacks, PublishCompletion
<1>5. ASSUME NEW c \in Callbacks, RunCallback(c) \/ ReleaseCallback(c)
      PROVE  Owned'
  BY <1>5 DEF RunCallback, ReleaseCallback
<1>6. ASSUME NEW c \in Callbacks, SetExitCallback(c)
      PROVE  Owned'
  BY <1>6 DEF SetExitCallback
<1>7. ASSUME NEW c \in Callbacks, RunLate(c) \/ ReleaseLate(c)
      PROVE  Owned'
  BY <1>7 DEF RunLate, ReleaseLate
<1>8. ASSUME NEW c \in Callbacks, CountLate(c)
      PROVE  Owned'
  <2>1. completed => completed'
    BY <1>8, Zenon DEF CountLate
  <2> QED BY <1>8, <2>1 DEF CountLate
<1> QED BY <1>1, <1>2, <1>3, <1>4, <1>5, <1>6, <1>7, <1>8 DEF Next, Reaper, Registrar, Late

-----------------------------------------------------------------------------
LEMMA Inductive == Spec => []IInv
<1>1. Init => IInv
  <2> SUFFICES ASSUME Init PROVE IInv
    OBVIOUS
  <2>1. TypeOK
    BY DEF Init, TypeOK, FlagsOK, NativeStates, ReaperStates, LateStates, WaiterStates
  <2>2. Phase /\ Place /\ Owned
    BY DEF Init, Phase, Place, Owned
  <2>3. Pending = {}
    BY DEF Init, Pending
  <2>4. Count
    BY <2>3, FS_EmptySet DEF Init, Count
  <2> QED BY <2>1, <2>2, <2>4 DEF IInv
<1>2. IInv /\ [Next]_vars => IInv'
  <2> SUFFICES ASSUME IInv, [Next]_vars PROVE IInv'
    OBVIOUS
  <2>1. CASE Next
    BY <2>1, TypeStep, PhaseStep, PlaceStep, CountStep, OwnedStep DEF IInv
  <2>2. CASE UNCHANGED vars
    BY <2>2 DEF vars, nativeVars, complVars, reapVars, lateVars, killVars, histVars,
       IInv, TypeOK, FlagsOK, Phase, Place, Count, Pending, Owned
  <2> QED BY <2>1, <2>2
<1> QED BY <1>1, <1>2, PTL DEF Spec

\* The type invariant; in particular the counter of synchronous callbacks never
\* goes below zero (the assertion in SetExitCallback).
THEOREM TypeCorrect == Spec => []TypeOK
<1>1. IInv => TypeOK
  BY DEF IInv
<1> QED BY <1>1, Inductive, PTL

\* The condition outlives the native thread and the reaper's last access to it.
THEOREM DestroyedLate == Spec => []DestroyedAfterClose
<1>1. IInv => DestroyedAfterClose
  <2> SUFFICES ASSUME IInv, ~Alive PROVE closed /\ native = "ended"
    BY DEF DestroyedAfterClose
  <2>1. closed
    BY DEF IInv, Owned, Alive, Objects
  <2> QED BY <2>1 DEF IInv, Phase
<1> QED BY <1>1, Inductive, PTL

\* The handle is signaled only after the join and the queued callbacks.
THEOREM SignalIsLate == Spec => []SignalMeansJoined
<1>1. IInv => SignalMeansJoined
  BY DEF IInv, TypeOK, Phase, Place, SignalMeansJoined
<1> QED BY <1>1, Inductive, PTL

\* WaitForExitUntil reports success only after every callback registered until
\* then has run and released its captures.
THEOREM CompletionIsStrong == Spec => []StrongCompletion
<1>1. IInv => StrongCompletion
  BY DEF IInv, TypeOK, Phase, Place, Count, Pending, StrongCompletion
<1> QED BY <1>1, Inductive, PTL

\* No callback runs twice.
THEOREM CallbacksRunOnce == Spec => []RunsAtMostOnce
<1>1. IInv => RunsAtMostOnce
  BY DEF IInv, TypeOK, Place, RunsAtMostOnce, LateStates
<1> QED BY <1>1, Inductive, PTL
=============================================================================
