------------------------------ MODULE ThreadExit ------------------------------
(***************************************************************************)
(* How a POSIX host thread ends (src/core/threading_posix.cpp).            *)
(*                                                                         *)
(* A native thread leaves by returning, by Thread::Exit, by terminating    *)
(* itself or by Terminate from another thread. Whoever first notices calls *)
(* EnsureReaperStarted, which starts one detached reaper. The reaper joins *)
(* the native thread, runs the exit callbacks until none is left, signals  *)
(* the wait handle, releases the callback objects and publishes strong     *)
(* completion, for which WaitForExitUntil waits. SetExitCallback may be    *)
(* called at any moment of this; once the callback list is closed it runs  *)
(* the callback itself.                                                    *)
(*                                                                         *)
(* Callback objects may own the Thread wrapper (XThread registers such a   *)
(* callback right after Create), so releasing one may destroy the          *)
(* condition that the reaper and the native thread work on.                *)
(*                                                                         *)
(* The order of the callbacks inside one batch is left open: nothing in    *)
(* the code depends on it.                                                 *)
(***************************************************************************)
EXTENDS Naturals, FiniteSets

CONSTANTS
  Callbacks,        \* exit callbacks that may be registered
  Owning,           \* those whose captures own the Thread wrapper
  Waiters           \* callers of WaitForExitUntil

ASSUME CallbackAssumption == IsFiniteSet(Callbacks) /\ Owning \subseteq Callbacks

VARIABLES
  setting,        \* never changes: params.create_suspended, and whether
                  \* starting the reaper's std::thread may throw
  native,         \* where the native thread is
  finished,       \* state_ = kFinished
  joinable,       \* completion: Initialize stored the pthread_t
  reaper,         \* where the reaper is; "none": reaper_started is FALSE
  queue,          \* completion: exit_callbacks
  batch,          \* reaper: callbacks still to run of those it took
  kept,           \* reaper: callback_lifetimes
  closed,         \* completion: callbacks_closed
  signaled,       \* signaled_ of the wait handle
  released,       \* completion: callback_captures_released
  inFlight,       \* completion: synchronous_callbacks_in_flight
  completed,      \* completion: completed
  late,           \* per callback: where its synchronous run is
  tracked,        \* the late callbacks that are counted in inFlight
  owner,          \* the creator still holds the Thread wrapper
  killer,         \* where a call of Terminate by another thread is
  cancel,         \* pthread_cancel: not called, pending, or called too late
  waiter,         \* per waiter: its call of WaitForExitUntil
  registered,     \* history: callbacks passed to SetExitCallback
  runs            \* history: how often each callback ran

nativeVars == <<native, finished>>
complVars == <<queue, closed, released, inFlight, completed>>
reapVars == <<batch, kept, signaled>>
lateVars == <<late, tracked>>
killVars == <<killer, cancel>>
histVars == <<registered, runs>>
vars == <<setting, nativeVars, joinable, reaper, complVars, reapVars, lateVars,
          owner, killVars, waiter, histVars>>

Settings == [suspended: BOOLEAN, spawnFails: BOOLEAN]
NativeStates ==
  {"starting", "suspended", "run", "leaving", "cleanup", "ensure", "tls", "ended"}
ReaperStates == {"none", "join", "drain", "run", "clear", "gone"}
LateStates == {"no", "run", "release", "count", "done"}
WaiterStates == {"idle", "bounded", "forever", "exited", "timeout", "failed"}

FlagsOK ==
  /\ finished \in BOOLEAN /\ joinable \in BOOLEAN /\ closed \in BOOLEAN
  /\ signaled \in BOOLEAN /\ released \in BOOLEAN /\ completed \in BOOLEAN
  /\ owner \in BOOLEAN

TypeOK ==
  /\ setting \in Settings
  /\ native \in NativeStates
  /\ reaper \in ReaperStates
  /\ queue \subseteq Callbacks /\ batch \subseteq Callbacks /\ kept \subseteq Callbacks
  /\ inFlight \in Nat
  /\ late \in [Callbacks -> LateStates]
  /\ tracked \subseteq Callbacks /\ registered \subseteq Callbacks
  /\ killer \in {"idle", "reaper", "cancel", "done"}
  /\ cancel \in {"none", "pending", "late"}
  /\ waiter \in [Waiters -> WaiterStates]
  /\ runs \in [Callbacks -> Nat]
  /\ FlagsOK

\* The callback objects that exist, and so hold their captures.
Objects == queue \cup batch \cup kept \cup {c \in Callbacks : late[c] \in {"run", "release"}}

\* Somebody owns the Thread wrapper: its condition is not destroyed. A caller
\* of Terminate retains it for the length of the call.
Alive == owner \/ killer \in {"reaper", "cancel"} \/ Objects \cap Owning # {}

Init ==
  /\ setting \in Settings
  /\ native = "starting" /\ finished = FALSE
  /\ joinable = FALSE
  /\ reaper = "none"
  /\ queue = {} /\ closed = FALSE /\ released = FALSE
  /\ inFlight = 0 /\ completed = FALSE
  /\ batch = {} /\ kept = {} /\ signaled = FALSE
  /\ late = [c \in Callbacks |-> "no"] /\ tracked = {}
  /\ owner = TRUE
  /\ killer = "idle" /\ cancel = "none"
  /\ waiter = [w \in Waiters |-> "idle"]
  /\ registered = {} /\ runs = [c \in Callbacks |-> 0]

-----------------------------------------------------------------------------
(* The creating thread.                                                    *)

\* pthread_create has returned and Initialize records the thread as joinable.
\* The native thread may have gone any distance by then.
Initialize ==
  /\ ~joinable
  /\ joinable' = TRUE
  /\ UNCHANGED <<setting, nativeVars, reaper, complVars, reapVars, lateVars,
                 owner, killVars, waiter, histVars>>

\* Starts the reaper once; fails before Initialize is through, and when the
\* std::thread cannot be started.
EnsureReaperStarted ==
  \/ /\ joinable /\ reaper = "none"
     /\ reaper' = "join"
  \/ /\ ~joinable \/ reaper # "none" \/ setting.spawnFails
     /\ UNCHANGED reaper

\* The wrapper's owner lets go of it. XThread does so only after it registered
\* an owning callback, or after a strong wait.
DropOwner ==
  /\ joinable /\ owner
  /\ registered \cap Owning # {} \/ \E w \in Waiters : waiter[w] = "exited"
  /\ owner' = FALSE
  /\ UNCHANGED <<setting, nativeVars, joinable, reaper, complVars, reapVars,
                 lateVars, killVars, waiter, histVars>>

-----------------------------------------------------------------------------
(* The native thread.                                                      *)

\* ThreadStartRoutine publishes the state; a thread that was terminated
\* meanwhile never runs its routine.
ThreadStart ==
  /\ native = "starting"
  /\ native' = IF finished THEN "cleanup"
               ELSE IF setting.suspended THEN "suspended" ELSE "run"
  /\ UNCHANGED <<setting, finished, joinable, reaper, complVars, reapVars,
                 lateVars, owner, killVars, waiter, histVars>>

\* Resume of a thread that was created suspended.
Resume ==
  /\ native = "suspended" /\ ~finished /\ joinable /\ Alive
  /\ native' = "run"
  /\ UNCHANGED <<setting, finished, joinable, reaper, complVars, reapVars,
                 lateVars, owner, killVars, waiter, histVars>>

\* The start routine returns; a terminated thread wakes from its start-up
\* wait, or the cancellation takes effect.
LeaveRoutine ==
  /\ \/ native = "run"
     \/ native = "suspended" /\ finished
     \/ native \in {"suspended", "leaving"} /\ cancel = "pending"
  /\ native' = "cleanup"
  /\ UNCHANGED <<setting, finished, joinable, reaper, complVars, reapVars,
                 lateVars, owner, killVars, waiter, histVars>>

\* Thread::Exit, or Terminate of the calling thread (which spins instead when
\* somebody else terminated it first).
ExitCurrent ==
  /\ native = "run"
  /\ native' = "leaving"
  /\ finished' \in {finished, TRUE}
  /\ UNCHANGED <<setting, joinable, reaper, complVars, reapVars, lateVars, owner,
                 killVars, waiter, histVars>>

ExitCurrentReaper ==
  /\ native = "leaving"
  /\ native' = "cleanup"
  /\ EnsureReaperStarted
  /\ UNCHANGED <<setting, finished, joinable, complVars, reapVars, lateVars,
                 owner, killVars, waiter, histVars>>

\* ThreadExitCleanup marks the thread finished ...
CleanupFinish ==
  /\ native = "cleanup"
  /\ native' = "ensure"
  /\ finished' = TRUE
  /\ UNCHANGED <<setting, joinable, reaper, complVars, reapVars, lateVars, owner,
                 killVars, waiter, histVars>>

\* ... and asks for the reaper.
CleanupReaper ==
  /\ native = "ensure"
  /\ native' = "tls"
  /\ EnsureReaperStarted
  /\ UNCHANGED <<setting, finished, joinable, complVars, reapVars, lateVars,
                 owner, killVars, waiter, histVars>>

\* The host's thread-local destructors have run: the thread can be joined.
NativeEnds ==
  /\ native = "tls"
  /\ native' = "ended"
  /\ UNCHANGED <<setting, finished, joinable, reaper, complVars, reapVars,
                 lateVars, owner, killVars, waiter, histVars>>

-----------------------------------------------------------------------------
(* Terminate, called by another thread.                                    *)

Terminate ==
  /\ killer = "idle" /\ joinable /\ Alive
  /\ killer' = IF finished THEN "done" ELSE "reaper"
  /\ finished' = TRUE
  /\ UNCHANGED <<setting, native, joinable, reaper, complVars, reapVars, lateVars,
                 owner, cancel, waiter, histVars>>

TerminateReaper ==
  /\ killer = "reaper"
  /\ killer' = "cancel"
  /\ EnsureReaperStarted
  /\ UNCHANGED <<setting, nativeVars, joinable, complVars, reapVars, lateVars,
                 owner, cancel, waiter, histVars>>

\* pthread_cancel on a thread the reaper has joined meanwhile names a thread
\* that no longer exists.
TerminateCancel ==
  /\ killer = "cancel"
  /\ killer' = "done"
  /\ cancel' = IF reaper \in {"none", "join"} THEN "pending" ELSE "late"
  /\ UNCHANGED <<setting, nativeVars, joinable, reaper, complVars, reapVars,
                 lateVars, owner, waiter, histVars>>

-----------------------------------------------------------------------------
(* The reaper.                                                             *)

\* Mutants: the reaper does not wait for the native thread; it runs callbacks
\* from the queue without taking them off; it drops the objects of a batch with
\* the batch; it drains once only; it never looks at the count.
JoinDetached ==
  /\ reaper = "join"
  /\ reaper' = "drain"
  /\ UNCHANGED <<setting, nativeVars, joinable, complVars, reapVars, lateVars,
                 owner, killVars, waiter, histVars>>
RunCallbackDrops(c) ==
  /\ reaper = "run" /\ c \in batch
  /\ batch' = batch \ {c}
  /\ runs' = [runs EXCEPT ![c] = @ + 1]
  /\ reaper' = IF batch' = {} THEN "drain" ELSE "run"
  /\ UNCHANGED <<setting, nativeVars, joinable, complVars, kept, signaled,
                 lateVars, owner, killVars, waiter, registered>>
CloseCallbacksDrainOnce ==
  /\ reaper = "drain"
  /\ reaper' = "clear"
  /\ signaled' = TRUE /\ closed' = TRUE
  /\ UNCHANGED <<setting, nativeVars, joinable, queue, released, inFlight,
                 completed, batch, kept, lateVars, owner, killVars, waiter,
                 histVars>>
PublishCompletionUncounted ==
  /\ reaper = "clear" /\ kept = {}
  /\ reaper' = "gone"
  /\ released' = TRUE
  /\ completed' = TRUE
  /\ UNCHANGED <<setting, nativeVars, joinable, queue, closed, inFlight, reapVars,
                 lateVars, owner, killVars, waiter, histVars>>

Join ==
  /\ reaper = "join" /\ native = "ended"
  /\ reaper' = "drain"
  /\ UNCHANGED <<setting, nativeVars, joinable, complVars, reapVars, lateVars,
                 owner, killVars, waiter, histVars>>

\* It takes the queued callbacks to run them ...
TakeCallbacks ==
  /\ reaper = "drain" /\ queue # {}
  /\ reaper' = "run"
  /\ batch' = queue /\ queue' = {}
  /\ UNCHANGED <<setting, nativeVars, joinable, kept, signaled, closed, released,
                 inFlight, completed, lateVars, owner, killVars, waiter,
                 histVars>>

\* ... keeping the objects of those it has run ...
RunCallback(c) ==
  /\ reaper = "run" /\ c \in batch
  /\ batch' = batch \ {c}
  /\ kept' = kept \cup {c}
  /\ runs' = [runs EXCEPT ![c] = @ + 1]
  /\ reaper' = IF batch' = {} THEN "drain" ELSE "run"
  /\ UNCHANGED <<setting, nativeVars, joinable, complVars, signaled, lateVars,
                 owner, killVars, waiter, registered>>

\* ... until none is left: the handle is signaled and the list closed.
CloseCallbacks ==
  /\ reaper = "drain" /\ queue = {}
  /\ reaper' = "clear"
  /\ signaled' = TRUE /\ closed' = TRUE
  /\ UNCHANGED <<setting, nativeVars, joinable, queue, released, inFlight,
                 completed, batch, kept, lateVars, owner, killVars, waiter,
                 histVars>>

\* callback_lifetimes.clear(): an object's captures are destroyed.
ReleaseCallback(c) ==
  /\ reaper = "clear" /\ c \in kept
  /\ kept' = kept \ {c}
  /\ UNCHANGED <<setting, nativeVars, joinable, reaper, complVars, batch,
                 signaled, lateVars, owner, killVars, waiter, histVars>>

\* Strong completion, unless a synchronous callback is still counted.
PublishCompletion ==
  /\ reaper = "clear" /\ kept = {}
  /\ reaper' = "gone"
  /\ released' = TRUE
  /\ completed' = (completed \/ inFlight = 0)
  /\ UNCHANGED <<setting, nativeVars, joinable, queue, closed, inFlight, reapVars,
                 lateVars, owner, killVars, waiter, histVars>>

-----------------------------------------------------------------------------
(* SetExitCallback.                                                        *)

\* The callback joins the queue, or is late and run by the caller.
SetExitCallback(c) ==
  /\ c \notin registered /\ joinable /\ Alive
  /\ registered' = registered \cup {c}
  /\ IF closed
     THEN /\ late' = [late EXCEPT ![c] = "run"]
          /\ IF completed
             THEN UNCHANGED <<tracked, inFlight>>
             ELSE tracked' = tracked \cup {c} /\ inFlight' = inFlight + 1
          /\ UNCHANGED queue
     ELSE /\ queue' = queue \cup {c}
          /\ UNCHANGED <<setting, late, tracked, inFlight>>
  /\ UNCHANGED <<setting, nativeVars, joinable, reaper, closed, released,
                 completed, reapVars, owner, killVars, waiter, runs>>

RunLate(c) ==
  /\ late[c] = "run"
  /\ late' = [late EXCEPT ![c] = "release"]
  /\ runs' = [runs EXCEPT ![c] = @ + 1]
  /\ UNCHANGED <<setting, nativeVars, joinable, reaper, complVars, reapVars,
                 tracked, owner, killVars, waiter, registered>>

\* callback = {}: the captures go before the callback is counted out.
ReleaseLate(c) ==
  /\ late[c] = "release"
  /\ late' = [late EXCEPT ![c] = IF c \in tracked THEN "count" ELSE "done"]
  /\ UNCHANGED <<setting, nativeVars, joinable, reaper, complVars, reapVars,
                 tracked, owner, killVars, waiter, histVars>>

\* Mutant: leaves completion to the reaper, which may be through already.
CountLateSilently(c) ==
  /\ late[c] = "count"
  /\ late' = [late EXCEPT ![c] = "done"]
  /\ inFlight' = inFlight - 1
  /\ UNCHANGED <<setting, nativeVars, joinable, reaper, queue, closed, released,
                 completed, reapVars, tracked, owner, killVars, waiter, histVars>>
CountLate(c) ==
  /\ late[c] = "count"
  /\ late' = [late EXCEPT ![c] = "done"]
  /\ inFlight' = inFlight - 1
  /\ completed' = (completed \/ (released /\ inFlight' = 0))
  /\ UNCHANGED <<setting, nativeVars, joinable, reaper, queue, closed, released,
                 reapVars, tracked, owner, killVars, waiter, histVars>>

-----------------------------------------------------------------------------
(* WaitForExitUntil.                                                       *)

WaitForExitUntil(w) ==
  /\ waiter[w] = "idle" /\ joinable /\ Alive
  /\ EnsureReaperStarted
  /\ \E kind \in {"bounded", "forever"} :
       waiter' = [waiter EXCEPT ![w] = IF reaper' = "none" THEN "failed" ELSE kind]
  /\ UNCHANGED <<setting, nativeVars, joinable, complVars, reapVars, lateVars,
                 owner, killVars, histVars>>

WaitSucceeds(w) ==
  /\ waiter[w] \in {"bounded", "forever"} /\ completed
  /\ waiter' = [waiter EXCEPT ![w] = "exited"]
  /\ UNCHANGED <<setting, nativeVars, joinable, reaper, complVars, reapVars,
                 lateVars, owner, killVars, histVars>>

WaitTimesOut(w) ==
  /\ waiter[w] = "bounded" /\ ~completed
  /\ waiter' = [waiter EXCEPT ![w] = "timeout"]
  /\ UNCHANGED <<setting, nativeVars, joinable, reaper, complVars, reapVars,
                 lateVars, owner, killVars, histVars>>

-----------------------------------------------------------------------------
Native ==
  \/ ThreadStart \/ LeaveRoutine \/ ExitCurrent \/ ExitCurrentReaper
  \/ CleanupFinish \/ CleanupReaper \/ NativeEnds
Killer == Terminate \/ TerminateReaper \/ TerminateCancel
Reaper ==
  \/ Join \/ TakeCallbacks \/ CloseCallbacks \/ PublishCompletion
  \/ \E c \in Callbacks : RunCallback(c) \/ ReleaseCallback(c)
Late(c) == RunLate(c) \/ ReleaseLate(c) \/ CountLate(c)
Registrar == \E c \in Callbacks : SetExitCallback(c) \/ Late(c)
Waiter(w) == WaitForExitUntil(w) \/ WaitSucceeds(w) \/ WaitTimesOut(w)

Next ==
  \/ Initialize \/ DropOwner \/ Resume
  \/ Native \/ Killer \/ Reaper \/ Registrar
  \/ \E w \in Waiters : Waiter(w)

Spec == Init /\ [][Next]_vars

\* The scheduler runs every thread that can run; callbacks return. Nothing
\* forces the start routine to return, and nobody has to register or wait.
Fairness ==
  /\ WF_vars(Initialize) /\ WF_vars(TerminateReaper) /\ WF_vars(TerminateCancel)
  /\ WF_vars(Reaper)
  /\ \A c \in Callbacks : WF_vars(Late(c))
  /\ \A w \in Waiters : WF_vars(WaitSucceeds(w))

FairSpec == Spec /\ Fairness

-----------------------------------------------------------------------------
(* Properties.                                                             *)

\* The condition is destroyed only when nobody works on it any more: the native
\* thread is gone and the reaper has closed the list. (Its destructor kills the
\* process otherwise: "POSIX Thread destroyed before its native thread was
\* joined".) Registration, execution and release of owning callbacks, Terminate
\* and the owner may come in any order.
DestroyedAfterClose == Alive \/ (closed /\ native = "ended")

\* An ordinary wait on the handle succeeds only when the native thread is gone
\* and every callback has run but those the caller of SetExitCallback runs.
SignalMeansJoined ==
  signaled => native = "ended"
              /\ \A c \in registered : late[c] # "no" \/ runs[c] = 1

\* WaitForExitUntil succeeds only when, besides, the reaper holds no callback
\* object and every callback registered before has run and released its
\* captures, the synchronous ones included.
StrongCompletion ==
  completed =>
    /\ native = "ended"
    /\ queue \cup batch \cup kept = {}
    /\ \A c \in registered : IF late[c] = "no" THEN runs[c] = 1
                              ELSE c \in tracked => late[c] = "done"

\* No interleaving of the drain with registrations runs a callback twice.
RunsAtMostOnce == \A c \in Callbacks : runs[c] <= 1

\* The native thread is gone, and could be reaped: it was created suspended, so
\* it was joinable before it ran, and the host can start a thread.
Reaped == native = "ended" /\ setting.suspended /\ ~setting.spawnFails

\* Completion is not lost between the reaper and the last synchronous callback,
\* whichever of them comes last.
EndedCompletes == Reaped ~> completed

\* Every registered callback runs, whenever it was registered.
CallbacksRun ==
  \A c \in Callbacks : (Reaped /\ c \in registered) ~> runs[c] = 1
=============================================================================
