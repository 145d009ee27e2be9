---------------------------- MODULE ThreadSuspend ----------------------------
(***************************************************************************)
(* Suspending and resuming a POSIX host thread                             *)
(* (PosixCondition<Thread> in src/core/threading_posix.cpp).               *)
(*                                                                         *)
(* The suspend count and the state are guarded by state_mutex_. A thread   *)
(* that is to stop waits on the semaphore suspend_sem_: it does so itself  *)
(* when it suspends itself, and in a signal handler when another thread    *)
(* suspends it. A thread that was created suspended waits for state_signal_*)
(* instead, before its routine. Resume posts the semaphore once, when the  *)
(* count reaches zero.                                                     *)
(*                                                                         *)
(* The signal is blocked while its handler runs. Signals that are sent     *)
(* meanwhile are queued on Linux (a real-time signal) and merged into one  *)
(* on macOS (SIGUSR1).                                                     *)
(***************************************************************************)
EXTENDS Naturals, FiniteSets

CONSTANTS
  Controllers,      \* the threads that suspend, resume and terminate
  MaxCount,         \* how deep the callers nest suspensions
  MaxSuspends       \* bound on the calls of Suspend

ASSUME ControllerAssumption == IsFiniteSet(Controllers)
ASSUME BoundAssumption == MaxCount \in Nat \ {0} /\ MaxSuspends \in Nat

VARIABLES
  setting,    \* never changes: params.create_suspended, and whether signals
              \* queue (Linux) or merge (macOS)
  state,      \* state_
  count,      \* suspend_count_
  sem,        \* the tokens in suspend_sem_
  pending,    \* suspend signals that are sent but not delivered
  target,     \* where the thread is
  inHandler,  \* it waits in the signal handler
  inSelf,     \* it waits in its own call of Suspend
  pc,         \* per controller: "idle", "kill" in Suspend, "cancel" in Terminate
  canceled,   \* pthread_cancel: not called, pending, or acted upon
  calls,      \* calls of Suspend so far (the bound)
  terminated, \* history: Terminate has taken effect
  resumed,    \* history: a Resume has succeeded
  nested      \* history: suspensions of a thread that was suspended already

vars == <<setting, state, count, sem, pending, target, inHandler, inSelf, pc,
          canceled, calls, terminated, resumed, nested>>

Settings == [suspended: BOOLEAN, queued: BOOLEAN]
States == {"uninitialized", "running", "suspended", "finished"}
Places == {"starting", "startwait", "run", "cleanup", "done"}

FlagsOK ==
  /\ inHandler \in BOOLEAN /\ inSelf \in BOOLEAN
  /\ terminated \in BOOLEAN /\ resumed \in BOOLEAN

TypeOK ==
  /\ setting \in Settings
  /\ state \in States
  /\ count \in 0..MaxCount /\ sem \in Nat /\ pending \in Nat
  /\ target \in Places
  /\ pc \in [Controllers -> {"idle", "kill", "cancel"}]
  /\ canceled \in {"no", "pending", "taken"}
  /\ calls \in 0..MaxSuspends /\ nested \in Nat
  /\ FlagsOK

Init ==
  /\ setting \in Settings
  /\ state = "uninitialized" /\ count = 0 /\ sem = 0 /\ pending = 0
  /\ target = "starting"
  /\ inHandler = FALSE /\ inSelf = FALSE
  /\ pc = [k \in Controllers |-> "idle"]
  /\ canceled = "no"
  /\ calls = 0 /\ terminated = FALSE /\ resumed = FALSE /\ nested = 0

AsNumber(b) == IF b THEN 1 ELSE 0

\* The thread executes, rather than waits, where it is.
Awake == ~inHandler /\ ~inSelf

-----------------------------------------------------------------------------
(* The controllers.                                                        *)

\* Suspend by another thread: the state first, the signal after the unlock.
Suspend(k) ==
  /\ pc[k] = "idle" /\ state # "uninitialized"
  /\ count < MaxCount /\ calls < MaxSuspends
  /\ state' = "suspended"
  /\ count' = count + 1
  /\ calls' = calls + 1
  /\ nested' = nested + AsNumber(count > 0)
  /\ pc' = [pc EXCEPT ![k] = "kill"]
  /\ UNCHANGED <<setting, sem, pending, target, inHandler, inSelf, canceled,
                 terminated, resumed>>

SendSignal(k) ==
  /\ pc[k] = "kill"
  /\ pc' = [pc EXCEPT ![k] = "idle"]
  /\ pending' = IF setting.queued THEN pending + 1 ELSE 1
  /\ UNCHANGED <<setting, state, count, sem, target, inHandler, inSelf, canceled,
                 calls, terminated, resumed, nested>>

\* Mutants: the post is forgotten, or done without a suspension.
ResumeNoPost(k) ==
  /\ pc[k] = "idle" /\ state # "uninitialized"
  /\ count > 0
  /\ count' = count - 1
  /\ state' = IF count' = 0 /\ state = "suspended" THEN "running" ELSE state
  /\ resumed' = TRUE
  /\ UNCHANGED <<setting, sem, pending, target, inHandler, inSelf, pc, canceled,
                 calls, terminated, nested>>
ResumePostsAlways(k) ==
  /\ pc[k] = "idle" /\ state # "uninitialized"
  /\ count' = IF count > 0 THEN count - 1 ELSE 0
  /\ state' = IF count' = 0 /\ state = "suspended" THEN "running" ELSE state
  /\ sem' = IF sem < MaxSuspends THEN sem + 1 ELSE sem
  /\ resumed' = TRUE
  /\ UNCHANGED <<setting, pending, target, inHandler, inSelf, pc, canceled, calls,
                 terminated, nested>>
Resume(k) ==
  /\ pc[k] = "idle" /\ state # "uninitialized"
  /\ count > 0
  /\ count' = count - 1
  /\ IF count' = 0 /\ state = "suspended"
     THEN state' = "running" /\ sem' = sem + 1
     ELSE UNCHANGED <<state, sem>>
  /\ resumed' = TRUE
  /\ UNCHANGED <<setting, pending, target, inHandler, inSelf, pc, canceled, calls,
                 terminated, nested>>

\* Terminate by another thread, up to its unlock; the cancellation follows.
Terminate(k) ==
  /\ pc[k] = "idle" /\ state # "finished"
  /\ state' = "finished"
  /\ count' = 0
  /\ terminated' = TRUE
  /\ pc' = [pc EXCEPT ![k] = "cancel"]
  /\ UNCHANGED <<setting, sem, pending, target, inHandler, inSelf, canceled,
                 calls, resumed, nested>>

TerminateCancel(k) ==
  /\ pc[k] = "cancel"
  /\ pc' = [pc EXCEPT ![k] = "idle"]
  /\ canceled' = IF canceled = "taken" THEN "taken" ELSE "pending"
  /\ UNCHANGED <<setting, state, count, sem, pending, target, inHandler, inSelf,
                 calls, terminated, resumed, nested>>

-----------------------------------------------------------------------------
(* The thread.                                                             *)

\* ThreadStartRoutine publishes the state, unless a termination came first.
ThreadStart ==
  /\ target = "starting"
  /\ IF state = "finished"
     THEN /\ count' = 0 /\ target' = "cleanup"
          /\ UNCHANGED state
     ELSE IF setting.suspended
          THEN state' = "suspended" /\ count' = 1 /\ target' = "startwait"
          ELSE state' = "running" /\ target' = "run" /\ UNCHANGED count
  /\ UNCHANGED <<setting, sem, pending, inHandler, inSelf, pc, canceled, calls,
                 terminated, resumed, nested>>

\* The start-up wait for state_signal_.
LeaveStartWait ==
  /\ target = "startwait" /\ Awake
  /\ count = 0 \/ state = "finished"
  /\ target' = IF state = "finished" THEN "cleanup" ELSE "run"
  /\ UNCHANGED <<setting, state, count, sem, pending, inHandler, inSelf, pc,
                 canceled, calls, terminated, resumed, nested>>

\* The signal handler is entered, anywhere between start and cleanup.
DeliverSignal ==
  /\ pending > 0 /\ ~inHandler
  /\ target \in {"startwait", "run", "cleanup"}
  /\ pending' = pending - 1
  /\ inHandler' = TRUE
  /\ UNCHANGED <<setting, state, count, sem, target, inSelf, pc, canceled, calls,
                 terminated, resumed, nested>>

\* WaitSuspended in the handler, and in the thread's own Suspend below it.
HandlerWakes ==
  /\ inHandler /\ sem > 0
  /\ sem' = sem - 1
  /\ inHandler' = FALSE
  /\ UNCHANGED <<setting, state, count, pending, target, inSelf, pc, canceled,
                 calls, terminated, resumed, nested>>

SelfSuspend ==
  /\ target = "run" /\ Awake
  /\ count < MaxCount /\ calls < MaxSuspends
  /\ state' = "suspended"
  /\ count' = count + 1
  /\ calls' = calls + 1
  /\ nested' = nested + AsNumber(count > 0)
  /\ inSelf' = TRUE
  /\ UNCHANGED <<setting, sem, pending, target, inHandler, pc, canceled,
                 terminated, resumed>>

SelfWakes ==
  /\ inSelf /\ ~inHandler /\ sem > 0
  /\ sem' = sem - 1
  /\ inSelf' = FALSE
  /\ UNCHANGED <<setting, state, count, pending, target, inHandler, pc, canceled,
                 calls, terminated, resumed, nested>>

\* The routine returns: ThreadExitCleanup marks the thread finished ...
Finish ==
  /\ target = "run" /\ Awake
  /\ target' = "cleanup"
  /\ state' = "finished"
  /\ UNCHANGED <<setting, count, sem, pending, inHandler, inSelf, pc, canceled,
                 calls, terminated, resumed, nested>>

\* ... and forgets the current thread, after which a signal does nothing.
End ==
  /\ target = "cleanup" /\ Awake
  /\ target' = "done"
  /\ UNCHANGED <<setting, state, count, sem, pending, inHandler, inSelf, pc,
                 canceled, calls, terminated, resumed, nested>>

\* The cancellation takes effect, in a wait as well. The cleanup handler runs,
\* unless the thread is past it.
Canceled ==
  /\ canceled = "pending"
  /\ target \in {"startwait", "run", "cleanup"}
  /\ canceled' = "taken"
  /\ target' = IF target = "cleanup" THEN "done" ELSE "cleanup"
  /\ state' = IF target = "cleanup" THEN state ELSE "finished"
  /\ inHandler' = FALSE /\ inSelf' = FALSE
  /\ UNCHANGED <<setting, count, sem, pending, pc, calls, terminated, resumed, nested>>

-----------------------------------------------------------------------------
Controller(k) ==
  Suspend(k) \/ SendSignal(k) \/ Resume(k) \/ Terminate(k) \/ TerminateCancel(k)
Thread ==
  \/ ThreadStart \/ LeaveStartWait \/ DeliverSignal \/ HandlerWakes
  \/ SelfSuspend \/ SelfWakes \/ Finish \/ Canceled \/ End

Next == Thread \/ \E k \in Controllers : Controller(k)

Spec == Init /\ [][Next]_vars

\* The scheduler runs the thread and the callers; the routine need not return,
\* and nobody has to suspend or resume.
Fairness ==
  /\ WF_vars(ThreadStart) /\ WF_vars(LeaveStartWait) /\ WF_vars(DeliverSignal)
  /\ WF_vars(HandlerWakes) /\ WF_vars(SelfWakes) /\ WF_vars(End)
  /\ WF_vars(Canceled)
  /\ \A k \in Controllers : WF_vars(SendSignal(k)) /\ WF_vars(TerminateCancel(k))

FairSpec == Spec /\ Fairness

-----------------------------------------------------------------------------
(* Properties.                                                             *)

\* The waits for a token that the thread is in or will still enter.
Waits ==
  Cardinality({k \in Controllers : pc[k] = "kill"}) + pending
    + AsNumber(inHandler) + AsNumber(inSelf)

\* The thread may be judged by its suspend count: it runs, and is not ending.
Judged == target \in {"startwait", "run"} /\ ~terminated

\* Every wait the thread enters has its token, or will have it with the Resume
\* that brings the count to zero; but for one wait for each suspension nested in
\* another, which signals the thread like the first and gets no token of its own.
\* So nothing strands a thread whose suspensions are not nested (Suspend, Resume).
NoStrandedWait == Judged => Waits <= sem + AsNumber(count > 0) + nested

\* A thread that is suspended, with its signals delivered, does not run. Not so
\* for threads created suspended, and for merged signals ("Suspends the specified
\* thread"): a token is left behind which the next suspension consumes.
SuspendedStops ==
  (/\ target = "run" /\ ~terminated /\ count > 0 /\ pending = 0
   /\ \A k \in Controllers : pc[k] # "kill")
  => ~Awake

\* The part that holds: threads created running, and signals that queue.
QueuedSuspendStops == setting.queued /\ ~setting.suspended => SuspendedStops

\* A thread that is created suspended does not run before a Resume.
StartsWhenResumed == setting.suspended /\ target = "run" => resumed

\* A thread whose count is zero runs on: "When the suspend count is decremented
\* to zero, the execution of the thread is resumed". It need not once suspensions
\* have been nested: a wait that NoStrandedWait counts for them has no token.
ResumedRuns ==
  (target = "run" /\ count = 0 /\ ~terminated /\ nested = 0)
    ~> (Awake \/ count > 0 \/ target # "run" \/ terminated)
=============================================================================
