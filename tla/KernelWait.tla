----------------------------- MODULE KernelWait -----------------------------
(***************************************************************************)
(* Waits for kernel objects: rex::thread::Wait, WaitMultiple and           *)
(* SignalAndWait over the condition of each object, and the guest's events *)
(* (XEvent) on top of them.                                                *)
(*                                                                         *)
(* A wait for one object blocks on its condition.  A wait for several      *)
(* tries their mutexes one after the other, gives all back when one is     *)
(* taken, and looks again later.  An alertable wait is cut into slices,    *)
(* between which the thread runs a queued user callback.  An XEvent that   *)
(* the GPU interrupt sets is a render event: its Set is to survive a Reset *)
(* until a wait takes it.                                                  *)
(*                                                                         *)
(* A guest thread releases only a mutant that it owns.                     *)
(***************************************************************************)
EXTENDS WaitObjects, SequencesExt

CONSTANTS Isr,            \* the thread that runs the guest's GPU interrupt: it only sets events
          MaxCallbacks,   \* bound, per thread: callbacks queued and not yet run
          MaxDepth        \* bound: how often a thread acquires a mutant without a release

VARIABLES
  objects,    \* signal_, count_ and owner_
  mutex,      \* per object: who holds its mutex_
  render,     \* the events with is_render_
  pending,    \* the events with render_pending_
  inbox,      \* per thread: how many user_callbacks_
  call,       \* per thread: its call and where it is
  owed        \* history: per event, the render Set no wait has taken

vars == <<objects, mutex, render, pending, inbox, call, owed>>

Free == [pc |-> "idle", request |-> Nobody, objs |-> <<>>, i |-> 1, notified |-> FALSE,
         late |-> FALSE]

Init ==
  /\ objects = [o \in Objects |-> [state |-> IF o \in Semaphores THEN 1 ELSE 0, owner |-> Nobody]]
  /\ mutex = [o \in Objects |-> Nobody]
  /\ render = {} /\ pending = {}
  /\ inbox = [t \in Threads |-> 0]
  /\ call = [t \in Threads |-> Free]
  /\ owed = [e \in Events |-> "no"]

At(t, pc) == call[t].pc = pc
InWait(t) == call[t].pc \in {"alert", "lock", "asleep", "try"}
Open(o) == mutex[o] = Nobody
Alone(r) == Len(r.handles) = 1
Target(t) == Head(call[t].request.handles)
NotifyAll(o) ==
  [t \in Threads |-> IF At(t, "asleep") /\ Target(t) = o
                     THEN [call[t] EXCEPT !.notified = TRUE] ELSE call[t]]
\* PosixCondition<Mutant>::Release notifies when the mutant is free.
NotifiesNot(o, n) == o \notin Mutants    \* mutant
Notifies(o, n) == o \notin Mutants \/ objects[o].state = n
AfterSignal(o, n) == IF Notifies(o, n) THEN NotifyAll(o) ELSE call

(***************************************************************************)
(* A wait, from its call to its return.                                    *)
(***************************************************************************)
Place(r) == IF r.alertable THEN "alert" ELSE IF Alone(r) THEN "lock" ELSE "try"
Waiting(r, late) == [Free EXCEPT !.pc = Place(r), !.request = r, !.late = late]
MayDeepen(t, r) ==
  \A o \in Mutants \cap ToSet(r.handles) : objects[o].owner = t => objects[o].state < MaxDepth

BeginWait(t) ==
  /\ At(t, "idle") /\ t # Isr
  /\ \E r \in Requests[t] : MayDeepen(t, r) /\ call' = [call EXCEPT ![t] = Waiting(r, FALSE)]
  /\ UNCHANGED <<objects, mutex, render, pending, inbox, owed>>

SignalAndWait(t) ==
  /\ At(t, "idle") /\ t # Isr
  /\ \E o \in Objects, r \in Requests[t] :
       /\ Alone(r) /\ MayDeepen(t, r)
       /\ Open(o) /\ MaySignal(o, objects[o], t, 1)
       /\ objects' = [objects EXCEPT ![o] = SignaledBy(o, @, 1)]
       /\ call' = [AfterSignal(o, 1) EXCEPT ![t] = Waiting(r, FALSE)]
  /\ UNCHANGED <<mutex, render, pending, inbox, owed>>

\* The deadline of a timed wait passes.
BecomeLate(t) ==
  /\ InWait(t) /\ call[t].request.timed /\ ~call[t].late
  /\ call' = [call EXCEPT ![t].late = TRUE]
  /\ UNCHANGED <<objects, mutex, render, pending, inbox, owed>>

Return(t) == call' = [call EXCEPT ![t] = Free]

\* The head of the loop of an alertable wait.
Alert(t) ==
  /\ At(t, "alert")
  /\ \/ inbox[t] > 0 /\ inbox' = [inbox EXCEPT ![t] = @ - 1] /\ Return(t)
     \/ inbox[t] = 0 /\ call[t].late /\ Return(t) /\ UNCHANGED inbox
     \/ /\ inbox[t] = 0 /\ ~call[t].late /\ UNCHANGED inbox
        /\ call' = [call EXCEPT ![t].pc = IF Alone(call[t].request) THEN "lock" ELSE "try"]
  /\ UNCHANGED <<objects, mutex, render, pending, owed>>

\* PosixConditionBase::Wait: the predicate is evaluated under the mutex, which the
\* condition variable gives back while the thread sleeps.
Taking(objs) == [Free EXCEPT !.pc = "take", !.objs = objs]
Look(t, o, otherwise) ==
  /\ Open(o)
  /\ IF Signaled(o, objects[o], t)
     THEN /\ mutex' = [mutex EXCEPT ![o] = t]
          /\ call' = [call EXCEPT ![t] = Taking(<<o>>)]
     ELSE /\ call' = [call EXCEPT ![t] = otherwise]
          /\ UNCHANGED mutex
  /\ UNCHANGED <<objects, render, pending, inbox, owed>>
Asleep(t) == [call[t] EXCEPT !.pc = "asleep", !.notified = FALSE]
Lock(t) == At(t, "lock") /\ Look(t, Target(t), Asleep(t))
Wake(t) == At(t, "asleep") /\ call[t].notified /\ Look(t, Target(t), Asleep(t))

\* The time of a late wait is over, and so is in a millisecond the slice of an alertable one.
SliceEndsNever(t) == FALSE    \* mutant
SliceEnds(t) == call[t].request.alertable
Late(t) == call[t].late /\ ~call[t].request.alertable
TimeOut(t) ==
  /\ At(t, "asleep") /\ (SliceEnds(t) \/ Late(t))
  /\ Look(t, Target(t),
          IF Late(t) THEN Free ELSE [call[t] EXCEPT !.pc = "alert", !.notified = FALSE])

\* WaitMultiple: try the next mutex; the scan needs all of them.
Unlocked(t) == [o \in Objects |-> IF mutex[o] = t THEN Nobody ELSE mutex[o]]
TryLock(t) ==
  LET hs == call[t].request.handles
      i == call[t].i
  IN /\ At(t, "try") /\ i <= Len(hs)
     /\ IF Open(hs[i])
        THEN /\ mutex' = [mutex EXCEPT ![hs[i]] = t]
             /\ call' = [call EXCEPT ![t].i = i + 1]
        ELSE /\ mutex' = Unlocked(t)
             /\ call' = [call EXCEPT ![t].i = 1]
     /\ UNCHANGED <<objects, render, pending, inbox, owed>>
MayScanEarly(t) == call[t].i > 1    \* mutant
MayScan(t) == call[t].i = Len(call[t].request.handles) + 1
Scan(t) ==
  LET r == call[t].request
  IN /\ At(t, "try") /\ MayScan(t)
     /\ IF Grants(r, objects, t) # {}
        THEN /\ \E w \in Grants(r, objects, t) : call' = [call EXCEPT ![t] = Taking(w)]
             /\ UNCHANGED mutex
        ELSE /\ \/ ~Late(t) /\ call' = [call EXCEPT ![t].i = 1]
                \/ Late(t) /\ Return(t)
                \/ SliceEnds(t) /\ call' = [call EXCEPT ![t] = Waiting(r, @.late)]
             /\ mutex' = Unlocked(t)
     /\ UNCHANGED <<objects, render, pending, inbox, owed>>

\* post_execution of one object after the other; the mutexes go with the last.
Take(t) ==
  LET o == call[t].objs[call[t].i]
      last == call[t].i = Len(call[t].objs)
      next == IF last THEN [call[t] EXCEPT !.pc = "taken", !.i = 1]
                      ELSE [call[t] EXCEPT !.i = @ + 1]
      woken == IF o \in Semaphores THEN NotifyAll(o) ELSE call
  IN /\ At(t, "take")
     /\ objects' = [objects EXCEPT ![o] = Acquired(o, @, t)]
     /\ call' = [woken EXCEPT ![t] = next]
     /\ mutex' = IF last THEN Unlocked(t) ELSE mutex
     /\ owed' = IF o \in Events THEN [owed EXCEPT ![o] = "no"] ELSE owed
     /\ UNCHANGED <<render, pending, inbox>>

\* WaitCallback of what was taken, and the return.
Deliver(t) ==
  /\ At(t, "taken")
  /\ pending' = pending \ ToSet(call[t].objs)
  /\ Return(t)
  /\ UNCHANGED <<objects, mutex, render, inbox, owed>>

(***************************************************************************)
(* The guest's calls on events, semaphores and mutants.                    *)
(***************************************************************************)
Start(t, pc, e) ==
  /\ At(t, "idle") /\ (t = Isr => pc = "set")
  /\ call' = [call EXCEPT ![t] = [Free EXCEPT !.pc = pc, !.objs = <<e>>]]

\* KeSetEvent: inside the interrupt it marks the event first.  XEvent::Set stores
\* render_pending_ before it signals the host event.
HeldUntilTaken(e, t) == t = Isr \/ e \in render
SetEvent(t) ==
  /\ \E e \in Events :
       /\ Start(t, "set", e)
       /\ render' = IF t = Isr THEN render \cup {e} ELSE render
       /\ pending' = IF HeldUntilTaken(e, t) THEN pending \cup {e} ELSE pending
  /\ UNCHANGED <<objects, mutex, inbox, owed>>

\* A Set is overtaken when a Reset has already looked, or the callback of an earlier
\* wait has cleared or will clear render_pending_.
Overtaken(e) ==
  \/ e \notin pending
  \/ \E u \in Threads : call[u].pc \in {"reset", "taken"} /\ e \in ToSet(call[u].objs)
SetHost(t) ==
  LET e == Head(call[t].objs)
  IN /\ At(t, "set") /\ Open(e)
     /\ objects' = [objects EXCEPT ![e].state = 1]
     /\ call' = [NotifyAll(e) EXCEPT ![t] = Free]
     /\ owed' = IF t = Isr THEN [owed EXCEPT ![e] = IF Overtaken(e) THEN "overtaken" ELSE "kept"]
                ELSE owed
     /\ UNCHANGED <<mutex, render, pending, inbox>>

\* XEvent::Reset: the two flags are looked at, then the host event is reset.
MayResetAny(e) == TRUE    \* mutant
MayReset(e) == ~(e \in render /\ e \in pending)
ResetEvent(t) ==
  /\ \E e \in Events : MayReset(e) /\ Start(t, "reset", e)
  /\ UNCHANGED <<objects, mutex, render, pending, inbox, owed>>
ResetHost(t) ==
  LET e == Head(call[t].objs)
  IN /\ call[t].pc \in {"reset", "pulse"} /\ Open(e)
     /\ objects' = [objects EXCEPT ![e].state = 0]
     /\ Return(t)
     /\ owed' = IF At(t, "pulse") THEN [owed EXCEPT ![e] = "no"] ELSE owed
     /\ UNCHANGED <<mutex, render, pending, inbox>>

\* XEvent::Pulse signals the host event and resets it a little later.
Pulse(t) ==
  /\ At(t, "idle") /\ t # Isr
  /\ \E e \in Events :
       /\ Open(e)
       /\ objects' = [objects EXCEPT ![e].state = 1]
       /\ call' = [NotifyAll(e) EXCEPT ![t] = [Free EXCEPT !.pc = "pulse", !.objs = <<e>>]]
  /\ UNCHANGED <<mutex, render, pending, inbox, owed>>

\* XEvent::Query waits for the host event without a timeout and sets it again.
Query(t) ==
  /\ \E e \in Events :
       /\ Open(e) /\ objects[e].state = 1
       /\ Start(t, "query", e)
       /\ objects' = [objects EXCEPT ![e] = Acquired(e, @, t)]
  /\ UNCHANGED <<mutex, render, pending, inbox, owed>>
QueryEnds(t) ==
  LET e == Head(call[t].objs)
  IN /\ At(t, "query") /\ Open(e)
     /\ objects' = [objects EXCEPT ![e].state = 1]
     /\ call' = [NotifyAll(e) EXCEPT ![t] = Free]
     /\ UNCHANGED <<mutex, render, pending, inbox, owed>>

\* Release of a semaphore or of a mutant.
Release(t) ==
  /\ At(t, "idle") /\ t # Isr
  /\ \E o \in Semaphores \cup Mutants, n \in 1 .. MaximumCount :
       /\ Open(o) /\ MaySignal(o, objects[o], t, n)
       /\ objects' = [objects EXCEPT ![o] = SignaledBy(o, @, n)]
       /\ call' = AfterSignal(o, n)
  /\ UNCHANGED <<mutex, render, pending, inbox, owed>>

QueueUserCallback(t) ==
  /\ inbox[t] < MaxCallbacks[t] /\ t # Isr
  /\ \E u \in Threads \ {t} : At(u, "idle")
  /\ inbox' = [inbox EXCEPT ![t] = @ + 1]
  /\ UNCHANGED <<objects, mutex, render, pending, call, owed>>

WaitStep(t) ==
  \/ Alert(t) \/ Lock(t) \/ Wake(t) \/ TimeOut(t) \/ BecomeLate(t)
  \/ TryLock(t) \/ Scan(t) \/ Take(t) \/ Deliver(t)
HostStep(t) == SetHost(t) \/ ResetHost(t) \/ QueryEnds(t)
GuestCalls(t) ==
  \/ BeginWait(t) \/ SignalAndWait(t) \/ SetEvent(t) \/ ResetEvent(t)
  \/ Pulse(t) \/ Query(t) \/ Release(t) \/ QueueUserCallback(t)

Next == \E t \in Threads : WaitStep(t) \/ HostStep(t) \/ GuestCalls(t)

Spec == Init /\ [][Next]_vars

\* Every thread keeps running and time passes.  A blocking lock that is free again and
\* again is got at last; trying one guarantees nothing.
Fairness(t) ==
  /\ WF_vars(Alert(t) \/ TryLock(t) \/ Scan(t) \/ Take(t) \/ Deliver(t))
  /\ WF_vars(BecomeLate(t))
  /\ SF_vars(Lock(t) \/ Wake(t) \/ HostStep(t))
  /\ SF_vars(TimeOut(t))

FairSpec == Spec /\ \A t \in Threads : Fairness(t)

-----------------------------------------------------------------------------
TypeOK ==
  /\ objects \in [Objects -> Object]
  /\ mutex \in [Objects -> Threads \cup {Nobody}]
  /\ render \subseteq Events /\ pending \subseteq Events
  /\ inbox \in [Threads -> Nat]

\* Every wait is one step of the kernel that Dispatcher describes, although WaitMultiple
\* takes its objects one by one: they count as taken from the scan on.
Remaining(t) ==
  IF At(t, "take") THEN {call[t].objs[j] : j \in call[t].i .. Len(call[t].objs)} ELSE {}
Promised(o) ==
  IF \E t \in Threads : o \in Remaining(t)
  THEN Acquired(o, objects[o], CHOOSE t \in Threads : o \in Remaining(t))
  ELSE objects[o]
Given == [o \in Objects |-> Promised(o)]
Asked == [t \in Threads |-> IF InWait(t) THEN call[t].request ELSE Nobody]
Kernel == INSTANCE Dispatcher WITH NoRequest <- Nobody, objects <- Given, waiting <- Asked
Implements == Kernel!Spec

\* No one sleeps through a signal: a thread that waits for an object which is signaled
\* for it has been notified.
NoLostWakeup ==
  \A t \in Threads :
    At(t, "asleep") /\ ~call[t].notified => ~Signaled(Target(t), objects[Target(t)], t)

\* A render event's Set that nothing overtook stays until a wait takes it, whatever
\* resets are called (XEvent::Reset and WaitCallback). Pulse is not one of them: it
\* resets without a look at the marks, and by its meaning it keeps nothing.
Present(e) ==
  objects[e].state = 1 \/ \E t \in Threads : At(t, "query") /\ call[t].objs = <<e>>
RenderWakeupKept == \A e \in Events : owed[e] = "kept" => Present(e)

\* The comment on MarkRenderEvent: a racing KeResetEvent cannot drop the wakeup.
WakeupKept == \A e \in Events : owed[e] # "no" => Present(e)

\* The threads that wait for one object at all: only they sleep on a condition.
Sleepers == {t \in Threads : \E r \in Requests[t] : Alone(r)}

\* A wait for one object ends, however busy the object is, when it has a timeout, and
\* when it is alertable and a user callback is queued (Wait, DispatchQueuedUserCallbacks).
LoneWaitsEnd ==
  \A t \in Sleepers :
    LET Ending == /\ InWait(t) /\ Alone(call[t].request)
                  /\ call[t].request.timed \/ (call[t].request.alertable /\ inbox[t] > 0)
    IN Ending ~> ~InWait(t)
=============================================================================
