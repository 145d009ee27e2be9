----------------------------- MODULE HostTimer -----------------------------
(***************************************************************************)
(* A host timer (PosixCondition<Timer>) and the timer queue it arms itself *)
(* in: any number of threads set and cancel it, the queue's dispatch       *)
(* thread fires it, the callback it runs may itself cancel or set it       *)
(* again, and the process may end.                                         *)
(*                                                                         *)
(* Time is abstract: BecomeDue lets the due time of a queued item pass.    *)
(* Between two timers of one queue nothing is shared but the ring.         *)
(***************************************************************************)
EXTENDS Naturals, Sequences, FiniteSets, SequencesExt

CONSTANTS Threads, Dispatch,   \* the threads that use the timer; the queue's own
          Items, NoItem,       \* bound: wait items alive at once, fewer than the ring's 512
          Free                 \* nobody holds mutex_

ASSUME TimerAssumption ==
  NoItem \notin Items /\ Dispatch \notin Threads /\ Free \notin Threads \cup {Dispatch}

Actors == Threads \cup {Dispatch}

VARIABLES
  item,       \* per TimerQueueWaitItem: state_ and interval_ # 0
  due,        \* the items whose due_ has passed
  ring,       \* buffer_: published and not yet consumed
  waitQueue,  \* wait_queue_
  again,      \* the local list of items to fire again
  dispatch,   \* the dispatch thread: where it is, the item in its hands
  stopping,   \* the stop token
  current,    \* wait_item_, NoItem once expired
  signal,     \* signal_, and the item whose expiry set it
  mutex,      \* mutex_
  op,         \* per actor: its call of SetOnce, SetRepeating or Cancel
  quiet,      \* history: who has been told that the item is disarmed
  raced       \* history: a set that has had its Cancel is to replace the item of another

queueVars == <<ring, waitQueue, again, stopping>>
timerVars == <<current, signal, mutex, raced>>
hostTimerVars == <<item, due, queueVars, timerVars, dispatch, op, quiet>>

Disarmed == [state |-> "disarmed", recurring |-> FALSE]
NoOp == [pc |-> "idle", set |-> FALSE, recurring |-> FALSE, item |-> NoItem]

TimerInit ==
  /\ item = [i \in Items |-> Disarmed]
  /\ due = {} /\ ring = <<>> /\ waitQueue = {} /\ again = {}
  /\ dispatch = [pc |-> "top", item |-> NoItem]
  /\ stopping = FALSE
  /\ current = NoItem /\ signal = NoItem /\ mutex = Free
  /\ op = [a \in Actors |-> NoOp]
  /\ quiet = [i \in Items |-> "no"] /\ raced = FALSE

\* A new item: one that no one refers to but an expired wait_item_.
Held == ToSet(ring) \cup waitQueue \cup again \cup {dispatch.item}
Unused == Items \ (Held \cup {op[a].item : a \in Actors})
MayTake(a) == Cardinality(Unused) > IF a # Dispatch /\ op[Dispatch].set THEN 1 ELSE 0

(***************************************************************************)
(* The timer's calls.  Cancel reads wait_item_ without the lock; both      *)
(* setters begin with it.                                                  *)
(***************************************************************************)
AfterCancel(r) == IF r.set THEN [r EXCEPT !.pc = "lock", !.item = NoItem] ELSE NoOp
Begin(a, r) ==
  op' = [op EXCEPT ![a] = IF current = NoItem THEN AfterCancel(r)
                          ELSE [r EXCEPT !.pc = "disarm", !.item = current]]

\* Bound: no new call once two setters have raced or the process is ending.
Call(a) ==
  /\ ~raced /\ ~stopping
  /\ \/ Begin(a, NoOp)
     \/ MayTake(a) /\ \E r \in BOOLEAN : Begin(a, [NoOp EXCEPT !.set = TRUE, !.recurring = r])
ThreadCalls(t) ==
  /\ op[t].pc = "idle"
  /\ Call(t)
  /\ UNCHANGED <<item, due, queueVars, timerVars, dispatch, quiet>>

MustWait(state) == state \in {"callback", "callback self-disarmed"}
Told(a, i, state, who) ==
  /\ item' = [item EXCEPT ![i].state = state]
  /\ quiet' = IF i \notin Held \/ quiet[i] = "all" THEN quiet ELSE [quiet EXCEPT ![i] = who]
  /\ op' = [op EXCEPT ![a] = AfterCancel(@)]
Disarming(a) == op[a].pc = "disarm" /\ ~(a = Dispatch /\ item[op[a].item].state = "callback")
DisarmWaits(a) ==
  /\ Disarming(a) /\ MustWait(item[op[a].item].state)
  /\ op' = [op EXCEPT ![a].pc = "parked"]
  /\ UNCHANGED <<item, due, queueVars, timerVars, dispatch, quiet>>
DisarmNow(a) ==
  /\ Disarming(a) /\ ~MustWait(item[op[a].item].state)
  /\ Told(a, op[a].item, "disarmed", "all")
  /\ UNCHANGED <<due, queueVars, timerVars, dispatch>>
DisarmOwn ==
  /\ op[Dispatch].pc = "disarm" /\ item[op[Dispatch].item].state = "callback"
  /\ Told(Dispatch, op[Dispatch].item, "callback self-disarmed", "callback")
  /\ UNCHANGED <<due, queueVars, timerVars, dispatch>>

\* SetOnce and SetRepeating under mutex_: the callback and the cleared signal,
\* the item into the ring, the item into wait_item_.
Lock(a) ==
  /\ op[a].pc = "lock" /\ mutex = Free /\ MayTake(a)
  /\ LET n == CHOOSE i \in Unused : TRUE
     IN  /\ item' = [item EXCEPT ![n] = [state |-> "idle", recurring |-> op[a].recurring]]
         /\ current' = IF current = n THEN NoItem ELSE current
         /\ op' = [op EXCEPT ![a].pc = "queue", ![a].item = n]
  /\ mutex' = a /\ signal' = NoItem
  /\ UNCHANGED <<due, queueVars, raced, dispatch, quiet>>

QueueTimer(a) ==
  /\ op[a].pc = "queue"
  /\ ring' = Append(ring, op[a].item)
  /\ op' = [op EXCEPT ![a].pc = "assign"]
  /\ UNCHANGED <<item, due, waitQueue, again, stopping, timerVars, dispatch, quiet>>

Assign(a) ==
  /\ op[a].pc = "assign"
  /\ current' = op[a].item
  /\ raced' = \/ raced
              \/ \E b \in Actors \ {a} : op[b].set /\ op[b].pc \in {"disarm", "parked", "lock"}
  /\ mutex' = Free
  /\ op' = [op EXCEPT ![a] = NoOp]
  /\ UNCHANGED <<item, due, queueVars, signal, dispatch, quiet>>

(***************************************************************************)
(* TimerThreadMain.                                                        *)
(***************************************************************************)
At(pc) == dispatch.pc = pc
Step(pc) == dispatch' = [dispatch EXCEPT !.pc = pc]

Top ==
  /\ At("top")
  /\ Step(IF stopping THEN "exited" ELSE "consume")
  /\ UNCHANGED <<item, due, queueVars, timerVars, op, quiet>>

\* wait_until_published, up to the due time of the first item in the queue.
Consume ==
  /\ At("consume")
  /\ ring # <<>> \/ waitQueue \cap due # {}
  /\ waitQueue' = waitQueue \cup (ToSet(ring) \ {NoItem})
  /\ ring' = <<>>
  /\ Step("fire")
  /\ UNCHANGED <<item, due, again, stopping, timerVars, op, quiet>>

Forget(i) ==
  /\ due' = due \ {i}
  /\ quiet' = [quiet EXCEPT ![i] = "no"]
MayFire(i) == item[i].state = "idle"
Fire(i) ==
  /\ At("fire") /\ i \in waitQueue \cap due
  /\ waitQueue' = waitQueue \ {i}
  /\ IF MayFire(i)
     THEN /\ item' = [item EXCEPT ![i].state = "callback"]
          /\ dispatch' = [dispatch EXCEPT !.pc = "signal", !.item = i]
          /\ UNCHANGED <<due, quiet>>
     ELSE Forget(i) /\ UNCHANGED <<item, dispatch>>
  /\ UNCHANGED <<ring, again, stopping, timerVars, op>>

RescheduledLost == waitQueue    \* mutant
Rescheduled == waitQueue \cup again
EndPass ==
  /\ At("fire") /\ waitQueue \cap due = {}
  /\ waitQueue' = Rescheduled /\ again' = {}
  /\ Step("top")
  /\ UNCHANGED <<item, due, ring, stopping, timerVars, op, quiet>>

\* CompletionRoutine: Signal, and a copy of the callback, under mutex_.
MayLockAlways == TRUE    \* mutant
MayLock == mutex = Free
Signal ==
  /\ At("signal") /\ MayLock
  /\ signal' = dispatch.item
  /\ Step("call")
  /\ UNCHANGED <<item, due, queueVars, current, mutex, raced, op, quiet>>

RunCallback ==
  /\ At("call")
  /\ Step("body")
  /\ UNCHANGED <<item, due, queueVars, timerVars, op, quiet>>

\* The callback may cancel the timer and set it again, as often as it likes.
CallbackCalls ==
  /\ At("body") /\ op[Dispatch].pc = "idle"
  /\ Call(Dispatch)
  /\ UNCHANGED <<item, due, queueVars, timerVars, dispatch, quiet>>

MayRecurAlways(x) == x.recurring    \* mutant
MayRecur(x) == x.recurring /\ x.state # "callback self-disarmed"
NotifiedNobody(i) == {}    \* mutant
Notified(i) == {a \in Actors : op[a].pc = "parked" /\ op[a].item = i}
CallbackReturns ==
  LET i == dispatch.item
  IN  /\ At("body") /\ op[Dispatch].pc = "idle"
      /\ IF MayRecur(item[i])
         THEN /\ item' = [item EXCEPT ![i].state = "idle"]
              /\ again' = again \cup {i}
              /\ due' = due \ {i}
              /\ UNCHANGED quiet
         ELSE item' = [item EXCEPT ![i] = Disarmed] /\ Forget(i) /\ UNCHANGED again
      /\ op' = [a \in Actors |->
                  IF a \in Notified(i) THEN [op[a] EXCEPT !.pc = "disarm"] ELSE op[a]]
      /\ dispatch' = [dispatch EXCEPT !.pc = "fire", !.item = NoItem]
      /\ UNCHANGED <<ring, waitQueue, stopping, timerVars>>

\* What becomes due while the dispatch thread is busy is seen when it looks again.
BecomeDue(i) ==
  /\ At("consume") /\ i \in (ToSet(ring) \cup waitQueue) \ due
  /\ due' = due \cup {i}
  /\ UNCHANGED <<item, queueVars, timerVars, dispatch, op, quiet>>

Kick(s) == Append(s, NoItem)
Stop ==
  /\ ~stopping /\ \A t \in Threads : op[t].pc = "idle"
  /\ stopping' = TRUE
  /\ ring' = Kick(ring)
  /\ UNCHANGED <<item, due, waitQueue, again, timerVars, dispatch, op, quiet>>

Goes(a) == DisarmWaits(a) \/ DisarmNow(a) \/ QueueTimer(a) \/ Assign(a)
DispatchNext ==
  \/ Top \/ Consume \/ (\E i \in Items : Fire(i)) \/ EndPass
  \/ RunCallback \/ DisarmOwn \/ CallbackReturns

TimerNext ==
  \/ \E t \in Threads : ThreadCalls(t)
  \/ \E a \in Actors : Goes(a) \/ Lock(a)
  \/ DispatchNext \/ Signal \/ CallbackCalls
  \/ \E i \in Items : BecomeDue(i)
  \/ Stop

\* Time passes, threads run, a mutex is not denied for ever; a callback that can
\* return does not call for ever; and the interval of a recurring timer leaves a
\* thread in Disarm the time to look between two runs of its callback.
TimerFairness ==
  /\ WF_hostTimerVars(DispatchNext \/ Goes(Dispatch))
  /\ SF_hostTimerVars(Signal \/ Lock(Dispatch)) /\ SF_hostTimerVars(CallbackReturns)
  /\ \A t \in Threads : WF_hostTimerVars(Goes(t)) /\ SF_hostTimerVars(DisarmNow(t) \/ Lock(t))
  /\ \A i \in Items : SF_hostTimerVars(BecomeDue(i))
TimerSpec == TimerInit /\ [][TimerNext]_hostTimerVars
FairTimerSpec == TimerSpec /\ TimerFairness

(***************************************************************************)
(* Properties.                                                             *)
(***************************************************************************)

\* "No callbacks will be running after this call": once Disarm has returned to a
\* thread the item's callback is not running and never will; if it returned to
\* the callback itself, this is its last run (Disarm, TimerThreadMain).
NoneAfterDisarm ==
  \A i \in Items :
    /\ quiet[i] = "all" => item[i].state = "disarmed" /\ dispatch.item # i
    /\ quiet[i] = "callback" => item[i].state \in {"callback self-disarmed", "disarmed"}

\* A callback finds its own item in wait_item_, so that it can cancel its timer,
\* however soon after its setting it runs; unless two threads set the timer at
\* once and one of the items is out of reach (CompletionRoutine, SetOnce).
ExpiryIsItsOwn == At("call") /\ ~raced => current = dispatch.item

\* The callback waits for its own end: it has disarmed its timer and then
\* cancelled or set it again while wait_item_ was still its own item.
WaitsForItself == op[Dispatch].pc = "parked"

\* Cancelling and setting return, to a thread and to the callback, whatever the
\* callback is doing, unless it waits for itself; without the notification
\* Disarm would wait for ever (Disarm).
DisarmReturns ==
  \A a \in Actors : op[a].pc = "disarm" ~> op[a].pc \in {"idle", "lock"} \/ WaitsForItself

\* An armed timer fires, and a recurring one again and again, unless it is
\* disarmed, the queue stops or the callback waits for itself (TimerThreadMain,
\* QueueTimer).
ArmedFires ==
  \A i \in Items :
    item[i].state = "idle" ~> item[i].state # "idle" \/ stopping \/ WaitsForItself
=============================================================================
