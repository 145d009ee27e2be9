-------------------------- MODULE KernelWaitProofs --------------------------
(***************************************************************************)
(* For every set of threads, objects and requests: the type invariant of   *)
(* KernelWait, that no thread sleeps through a signal, and that no Reset   *)
(* drops a render Set that nothing has overtaken.                          *)
(*                                                                         *)
(* The invariant adds who holds which mutex while WaitMultiple collects    *)
(* and takes its objects, and what is still true of a render event whose   *)
(* Set is owed.                                                            *)
(***************************************************************************)
EXTENDS KernelWait, TLAPS

Places == {"idle", "alert", "lock", "asleep", "try", "take", "taken",
           "set", "reset", "pulse", "query"}

\* An object as the proofs need it: only a mutant's count must not be negative.
AnObject(o, x) == /\ x \in [state : Int, owner : Threads \cup {Nobody}]
                  /\ o \in Mutants => x.state >= 0

\* The record of a thread's call.
ACall(t, c) ==
  /\ c \in [pc : Places, request : Requests[t] \cup {Nobody}, objs : Seq(Objects),
            i : Nat, notified : BOOLEAN, late : BOOLEAN]
  /\ c.pc \in {"alert", "lock", "asleep", "try"} => c.request \in Requests[t]
  /\ c.pc \in {"alert", "lock", "asleep"} => c.i = 1
  /\ c.pc \in {"set", "reset", "pulse", "query"} => \E e \in Events : c.objs = <<e>>

Stored ==
  /\ objects = [o \in Objects |-> objects[o]]
  /\ \A o \in Objects : AnObject(o, objects[o])
  /\ mutex \in [Objects -> Threads \cup {Nobody}]
  /\ render \subseteq Events /\ pending \subseteq Events
  /\ inbox \in [Threads -> Nat]
  /\ owed = [e \in Events |-> owed[e]]
Called ==
  /\ call = [t \in Threads |-> call[t]]
  /\ \A t \in Threads : ACall(t, call[t])
Typed == Stored /\ Called

\* Who collects or takes objects holds their mutexes.
Holds(t) ==
  /\ At(t, "try") => \A j \in DOMAIN call[t].request.handles :
                       j < call[t].i => mutex[call[t].request.handles[j]] = t
  /\ At(t, "take") => /\ call[t].i \in DOMAIN call[t].objs
                      /\ \A j \in DOMAIN call[t].objs : mutex[call[t].objs[j]] = t
Locked == \A t \in Threads : Holds(t)

\* What is true of a render event whose Set is owed.
Undisturbed(t, e) ==
  /\ call[t].pc \in {"reset", "taken"} => e \notin ToSet(call[t].objs)
  /\ At(t, "take") => \A j \in DOMAIN call[t].objs : j < call[t].i => call[t].objs[j] # e
Kept ==
  \A e \in Events : owed[e] = "kept" =>
    e \in render /\ e \in pending /\ Present(e) /\ \A t \in Threads : Undisturbed(t, e)

\* The interrupt marks an event before it sets it.
Marked == At(Isr, "set") => Head(call[Isr].objs) \in render

\* What the place of a thread says of its request.
Fits(t) ==
  /\ InWait(t) /\ call[t].late => call[t].request.timed
  /\ At(t, "alert") => call[t].request.alertable
  /\ call[t].pc \in {"lock", "asleep"} => Alone(call[t].request)
  /\ At(t, "take") => \A i, j \in DOMAIN call[t].objs : call[t].objs[i] = call[t].objs[j] => i = j
AllFit == \A t \in Threads : Fits(t)

IInv == Typed /\ Locked /\ NoLostWakeup /\ Kept /\ (Isr \in Threads => Marked)

-----------------------------------------------------------------------------
(* Objects and requests.                                                   *)

LEMMA RequestsAre ==
  ASSUME NEW t \in Threads, NEW r \in Requests[t]
  PROVE  /\ r # Nobody
         /\ r.handles \in Seq(Objects) /\ r.handles # <<>>
         /\ Head(r.handles) \in Objects
         /\ \A i \in DOMAIN r.handles : r.handles[i] \in Objects
  BY WaitAssumption

LEMMA AcquiredIs ==
  ASSUME NEW t \in Threads, NEW o \in Objects, NEW x, AnObject(o, x)
  PROVE  AnObject(o, Acquired(o, x, t))
  BY WaitAssumption DEF AnObject, Acquired, Objects, Events

LEMMA SignaledByIs ==
  ASSUME NEW t \in Threads, NEW o \in Objects, NEW x, AnObject(o, x), NEW n \in 1 .. MaximumCount,
         MaySignal(o, x, t, n)
  PROVE  AnObject(o, SignaledBy(o, x, n))
<1>n. n \in Nat
  BY WaitAssumption
<1>1. CASE o \in Events
  BY <1>1, WaitAssumption DEF AnObject, SignaledBy
<1>2. CASE o \in Semaphores
  BY <1>2, <1>n, WaitAssumption DEF AnObject, SignaledBy
<1>3. CASE o \in Mutants
  <2>1. x.state - 1 >= 0 /\ x.state \in Int /\ x.owner \in Threads \cup {Nobody}
    BY <1>3, WaitAssumption DEF AnObject, MaySignal
  <2>2. SignaledBy(o, x, n) = [state |-> x.state - 1, owner |-> IF x.state = 1 THEN Nobody ELSE x.owner]
    BY <1>3, WaitAssumption DEF SignaledBy
  <2> QED BY <2>1, <2>2 DEF AnObject
<1> QED BY <1>1, <1>2, <1>3 DEF Objects

LEMMA GrantsAre ==
  ASSUME NEW t \in Threads, NEW r \in Requests[t], NEW x, NEW w \in Grants(r, x, t)
  PROVE  /\ w \in Seq(Objects) /\ w # <<>>
         /\ \A j \in DOMAIN w : \E k \in DOMAIN r.handles : w[j] = r.handles[k]
<1>1. CASE r.all
  <2>1. w = r.handles
    BY <1>1 DEF Grants
  <2> QED BY <2>1, RequestsAre
<1>2. CASE ~r.all
  <2>1. PICK i \in DOMAIN r.handles : w = <<r.handles[i]>>
    BY <1>2 DEF Grants
  <2>2. r.handles[i] \in Objects
    BY RequestsAre
  <2> QED BY <2>1, <2>2
<1> QED BY <1>1, <1>2

-----------------------------------------------------------------------------
(* A step of thread t leaves the calls of the others as they are, but may  *)
(* notify them.                                                            *)

Same(u) ==
  /\ call'[u].pc = call[u].pc /\ call'[u].request = call[u].request
  /\ call'[u].objs = call[u].objs /\ call'[u].i = call[u].i
  /\ call[u].notified => call'[u].notified
Step(t) ==
  Called' /\ \A u \in Threads \ {t} : Same(u) /\ call'[u].late = call[u].late

Missed(t) ==
  At(t, "asleep") /\ ~call[t].notified /\ Signaled(Target(t), objects[Target(t)], t)

\* The object is as it was, or not signaled for the others, or they are notified.
Heard(t, o) ==
  \/ objects'[o] = objects[o]
  \/ \A u \in Threads \ {t} : ~Signaled(o, objects'[o], u)
  \/ \A u \in Threads \ {t} : At(u, "asleep") /\ Target(u) = o => call'[u].notified

\* A call of which the invariant says nothing.
Harmless(c) ==
  c.pc \in {"idle", "alert", "lock", "pulse", "query"} \/ (c.pc = "try" /\ c.i = 1)

LEMMA NotifyAllIs ==
  ASSUME Typed, NEW o
  PROVE  /\ NotifyAll(o) = [t \in Threads |-> NotifyAll(o)[t]]
         /\ \A t \in Threads :
              /\ ACall(t, NotifyAll(o)[t])
              /\ NotifyAll(o)[t].pc = call[t].pc /\ NotifyAll(o)[t].request = call[t].request
              /\ NotifyAll(o)[t].objs = call[t].objs /\ NotifyAll(o)[t].i = call[t].i
              /\ NotifyAll(o)[t].late = call[t].late
              /\ call[t].notified => NotifyAll(o)[t].notified
              /\ At(t, "asleep") /\ Target(t) = o => NotifyAll(o)[t].notified
              /\ ~At(t, "asleep") => NotifyAll(o)[t] = call[t]
  BY DEF Typed, Called, ACall, NotifyAll

LEMMA Moved ==
  ASSUME Typed, NEW t \in Threads, NEW c, ACall(t, c), call' = [call EXCEPT ![t] = c]
  PROVE  Step(t) /\ call'[t] = c
  BY DEF Typed, Called, Step, Same

LEMMA MovedAndWoke ==
  ASSUME Typed, NEW t \in Threads, NEW c, ACall(t, c), NEW o, call' = [NotifyAll(o) EXCEPT ![t] = c]
  PROVE  /\ Step(t) /\ call'[t] = c
         /\ \A u \in Threads \ {t} : At(u, "asleep") /\ Target(u) = o => call'[u].notified
  BY NotifyAllIs DEF Called, Step, Same

LEMMA HarmlessIsFine ==
  ASSUME NEW t \in Threads, Harmless(call'[t]), Called'
  PROVE  Holds(t)' /\ ~Missed(t)' /\ (t = Isr => Marked') /\ \A e \in Events : Undisturbed(t, e)'
<1>. call'[t].pc \in {"idle", "alert", "lock", "pulse", "query", "try"} /\ (call'[t].pc = "try" => call'[t].i = 1)
  BY DEF Harmless
<1>1. Holds(t)'
  <2> SUFFICES ASSUME call'[t].pc = "try", NEW j \in DOMAIN call'[t].request.handles, j < 1
               PROVE  FALSE
    BY DEF Holds, At
  <2>1. call'[t].request \in Requests[t]
    BY DEF Called, ACall
  <2>2. call'[t].request.handles \in Seq(Objects)
    BY <2>1, RequestsAre
  <2> QED BY <2>2
<1>2. ~Missed(t)' /\ (t = Isr => Marked') /\ \A e \in Events : Undisturbed(t, e)'
  BY DEF Missed, Marked, Undisturbed, At
<1> QED BY <1>1, <1>2

LEMMA OthersUndisturbed ==
  ASSUME IInv, NEW t \in Threads, Step(t), NEW e \in Events, owed[e] = "kept",
         NEW u \in Threads \ {t}
  PROVE  Undisturbed(u, e)'
  BY DEF IInv, Kept, Undisturbed, Step, Same, At

\* What a step has to show for the invariant to hold after it.
LEMMA Frame ==
  ASSUME IInv, NEW t \in Threads, Step(t), Stored',
         Holds(t)', ~Missed(t)', t = Isr => Marked',
         render \subseteq render',
         \A o \in Objects : Heard(t, o),
         \A o \in Objects : mutex[o] \in Threads \ {t} => mutex'[o] = mutex[o],
         Kept'
  PROVE  IInv'
<1>1. Typed'
  BY DEF Step, Typed
<1>2. Locked'
  <2> SUFFICES ASSUME NEW u \in Threads \ {t} PROVE Holds(u)'
    BY DEF Locked
  <2>1. Holds(u) /\ Same(u) /\ ACall(u, call[u])
    BY DEF IInv, Locked, Step, Typed, Called
  <2>2. CASE At(u, "try")
    <3>1. \A i \in DOMAIN call[u].request.handles : call[u].request.handles[i] \in Objects
      BY <2>1, <2>2, RequestsAre DEF ACall, At
    <3> QED BY <2>1, <2>2, <3>1 DEF Holds, Same, At
  <2>3. CASE At(u, "take")
    <3>1. \A i \in DOMAIN call[u].objs : call[u].objs[i] \in Objects
      BY <2>1 DEF ACall
    <3> QED BY <2>1, <2>3, <3>1 DEF Holds, Same, At
  <2> QED BY <2>1, <2>2, <2>3 DEF Holds, Same, At
<1>3. NoLostWakeup'
  <2> SUFFICES ASSUME NEW u \in Threads, Missed(u)' PROVE FALSE
    BY DEF NoLostWakeup, Missed
  <2>1. u # t /\ Same(u)
    BY DEF Step
  <2>2. At(u, "asleep") /\ ~call[u].notified /\ Target(u)' = Target(u)
    BY <2>1 DEF Missed, Same, At, Target
  <2>3. Target(u) \in Objects
    BY <2>2, RequestsAre DEF IInv, Typed, Called, ACall, At, Target
  <2>4. ~Signaled(Target(u), objects[Target(u)], u)
    BY <2>2 DEF IInv, NoLostWakeup
  <2>5. Signaled(Target(u), objects'[Target(u)], u) /\ ~call'[u].notified
    BY <2>2 DEF Missed
  <2> QED BY <2>1, <2>2, <2>3, <2>4, <2>5 DEF Heard
<1>4. Isr \in Threads => Marked'
  BY DEF IInv, Marked, Step, Same, At
<1> QED BY <1>1, <1>2, <1>3, <1>4 DEF IInv

LEMMA KeptAcross ==
  ASSUME IInv, NEW t \in Threads, Step(t), UNCHANGED <<render, pending, owed>>,
         \A e \in Events : owed[e] = "kept" => Present(e)' /\ Undisturbed(t, e)'
  PROVE  Kept'
<1> SUFFICES ASSUME NEW e \in Events, owed[e] = "kept"
             PROVE  /\ e \in render /\ e \in pending /\ Present(e)'
                    /\ \A u \in Threads : Undisturbed(u, e)'
  BY DEF Kept
<1> QED BY OthersUndisturbed DEF IInv, Kept

LEMMA StillPresent ==
  ASSUME NEW t \in Threads, Step(t), ~At(t, "query"), NEW e, Present(e), objects'[e] = objects[e]
  PROVE  Present(e)'
  BY DEF Present, Step, Same, At

\* A step that touches nothing but the caller's call, its locks and the counters.
LEMMA CallsAndLocks ==
  ASSUME IInv, NEW t \in Threads, NEW c, ACall(t, c), call' = [call EXCEPT ![t] = c],
         UNCHANGED <<objects, render, pending, owed>>, inbox' \in [Threads -> Nat],
         mutex' \in [Objects -> Threads \cup {Nobody}],
         \A o \in Objects : mutex[o] \in Threads \ {t} => mutex'[o] = mutex[o],
         Harmless(c), ~At(t, "query")
  PROVE  IInv'
<1>1. Step(t) /\ call'[t] = c
  BY Moved DEF IInv
<1>2. Called'
  BY <1>1 DEF Step
<1>3. Holds(t)' /\ ~Missed(t)' /\ (t = Isr => Marked') /\ \A e \in Events : Undisturbed(t, e)'
  BY <1>1, <1>2, HarmlessIsFine
<1>4. Stored'
  BY DEF IInv, Typed, Stored
<1>5. Kept'
  BY <1>1, <1>3, KeptAcross, StillPresent DEF IInv, Kept
<1>6. \A o \in Objects : Heard(t, o)
  BY DEF Heard
<1> QED BY <1>1, <1>3, <1>4, <1>5, <1>6, Frame

LEMMA OnlyCalls ==
  ASSUME IInv, NEW t \in Threads, NEW c, ACall(t, c), call' = [call EXCEPT ![t] = c],
         UNCHANGED <<objects, mutex, render, pending, owed>>, inbox' \in [Threads -> Nat],
         Harmless(c), ~At(t, "query")
  PROVE  IInv'
<1>1. mutex' \in [Objects -> Threads \cup {Nobody}]
  BY DEF IInv, Typed, Stored
<1> QED BY <1>1, CallsAndLocks

LEMMA UnlockedIs ==
  ASSUME Typed, NEW t \in Threads
  PROVE  /\ Unlocked(t) \in [Objects -> Threads \cup {Nobody}]
         /\ \A o \in Objects : mutex[o] \in Threads \ {t} => Unlocked(t)[o] = mutex[o]
  BY DEF Typed, Stored, Unlocked

-----------------------------------------------------------------------------
(* The steps of a wait.                                                    *)

LEMMA FreeIs ==
  ASSUME NEW t \in Threads
  PROVE  ACall(t, Free) /\ Harmless(Free)
  BY DEF ACall, Free, Places, Harmless

LEMMA WaitingIs ==
  ASSUME NEW t \in Threads, NEW r \in Requests[t], NEW l \in BOOLEAN
  PROVE  ACall(t, Waiting(r, l)) /\ Harmless(Waiting(r, l))
<1> DEFINE p == Place(r)
<1>1. p \in {"alert", "lock", "try"}
  BY DEF Place
<1>2. Waiting(r, l) = [Free EXCEPT !.pc = p, !.request = r, !.late = l]
  BY DEF Waiting
<1> HIDE DEF p
<1> DEFINE c == [Free EXCEPT !.pc = p, !.request = r, !.late = l]
<1>f. c.pc = p /\ c.request = r /\ c.i = 1
  BY DEF Free
<1>3. ACall(t, c)
  <2>1. c \in [pc : Places, request : Requests[t] \cup {Nobody}, objs : Seq(Objects),
               i : Nat, notified : BOOLEAN, late : BOOLEAN]
    <3>1. Free \in [pc : Places, request : Requests[t] \cup {Nobody}, objs : Seq(Objects),
                    i : Nat, notified : BOOLEAN, late : BOOLEAN]
      BY DEF Free, Places
    <3>2. p \in Places
      BY <1>1 DEF Places
    <3> QED BY <3>1, <3>2, Zenon
  <2> QED BY <1>1, <1>f, <2>1 DEF ACall
<1>4. Harmless(c)
  BY <1>1, <1>f DEF Harmless
<1> QED BY <1>2, <1>3, <1>4

LEMMA BeginWaitKeeps ==
  ASSUME IInv, NEW t \in Threads, BeginWait(t)
  PROVE  IInv'
<1>1. PICK r \in Requests[t] : call' = [call EXCEPT ![t] = Waiting(r, FALSE)]
  BY DEF BeginWait
<1>2. inbox' \in [Threads -> Nat] /\ ~At(t, "query")
  BY DEF BeginWait, IInv, Typed, Stored, At
<1> QED BY <1>1, <1>2, WaitingIs, OnlyCalls DEF BeginWait

LEMMA AlertKeeps ==
  ASSUME IInv, NEW t \in Threads, Alert(t)
  PROVE  IInv'
<1>1. inbox' \in [Threads -> Nat] /\ ~At(t, "query")
  BY DEF Alert, IInv, Typed, Stored, At
<1>2. CASE Return(t)
  BY <1>1, <1>2, FreeIs, OnlyCalls DEF Alert, Return
<1>3. CASE ~Return(t)
  <2> DEFINE c == [call[t] EXCEPT !.pc = IF Alone(call[t].request) THEN "lock" ELSE "try"]
  <2>1. call' = [call EXCEPT ![t] = c]
    BY <1>3 DEF Alert
  <2>2. ACall(t, c) /\ call[t].i = 1
    BY DEF Alert, IInv, Typed, Called, ACall, Places, At
  <2>3. Harmless(c)
    BY <2>2 DEF Harmless, IInv, Typed, Called, ACall
  <2> QED BY <1>1, <2>1, <2>2, <2>3, OnlyCalls DEF Alert
<1> QED BY <1>2, <1>3

LEMMA BecomeLateKeeps ==
  ASSUME IInv, NEW t \in Threads, BecomeLate(t)
  PROVE  IInv'
<1> DEFINE c == [call[t] EXCEPT !.late = TRUE]
<1>1. ACall(t, c) /\ call' = [call EXCEPT ![t] = c]
  BY DEF BecomeLate, IInv, Typed, Called, ACall
<1>2. Step(t) /\ call'[t] = c
  BY <1>1, Moved DEF IInv
<1>3. Same(t) /\ call[t].notified = call'[t].notified
  BY <1>2 DEF Same, IInv, Typed, Called, ACall
<1>4. Stored' /\ \A o \in Objects : Heard(t, o)
  BY DEF BecomeLate, IInv, Typed, Stored, Heard
<1>5. Holds(t)' /\ ~Missed(t)' /\ (t = Isr => Marked')
  BY <1>3 DEF BecomeLate, IInv, Locked, NoLostWakeup, Missed, Marked, Holds, At, Target, Same
<1>6. ASSUME NEW e \in Events, owed[e] = "kept"
      PROVE  Present(e)' /\ Undisturbed(t, e)'
  <2>1. \A u \in Threads : Same(u)
    BY <1>2, <1>3 DEF Step
  <2>2. Present(e) /\ Undisturbed(t, e)
    BY <1>6 DEF IInv, Kept
  <2> QED BY <2>1, <2>2 DEF BecomeLate, Present, Undisturbed, Same, At
<1>7. Kept'
  BY <1>2, <1>6, KeptAcross DEF BecomeLate
<1> QED BY <1>2, <1>4, <1>5, <1>7, Frame DEF BecomeLate

LEMMA TakingIs ==
  ASSUME NEW t \in Threads, NEW w \in Seq(Objects), w # <<>>
  PROVE  /\ ACall(t, Taking(w)) /\ Taking(w).pc = "take" /\ Taking(w).objs = w /\ Taking(w).i = 1
         /\ 1 \in DOMAIN w
<1>1. Taking(w).pc = "take" /\ Taking(w).objs = w /\ Taking(w).i = 1 /\ Taking(w).request = Nobody
  BY DEF Taking, Free
<1>2. Taking(w) \in [pc : Places, request : Requests[t] \cup {Nobody}, objs : Seq(Objects),
                     i : Nat, notified : BOOLEAN, late : BOOLEAN]
  BY DEF Taking, Free, Places
<1> QED BY <1>1, <1>2 DEF ACall

\* To begin taking what one has locked keeps the invariant.
LEMMA TakingKeeps ==
  ASSUME IInv, NEW t \in Threads, ~At(t, "query"), NEW w \in Seq(Objects), w # <<>>,
         call' = [call EXCEPT ![t] = Taking(w)],
         UNCHANGED <<objects, render, pending, inbox, owed>>,
         mutex' \in [Objects -> Threads \cup {Nobody}],
         \A o \in Objects : mutex[o] \in Threads \ {t} => mutex'[o] = mutex[o],
         \A j \in DOMAIN w : mutex'[w[j]] = t
  PROVE  IInv'
<1>1. Step(t) /\ call'[t] = Taking(w)
  BY TakingIs, Moved DEF IInv
<1>2. Holds(t)' /\ ~Missed(t)' /\ (t = Isr => Marked') /\ \A e \in Events : Undisturbed(t, e)'
  <2>1. call'[t].pc = "take" /\ call'[t].objs = w /\ call'[t].i = 1 /\ 1 \in DOMAIN w
    BY <1>1, TakingIs
  <2>2. ~\E j \in DOMAIN w : j < 1
    OBVIOUS
  <2> QED BY <2>1, <2>2 DEF Holds, Missed, Marked, Undisturbed, At
<1>3. Stored' /\ \A o \in Objects : Heard(t, o)
  BY DEF IInv, Typed, Stored, Heard
<1>4. Kept'
  BY <1>1, <1>2, KeptAcross, StillPresent DEF IInv, Kept
<1> QED BY <1>1, <1>2, <1>3, <1>4, Frame

LEMMA LookKeeps ==
  ASSUME IInv, NEW t \in Threads, ~At(t, "query"), NEW o \in Objects, NEW c, ACall(t, c),
         Look(t, o, c), Harmless(c) \/ (c.pc = "asleep" /\ Head(c.request.handles) = o)
  PROVE  IInv'
<1>0. mutex \in [Objects -> Threads \cup {Nobody}] /\ mutex[o] = Nobody /\ Nobody \notin Threads
  BY WaitAssumption DEF IInv, Typed, Stored, Look, Open
<1>1. CASE Signaled(o, objects[o], t)
  <2> DEFINE w == <<o>>
  <2>1. /\ mutex' = [mutex EXCEPT ![o] = t]
        /\ call' = [call EXCEPT ![t] = Taking(w)]
        /\ UNCHANGED <<objects, render, pending, inbox, owed>>
    BY <1>1 DEF Look
  <2>2. /\ mutex' \in [Objects -> Threads \cup {Nobody}]
        /\ \A x \in Objects : mutex[x] \in Threads \ {t} => mutex'[x] = mutex[x]
        /\ mutex'[o] = t
    BY <1>0, <2>1
  <2>3. w \in Seq(Objects) /\ w # <<>> /\ \A j \in DOMAIN w : w[j] = o
    OBVIOUS
  <2>4. \A j \in DOMAIN w : mutex'[w[j]] = t
    BY <2>2, <2>3
  <2> HIDE DEF w
  <2> QED BY <2>1, <2>2, <2>3, <2>4, TakingKeeps
<1>2. CASE ~Signaled(o, objects[o], t)
  <2>1. call' = [call EXCEPT ![t] = c] /\ UNCHANGED <<objects, mutex, render, pending, inbox, owed>>
    BY <1>2 DEF Look
  <2>2. inbox' \in [Threads -> Nat]
    BY <2>1 DEF IInv, Typed, Stored
  <2>3. CASE Harmless(c)
    BY <2>1, <2>2, <2>3, OnlyCalls
  <2>4. CASE c.pc = "asleep" /\ Head(c.request.handles) = o
    <3>1. Step(t) /\ call'[t] = c
      BY <2>1, Moved DEF IInv
    <3>2. ~Missed(t)'
      BY <1>2, <2>1, <2>4, <3>1 DEF Missed, Target
    <3>3. Holds(t)' /\ (t = Isr => Marked') /\ \A e \in Events : Undisturbed(t, e)'
      BY <2>4, <3>1 DEF Holds, Marked, Undisturbed, At
    <3>4. Stored' /\ \A x \in Objects : Heard(t, x)
      BY <2>1 DEF IInv, Typed, Stored, Heard
    <3>5. Kept'
      BY <2>1, <3>1, <3>3, KeptAcross, StillPresent DEF IInv, Kept
    <3> QED BY <2>1, <3>1, <3>2, <3>3, <3>4, <3>5, Frame
  <2> QED BY <2>3, <2>4
<1> QED BY <1>1, <1>2

LEMMA TargetIs ==
  ASSUME Typed, NEW t \in Threads, call[t].pc \in {"lock", "asleep"}
  PROVE  /\ Target(t) \in Objects
         /\ ACall(t, Asleep(t)) /\ Asleep(t).pc = "asleep" /\ Asleep(t).request = call[t].request
<1>1. ACall(t, call[t])
  BY DEF Typed, Called
<1>2. Target(t) \in Objects
  BY <1>1, RequestsAre DEF ACall, Target
<1>3. Asleep(t).pc = "asleep" /\ Asleep(t).request = call[t].request /\ Asleep(t).i = call[t].i
  BY <1>1 DEF Asleep, ACall
<1>4. Asleep(t) \in [pc : Places, request : Requests[t] \cup {Nobody}, objs : Seq(Objects),
                     i : Nat, notified : BOOLEAN, late : BOOLEAN]
  BY <1>1 DEF Asleep, ACall, Places
<1> QED BY <1>1, <1>2, <1>3, <1>4 DEF ACall

LEMMA LockKeeps ==
  ASSUME IInv, NEW t \in Threads, Lock(t) \/ Wake(t)
  PROVE  IInv'
<1>1. call[t].pc \in {"lock", "asleep"} /\ Look(t, Target(t), Asleep(t))
  BY DEF Lock, Wake, At
<1>2. ~At(t, "query") /\ Typed
  BY <1>1 DEF At, IInv
<1>3. Head(Asleep(t).request.handles) = Target(t)
  BY <1>1, <1>2, TargetIs DEF Target
<1> QED BY <1>1, <1>2, <1>3, TargetIs, LookKeeps

LEMMA TimeOutKeeps ==
  ASSUME IInv, NEW t \in Threads, TimeOut(t)
  PROVE  IInv'
<1> DEFINE again == [call[t] EXCEPT !.pc = "alert", !.notified = FALSE]
<1>1. call[t].pc = "asleep" /\ ~At(t, "query") /\ Typed /\ ACall(t, call[t])
  BY DEF TimeOut, At, IInv, Typed, Called
<1>2. ACall(t, again) /\ Harmless(again)
  BY <1>1 DEF ACall, Places, Harmless
<1>3. Target(t) \in Objects
  BY <1>1, TargetIs
<1>4. CASE Late(t)
  BY <1>1, <1>3, <1>4, FreeIs, LookKeeps DEF TimeOut
<1>5. CASE ~Late(t)
  BY <1>1, <1>2, <1>3, <1>5, LookKeeps DEF TimeOut
<1> QED BY <1>4, <1>5

LEMMA TryLockKeeps ==
  ASSUME IInv, NEW t \in Threads, TryLock(t)
  PROVE  IInv'
<1> DEFINE hs == call[t].request.handles
           i == call[t].i
<1>1. /\ call[t].pc = "try" /\ i <= Len(hs) /\ ~At(t, "query") /\ Typed /\ ACall(t, call[t])
      /\ Holds(t) /\ Nobody \notin Threads
  BY WaitAssumption DEF TryLock, At, IInv, Typed, Called, Locked
<1>2. hs \in Seq(Objects) /\ i \in Nat
  BY <1>1, RequestsAre DEF ACall
<1>3. inbox' \in [Threads -> Nat] /\ UNCHANGED <<objects, render, pending, owed, inbox>>
  BY <1>1 DEF TryLock, Typed, Stored
<1>4. CASE ~Open(hs[i])
  <2> DEFINE c == [call[t] EXCEPT !.i = 1]
  <2>1. mutex' = Unlocked(t) /\ call' = [call EXCEPT ![t] = c]
    BY <1>4 DEF TryLock
  <2>2. ACall(t, c) /\ Harmless(c)
    BY <1>1 DEF ACall, Harmless
  <2> HIDE DEF c
  <2> QED BY <1>1, <1>3, <2>1, <2>2, UnlockedIs, CallsAndLocks
<1>5. CASE Open(hs[i])
  <2> DEFINE c == [call[t] EXCEPT !.i = i + 1]
  <2>1. mutex' = [mutex EXCEPT ![hs[i]] = t] /\ call' = [call EXCEPT ![t] = c]
    BY <1>5 DEF TryLock
  <2>2. ACall(t, c) /\ c.pc = "try" /\ c.i = i + 1 /\ c.request.handles = hs
    BY <1>1, <1>2 DEF ACall
  <2>3. Step(t) /\ call'[t] = c
    BY <1>1, <2>1, <2>2, Moved
  <2>4. /\ mutex' \in [Objects -> Threads \cup {Nobody}]
        /\ \A o \in Objects : mutex[o] \in Threads \ {t} => mutex'[o] = mutex[o]
    BY <1>1, <1>5, <2>1 DEF Typed, Stored, Open
  <2>5. Holds(t)'
    <3> SUFFICES ASSUME NEW j \in DOMAIN hs, j < i + 1 PROVE mutex'[hs[j]] = t
      BY <2>2, <2>3 DEF Holds, At
    <3>1. hs[j] \in Objects /\ j \in Nat
      BY <1>2
    <3>2. mutex \in [Objects -> Threads \cup {Nobody}]
      BY <1>1 DEF Typed, Stored
    <3>3. CASE j = i
      BY <2>1, <3>1, <3>2, <3>3
    <3>4. CASE j < i
      BY <1>1, <2>1, <3>1, <3>2, <3>4 DEF Holds, At
    <3> QED BY <1>2, <3>1, <3>3, <3>4
  <2>6. ~Missed(t)' /\ (t = Isr => Marked') /\ \A e \in Events : Undisturbed(t, e)'
    BY <2>2, <2>3 DEF Missed, Marked, Undisturbed, At
  <2>7. Stored' /\ \A o \in Objects : Heard(t, o)
    BY <1>1, <1>3, <2>4 DEF Typed, Stored, Heard
  <2>8. Kept'
    BY <1>1, <1>3, <2>3, <2>6, KeptAcross, StillPresent DEF IInv, Kept
  <2> QED BY <1>3, <2>3, <2>4, <2>5, <2>6, <2>7, <2>8, Frame
<1> QED BY <1>4, <1>5

LEMMA ScanKeeps ==
  ASSUME IInv, NEW t \in Threads, Scan(t)
  PROVE  IInv'
<1> DEFINE r == call[t].request
<1>1. /\ call[t].pc = "try" /\ call[t].i = Len(r.handles) + 1 /\ ~At(t, "query") /\ Typed
      /\ ACall(t, call[t]) /\ Holds(t)
  BY DEF Scan, MayScan, At, IInv, Typed, Called, Locked
<1>2. r \in Requests[t] /\ r.handles \in Seq(Objects)
  BY <1>1, RequestsAre DEF ACall
<1>3. /\ inbox' \in [Threads -> Nat] /\ UNCHANGED <<objects, render, pending, owed, inbox>>
      /\ mutex \in [Objects -> Threads \cup {Nobody}]
  BY <1>1 DEF Scan, Typed, Stored
<1>4. CASE Grants(r, objects, t) # {}
  <2>1. PICK w \in Grants(r, objects, t) : call' = [call EXCEPT ![t] = Taking(w)] /\ mutex' = mutex
    BY <1>4 DEF Scan
  <2>2. /\ w \in Seq(Objects) /\ w # <<>>
        /\ \A j \in DOMAIN w : \E k \in DOMAIN r.handles : w[j] = r.handles[k]
    BY <1>2, GrantsAre
  <2>3. \A k \in DOMAIN r.handles : mutex[r.handles[k]] = t
    BY <1>1, <1>2 DEF Holds, At
  <2>4. \A j \in DOMAIN w : mutex'[w[j]] = t
    BY <2>1, <2>2, <2>3
  <2> QED BY <1>1, <1>3, <2>1, <2>2, <2>4, TakingKeeps
<1>5. CASE Grants(r, objects, t) = {}
  <2>1. mutex' = Unlocked(t)
    BY <1>5 DEF Scan
  <2> DEFINE again == [call[t] EXCEPT !.i = 1]
             anew == Waiting(r, call[t].late)
  <2>2. ACall(t, again) /\ Harmless(again)
    BY <1>1 DEF ACall, Harmless
  <2>3. ACall(t, anew) /\ Harmless(anew)
    <3>1. call[t].late \in BOOLEAN
      BY <1>1 DEF ACall
    <3> QED BY <1>2, <3>1, WaitingIs
  <2>4. \/ call' = [call EXCEPT ![t] = again]
        \/ call' = [call EXCEPT ![t] = Free]
        \/ call' = [call EXCEPT ![t] = anew]
    BY <1>5 DEF Scan, Return
  <2> HIDE DEF again, anew
  <2> QED BY <1>1, <1>3, <2>1, <2>2, <2>3, <2>4, FreeIs, UnlockedIs, CallsAndLocks
<1> QED BY <1>4, <1>5

LEMMA TakeKeeps ==
  ASSUME IInv, NEW t \in Threads, Take(t)
  PROVE  IInv'
<1> DEFINE os == call[t].objs
           i == call[t].i
           o == os[i]
           last == i = Len(os)
           c == IF last THEN [call[t] EXCEPT !.pc = "taken", !.i = 1]
                        ELSE [call[t] EXCEPT !.i = @ + 1]
<1>1. /\ call[t].pc = "take" /\ ~At(t, "query") /\ Typed /\ ACall(t, call[t])
      /\ Nobody \notin Threads
      /\ i \in DOMAIN os /\ \A j \in DOMAIN os : mutex[os[j]] = t
  BY WaitAssumption DEF Take, At, IInv, Typed, Called, Locked, Holds
<1>2. os \in Seq(Objects) /\ o \in Objects /\ i \in 1 .. Len(os)
  BY <1>1 DEF ACall
<1>3. /\ objects' = [objects EXCEPT ![o] = Acquired(o, @, t)]
      /\ mutex' = IF last THEN Unlocked(t) ELSE mutex
      /\ owed' = IF o \in Events THEN [owed EXCEPT ![o] = "no"] ELSE owed
      /\ UNCHANGED <<render, pending, inbox>>
  BY DEF Take
<1>4. ACall(t, c) /\ c.pc \in {"take", "taken"} /\ c.objs = os
      /\ (last => c.pc = "taken") /\ (~last => c.pc = "take" /\ c.i = i + 1)
  <2>1. CASE last
    BY <1>1, <1>2, <2>1 DEF ACall, Places
  <2>2. CASE ~last
    BY <1>1, <1>2, <2>2 DEF ACall, Places
  <2> QED BY <2>1, <2>2
<1>5. /\ Step(t) /\ call'[t] = c
      /\ o \in Semaphores =>
           \A u \in Threads \ {t} : At(u, "asleep") /\ Target(u) = o => call'[u].notified
  <2>1. CASE o \in Semaphores
    <3>2. call' = [NotifyAll(o) EXCEPT ![t] = c]
      BY <2>1, Zenon DEF Take
    <3> HIDE DEF c
    <3> QED BY <1>1, <1>4, <3>2, MovedAndWoke
  <2>2. CASE o \notin Semaphores
    <3>1. call' = [call EXCEPT ![t] = c]
      BY <2>2, Zenon DEF Take
    <3> HIDE DEF c
    <3> QED BY <1>1, <1>4, <2>2, <3>1, Moved
  <2> QED BY <2>1, <2>2
<1>6. AnObject(o, objects[o]) /\ AnObject(o, Acquired(o, objects[o], t))
  BY <1>1, <1>2, AcquiredIs DEF Typed, Stored
<1>7. objects'[o] = Acquired(o, objects[o], t)
      /\ \A x \in Objects \ {o} : objects'[x] = objects[x]
  BY <1>1, <1>2, <1>3 DEF Typed, Stored
<1>8. /\ mutex' \in [Objects -> Threads \cup {Nobody}]
      /\ \A x \in Objects : mutex[x] \in Threads \ {t} => mutex'[x] = mutex[x]
  BY <1>1, <1>3, UnlockedIs DEF Typed, Stored
<1>9. Stored'
  BY <1>1, <1>2, <1>3, <1>6, <1>7, <1>8 DEF Typed, Stored
<1>10. \A x \in Objects : Heard(t, x)
  <2> SUFFICES Heard(t, o)
    BY <1>7 DEF Heard
  <2>1. CASE o \in ManualReset
    <3>1. objects'[o] = objects[o]
      BY <1>7, <2>1, WaitAssumption DEF Acquired, Events
    <3> QED BY <3>1 DEF Heard
  <2>2. CASE o \in AutoReset
    <3>1. objects'[o] = [objects[o] EXCEPT !.state = 0] /\ o \notin Mutants
      BY <1>7, <2>2, WaitAssumption DEF Acquired, Events
    <3>2. objects'[o].state = 0
      BY <1>6, <3>1 DEF AnObject
    <3> QED BY <3>1, <3>2 DEF Heard, Signaled
  <2>3. CASE o \in Semaphores
    BY <1>5, <2>3 DEF Heard
  <2>4. CASE o \in Mutants
    <3>1. objects'[o] = [state |-> objects[o].state + 1, owner |-> t]
      BY <1>7, <2>4, WaitAssumption DEF Acquired, Events
    <3>2. objects[o].state >= 0 /\ objects[o].state \in Int
      BY <1>6, <2>4 DEF AnObject
    <3> QED BY <2>4, <3>1, <3>2 DEF Heard, Signaled
  <2> QED BY <1>2, <2>1, <2>2, <2>3, <2>4 DEF Objects, Events
<1>11. Holds(t)' /\ ~Missed(t)' /\ (t = Isr => Marked')
  <2>1. call'[t].pc \in {"take", "taken"}
    BY <1>4, <1>5
  <2>2. ~Missed(t)' /\ (t = Isr => Marked')
    BY <2>1 DEF Missed, Marked, At
  <2>3. CASE last
    <3>1. call'[t].pc = "taken"
      BY <1>4, <1>5, <2>3
    <3> QED BY <2>2, <3>1 DEF Holds, At
  <2>4. CASE ~last
    <3>1. call'[t].objs = os /\ call'[t].i = i + 1 /\ mutex' = mutex /\ call'[t].pc = "take"
      BY <1>3, <1>4, <1>5, <2>4
    <3>2. i + 1 \in DOMAIN os
      BY <1>2, <2>4
    <3>3. \A j \in DOMAIN os : mutex'[os[j]] = t
      BY <1>1, <3>1
    <3> QED BY <2>2, <3>1, <3>2, <3>3 DEF Holds, At
  <2> QED BY <2>3, <2>4
<1>12. Kept'
  <2> SUFFICES ASSUME NEW e \in Events, owed'[e] = "kept"
               PROVE  /\ e \in render /\ e \in pending /\ Present(e)'
                      /\ \A u \in Threads : Undisturbed(u, e)'
    BY <1>3 DEF Kept
  <2>1. owed[e] = "kept" /\ e # o
    BY <1>1, <1>3 DEF Typed, Stored
  <2>2. e \in render /\ e \in pending /\ Present(e) /\ Undisturbed(t, e)
    BY <2>1 DEF IInv, Kept
  <2>3. Present(e)'
    BY <1>1, <1>5, <1>7, <2>1, <2>2, StillPresent DEF Objects
  <2>4. Undisturbed(t, e)'
    <3>1. \A j \in DOMAIN os : j < i + 1 => os[j] # e
      BY <1>1, <1>2, <2>1, <2>2 DEF Undisturbed, At
    <3>2. CASE last
      BY <1>2, <1>4, <1>5, <3>1, <3>2 DEF Undisturbed, At, ToSet
    <3>3. CASE ~last
      BY <1>4, <1>5, <3>1, <3>3 DEF Undisturbed, At
    <3> QED BY <3>2, <3>3
  <2> QED BY <1>5, <2>1, <2>2, <2>3, <2>4, OthersUndisturbed
<1> QED BY <1>3, <1>5, <1>8, <1>9, <1>10, <1>11, <1>12, Frame

LEMMA DeliverKeeps ==
  ASSUME IInv, NEW t \in Threads, Deliver(t)
  PROVE  IInv'
<1>1. /\ call[t].pc = "taken" /\ ~At(t, "query") /\ Typed
      /\ call' = [call EXCEPT ![t] = Free] /\ pending' = pending \ ToSet(call[t].objs)
      /\ UNCHANGED <<objects, mutex, render, inbox, owed>>
  BY DEF Deliver, Return, At, IInv
<1>2. Step(t) /\ call'[t] = Free
  BY <1>1, FreeIs, Moved
<1>3. Holds(t)' /\ ~Missed(t)' /\ (t = Isr => Marked') /\ \A e \in Events : Undisturbed(t, e)'
  BY <1>2, FreeIs, HarmlessIsFine DEF Step
<1>4. Stored' /\ \A o \in Objects : Heard(t, o)
  BY <1>1 DEF Typed, Stored, Heard
<1>5. Kept'
  <2> SUFFICES ASSUME NEW e \in Events, owed[e] = "kept"
               PROVE  /\ e \in render /\ e \in pending' /\ Present(e)'
                      /\ \A u \in Threads : Undisturbed(u, e)'
    BY <1>1 DEF Kept
  <2>1. e \in render /\ e \in pending /\ Present(e) /\ Undisturbed(t, e)
    BY DEF IInv, Kept
  <2>2. e \in pending'
    BY <1>1, <2>1 DEF Undisturbed
  <2> QED BY <1>1, <1>2, <1>3, <2>1, <2>2, StillPresent, OthersUndisturbed
<1> QED BY <1>1, <1>2, <1>3, <1>4, <1>5, Frame

-----------------------------------------------------------------------------
(* The guest's calls.                                                      *)

LEMMA EventIs ==
  ASSUME NEW e \in Events, NEW x, NEW t, NEW n
  PROVE  /\ MaySignal(e, x, t, 1) /\ SignaledBy(e, x, n) = [x EXCEPT !.state = 1]
         /\ e \in Objects /\ e \notin Mutants /\ e \notin Semaphores
  BY WaitAssumption DEF MaySignal, SignaledBy, Objects

LEMMA StartIs ==
  ASSUME Typed, NEW t \in Threads, NEW e \in Events, NEW p \in {"set", "reset", "pulse", "query"}
  PROVE  LET c == [Free EXCEPT !.pc = p, !.objs = <<e>>]
         IN ACall(t, c) /\ c.pc = p /\ c.objs = <<e>>
<1> DEFINE c == [Free EXCEPT !.pc = p, !.objs = <<e>>]
<1>1. c.pc = p /\ c.objs = <<e>>
  BY DEF Free
<1>2. <<e>> \in Seq(Objects)
  BY DEF Objects
<1>3. c \in [pc : Places, request : Requests[t] \cup {Nobody}, objs : Seq(Objects),
             i : Nat, notified : BOOLEAN, late : BOOLEAN]
  BY <1>2 DEF Free, Places
<1> QED BY <1>1, <1>3 DEF ACall

\* To signal an object and notify those who wait for it keeps the invariant.
LEMMA SignalsKeep ==
  ASSUME IInv, NEW t \in Threads, NEW o \in Objects, NEW n \in 1 .. MaximumCount,
         MaySignal(o, objects[o], t, n), objects' = [objects EXCEPT ![o] = SignaledBy(o, @, n)],
         NEW c, ACall(t, c), Harmless(c), call' = [AfterSignal(o, n) EXCEPT ![t] = c],
         At(t, "query") => call[t].objs = <<o>>,
         UNCHANGED <<mutex, render, pending, inbox>>, owed' = [e \in Events |-> owed'[e]],
         \A e \in Events : owed'[e] = "kept" =>
           /\ e \in render /\ e \in pending /\ (e = o \/ Present(e))
           /\ \A u \in Threads : Undisturbed(u, e)
  PROVE  IInv'
<1> Typed
  BY DEF IInv
<1>1. /\ Step(t) /\ call'[t] = c
      /\ Notifies(o, n) =>
           \A u \in Threads \ {t} : At(u, "asleep") /\ Target(u) = o => call'[u].notified
  BY Moved, MovedAndWoke DEF AfterSignal
<1>2. Holds(t)' /\ ~Missed(t)' /\ (t = Isr => Marked') /\ \A e \in Events : Undisturbed(t, e)'
  BY <1>1, HarmlessIsFine DEF Step
<1>3. AnObject(o, objects[o]) /\ AnObject(o, SignaledBy(o, objects[o], n))
  BY SignaledByIs DEF Typed, Stored
<1>4. objects'[o] = SignaledBy(o, objects[o], n) /\ \A x \in Objects \ {o} : objects'[x] = objects[x]
  BY DEF Typed, Stored
<1>5. Stored'
  BY <1>3, <1>4 DEF Typed, Stored
<1>6. \A x \in Objects : Heard(t, x)
  <2> SUFFICES Heard(t, o)
    BY <1>4 DEF Heard
  <2>1. CASE Notifies(o, n)
    BY <1>1, <2>1 DEF Heard
  <2>2. CASE ~Notifies(o, n)
    <3>1. o \in Mutants /\ objects[o].state # n /\ o \notin Events /\ o \notin Semaphores
      BY <2>2, WaitAssumption DEF Notifies
    <3>2. n = 1 /\ objects[o].owner = t /\ objects[o].state > 0 /\ objects[o].state \in Int
      BY <1>3, <3>1 DEF MaySignal, AnObject
    <3>3. objects'[o] = [state |-> objects[o].state - 1,
                         owner |-> IF objects[o].state = 1 THEN Nobody ELSE objects[o].owner]
      BY <1>4, <3>1 DEF SignaledBy
    <3>4. objects'[o].state # 0 /\ objects'[o].owner = t
      BY <3>1, <3>2, <3>3
    <3> QED BY <3>1, <3>4 DEF Heard, Signaled
  <2> QED BY <2>1, <2>2
<1>7. Kept'
  <2> SUFFICES ASSUME NEW e \in Events, owed'[e] = "kept"
               PROVE  /\ e \in render' /\ e \in pending' /\ Present(e)'
                      /\ \A u \in Threads : Undisturbed(u, e)'
    BY DEF Kept
  <2>1. e \in render /\ e \in pending /\ (e = o \/ Present(e)) /\ \A u \in Threads : Undisturbed(u, e)
    OBVIOUS
  <2>2. Present(e)'
    <3>1. CASE e = o
      <4>1. objects'[e] = [objects[e] EXCEPT !.state = 1]
        <5>1. SignaledBy(e, objects[e], n) = [objects[e] EXCEPT !.state = 1]
          BY EventIs, Zenon
        <5> QED BY <1>4, <3>1, <5>1
      <4>2. objects'[e].state = 1
        BY <1>3, <3>1, <4>1 DEF AnObject
      <4> QED BY <4>2 DEF Present
    <3>2. CASE e # o
      <4>1. objects'[e] = objects[e]
        BY <1>4, <3>2, EventIs
      <4>2. CASE objects[e].state = 1
        BY <4>1, <4>2 DEF Present
      <4>3. CASE objects[e].state # 1
        <5>1. PICK u \in Threads : At(u, "query") /\ call[u].objs = <<e>>
          BY <2>1, <3>2, <4>3 DEF Present
        <5>2. u # t
          BY <3>2, <5>1
        <5> QED BY <1>1, <5>1, <5>2 DEF Present, Step, Same, At
      <4> QED BY <4>2, <4>3
    <3> QED BY <3>1, <3>2
  <2>3. ASSUME NEW u \in Threads \ {t} PROVE Undisturbed(u, e)'
    BY <1>1, <2>1 DEF Step, Same, Undisturbed, At
  <2> QED BY <1>2, <2>1, <2>2, <2>3
<1> QED BY <1>1, <1>2, <1>5, <1>6, <1>7, Frame

LEMMA SignalAndWaitKeeps ==
  ASSUME IInv, NEW t \in Threads, SignalAndWait(t)
  PROVE  IInv'
<1>1. PICK o \in Objects, r \in Requests[t] :
        /\ MaySignal(o, objects[o], t, 1)
        /\ objects' = [objects EXCEPT ![o] = SignaledBy(o, @, 1)]
        /\ call' = [AfterSignal(o, 1) EXCEPT ![t] = Waiting(r, FALSE)]
  BY DEF SignalAndWait
<1>2. ~At(t, "query") /\ 1 \in 1 .. MaximumCount
  BY WaitAssumption DEF SignalAndWait, At
<1>3. UNCHANGED <<mutex, render, pending, inbox, owed>>
  BY DEF SignalAndWait
<1>4. owed' = [e \in Events |-> owed'[e]]
  BY <1>3 DEF IInv, Typed, Stored
<1>5. \A e \in Events : owed'[e] = "kept" =>
        /\ e \in render /\ e \in pending /\ Present(e)
        /\ \A u \in Threads : Undisturbed(u, e)
  BY <1>3 DEF IInv, Kept
<1> QED BY <1>1, <1>2, <1>3, <1>4, <1>5, WaitingIs, SignalsKeep

LEMMA ReleaseKeeps ==
  ASSUME IInv, NEW t \in Threads, Release(t)
  PROVE  IInv'
<1>1. PICK o \in Semaphores \cup Mutants, n \in 1 .. MaximumCount :
        /\ MaySignal(o, objects[o], t, n)
        /\ objects' = [objects EXCEPT ![o] = SignaledBy(o, @, n)]
        /\ call' = AfterSignal(o, n)
  BY DEF Release
<1>2. call[t].pc = "idle" /\ ~At(t, "query") /\ o \in Objects /\ Typed
  BY DEF Release, At, Objects, IInv
<1>3. UNCHANGED <<mutex, render, pending, inbox, owed>>
  BY DEF Release
<1>4. owed' = [e \in Events |-> owed'[e]]
  BY <1>3 DEF IInv, Typed, Stored
<1>5. \A e \in Events : owed'[e] = "kept" =>
        /\ e \in render /\ e \in pending /\ Present(e)
        /\ \A u \in Threads : Undisturbed(u, e)
  BY <1>3 DEF IInv, Kept
<1>6. ACall(t, call[t]) /\ Harmless(call[t])
  BY <1>2 DEF Typed, Called, Harmless
<1>7. AfterSignal(o, n)[t] = call[t] /\ AfterSignal(o, n) = [u \in Threads |-> AfterSignal(o, n)[u]]
  BY <1>2, NotifyAllIs DEF AfterSignal, At, Typed, Called
<1>8. call' = [AfterSignal(o, n) EXCEPT ![t] = call[t]]
  BY <1>1, <1>7
<1> QED BY <1>1, <1>2, <1>3, <1>4, <1>5, <1>6, <1>8, SignalsKeep

LEMMA PulseKeeps ==
  ASSUME IInv, NEW t \in Threads, Pulse(t)
  PROVE  IInv'
<1>1. PICK e \in Events :
        /\ objects' = [objects EXCEPT ![e].state = 1]
        /\ call' = [NotifyAll(e) EXCEPT ![t] = [Free EXCEPT !.pc = "pulse", !.objs = <<e>>]]
  BY DEF Pulse
<1> DEFINE c == [Free EXCEPT !.pc = "pulse", !.objs = <<e>>]
<1>2. ~At(t, "query") /\ 1 \in 1 .. MaximumCount /\ Typed
  BY WaitAssumption DEF Pulse, At, IInv
<1>3. UNCHANGED <<mutex, render, pending, inbox, owed>>
  BY DEF Pulse
<1>4. owed' = [x \in Events |-> owed'[x]]
  BY <1>3 DEF IInv, Typed, Stored
<1>5. \A x \in Events : owed'[x] = "kept" =>
        /\ x \in render /\ x \in pending /\ Present(x)
        /\ \A u \in Threads : Undisturbed(u, x)
  BY <1>3 DEF IInv, Kept
<1>6. ACall(t, c) /\ Harmless(c)
  BY <1>2, StartIs DEF Harmless
<1>7. /\ objects' = [objects EXCEPT ![e] = SignaledBy(e, @, 1)] /\ MaySignal(e, objects[e], t, 1)
      /\ e \in Objects /\ AfterSignal(e, 1) = NotifyAll(e)
  BY <1>1, EventIs DEF AfterSignal, Notifies
<1> HIDE DEF c
<1> QED BY <1>1, <1>2, <1>3, <1>4, <1>5, <1>6, <1>7, SignalsKeep DEF c

LEMMA SetEventKeeps ==
  ASSUME IInv, NEW t \in Threads, SetEvent(t)
  PROVE  IInv'
<1>1. PICK e \in Events :
        /\ call' = [call EXCEPT ![t] = [Free EXCEPT !.pc = "set", !.objs = <<e>>]]
        /\ render' = IF t = Isr THEN render \cup {e} ELSE render
        /\ pending' = IF HeldUntilTaken(e, t) THEN pending \cup {e} ELSE pending
  BY DEF SetEvent, Start
<1>2. ~At(t, "query") /\ Typed /\ UNCHANGED <<objects, mutex, inbox, owed>>
  BY DEF SetEvent, Start, At, IInv
<1> DEFINE c == [Free EXCEPT !.pc = "set", !.objs = <<e>>]
<1>3. ACall(t, c) /\ c.pc = "set" /\ c.objs = <<e>>
  BY <1>2, StartIs
<1> HIDE DEF c
<1>4. Step(t) /\ call'[t] = c
  BY <1>1, <1>2, <1>3, Moved DEF c
<1>5. Holds(t)' /\ ~Missed(t)' /\ \A x \in Events : Undisturbed(t, x)'
  BY <1>3, <1>4 DEF Holds, Missed, Undisturbed, At
<1>6. t = Isr => Marked'
  BY <1>1, <1>3, <1>4 DEF Marked
<1>7. Stored' /\ \A x \in Objects : Heard(t, x)
  BY <1>1, <1>2 DEF Typed, Stored, Heard
<1>8. Kept'
  <2> SUFFICES ASSUME NEW x \in Events, owed[x] = "kept"
               PROVE  /\ x \in render' /\ x \in pending' /\ Present(x)'
                      /\ \A u \in Threads : Undisturbed(u, x)'
    BY <1>2 DEF Kept
  <2>1. x \in render /\ x \in pending /\ Present(x)
    BY DEF IInv, Kept
  <2> QED BY <1>1, <1>2, <1>4, <1>5, <2>1, StillPresent, OthersUndisturbed
<1> QED BY <1>1, <1>2, <1>4, <1>5, <1>6, <1>7, <1>8, Frame

LEMMA SetHostKeeps ==
  ASSUME IInv, NEW t \in Threads, SetHost(t)
  PROVE  IInv'
<1> DEFINE e == Head(call[t].objs)
<1>1. /\ call[t].pc = "set" /\ ~At(t, "query") /\ Open(e) /\ Typed /\ ACall(t, call[t])
      /\ Nobody \notin Threads /\ 1 \in 1 .. MaximumCount
  BY WaitAssumption DEF SetHost, At, IInv, Typed, Called
<1>2. e \in Events
  BY <1>1 DEF ACall
<1>3. /\ objects' = [objects EXCEPT ![e] = SignaledBy(e, @, 1)] /\ MaySignal(e, objects[e], t, 1)
      /\ e \in Objects /\ call' = [AfterSignal(e, 1) EXCEPT ![t] = Free]
  BY <1>2, EventIs DEF SetHost, AfterSignal, Notifies
<1>4. /\ owed' = IF t = Isr THEN [owed EXCEPT ![e] = IF Overtaken(e) THEN "overtaken" ELSE "kept"]
                 ELSE owed
      /\ UNCHANGED <<mutex, render, pending, inbox>>
  BY DEF SetHost
<1>5. owed' = [x \in Events |-> owed'[x]]
  BY <1>1, <1>4 DEF Typed, Stored
<1>6. ASSUME NEW x \in Events, owed'[x] = "kept"
      PROVE  /\ x \in render /\ x \in pending /\ (x = e \/ Present(x))
             /\ \A u \in Threads : Undisturbed(u, x)
  <2>1. CASE owed[x] = "kept"
    BY <2>1 DEF IInv, Kept
  <2>2. CASE owed[x] # "kept"
    <3>1. t = Isr /\ x = e /\ ~Overtaken(e)
      BY <1>1, <1>2, <1>4, <1>6, <2>2 DEF Typed, Stored
    <3>2. e \in render
      BY <1>1, <3>1 DEF IInv, Marked, At
    <3>3. ASSUME NEW u \in Threads PROVE Undisturbed(u, e)
      <4>1. At(u, "take") => \A j \in DOMAIN call[u].objs : mutex[call[u].objs[j]] = u
        BY DEF IInv, Locked, Holds
      <4> QED BY <1>1, <3>1, <3>3, <4>1 DEF Undisturbed, Overtaken, Open
    <3> QED BY <3>1, <3>2, <3>3 DEF Overtaken
  <2> QED BY <2>1, <2>2
<1> HIDE DEF e
<1> QED BY <1>1, <1>3, <1>4, <1>5, <1>6, FreeIs, SignalsKeep

LEMMA ResetEventKeeps ==
  ASSUME IInv, NEW t \in Threads, ResetEvent(t)
  PROVE  IInv'
<1>1. PICK e \in Events :
        /\ MayReset(e)
        /\ call' = [call EXCEPT ![t] = [Free EXCEPT !.pc = "reset", !.objs = <<e>>]]
  BY DEF ResetEvent, Start
<1>2. ~At(t, "query") /\ Typed /\ UNCHANGED <<objects, mutex, render, pending, inbox, owed>>
  BY DEF ResetEvent, Start, At, IInv
<1> DEFINE c == [Free EXCEPT !.pc = "reset", !.objs = <<e>>]
<1>3. ACall(t, c) /\ c.pc = "reset" /\ c.objs = <<e>>
  BY <1>2, StartIs
<1> HIDE DEF c
<1>4. Step(t) /\ call'[t] = c
  BY <1>1, <1>2, <1>3, Moved DEF c
<1>5. Holds(t)' /\ ~Missed(t)' /\ (t = Isr => Marked')
  BY <1>3, <1>4 DEF Holds, Missed, Marked, At
<1>6. Stored' /\ \A x \in Objects : Heard(t, x)
  BY <1>2 DEF Typed, Stored, Heard
<1>7. Kept'
  <2> SUFFICES ASSUME NEW x \in Events, owed[x] = "kept"
               PROVE  Present(x)' /\ Undisturbed(t, x)'
    BY <1>2, <1>4, KeptAcross
  <2>1. x \in render /\ x \in pending /\ Present(x)
    BY DEF IInv, Kept
  <2>2. x # e
    BY <1>1, <2>1 DEF MayReset
  <2>3. x \notin ToSet(<<e>>)
    BY <2>2 DEF ToSet
  <2> QED BY <1>2, <1>3, <1>4, <2>1, <2>3, StillPresent DEF Undisturbed, At
<1> QED BY <1>2, <1>4, <1>5, <1>6, <1>7, Frame

LEMMA ResetHostKeeps ==
  ASSUME IInv, NEW t \in Threads, ResetHost(t)
  PROVE  IInv'
<1> DEFINE e == Head(call[t].objs)
<1>1. call[t].pc \in {"reset", "pulse"} /\ ~At(t, "query") /\ Typed /\ ACall(t, call[t])
  BY DEF ResetHost, At, IInv, Typed, Called
<1>2. e \in Events /\ call[t].objs = <<e>>
  BY <1>1 DEF ACall
<1>3. /\ objects' = [objects EXCEPT ![e].state = 0] /\ call' = [call EXCEPT ![t] = Free]
      /\ owed' = IF At(t, "pulse") THEN [owed EXCEPT ![e] = "no"] ELSE owed
      /\ UNCHANGED <<mutex, render, pending, inbox>>
  BY DEF ResetHost, Return
<1> HIDE DEF e
<1>4. Step(t) /\ call'[t] = Free
  BY <1>1, <1>3, FreeIs, Moved
<1>5. Holds(t)' /\ ~Missed(t)' /\ (t = Isr => Marked') /\ \A x \in Events : Undisturbed(t, x)'
  BY <1>4, FreeIs, HarmlessIsFine DEF Step
<1>6. /\ AnObject(e, objects[e]) /\ objects'[e] = [objects[e] EXCEPT !.state = 0]
      /\ \A x \in Objects \ {e} : objects'[x] = objects[x]
      /\ e \in Objects /\ e \notin Mutants
  BY <1>1, <1>2, <1>3, EventIs DEF Typed, Stored
<1>7. AnObject(e, objects'[e]) /\ objects'[e].state = 0
  BY <1>6 DEF AnObject
<1>8. Stored'
  BY <1>1, <1>2, <1>3, <1>6, <1>7 DEF Typed, Stored
<1>9. \A x \in Objects : Heard(t, x)
  <2>1. \A u \in Threads : ~Signaled(e, objects'[e], u)
    BY <1>6, <1>7 DEF Signaled
  <2> QED BY <1>6, <2>1 DEF Heard
<1>10. Kept'
  <2> SUFFICES ASSUME NEW x \in Events, owed'[x] = "kept"
               PROVE  /\ x \in render' /\ x \in pending' /\ Present(x)'
                      /\ \A u \in Threads : Undisturbed(u, x)'
    BY DEF Kept
  <2>1. owed[x] = "kept"
    BY <1>1, <1>2, <1>3 DEF Typed, Stored
  <2>2. x \in render /\ x \in pending /\ Present(x) /\ Undisturbed(t, x)
    BY <2>1 DEF IInv, Kept
  <2>3. x # e
    <3>1. CASE At(t, "pulse")
      BY <1>1, <1>2, <1>3, <3>1 DEF Typed, Stored
    <3>2. CASE ~At(t, "pulse")
      BY <1>1, <1>2, <2>2, <3>2 DEF Undisturbed, At, ToSet
    <3> QED BY <3>1, <3>2
  <2> QED BY <1>1, <1>3, <1>4, <1>5, <1>6, <2>1, <2>2, <2>3, StillPresent, OthersUndisturbed, EventIs
<1> QED BY <1>3, <1>4, <1>5, <1>8, <1>9, <1>10, Frame

LEMMA QueryKeeps ==
  ASSUME IInv, NEW t \in Threads, Query(t)
  PROVE  IInv'
<1>1. PICK e \in Events :
        /\ call' = [call EXCEPT ![t] = [Free EXCEPT !.pc = "query", !.objs = <<e>>]]
        /\ objects' = [objects EXCEPT ![e] = Acquired(e, @, t)]
  BY DEF Query, Start
<1>2. ~At(t, "query") /\ Typed /\ UNCHANGED <<mutex, render, pending, inbox, owed>>
  BY DEF Query, Start, At, IInv
<1> DEFINE c == [Free EXCEPT !.pc = "query", !.objs = <<e>>]
<1>3. ACall(t, c) /\ c.pc = "query" /\ c.objs = <<e>>
  BY <1>2, StartIs
<1> HIDE DEF c
<1>4. Step(t) /\ call'[t] = c
  BY <1>1, <1>2, <1>3, Moved DEF c
<1>5. Holds(t)' /\ ~Missed(t)' /\ (t = Isr => Marked') /\ \A x \in Events : Undisturbed(t, x)'
  BY <1>3, <1>4, HarmlessIsFine DEF Step, Harmless
<1>6. /\ e \in Objects /\ e \notin Mutants
      /\ AnObject(e, objects[e]) /\ objects'[e] = Acquired(e, objects[e], t)
      /\ \A x \in Objects \ {e} : objects'[x] = objects[x]
  BY <1>1, <1>2, EventIs DEF Typed, Stored
<1>7. AnObject(e, objects'[e])
  BY <1>6, AcquiredIs
<1>8. Stored'
  BY <1>1, <1>2, <1>6, <1>7 DEF Typed, Stored
<1>9. \A x \in Objects : Heard(t, x)
  <2>1. CASE e \in ManualReset
    <3>1. objects'[e] = objects[e]
      BY <1>6, <2>1, WaitAssumption DEF Acquired
    <3> QED BY <1>6, <3>1 DEF Heard
  <2>2. CASE e \in AutoReset
    <3>1. objects'[e] = [objects[e] EXCEPT !.state = 0]
      BY <1>6, <2>2, WaitAssumption DEF Acquired
    <3>2. objects'[e].state = 0
      BY <1>6, <3>1 DEF AnObject
    <3>3. \A u \in Threads : ~Signaled(e, objects'[e], u)
      BY <1>6, <3>2 DEF Signaled
    <3> QED BY <1>6, <3>3 DEF Heard
  <2> QED BY <2>1, <2>2 DEF Events
<1>10. Kept'
  <2> SUFFICES ASSUME NEW x \in Events, owed[x] = "kept"
               PROVE  Present(x)' /\ Undisturbed(t, x)'
    BY <1>2, <1>4, KeptAcross
  <2>1. Present(x)
    BY DEF IInv, Kept
  <2>2. CASE x = e
    BY <1>3, <1>4, <1>5, <2>2 DEF Present, At
  <2>3. CASE x # e
    BY <1>2, <1>4, <1>5, <1>6, <2>1, <2>3, StillPresent, EventIs
  <2> QED BY <2>2, <2>3
<1> QED BY <1>2, <1>4, <1>5, <1>8, <1>9, <1>10, Frame

LEMMA QueryEndsKeeps ==
  ASSUME IInv, NEW t \in Threads, QueryEnds(t)
  PROVE  IInv'
<1> DEFINE e == Head(call[t].objs)
<1>1. At(t, "query") /\ call[t].pc = "query" /\ Typed /\ ACall(t, call[t]) /\ 1 \in 1 .. MaximumCount
  BY WaitAssumption DEF QueryEnds, At, IInv, Typed, Called
<1>2. e \in Events /\ call[t].objs = <<e>>
  BY <1>1 DEF ACall
<1>3. /\ objects' = [objects EXCEPT ![e] = SignaledBy(e, @, 1)] /\ MaySignal(e, objects[e], t, 1)
      /\ e \in Objects /\ call' = [AfterSignal(e, 1) EXCEPT ![t] = Free]
      /\ UNCHANGED <<mutex, render, pending, inbox, owed>>
  BY <1>2, EventIs DEF QueryEnds, AfterSignal, Notifies
<1>4. owed' = [x \in Events |-> owed'[x]]
  BY <1>1, <1>3 DEF Typed, Stored
<1>5. \A x \in Events : owed'[x] = "kept" =>
        /\ x \in render /\ x \in pending /\ Present(x)
        /\ \A u \in Threads : Undisturbed(u, x)
  BY <1>3 DEF IInv, Kept
<1> HIDE DEF e
<1> QED BY <1>1, <1>2, <1>3, <1>4, <1>5, FreeIs, SignalsKeep

LEMMA StutterKeeps ==
  ASSUME IInv, UNCHANGED <<objects, mutex, render, pending, call, owed>>,
         inbox' \in [Threads -> Nat]
  PROVE  IInv'
<1>1. Typed'
  BY DEF IInv, Typed, Stored, Called
<1>2. Locked' /\ NoLostWakeup'
  BY DEF IInv, Locked, Holds, NoLostWakeup, At, Target
<1>3. Kept' /\ (Isr \in Threads => Marked')
  BY DEF IInv, Kept, Marked, Present, Undisturbed, At
<1> QED BY <1>1, <1>2, <1>3 DEF IInv

-----------------------------------------------------------------------------
(* The invariant, and what follows from it.                                *)

LEMMA InitHolds == Init => IInv
<1> SUFFICES ASSUME Init PROVE IInv
  OBVIOUS
<1>1. \A t \in Threads : call[t] = Free /\ call[t].pc = "idle"
  BY DEF Init, Free
<1>2. Stored
  <2>1. \A o \in Objects : AnObject(o, objects[o])
    BY DEF Init, AnObject
  <2> QED BY <2>1 DEF Init, Stored
<1>3. Called
  BY FreeIs DEF Init, Called
<1>4. Locked /\ NoLostWakeup /\ (Isr \in Threads => Marked)
  BY <1>1 DEF Locked, Holds, NoLostWakeup, Marked, At
<1>5. Kept
  BY DEF Init, Kept
<1> QED BY <1>2, <1>3, <1>4, <1>5 DEF IInv, Typed

LEMMA NextKeeps == IInv /\ [Next]_vars => IInv'
<1> SUFFICES ASSUME IInv, [Next]_vars PROVE IInv'
  OBVIOUS
<1>1. CASE UNCHANGED vars
  <2>1. inbox' \in [Threads -> Nat]
    BY <1>1 DEF vars, IInv, Typed, Stored
  <2> QED BY <1>1, <2>1, StutterKeeps DEF vars
<1>2. CASE Next
  <2>1. PICK t \in Threads : WaitStep(t) \/ HostStep(t) \/ GuestCalls(t)
    BY <1>2 DEF Next
  <2>2. CASE WaitStep(t)
    BY <2>2, AlertKeeps, LockKeeps, TimeOutKeeps, BecomeLateKeeps, TryLockKeeps, ScanKeeps,
       TakeKeeps, DeliverKeeps DEF WaitStep
  <2>3. CASE HostStep(t)
    BY <2>3, SetHostKeeps, ResetHostKeeps, QueryEndsKeeps DEF HostStep
  <2>4. CASE QueueUserCallback(t)
    <3>1. inbox' \in [Threads -> Nat]
      BY <2>4 DEF QueueUserCallback, IInv, Typed, Stored
    <3> QED BY <2>4, <3>1, StutterKeeps DEF QueueUserCallback
  <2>5. CASE GuestCalls(t)
    BY <2>4, <2>5, BeginWaitKeeps, SignalAndWaitKeeps, SetEventKeeps, ResetEventKeeps, PulseKeeps,
       QueryKeeps, ReleaseKeeps DEF GuestCalls
  <2> QED BY <2>1, <2>2, <2>3, <2>5
<1> QED BY <1>1, <1>2

\* The inductive invariant, which types the variables and says whose the mutexes are.
THEOREM Invariance == Spec => []IInv
  BY InitHolds, NextKeeps, PTL DEF Spec

\* No thread sleeps un-notified on an object that is signaled for it, for any number of
\* threads, objects and requests (PosixConditionBase::Wait and the signals).
THEOREM NoWakeupIsLost == Spec => []NoLostWakeup
<1>1. IInv => NoLostWakeup
  BY DEF IInv
<1> QED BY <1>1, Invariance, PTL

\* What one Set of a render event has signaled stays until a wait takes it, unless a
\* Reset or the callback of an earlier wait was already on its way (XEvent::Reset).
THEOREM RenderSetsAreKept == Spec => []RenderWakeupKept
<1>1. IInv => RenderWakeupKept
  BY DEF IInv, Kept, RenderWakeupKept
<1> QED BY <1>1, Invariance, PTL
-----------------------------------------------------------------------------
(* KernelWait implements Dispatcher.  What a thread has found signaled     *)
(* counts as taken: it holds the mutexes of those objects, so that nobody  *)
(* else sees or changes them until it has taken them one by one.           *)

LEMMA SameOperators ==
  /\ Kernel!Objects = Objects /\ Kernel!Events = Events
  /\ \A o, x, t : Kernel!Acquired(o, x, t) = Acquired(o, x, t)
  /\ \A o, x, t, n : Kernel!MaySignal(o, x, t, n) = MaySignal(o, x, t, n)
  /\ \A o, x, n : Kernel!SignaledBy(o, x, n) = SignaledBy(o, x, n)
  /\ \A r, x, t : Kernel!Grants(r, x, t) = Grants(r, x, t)
<1>1. Kernel!Objects = Objects /\ Kernel!Events = Events
  BY DEF Kernel!Objects, Objects, Kernel!Events, Events
<1>2. \A o, x, t : Kernel!Acquired(o, x, t) = Acquired(o, x, t)
  BY DEF Kernel!Acquired, Acquired
<1>3. \A o, x, t, n : Kernel!MaySignal(o, x, t, n) = MaySignal(o, x, t, n)
  BY <1>1 DEF Kernel!MaySignal, MaySignal
<1>4. \A o, x, n : Kernel!SignaledBy(o, x, n) = SignaledBy(o, x, n)
  BY <1>1 DEF Kernel!SignaledBy, SignaledBy
<1>5. \A r, x, t : Kernel!Grants(r, x, t) = Grants(r, x, t)
  BY Zenon DEF Kernel!Grants, Grants, Kernel!Signaled, Signaled
<1> QED BY <1>1, <1>2, <1>3, <1>4, <1>5

\* An object some thread has found signaled is that thread's; the others are as they are.
Reserved ==
  \A o \in Objects :
    /\ \A t \in Threads : o \in Remaining(t) =>
         mutex[o] = t /\ Promised(o) = Acquired(o, objects[o], t)
    /\ (\A t \in Threads : o \notin Remaining(t)) => Promised(o) = objects[o]

LEMMA PromisedIs == IInv => Reserved
<1> SUFFICES ASSUME IInv, NEW o \in Objects
             PROVE  /\ \A t \in Threads : o \in Remaining(t) =>
                         mutex[o] = t /\ Promised(o) = Acquired(o, objects[o], t)
                    /\ (\A t \in Threads : o \notin Remaining(t)) => Promised(o) = objects[o]
  BY DEF Reserved
<1>1. ASSUME NEW t \in Threads, o \in Remaining(t) PROVE mutex[o] = t
  <2>1. At(t, "take") /\ ACall(t, call[t]) /\ Holds(t)
    BY <1>1 DEF Remaining, IInv, Typed, Called, Locked
  <2>2. PICK j \in call[t].i .. Len(call[t].objs) : o = call[t].objs[j]
    BY <1>1, <2>1 DEF Remaining
  <2>3. j \in DOMAIN call[t].objs
    BY <2>1, <2>2 DEF ACall, Holds
  <2> QED BY <2>1, <2>2, <2>3 DEF Holds
<1>2. ASSUME NEW t \in Threads, o \in Remaining(t) PROVE Promised(o) = Acquired(o, objects[o], t)
  <2> DEFINE holder == CHOOSE u \in Threads : o \in Remaining(u)
  <2>1. \E u \in Threads : o \in Remaining(u)
    BY <1>2
  <2>2. holder \in Threads /\ o \in Remaining(holder)
    BY <2>1, Zenon
  <2>3. holder = t
    BY <1>1, <1>2, <2>2
  <2> QED BY <2>1, <2>3 DEF Promised
<1>3. (\A t \in Threads : o \notin Remaining(t)) => Promised(o) = objects[o]
  BY DEF Promised
<1> QED BY <1>1, <1>2, <1>3

LEMMA PromisedNext == IInv' => Reserved'
BY PromisedIs, PTL

\* A step of one thread moves that thread, and may notify the others.
LEMMA OneMoves ==
  ASSUME IInv, IInv', NEW t \in Threads, WaitStep(t) \/ HostStep(t) \/ GuestCalls(t)
  PROVE  Step(t)
<1> DEFINE Rest == \A u \in Threads \ {t} : Same(u) /\ call'[u].late = call[u].late
<1> Typed /\ Called /\ Called'
  BY DEF IInv, Typed
<1> SUFFICES Rest
  BY DEF Step
<1>1. ASSUME NEW c, call' = [call EXCEPT ![t] = c] PROVE Rest
  BY <1>1 DEF Called, Same
<1>2. ASSUME NEW o, NEW c, call' = [NotifyAll(o) EXCEPT ![t] = c] PROVE Rest
  BY <1>2, NotifyAllIs DEF Called, Same
<1>3. ASSUME NEW o, call' = NotifyAll(o) PROVE Rest
  BY <1>3, NotifyAllIs DEF Called, Same
<1>4. ASSUME UNCHANGED call PROVE Rest
  BY <1>4 DEF Same
<1>5. CASE WaitStep(t)
  <2>1. CASE Alert(t)
    BY <1>1, <2>1 DEF Alert, Return
  <2>2. CASE Lock(t) \/ Wake(t) \/ TimeOut(t)
    BY <1>1, <2>2 DEF Lock, Wake, TimeOut, Look
  <2>3. CASE BecomeLate(t)
    BY <1>1, <2>3 DEF BecomeLate
  <2>4. CASE TryLock(t) \/ Scan(t) \/ Deliver(t)
    BY <1>1, <2>4 DEF TryLock, Scan, Deliver, Return
  <2>5. CASE Take(t)
    BY <1>1, <1>2, <2>5 DEF Take
  <2> QED BY <1>5, <2>1, <2>2, <2>3, <2>4, <2>5 DEF WaitStep
<1>6. CASE HostStep(t)
  BY <1>1, <1>2, <1>6 DEF HostStep, SetHost, ResetHost, QueryEnds, Return
<1>7. CASE GuestCalls(t)
  <2>1. CASE BeginWait(t)
    BY <1>1, <2>1 DEF BeginWait
  <2>2. CASE SignalAndWait(t)
    BY <1>1, <1>2, <2>2 DEF SignalAndWait, AfterSignal
  <2>3. CASE SetEvent(t) \/ ResetEvent(t) \/ Query(t)
    BY <1>1, <2>3 DEF SetEvent, ResetEvent, Query, Start
  <2>4. CASE Pulse(t)
    BY <1>2, <2>4 DEF Pulse
  <2>5. CASE Release(t)
    BY <1>3, <1>4, <2>5 DEF Release, AfterSignal
  <2>6. CASE QueueUserCallback(t)
    BY <1>4, <2>6 DEF QueueUserCallback
  <2> QED BY <1>7, <2>1, <2>2, <2>3, <2>4, <2>5, <2>6 DEF GuestCalls
<1> QED BY <1>5, <1>6, <1>7

\* What the others have found, and what they have asked for, does not change.
LEMMA OthersRemain ==
  ASSUME NEW t \in Threads, Step(t), NEW u \in Threads \ {t}
  PROVE  Remaining(u)' = Remaining(u) /\ Asked'[u] = Asked[u]
<1>1. Remaining(u)' = Remaining(u)
  BY DEF Step, Same, Remaining, At
<1>2. Asked'[u] = Asked[u]
  BY DEF Step, Same, Asked, InWait
<1> QED BY <1>1, <1>2

LEMMA Untouched ==
  ASSUME IInv, IInv', NEW t \in Threads, Step(t), NEW o \in Objects, objects'[o] = objects[o],
         (o \in Remaining(t))' <=> o \in Remaining(t)
  PROVE  Promised(o)' = Promised(o)
<1>1. Reserved /\ Reserved'
  BY PromisedIs, PromisedNext
<1>2. \A u \in Threads : (o \in Remaining(u))' <=> o \in Remaining(u)
  BY OthersRemain
<1>3. CASE \E u \in Threads : o \in Remaining(u)
  <2>1. PICK u \in Threads : o \in Remaining(u)
    BY <1>3
  <2> QED BY <1>1, <1>2, <2>1 DEF Reserved
<1>4. CASE \A u \in Threads : o \notin Remaining(u)
  BY <1>1, <1>2, <1>4 DEF Reserved
<1> QED BY <1>3, <1>4

\* An object that is free, or in the hands of a thread that has found nothing yet.
LEMMA Plain ==
  ASSUME IInv, NEW o \in Objects, NEW t \in Threads, mutex[o] \in {Nobody, t}, ~At(t, "take")
  PROVE  Promised(o) = objects[o] /\ \A u \in Threads : o \notin Remaining(u)
<1>1. Reserved
  BY PromisedIs
<1>2. o \notin Remaining(t)
  BY DEF Remaining
<1>3. \A u \in Threads : o \notin Remaining(u)
  BY <1>1, <1>2, WaitAssumption DEF Reserved
<1> QED BY <1>1, <1>3 DEF Reserved

LEMMA PlainNext ==
  ASSUME IInv', NEW t \in Threads, Step(t), NEW o \in Objects,
         \A u \in Threads : o \notin Remaining(u), ~At(t, "take")'
  PROVE  Promised(o)' = objects'[o]
<1>1. \A u \in Threads : (o \notin Remaining(u))'
  BY OthersRemain DEF Remaining
<1> QED BY <1>1, PromisedNext DEF Reserved

LEMMA AskedIs ==
  ASSUME NEW t \in Threads, Step(t)
  PROVE  /\ Asked' = [Asked EXCEPT ![t] = Asked'[t]]
         /\ Asked'[t] = IF InWait(t)' THEN call'[t].request ELSE Nobody
         /\ Asked[t] = IF InWait(t) THEN call[t].request ELSE Nobody
<1>1. Asked'[t] = (IF InWait(t)' THEN call'[t].request ELSE Nobody)
  BY DEF Asked
<1>2. Asked[t] = IF InWait(t) THEN call[t].request ELSE Nobody
  BY DEF Asked
<1>3. Asked' = [u \in Threads |-> Asked'[u]] /\ Asked = [u \in Threads |-> Asked[u]]
  BY DEF Asked
<1> QED BY <1>1, <1>2, <1>3, OthersRemain

-----------------------------------------------------------------------------
(* What each kind of step is to the kernel.                                *)

Simulated == Kernel!Next \/ UNCHANGED Kernel!vars

LEMMA Quiet ==
  ASSUME IInv, IInv', NEW t \in Threads, Step(t), UNCHANGED objects,
         ~At(t, "take"), ~At(t, "take")'
  PROVE  Given' = Given
<1>1. Remaining(t) = {} /\ Remaining(t)' = {}
  BY DEF Remaining
<1>2. \A o \in Objects : Promised(o)' = Promised(o)
  BY <1>1, Untouched
<1> QED BY <1>2 DEF Given

LEMMA Stutters ==
  ASSUME NEW t \in Threads, Step(t), Given' = Given, Asked'[t] = Asked[t]
  PROVE  Simulated
<1>1. Asked' = Asked
  BY AskedIs DEF Asked
<1> QED BY <1>1 DEF Simulated, Kernel!vars

LEMMA Begins ==
  ASSUME NEW t \in Threads, Step(t), Given' = Given, Asked[t] = Nobody, Asked'[t] \in Requests[t]
  PROVE  Simulated
<1>1. Kernel!Begin(t)
  BY AskedIs DEF Kernel!Begin
<1> QED BY <1>1 DEF Simulated, Kernel!Next

LEMMA GivesUp ==
  ASSUME NEW t \in Threads, Step(t), Given' = Given, Asked[t] # Nobody, Asked'[t] = Nobody,
         Asked[t].alertable \/ (Asked[t].timed /\ Grants(Asked[t], Given, t) = {})
  PROVE  Simulated
<1>1. Kernel!GiveUp(t)
  BY AskedIs, SameOperators DEF Kernel!GiveUp
<1> QED BY <1>1 DEF Simulated, Kernel!Next

\* A step that changes one object nobody holds.
LEMMA Changed ==
  ASSUME IInv, IInv', NEW t \in Threads, Step(t), ~At(t, "take"), ~At(t, "take")',
         NEW o \in Objects, Open(o), NEW x, objects' = [objects EXCEPT ![o] = x]
  PROVE  /\ Given[o] = objects[o] /\ Given' = [Given EXCEPT ![o] = x]
<1>1. Remaining(t) = {} /\ Remaining(t)' = {}
  BY DEF Remaining
<1>2. objects'[o] = x /\ \A p \in Objects \ {o} : objects'[p] = objects[p]
  BY DEF IInv, Typed, Stored
<1>3. \A p \in Objects \ {o} : Promised(p)' = Promised(p)
  BY <1>1, <1>2, Untouched
<1>4. Promised(o) = objects[o] /\ Promised(o)' = x
  BY <1>2, Plain, PlainNext DEF Open
<1> QED BY <1>3, <1>4 DEF Given

LEMMA Signals ==
  ASSUME IInv, IInv', NEW t \in Threads, Step(t), ~At(t, "take"), ~At(t, "take")',
         NEW o \in Objects, NEW n \in 1 .. MaximumCount, Open(o), MaySignal(o, objects[o], t, n),
         objects' = [objects EXCEPT ![o] = SignaledBy(o, @, n)],
         Asked[t] = Nobody, Asked'[t] \in Requests[t] \cup {Nobody}
  PROVE  Simulated
<1>1. Given[o] = objects[o] /\ Given' = [Given EXCEPT ![o] = SignaledBy(o, objects[o], n)]
  BY Changed
<1>2. Asked' = Asked \/ \E r \in Requests[t] : Asked' = [Asked EXCEPT ![t] = r]
  BY AskedIs DEF Asked
<1>3. Kernel!Signal(t)
  BY <1>1, <1>2, SameOperators DEF Kernel!Signal
<1> QED BY <1>3 DEF Simulated, Kernel!Next

LEMMA Resets ==
  ASSUME IInv, IInv', NEW t \in Threads, Step(t), ~At(t, "take"), ~At(t, "take")',
         NEW e \in Events, Open(e), objects' = [objects EXCEPT ![e].state = 0],
         Asked[t] = Nobody, Asked'[t] = Nobody
  PROVE  Simulated
<1>1. e \in Objects
  BY DEF Objects
<1>2. Given[e] = objects[e] /\ Given' = [Given EXCEPT ![e] = [objects[e] EXCEPT !.state = 0]]
  BY <1>1, Changed
<1>3. Asked' = Asked
  BY AskedIs DEF Asked
<1>4. Kernel!Reset
  BY <1>2, <1>3, SameOperators DEF Kernel!Reset
<1> QED BY <1>4 DEF Simulated, Kernel!Next

\* What may be taken depends on the objects of the request only.
LEMMA GrantsDepend ==
  ASSUME NEW t \in Threads, NEW r \in Requests[t], NEW x, NEW y,
         \A i \in DOMAIN r.handles : x[r.handles[i]] = y[r.handles[i]]
  PROVE  Grants(r, x, t) = Grants(r, y, t)
<1>1. \A i \in DOMAIN r.handles : \A j \in 1 .. i - 1 : j \in DOMAIN r.handles
  BY RequestsAre
<1> DEFINE OK(z, i) == Signaled(r.handles[i], z[r.handles[i]], t)
           First(z) == {i \in DOMAIN r.handles : OK(z, i) /\ \A j \in 1 .. i - 1 : ~OK(z, j)}
<1>2. \A i \in DOMAIN r.handles : OK(x, i) = OK(y, i)
  OBVIOUS
<1>3. First(x) = First(y)
  BY <1>1, <1>2
<1>4. \A z : Grants(r, z, t) = IF r.all THEN {w \in {r.handles} : \A i \in DOMAIN w : OK(z, i)}
                                        ELSE {<<r.handles[i]>> : i \in First(z)}
  BY Zenon DEF Grants
<1>5. {w \in {r.handles} : \A i \in DOMAIN w : OK(x, i)} =
      {w \in {r.handles} : \A i \in DOMAIN w : OK(y, i)}
  BY <1>2
<1> HIDE DEF OK, First
<1>6. CASE r.all
  BY <1>4, <1>5, <1>6, Zenon
<1>7. CASE ~r.all
  BY <1>3, <1>4, <1>7, Zenon
<1> QED BY <1>6, <1>7

LEMMA GrantsAgree ==
  ASSUME IInv, NEW t \in Threads, NEW r \in Requests[t], ~At(t, "take"),
         \A i \in DOMAIN r.handles : mutex[r.handles[i]] \in {Nobody, t}
  PROVE  /\ Grants(r, Given, t) = Grants(r, objects, t)
         /\ \A i \in DOMAIN r.handles : Given[r.handles[i]] = objects[r.handles[i]]
<1>1. \A i \in DOMAIN r.handles : Given[r.handles[i]] = objects[r.handles[i]]
  BY RequestsAre, Plain DEF Given
<1> QED BY <1>1, GrantsDepend

\* To find a request satisfied is to be granted it.
LEMMA Grant ==
  ASSUME IInv, IInv', NEW t \in Threads, Step(t), InWait(t), UNCHANGED objects,
         \A i \in DOMAIN call[t].request.handles :
           mutex[call[t].request.handles[i]] \in {Nobody, t},
         NEW w \in Grants(call[t].request, objects, t), call'[t] = Taking(w)
  PROVE  Simulated /\ Fits(t)'
<1> DEFINE r == call[t].request
<1>1. r \in Requests[t] /\ ~At(t, "take") /\ At(t, "take")' /\ ~InWait(t)'
  BY DEF InWait, At, IInv, Typed, Called, ACall, Taking, Free
<1>2. w \in Seq(Objects) /\ w # <<>> /\ \A j \in DOMAIN w : \E k \in DOMAIN r.handles : w[j] = r.handles[k]
  BY <1>1, GrantsAre
<1>3. Grants(r, Given, t) = Grants(r, objects, t)
  BY <1>1, GrantsAgree
<1>4. Remaining(t) = {} /\ Remaining(t)' = {w[j] : j \in DOMAIN w}
  BY <1>1, <1>2 DEF Remaining, Taking, Free
<1>5. ASSUME NEW o \in Objects
      PROVE  Promised(o)' = IF \E j \in DOMAIN w : w[j] = o THEN Acquired(o, Given[o], t) ELSE Given[o]
  <2>1. CASE \E j \in DOMAIN w : w[j] = o
    <3>1. mutex[o] \in {Nobody, t}
      BY <1>2, <2>1
    <3>2. Given[o] = objects[o]
      BY <1>1, <3>1, Plain DEF Given
    <3>3. Promised(o)' = Acquired(o, objects'[o], t)
      BY <1>4, <2>1, PromisedNext DEF Reserved
    <3> QED BY <2>1, <3>2, <3>3
  <2>2. CASE ~\E j \in DOMAIN w : w[j] = o
    BY <1>4, <2>2, Untouched DEF Given
  <2> QED BY <2>1, <2>2
<1>6. Given' = [o \in Objects |->
        IF \E j \in DOMAIN w : w[j] = o THEN Acquired(o, Given[o], t) ELSE Given[o]]
  BY <1>5 DEF Given
<1>7. Asked[t] = r /\ r # Nobody /\ Asked' = [Asked EXCEPT ![t] = Nobody]
  BY <1>1, AskedIs, RequestsAre
<1>8. Kernel!Grant(t)
  BY <1>3, <1>6, <1>7, SameOperators DEF Kernel!Grant
<1>9. \A i, j \in DOMAIN w : w[i] = w[j] => i = j
  <2>1. CASE r.all
    <3>1. w = r.handles
      BY <2>1 DEF Grants
    <3> QED BY <1>1, <3>1, WaitAssumption
  <2>2. CASE ~r.all
    <3>1. PICK i \in DOMAIN r.handles : w = <<r.handles[i]>>
      BY <2>2 DEF Grants
    <3> QED BY <3>1
  <2> QED BY <2>1, <2>2
<1>10. Fits(t)'
  BY <1>1, <1>9 DEF Fits, At, InWait, Taking, Free
<1> QED BY <1>8, <1>10 DEF Simulated, Kernel!Next

\* A lone request: it is satisfied when its object is signaled.
LEMMA LoneGrants ==
  ASSUME NEW t \in Threads, NEW r \in Requests[t], Alone(r), NEW x
  PROVE  /\ DOMAIN r.handles = {1} /\ r.handles[1] = Head(r.handles)
         /\ Signaled(Head(r.handles), x[Head(r.handles)], t) => <<Head(r.handles)>> \in Grants(r, x, t)
         /\ ~Signaled(Head(r.handles), x[Head(r.handles)], t) => Grants(r, x, t) = {}
<1> DEFINE o == Head(r.handles)
<1>1. DOMAIN r.handles = {1} /\ r.handles[1] = o /\ r.handles = <<o>>
  BY RequestsAre DEF Alone
<1>2. CASE r.all
  <2>1. Grants(r, x, t) = {w \in {r.handles} : \A i \in DOMAIN w : Signaled(r.handles[i], x[r.handles[i]], t)}
    BY <1>2, Zenon DEF Grants
  <2>2. r.handles \in Grants(r, x, t) <=> Signaled(o, x[o], t)
    BY <1>1, <2>1
  <2>3. \A w \in Grants(r, x, t) : w = r.handles
    BY <2>1
  <2> QED BY <1>1, <2>2, <2>3
<1>3. CASE ~r.all
  <2> DEFINE First == {i \in DOMAIN r.handles : /\ Signaled(r.handles[i], x[r.handles[i]], t)
                         /\ \A j \in 1 .. i - 1 : ~Signaled(r.handles[j], x[r.handles[j]], t)}
  <2>1. Grants(r, x, t) = {<<r.handles[i]>> : i \in First}
    BY <1>3, Zenon DEF Grants
  <2>2. Signaled(o, x[o], t) => 1 \in First
    BY <1>1
  <2>3. ~Signaled(o, x[o], t) => First = {}
    BY <1>1
  <2> HIDE DEF First
  <2> QED BY <1>1, <2>1, <2>2, <2>3
<1> QED BY <1>2, <1>3

\* The thread evaluates its predicate: it is granted the object, gives up, or goes on.
GoesOn(t, c) ==
  \/ c = Asleep(t)
  \/ c = [call[t] EXCEPT !.pc = "alert", !.notified = FALSE] /\ call[t].request.alertable
LEMMA LookSimulates ==
  ASSUME IInv, IInv', AllFit, NEW t \in Threads, Step(t),
         call[t].pc \in {"lock", "asleep"}, Open(Target(t)), UNCHANGED objects,
         Signaled(Target(t), objects[Target(t)], t) => call'[t] = Taking(<<Target(t)>>),
         ~Signaled(Target(t), objects[Target(t)], t) =>
           GoesOn(t, call'[t]) \/ (call'[t] = Free /\ Late(t))
  PROVE  Simulated /\ Fits(t)'
<1> DEFINE r == call[t].request
           o == Target(t)
<1>1. r \in Requests[t] /\ InWait(t) /\ Alone(r) /\ Fits(t) /\ o = Head(r.handles) /\ o \in Objects
  BY RequestsAre DEF InWait, IInv, Typed, Called, ACall, AllFit, Fits, Target
<1>2. /\ DOMAIN r.handles = {1} /\ r.handles[1] = o
      /\ Signaled(o, objects[o], t) => <<o>> \in Grants(r, objects, t)
      /\ ~Signaled(o, objects[o], t) => Grants(r, objects, t) = {}
  BY <1>1, LoneGrants
<1>3. UNCHANGED objects /\ mutex[o] = Nobody /\ ~At(t, "take")
  BY DEF Open, At
<1>4. CASE Signaled(o, objects[o], t)
  BY <1>1, <1>2, <1>3, <1>4, Grant
<1>5. CASE ~Signaled(o, objects[o], t)
  <2>2. CASE call'[t] = Free /\ Late(t)
    <3>1. ~At(t, "take")' /\ ~InWait(t)' /\ Fits(t)'
      BY <2>2 DEF At, InWait, Fits, Free
    <3>2. Given' = Given
      BY <1>3, <3>1, Quiet
    <3>3. Asked[t] = r /\ r # Nobody /\ Asked'[t] = Nobody
      BY <1>1, <3>1, AskedIs, RequestsAre
    <3>4. Grants(r, Given, t) = {} /\ r.timed
      BY <1>1, <1>2, <1>3, <1>5, <2>2, GrantsAgree DEF Fits, Late
    <3> QED BY <3>1, <3>2, <3>3, <3>4, GivesUp
  <2>3. CASE GoesOn(t, call'[t])
    <3>1. /\ call'[t].pc \in {"asleep", "alert"} /\ call'[t].request = r
          /\ call'[t].late = call[t].late /\ (call'[t].pc = "alert" => r.alertable)
      <4>1. ACall(t, call[t])
        BY DEF IInv, Typed, Called
      <4>2. CASE call'[t] = Asleep(t)
        BY <4>1, <4>2 DEF Asleep, ACall
      <4>3. CASE call'[t] = [call[t] EXCEPT !.pc = "alert", !.notified = FALSE] /\ r.alertable
        BY <4>1, <4>3 DEF ACall
      <4> QED BY <2>3, <4>2, <4>3 DEF GoesOn
    <3>2. ~At(t, "take")' /\ InWait(t)' /\ Fits(t)'
      BY <1>1, <3>1 DEF At, InWait, Fits
    <3>3. Given' = Given
      BY <1>3, <3>2, Quiet
    <3>4. Asked'[t] = Asked[t]
      BY <1>1, <3>1, <3>2, AskedIs
    <3> QED BY <3>2, <3>3, <3>4, Stutters
  <2> QED BY <1>5, <2>2, <2>3
<1> QED BY <1>4, <1>5

LEMMA WaitingSimulates ==
  ASSUME IInv, IInv', AllFit, NEW t \in Threads, Step(t), Lock(t) \/ Wake(t) \/ TimeOut(t)
  PROVE  Simulated /\ Fits(t)'
<1> call = [u \in Threads |-> call[u]]
  BY DEF IInv, Typed, Called
<1>1. CASE Lock(t) \/ Wake(t)
  <2>1. /\ call[t].pc \in {"lock", "asleep"} /\ Open(Target(t)) /\ UNCHANGED objects
        /\ Signaled(Target(t), objects[Target(t)], t) => call'[t] = Taking(<<Target(t)>>)
        /\ ~Signaled(Target(t), objects[Target(t)], t) => call'[t] = Asleep(t)
    BY <1>1 DEF Lock, Wake, At, Look
  <2> QED BY <2>1, LookSimulates DEF GoesOn
<1>2. CASE TimeOut(t)
  <2>1. /\ call[t].pc \in {"lock", "asleep"} /\ Open(Target(t)) /\ UNCHANGED objects
        /\ Signaled(Target(t), objects[Target(t)], t) => call'[t] = Taking(<<Target(t)>>)
        /\ ~Signaled(Target(t), objects[Target(t)], t) =>
             call'[t] = IF Late(t) THEN Free ELSE [call[t] EXCEPT !.pc = "alert", !.notified = FALSE]
    BY <1>2 DEF TimeOut, At, Look
  <2>2. Late(t) \/ call[t].request.alertable
    BY <1>2 DEF TimeOut, SliceEnds
  <2> QED BY <2>1, <2>2, LookSimulates DEF GoesOn
<1> QED BY <1>1, <1>2

\* A step after which the thread is where the request it has issued says nothing.
LEMMA FitsElsewhere ==
  ASSUME NEW t \in Threads, call'[t].pc \notin {"alert", "lock", "asleep", "try", "take"}
  PROVE  Fits(t)' /\ Asked'[t] = Nobody /\ ~At(t, "take")'
  BY DEF Fits, At, InWait, Asked

LEMMA AlertSimulates ==
  ASSUME IInv, IInv', AllFit, NEW t \in Threads, Step(t), Alert(t)
  PROVE  Simulated /\ Fits(t)'
<1> DEFINE r == call[t].request
<1> call = [u \in Threads |-> call[u]]
  BY DEF IInv, Typed, Called
<1>1. At(t, "alert") /\ ~At(t, "take") /\ UNCHANGED objects /\ Fits(t) /\ ACall(t, call[t])
  BY DEF Alert, At, AllFit, IInv, Typed, Called
<1>2. r \in Requests[t] /\ r.alertable /\ Asked[t] = r /\ r # Nobody
  BY <1>1, AskedIs, RequestsAre DEF At, InWait, Fits, ACall
<1>3. CASE Return(t)
  <2>1. call'[t] = Free
    BY <1>3 DEF Return
  <2>2. Fits(t)' /\ Asked'[t] = Nobody /\ ~At(t, "take")'
    BY <2>1, FitsElsewhere DEF Free
  <2> QED BY <1>1, <1>2, <2>2, Quiet, GivesUp
<1>4. CASE ~Return(t)
  <2>1. call'[t] = [call[t] EXCEPT !.pc = IF Alone(r) THEN "lock" ELSE "try"]
    BY <1>4 DEF Alert
  <2>2. /\ call'[t].pc = IF Alone(r) THEN "lock" ELSE "try"
        /\ call'[t].request = r /\ call'[t].late = call[t].late
    BY <1>1, <2>1 DEF ACall
  <2>3. InWait(t)' /\ ~At(t, "take")' /\ Fits(t)'
    BY <1>1, <2>2 DEF InWait, At, Fits
  <2>4. Asked'[t] = Asked[t]
    BY <1>2, <2>2, <2>3, AskedIs
  <2> QED BY <1>1, <2>3, <2>4, Quiet, Stutters
<1> QED BY <1>3, <1>4

LEMMA BecomeLateSimulates ==
  ASSUME IInv, IInv', AllFit, NEW t \in Threads, Step(t), BecomeLate(t)
  PROVE  Simulated /\ Fits(t)'
<1>1. /\ InWait(t) /\ ~At(t, "take") /\ UNCHANGED objects /\ Fits(t) /\ ACall(t, call[t])
      /\ call[t].request.timed
  BY DEF BecomeLate, InWait, At, AllFit, IInv, Typed, Called
<1>2. call'[t].pc = call[t].pc /\ call'[t].request = call[t].request
  BY <1>1 DEF BecomeLate, IInv, Typed, Called, ACall
<1>3. InWait(t)' /\ ~At(t, "take")' /\ Fits(t)'
  BY <1>1, <1>2 DEF InWait, At, Fits
<1>4. Asked'[t] = Asked[t]
  BY <1>1, <1>2, <1>3, AskedIs
<1> QED BY <1>1, <1>3, <1>4, Quiet, Stutters

LEMMA TryLockSimulates ==
  ASSUME IInv, IInv', AllFit, NEW t \in Threads, Step(t), TryLock(t)
  PROVE  Simulated /\ Fits(t)'
<1>1. InWait(t) /\ At(t, "try") /\ ~At(t, "take") /\ UNCHANGED objects /\ Fits(t) /\ ACall(t, call[t])
  BY DEF TryLock, InWait, At, AllFit, IInv, Typed, Called
<1>2. call'[t].pc = call[t].pc /\ call'[t].request = call[t].request /\ call'[t].late = call[t].late
  <2>1. \E i : call' = [call EXCEPT ![t].i = i]
    BY DEF TryLock
  <2> QED BY <1>1, <2>1 DEF IInv, Typed, Called, ACall
<1>3. InWait(t)' /\ ~At(t, "take")' /\ Fits(t)'
  BY <1>1, <1>2 DEF InWait, At, Fits
<1>4. Asked'[t] = Asked[t]
  BY <1>1, <1>2, <1>3, AskedIs
<1> QED BY <1>1, <1>3, <1>4, Quiet, Stutters

LEMMA ScanSimulates ==
  ASSUME IInv, IInv', AllFit, NEW t \in Threads, Step(t), Scan(t)
  PROVE  Simulated /\ Fits(t)'
<1> DEFINE r == call[t].request
<1> call = [u \in Threads |-> call[u]]
  BY DEF IInv, Typed, Called
<1>1. InWait(t) /\ At(t, "try") /\ ~At(t, "take") /\ UNCHANGED objects /\ Fits(t) /\ ACall(t, call[t])
  BY DEF Scan, InWait, At, AllFit, IInv, Typed, Called
<1>2. r \in Requests[t] /\ Asked[t] = r /\ r # Nobody
  BY <1>1, AskedIs, RequestsAre DEF At, ACall
<1>3. \A i \in DOMAIN r.handles : mutex[r.handles[i]] \in {Nobody, t}
  BY <1>1, <1>2, RequestsAre DEF Scan, MayScan, IInv, Locked, Holds
<1>4. CASE Grants(r, objects, t) # {}
  <2>1. PICK w \in Grants(r, objects, t) : call'[t] = Taking(w)
    BY <1>4 DEF Scan
  <2> QED BY <1>1, <1>3, <2>1, Grant
<1>5. CASE Grants(r, objects, t) = {}
  <2>1. CASE Late(t) /\ Return(t)
    <3>1. call'[t] = Free
      BY <2>1 DEF Return
    <3>2. Fits(t)' /\ Asked'[t] = Nobody /\ ~At(t, "take")'
      BY <3>1, FitsElsewhere DEF Free
    <3>3. Grants(r, Given, t) = {} /\ r.timed
      BY <1>1, <1>2, <1>3, <1>5, <2>1, GrantsAgree DEF Fits, Late
    <3> QED BY <1>1, <1>2, <3>2, <3>3, Quiet, GivesUp
  <2>2. CASE call' = [call EXCEPT ![t].i = 1]
    <3>1. call'[t].pc = call[t].pc /\ call'[t].request = r /\ call'[t].late = call[t].late
      BY <1>1, <2>2 DEF ACall
    <3>2. InWait(t)' /\ ~At(t, "take")' /\ Fits(t)'
      BY <1>1, <3>1 DEF InWait, At, Fits
    <3>3. Asked'[t] = Asked[t]
      BY <1>2, <3>1, <3>2, AskedIs
    <3> QED BY <1>1, <3>2, <3>3, Quiet, Stutters
  <2>3. CASE SliceEnds(t) /\ call' = [call EXCEPT ![t] = Waiting(r, @.late)]
    <3>1. r.alertable /\ call'[t] = Waiting(r, call[t].late)
      BY <2>3 DEF SliceEnds
    <3>2. call'[t].pc = "alert" /\ call'[t].request = r /\ call'[t].late = call[t].late
      BY <3>1 DEF Waiting, Place, Free
    <3>3. InWait(t)' /\ ~At(t, "take")' /\ Fits(t)'
      BY <1>1, <3>1, <3>2 DEF InWait, At, Fits
    <3>4. Asked'[t] = Asked[t]
      BY <1>2, <3>2, <3>3, AskedIs
    <3> QED BY <1>1, <3>3, <3>4, Quiet, Stutters
  <2> QED BY <1>5, <2>1, <2>2, <2>3 DEF Scan
<1> QED BY <1>4, <1>5

\* What is taken now was taken when it was found signaled.
LEMMA TakeSimulates ==
  ASSUME IInv, IInv', AllFit, NEW t \in Threads, Step(t), Take(t)
  PROVE  Simulated /\ Fits(t)'
<1> DEFINE w == call[t].objs
           i == call[t].i
<1> call = [u \in Threads |-> call[u]]
  BY DEF IInv, Typed, Called
<1>1. At(t, "take") /\ Fits(t) /\ ACall(t, call[t]) /\ i \in DOMAIN w
  BY DEF Take, At, AllFit, IInv, Typed, Called, Locked, Holds
<1>2. w \in Seq(Objects) /\ i \in 1 .. Len(w) /\ w[i] \in Objects
  BY <1>1 DEF ACall
<1>o. PICK o \in Objects : o = w[i]
  BY <1>2
<1>3. objects'[o] = Acquired(o, objects[o], t) /\ \A p \in Objects \ {o} : objects'[p] = objects[p]
  BY <1>2, <1>o DEF Take, IInv, Typed, Stored
<1>4. Remaining(t) = {w[j] : j \in i .. Len(w)}
  BY <1>1 DEF Remaining
<1>5. /\ Remaining(t)' = {w[j] : j \in i + 1 .. Len(w)} /\ Fits(t)'
      /\ ~InWait(t) /\ ~InWait(t)'
  <2>1. CASE i = Len(w)
    <3>1. call'[t].pc = "taken"
      <4>1. call'[t] = [call[t] EXCEPT !.pc = "taken", !.i = 1]
        BY <1>1, <2>1, NotifyAllIs DEF Take, IInv
      <4> QED BY <1>1, <4>1 DEF ACall
    <3> QED BY <1>1, <1>2, <2>1, <3>1 DEF Remaining, Fits, At, InWait
  <2>2. CASE i # Len(w)
    <3>1. call'[t].pc = "take" /\ call'[t].i = i + 1 /\ call'[t].objs = w
      <4>1. call'[t] = [call[t] EXCEPT !.i = @ + 1]
        BY <2>2, NotifyAllIs DEF Take, IInv
      <4> QED BY <1>1, <4>1 DEF ACall, At
    <3> QED BY <1>1, <3>1 DEF Remaining, Fits, At, InWait
  <2> QED BY <2>1, <2>2
<1>6. o \in Remaining(t) /\ o \notin Remaining(t)'
  BY <1>1, <1>2, <1>o, <1>4, <1>5 DEF Fits
<1>7. Promised(o)' = Promised(o)
  <2>1. Promised(o) = Acquired(o, objects[o], t) /\ mutex[o] = t
    BY <1>6, PromisedIs DEF Reserved
  <2>2. \A u \in Threads \ {t} : o \notin Remaining(u)
    BY <2>1, PromisedIs DEF Reserved
  <2>3. \A u \in Threads : (o \notin Remaining(u))'
    BY <1>6, <2>2, OthersRemain
  <2> QED BY <1>3, <2>1, <2>3, PromisedNext DEF Reserved
<1>8. ASSUME NEW p \in Objects \ {o} PROVE Promised(p)' = Promised(p)
  <2>1. (p \in Remaining(t))' <=> p \in Remaining(t)
    BY <1>2, <1>o, <1>4, <1>5
  <2> QED BY <1>3, <2>1, Untouched
<1>9. Given' = Given /\ Asked'[t] = Asked[t]
  BY <1>5, <1>7, <1>8, AskedIs DEF Given
<1> QED BY <1>5, <1>9, Stutters

LEMMA WaitStepSimulates ==
  ASSUME IInv, IInv', AllFit, NEW t \in Threads, Step(t), WaitStep(t)
  PROVE  Simulated /\ Fits(t)'
<1>1. CASE Deliver(t)
  <2>1. call[t].pc = "taken" /\ call'[t] = Free /\ UNCHANGED objects
    BY <1>1 DEF Deliver, Return, At, IInv, Typed, Called
  <2>2. Fits(t)' /\ Asked'[t] = Nobody /\ ~At(t, "take")' /\ ~At(t, "take") /\ Asked[t] = Nobody
    BY <2>1, FitsElsewhere, AskedIs DEF Free, At, InWait
  <2> QED BY <2>1, <2>2, Quiet, Stutters
<1> QED BY <1>1, AlertSimulates, WaitingSimulates, BecomeLateSimulates, TryLockSimulates,
           ScanSimulates, TakeSimulates DEF WaitStep

\* Where a thread is while it waits for nothing.
Away(c) == c.pc \notin {"alert", "lock", "asleep", "try", "take"}

LEMMA AwayIs ==
  ASSUME NEW t \in Threads, Away(call[t])
  PROVE  Asked[t] = Nobody /\ ~At(t, "take")
  BY DEF Away, Asked, InWait, At

LEMMA EventSignals ==
  ASSUME IInv, IInv', NEW t \in Threads, Step(t), Away(call[t]), Away(call'[t]),
         NEW e \in Events, Open(e), objects' = [objects EXCEPT ![e].state = 1]
  PROVE  Simulated /\ Fits(t)'
<1>0. MaySignal(e, objects[e], t, 1) /\ SignaledBy(e, objects[e], 1) = [objects[e] EXCEPT !.state = 1]
  BY EventIs
<1>a. objects' = [objects EXCEPT ![e] = SignaledBy(e, @, 1)]
  BY <1>0, Zenon
<1>b. e \in Objects /\ 1 \in 1 .. MaximumCount
  BY WaitAssumption DEF Objects
<1>1. /\ objects' = [objects EXCEPT ![e] = SignaledBy(e, @, 1)]
      /\ MaySignal(e, objects[e], t, 1) /\ e \in Objects /\ 1 \in 1 .. MaximumCount
  BY <1>0, <1>a, <1>b
<1>2. Asked[t] = Nobody /\ Asked'[t] = Nobody /\ ~At(t, "take") /\ ~At(t, "take")' /\ Fits(t)'
  BY AwayIs, FitsElsewhere DEF Away
<1> QED BY <1>1, <1>2, Signals

LEMMA EventResets ==
  ASSUME IInv, IInv', NEW t \in Threads, Step(t), Away(call[t]), Away(call'[t]),
         NEW e \in Events, Open(e), objects' = [objects EXCEPT ![e].state = 0]
  PROVE  Simulated /\ Fits(t)'
<1>1. Asked[t] = Nobody /\ Asked'[t] = Nobody /\ ~At(t, "take") /\ ~At(t, "take")' /\ Fits(t)'
  BY AwayIs, FitsElsewhere DEF Away
<1> QED BY <1>1, Resets

LEMMA NothingChanges ==
  ASSUME IInv, IInv', NEW t \in Threads, Step(t), Away(call[t]), Away(call'[t]), UNCHANGED objects
  PROVE  Simulated /\ Fits(t)'
<1>1. Asked[t] = Nobody /\ Asked'[t] = Nobody /\ ~At(t, "take") /\ ~At(t, "take")' /\ Fits(t)'
  BY AwayIs, FitsElsewhere DEF Away
<1> QED BY <1>1, Quiet, Stutters

LEMMA HostStepSimulates ==
  ASSUME IInv, IInv', NEW t \in Threads, Step(t), HostStep(t)
  PROVE  Simulated /\ Fits(t)'
<1> call = [u \in Threads |-> call[u]] /\ ACall(t, call[t])
  BY DEF IInv, Typed, Called
<1>1. call[t].pc \in {"set", "reset", "pulse", "query"} /\ Away(call[t])
  BY DEF HostStep, SetHost, ResetHost, QueryEnds, At, Away
<1>2. PICK e \in Events : call[t].objs = <<e>>
  BY <1>1 DEF ACall
<1>3. call'[t] = Free
  BY NotifyAllIs DEF HostStep, SetHost, ResetHost, QueryEnds, Return, IInv
<1>4. Away(call'[t])
  BY <1>3 DEF Away, Free
<1>5. CASE SetHost(t) \/ QueryEnds(t)
  <2>1. Open(e) /\ objects' = [objects EXCEPT ![e].state = 1]
    BY <1>2, <1>5 DEF SetHost, QueryEnds
  <2> QED BY <1>1, <1>4, <2>1, EventSignals
<1>6. CASE ResetHost(t)
  <2>1. Open(e) /\ objects' = [objects EXCEPT ![e].state = 0]
    BY <1>2, <1>6 DEF ResetHost
  <2> QED BY <1>1, <1>4, <2>1, EventResets
<1> QED BY <1>5, <1>6 DEF HostStep

LEMMA IssuedSimulates ==
  ASSUME IInv, IInv', NEW t \in Threads, Step(t), At(t, "idle"),
         NEW r \in Requests[t], call'[t] = Waiting(r, FALSE)
  PROVE  /\ Asked[t] = Nobody /\ Asked'[t] = r /\ Fits(t)'
         /\ ~At(t, "take") /\ ~At(t, "take")'
<1>1. /\ call'[t].pc \in {"alert", "lock", "try"} /\ call'[t].request = r /\ call'[t].late = FALSE
      /\ call'[t].pc = "alert" => r.alertable
      /\ call'[t].pc = "lock" => Alone(r)
  BY DEF Waiting, Place, Free
<1> QED BY <1>1, AskedIs DEF At, InWait, Fits

LEMMA GuestCallSimulates ==
  ASSUME IInv, IInv', NEW t \in Threads, AllFit, Step(t), GuestCalls(t)
  PROVE  Simulated /\ Fits(t)'
<1> call = [u \in Threads |-> call[u]] /\ Fits(t)
  BY DEF IInv, Typed, Called, AllFit
<1>1. CASE BeginWait(t)
  <2>1. PICK r \in Requests[t] : call'[t] = Waiting(r, FALSE)
    BY <1>1 DEF BeginWait
  <2>2. At(t, "idle") /\ UNCHANGED objects
    BY <1>1 DEF BeginWait
  <2> QED BY <2>1, <2>2, IssuedSimulates, Quiet, Begins
<1>2. CASE SignalAndWait(t)
  <2>1. PICK o \in Objects, r \in Requests[t] :
          /\ Open(o) /\ MaySignal(o, objects[o], t, 1)
          /\ objects' = [objects EXCEPT ![o] = SignaledBy(o, @, 1)]
          /\ call' = [AfterSignal(o, 1) EXCEPT ![t] = Waiting(r, FALSE)]
    BY <1>2 DEF SignalAndWait
  <2>2. At(t, "idle") /\ 1 \in 1 .. MaximumCount
    BY <1>2, WaitAssumption DEF SignalAndWait
  <2>3. call'[t] = Waiting(r, FALSE)
    BY <2>1, NotifyAllIs DEF AfterSignal, IInv
  <2> QED BY <2>1, <2>2, <2>3, IssuedSimulates, Signals
<1>3. CASE SetEvent(t) \/ ResetEvent(t)
  <2>1. PICK p \in {"set", "reset"}, e \in Events : Start(t, p, e)
    BY <1>3 DEF SetEvent, ResetEvent
  <2>2. Away(call[t]) /\ Away(call'[t]) /\ UNCHANGED objects
    BY <1>3, <2>1 DEF SetEvent, ResetEvent, Start, Away, At, Free
  <2> QED BY <2>2, NothingChanges
<1>4. CASE Pulse(t)
  <2>1. PICK e \in Events :
          /\ Open(e) /\ objects' = [objects EXCEPT ![e].state = 1]
          /\ call' = [NotifyAll(e) EXCEPT ![t] = [Free EXCEPT !.pc = "pulse", !.objs = <<e>>]]
    BY <1>4 DEF Pulse
  <2>2. call'[t].pc = "pulse"
    BY <2>1, NotifyAllIs DEF IInv, Free
  <2>3. Away(call[t]) /\ Away(call'[t])
    BY <1>4, <2>2 DEF Pulse, At, Away
  <2> QED BY <2>1, <2>3, EventSignals
<1>5. CASE Query(t)
  <2>1. PICK e \in Events :
          Open(e) /\ Start(t, "query", e) /\ objects' = [objects EXCEPT ![e] = Acquired(e, @, t)]
    BY <1>5 DEF Query
  <2>2. Away(call[t]) /\ Away(call'[t])
    BY <2>1 DEF Start, Away, At, Free
  <2>3. CASE e \in ManualReset
    <3>1. Acquired(e, objects[e], t) = objects[e]
      BY <2>3, WaitAssumption DEF Acquired, Events
    <3>2. objects' = [objects EXCEPT ![e] = objects[e]]
      BY <2>1, <3>1, Zenon
    <3>3. UNCHANGED objects
      BY <3>2 DEF IInv, Typed, Stored
    <3> QED BY <2>2, <3>3, NothingChanges
  <2>4. CASE e \notin ManualReset
    <3>1. objects' = [objects EXCEPT ![e].state = 0]
      BY <2>1, <2>4, WaitAssumption DEF Acquired, Events
    <3> QED BY <2>1, <2>2, <3>1, EventResets
  <2> QED BY <2>3, <2>4
<1>6. CASE Release(t)
  <2>1. PICK o \in Semaphores \cup Mutants, n \in 1 .. MaximumCount :
          /\ Open(o) /\ MaySignal(o, objects[o], t, n)
          /\ objects' = [objects EXCEPT ![o] = SignaledBy(o, @, n)]
          /\ call' = AfterSignal(o, n)
    BY <1>6 DEF Release
  <2>2. At(t, "idle") /\ o \in Objects
    BY <1>6 DEF Release, Objects
  <2>3. call'[t] = call[t]
    BY <2>1, <2>2, NotifyAllIs DEF AfterSignal, IInv, At
  <2>4. Away(call[t]) /\ Away(call'[t])
    BY <2>2, <2>3 DEF At, Away
  <2>5. Asked[t] = Nobody /\ Asked'[t] = Nobody /\ ~At(t, "take") /\ ~At(t, "take")' /\ Fits(t)'
    BY <2>4, AwayIs, FitsElsewhere DEF Away
  <2> QED BY <2>1, <2>2, <2>5, Signals
<1>7. CASE QueueUserCallback(t)
  <2>1. UNCHANGED <<objects, call>>
    BY <1>7 DEF QueueUserCallback
  <2>2. Remaining(t)' = Remaining(t)
    BY <2>1 DEF Remaining, At
  <2>3. \A o \in Objects : Promised(o)' = Promised(o)
    BY <2>1, <2>2, Untouched
  <2>4. Given' = Given /\ Asked'[t] = Asked[t] /\ Fits(t)'
    BY <2>1, <2>3 DEF Given, Asked, InWait, At, Fits
  <2> QED BY <2>4, Stutters
<1> QED BY <1>1, <1>2, <1>3, <1>4, <1>5, <1>6, <1>7 DEF GuestCalls

LEMMA NextSimulates == IInv /\ IInv' /\ AllFit /\ [Next]_vars => Simulated /\ AllFit'
<1> SUFFICES ASSUME IInv, IInv', AllFit, [Next]_vars PROVE Simulated /\ AllFit'
  OBVIOUS
<1>1. CASE UNCHANGED vars
  <2>1. AllFit'
    BY <1>1 DEF vars, AllFit, Fits, At, InWait
  <2>2. UNCHANGED Kernel!vars
    BY <1>1 DEF vars, Kernel!vars, Given, Asked, Promised, Remaining, InWait, At
  <2> QED BY <2>1, <2>2 DEF Simulated
<1>2. CASE Next
  <2>1. PICK t \in Threads : WaitStep(t) \/ HostStep(t) \/ GuestCalls(t)
    BY <1>2 DEF Next
  <2>2. Step(t)
    BY <2>1, OneMoves
  <2>3. Simulated /\ Fits(t)'
    BY <2>1, <2>2, WaitStepSimulates, HostStepSimulates, GuestCallSimulates
  <2>4. ASSUME NEW u \in Threads \ {t} PROVE Fits(u)'
    BY <2>2 DEF AllFit, Fits, Step, Same, At, InWait
  <2>5. AllFit'
    BY <2>3, <2>4 DEF AllFit
  <2> QED BY <2>3, <2>5
<1> QED BY <1>1, <1>2

LEMMA InitSimulates == Init => Kernel!Init /\ AllFit
<1> SUFFICES ASSUME Init PROVE Kernel!Init /\ AllFit
  OBVIOUS
<1>1. \A t \in Threads : call[t].pc = "idle"
  BY DEF Init, Free
<1>2. AllFit /\ \A t \in Threads : Remaining(t) = {}
  BY <1>1 DEF AllFit, Fits, At, InWait, Remaining
<1>3. \A o \in Objects : Promised(o) = objects[o] /\ objects[o] \in Object
  BY <1>2 DEF Promised, Init, Object
<1>4. Given \in [Objects -> Object]
  BY <1>3 DEF Given
<1>5. Asked = [t \in Threads |-> Nobody]
  BY <1>1 DEF Asked, InWait
<1>6. Kernel!Object = Object
  BY DEF Kernel!Object, Object
<1> QED BY <1>2, <1>4, <1>5, <1>6, SameOperators DEF Kernel!Init

\* KernelWait implements Dispatcher: although WaitMultiple tries the mutexes of its
\* objects one after the other and takes the objects one by one, every wait is satisfied
\* in one step, takes all of its objects or none, and times out only when it is not
\* satisfied; for any number of threads, objects and requests.
THEOREM WaitsAreAtomic == Spec => Implements
<1>1. Init => Kernel!Init /\ AllFit
  BY InitSimulates
<1>2. IInv /\ IInv' /\ AllFit /\ [Next]_vars => [Kernel!Next]_(Kernel!vars) /\ AllFit'
  BY NextSimulates DEF Simulated
<1> QED BY <1>1, <1>2, Invariance, PTL DEF Spec, Implements, Kernel!Spec
=============================================================================
