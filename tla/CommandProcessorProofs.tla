----------------------- MODULE CommandProcessorProofs -----------------------
(***************************************************************************)
(* Theorems about CommandProcessor, for any bases, ring capacities and     *)
(* hosts and any number of rings, commands and functions.                  *)
(*                                                                         *)
(* Of the ring: the commands put into it are numbered from the one at      *)
(* origin, and the k-th lies at Position(origin, k, size).  The pointers   *)
(* are the positions of four numbers in this order: what is consumed, what *)
(* the batch in flight has executed, the doorbell its snapshot saw, and    *)
(* the last doorbell; all within one round of the ring, so that equal      *)
(* positions are equal numbers.  That holds of a batch only while its      *)
(* generation is the ring's; of an older batch no more is known than that  *)
(* it stays inside the ring it was taken from.                             *)
(*                                                                         *)
(* Of the functions: what has been accepted has been run or waits, and the *)
(* worker exits with the gate closed and nothing waiting.                  *)
(***************************************************************************)
EXTENDS CommandProcessor, Integers, SequenceTheorems, TLAPS

\* CP_RB_CNTL and the other registers of CommandRingState.
Controls == [size : Sizes \cup {0}, noUpdate : BOOLEAN, transfer : BOOLEAN]
Rings == [generation : Nat, base : Bases \cup {NoBase}, control : Controls, address : BOOLEAN,
          read : Nat, readWrite : Nat, write : Nat]

\* The type invariant of the ring, the title and the worker.
RingTypeOK ==
  /\ ring \in Rings
  /\ memory \in [Bases -> [Dwords -> Nat]]
  /\ title \in [pc : {"idle", "enable", "put", "skip", "skipped"}, at : Nat, word : Nat, made : Nat]
  /\ issued \in Seq(Nat) /\ consumed \in Seq(Nat) /\ origin \in Nat
  /\ worker \in [pc : {"pop", "check", "paused", "look", "take", "execute", "commit", "exited"},
                 snap : Rings, at : Nat, batch : Seq(Nat)]

\* The type invariant of the functions and the hosts.
CallTypeOK ==
  /\ queue \in Seq(Hosts \cup {"call", "end tracing"})
  /\ calls \in [accepted : Nat, ran : Nat]
  /\ gate \in [accepting : BOOLEAN, running : BOOLEAN]
  /\ paused \in BOOLEAN /\ workerPaused \in BOOLEAN
  /\ host \in [Hosts -> {"idle", "pausing", "joining", "shut down"}]

\* Every accepted function has been run or waits in the queue; the gate is closed
\* before the worker is stopped, and it exits with nothing waiting.
CallsKept ==
  /\ calls.accepted = calls.ran + Len(queue)
  /\ ~gate.running => ~gate.accepting
  /\ worker.pc = "exited" => ~gate.running /\ queue = <<>>

\* The dword of the k-th command put after origin, counted from zero.
Position(o, k, size) == (o + k) % size
Slot(k) == Position(origin, k, ring.control.size)

\* A batch is in flight.
Executing == worker.pc \in {"execute", "commit"}

\* ... and its ring is the one programmed.
Current == Executing /\ worker.snap.generation = ring.generation

\* The commands consumed once that batch is committed up to where it is.
Done == Len(consumed) + Len(worker.batch)

\* What the title is about to do to the ring.
Intends ==
  /\ title.pc # "idle" => Configured(ring)
  /\ ring.control.transfer <=> title.pc \in {"skip", "skipped"}
  /\ title.pc = "skip" => ring.readWrite = title.at
  /\ title.pc \in {"enable", "skipped"} => issued = <<>>

\* Where the commands are.
Stored ==
  /\ Len(consumed) <= Len(issued)
  /\ \A k \in 1 .. Len(consumed) : consumed[k] = issued[k]
  /\ ~Configured(ring) => issued = <<>>
  /\ Configured(ring) =>
       /\ Len(issued) < Len(consumed) + ring.control.size
       /\ title.at = Slot(Len(issued)) /\ ring.read = Slot(Len(consumed))
       /\ origin < ring.control.size
       /\ \A k \in Len(consumed) + 1 .. Len(issued) : memory[ring.base][Slot(k - 1)] = issued[k]

\* The write pointer is at a command put into this ring.
Rung ==
  ring.write # Invalid =>
    Configured(ring) /\ \E w \in Len(consumed) .. Len(issued) : ring.write = Slot(w)

\* What a worker has in its hands, of whatever ring.
Snapped ==
  Executing => /\ worker.snap.generation <= ring.generation
               /\ worker.snap.base \in Bases /\ worker.snap.control.size \in Sizes
               /\ worker.at < worker.snap.control.size

\* The batch ends before the v-th command, and no doorbell since was behind it.
EndsAt(v) ==
  /\ worker.snap.write = Slot(v) /\ (worker.pc = "commit" <=> v = Done)
  /\ ring.write # Invalid => \E w \in v .. Len(issued) : ring.write = Slot(w)

\* The batch of the ring that is still programmed.
InBatch ==
  Current =>
    /\ Configured(ring)
    /\ worker.snap.base = ring.base /\ worker.snap.control.size = ring.control.size
    /\ worker.at = Slot(Done)
    /\ \A k \in 1 .. Len(worker.batch) : worker.batch[k] = issued[Len(consumed) + k]
    /\ worker.pc = "commit" => worker.batch # <<>>
    /\ \E v \in Done .. Len(issued) : EndsAt(v)

\* What the title is told.
Told ==
  Configured(ring) => title.word = IF WritebackEnabled(ring) THEN ring.read ELSE origin

\* What the invariant says of the ring.
RingInv == Intends /\ Stored /\ Rung /\ Snapped /\ InBatch /\ Told

\* The inductive invariant.
PInv == RingTypeOK /\ CallTypeOK /\ CallsKept /\ RingInv

-----------------------------------------------------------------------------
(***************************************************************************)
(* Remainders: x % s for a capacity s that is not a literal.               *)
(***************************************************************************)

\* A remainder is below the capacity.
LEMMA ModBound == ASSUME NEW x \in Nat, NEW s \in Nat \ {0}
  PROVE x % s \in 0 .. s - 1
OBVIOUS

\* A position inside the ring is its own remainder.
LEMMA ModSmall == ASSUME NEW s \in Nat \ {0}, NEW x \in 0 .. s - 1
  PROVE x % s = x
OBVIOUS

\* Quotient and remainder.
LEMMA DivMod == ASSUME NEW x \in Nat, NEW s \in Nat \ {0}
  PROVE  x \div s \in Nat /\ x = s * (x \div s) + (x % s)
OBVIOUS

\* Multiples of a capacity are at least a capacity apart.
LEMMA Times == ASSUME NEW s \in Nat \ {0}, NEW p \in Nat, NEW q \in Nat, p < q
  PROVE s * p + s <= s * q
<1>1. q - p \in Nat /\ q - p >= 1
  OBVIOUS
<1>2. s * q = s * p + s * (q - p)
  OBVIOUS
<1>3. s * (q - p) >= s
  BY <1>1
<1>4. s * p \in Nat /\ s * q \in Nat /\ s * (q - p) \in Nat
  BY <1>1
<1> QED BY <1>2, <1>3, <1>4

\* Quotient and remainder are unique.
LEMMA ModUnique ==
  ASSUME NEW s \in Nat \ {0}, NEW p \in Nat, NEW q \in Nat, NEW r \in 0 .. s - 1, NEW t \in 0 .. s - 1,
         s * p + r = s * q + t
  PROVE  r = t /\ p = q
<1>0. s * p \in Nat /\ s * q \in Nat
  OBVIOUS
<1>1. ~(p < q)
  BY <1>0, Times
<1>2. ~(q < p)
  BY <1>0, Times
<1> QED BY <1>0, <1>1, <1>2

\* The remainder of a multiple and a rest.
LEMMA ModOf ==
  ASSUME NEW s \in Nat \ {0}, NEW p \in Nat, NEW r \in 0 .. s - 1
  PROVE  (s * p + r) % s = r
<1>1. s * p + r \in Nat
  OBVIOUS
<1> QED BY <1>1, DivMod, ModBound, ModUnique

\* One dword on from a position, and one command on.
LEMMA ModSuccessor ==
  ASSUME NEW s \in Nat \ {0}, NEW x \in Nat
  PROVE ((x % s) + 1) % s = (x + 1) % s
<1> DEFINE q == x \div s r == x % s
<1>1. q \in Nat /\ r \in 0 .. s - 1 /\ x = s * q + r /\ s * q \in Nat
  <2>1. q \in Nat /\ x = s * q + r
    BY DivMod
  <2>2. r \in 0 .. s - 1
    BY ModBound
  <2> HIDE DEF q, r
  <2> QED BY <2>1, <2>2
<1> HIDE DEF q, r
<1>2. CASE r + 1 < s
  <2>1. (r + 1) % s = r + 1 /\ r + 1 \in 0 .. s - 1
    BY <1>1, <1>2, ModSmall
  <2>2. (s * q + (r + 1)) % s = r + 1
    BY <1>1, <2>1, ModOf
  <2>3. x + 1 = s * q + (r + 1)
    BY <1>1
  <2> QED BY <2>1, <2>2, <2>3 DEF r
<1>3. CASE r + 1 = s
  <2>1. x + 1 = s * (q + 1) + 0
    BY <1>1, <1>3
  <2>2. (s * (q + 1) + 0) % s = 0 /\ s % s = 0
    <3>1. (s * (q + 1) + 0) % s = 0
      BY <1>1, ModOf
    <3>2. s = s * 1 + 0
      OBVIOUS
    <3>3. (s * 1 + 0) % s = 0
      BY ModOf
    <3> QED BY <3>1, <3>2, <3>3
  <2> QED BY <1>3, <2>1, <2>2 DEF r
<1> QED BY <1>1, <1>2, <1>3

\* Within one round of the ring, equal remainders are of equal numbers.
LEMMA ModInjective ==
  ASSUME NEW s \in Nat \ {0}, NEW x \in Nat, NEW y \in Nat, x <= y, y < x + s, x % s = y % s
  PROVE x = y
<1> DEFINE p == x \div s q == y \div s r == x % s
<1>1. /\ p \in Nat /\ q \in Nat /\ r \in 0 .. s - 1
      /\ x = s * p + r /\ y = s * q + r /\ s * p \in Nat /\ s * q \in Nat
  <2>1. p \in Nat /\ x = s * p + r /\ q \in Nat /\ y = s * q + r
    BY DivMod
  <2>2. r \in 0 .. s - 1
    BY ModBound
  <2> HIDE DEF p, q, r
  <2> QED BY <2>1, <2>2
<1> HIDE DEF p, q, r
<1>2. ~(p < q)
  BY <1>1, Times
<1>3. ~(q < p)
  BY <1>1, Times
<1> QED BY <1>1, <1>2, <1>3

\* One whole round changes no remainder.
LEMMA ModPeriod ==
  ASSUME NEW s \in Nat \ {0}, NEW x \in Nat
  PROVE  (x + s) % s = x % s
<1> DEFINE q == x \div s r == x % s
<1>1. q \in Nat /\ r \in 0 .. s - 1 /\ x = s * q + r /\ s * q \in Nat
  <2>1. q \in Nat /\ x = s * q + r
    BY DivMod
  <2>2. r \in 0 .. s - 1
    BY ModBound
  <2> HIDE DEF q, r
  <2> QED BY <2>1, <2>2
<1> HIDE DEF q, r
<1>2. x + s = s * (q + 1) + r
  BY <1>1
<1>3. (s * (q + 1) + r) % s = r
  BY <1>1, ModOf
<1> QED BY <1>2, <1>3 DEF r

-----------------------------------------------------------------------------
(***************************************************************************)
(* The functions.                                                          *)
(***************************************************************************)

\* A call of the title leaves the worker, the functions and the hosts alone.
LEMMA TitleFrame == ASSUME TitleNext PROVE UNCHANGED <<callVars, worker>>
<1>1. ASSUME NEW r, Reprogram(r) PROVE UNCHANGED <<callVars, worker>>
  BY <1>1 DEF Reprogram
<1> QED BY <1>1 DEF TitleNext, TitleInitialize, TitleWritesBase, TitleWritesSize,
          TitleWritesAddress, TitleEnablesWriteback, TitlePuts, TitleRings, TitleSkips,
          TitleTransfers, TitleDone

\* A step of the worker other than RunFunction leaves the functions and the hosts
\* alone, and only CheckExit ends the worker.
LEMMA WorkerFrame ==
  ASSUME RingTypeOK, WorkerNext, ~RunFunction
  PROVE  /\ UNCHANGED <<queue, calls, gate, paused, host>>
         /\ worker'.pc = "exited" => CheckExit
<1> USE DEF WorkerGoes, callVars, RingTypeOK
<1>1. CASE QueueIsEmpty
  BY <1>1 DEF QueueIsEmpty
<1>2. CASE StayPaused
  BY <1>2 DEF StayPaused
<1>3. CASE LeavePause
  BY <1>3 DEF LeavePause
<1>4. CASE CheckExit
  BY <1>4 DEF CheckExit
<1>5. CASE Stall
  BY <1>5 DEF Stall
<1>6. CASE TakeBatch
  BY <1>6 DEF TakeBatch
<1>7. CASE ExecutePacket
  BY <1>7 DEF ExecutePacket
<1>8. CASE CommitReadPointer
  BY <1>8 DEF CommitReadPointer
<1> QED BY <1>1, <1>2, <1>3, <1>4, <1>5, <1>6, <1>7, <1>8 DEF WorkerNext

\* What pending_fns_ holds: Pause's function, any other, the end of tracing.
Functions == Hosts \cup {"call", "end tracing"}

\* What a host's call does to the queue and the gate.
LEMMA HostStep ==
  ASSUME NEW h \in Hosts, CallTypeOK,
         Pause(h) \/ Resume(h) \/ CallInThread(h) \/ Shutdown(h) \/ ShutdownReturns(h)
  PROVE  /\ UNCHANGED <<ringVars, worker>>
         /\ \/ \E fn \in Functions : Accept(fn)
            \/ UNCHANGED <<queue, calls>>
            \/ worker.pc = "exited" /\ queue' = <<>> /\ calls' = calls
         /\ gate' = gate \/ (~gate'.accepting /\ ~gate'.running)
         /\ gate' \in [accepting : BOOLEAN, running : BOOLEAN]
         /\ paused' \in BOOLEAN /\ workerPaused' \in BOOLEAN
         /\ \E s \in {"idle", "pausing", "joining", "shut down"} : host' = [host EXCEPT ![h] = s]
<1>1. CASE Pause(h)
  BY <1>1 DEF Pause, CallTypeOK, Functions
<1>2. CASE Resume(h)
  <2>1. host' = [host EXCEPT ![h] = "idle"]
    BY <1>2 DEF Resume, CallTypeOK
  <2>2. gate \in [accepting : BOOLEAN, running : BOOLEAN]
    BY DEF CallTypeOK
  <2> QED BY <1>2, <2>1, <2>2 DEF Resume
<1>3. CASE CallInThread(h)
  <2>1. host' = [host EXCEPT ![h] = "idle"]
    BY <1>3 DEF CallInThread, CallTypeOK
  <2> QED BY <1>3, <2>1 DEF CallInThread, CallTypeOK, Functions
<1>4. CASE Shutdown(h)
  BY <1>4 DEF Shutdown, Functions
<1>5. CASE ShutdownReturns(h)
  BY <1>5 DEF ShutdownReturns, CallTypeOK
<1> QED BY <1>1, <1>2, <1>3, <1>4, <1>5

\* A function accepted.
LEMMA AcceptStep ==
  ASSUME CallTypeOK, NEW fn \in Functions, Accept(fn)
  PROVE  /\ queue' \in Seq(Functions) /\ Len(queue') = Len(queue) + 1 /\ Len(queue) \in Nat
         /\ calls' \in [accepted : Nat, ran : Nat]
         /\ calls'.accepted = calls.accepted + 1 /\ calls'.ran = calls.ran
<1>1. queue \in Seq(Functions) /\ queue' = Append(queue, fn)
  BY DEF CallTypeOK, Functions, Accept
<1>2. queue' \in Seq(Functions) /\ Len(queue') = Len(queue) + 1 /\ Len(queue) \in Nat
  BY <1>1, AppendProperties, LenProperties
<1>3. calls \in [accepted : Nat, ran : Nat] /\ calls' = [calls EXCEPT !.accepted = @ + 1]
  BY DEF CallTypeOK, Accept
<1>4. /\ calls' \in [accepted : Nat, ran : Nat]
      /\ calls'.accepted = calls.accepted + 1 /\ calls'.ran = calls.ran
  BY <1>3
<1> QED BY <1>2, <1>4

\* A function run.
LEMMA RunStep ==
  ASSUME CallTypeOK, RunFunction, RingTypeOK
  PROVE  /\ queue' \in Seq(Functions) /\ Len(queue) = Len(queue') + 1 /\ Len(queue') \in Nat
         /\ calls' \in [accepted : Nat, ran : Nat]
         /\ calls'.accepted = calls.accepted /\ calls'.ran = calls.ran + 1
         /\ workerPaused' \in BOOLEAN
         /\ host' \in [Hosts -> {"idle", "pausing", "joining", "shut down"}]
         /\ UNCHANGED <<gate, paused>> /\ worker'.pc # "exited"
<1>1. queue \in Seq(Functions) /\ queue # <<>> /\ queue' = Tail(queue)
  BY DEF CallTypeOK, Functions, RunFunction
<1>2. queue' \in Seq(Functions) /\ Len(queue) = Len(queue') + 1 /\ Len(queue') \in Nat
  <2>1. Len(Tail(queue)) = Len(queue) - 1 /\ Tail(queue) \in Seq(Functions)
    BY <1>1, HeadTailProperties
  <2>2. Len(queue) \in Nat /\ Len(queue') \in Nat
    BY <1>1, <2>1, LenProperties
  <2> QED BY <1>1, <2>1, <2>2
<1>3. worker'.pc # "exited"
  BY DEF RunFunction, WorkerGoes, AfterFunction, RingTypeOK
<1>4. calls' \in [accepted : Nat, ran : Nat]
      /\ calls'.accepted = calls.accepted /\ calls'.ran = calls.ran + 1
  <2>1. calls \in [accepted : Nat, ran : Nat] /\ calls' = [calls EXCEPT !.ran = @ + 1]
    BY DEF CallTypeOK, RunFunction
  <2> QED BY <2>1
<1>5. /\ workerPaused' \in BOOLEAN
      /\ host' \in [Hosts -> {"idle", "pausing", "joining", "shut down"}]
      /\ UNCHANGED <<gate, paused>>
  BY DEF RunFunction, CallTypeOK
<1> QED BY <1>2, <1>3, <1>4, <1>5

\* Every step keeps the types of what the hosts share with the worker.
LEMMA CallTypeStep == ASSUME RingTypeOK, CallTypeOK, Next PROVE CallTypeOK'
<1>1. CASE TitleNext
  BY <1>1, TitleFrame DEF CallTypeOK, callVars
<1>2. CASE RunFunction
  BY <1>2, RunStep DEF CallTypeOK, Functions
<1>3. CASE WorkerNext /\ ~RunFunction
  <2>1. UNCHANGED <<queue, calls, gate, paused, host>>
    BY <1>3, WorkerFrame
  <2>2. workerPaused' \in BOOLEAN
    BY <1>3 DEF WorkerNext, QueueIsEmpty, StayPaused, LeavePause, CheckExit, Stall, TakeBatch,
       ExecutePacket, CommitReadPointer, callVars, CallTypeOK
  <2> QED BY <2>1, <2>2 DEF CallTypeOK
<1>4. ASSUME NEW h \in Hosts,
             Pause(h) \/ Resume(h) \/ CallInThread(h) \/ Shutdown(h) \/ ShutdownReturns(h)
      PROVE  CallTypeOK'
  <2>1. queue' \in Seq(Functions) /\ calls' \in [accepted : Nat, ran : Nat]
    <3>1. CASE \E fn \in Functions : Accept(fn)
      BY <3>1, AcceptStep
    <3>2. CASE calls' = calls /\ (queue' = queue \/ queue' = <<>>)
      <4>1. queue \in Seq(Functions) /\ <<>> \in Seq(Functions)
            /\ calls \in [accepted : Nat, ran : Nat]
        BY EmptySeq DEF CallTypeOK, Functions
      <4> QED BY <3>2, <4>1
    <3> QED BY <1>4, <3>1, <3>2, HostStep
  <2>2. gate' \in [accepting : BOOLEAN, running : BOOLEAN]
    BY <1>4, HostStep
  <2>3. host' \in [Hosts -> {"idle", "pausing", "joining", "shut down"}]
    <3>1. PICK s \in {"idle", "pausing", "joining", "shut down"} : host' = [host EXCEPT ![h] = s]
      BY <1>4, HostStep
    <3> QED BY <3>1 DEF CallTypeOK
  <2>4. paused' \in BOOLEAN /\ workerPaused' \in BOOLEAN
    BY <1>4, HostStep
  <2> QED BY <2>1, <2>2, <2>3, <2>4 DEF CallTypeOK, Functions
<1> QED BY <1>1, <1>2, <1>3, <1>4 DEF Next, WorkerNext, HostNext

\* Every step keeps CallsKept: the gate is closed before the worker is stopped, and
\* the worker decides to exit with the queue before it.
LEMMA KeptStep == ASSUME RingTypeOK, CallTypeOK, CallsKept, Next PROVE CallsKept'
<1>1. CASE TitleNext
  BY <1>1, TitleFrame DEF CallsKept, callVars
<1>2. CASE RunFunction
  <2>1. calls.accepted = calls.ran + Len(queue) /\ calls.ran \in Nat
    BY DEF CallsKept, CallTypeOK
  <2> HIDE DEF CallsKept
  <2>2. calls'.accepted = calls'.ran + Len(queue')
    <3>1. /\ Len(queue) = Len(queue') + 1 /\ Len(queue') \in Nat
          /\ calls'.accepted = calls.accepted /\ calls'.ran = calls.ran + 1
      BY <1>2, RunStep
    <3> QED BY <2>1, <3>1
  <2> QED BY <1>2, <2>2, RunStep DEF CallsKept
<1>3. CASE WorkerNext /\ ~RunFunction
  <2>1. UNCHANGED <<queue, calls, gate>> /\ (worker'.pc = "exited" => CheckExit)
    BY <1>3, WorkerFrame
  <2>2. CheckExit /\ worker'.pc = "exited" => ~gate.running /\ queue = <<>>
    BY DEF CheckExit, WorkerGoes, ShouldExit, RingTypeOK
  <2> QED BY <2>1, <2>2 DEF CallsKept
<1>4. ASSUME NEW h \in Hosts,
             Pause(h) \/ Resume(h) \/ CallInThread(h) \/ Shutdown(h) \/ ShutdownReturns(h)
      PROVE  CallsKept'
  <2>1. worker' = worker
    BY <1>4, HostStep
  <2>2. ~gate'.running => ~gate'.accepting
    BY <1>4, HostStep DEF CallsKept
  <2>3. gate' = gate \/ ~gate'.running
    BY <1>4, HostStep
  <2>4. CASE \E fn \in Functions : Accept(fn)
    <3>1. calls'.accepted = calls'.ran + Len(queue')
      <4>1. calls.accepted = calls.ran + Len(queue) /\ calls.ran \in Nat
        BY DEF CallsKept, CallTypeOK
      <4> QED BY <2>4, <4>1, AcceptStep
    <3>2. gate.running
      <4>1. Len(queue') # Len(queue)
        BY <2>4, AcceptStep
      <4>2. Pause(h) \/ CallInThread(h) => gate.running
        BY DEF Pause, CallInThread, CallsKept
      <4>3. Resume(h) => queue' = queue
        BY DEF Resume
      <4>4. ~ShutdownReturns(h)
        <5>1. calls'.accepted = calls.accepted + 1 /\ calls.accepted \in Nat
          BY <2>4, AcceptStep DEF CallTypeOK
        <5>2. calls'.accepted # calls.accepted
          BY <5>1
        <5> QED BY <5>2 DEF ShutdownReturns
      <4> QED BY <1>4, <4>1, <4>2, <4>3, <4>4 DEF Shutdown
    <3> QED BY <2>1, <2>2, <3>1, <3>2 DEF CallsKept
  <2>5. CASE UNCHANGED <<queue, calls>>
    <3>1. ~gate.running => ~gate'.running
      BY <2>3
    <3> QED BY <2>1, <2>2, <2>5, <3>1 DEF CallsKept
  <2>6. CASE worker.pc = "exited" /\ queue' = <<>> /\ calls' = calls
    <3>1. ~gate.running /\ queue = <<>> /\ ~gate'.running
      BY <2>3, <2>6 DEF CallsKept
    <3> QED BY <2>1, <2>2, <2>6, <3>1 DEF CallsKept
  <2> QED BY <1>4, <2>4, <2>5, <2>6, HostStep
<1> QED BY <1>1, <1>2, <1>3, <1>4 DEF Next, WorkerNext, HostNext
-----------------------------------------------------------------------------
(***************************************************************************)
(* Positions in the ring.                                                  *)
(***************************************************************************)
LEMMA PositionBound ==
  ASSUME NEW o \in Nat, NEW k \in Nat, NEW size \in Nat \ {0}
  PROVE  Position(o, k, size) \in 0 .. size - 1
<1>1. o + k \in Nat
  OBVIOUS
<1> QED BY <1>1, ModBound DEF Position

\* The dword after the k-th command is that of the next.
LEMMA PositionNext ==
  ASSUME NEW o \in Nat, NEW k \in Nat, NEW size \in Nat \ {0}
  PROVE  (Position(o, k, size) + 1) % size = Position(o, k + 1, size)
<1>1. o + k \in Nat /\ o + (k + 1) = (o + k) + 1
  OBVIOUS
<1> QED BY <1>1, ModSuccessor DEF Position

\* A whole ring of commands later the dwords repeat.
LEMMA PositionPeriod ==
  ASSUME NEW o \in Nat, NEW k \in Nat, NEW size \in Nat \ {0}
  PROVE  Position(o, k + size, size) = Position(o, k, size)
<1>1. o + k \in Nat /\ o + (k + size) = (o + k) + size
  OBVIOUS
<1> QED BY <1>1, ModPeriod DEF Position

\* Two commands less than a ring apart have two dwords.
LEMMA PositionInjective ==
  ASSUME NEW o \in Nat, NEW size \in Nat \ {0}, NEW j \in Nat, NEW k \in Nat,
         j <= k, k < j + size, Position(o, j, size) = Position(o, k, size)
  PROVE  j = k
<1>1. o + j \in Nat /\ o + k \in Nat /\ o + j <= o + k /\ o + k < (o + j) + size
  OBVIOUS
<1>2. o + j = o + k
  BY <1>1, ModInjective DEF Position
<1> QED BY <1>2

\* The first command is at origin.
LEMMA PositionZero ==
  ASSUME NEW size \in Nat \ {0}, NEW o \in 0 .. size - 1
  PROVE  Position(o, 0, size) = o
<1>1. o + 0 = o
  OBVIOUS
<1> QED BY <1>1, ModSmall DEF Position

\* The types of the registers, and of those of a programmed ring.
LEMMA Fields ==
  ASSUME NEW r \in Rings
  PROVE  /\ r.generation \in Nat /\ r.base \in Bases \cup {NoBase}
         /\ r.control.size \in Sizes \cup {0} /\ r.control \in Controls
         /\ r.read \in Nat /\ r.readWrite \in Nat /\ r.write \in Nat
         /\ Configured(r) => /\ r.base \in Bases /\ r.control.size \in Sizes
                             /\ r.control.size \in Nat \ {0}
<1>1. Sizes \subseteq Nat \ {0}
  BY ProcessorAssumption
<1> QED BY <1>1 DEF Rings, Controls, Configured

-----------------------------------------------------------------------------
(* The steps that leave the ring alone. *)

\* Ring and title rest, and the worker's hands are empty before and after.
LEMMA EmptyHanded ==
  ASSUME RingTypeOK, RingInv, UNCHANGED ringVars,
         worker' \in [pc : {"pop", "check", "paused", "look", "take", "exited"},
                      snap : Rings, at : Nat, batch : Seq(Nat)]
  PROVE  RingTypeOK' /\ RingInv'
<1>1. ~Executing'
  BY DEF Executing
<1>2. RingTypeOK'
  BY DEF RingTypeOK, ringVars
<1>3. Snapped' /\ InBatch'
  BY <1>1 DEF Snapped, InBatch, Current
<1>4. Intends' /\ Stored' /\ Rung' /\ Told'
  BY DEF RingInv, Intends, Stored, Rung, Told, ringVars, Slot, Configured, WritebackEnabled
<1> QED BY <1>2, <1>3, <1>4 DEF RingInv

\* The worker without a batch: functions, pauses, the end and the stall.
LEMMA WorkerWaits ==
  ASSUME RingTypeOK, RingInv,
         RunFunction \/ QueueIsEmpty \/ StayPaused \/ LeavePause \/ CheckExit \/ Stall
  PROVE  RingTypeOK' /\ RingInv'
<1>1. UNCHANGED ringVars
  BY DEF RunFunction, QueueIsEmpty, StayPaused, LeavePause, CheckExit, Stall
<1>2. \E pc \in {"pop", "check", "paused", "look", "take", "exited"} : WorkerGoes(pc)
  BY DEF RunFunction, QueueIsEmpty, StayPaused, LeavePause, CheckExit, Stall, AfterFunction
<1>3. worker' \in [pc : {"pop", "check", "paused", "look", "take", "exited"},
                   snap : Rings, at : Nat, batch : Seq(Nat)]
  BY <1>2 DEF WorkerGoes, RingTypeOK
<1> QED BY <1>1, <1>3, EmptyHanded

\* A step of a host, or a write that changes no register.
LEMMA RingRests ==
  ASSUME RingTypeOK, RingInv, UNCHANGED <<ringVars, worker>>
  PROVE  RingTypeOK' /\ RingInv'
<1>1. RingTypeOK'
  BY DEF RingTypeOK, ringVars
<1>2. Intends' /\ Stored' /\ Rung' /\ Told'
  BY DEF RingInv, Intends, Stored, Rung, Told, ringVars, Slot, Configured, WritebackEnabled
<1>3. Snapped' /\ InBatch'
  BY DEF RingInv, Snapped, InBatch, EndsAt, Current, Executing, Done, ringVars, Slot, Configured
<1> QED BY <1>1, <1>2, <1>3 DEF RingInv
-----------------------------------------------------------------------------
(* A new ring. *)

\* A new generation has read nothing and heard no doorbell.
LEMMA BeginsNewRing ==
  ASSUME NEW r \in Rings
  PROVE  /\ BeginNewRing(r) \in Rings
         /\ BeginNewRing(r).generation = r.generation + 1
         /\ BeginNewRing(r).read = 0 /\ BeginNewRing(r).write = Invalid
         /\ BeginNewRing(r).control = r.control
<1>1. BeginNewRing(r) = [r EXCEPT !.generation = r.generation + 1, !.read = 0, !.write = Invalid]
  BY DEF BeginNewRing, NewGeneration, Rings
<1>2. r.generation \in Nat /\ r.generation + 1 \in Nat /\ Invalid \in Nat
  BY DEF Rings, Invalid
<1> DEFINE g == r.generation + 1
<1> HIDE DEF Invalid, g
<1>3. BeginNewRing(r) = [r EXCEPT !.generation = g, !.read = 0, !.write = Invalid]
  BY <1>1 DEF g
<1>4. g \in Nat /\ 0 \in Nat /\ Invalid \in Nat
  BY <1>2 DEF g
<1>5. [r EXCEPT !.generation = g, !.read = 0, !.write = Invalid] \in Rings
  BY <1>4 DEF Rings
<1>6. /\ BeginNewRing(r).generation = g
      /\ BeginNewRing(r).read = 0 /\ BeginNewRing(r).write = Invalid
      /\ BeginNewRing(r).control = r.control
  BY <1>3 DEF Rings
<1> QED BY <1>3, <1>5, <1>6 DEF g

\* What the ring becomes when the title programs it.
LEMMA Programs ==
  ASSUME RingTypeOK, RingInv, NEW r, Reprogram(r), title.pc = "idle",
         \/ \E b \in Bases, size \in Sizes : r = Initialize(b, size)
         \/ \E b \in Bases : r = WriteBase(b)
         \/ \E size \in Sizes : r = WriteControl([ring.control EXCEPT !.size = size])
  PROVE  \/ r = ring
         \/ /\ r \in Rings /\ r.generation = ring.generation + 1
            /\ r.read = 0 /\ r.write = Invalid /\ ~r.control.transfer
<1>0. ring \in Rings /\ ~ring.control.transfer /\ ring.control \in Controls
  BY Fields DEF RingTypeOK, RingInv, Intends
<1>1. CASE \E b \in Bases, size \in Sizes : r = Initialize(b, size)
  <2>1. PICK b \in Bases, size \in Sizes : r = Initialize(b, size)
    BY <1>1
  <2> DEFINE n == [NoControl EXCEPT !.size = size]
             q == [ring EXCEPT !.base = b, !.control = n, !.address = FALSE, !.readWrite = 0]
  <2>2. n \in Controls /\ n.transfer = FALSE
    BY DEF NoControl, Controls
  <2> HIDE DEF n
  <2>3. q \in Rings /\ q.generation = ring.generation /\ q.control = n
    BY <1>0, <2>2 DEF Rings
  <2>4. r = BeginNewRing(q)
    BY <2>1 DEF Initialize, n
  <2> HIDE DEF q
  <2> QED BY <2>2, <2>3, <2>4, BeginsNewRing
<1>2. CASE \E b \in Bases : r = WriteBase(b)
  <2>1. PICK b \in Bases : r = WriteBase(b)
    BY <1>2
  <2> DEFINE q == [ring EXCEPT !.base = b]
  <2>2. q \in Rings /\ q.generation = ring.generation /\ q.control = ring.control
    BY <1>0 DEF Rings
  <2>3. r = ring \/ r = BeginNewRing(q)
    BY <2>1 DEF WriteBase
  <2> HIDE DEF q
  <2> QED BY <1>0, <2>2, <2>3, BeginsNewRing
<1>3. CASE \E size \in Sizes : r = WriteControl([ring.control EXCEPT !.size = size])
  <2>1. PICK size \in Sizes : r = WriteControl([ring.control EXCEPT !.size = size])
    BY <1>3
  <2> DEFINE n == [ring.control EXCEPT !.size = size]
             q == [ring EXCEPT !.control = n]
  <2>2. n \in Controls /\ n.transfer = ring.control.transfer /\ n.size = size
    BY <1>0 DEF Controls
  <2>3. size = ring.control.size => n = ring.control
    BY <1>0 DEF Controls
  <2>4. size = ring.control.size => q = ring
    BY <1>0, <2>3 DEF Rings
  <2>5. r = IF n.size = ring.control.size THEN q ELSE BeginNewRing(q)
    BY <2>1 DEF WriteControl
  <2> HIDE DEF n
  <2>6. q \in Rings /\ q.generation = ring.generation /\ q.control = n
    BY <1>0, <2>2 DEF Rings
  <2> HIDE DEF q
  <2> QED BY <1>0, <2>2, <2>4, <2>5, <2>6, BeginsNewRing
<1> QED BY <1>1, <1>2, <1>3

\* Programming the ring: a batch in flight belongs to an older one.
LEMMA NewRingStep ==
  ASSUME RingTypeOK, RingInv, TitleInitialize \/ TitleWritesBase \/ TitleWritesSize
  PROVE  RingTypeOK' /\ RingInv'
<1>1. PICK r : /\ Reprogram(r) /\ title.pc = "idle"
               /\ \/ \E b \in Bases, size \in Sizes : r = Initialize(b, size)
                  \/ \E b \in Bases : r = WriteBase(b)
                  \/ \E size \in Sizes : r = WriteControl([ring.control EXCEPT !.size = size])
  BY DEF TitleInitialize, TitleWritesBase, TitleWritesSize, May
<1>2. CASE r = ring
  <2>1. UNCHANGED <<ringVars, worker>>
    BY <1>1, <1>2 DEF Reprogram, ringVars
  <2> QED BY <2>1, RingRests
<1>3. CASE /\ r \in Rings /\ r.generation = ring.generation + 1
           /\ r.read = 0 /\ r.write = Invalid /\ ~r.control.transfer
  <2>1. ring \in Rings /\ ring.generation \in Nat /\ r.generation # ring.generation
    <3>1. ring \in Rings /\ ring.generation \in Nat
      BY DEF RingTypeOK, Rings
    <3> QED BY <1>3, <3>1
  <2>2. /\ ring' = r /\ issued' = <<>> /\ consumed' = <<>> /\ origin' = 0
        /\ title' = [title EXCEPT !.at = 0, !.word = 0] /\ UNCHANGED <<memory, worker>>
    BY <1>1, <2>1 DEF Reprogram
  <2>3. title'.at = 0 /\ title'.word = 0 /\ title'.pc = "idle"
    BY <1>1, <2>2 DEF RingTypeOK
  <2>4. RingTypeOK'
    <3>1. <<>> \in Seq(Nat)
      BY EmptySeq
    <3> QED BY <1>3, <2>2, <3>1 DEF RingTypeOK
  <2>5. Intends'
    BY <1>3, <2>2, <2>3 DEF Intends
  <2>6. Stored'
    <3>1. Len(issued') = 0 /\ Len(consumed') = 0
      BY <2>2
    <3>2. ASSUME Configured(ring') PROVE Position(0, 0, ring'.control.size) = 0
                                         /\ ring'.control.size \in Nat \ {0}
      BY <1>3, <2>2, <3>2, Fields, PositionZero
    <3> QED BY <1>3, <2>2, <2>3, <3>1, <3>2 DEF Stored, Slot
  <2>7. Rung'
    BY <1>3, <2>2 DEF Rung
  <2>8. Snapped' /\ ~Current'
    <3>1. Executing => /\ worker.snap.generation <= ring.generation
                       /\ worker.snap.generation \in Nat
      BY DEF RingInv, Snapped, RingTypeOK, Rings
    <3>2. Executing' => Executing
      BY <2>2 DEF Executing
    <3>3. Executing => /\ worker.snap.generation <= r.generation
                       /\ worker.snap.generation # r.generation
      BY <1>3, <2>1, <3>1
    <3>4. ~Current'
      BY <2>2, <3>2, <3>3 DEF Current
    <3>5. Snapped'
      BY <2>2, <3>2, <3>3 DEF RingInv, Snapped
    <3> QED BY <3>4, <3>5
  <2>9. Told'
    BY <1>3, <2>2, <2>3 DEF Told
  <2> QED BY <2>4, <2>5, <2>6, <2>7, <2>8, <2>9 DEF RingInv, InBatch
<1> QED BY <1>1, <1>2, <1>3, Programs

-----------------------------------------------------------------------------
(* Calls that leave the pointers alone. *)

\* Neither pointers nor commands change.
SamePointers ==
  /\ ring'.generation = ring.generation /\ ring'.base = ring.base
  /\ ring'.control.size = ring.control.size
  /\ ring'.read = ring.read /\ ring'.write = ring.write
  /\ title'.at = title.at /\ title'.word = title.word
  /\ UNCHANGED <<memory, issued, consumed, origin, worker>>

\* What the invariant says of pointers and commands is kept then.
LEMMA Carries ==
  ASSUME RingTypeOK, RingInv, SamePointers
  PROVE  Stored' /\ Rung' /\ Snapped' /\ InBatch'
<1>1. Stored' /\ Rung'
  BY DEF RingInv, Stored, Rung, Slot, Configured, SamePointers
<1>2. Snapped'
  BY DEF RingInv, Snapped, Executing, SamePointers
<1>3. InBatch'
  BY DEF RingInv, InBatch, EndsAt, Current, Executing, Done, Slot, Configured, SamePointers
<1> QED BY <1>1, <1>2, <1>3

\* RPTR_WR and the transfer bit, before the doorbell.
LEMMA SkipsStep ==
  ASSUME RingTypeOK, RingInv, TitleSkips
  PROVE  RingTypeOK' /\ RingInv'
<1>1. ring \in Rings /\ title.at \in Nat /\ ring.control \in Controls
  BY Fields DEF RingTypeOK
<1>2. /\ ring' \in Rings /\ SamePointers /\ ring'.control.transfer /\ ring'.readWrite = title.at
      /\ title'.pc = "skip" /\ WritebackEnabled(ring') = WritebackEnabled(ring)
      /\ Configured(ring') /\ Configured(ring)
  <2> DEFINE n == [ring.control EXCEPT !.transfer = TRUE]
  <2>1. n \in Controls /\ n.transfer /\ n.size = ring.control.size
        /\ n.noUpdate = ring.control.noUpdate
    BY <1>1 DEF Controls
  <2>2. ring' = [ring EXCEPT !.readWrite = title.at, !.control = n]
    BY <1>1 DEF TitleSkips, Rings
  <2> HIDE DEF n
  <2>3. ring' \in Rings /\ ring'.control = n /\ ring'.readWrite = title.at
        /\ ring'.generation = ring.generation /\ ring'.base = ring.base
        /\ ring'.read = ring.read /\ ring'.write = ring.write /\ ring'.address = ring.address
    BY <1>1, <2>1, <2>2 DEF Rings
  <2>4. title'.pc = "skip" /\ title'.at = title.at /\ title'.word = title.word
    BY DEF TitleSkips, RingTypeOK
  <2> QED BY <2>1, <2>3, <2>4 DEF SamePointers, WritebackEnabled, Configured, TitleSkips
<1>3. RingTypeOK'
  BY <1>2 DEF RingTypeOK, TitleSkips, SamePointers
<1>4. Intends'
  <2>1. title'.at = title.at
    BY <1>2 DEF SamePointers
  <2> QED BY <1>2, <2>1 DEF Intends
<1>5. Told'
  BY <1>2 DEF RingInv, Told, SamePointers
<1> QED BY <1>2, <1>3, <1>4, <1>5, Carries DEF RingInv

\* A write to the control register that keeps the capacity.
LEMMA ControlWritten ==
  ASSUME ring \in Rings, NEW c \in Controls, c.size = ring.control.size, ring' = WriteControl(c)
  PROVE  /\ ring' \in Rings /\ ring'.control = c
         /\ ring'.generation = ring.generation /\ ring'.base = ring.base
         /\ ring'.read = ring.read /\ ring'.write = ring.write
         /\ ring'.readWrite = ring.readWrite /\ ring'.address = ring.address
<1>1. ring' = [ring EXCEPT !.control = c]
  BY DEF WriteControl
<1> QED BY <1>1 DEF Rings

\* The transfer bit off again.
LEMMA DoneStep ==
  ASSUME RingTypeOK, RingInv, TitleDone
  PROVE  RingTypeOK' /\ RingInv'
<1> DEFINE c == [ring.control EXCEPT !.transfer = FALSE]
<1>1. ring \in Rings /\ title.at \in Nat /\ ring.control \in Controls
  BY Fields DEF RingTypeOK
<1>2. c \in Controls /\ c.size = ring.control.size /\ ~c.transfer /\ c.noUpdate = ring.control.noUpdate
  BY <1>1 DEF Controls
<1>3. ring' = WriteControl(c)
  BY DEF TitleDone
<1> HIDE DEF c
<1>4. title'.pc = "idle" /\ title'.at = title.at /\ title'.word = title.word
      /\ UNCHANGED <<memory, issued, consumed, origin, worker>>
  BY DEF TitleDone, RingTypeOK
<1>5. SamePointers /\ ring'.control = c /\ ring' \in Rings /\ ring'.address = ring.address
  BY <1>1, <1>2, <1>3, <1>4, ControlWritten DEF SamePointers
<1>6. RingTypeOK'
  BY <1>5 DEF RingTypeOK, TitleDone, SamePointers
<1>7. Intends'
  BY <1>2, <1>4, <1>5 DEF Intends
<1>8. Told'
  BY <1>2, <1>5 DEF RingInv, Told, SamePointers, WritebackEnabled, Configured
<1> QED BY <1>5, <1>6, <1>7, <1>8, Carries DEF RingInv

\* The read pointer of a ring into which nothing has been put.
LEMMA NothingPut ==
  ASSUME RingTypeOK, RingInv, issued = <<>>, Configured(ring)
  PROVE  ring.read = origin /\ title.word = origin
<1>1. Len(issued) = 0 /\ Len(consumed) \in Nat
  BY LenProperties DEF RingTypeOK
<1>2. Len(consumed) = 0
  BY <1>1 DEF RingInv, Stored
<1>3. ring.control.size \in Nat \ {0} /\ origin \in 0 .. ring.control.size - 1
  BY Fields DEF RingTypeOK, RingInv, Stored
<1>4. Position(origin, 0, ring.control.size) = origin
  BY <1>3, PositionZero
<1>5. ring.read = origin
  BY <1>2, <1>4 DEF RingInv, Stored, Slot
<1> QED BY <1>5 DEF RingInv, Told

\* The writeback address: the word holds the read pointer of an unused ring.
LEMMA WritesAddressStep ==
  ASSUME RingTypeOK, RingInv, TitleWritesAddress
  PROVE  RingTypeOK' /\ RingInv'
<1>1. ring \in Rings /\ Configured(ring) /\ issued = <<>>
  BY DEF RingTypeOK, TitleWritesAddress
<1>2. /\ ring' \in Rings /\ ring'.control = ring.control
      /\ ring'.generation = ring.generation /\ ring'.base = ring.base
      /\ ring'.read = ring.read /\ ring'.write = ring.write
      /\ ring'.readWrite = ring.readWrite
  BY <1>1 DEF TitleWritesAddress, Rings
<1>3. title'.pc = "enable" /\ title'.at = title.at /\ title'.word = title.word
      /\ UNCHANGED <<memory, issued, consumed, origin, worker>>
  BY DEF TitleWritesAddress, RingTypeOK
<1>4. SamePointers
  BY <1>2, <1>3 DEF SamePointers
<1>5. RingTypeOK'
  BY <1>2 DEF RingTypeOK, TitleWritesAddress
<1>6. Intends'
  <2>1. ~ring.control.transfer
    BY DEF RingInv, Intends, TitleWritesAddress, May
  <2> QED BY <1>1, <1>2, <1>3, <2>1 DEF Intends, Configured
<1>7. Told'
  BY <1>1, <1>2, <1>3, NothingPut DEF Told
<1> QED BY <1>4, <1>5, <1>6, <1>7, Carries DEF RingInv

\* Writeback on, for a ring still unused.
LEMMA EnablesWritebackStep ==
  ASSUME RingTypeOK, RingInv, TitleEnablesWriteback
  PROVE  RingTypeOK' /\ RingInv'
<1> DEFINE c == [ring.control EXCEPT !.noUpdate = FALSE]
<1>1. ring \in Rings /\ title.at \in Nat /\ ring.control \in Controls
      /\ issued = <<>> /\ Configured(ring) /\ ~ring.control.transfer
  BY Fields DEF RingTypeOK, RingInv, Intends, TitleEnablesWriteback
<1>2. c \in Controls /\ c.size = ring.control.size /\ ~c.transfer
  BY <1>1 DEF Controls
<1>3. ring' = WriteControl(c)
  BY DEF TitleEnablesWriteback
<1> HIDE DEF c
<1>4. title'.pc = "idle" /\ title'.at = title.at /\ title'.word = title.word
      /\ UNCHANGED <<memory, issued, consumed, origin, worker>>
  BY DEF TitleEnablesWriteback, RingTypeOK
<1>5. SamePointers /\ ring'.control = c /\ ring' \in Rings
  BY <1>1, <1>2, <1>3, <1>4, ControlWritten DEF SamePointers
<1>6. RingTypeOK'
  BY <1>5 DEF RingTypeOK, TitleEnablesWriteback, SamePointers
<1>7. Intends'
  BY <1>2, <1>4, <1>5 DEF Intends
<1>8. Told'
  BY <1>1, <1>4, <1>5, NothingPut DEF Told, SamePointers
<1> QED BY <1>5, <1>6, <1>7, <1>8, Carries DEF RingInv

-----------------------------------------------------------------------------
(* The doorbell. *)

\* What the invariant says of a programmed ring.
LEMMA Programmed ==
  ASSUME RingTypeOK, RingInv, Configured(ring)
  PROVE  /\ ring.base \in Bases /\ ring.control.size \in Sizes
         /\ ring.control.size \in Nat \ {0} /\ origin \in 0 .. ring.control.size - 1
         /\ Len(issued) \in Nat /\ Len(consumed) \in Nat
         /\ Len(consumed) <= Len(issued) /\ Len(issued) < Len(consumed) + ring.control.size
         /\ title.at = Position(origin, Len(issued), ring.control.size)
         /\ ring.read = Position(origin, Len(consumed), ring.control.size)
         /\ title.at \in 0 .. ring.control.size - 1
         /\ ring.read \in 0 .. ring.control.size - 1
<1>1. /\ ring.base \in Bases /\ ring.control.size \in Sizes
      /\ ring.control.size \in Nat \ {0}
  BY Fields DEF RingTypeOK
<1>2. /\ origin \in Nat /\ Len(issued) \in Nat /\ Len(consumed) \in Nat
  BY LenProperties DEF RingTypeOK
<1>3. /\ Len(consumed) <= Len(issued) /\ Len(issued) < Len(consumed) + ring.control.size
      /\ title.at = Position(origin, Len(issued), ring.control.size)
      /\ ring.read = Position(origin, Len(consumed), ring.control.size)
      /\ origin < ring.control.size
  BY DEF RingInv, Stored, Slot
<1>4. /\ title.at \in 0 .. ring.control.size - 1
      /\ ring.read \in 0 .. ring.control.size - 1
  BY <1>1, <1>2, <1>3, PositionBound
<1> QED BY <1>1, <1>2, <1>3, <1>4

\* The doorbell is never behind the one a batch in flight has seen.
LEMMA RingsStep ==
  ASSUME RingTypeOK, RingInv, TitleRings
  PROVE  RingTypeOK' /\ RingInv'
<1>1. ring \in Rings /\ Configured(ring) /\ ~ring.control.transfer
  BY DEF RingTypeOK, RingInv, Intends, TitleRings
<1>2. ring' = [ring EXCEPT !.write = title.at]
  <2>1. title.at % ring.control.size = title.at
    BY <1>1, Programmed, ModSmall
  <2>2. Transferred(ring) = ring
    BY <1>1 DEF Transferred
  <2> QED BY <1>1, <2>1, <2>2 DEF TitleRings, WriteWritePointer, NormalizePointer
<1>3. /\ ring' \in Rings /\ ring'.control = ring.control
      /\ ring'.generation = ring.generation /\ ring'.base = ring.base
      /\ ring'.read = ring.read /\ ring'.write = title.at
      /\ ring'.readWrite = ring.readWrite /\ ring'.address = ring.address
  <2>1. title.at \in Nat
    BY DEF RingTypeOK
  <2> QED BY <1>1, <1>2, <2>1 DEF Rings
<1>4. title'.pc = "idle" /\ title'.at = title.at /\ title'.word = title.word
      /\ UNCHANGED <<memory, issued, consumed, origin, worker>>
  BY DEF TitleRings, RingTypeOK
<1>5. RingTypeOK'
  BY <1>3 DEF RingTypeOK, TitleRings
<1>6. Intends'
  BY <1>1, <1>3, <1>4 DEF Intends
<1>7. Stored' /\ Told' /\ Snapped'
  BY <1>3, <1>4 DEF RingInv, Stored, Told, Snapped, Slot, Configured, WritebackEnabled, Executing
<1>8. Rung'
  <2>1. Len(issued) \in Len(consumed) .. Len(issued)
    BY <1>1, Programmed
  <2>2. ring'.write = Position(origin, Len(issued), ring.control.size)
    BY <1>1, <1>3, Programmed
  <2> QED BY <1>1, <1>3, <1>4, <2>1, <2>2 DEF Rung, Slot, Configured
<1>9. InBatch'
  <2>1. Current' <=> Current
    BY <1>3, <1>4 DEF Current, Executing
  <2>2. CASE ~Current
    BY <2>1, <2>2 DEF InBatch
  <2>3. CASE Current
    <3>1. PICK v \in Done .. Len(issued) : EndsAt(v)
      BY <2>3 DEF RingInv, InBatch
    <3>2. EndsAt(v)'
      <4>1. Len(issued) \in v .. Len(issued)
        BY <1>1, Programmed DEF Done, RingTypeOK
      <4>2. ring'.write = Position(origin, Len(issued), ring.control.size)
        BY <1>1, <1>3, Programmed
      <4> QED BY <1>3, <1>4, <3>1, <4>1, <4>2 DEF EndsAt, Slot, Done
    <3>3. v \in Done' .. Len(issued')
      BY <1>4, <3>1 DEF Done
    <3> QED BY <1>3, <1>4, <2>3, <3>2, <3>3 DEF RingInv, InBatch, Configured, Slot, Done
  <2> QED BY <2>2, <2>3
<1> QED BY <1>5, <1>6, <1>7, <1>8, <1>9 DEF RingInv

\* The numbers of commands are numbers.
LEMMA Lengths ==
  ASSUME RingTypeOK
  PROVE  /\ Len(consumed) \in Nat /\ Len(issued) \in Nat /\ Len(worker.batch) \in Nat
         /\ Done \in Nat /\ Done = Len(consumed) + Len(worker.batch)
<1>1. consumed \in Seq(Nat) /\ issued \in Seq(Nat) /\ worker.batch \in Seq(Nat)
  BY DEF RingTypeOK
<1>2. Len(consumed) \in Nat /\ Len(issued) \in Nat /\ Len(worker.batch) \in Nat
  BY <1>1, LenProperties
<1> QED BY <1>2 DEF Done

\* The transfer: what was put is dropped, and a batch in flight belongs to an older
\* ring, unless there was nothing to drop.
LEMMA TransfersStep ==
  ASSUME RingTypeOK, RingInv, TitleTransfers
  PROVE  RingTypeOK' /\ RingInv'
<1> DEFINE p == title.at
           size == ring.control.size
<1>1. ring \in Rings /\ Configured(ring) /\ ring.control.transfer /\ ring.readWrite = p
      /\ p \in 0 .. size - 1 /\ size \in Nat \ {0} /\ size \in Sizes /\ p \in Nat
      /\ ring.generation \in Nat
  <2>1. ring \in Rings /\ Configured(ring) /\ ring.control.transfer /\ ring.readWrite = p
    BY DEF RingTypeOK, RingInv, Intends, TitleTransfers
  <2>2. p \in Nat /\ ring.generation \in Nat
    BY DEF RingTypeOK, Rings
  <2> QED BY <2>1, <2>2, Programmed
<1>2. /\ title'.pc = "skipped" /\ title'.at = p /\ title'.word = p
      /\ title' \in [pc : {"idle", "enable", "put", "skip", "skipped"}, at : Nat, word : Nat, made : Nat]
      /\ issued' = <<>> /\ consumed' = <<>> /\ origin' = p
      /\ UNCHANGED <<memory, worker>>
  BY <1>1 DEF TitleTransfers, RingTypeOK
<1>3. /\ ring' \in Rings /\ ring'.control = ring.control /\ ring'.base = ring.base
      /\ ring'.address = ring.address /\ ring'.readWrite = ring.readWrite
      /\ ring'.read = p /\ ring'.write = p
      /\ \/ p = ring.read /\ ring'.generation = ring.generation
         \/ p # ring.read /\ ring'.generation = ring.generation + 1
  <2>1. p % size = p
    BY <1>1, ModSmall
  <2>2. ring' = [Transferred(ring) EXCEPT !.write = p]
    BY <1>1, <2>1 DEF TitleTransfers, WriteWritePointer, NormalizePointer
  <2>3. CASE p = ring.read
    <3>1. Transferred(ring) = ring
      BY <1>1, <2>1, <2>3 DEF Transferred, NormalizePointer
    <3> HIDE DEF p
    <3> QED BY <1>1, <2>2, <2>3, <3>1 DEF Rings
  <2>4. CASE p # ring.read
    <3>1. Transferred(ring) = NewGeneration([ring EXCEPT !.read = p])
      BY <1>1, <2>1, <2>4 DEF Transferred, NormalizePointer
    <3> DEFINE g == ring.generation + 1
    <3>2. g \in Nat
      BY <1>1
    <3>3. Transferred(ring) = [ring EXCEPT !.read = p, !.generation = g]
      BY <1>1, <3>1 DEF NewGeneration, Rings
    <3> HIDE DEF p, g
    <3>4. ring' = [ring EXCEPT !.read = p, !.generation = g, !.write = p]
      BY <1>1, <2>2, <3>3 DEF Rings
    <3>5. ring' \in Rings
      BY <1>1, <3>2, <3>4 DEF Rings
    <3>6. /\ ring'.control = ring.control /\ ring'.base = ring.base
          /\ ring'.address = ring.address /\ ring'.readWrite = ring.readWrite
          /\ ring'.read = p /\ ring'.write = p /\ ring'.generation = g
      BY <1>1, <3>4 DEF Rings
    <3> QED BY <2>4, <3>5, <3>6 DEF g
  <2> QED BY <2>3, <2>4
<1>4. RingTypeOK'
  <2>1. <<>> \in Seq(Nat)
    BY EmptySeq
  <2> QED BY <1>1, <1>2, <1>3, <2>1 DEF RingTypeOK
<1>5. Intends'
  BY <1>1, <1>2, <1>3 DEF Intends, Configured
<1>6. Len(issued') = 0 /\ Len(consumed') = 0 /\ Position(p, 0, size) = p
  BY <1>1, <1>2, PositionZero
<1>7. Stored'
  BY <1>1, <1>2, <1>3, <1>6 DEF Stored, Slot, Configured
<1>8. Rung'
  <2>1. 0 \in Len(consumed') .. Len(issued')
    BY <1>6
  <2> QED BY <1>1, <1>2, <1>3, <1>6, <2>1 DEF Rung, Slot, Configured
<1>9. Snapped' /\ InBatch'
  <2>1. Executing' <=> Executing
    BY <1>2 DEF Executing
  <2>2. Executing => worker.snap.generation <= ring.generation /\ worker.snap.generation \in Nat
    BY DEF RingInv, Snapped, RingTypeOK, Rings
  <2>3. Executing => worker.snap.generation <= ring'.generation
    BY <1>1, <1>3, <2>2
  <2>4. Snapped'
    BY <1>2, <2>1, <2>3 DEF RingInv, Snapped
  <2>5. CASE p # ring.read
    <3>1. Executing => worker.snap.generation # ring'.generation
      BY <1>1, <1>3, <2>2, <2>5
    <3> QED BY <1>2, <2>1, <2>4, <3>1 DEF InBatch, Current
  <2>6. CASE p = ring.read
    <3>1. Len(consumed) = Len(issued)
      BY <1>1, <2>6, Programmed, PositionInjective
    <3>2. ASSUME Current PROVE FALSE
      <4>1. PICK v \in Done .. Len(issued) : EndsAt(v)
        BY <3>2 DEF RingInv, InBatch
      <4>2. Len(worker.batch) = 0 /\ v = Done
        BY <3>1, <4>1, Lengths
      <4>3. worker.batch = <<>>
        BY <4>2, EmptySeq DEF RingTypeOK
      <4> QED BY <3>2, <4>1, <4>2, <4>3 DEF EndsAt, RingInv, InBatch
    <3>3. ~Current'
      BY <1>2, <1>3, <2>1, <2>6, <3>2 DEF Current
    <3> QED BY <2>4, <3>3 DEF InBatch
  <2> QED BY <2>5, <2>6
<1>10. Told'
  BY <1>2, <1>3 DEF Told
<1> QED BY <1>4, <1>5, <1>7, <1>8, <1>9, <1>10 DEF RingInv

-----------------------------------------------------------------------------
(* A command put into the ring. *)
LEMMA PutsStep ==
  ASSUME RingTypeOK, RingInv, TitlePuts
  PROVE  RingTypeOK' /\ RingInv'
<1> DEFINE size == ring.control.size
           n == Len(issued)
           c == title.made + 1
           next == Position(origin, n + 1, size)
<1>1. /\ Configured(ring) /\ ring.base \in Bases /\ size \in Sizes /\ size \in Nat \ {0}
      /\ n \in Nat /\ Len(consumed) \in Nat /\ Len(consumed) <= n /\ n < Len(consumed) + size
      /\ title.at = Position(origin, n, size) /\ ring.read = Position(origin, Len(consumed), size)
      /\ title.at \in 0 .. size - 1 /\ origin \in Nat
  <2>1. Configured(ring)
    BY DEF TitlePuts
  <2> QED BY <2>1, Programmed
<1>2. next = (title.at + 1) % size /\ next \in 0 .. size - 1
  <2>1. n + 1 \in Nat
    BY <1>1
  <2>2. origin \in Nat /\ n \in Nat /\ size \in Nat \ {0}
    BY <1>1
  <2> HIDE DEF n, size
  <2>3. (Position(origin, n, size) + 1) % size = Position(origin, n + 1, size)
    BY <2>2, PositionNext
  <2>4. Position(origin, n + 1, size) \in 0 .. size - 1
    BY <2>1, <2>2, PositionBound
  <2> QED BY <1>1, <2>3, <2>4
<1>3. Known = ring.read
  BY <1>1 DEF Known, RingInv, Told
<1>4. /\ next # ring.read
      /\ memory' = [memory EXCEPT ![ring.base][title.at] = c]
      /\ title' = [title EXCEPT !.pc = "put", !.at = next, !.made = c]
      /\ issued' = Append(issued, c)
      /\ UNCHANGED <<ring, consumed, origin, worker>>
      /\ title.pc \in {"idle", "put"}
  BY <1>2, <1>3 DEF TitlePuts
<1>5. n + 1 < Len(consumed) + size
  <2>1. n + 1 # Len(consumed) + size
    <3>1. Position(origin, Len(consumed) + size, size) = ring.read
      BY <1>1, PositionPeriod
    <3> QED BY <1>4, <3>1
  <2> QED BY <1>1, <2>1
<1>6. c \in Nat /\ issued \in Seq(Nat)
  BY DEF RingTypeOK
<1>7. /\ issued' \in Seq(Nat) /\ Len(issued') = n + 1
      /\ \A k \in 1 .. n : issued'[k] = issued[k]
      /\ issued'[n + 1] = c
  BY <1>4, <1>6, AppendProperties
<1>8. /\ title' \in [pc : {"idle", "enable", "put", "skip", "skipped"}, at : Nat, word : Nat, made : Nat]
      /\ title'.pc = "put" /\ title'.at = next /\ title'.word = title.word
  <2>1. next \in Nat
    BY <1>1, <1>2
  <2> HIDE DEF next, c
  <2> QED BY <1>4, <1>6, <2>1 DEF RingTypeOK
<1>9. title.at \in Dwords
  BY <1>1 DEF Dwords
<1>10. /\ memory' \in [Bases -> [Dwords -> Nat]]
       /\ memory'[ring.base][title.at] = c
       /\ \A i \in Dwords : i # title.at => memory'[ring.base][i] = memory[ring.base][i]
  <2> HIDE DEF c
  <2> QED BY <1>1, <1>4, <1>6, <1>9 DEF RingTypeOK
<1> HIDE DEF c
<1>11. RingTypeOK'
  BY <1>4, <1>7, <1>8, <1>10 DEF RingTypeOK
<1>12. Intends'
  BY <1>1, <1>4, <1>8 DEF RingInv, Intends
<1>13. Stored'
  <2>1. \A k \in 1 .. Len(consumed) : consumed[k] = issued'[k]
    BY <1>1, <1>7 DEF RingInv, Stored
  <2>2. ASSUME NEW k \in Len(consumed) + 1 .. n + 1
        PROVE  memory'[ring.base][Position(origin, k - 1, size)] = issued'[k]
    <3>1. CASE k = n + 1
      <4>1. k - 1 = n
        BY <1>1, <3>1
      <4> QED BY <1>1, <1>7, <1>10, <3>1, <4>1
    <3>2. CASE k # n + 1
      <4>1. k \in Len(consumed) + 1 .. n /\ k \in 1 .. n /\ k - 1 \in Nat
            /\ k - 1 <= n /\ n < (k - 1) + size /\ k - 1 # n
        BY <1>1, <2>2, <3>2
      <4>2. Position(origin, k - 1, size) # title.at
        BY <1>1, <4>1, PositionInjective
      <4>3. Position(origin, k - 1, size) \in Dwords
        BY <1>1, <4>1, PositionBound DEF Dwords
      <4>4. memory[ring.base][Position(origin, k - 1, size)] = issued[k]
        BY <1>1, <4>1 DEF RingInv, Stored, Slot
      <4> QED BY <1>7, <1>10, <4>1, <4>2, <4>3, <4>4
    <3> QED BY <3>1, <3>2
  <2>3. Len(issued') = n + 1 /\ Len(consumed) <= n + 1 /\ n + 1 < Len(consumed) + size
    BY <1>1, <1>5, <1>7
  <2>4. title'.at = Position(origin, Len(issued'), size)
    BY <1>7, <1>8
  <2>5. origin < size
    BY <1>1 DEF RingInv, Stored
  <2> HIDE DEF next, n
  <2> QED BY <1>1, <1>4, <2>1, <2>2, <2>3, <2>4, <2>5 DEF Stored, Slot
<1>14. Rung'
  <2>1. CASE ring.write = Invalid
    BY <1>4, <2>1 DEF Rung
  <2>2. CASE ring.write # Invalid
    <3>1. PICK w \in Len(consumed) .. n : ring.write = Position(origin, w, size)
      BY <2>2 DEF RingInv, Rung, Slot
    <3>2. w \in Len(consumed) .. Len(issued')
      BY <1>1, <1>7, <3>1
    <3> QED BY <1>1, <1>4, <3>1, <3>2 DEF Rung, Slot
  <2> QED BY <2>1, <2>2
<1>15. Snapped'
  BY <1>4 DEF RingInv, Snapped, Executing
<1>16. InBatch'
  <2>1. Current' <=> Current
    BY <1>4 DEF Current, Executing
  <2>2. CASE ~Current
    BY <2>1, <2>2 DEF InBatch
  <2>3. CASE Current
    <3>1. PICK v \in Done .. Len(issued) : EndsAt(v)
      BY <2>3 DEF RingInv, InBatch
    <3>2. v \in Done' .. Len(issued') /\ v \in Nat /\ Done' = Done
      BY <1>1, <1>4, <1>7, <3>1, Lengths DEF Done
    <3>3. EndsAt(v)'
      <4>1. CASE ring.write = Invalid
        BY <1>4, <3>1, <3>2, <4>1 DEF EndsAt, Slot
      <4>2. CASE ring.write # Invalid
        <5>1. PICK w \in v .. Len(issued) : ring.write = Slot(w)
          BY <3>1, <4>2 DEF EndsAt
        <5>2. w \in v .. Len(issued')
          BY <1>1, <1>7, <3>2, <5>1
        <5> QED BY <1>4, <3>1, <3>2, <5>1, <5>2 DEF EndsAt, Slot
      <4> QED BY <4>1, <4>2
    <3>4. \A k \in 1 .. Len(worker.batch) : worker.batch[k] = issued'[Len(consumed) + k]
      <4> TAKE k \in 1 .. Len(worker.batch)
      <4>1. Len(consumed) + k \in 1 .. n
        BY <1>1, <3>1, Lengths
      <4> QED BY <1>7, <2>3, <4>1 DEF RingInv, InBatch
    <3> QED BY <1>4, <2>3, <3>2, <3>3, <3>4 DEF RingInv, InBatch, Slot
  <2> QED BY <2>2, <2>3
<1>17. Told'
  BY <1>4, <1>8 DEF RingInv, Told
<1> QED BY <1>11, <1>12, <1>13, <1>14, <1>15, <1>16, <1>17 DEF RingInv
-----------------------------------------------------------------------------
(* The worker's batch. *)

\* A snapshot of a ring with commands, and a batch with none yet.
LEMMA TakesStep ==
  ASSUME RingTypeOK, RingInv, TakeBatch
  PROVE  RingTypeOK' /\ RingInv'
<1>1. UNCHANGED ringVars
  BY DEF TakeBatch
<1>2. CASE ~HasPendingCommands(ring)
  <2>1. worker' \in [pc : {"pop", "check", "paused", "look", "take", "exited"},
                     snap : Rings, at : Nat, batch : Seq(Nat)]
    BY <1>2 DEF TakeBatch, RingTypeOK
  <2> QED BY <1>1, <2>1, EmptyHanded
<1>3. CASE HasPendingCommands(ring)
  <2> DEFINE size == ring.control.size
  <2>1. /\ worker' = [pc |-> "execute", snap |-> ring, at |-> ring.read, batch |-> <<>>]
        /\ Configured(ring) /\ ring.write # Invalid /\ ring.write # ring.read
        /\ UNCHANGED <<ring, memory, title, issued, consumed, origin>>
    BY <1>1, <1>3 DEF TakeBatch, HasPendingCommands, ringVars
  <2>2. /\ ring \in Rings /\ ring.base \in Bases /\ size \in Sizes /\ size \in Nat \ {0}
        /\ Len(consumed) \in Nat /\ Len(issued) \in Nat
        /\ ring.read = Position(origin, Len(consumed), size) /\ ring.read \in 0 .. size - 1
        /\ ring.generation \in Nat
    BY <2>1, Programmed DEF RingTypeOK, Rings
  <2>3. RingTypeOK'
    <3>1. <<>> \in Seq(Nat) /\ ring.read \in Nat
      BY <2>2, EmptySeq
    <3>2. worker' \in [pc : {"execute"}, snap : Rings, at : Nat, batch : Seq(Nat)]
      BY <2>1, <2>2, <3>1
    <3> QED BY <2>1, <3>2 DEF RingTypeOK
  <2>4. Intends' /\ Stored' /\ Rung' /\ Told'
    BY <1>1 DEF RingInv, Intends, Stored, Rung, Told, ringVars, Slot, Configured, WritebackEnabled
  <2>5. /\ worker'.pc = "execute" /\ worker'.snap = ring /\ worker'.at = ring.read
        /\ worker'.batch = <<>> /\ Len(worker'.batch) = 0
    BY <2>1
  <2>6. Snapped'
    BY <2>1, <2>2, <2>5 DEF Snapped
  <2>7. Done' = Len(consumed)
    BY <2>1, <2>2, <2>5 DEF Done
  <2>8. PICK w \in Len(consumed) .. Len(issued) : ring.write = Position(origin, w, size)
    BY <2>1 DEF RingInv, Rung, Slot
  <2>9. w # Len(consumed)
    BY <2>1, <2>2, <2>8
  <2>10. EndsAt(w)'
    <3>1. w \in w .. Len(issued)
      BY <2>2, <2>8
    <3> QED BY <2>1, <2>5, <2>7, <2>8, <2>9, <3>1 DEF EndsAt, Slot
  <2>11. InBatch'
    <3>1. w \in Done' .. Len(issued')
      BY <2>1, <2>7, <2>8
    <3>2. worker'.at = Slot(Done)'
      BY <2>1, <2>2, <2>5, <2>7 DEF Slot
    <3> QED BY <2>1, <2>5, <2>10, <3>1, <3>2 DEF InBatch
  <2> QED BY <2>3, <2>4, <2>6, <2>11 DEF RingInv
<1> QED BY <1>2, <1>3

\* The command the worker reads is the next one put, as long as its ring is the
\* one programmed; of an older ring it reads what is there.
LEMMA ExecutesStep ==
  ASSUME RingTypeOK, RingInv, ExecutePacket
  PROVE  RingTypeOK' /\ RingInv'
<1> DEFINE size == worker.snap.control.size
           here == memory[worker.snap.base][worker.at]
           next == (worker.at + 1) % size
<1>1. /\ UNCHANGED <<ring, memory, title, issued, consumed, origin>> /\ worker.pc = "execute"
      /\ worker' = [worker EXCEPT !.at = next, !.batch = Append(@, here),
                                  !.pc = IF next = worker.snap.write THEN "commit" ELSE "execute"]
  BY DEF ExecutePacket, ringVars
<1>2. /\ Executing /\ worker.snap.generation <= ring.generation
      /\ worker.snap.base \in Bases /\ size \in Sizes /\ worker.at < size
      /\ size \in Nat \ {0} /\ worker.at \in Nat
  <2>1. Executing /\ worker.at \in Nat
    BY <1>1 DEF Executing, RingTypeOK
  <2> QED BY <2>1, ProcessorAssumption DEF RingInv, Snapped
<1>3. here \in Nat
  <2>1. worker.at \in 0 .. size - 1
    BY <1>2
  <2>2. worker.at \in Dwords
    BY <1>2, <2>1 DEF Dwords
  <2> QED BY <1>2, <2>2 DEF RingTypeOK
<1>4. next \in 0 .. size - 1 /\ next \in Nat
  <2>1. worker.at + 1 \in Nat
    BY <1>2
  <2>2. (worker.at + 1) % size \in 0 .. size - 1
    BY <1>2, <2>1, ModBound
  <2> QED BY <1>2, <2>2
<1>5. /\ worker.batch \in Seq(Nat) /\ Append(worker.batch, here) \in Seq(Nat)
      /\ Len(Append(worker.batch, here)) = Len(worker.batch) + 1
      /\ \A k \in 1 .. Len(worker.batch) : Append(worker.batch, here)[k] = worker.batch[k]
      /\ Append(worker.batch, here)[Len(worker.batch) + 1] = here
  <2>1. worker.batch \in Seq(Nat)
    BY DEF RingTypeOK
  <2> HIDE DEF here
  <2> QED BY <1>3, <2>1, AppendProperties
<1>6. /\ worker'.snap = worker.snap /\ worker'.at = next
      /\ worker'.batch = Append(worker.batch, here)
      /\ worker'.pc = IF next = worker.snap.write THEN "commit" ELSE "execute"
      /\ worker' \in [pc : {"execute", "commit"}, snap : Rings, at : Nat, batch : Seq(Nat)]
  <2> HIDE DEF here, next
  <2> QED BY <1>1, <1>4, <1>5 DEF RingTypeOK
<1> HIDE DEF here, next
<1>7. RingTypeOK'
  BY <1>1, <1>6 DEF RingTypeOK
<1>8. Intends' /\ Stored' /\ Rung' /\ Told'
  BY <1>1 DEF RingInv, Intends, Stored, Rung, Told, Slot, Configured, WritebackEnabled
<1>9. Snapped'
  <2>1. next < size
    BY <1>2, <1>4
  <2> QED BY <1>1, <1>2, <1>6, <2>1 DEF Snapped
<1>10. InBatch'
  <2>1. Current' => Current
    BY <1>1, <1>2, <1>6 DEF Current
  <2>2. CASE ~Current
    BY <2>1, <2>2 DEF InBatch
  <2>3. CASE Current
    <3>1. /\ Configured(ring) /\ worker.snap.base = ring.base /\ size = ring.control.size
          /\ worker.at = Position(origin, Done, size)
          /\ \A k \in 1 .. Len(worker.batch) : worker.batch[k] = issued[Len(consumed) + k]
      BY <2>3 DEF RingInv, InBatch, Slot
    <3>2. PICK v \in Done .. Len(issued) : EndsAt(v)
      BY <2>3 DEF RingInv, InBatch
    <3>3. /\ Len(consumed) \in Nat /\ Len(issued) \in Nat /\ Len(worker.batch) \in Nat
          /\ Done = Len(consumed) + Len(worker.batch) /\ Done \in Nat
      BY Lengths
    <3>4. Len(issued) < Len(consumed) + size /\ origin \in Nat
      BY <3>1, Programmed
    <3>5. v # Done /\ worker.snap.write = Position(origin, v, size)
      BY <1>1, <3>1, <3>2 DEF EndsAt, Slot
    <3>6. /\ v \in Done + 1 .. Len(issued) /\ v \in Nat /\ Done + 1 \in Nat
          /\ Done + 1 <= v /\ v < (Done + 1) + size
      <4>1. Done \in Nat /\ Len(issued) \in Nat /\ v \in Done .. Len(issued) /\ v # Done
        BY <3>2, <3>3, <3>5
      <4>2. v \in Done + 1 .. Len(issued) /\ v \in Nat /\ Done + 1 \in Nat /\ Done + 1 <= v
        BY <4>1
      <4>3. Len(consumed) <= Done /\ size \in Nat
        BY <1>2, <3>3
      <4> HIDE DEF size
      <4>4. v < (Done + 1) + size
        BY <3>3, <3>4, <4>1, <4>3
      <4> QED BY <4>2, <4>4
    <3>7. next = Position(origin, Done + 1, size)
      <4>1. size \in Nat \ {0} /\ Done \in Nat /\ origin \in Nat
        BY <1>2, <3>3, <3>4
      <4>2. next = (Position(origin, Done, size) + 1) % size
        BY <3>1 DEF next
      <4> HIDE DEF size
      <4>3. (Position(origin, Done, size) + 1) % size = Position(origin, Done + 1, size)
        BY <4>1, PositionNext
      <4> QED BY <4>2, <4>3
    <3>8. next = worker.snap.write <=> v = Done + 1
      BY <1>2, <3>4, <3>5, <3>6, <3>7, PositionInjective
    <3>9. here = issued[Done + 1]
      <4>1. Done + 1 \in Len(consumed) + 1 .. Len(issued) /\ (Done + 1) - 1 = Done
        BY <3>3, <3>6
      <4>2. memory[ring.base][Slot((Done + 1) - 1)] = issued[Done + 1]
        BY <3>1, <4>1 DEF RingInv, Stored
      <4> QED BY <3>1, <4>1, <4>2 DEF here, Slot
    <3>10. Len(worker'.batch) = Len(worker.batch) + 1 /\ Done' = Done + 1
      BY <1>1, <1>5, <1>6, <3>3 DEF Done
    <3>11. \A k \in 1 .. Len(worker'.batch) : worker'.batch[k] = issued[Len(consumed) + k]
      <4> TAKE k \in 1 .. Len(worker'.batch)
      <4>1. CASE k = Len(worker.batch) + 1
        <5>1. Len(consumed) + k = Done + 1
          BY <3>3, <4>1
        <5> QED BY <1>5, <1>6, <3>9, <4>1, <5>1
      <4>2. CASE k # Len(worker.batch) + 1
        <5>1. k \in 1 .. Len(worker.batch)
          BY <3>3, <3>10, <4>2
        <5> QED BY <1>5, <1>6, <3>1, <5>1
      <4> QED BY <4>1, <4>2
    <3>12. worker'.batch # <<>>
      BY <3>3, <3>10, EmptySeq
    <3>13. EndsAt(v)'
      <4>1. worker'.pc = "commit" <=> v = Done'
        BY <1>6, <3>8, <3>10
      <4> QED BY <1>1, <1>6, <3>2, <4>1 DEF EndsAt, Slot
    <3>14. v \in Done' .. Len(issued')
      BY <1>1, <3>6, <3>10
    <3>15. worker'.at = Slot(Done)'
      BY <1>1, <1>6, <3>1, <3>7, <3>10 DEF Slot
    <3> QED BY <1>1, <1>6, <3>1, <3>11, <3>12, <3>13, <3>14, <3>15 DEF InBatch
  <2> QED BY <2>2, <2>3
<1> QED BY <1>7, <1>8, <1>9, <1>10 DEF RingInv

\* The commit: a batch of the ring programmed has executed up to its doorbell; any
\* other leaves ring and title alone.
LEMMA CommitsStep ==
  ASSUME RingTypeOK, RingInv, CommitReadPointer
  PROVE  RingTypeOK' /\ RingInv'
<1>1. /\ worker' = [worker EXCEPT !.pc = "pop", !.batch = <<>>, !.at = 0, !.snap = NoRing]
      /\ worker.pc = "commit" /\ UNCHANGED <<memory, issued, origin>>
      /\ title' = [title EXCEPT !.word = IF MayTell THEN worker.at ELSE @]
  BY DEF CommitReadPointer
<1>2. NoRing \in Rings
  BY DEF NoRing, NoControl, Rings, Controls, Invalid
<1>3. /\ worker' \in [pc : {"pop"}, snap : Rings, at : Nat, batch : Seq(Nat)]
      /\ worker'.pc = "pop"
  <2>1. <<>> \in Seq(Nat)
    BY EmptySeq
  <2> HIDE DEF NoRing
  <2> QED BY <1>1, <1>2, <2>1 DEF RingTypeOK
<1>4. Snapped' /\ InBatch'
  BY <1>3 DEF Snapped, InBatch, Current, Executing
<1>5. CASE ~MayCommit
  <2>1. UNCHANGED ringVars
    <3>1. title' = title
      BY <1>1, <1>5 DEF MayTell, RingTypeOK
    <3> QED BY <1>1, <1>5, <3>1 DEF CommitReadPointer, ringVars
  <2>2. worker' \in [pc : {"pop", "check", "paused", "look", "take", "exited"},
                     snap : Rings, at : Nat, batch : Seq(Nat)]
    BY <1>3
  <2> QED BY <2>1, <2>2, EmptyHanded
<1>6. CASE MayCommit
  <2> DEFINE size == ring.control.size
  <2>1. Configured(ring) /\ Current
    BY <1>1, <1>6 DEF MayCommit, Current, Executing
  <2>2. /\ worker.at = Position(origin, Done, size)
        /\ \A k \in 1 .. Len(worker.batch) : worker.batch[k] = issued[Len(consumed) + k]
    BY <2>1 DEF RingInv, InBatch, Slot
  <2>3. PICK v \in Done .. Len(issued) : EndsAt(v)
    BY <2>1 DEF RingInv, InBatch
  <2>4. v = Done
    BY <1>1, <2>3 DEF EndsAt
  <2>5. /\ Len(consumed) \in Nat /\ Len(issued) \in Nat /\ Len(worker.batch) \in Nat
        /\ Done = Len(consumed) + Len(worker.batch) /\ Done \in Nat
    BY Lengths
  <2>6. /\ Len(issued) < Len(consumed) + size /\ origin \in Nat /\ size \in Nat \ {0}
        /\ origin < size
    BY <2>1, Programmed
  <2>7. worker.at \in 0 .. size - 1 /\ worker.at \in Nat
    <3>1. Position(origin, Done, size) \in 0 .. size - 1
      BY <2>5, <2>6, PositionBound
    <3>2. size \in Nat
      BY <2>6
    <3> HIDE DEF size
    <3> QED BY <2>2, <3>1, <3>2
  <2>8. ring' = [ring EXCEPT !.read = worker.at]
    <3>1. worker.at % size = worker.at
      BY <2>6, <2>7, ModSmall
    <3> QED BY <1>6, <3>1 DEF CommitReadPointer, NormalizePointer
  <2>9. /\ ring' \in Rings /\ ring'.control = ring.control /\ ring'.base = ring.base
        /\ ring'.address = ring.address /\ ring'.readWrite = ring.readWrite
        /\ ring'.read = worker.at /\ ring'.write = ring.write
        /\ ring'.generation = ring.generation
    BY <2>7, <2>8 DEF RingTypeOK, Rings
  <2>10. consumed' = consumed \o worker.batch
    BY <1>6 DEF CommitReadPointer
  <2>11. /\ consumed' \in Seq(Nat) /\ Len(consumed') = Done
         /\ \A k \in 1 .. Len(consumed) : consumed'[k] = consumed[k]
         /\ \A k \in Len(consumed) + 1 .. Done : consumed'[k] = worker.batch[k - Len(consumed)]
    <3>1. consumed \in Seq(Nat) /\ worker.batch \in Seq(Nat)
      BY DEF RingTypeOK
    <3>2. /\ consumed' \in Seq(Nat) /\ Len(consumed') = Len(consumed) + Len(worker.batch)
          /\ \A k \in 1 .. Len(consumed) + Len(worker.batch) :
               consumed'[k] = IF k <= Len(consumed) THEN consumed[k]
                              ELSE worker.batch[k - Len(consumed)]
      BY <2>10, <3>1, ConcatProperties
    <3>3. \A k \in 1 .. Len(consumed) : k \in 1 .. Len(consumed) + Len(worker.batch) /\ k <= Len(consumed)
      BY <2>5
    <3>4. \A k \in Len(consumed) + 1 .. Done :
            k \in 1 .. Len(consumed) + Len(worker.batch) /\ ~(k <= Len(consumed))
      BY <2>5
    <3> QED BY <2>5, <3>2, <3>3, <3>4
  <2>12. title' = [title EXCEPT !.word = IF WritebackEnabled(ring) THEN worker.at ELSE @]
    BY <1>1, <1>6 DEF MayTell
  <2>13. /\ title' \in [pc : {"idle", "enable", "put", "skip", "skipped"}, at : Nat, word : Nat, made : Nat]
         /\ title'.pc = title.pc /\ title'.at = title.at
         /\ title'.word = IF WritebackEnabled(ring) THEN worker.at ELSE title.word
    BY <2>7, <2>12 DEF RingTypeOK
  <2>14. RingTypeOK'
    BY <1>1, <1>3, <2>9, <2>11, <2>13 DEF RingTypeOK
  <2>15. Intends'
    BY <1>1, <2>9, <2>13 DEF RingInv, Intends, Configured
  <2>16. Stored'
    <3>1. Done <= Len(issued) /\ Len(issued) < Done + size
      BY <2>3, <2>4, <2>5, <2>6
    <3>2. \A k \in 1 .. Done : consumed'[k] = issued[k]
      <4> TAKE k \in 1 .. Done
      <4>1. CASE k \in 1 .. Len(consumed)
        BY <2>11, <4>1 DEF RingInv, Stored
      <4>2. CASE k \in Len(consumed) + 1 .. Done
        <5>1. k - Len(consumed) \in 1 .. Len(worker.batch) /\ Len(consumed) + (k - Len(consumed)) = k
          BY <2>5, <4>2
        <5>2. worker.batch[k - Len(consumed)] = issued[Len(consumed) + (k - Len(consumed))]
          BY <2>2, <5>1
        <5> QED BY <2>11, <4>2, <5>1, <5>2
      <4> QED BY <2>5, <4>1, <4>2
    <3>3. \A k \in Done + 1 .. Len(issued) : k \in Len(consumed) + 1 .. Len(issued)
      BY <2>5
    <3>4. \A k \in Done + 1 .. Len(issued) : memory[ring.base][Position(origin, k - 1, size)] = issued[k]
      BY <2>1, <3>3 DEF RingInv, Stored, Slot
    <3>5. title.at = Position(origin, Len(issued), size)
      BY <2>1 DEF RingInv, Stored, Slot
    <3> QED BY <1>1, <2>1, <2>2, <2>6, <2>9, <2>11, <2>13, <3>1, <3>2, <3>4, <3>5
            DEF Stored, Slot, Configured
  <2>17. Rung'
    <3>1. CASE ring.write = Invalid
      BY <2>9, <3>1 DEF Rung
    <3>2. CASE ring.write # Invalid
      <4>1. PICK w \in v .. Len(issued) : ring.write = Slot(w)
        BY <2>3, <3>2 DEF EndsAt
      <4>2. w \in Len(consumed') .. Len(issued')
        BY <1>1, <2>4, <2>11, <4>1
      <4> QED BY <1>1, <2>1, <2>9, <4>1, <4>2 DEF Rung, Slot, Configured
    <3> QED BY <3>1, <3>2
  <2>18. Told'
    BY <1>1, <2>1, <2>9, <2>13 DEF RingInv, Told, WritebackEnabled, Configured
  <2> QED BY <1>4, <2>14, <2>15, <2>16, <2>17, <2>18 DEF RingInv
<1> QED BY <1>5, <1>6

-----------------------------------------------------------------------------
(* The theorems. *)
LEMMA RingStep ==
  ASSUME RingTypeOK, RingInv, CallTypeOK, Next
  PROVE  RingTypeOK' /\ RingInv'
<1>1. CASE TitleNext
  BY <1>1, NewRingStep, WritesAddressStep, EnablesWritebackStep, PutsStep, RingsStep, SkipsStep,
     TransfersStep, DoneStep DEF TitleNext
<1>2. CASE WorkerNext
  BY <1>2, WorkerWaits, TakesStep, ExecutesStep, CommitsStep DEF WorkerNext
<1>3. CASE HostNext
  <2>1. UNCHANGED <<ringVars, worker>>
    BY <1>3, HostStep DEF HostNext
  <2> QED BY <2>1, RingRests
<1> QED BY <1>1, <1>2, <1>3 DEF Next

\* The inductive invariant holds, whatever title, worker and hosts do.
THEOREM ProcessorInvariance == Spec => []PInv
<1>1. Init => PInv
  <2> SUFFICES ASSUME Init PROVE PInv
    OBVIOUS
  <2>1. NoRing \in Rings /\ ~Configured(NoRing)
    BY DEF NoRing, NoControl, Rings, Controls, Invalid, Configured
  <2>2. <<>> \in Seq(Nat) /\ <<>> \in Seq(Hosts \cup {"call", "end tracing"})
    BY EmptySeq
  <2>3. NoRing.generation = 0 /\ NoRing.write = Invalid /\ ~NoRing.control.transfer
    BY DEF NoRing, NoControl
  <2>4. RingTypeOK
    <3> HIDE DEF NoRing
    <3> QED BY <2>1, <2>2 DEF Init, RingTypeOK
  <2>5. CallTypeOK
    BY <2>2 DEF Init, CallTypeOK
  <2>6. CallsKept
    BY DEF Init, CallsKept
  <2>7. RingInv
    <3> HIDE DEF NoRing
    <3>1. Intends /\ Rung /\ Told
      BY <2>1, <2>3 DEF Init, Intends, Rung, Told
    <3>2. Stored
      BY <2>1 DEF Init, Stored
    <3>3. Snapped /\ InBatch
      BY DEF Init, Snapped, InBatch, Current, Executing
    <3> QED BY <3>1, <3>2, <3>3 DEF RingInv
  <2> QED BY <2>4, <2>5, <2>6, <2>7 DEF PInv
<1>2. PInv /\ [Next]_vars => PInv'
  <2> SUFFICES ASSUME PInv, [Next]_vars PROVE PInv'
    OBVIOUS
  <2>1. CASE Next
    BY <2>1, RingStep, CallTypeStep, KeptStep DEF PInv
  <2>2. CASE UNCHANGED vars
    <3>1. RingTypeOK' /\ RingInv'
      BY <2>2, RingRests DEF PInv, vars
    <3>2. CallTypeOK' /\ CallsKept'
      BY <2>2 DEF PInv, vars, callVars, CallTypeOK, CallsKept
    <3> QED BY <3>1, <3>2 DEF PInv
  <2> QED BY <2>1, <2>2
<1> QED BY <1>1, <1>2, PTL DEF Spec

\* Type correctness; in particular what the worker reads lies in a ring that was
\* programmed, at a dword inside it.
THEOREM ProcessorTypeCorrect == Spec => [](RingTypeOK /\ CallTypeOK)
<1>1. PInv => RingTypeOK /\ CallTypeOK
  BY DEF PInv
<1> QED BY <1>1, ProcessorInvariance, PTL

\* The invariant says what RingIsFaithful says.
LEMMA Faithful == ASSUME PInv PROVE RingIsFaithful
<1>1. consumed \in Seq(Nat) /\ issued \in Seq(Nat) /\ Len(consumed) \in Nat /\ Len(issued) \in Nat
  BY Lengths DEF PInv, RingTypeOK
<1>2. Len(consumed) <= Len(issued) /\ \A k \in 1 .. Len(consumed) : consumed[k] = issued[k]
  BY DEF PInv, RingInv, Stored
<1>3. InOrder
  <2>1. Len(SubSeq(issued, 1, Len(consumed))) = Len(consumed)
        /\ SubSeq(issued, 1, Len(consumed)) \in Seq(Nat)
        /\ \A k \in 1 .. Len(consumed) : SubSeq(issued, 1, Len(consumed))[k] = issued[k]
    BY <1>1, <1>2, SubSeqProperties
  <2>2. consumed = SubSeq(issued, 1, Len(consumed))
    BY <1>1, <1>2, <2>1, SeqEqual
  <2> QED BY <1>2, <2>2 DEF InOrder, IsPrefix
<1>4. ToldTheTruth
  BY DEF PInv, RingInv, Told, ToldTheTruth, WritebackEnabled
<1> QED BY <1>3, <1>4 DEF RingIsFaithful

\* Committed batches have executed what the title put into the ring, in order, and
\* the title is told the ring's own read pointer (CommitReadPointerAndApply).
THEOREM CommandsRunInOrder == Spec => []RingIsFaithful
BY Faithful, ProcessorInvariance, PTL

\* A worker that has exited has run every function accepted (CallInThread, Shutdown,
\* WorkerThreadMain).
THEOREM AcceptedFunctionsRun == Spec => []AcceptedIsRun
<1>1. PInv => AcceptedIsRun
  <2> SUFFICES ASSUME PInv, worker.pc = "exited" PROVE calls.ran = calls.accepted
    BY DEF AcceptedIsRun
  <2>1. queue = <<>> /\ calls.accepted = calls.ran + Len(queue) /\ calls.ran \in Nat
    BY DEF PInv, CallsKept, CallTypeOK
  <2>2. Len(queue) = 0
    BY <2>1
  <2> QED BY <2>1, <2>2
<1> QED BY <1>1, ProcessorInvariance, PTL
=============================================================================
