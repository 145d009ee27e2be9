-------------------------- MODULE CommandProcessor --------------------------
(***************************************************************************)
(* The GPU command processor's front end: the ring registers behind        *)
(* CommandRingState, the title that programs the ring and puts commands    *)
(* into it, the worker thread that executes them, and the host threads     *)
(* that pause, resume, call into and shut down the worker.                 *)
(*                                                                         *)
(* A call on the registers holds CommandRingState's mutex and is one step. *)
(* A command is one dword; the title is external: it never fills the ring, *)
(* learns of free space from the read pointer it is told, and keeps a ring *)
(* it has given up until it programs the next one.                         *)
(***************************************************************************)
EXTENDS Naturals, Sequences, SequencesExt

CONSTANTS Bases, NoBase,
          Sizes,           \* ring capacities: powers of two, 8 dwords and more in the code
          Hosts,           \* host threads that call Pause, Resume, CallInThread, Shutdown
          MaxGeneration,   \* bound on generation_, which the code lets wrap at 2^64
          MaxCommands,     \* bound on the commands the title writes
          MaxCalls         \* bound on accepted functions

ASSUME ProcessorAssumption ==
  /\ Sizes \subseteq Nat \ {0} /\ NoBase \notin Bases
  /\ MaxGeneration \in Nat /\ MaxCommands \in Nat /\ MaxCalls \in Nat

Invalid == 8388608                          \* outside the 23-bit pointer domain
Dwords == UNION {0 .. s - 1 : s \in Sizes}

VARIABLES
  ring,          \* CommandRingState's registers and generation_
  memory,        \* per base, the command in each dword
  title,         \* external: the title's write position, writeback word, last command
  issued,        \* history: the commands put into the current ring
  consumed,      \* history: those the committed batches executed
  origin,        \* history: the position of the first of them
  worker,        \* WorkerThreadMain: where it is, its snapshot and its batch
  queue,         \* pending_fns_
  calls,         \* history: functions accepted and functions run
  gate,          \* worker_accepting_functions_, worker_running_
  paused, workerPaused,
  host           \* what each host thread is doing

ringVars == <<ring, memory, title, issued, consumed, origin>>
callVars == <<queue, calls, gate, paused, workerPaused, host>>
vars == <<ringVars, callVars, worker>>

NoControl == [size |-> 0, noUpdate |-> TRUE, transfer |-> FALSE]
NoRing == [generation |-> 0, base |-> NoBase, control |-> NoControl, address |-> FALSE,
           read |-> 0, readWrite |-> 0, write |-> Invalid]
Init ==
  /\ ring = NoRing
  /\ memory = [b \in Bases |-> [i \in Dwords |-> 0]]
  /\ title = [pc |-> "idle", at |-> 0, word |-> 0, made |-> 0]
  /\ issued = <<>> /\ consumed = <<>> /\ origin = 0
  /\ worker = [pc |-> "pop", snap |-> NoRing, at |-> 0, batch |-> <<>>]
  /\ queue = <<>> /\ calls = [accepted |-> 0, ran |-> 0]
  /\ gate = [accepting |-> TRUE, running |-> TRUE]
  /\ paused = FALSE /\ workerPaused = FALSE
  /\ host = [h \in Hosts |-> "idle"]

(***************************************************************************)
(* The registers.                                                          *)
(***************************************************************************)
Configured(r) == r.base # NoBase /\ r.control.size # 0
NormalizePointer(p, size) == p % size
HasPendingCommands(r) == Configured(r) /\ r.write # Invalid /\ r.write # r.read
WritebackEnabled(r) == Configured(r) /\ ~r.control.noUpdate /\ r.address

NewGeneration(r) == [r EXCEPT !.generation = @ + 1]
BeginNewRing(r) == NewGeneration([r EXCEPT !.read = 0, !.write = Invalid])

Initialize(b, size) ==
  BeginNewRing([ring EXCEPT !.base = b, !.control = [NoControl EXCEPT !.size = size],
                            !.address = FALSE, !.readWrite = 0])
WriteBase(b) ==
  IF b = ring.base THEN ring ELSE BeginNewRing([ring EXCEPT !.base = b])
WriteControl(c) ==
  LET r == [ring EXCEPT !.control = c]
  IN  IF c.size = ring.control.size THEN r ELSE BeginNewRing(r)

\* The transfer of RPTR_WR makes a worker's older snapshot stale.
Transferred(r) ==
  LET p == NormalizePointer(r.readWrite, r.control.size)
  IN  IF r.control.transfer /\ p # r.read THEN NewGeneration([r EXCEPT !.read = p]) ELSE r
WriteWritePointer(value) ==
  IF ~Configured(ring) THEN [ring EXCEPT !.write = Invalid]
  ELSE [Transferred(ring) EXCEPT !.write = NormalizePointer(value, ring.control.size)]

(***************************************************************************)
(* The title.  A new ring starts empty at 0; the one given up is left      *)
(* alone, so that the worker still executing it reads what was there.      *)
(***************************************************************************)
Reprogram(r) ==
  /\ ring' = r
  /\ IF r.generation = ring.generation THEN UNCHANGED <<memory, title, issued, consumed, origin>>
     ELSE /\ issued' = <<>> /\ consumed' = <<>> /\ origin' = 0
          /\ title' = [title EXCEPT !.at = 0, !.word = 0]
          /\ UNCHANGED memory
  /\ UNCHANGED <<callVars, worker>>

May == title.pc = "idle" /\ ring.generation < MaxGeneration

\* VdInitializeRingBuffer, or the BASE and CNTL registers in either order.
TitleInitialize == May /\ \E b \in Bases, size \in Sizes : Reprogram(Initialize(b, size))
TitleWritesBase == May /\ \E b \in Bases : Reprogram(WriteBase(b))
TitleWritesSize ==
  May /\ \E size \in Sizes : Reprogram(WriteControl([ring.control EXCEPT !.size = size]))

\* VdEnableRingBufferRPtrWriteBack, before the first command: the address, then
\* the control register read back and written without NO_UPDATE.
TitleWritesAddress ==
  /\ May /\ Configured(ring) /\ issued = <<>> /\ origin = 0 /\ ~ring.address
  /\ ring' = [ring EXCEPT !.address = TRUE]
  /\ title' = [title EXCEPT !.pc = "enable"]
  /\ UNCHANGED <<memory, issued, consumed, origin, callVars, worker>>
TitleEnablesWriteback ==
  /\ title.pc = "enable"
  /\ ring' = WriteControl([ring.control EXCEPT !.noUpdate = FALSE])
  /\ title' = [title EXCEPT !.pc = "idle"]
  /\ UNCHANGED <<memory, issued, consumed, origin, callVars, worker>>

\* One command into the ring if the read pointer the title knows leaves room,
\* and some time later the doorbell.
Known == IF WritebackEnabled(ring) THEN title.word ELSE ring.read
TitlePuts ==
  LET size == ring.control.size
      next == (title.at + 1) % size
      c == title.made + 1
  IN  /\ title.pc \in {"idle", "put"} /\ Configured(ring) /\ title.made < MaxCommands
      /\ next # Known
      /\ memory' = [memory EXCEPT ![ring.base][title.at] = c]
      /\ title' = [title EXCEPT !.pc = "put", !.at = next, !.made = c]
      /\ issued' = Append(issued, c)
      /\ UNCHANGED <<ring, consumed, origin, callVars, worker>>
TitleRings ==
  /\ title.pc = "put"
  /\ ring' = WriteWritePointer(title.at)
  /\ title' = [title EXCEPT !.pc = "idle"]
  /\ UNCHANGED <<memory, issued, consumed, origin, callVars, worker>>

\* The title drops what it has put: RPTR_WR and the transfer bit, the doorbell,
\* the bit off again.
TitleSkips ==
  /\ May /\ Configured(ring) /\ ring.write # Invalid
  /\ ring' = [ring EXCEPT !.readWrite = title.at, !.control.transfer = TRUE]
  /\ title' = [title EXCEPT !.pc = "skip"]
  /\ UNCHANGED <<memory, issued, consumed, origin, callVars, worker>>
TitleTransfers ==
  /\ title.pc = "skip"
  /\ ring' = WriteWritePointer(title.at)
  /\ title' = [title EXCEPT !.pc = "skipped", !.word = title.at]
  /\ issued' = <<>> /\ consumed' = <<>> /\ origin' = title.at
  /\ UNCHANGED <<memory, callVars, worker>>
TitleDone ==
  /\ title.pc = "skipped"
  /\ ring' = WriteControl([ring.control EXCEPT !.transfer = FALSE])
  /\ title' = [title EXCEPT !.pc = "idle"]
  /\ UNCHANGED <<memory, issued, consumed, origin, callVars, worker>>

(***************************************************************************)
(* The worker.                                                             *)
(***************************************************************************)
WorkerGoes(pc) == worker' = [worker EXCEPT !.pc = pc]

AfterFunction(nowPaused) == IF nowPaused THEN "check" ELSE "pop"

\* TryPopPendingFunction and the function.  Pause's own one pauses the worker and
\* lets Pause return; the pause ends the draining loop.
RunFunction ==
  /\ worker.pc = "pop" /\ queue # <<>>
  /\ queue' = Tail(queue)
  /\ calls' = [calls EXCEPT !.ran = @ + 1]
  /\ IF Head(queue) \in Hosts
     THEN /\ workerPaused' = TRUE
          /\ host' = [host EXCEPT ![Head(queue)] = "idle"]
     ELSE UNCHANGED <<workerPaused, host>>
  /\ WorkerGoes(AfterFunction(workerPaused'))
  /\ UNCHANGED <<ringVars, gate, paused>>

QueueIsEmpty ==
  /\ worker.pc = "pop" /\ queue = <<>>
  /\ WorkerGoes("check")
  /\ UNCHANGED <<ringVars, callVars>>

\* The cooperative pause: a wait of 5 ms at a time until resumed or stopped.
StayPaused ==
  /\ worker.pc = "check" /\ workerPaused
  /\ WorkerGoes("paused")
  /\ UNCHANGED <<ringVars, callVars>>
MayLeaveResumed == ~workerPaused    \* mutant
MayLeave == ~gate.running \/ ~workerPaused
LeavePause ==
  /\ worker.pc = "paused" /\ MayLeave
  /\ workerPaused' = (workerPaused /\ gate.running)
  /\ WorkerGoes("pop")
  /\ UNCHANGED <<ringVars, queue, calls, gate, paused, host>>

\* should_exit, decided under pending_fns_mutex_.
ShouldExitStopped == ~gate.running    \* mutant
ShouldExit == ~gate.running /\ queue = <<>>
CheckExit ==
  /\ worker.pc = "check" /\ ~workerPaused
  /\ WorkerGoes(IF ShouldExit THEN "exited" ELSE "look")
  /\ UNCHANGED <<ringVars, callVars>>

\* The stall loop: it wakes every 5 ms, so a missed event only delays it.
HasWorkUnwrapped == ring.write # Invalid /\ ring.read < ring.write    \* mutant
HasWork == ring.write # Invalid /\ ring.read # ring.write
Stall ==
  /\ worker.pc = "look"
  /\ \/ HasWork /\ WorkerGoes("take")
     \/ ~HasWork /\ (~gate.running \/ queue # <<>>) /\ WorkerGoes("pop")
  /\ UNCHANGED <<ringVars, callVars>>

TakeBatch ==
  /\ worker.pc = "take"
  /\ worker' = IF HasPendingCommands(ring)
               THEN [pc |-> "execute", snap |-> ring, at |-> ring.read, batch |-> <<>>]
               ELSE [worker EXCEPT !.pc = "pop"]
  /\ UNCHANGED <<ringVars, callVars>>

\* ExecutePrimaryBuffer: packet after packet until the snapshot's write pointer.
ExecutePacket ==
  LET here == memory[worker.snap.base][worker.at]
      next == (worker.at + 1) % worker.snap.control.size
  IN  /\ worker.pc = "execute"
      /\ worker' = [worker EXCEPT !.at = next, !.batch = Append(@, here),
                                  !.pc = IF next = worker.snap.write THEN "commit" ELSE "execute"]
      /\ UNCHANGED <<ringVars, callVars>>

\* CommitReadPointerAndApply: pointer and writeback together, and only if the
\* generation is still that of the snapshot.
MayCommitAlways == Configured(ring)    \* mutant
MayCommit == Configured(ring) /\ ring.generation = worker.snap.generation
MayTell == MayCommit /\ WritebackEnabled(ring)
CommitReadPointer ==
  /\ worker.pc = "commit"
  /\ IF MayCommit
     THEN /\ ring' = [ring EXCEPT !.read = NormalizePointer(worker.at, ring.control.size)]
          /\ consumed' = consumed \o worker.batch
     ELSE UNCHANGED <<ring, consumed>>
  /\ title' = [title EXCEPT !.word = IF MayTell THEN worker.at ELSE @]
  /\ worker' = [worker EXCEPT !.pc = "pop", !.batch = <<>>, !.at = 0, !.snap = NoRing]
  /\ UNCHANGED <<memory, issued, origin, callVars>>

(***************************************************************************)
(* The host threads.  Pause holds pause_mutex_ until its function has run, *)
(* so Resume waits for it.                                                 *)
(***************************************************************************)
PauseMutexFree == \A h \in Hosts : host[h] # "pausing"
Accept(fn) ==
  /\ queue' = Append(queue, fn)
  /\ calls' = [calls EXCEPT !.accepted = @ + 1]

Pause(h) ==
  /\ host[h] = "idle" /\ PauseMutexFree /\ ~paused /\ gate.accepting
  /\ calls.accepted < MaxCalls
  /\ paused' = TRUE
  /\ Accept(h)
  /\ host' = [host EXCEPT ![h] = "pausing"]
  /\ UNCHANGED <<ringVars, worker, gate, workerPaused>>

Resume(h) ==
  /\ host[h] = "idle" /\ PauseMutexFree /\ paused
  /\ paused' = FALSE /\ workerPaused' = FALSE
  /\ UNCHANGED <<ringVars, worker, queue, calls, gate, host>>

CallInThread(h) ==
  /\ host[h] = "idle" /\ gate.accepting /\ calls.accepted < MaxCalls
  /\ Accept("call")
  /\ UNCHANGED <<ringVars, worker, gate, paused, workerPaused, host>>

\* Shutdown closes the gate, queues the end of tracing, unpauses and stops the
\* worker in one locked step, then waits for it.
Shutdown(h) ==
  /\ host[h] = "idle" /\ gate.running
  /\ Accept("end tracing")
  /\ gate' = [accepting |-> FALSE, running |-> FALSE]
  /\ paused' = FALSE /\ workerPaused' = FALSE
  /\ host' = [host EXCEPT ![h] = "joining"]
  /\ UNCHANGED <<ringVars, worker>>
ShutdownReturns(h) ==
  /\ host[h] = "joining" /\ worker.pc = "exited"
  /\ host' = [host EXCEPT ![h] = "shut down"]
  /\ queue' = <<>>
  /\ UNCHANGED <<ringVars, worker, calls, gate, paused, workerPaused>>

TitleNext ==
  \/ TitleInitialize \/ TitleWritesBase \/ TitleWritesSize
  \/ TitleWritesAddress \/ TitleEnablesWriteback \/ TitlePuts \/ TitleRings
  \/ TitleSkips \/ TitleTransfers \/ TitleDone
WorkerNext ==
  \/ RunFunction \/ QueueIsEmpty \/ StayPaused \/ LeavePause \/ CheckExit
  \/ Stall \/ TakeBatch \/ ExecutePacket \/ CommitReadPointer
HostNext ==
  \E h \in Hosts : \/ Pause(h) \/ Resume(h) \/ CallInThread(h)
                   \/ Shutdown(h) \/ ShutdownReturns(h)

Next == TitleNext \/ WorkerNext \/ HostNext

\* The worker thread runs; whether the title or a host calls is up to them, but a
\* call once begun is finished.
Fairness ==
  /\ WF_vars(WorkerNext)
  /\ \A h \in Hosts : WF_vars(ShutdownReturns(h))
Spec == Init /\ [][Next]_vars
FairSpec == Spec /\ Fairness

(***************************************************************************)
(* Properties.                                                             *)
(***************************************************************************)

\* What committed batches have executed is what the title put into this ring, in
\* order, nothing twice and nothing left out, whatever the worker was doing when
\* the ring was replaced (CommitReadPointerAndApply).
InOrder == IsPrefix(consumed, issued)

\* The read pointer the title is told is the ring's own, so that it never puts a
\* command over one not yet executed: a batch of a ring given up, or one from
\* before a transfer, tells it nothing (CommitReadPointerAndApply).
ToldTheTruth == WritebackEnabled(ring) => title.word = ring.read

RingIsFaithful == InOrder /\ ToldTheTruth

\* Success of CallInThread is a drain guarantee: a worker that has exited has run
\* every function ever accepted (Shutdown, WorkerThreadMain).
AcceptedIsRun == worker.pc = "exited" => calls.ran = calls.accepted

\* Shutdown returns, from a paused worker too, and so does a Pause it races with
\* (Pause, Shutdown).
HostsReturn ==
  \A h \in Hosts : host[h] \in {"pausing", "joining"} ~> host[h] \notin {"pausing", "joining"}

\* A rung doorbell is answered: the worker catches up with the write pointer
\* unless the ring is replaced, the worker is paused or it is stopped
\* (WorkerThreadMain).
DoorbellsAnswered ==
  \A g \in 0 .. MaxGeneration :
    HasPendingCommands(ring) /\ ring.generation = g
      ~> \/ ~HasPendingCommands(ring) \/ ring.generation # g
         \/ paused \/ ~gate.running
=============================================================================
