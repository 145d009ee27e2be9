# GoldenEye Metal: formal models and proofs

GoldenEye Metal runs a statically recompiled Xbox 360 title on macOS. The
repository has two halves that matter here:

- the **runtime** (`src/src/`, `src/include/rex/`): a kernel in user space
  (handles, threads, events, critical sections), host threading over pthreads,
  memory, audio, and graphics with a native Metal backend;
- the **game application** (`src/vendor/GoldenEye-Recomp/src/`): the launcher,
  Safe Mode, the save manager, the host settings menu with its bridge to the
  title's own pause, the watchdog and the patches of the title.

The modules in this directory model the parts of both halves whose correctness
depends on the order of steps: several threads on one object, a crash between
two file operations, a signal that arrives while another is handled. Unit tests
reach one or two orders of each; TLC explores all of them on small instances,
and TLAPS proves the safety properties for every size.

All paths below are relative to the repository. `PROJECT.json` holds, for every
definition that stands for code, the file, lines and symbol it translates.

| Module | Models | Checked by | Proved in |
| --- | --- | --- | --- |
| `HostPause` | the pause bridge between menu, game thread, guest setter, watchdog | `hostpause` | `GoldenEyeProofs` |
| `LaunchRecovery` | Safe Mode and interrupted-run files of the launcher | `launch_faults` | `GoldenEyeProofs` |
| `ThreadExit` | how a host thread ends, its reaper and exit callbacks | `threadexit_all` | `ThreadExitProofs` |
| `ThreadSuspend` | suspend count, semaphore and signals of a host thread | `suspend` | `PosixHostProofs` |
| `CriticalSection` | the guest's recursive lock, access by access | `critsec_all` | `CriticalSectionProofs` |
| `HandedLock` | what the previous module implements: a recursive lock that is handed over | `critsec_all` | `CriticalSectionProofs` |
| `SaveTransaction` | save restore, reset, undo, journal and recovery | `savetx_all`, `savetx_idempotent` | `SaveTransactionProofs` |
| `AtomicSave` | what the previous module implements: a save replaced in one step | `savetx_all` | `SaveTransactionProofs` |
| `ObjectTable` | handles, names and reference counts of kernel objects | `objects` | `ObjectTableProofs` |
| `CommandProcessor` | the command ring, the worker that executes it, pause and shutdown | `commands` | `CommandProcessorProofs` |
| `HostTimer` | a host timer and the queue that fires it | `timers` | `PosixHostProofs` |
| `WaitObjects` | events, semaphores and mutants as values | with the next two | |
| `KernelWait` | waits for kernel objects, and the guest's events on top | `waits`, `waits_wakeup` | `KernelWaitProofs` |
| `Dispatcher` | what the previous module implements: a wait satisfied in one step | `waits` | `KernelWaitProofs` |

To check or prove a module, in this directory:

    tlc -workers 2 -config MCHostPause_all.cfg MCHostPause
    tlapm GoldenEyeProofs.tla

## 1. Inventory

### 1.1 Components that are modelled

**Host pause bridge** (`ge_host_pause.h/.cpp`). State: the UI's request with its
generation, the applied request, a status byte, the ownership flag and the value
to give back, and the pause word in guest memory. Operations: `RequestPaused`
(UI), `ProcessGameThread` (game thread, once per input poll),
`ApplyRetailPauseWrite` (guest code through the setter wrapper), `GetSnapshot`
(watchdog). It interacts with the title through one 32-bit word that neither
side locks against the other, and with the watchdog through three atomics that
are read one after the other. Hard: the title writes its own pause in the
middle of the host's. Correct when: the title's intent survives, the host never
leaves its token behind or clears a pause that is not its own, acknowledgements
are of the request they name, and the watchdog never takes a host pause for a
hang.

**Launch recovery and Safe Mode** (`ge_launch_recovery.cpp`, its callers in
`ge_launcher_macos.mm`, `SaveConfig` in `src/core/cvar.cpp`). State: four files
(config, backup, Safe Mode marker, run marker). Operations: prepare the
start-up, the start-up's own save of repaired settings (`PersistConfig` in
`OnPostInitLogging`, `ge_app.h:84-143`), begin or cancel Safe Mode, begin and
end a run, restore. Hard: a crash
between any two file operations and failing operations. Correct when: the
player's settings come back, Safe Mode lasts one run, a crash is reported once
and a clean exit is not.

**POSIX host threads** (`src/core/threading_posix.cpp`). State of one
`PosixCondition<Thread>`: the native thread, a completion block shared with a
detached reaper, a queue of exit callbacks, the suspend count with a semaphore
and pending signals. Operations: `Initialize`, `Suspend`, `Resume`, `Terminate`,
`Exit`, `SetExitCallback`, `WaitForExitUntil`. Callbacks may own the thread
object, so the last one destroys what the reaper is working on. Correct when:
the object outlives its native thread, each callback runs exactly once, a
signaled handle means a joined thread, strong completion means that nothing of
the thread is left, no suspended thread waits for a token nobody will post.

**Guest critical sections** (`RtlEnter-`, `RtlTryEnter-`,
`RtlLeaveCriticalSection` in `src/kernel/xboxkrnl/xboxkrnl_rtl.cpp`). State: three
fields and an event in guest memory, read and written without any host lock,
including "repairs" of objects the title embeds uninitialised. Correct when: one
thread is inside, the recursion is right, waiters are woken.

**Save manager** (`ge_save_manager.cpp`). State: save units below the data root,
staging directories, quarantines with manifests, and a journal. Operations:
restore, reset, undo, and the recovery that each of them and the start-up
runs first. Hard: a unit is moved by one rename and synchronised by another
call, so every operation may stop, or fail after it took effect, at any of
dozens of places; the recovery too. Correct when: no save is lost, success and
failure mean what they say, one disruption is always repaired, and the game sees
the old save or the new one.

**Object and handle table** (`src/system/util/object_table.cpp`, `xobject.cpp`,
the object calls of `xboxkrnl_ob.cpp` and `xboxkrnl_threading.cpp`). State: a
growing array of slots with an object and a count of references on the handle,
a map of names, and in each object a pointer count, its handles, its name and a
handle stashed in the guest's header. Operations: create, open by name or pointer,
duplicate, reference, use, close. The table has one recursive lock, but the calls are made
of several locked parts, and `XObject` reads its first handle without it. Correct
when: an object lives exactly as long as something refers to it, every reference
is counted, a retained handle is the object's own, a name leads to an object of
that name.

**Command processor front end** (`include/rex/graphics/command_ring_state.h`,
`src/graphics/command_processor.cpp`). State: ring registers with a generation,
the worker's snapshot and batch, the queue of functions, pause and shutdown
flags. Operations: the register writes of the title, the worker's loop, `Pause`,
`Resume`, `CallInThread`, `Shutdown`. Hard: the title replaces or moves the ring
while the worker executes it, and four requests share one loop. Correct when:
commands are executed in order and once, the title is told the truth about free
space, an accepted function is run, nobody waits for ever.

**Timer queue and host timer** (`src/core/timer_queue.cpp`,
`PosixCondition<Timer>` in `threading_posix.cpp`). State: the items with their
state, the ring they are published in, the queue ordered by time, the dispatch
thread, the timer's current item and signal. Operations: `SetOnce`,
`SetRepeating`, `Cancel` by threads and by the callback itself, the stop. Correct
when: nothing runs after a disarm, `Cancel` in a callback finds its own item,
disarming returns, armed timers fire.

**Waits and kernel objects** (`Wait`, `WaitMultiple`, `SignalAndWait` of
`threading_posix.cpp`, `XObject`, `XEvent`). State: per object its signal or count,
its mutex and who sleeps on its condition; per thread its wait, its callbacks;
per event the marks of a render event. Hard: a wait for all has to take several
objects, each under a mutex of its own, as if at once; alertable waits are cut
into slices; a render event's `Set` is to survive a `Reset`. Correct when: waits
take all or nothing, no signal is slept through, waits with an end have an end.

### 1.2 Components that are not modelled yet, and why

Planned, most important first:

| Component | Source | State and operations | What should hold |
| --- | --- | --- | --- |
| Critical-section ledger | `src/system/critical_section_ledger.cpp` | a bounded table per thread under a generation counter, a ring of mismatches | a reader never reports a torn entry as true |
| Audio system | `src/audio/audio_system.cpp` | worker, clients with semaphores, pause, shutdown | no callback for a client that is gone; the worker leaves at shutdown |
| Presenter mailbox | `src/ui/presenter.cpp` | three slots, producer and consumer | the newest image is shown, none while it is written |
| Watchdog | `ge_watchdog.h` | session, worker, progress counters, episodes | no report while suppressed, one per episode |
| Module launch coordinator | `include/rex/ui/module_launch_coordinator.h`, `src/ui/rex_app.cpp` | one launch at a time, shutdown | no launch after shutdown, none lost |
| Guest threads | `src/system/xthread.cpp` | APC queues, priorities, the kernel's own structures | an APC runs once, in its thread |
| Shortcut tracker, testing tools | `ge_controller_shortcut.h`, `ge_testing_tools.cpp` | hold timer, command queue | one activation per hold |

Out of scope, because there is no protocol to check or because it is input and
output over an external API: the Metal, D3D12 and Vulkan backends and their
shaders, the XMA decoder (FFmpeg), input drivers, the virtual file system, the
parsing of configuration variables, code generation and the loading of modules,
the game hooks and menus, game-data validation. The guest heap and the ring
buffer are sequential and well tested. Guest memory and MMIO are page tables
over host mappings. `PROJECT.json` lists each with its source.

### 1.3 How the components interact

The launcher (`LaunchRecovery`) decides with which configuration the game starts
and runs the save recovery (`SaveTransaction`) before it. A running game is a
set of guest threads, each on one host thread (`ThreadExit`, `ThreadSuspend`)
that enter critical sections (`CriticalSection`) and call the setter of the pause
word (`HostPause`). They meet in few places, each through a narrow interface:

- a guest thread's start routine holds a reference to its own thread object,
  released by an exit callback that *owns* the object: this is `Owning` in
  `ThreadExit`;
- guest threads are created suspended, which is why `setting.suspended` is a
  case of both thread modules and not a detail;
- the event a leaving thread sets is an ordinary dispatcher event, which is
  modelled in full by `KernelWait`; `CriticalSection` uses what is true of it there
  (auto-reset, one waiter per set);
- a handle of the object table leads to an object, and a wait on it pins the object
  for the time of the wait: `ObjectTable` has this as `Use`, `KernelWait` the rest;
- a guest timer is a host timer, armed in the one queue of the process (`HostTimer`);
  waiting for its handle is waiting for an event;
- the GPU's interrupt runs on a thread of its own and sets events: `Isr` in
  `KernelWait`. It is raised by a packet, which `CommandProcessor` counts as a command;
- the watchdog reads the bridge's snapshot, which is an action of `HostPause`;
- files are the only thing the launcher and the save manager leave to a later
  process, so their crash actions keep the files and reset all the rest.

## 2. The models

Conventions. An action carries the name of the function it models, or names a
stage of it when other actors may act in between. Where code holds one mutex
over a block that nobody else can observe in the middle, the block is one
action; where it reads atomics, guest memory or files without one, each access
is an action. History variables are marked as such where they are declared
and no guard reads them, but for `registered` in `ThreadExit`: a callback of the
model is registered once, and the creator lets go of the object only after it
registered an owning callback. Operators described as *mutants* are plausible bugs, kept
above the action they replace; they are not part of any specification and
show that a property notices that bug.

### 2.1 HostPause

Four threads. The game thread's poll is `TryProcessIdle` (nothing asked, nothing
owned), `SampleMission` (before the locks), `Process` (under both mutexes up to
`Publish`) and the two stores of `Publish`, `PublishStatus` and
`PublishApplied`, between which the watchdog may look. The setter wrapper is
`FilterRetailWrite` and `StoreRetailWrite`, because the filtered value is stored
only after the filter returned. `Watchdog` is the three loads of `GetSnapshot`,
one step each. `DirectWrite` is a guest store that does not go through the
wrapper; inside `Process` it may also land between the host's set and its
verification (`SetAndQuery`).

`hostpause` (227 190 states) chooses at the start whether this title also stores
directly (`direct`). `RetailIntentKept` is stated for one that does not, since that
is what the wrapper is for; `NoOrphanToken` and `WatchdogMissesNoPause` hold in spite
of direct stores. Under fairness requests take effect (`RequestsTakeEffect`) and the
watchdog is not suppressed for ever (`SuppressionEnds`). `ResumeAcknowledged`,
`PausedIsPaused` and `NeverClearsRetailPause` are proved and no longer run.

Bounds. `MaxGen = 3` requests (the UI can only alternate) give pause, resume and
pause again, so a request can be overtaken by a newer one between sample and
publication, and an acknowledgement can be of a stale generation. The missions
are a title screen (level 90), a local mission and the same one in a network
session: all sides of the eligibility test. The word holds 0, 1 or the token
(7 in the configuration; any value but 0 and 1 serves).

### 2.2 LaunchRecovery

The disk is four files; `config` and `backup` hold one of the player's own
configurations, the one saved with Safe Mode overrides, a torn one, or nothing.
`WriteAtomicPrivateFile` and `RemoveRegularFile` are one step each and may fail;
`SaveConfig` is two (`OpenConfig` truncates, `WriteConfig` writes, and may fail with no one
looking). A start saves too: once it has loaded the config (`LoadConfig`) it repairs
settings that macOS does not support, the `gpu` selector on a first start for one, and
persists them before the launcher opens (`RepairConfig`, `RewriteConfig`,
`ge_app.h:141`). Environment overrides can call for a repair on any start, so every start
may make one or not. `Crash` may come between any two steps and leaves only the files. `RestoreConfig`,
`RestoreMarker` and `RestoreBackup` are the stages of `RestoreSafeModeConfig`,
which the launcher calls at start-up, on cancel and at the end of a run
(`after` remembers where it returns to).

`launch_faults` (23 822 states) explores any sequence of starts, plays, saves and
quits, with unboundedly many crashes and up to three failing operations. Three
failures are needed for the deepest case in the code: preparing Safe Mode, its
rollback, and the restoration at the next start all fail. Two configurations of
the player are enough, because contents are only compared for equality.
`OnlyOwnSavesChangeSettings` speaks of `Recovered`, the configuration the next
restoration would produce, so it holds in the middle of an operation too. It allows the
saves of a game outside Safe Mode and the save of a start that repairs: these truncate the
config, so a crash in one of them leaves it torn, as in the code.
`SafeModeLastsOneRun` is claimed only while no file operation failed: when the
restoration at start-up fails, the code only warns and loads the Safe Mode
configuration, and the model shows that start.

### 2.3 ThreadExit

`native` is where the native thread is (not yet started, routine, exit clean-up,
ended); the completion block is `queue`, `closed`, `released`, `inFlight` and
`completed`; the reaper is `Join`, `TakeCallbacks`, `RunCallback`,
`CloseCallbacks`, `ReleaseCallback`, `PublishCompletion`. `SetExitCallback` joins
the queue or, once that is closed, starts a synchronous run (`RunLate`,
`ReleaseLate`, `CountLate`). Those that began before completion are counted
(`tracked`, `inFlight`), and completion waits for them. `Owning` callbacks hold
the object; `Alive` says whether somebody does. A failing `std::thread` for the reaper is the setting `spawnFails`.

- `threadexit_all` (181 486 states): three callbacks, one of them owning, and one
  waiter. Three is the smallest number with one callback in the reaper's
  batch, one in the queue again and one that comes too late. One waiter
  suffices as waiters change nothing but their own state and, through the
  retry of the reaper, a flag that any of them sets alike.

`EndedCompletes` and `CallbacksRun` are stated for a thread created suspended on a
host that can start threads (`Reaped`): observation 1 of section 5 is exactly the
other case.

### 2.4 ThreadSuspend

State `state`, `count`, `sem` (tokens), `pending` (signals on their way), and where
the thread is. `Suspend` of another thread is two actions, because the signal
is sent after the lock is released (`Suspend`, `SendSignal`). Signals queue on
Linux and merge on macOS; `setting` chooses one for the whole behaviour.
`Terminate` and its cancellation, the start-up wait, and the stores of the exit
clean-up are actions too.

- `suspend` (123 711 states): up to four suspensions by two controllers and the thread
  itself, nested two deep (`MaxCount = 2`): `XThread::Suspend` hands every call on
  (`xthread.cpp:1204`), so nothing keeps callers from nesting. Four calls let a token left
  by the first one be consumed by a second and show in a third.
- Of two nested suspensions one gets no token. `nested` counts them, and `NoStrandedWait`
  says that they are all that can strand a wait: no more waits than there are tokens,
  posted or to come, and nested suspensions. `QueuedSuspendStops` holds for any nesting,
  `ResumedRuns` as long as there was none.
- What the model shows beyond that, a thread whose first suspension does not stop it
  and nested suspensions that strand it, are observations 2 and 3 of section 5.

### 2.5 CriticalSection and HandedLock

One step per access to the guest object, in the order of the C++ code:
`TestOrphan` (three plain reads, then a compare-and-swap), `RepairOrphan`,
`TestStale`, `RepairStaleOwner`, `RepairStaleRecursion`, `TestOwn`,
`ReenterCount`, `ReenterRecursion`, `Spin`, `SpinEnds`, `Count` (atomic increment), `Wake`,
`WaitExpires`, `TestStaleAcquired`, `DropOwner`, `DropRecursion`, `TakeOwner`,
`TakeRecursion`; `Try` and `TryOwn`; `LeaveRecursion`, `LeaveNested`, `LeaveClear`,
`LeaveCount`, `LeaveSet`. Reads and writes of the plain fields by two threads are
data races; each stays atomic here, which is what aligned 32-bit accesses do on the machines the
program is built for.

The code repairs objects that look orphaned and, on the title's render workers,
takes the section when a 30 ms wait expires. Both can hit a section that is in
use. `intruded` records that this happened, and the properties are stated until
then: without a repair or an expired wait at the wrong moment, the section is a
lock (`ImplementsLock`), the diagnostics of `rtl.h` compute the truth from
an object at rest (`SnapshotIsRight`), nobody is forgotten (`WaitersAreWoken`).
What happens after is observation 4.

`HandedLock` is the lock: threads have entries, wait, receive. A free lock is acquired
only while nobody waits, so a thread that arrives never overtakes; a lock that is left
while threads wait is handed to one of them. The mapping counts a thread's entry from
the step that admits it to the step of its Leave that gives the entry back (`Entries`),
the event is `handed` and `intruded` is `broken`, after which the lock promises nothing.
All other accesses are stutters. That at most one thread is inside (`OneInside`) follows;
it has a theorem and no run of its own.

- `critsec_all` (157 401 states): three threads, one of them a render worker;
  three calls in all, so that one thread is inside, one is handed the section
  and one arrives; recursion two. The object is initialised or embedded
  (`lock_count` 0), as the title has both.

### 2.6 SaveTransaction and AtomicSave

A save is a set of units (package, header, title profile), each present or not,
with a version; `disk` says which copy is below the root and in each directory.
The journal is a record: mode, precommit or committed, directories, units. An
operation begins with the recovery (`Recover`, then one `Reconcile...` step per
unit, `Check`, `RecoveryClears`), then stages or quarantines (`StageArchive`,
`StartReset`, `QuarantineCurrent`, `UndoIntoRoot`, `UndoBySwap`), writes the
journal (`Begin`), moves (`MoveUnit`, on failure `MoveFails`, `Unmove`, `Unmoved`),
commits (`Commit`, `Observe` when the result of the write is unknown), and clears
up (`FinishClears`, `Clean`). Every rename, journal write and removal may fail
before its effect or, when only the directory's synchronisation failed, after
it. `RootOperationLock` admits one operation at a time, so there is one process.

- `savetx_all` (421 361 states): any sequence of recoveries, restores, resets and
  undos with one I/O error, one crash, one game that writes a new save in
  between and three directories. Three directories are a staging directory,
  the quarantine of the replaced save, and the quarantine of an earlier reset
  or restore that can be undone. `ReplacedAtomically` was
  also checked with two errors and two crashes (2 520 174 states), too slow to
  repeat with every run.
- `savetx_idempotent`: no errors, no game, two crashes; finding 1.

`ReplacedAtomically` says that the module implements `AtomicSave`, whose only
step that changes a save is `Install`. The refinement mapping is the point: the
abstract save is not what is below the root but `Recoverable`, what a recovery
would leave there, which is the old save while a journal says precommit and
changes in the one step that publishes the commit record (or removes the
journal).

One exclusion: undoing a reset while the root holds units the quarantine does
not list makes the later validation refuse; the code reports it as a conflict
and keeps everything. `disjoint` marks these behaviours, and
`OneDisruptionRecovers` and `RecoveryIsIdempotent` leave them out.

### 2.7 ObjectTable

Each locked call of the table is one step; what lies between two of them is not.
`GetObjectByName` is `CallByName` (the name, under the name lock only), `Locate` (the
lookup of the handle it found) and the retaining of the object, after which
`LookupNamedObject` looks the handle up once more (`Again`). `XObject::RetainHandle`
and `ReleaseHandle` are `ReadFirst` (the first handle, without the lock) and
`RetainFirst` or `ReleaseFirst` (with it, if the slot still is the object's). `Make`
is the constructor with `AddHandle`; `AddNameMapping`, `GiveFirst`, `GiveFound` end
a creation or an opening; `Close`, `DuplicateHandle` (with or without closing the source,
also when the table is full), `Reference`, `ReferenceByName`, `OpenByPointer`, `Dereference`, `Use`, `Collect` are the guest's
other calls. `pins` are the `object_ref`s of a call in progress.

The history variables count what nobody but the model knows: `owned` is what guests
have been given and not closed, `byPointer` the references taken on native pointers,
`leaked` those that no call will release. `HandlesCounted` says that each entry's count
is their sum. It can fail in one way: a call answers with a handle it did not manage
to retain, or releases one it holds nothing on; `lost` marks that, and the behaviours
that lead there are observations 5 to 7.

`objects` (1 144 187 states): two threads, two objects of two types, one name, a table
of two slots that grows once to four, two references with the guest. Two objects
under one name are what the race of two creators and the reuse of a slot need; the
growth happens in the middle of a call. References a guest does not hold are not
closed, and after a reference has leaked or is lost no new call begins.

### 2.8 CommandProcessor

The registers are `ring`; a call on `CommandRingState` is one step, since it holds
its mutex. The title is external: it programs a ring (`TitleInitialize`,
`TitleWritesBase`, `TitleWritesSize`), turns on the write-back, puts commands as long as
the read pointer it knows leaves room (`TitlePuts`), rings the doorbell
(`TitleRings`) and may move the read pointer itself (`TitleSkips`, `TitleTransfers`,
`TitleDone`). The worker goes round `RunFunction` or `QueueIsEmpty`, the pause
(`StayPaused`, `LeavePause`), `CheckExit`, `Stall`, `TakeBatch` (the snapshot),
`ExecutePacket` once per command, and `CommitReadPointer`, which counts only while the
generation is that of the snapshot. `Pause` queues a function with which the worker
pauses itself and holds its mutex until that has run.

`commands` (330 311 states): rings of two and four dwords at two bases, two generations,
three commands, two functions, two host threads. A ring of two holds one command, so it
is full at once and the pointers wrap; a second generation is all that a stale commit
needs. `RingIsFaithful` joins what must hold of the data (executed in order, once) and
of the read pointer the title is told; `AcceptedIsRun`, `HostsReturn`,
`DoorbellsAnswered` are about the loop. The generation counter does not wrap here; the
64 bits of the code do not either.

### 2.9 HostTimer

One timer and the queue it arms itself in. The dispatch thread is `Top`, `Consume`
(new items from the ring), `Fire`, `Signal` and `RunCallback` (the timer's completion
routine), `CallbackCalls`, `CallbackReturns`, `EndPass`. The callback may cancel and set its
timer any number of times (`CallbackCalls`). A setter is `Begin` (its `Cancel` reads
`wait_item_` without the lock), `DisarmNow`, `DisarmWaits` or `DisarmOwn` (inside the
item's own callback), `Lock`, `QueueTimer`, `Assign`. Time is the action
`BecomeDue`; `Stop` is the destructor of the queue.

`timers` (47 600 states): two threads and the callback itself, two items. With two items
one is in its callback while the next is armed. `NoneAfterDisarm` is the promise of the
header, `ExpiryIsItsOwn` that a callback which cancels its timer finds its item even if
it fires before the setter has stored it. Two setters that race past each other's
`Cancel` leave an armed item nobody can reach (observation 8); `raced` marks that.
A callback that has disarmed its own item and then cancels or sets its timer again waits for
itself (observation 9). From then on the dispatch thread is lost, no timer fires and no
other `Disarm` of the item returns: `DisarmReturns` and `ArmedFires` hold up to that
(`WaitsForItself`), and `WaitsForItselfForEver` proves that this wait is what it says.

### 2.10 KernelWait, WaitObjects and Dispatcher

`WaitObjects` says what the objects are: when one is signaled for a thread, what a wait
makes of it, and what a request may take (`Grants`). `KernelWait` has the steps. A wait for
one object is `Lock`, `Wake` and `TimeOut`, each a look at the object under its mutex
(`Look`), then `Take`. A wait for several tries the mutexes in order (`TryLock`), gives
all back when one is taken, and with all of them looks once (`Scan`) and takes one object
after the other (`Take`). An alertable wait goes through `Alert`, where it runs a queued
callback, and ends each slice by `TimeOut` or `Scan`. `Deliver` is `WaitCallback` and the
return. `SetEvent` and `SetHost`, `ResetEvent` and `ResetHost`, `Pulse`, `Query` and
`QueryEnds` are `XEvent`'s calls, in two steps where the code looks and then acts.

`Implements` is the refinement: every behaviour is one of `Dispatcher`, in which a wait
takes all its objects in one step. Under the mapping an object counts as taken from the
scan on (`Promised`), although `post_execution` reaches it later: that this is sound is what
holding all the mutexes is for. `NoLostWakeup` is about the condition variables,
`RenderWakeupKept` about the marks of render events. It is stated for a `Set` that nothing
overtook; `owed` remembers which are.

`waits` (51 287 states): two threads and the interrupt; an auto-reset event, a semaphore
with a maximum of one and a mutant; a timed and an alertable wait for one object, a timed
wait for all and an alertable wait for any, in which the event is second. Two threads are
enough for every race on one object, as the interrupt is a third that signals. One mutant
acquired once keeps the counts small. `waits_wakeup` is finding 2.

## 3. Fairness

Safety runs assume none. Where liveness is checked:

- `HostPause`: weak fairness of each step of the poll (the title polls input
  every frame) and of the store that ends a setter call. `Process` needs strong
  fairness, since it takes a mutex that guest threads keep taking and releasing:
  it is the assumption that a thread contending for a mutex gets it in the end.
  Nothing forces the UI to ask, the title to write or the mission to change.
- `ThreadExit`: the host runs `Initialize`, the reaper, a started `Terminate` and the late callbacks, and
  callbacks return (the reaper of the code waits for them without a bound).
  Nothing forces the start routine to return or anybody to register or wait.
- `ThreadSuspend`: the thread's own steps, signal delivery and the second half of a
  call that has begun. Nobody has to suspend or resume.
- `CommandProcessor`: the worker thread runs (weak fairness of its next step), and a
  `Shutdown` whose worker has left returns. The title need not ring, nobody need resume.
- `HostTimer`: the dispatch thread runs and time passes. A callback makes finitely many
  calls (strong fairness of its return; one that waits for itself is never able to
  return). Strong fairness of the steps
  that take the timer's mutex, and of `DisarmNow` for a thread that waits for a callback:
  it looks again after every run, and between two runs of a recurring callback it gets
  to look. A timer whose interval is shorter than a wake-up could deny it that.
- `KernelWait`: threads run and time passes; strong fairness of the blocking locks and of
  a time-out that has to lock. None of `TryLock`'s success: two waits for several objects
  in opposite orders may give way to each other for ever, and `LoneWaitsEnd` is about
  waits for one.
- `CriticalSection` and `ObjectTable` make no liveness claim: a guest may keep what it has.
- `LaunchRecovery` and `SaveTransaction` make no liveness claim: the user acts, or
  not.

`CHECK_DEADLOCK FALSE` is given where the system really stops: a thread that has
ended (`ThreadExit`, `ThreadSuspend`), the bounded number of calls in
`CriticalSection` and of commands in `CommandProcessor`, whose worker may have been shut
down, a queue that has been stopped (`HostTimer`), and threads that wait for what nobody
signals (`KernelWait`).

## 4. What is proved

The proofs are for all values of the constants under the named `ASSUME`s of the
modules, which TLC evaluates in every run. Each follows one argument: a
strengthening `IInv` holds initially, every action keeps it, it implies the
property. `IInv` was first checked with TLC.

**GoldenEyeProofs, the pause bridge.** `IInv` adds to `TypeOK`: who holds the word's mutex
(`LockInv`), that a setter call in flight carries the token exactly if the host owns
the word (`FlightInv`), where the title's value is (`IntentInv`), that a publication
in progress is of the current request (`AckInv`, `PausedInv`), and what a watchdog
sample in progress can still see (`ObsInv`). `FlightInv` is why the outer mutex is
needed: without it ownership could change between filter and store. Proved:
`TypeCorrect`, `KeepsRetailIntent`, `LeavesNoOrphanToken`, `ResumeAcknowledgedHolds`,
`PausedIsPausedHolds`, `WatchdogMissesNoPauseHolds`, `NeverClears`.

**GoldenEyeProofs, launch recovery.** `SettingsInv` says for each program counter how config,
backup and marker relate; `SafeInv` that without failures nothing recoverable is
the Safe Mode configuration; `DiedInv` how the run marker follows the game.
Proved, for any number of failures and configurations: `RecoveryTypeCorrect`,
`SettingsKept`, `OneRun`, `CrashIsReported`.

**ThreadExitProofs.** `Phase` (what the reaper's position says of the flags),
`Place` (each callback is in exactly one of queue, batch, kept or late, and how
often it ran), `Count` (the counter is the number of late callbacks that
completion waits for, by cardinality), `Owned` (somebody owns the object until
the list is closed). Proved for any set of callbacks and waiters: `TypeCorrect`,
`DestroyedLate`, `SignalIsLate`, `CompletionIsStrong`, `CallbacksRunOnce`.

**PosixHostProofs, suspension.** `Balance` is the core: the waits a thread is in or will
enter never exceed the tokens posted, the one to come with the last resume and the nested
suspensions (`Tokens`); with queued signals and a thread created running they are equal.
`TypeCorrect`, `NoWaitStranded`, `SuspendedThreadStops` and `StartsOnlyResumed` hold for any
number of controllers, of calls and any depth of nesting.

**PosixHostProofs, the timer.** `NoneAfterDisarm` alone is not inductive: it needs that no
thread disarms an item while its callback runs, so `Running` says that the item in a
callback is the one the dispatch thread holds, and that only its callback can have
disarmed itself. `Unheard` says that an item which has left the queue carries no old
promise, since the next setting may use it again. `ExpiryIsItsOwn` rests on `Owned`: as
long as no two setters have raced, an item that can fire is in `wait_item_`, or a setter
that has had its `Cancel` is on its way and the item is in its hands. `Hands` makes that
setter the only one with a new item, through `mutex_`, and `Answered` is where `Signal`
comes in: the callback takes `mutex_` before it runs, so the setter of its item has let go
of it and has stored it. Proved, for any number of threads and items: `TimerInvariance`,
`DisarmedStaysSilent`, `CallbackFindsItself`, and `WaitsForItselfForEver`: the dispatch
thread waits in `Disarm` only for its own item, which the callback has disarmed before, and
then for ever.

**CommandProcessorProofs.** Pointers wrap, so the argument is about numbers and not about
pointers. The k-th command put into a ring lies at `Position(origin, k, size)`; `Stored`,
`Rung` and `InBatch` say that read pointer, batch, doorbell and the title's own pointer are
the positions of numbers C, D, V and I with C <= D <= V <= I < C + size. Two numbers less
than a ring apart have two positions (`PositionInjective`): this is why "equal pointers"
means "nothing pending", why the title never puts a command over one that is still to be
executed, and why the worker stops at its doorbell and not a round later. `InBatch` is
claimed of a batch only while its generation is the ring's. Of an older batch `Snapped` says
no more than that it stays inside its ring, and that is enough, because `MayCommit` discards
it. A transfer that finds nothing to drop keeps the generation; then no batch can be in
flight, since one in flight has something to execute or is not empty. `Told` carries the
writeback word along. The prover knows remainders by a literal only, so `ModUnique`,
`ModSuccessor`, `ModInjective` and `ModPeriod` derive what is needed for any capacity.
`CallsKept` is the drain guarantee: accepted is run plus waiting, the gate closes before the
worker is stopped, and the worker exits with nothing waiting. Proved, for any bases,
capacities, hosts, commands and functions: `ProcessorInvariance`, `ProcessorTypeCorrect`,
`CommandsRunInOrder`, `AcceptedFunctionsRun`.

Two proof modules hold the proofs of two components each. `PosixHostProofs` extends
`ThreadSuspend` and `HostTimer`, `GoldenEyeProofs` extends `HostPause` and
`LaunchRecovery`; this is why `HostTimer` and `LaunchRecovery` call their specification
`TimerSpec` and `RecoverySpec`. The components of a pair share no variable, and no theorem
about one uses anything of the other.

**CriticalSectionProofs.** `Sound` describes the object for every position of every
thread: free, handed over, or with one thread, and then `lock_count` as a function of
the number of waiters (a cardinality) and of that thread's depth. It is kept by
every access until one intrudes. Proved for any number of threads, calls and
recursion: `TypeCorrect`, `OneInsideHolds`, `WaitersAreWokenHolds`,
`SnapshotIsRightHolds`, and `SectionIsALock`, the refinement of `HandedLock`. For it
`Shown` says what a step of a thread shows of the lock, and `Unseen` that a step shows
nothing if the thread keeps its entries and its wait. `Spin`, `Try` and `Count` map to
`Acquire` because `lock_count` is -1 only in a free section without waiters, which is
`Sound` again.

**SaveTransactionProofs.** `NothingLost` is not inductive: a step may drop a copy
if a staging directory holds the game's, or if the process empties a quarantine
it believes to be new. `DirsOK` (staging holds archive copies only), `JournalOK`
(what each mode says of its directories, above all `ArchiveSafe`), `TransactionOK`,
`DirectoryOK`, `DropOK` (a dropped quarantine is empty) and `LoopsOK` close this. Proved
for any number of directories, games, errors and crashes: `TypeCorrect`,
`NothingLostHolds`.

The other four theorems rest on a second invariant, `AInv`, which says where the units
of a transaction are, whatever the mode: a unit is `Untouched` (where the old save had
it, the new one waiting), `Aside` (the old one in its quarantine, the new one waiting) or
`Placed` (the new one below the root). `Poised`, `Halfway` and `Finished` say which of
these the units a loop has passed, and those it has not, are in. A rename moves one unit
from one of them to the next, so an error or a crash between two renames leaves an
arrangement and not an arbitrary state; this is why the partial states of two nested
loops need no enumeration.

- `SaveIsAtomic`: `Recoverable`, the save that a recovery would leave, is the old one
  under every arrangement until the journal is committed, and the new one from then on.
  So every rename maps to a stutter, and the write of the commit record to `AtomicSave`'s
  `Install`.
- `SuccessIsDone`: a call succeeds only past the commit, where every unit has `Moved` to
  where its record was to bring it (`Finished`), so the root and the quarantine are as the
  call wanted them (`Done`); nothing that follows renames a unit.
- `FailureIsUndone`: with one error and no crash, the error is spent when the rollback
  begins (`Calm`), so both its passes reach their end and `RootIsBack`; a commit that was
  written in spite of the error is seen (`CommitSeen`).
- `OneDisruption`: after one disruption each unit of a leg is at exactly one of its ends
  (`LegSound`) and a pass of the rollback never meets what the other pass has moved
  (`Onward`). It is the second disruption of finding 1 that breaks `Onward`.

**ObjectTableProofs.** The counts are not inductive: whether an entry may be freed depends
on what the calls in progress hold. `IInv` adds what the locals of a call are at each place
(`CallsOK`), that `handles_` lists exactly the entries of its object and each once
(`VectorsOK`), that an entry is free exactly when its count is zero (`SlotsOK`), that an
object about to be named has no name and one creator (`NamingOK`), that at most one call
takes a reference on a pointer that has none (`ReferOK`), and `KeptIsOurs`, which is
`RetainedIsOurs` from the moment a handle is retained.
The counts are cardinalities, so each step is a recount: it moves one entry, one thread
or one pointer into a set or out of it (`PinsRecount`, `EntriesRecount`,
`HoldingRecount`, `PointersRecount`). The unlocked read is sound because a counted entry
does not change hands (`HeldEntry`): while a call holds a reference on it, its count is
positive, so the slot cannot have been freed and reused. That `FindFreeSlot` finds a free
slot whenever there is one needs a least element of a set of numbers; it comes from the
well-foundedness of strict inclusion on finite sets, without induction. Proved, for any
finite sets of threads and objects (a process has no others), any names, kinds and
capacities: `TypeCorrectness`, `PointersAreCounted`, `HandlesAreCounted`,
`RetainedIsPinned`, `NamesAlwaysLeadHome`. All but the first two have the exception of
`HandlesCounted`: they speak of the table until a call has answered with a handle it did not
retain.

**KernelWaitProofs.** `Locked` says which mutexes a thread holds while it collects and
takes its objects. `Kept` says of a render `Set` that nothing overtook that it is present
or about to be put back by `Query`, that both marks stand, and that no thread is at a
point where it would clear one (`Undisturbed`); `Locked` is what makes the taker of an
event the only one that changes it. `Marked` says that the interrupt only sets events it
has marked. `IInv` is their conjunction with `Typed` and `NoLostWakeup`. Proved, for any number of threads and objects:
`Invariance`, `NoWakeupIsLost`, `RenderSetsAreKept`, `WaitsAreAtomic`.

`WaitsAreAtomic` is the refinement of `Dispatcher`, step by step. An object that a thread has
yet to take is `Promised`; `Reserved` says that the promises of two threads never meet and
that a promised object is as the scan saw it, since its mutex is held. A scan that finds
enough (or the one look of a wait for one object) is then the abstract `Grant`, taking the
objects one by one is a stutter, a time-out that finds nothing is `GiveUp`, and the guest's
and the interrupt's calls are `Signal` and `Reset`. `AllFit` says that a call stays within
what it asked for: it is late only if it was timed, looks for callbacks only if it is
alertable.

Only model-checked, on the bounds above:

- all liveness properties, which the prover cannot do with fairness;
- `RecoveryIsIdempotent` and `WakeupKept`, which do not hold (section 5).

Assumed and not checked anywhere: pthreads, signals, `rename` and `fsync` do what
their manuals say; a mutex-protected block is atomic to the other holders of
that mutex; the C++ atomics, which the code uses in sequentially consistent or
acquire-release form, are interleaved.

## 5. Findings

Runs expected to fail, each with the sentence of the repository it refutes.

1. `savetx_idempotent`: a rollback that dies after a replaced unit came back cannot be
   repeated: the second recovery finds that unit in two places and refuses, and so does
   every later one (`ge_save_manager.cpp:1686`). The header calls the recovery
   idempotent; the crash matrix of the tests crashes once only. The behaviour was
   reproduced with the compiled save manager and its checkpoint hook.

2. `waits_wakeup`: `XEvent::Reset` looks at the marks of a render event
   (`xevent.cpp:114`) and then resets the host event (`119`). An interrupt's `Set` in
   between is dropped, although `xevent.h` says that a racing `KeResetEvent` cannot drop
   it.

Observations: other behaviours of the code that the models have and that a property's
statement excludes by name. No run repeats them.

1. A thread created running may end before `Initialize` records it as joinable
   (`threading_posix.cpp:664-673`, `1101`). Nobody starts its reaper, the handle is never
   signaled. Guest threads are created suspended and are not affected (`Reaped`).
2. `Resume` of a thread that waits to start posts a token that no one consumes
   (`threading_posix.cpp:929`); the first suspension of that thread takes it and does not
   stop (`setting.suspended` in `QueuedSuspendStops`).
3. Two nested suspensions begin two waits, the last resume posts one token
   (`threading_posix.cpp:925`; `nested`): with a count of zero the thread still waits.
4. The state taken for an orphan (`lock_count` 0, no owner, no recursion) is also that of a
   section between the compare-and-swap and the store of its owner, and of one that is
   being left or handed over (`xboxkrnl_rtl.cpp:490`). A second thread then enters
   (`intruded`).
5. `GetObjectByName` answers with success and the handle it found under the name although
   the object is gone by then, or is another one (`object_table.cpp:385`; `lost`).
6. `ObDereferenceObject` finds the object through the handle stashed in its header
   (`xboxkrnl_ob.cpp:163`), which may have been closed and given to another object
   (`leaked`, `lost`). `LookupNamedObject` forgets a reference when the types differ, and
   `ObReferenceObjectByName` the one that the lookup of the name took (`leaked`).
7. Two creators of one name leave two objects that carry it and one mapping; closing the
   unmapped one removes it (`object_table.cpp:226`).
8. `Cancel` reads `wait_item_` without the lock (`threading_posix.cpp:557`): of two threads
   that set a timer at once, one leaves an armed item that no one can disarm (`raced`).
9. `timer_queue.h:38-44` says that a `Disarm` called from the callback itself returns
   immediately. Only the first one does. After it the item is no longer in the state the
   compare-and-swap expects (`timer_queue.cpp:162`), and a second `Cancel`, or a set, which
   begins with one, waits on the dispatch thread for the callback to end (184). No callback
   in `src/` calls its timer: `XTimer`'s only queues an APC (`WaitsForItself`).

Not modelled, because what they do depends on the platform: `pthread_cancel` of a thread
that has been joined (`threading_posix.cpp:995`) and asynchronous cancellation inside a
locked block (`1569`). A suspend signal during the exit clean-up (`1631`) is in the model
and waits for ever; the code makes no promise about it.

## 6. Plan

Done: the pause bridge, launch recovery, host threads, critical sections, the save
manager, the object table, the command ring with its worker, timers, waits. Every safety
property of a passing run is proved.

Next, extending the model, in this order:

1. `AudioWorker`: clients, semaphores, pause and shutdown; the argument freed by
   `UnregisterClient` while the callback runs (`audio_system.cpp:136`).
2. `Ledger`: the critical-section ledger as a seqlock, composed with
   `CriticalSection` by the calls it receives. Property: an accepted copy is a state the
   table was in. Bounds: capacity two, so that the overflow and the
   swap-with-last removal happen.
3. `Watchdog`, composed with `HostPause`: no report during a host pause, and one per
   episode. Then the launch coordinator and the presenter's mailbox.
4. `ObjectTable`: saving and restoring the table, and `PurgeAllObjects`.

Abstract specification still to state: a one-shot event for `ThreadExit`. No proof is
left for the modules there are, except what section 4 names.

## 7. Not modelled

- Data: messages, log lines, exit codes, names, priorities and affinity, the archive
  format and its validation, path and symlink checks.
- `HostPause`: the resume input latch and the log gate.
- `LaunchRecovery`: power loss (each published file and its directory are synchronised),
  markers damaged by other programs, and a start whose user data directory cannot be made
  (`ge_launcher_macos.mm:2846`): it restores nothing and reports no interrupted run.
- `ThreadExit`: the order inside one batch of callbacks; nothing in the code depends on
  it. Cancellation arrives between the modelled steps of the native thread.
- `ThreadSuspend`: several targets. A thread's state is its own, so one is enough.
- `ObjectTable`: `Save`, `Restore`, `RestoreHandle` and `Reset`, which run while no guest
  does; `PurgeAllObjects`, which nothing calls; host objects.
- `CommandProcessor`: a worker whose `SetupContext` fails, which ends the program with an
  error (`command_processor.cpp:442`); what a packet does; saving and restoring the ring; the pause that
  `InitializeShaderStorage` asks for on its own account (`graphics_system.cpp:410`).
- `HostTimer`: due times and their order; more than one timer, since two share only the
  ring.
- `KernelWait`: the guest's copy of the signal state, mutants abandoned by a thread that
  ends, and waits for threads and files.
- `CriticalSection`: the ledger, and a guest that initialises a section in use.
- `SaveTransaction`: `CreateBackup`, `InspectBackup` and `Discover`, which move nothing;
  saves changed by other programs while an operation runs.
