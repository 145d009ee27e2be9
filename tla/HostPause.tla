----------------------------- MODULE HostPause -----------------------------
(***************************************************************************)
(* The bridge between GoldenEye's host settings menu and the title's own   *)
(* pause word (vendor/GoldenEye-Recomp/src/ge_host_pause.{h,cpp}).         *)
(*                                                                         *)
(* Four threads meet here:                                                 *)
(*   - the UI thread asks for a pause or a resume (RequestPaused);         *)
(*   - the game thread polls once per input frame (ProcessGameThread):     *)
(*     it acquires the pause word by storing a distinct token in it and    *)
(*     gives it back by storing the title's latest intent;                 *)
(*   - guest code writes the pause word through the strong setter wrapper  *)
(*     (ApplyRetailPauseWrite), which shadows the write while the host     *)
(*     owns the word;                                                      *)
(*   - the watchdog thread reads a lock-free snapshot (GetSnapshot).       *)
(*                                                                         *)
(* Two mutexes: operation_mutex_ is held by the game thread in the steps   *)
(* "status" and "applied"; g_pause_word_mutex by whoever wordLock names.   *)
(***************************************************************************)
EXTENDS Naturals

CONSTANTS
  kHostPauseToken,  \* the value that proves host ownership of the word
  Missions,         \* what the title may be playing: [level, players, network]
  MaxGen            \* bound on the number of host requests

ASSUME TokenAssumption == kHostPauseToken \notin {0, 1}
ASSUME GenAssumption == MaxGen \in Nat
ASSUME MissionAssumption ==
  Missions \subseteq [level: Nat, players: Nat, network: BOOLEAN] /\ Missions # {}

VARIABLES
  request,    \* request_: generation and desired pause state
  applied,    \* applied_request_
  status,     \* status_: available / gameplay paused / host owned
  ownsPause,  \* owns_pause_
  restore,    \* retail_restore_value_
  word,       \* the title's pause word, in guest memory
  wordLock,   \* holder of g_pause_word_mutex: "free", "game" or "retail"
  mission,    \* what the title is playing now
  gpc,        \* where the game thread is in ProcessGameThread
  gEligible,  \* its sample of the mission's eligibility
  pub,        \* what it is about to Publish
  retail,     \* the retail write in flight: requested and filtered value
  obs,        \* the watchdog's snapshot in progress
  intent,     \* history: the value the title last wanted in the word
  direct      \* whether this title also stores to the word past the setter

vars == <<request, applied, status, ownsPause, restore, word, wordLock, mission,
          gpc, gEligible, pub, retail, obs, intent, direct>>

Requests == [gen: Nat, on: BOOLEAN]
Statuses == [available: BOOLEAN, paused: BOOLEAN, owned: BOOLEAN]
WordValues == {0, 1, kHostPauseToken}
Publications == [req: Requests, status: Statuses, complete: BOOLEAN]
RetailWrites == [busy: BOOLEAN, requested: {0, 1}, filtered: WordValues]
Observations == [pc: {"request", "applied", "status", "done"}, req: Requests,
                 app: Requests, sawFree: BOOLEAN, suppressed: BOOLEAN]

\* The eligibility test of a mission for a host pause.
IsEligibleLocalMission(m) ==
  /\ m.level > 0 /\ m.level < 90
  /\ m.players >= 1 /\ m.players <= 4
  /\ ~m.network

\* The values an unwrapped guest store may put in the word.
DirectWrites == IF direct THEN {0, 1} ELSE {}

AsBoolean(v) == IF v # 0 THEN 1 ELSE 0

NoStatus == [available |-> FALSE, paused |-> FALSE, owned |-> FALSE]

\* operation_mutex_ is held by the game thread while it publishes.
OperationMutexFree == gpc \notin {"status", "applied"}

NoRetail == [busy |-> FALSE, requested |-> 0, filtered |-> 0]

ObsIdle == [pc |-> "request", req |-> [gen |-> 0, on |-> FALSE],
            app |-> [gen |-> 0, on |-> FALSE], sawFree |-> TRUE, suppressed |-> TRUE]

TypeOK ==
  /\ request \in Requests /\ applied \in Requests
  /\ status \in Statuses
  /\ ownsPause \in BOOLEAN /\ direct \in BOOLEAN
  /\ restore \in {0, 1} /\ intent \in {0, 1}
  /\ word \in WordValues
  /\ wordLock \in {"free", "game", "retail"}
  /\ mission \in Missions
  /\ gpc \in {"poll", "sample", "process", "status", "applied"}
  /\ gEligible \in BOOLEAN
  /\ pub \in Publications
  /\ retail \in RetailWrites
  /\ obs \in Observations

Init ==
  /\ request = [gen |-> 0, on |-> FALSE]
  /\ applied = [gen |-> 0, on |-> FALSE]
  /\ status = NoStatus
  /\ ownsPause = FALSE
  /\ restore = 0
  /\ word = 0
  /\ wordLock = "free"
  /\ mission \in Missions
  /\ gpc = "poll"
  /\ gEligible = FALSE
  /\ pub = [req |-> request, status |-> NoStatus, complete |-> FALSE]
  /\ retail = NoRetail
  /\ obs = ObsIdle
  /\ intent = 0
  /\ direct \in BOOLEAN

-----------------------------------------------------------------------------
(* UI thread: a request that repeats the current one is dropped.           *)
RequestPaused(paused) ==
  /\ OperationMutexFree
  /\ request.gen < MaxGen
  /\ request.on # paused
  /\ request' = [gen |-> request.gen + 1, on |-> paused]
  /\ UNCHANGED <<direct, applied, status, ownsPause, restore, word, wordLock, mission,
                 gpc, gEligible, pub, retail, obs, intent>>

-----------------------------------------------------------------------------
(* Game thread, once per input poll.                                       *)

\* mutant: a request counts as finished once it is acknowledged.
InUseUnapplied == request # applied \/ ownsPause    \* mutant
InUse == request.on \/ ownsPause

\* TryProcessIdle: nothing asked for and nothing owned, so only acknowledge.
TryProcessIdle ==
  /\ gpc = "poll"
  /\ IF InUse
     THEN gpc' = "sample" /\ UNCHANGED pub
     ELSE /\ gpc' = "status"
          /\ pub' = [req |-> request, status |-> NoStatus, complete |-> TRUE]
  /\ UNCHANGED <<direct, request, applied, status, ownsPause, restore, word, wordLock,
                 mission, gEligible, retail, obs, intent>>

\* ActiveLocalMission, before the locks are taken.
SampleMission ==
  /\ gpc = "sample"
  /\ gEligible' = IsEligibleLocalMission(mission)
  /\ gpc' = "process"
  /\ UNCHANGED <<direct, request, applied, status, ownsPause, restore, word, wordLock,
                 mission, pub, retail, obs, intent>>

Conclude(owns, value) ==
  LET desired == request.on
      complete == IF desired /\ gEligible THEN value # 0 ELSE ~owns
  IN  /\ ownsPause' = owns
      /\ obs' = [obs EXCEPT !.sawFree = @ \/ ~owns]
      /\ pub' = [req |-> request,
                 status |-> [available |-> gEligible,
                             paused |-> desired /\ gEligible /\ value # 0,
                             owned |-> owns],
                 complete |-> complete]

\* The early returns of State::Process: not desired, or not eligible, and
\* nothing owned.
ProcessNothing ==
  /\ ~ownsPause /\ ~(request.on /\ gEligible)
  /\ pub' = [req |-> request, status |-> NoStatus, complete |-> TRUE]
  /\ UNCHANGED <<ownsPause, restore, word, obs, intent>>

\* SetPauseValue(v) between two QueryPauseValue: an unwrapped guest store may
\* land before the set, which overwrites it unseen, or after it.
SetAndQuery(v) ==
  \/ word' = v /\ UNCHANGED intent
  \/ \E d \in DirectWrites : intent' = d /\ word' \in {v, d}

StillOurs == word = kHostPauseToken

\* The host lets go of the word: it restores the title's recorded intent, or
\* finds that the title has already replaced the token.
ProcessRelease ==
  /\ ownsPause /\ ~(request.on /\ gEligible)
  /\ \/ /\ StillOurs
        /\ SetAndQuery(restore)
        /\ Conclude(word' = kHostPauseToken, word')
     \/ /\ ~StillOurs
        /\ UNCHANGED <<word, intent>>
        /\ Conclude(FALSE, word)
  /\ UNCHANGED restore

\* The host takes the word, recording what was in it; or it still has it.
ProcessAcquire ==
  /\ request.on /\ gEligible
  /\ \/ /\ ~ownsPause \/ word # kHostPauseToken
        /\ restore' = AsBoolean(word)
        /\ SetAndQuery(kHostPauseToken)
        /\ Conclude(CASE word' = kHostPauseToken -> TRUE
                      [] word' = 0 -> ownsPause
                      [] OTHER -> FALSE, word')
     \/ /\ ownsPause /\ word = kHostPauseToken
        /\ UNCHANGED <<restore, word, intent>>
        /\ Conclude(TRUE, word)

MayProcessUnlocked == TRUE    \* mutant
MayProcess == wordLock = "free"

\* State::Process up to its Publish, under both mutexes.
Process ==
  /\ gpc = "process"
  /\ MayProcess
  /\ ProcessNothing \/ ProcessRelease \/ ProcessAcquire
  /\ wordLock' = "game"
  /\ gpc' = "status"
  /\ UNCHANGED <<direct, request, applied, status, mission, gEligible, retail>>

\* Publish stores status_ ...
PublishStatus ==
  /\ gpc = "status"
  /\ status' = pub.status
  /\ gpc' = "applied"
  /\ UNCHANGED <<direct, request, applied, ownsPause, restore, word, wordLock, mission,
                 gEligible, pub, retail, obs, intent>>

AcknowledgedPauses == IF pub.complete /\ pub.req.on THEN pub.req ELSE applied    \* mutant
Acknowledged == IF pub.complete THEN pub.req ELSE applied

\* ... then applied_request_; the poll is over and the mutexes are released.
PublishApplied ==
  /\ gpc = "applied"
  /\ applied' = Acknowledged
  /\ wordLock' = IF wordLock = "game" THEN "free" ELSE wordLock
  /\ gpc' = "poll"
  /\ UNCHANGED <<direct, request, status, ownsPause, restore, word, mission, gEligible,
                 pub, retail, obs, intent>>

-----------------------------------------------------------------------------
(* Guest code.                                                             *)

RecordedNever(v) == restore    \* mutant
Recorded(v) == IF ownsPause THEN AsBoolean(v) ELSE restore
Shadowed(v) == IF ownsPause THEN kHostPauseToken ELSE v

\* FilterRetailWrite, under both mutexes: a write the host shadows.
FilterRetailWrite(v) ==
  /\ wordLock = "free"
  /\ OperationMutexFree
  /\ wordLock' = "retail"
  /\ restore' = Recorded(v)
  /\ retail' = [busy |-> TRUE, requested |-> v, filtered |-> Shadowed(v)]
  /\ UNCHANGED <<direct, request, applied, status, ownsPause, word, mission, gpc,
                 gEligible, pub, obs, intent>>

\* The original setter stores the filtered value.
StoreRetailWrite ==
  /\ retail.busy
  /\ word' = retail.filtered
  /\ intent' = retail.requested
  /\ retail' = NoRetail
  /\ wordLock' = "free"
  /\ UNCHANGED <<direct, request, applied, status, ownsPause, restore, mission, gpc,
                 gEligible, pub, obs>>

\* A store that does not go through the setter.
DirectWrite(v) ==
  /\ word' = v
  /\ intent' = v
  /\ UNCHANGED <<direct, request, applied, status, ownsPause, restore, wordLock, mission,
                 gpc, gEligible, pub, retail, obs>>

\* The title starts, leaves or changes a mission.
ChangeMission(m) ==
  /\ m # mission
  /\ mission' = m
  /\ UNCHANGED <<direct, request, applied, status, ownsPause, restore, word, wordLock,
                 gpc, gEligible, pub, retail, obs, intent>>

-----------------------------------------------------------------------------
(* Watchdog thread: GetSnapshot is three loads with no lock, and           *)
(* ObservationSuppressed ors the four bits together.                       *)
LoadRequest ==
  /\ obs.pc = "request"
  /\ obs' = [obs EXCEPT !.pc = "applied", !.req = request, !.sawFree = ~ownsPause]

LoadApplied ==
  /\ obs.pc = "applied"
  /\ obs' = [obs EXCEPT !.pc = "status", !.app = applied]

SuppressedByRequest == obs.req.on    \* mutant
Suppressed == obs.req.on \/ obs.req # obs.app \/ status.paused \/ status.owned
LoadStatus ==
  /\ obs.pc = "status"
  /\ obs' = [obs EXCEPT !.pc = "done",
                        !.suppressed = Suppressed]

NextSample ==
  /\ obs.pc = "done"
  /\ obs' = ObsIdle

Watchdog ==
  /\ LoadRequest \/ LoadApplied \/ LoadStatus \/ NextSample
  /\ UNCHANGED <<direct, request, applied, status, ownsPause, restore, word, wordLock,
                 mission, gpc, gEligible, pub, retail, intent>>

-----------------------------------------------------------------------------
GameThread == TryProcessIdle \/ SampleMission \/ Process \/ PublishStatus \/ PublishApplied

Next ==
  \/ \E paused \in BOOLEAN : RequestPaused(paused)
  \/ GameThread
  \/ \E v \in {0, 1} : FilterRetailWrite(v)
  \/ StoreRetailWrite
  \/ \E v \in DirectWrites : DirectWrite(v)
  \/ \E m \in Missions : ChangeMission(m)
  \/ Watchdog

Spec == Init /\ [][Next]_vars

\* The title polls input once per frame, and a guest thread inside the
\* setter wrapper finishes it.
Fairness == WF_vars(TryProcessIdle) /\ WF_vars(SampleMission) /\ SF_vars(Process)
            /\ WF_vars(PublishStatus) /\ WF_vars(PublishApplied)
            /\ WF_vars(StoreRetailWrite)

FairSpec == Spec /\ Fairness

-----------------------------------------------------------------------------
(* Properties.                                                             *)

\* Whatever the title asked of the pause word is neither lost nor overridden:
\* while the host owns the word the token is in it and the title's latest
\* value is the one the host will restore, and otherwise the word holds that
\* value (FilterRetailWrite and Process, with every store through the setter).
RetailIntentKept ==
  (~direct /\ ~retail.busy) =>
    IF ownsPause THEN word = kHostPauseToken /\ restore = intent ELSE word = intent

\* The token is in the word only while the host owns it, so no race of the
\* setter, of raw stores and of Process strands the game in a host pause that
\* nobody will release.
NoOrphanToken == word = kHostPauseToken => ownsPause

\* Once a resume is acknowledged to the UI the host has let go of the word:
\* the acknowledgement is of the request itself, not of an older one.
ResumeAcknowledged == (request = applied /\ ~request.on) => ~ownsPause

\* When the menu is told that gameplay is paused it is, and stays so until the
\* next Process: the title cannot unpause behind settings.
PausedIsPaused ==
  (~direct /\ status.paused /\ gpc # "status") => word = kHostPauseToken

\* "Relinquish ownership without ever clearing the word": a title pause that
\* is in the word is only ever cleared by the title itself.
NeverClearsRetailPause == [][(word = 1 /\ word' = 0) => intent' = 0]_vars

\* The watchdog's three unlocked loads cannot miss a host pause: when it
\* decides to observe progress, the host did not own the word at some moment
\* of its sampling.
WatchdogMissesNoPause == (obs.pc = "done" /\ ~obs.suppressed) => obs.sawFree

\* What the menu asks for takes effect: a requested pause is reached unless it is
\* withdrawn, the mission ends or the title fights for the word; and the word is
\* given back after a resume request or the end of the mission (Process).
RequestsTakeEffect ==
  LET wanted == request.on /\ IsEligibleLocalMission(mission)
  IN  /\ (wanted /\ ~direct) ~> (status.paused \/ ~wanted)
      /\ ~wanted ~> (~ownsPause \/ wanted)

\* The watchdog is not switched off for ever: after the last menu is closed
\* all the bits that suppress it clear for good.
SuppressionEnds ==
  <>[](~request.on) => <>[](request = applied /\ ~status.paused /\ ~status.owned)
=============================================================================
