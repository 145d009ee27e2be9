--------------------------- MODULE GoldenEyeProofs ---------------------------
(***************************************************************************)
(* Proofs about GoldenEye's own two components, which share no state:      *)
(* HostPause, for every token, set of missions and number of requests, for *)
(* a title that stores to the word directly and one that does not; and     *)
(* LaunchRecovery, for every set of configurations and every number of     *)
(* failing file operations.                                                *)
(*                                                                         *)
(* The inductive invariant IInv adds to HostPause's TypeOK what the two    *)
(* mutexes give: who is between which steps, and what each of them has in  *)
(* its hands. RecoveryInv adds to RecoveryTypeOK, for each place a run of  *)
(* the program can be in, what is on the disk there.                       *)
(***************************************************************************)
EXTENDS HostPause, LaunchRecovery, TLAPS

-----------------------------------------------------------------------------
(***************************************************************************)
(* The host pause bridge.                                                  *)
(***************************************************************************)
Publishing == gpc \in {"status", "applied"}

\* g_pause_word_mutex is held by exactly the transaction that is under way.
LockInv ==
  /\ retail.busy <=> wordLock = "retail"
  /\ wordLock = "game" => Publishing

\* A setter call in flight stores the token exactly when the host owns the word.
FlightInv ==
  /\ retail.busy => (retail.filtered = IF ownsPause THEN kHostPauseToken
                                                    ELSE retail.requested)
  /\ word = kHostPauseToken => ownsPause

\* With every store through the setter: where the title's value is.
IntentInv ==
  ~direct =>
    /\ IF ownsPause THEN word = kHostPauseToken ELSE word = intent
    /\ (ownsPause /\ ~retail.busy) => restore = intent
    /\ (ownsPause /\ retail.busy) => restore = retail.requested

\* What is about to be published, and what has been, is of a current request.
AckInv ==
  /\ applied.gen <= request.gen
  /\ Publishing => pub.req = request
  /\ (Publishing /\ pub.complete /\ ~pub.req.on) => ~ownsPause
  /\ (applied = request /\ ~request.on) => ~ownsPause

PausedInv ==
  ~direct =>
    /\ (gpc = "status" /\ pub.status.paused) => ownsPause
    /\ (gpc # "status" /\ status.paused) => ownsPause

\* A watchdog sample that began while the host owned the word, and during which
\* it never let go, has a request no acknowledgement can match.
ObsInv ==
  (~obs.sawFree /\ obs.pc # "done") =>
    /\ obs.pc # "request"
    /\ ownsPause
    /\ obs.req.gen <= request.gen
    /\ obs.req.gen = request.gen => obs.req = request
    /\ ~obs.req.on => applied # obs.req
    /\ (~obs.req.on /\ obs.pc = "status") => obs.app # obs.req

IInv == /\ TypeOK /\ LockInv /\ FlightInv /\ IntentInv
        /\ AckInv /\ PausedInv /\ ObsInv /\ WatchdogMissesNoPause

-----------------------------------------------------------------------------

LEMMA InitInv == Init => IInv
<1> SUFFICES ASSUME Init PROVE IInv
  OBVIOUS
<1> USE DEF Init
<1>1. TypeOK
  BY MissionAssumption DEF TypeOK, Requests, Statuses, WordValues, NoStatus,
     NoRetail, ObsIdle, Publications, RetailWrites, Observations
<1>2. LockInv /\ FlightInv /\ IntentInv
  BY TokenAssumption DEF LockInv, FlightInv, IntentInv, NoRetail
<1>3. AckInv /\ PausedInv
  BY DEF AckInv, PausedInv, Publishing, NoStatus
<1>4. ObsInv /\ WatchdogMissesNoPause
  BY DEF ObsInv, WatchdogMissesNoPause, ObsIdle
<1> QED BY <1>1, <1>2, <1>3, <1>4 DEF IInv

\* What the transaction of Process does to the variables it may change.
LEMMA ProcessType ==
  ASSUME TypeOK, Process
  PROVE  /\ ownsPause' \in BOOLEAN /\ restore' \in {0, 1} /\ intent' \in {0, 1}
         /\ word' \in WordValues /\ pub' \in Publications
         /\ obs' \in Observations
<1> USE DEF StillOurs
<1> DEFINE Concluded == \E o \in BOOLEAN, v \in WordValues : Conclude(o, v)
<1>1. NoStatus \in Statuses
  BY DEF NoStatus, Statuses
<1>2. ASSUME NEW o \in BOOLEAN, NEW v \in WordValues, Conclude(o, v)
      PROVE  ownsPause' \in BOOLEAN /\ pub' \in Publications /\ obs' \in Observations
  <2> DEFINE st == [available |-> gEligible,
                    paused |-> request.on /\ gEligible /\ v # 0, owned |-> o]
  <2>1. request.on \in BOOLEAN /\ gEligible \in BOOLEAN
    BY DEF TypeOK, Requests
  <2>2. st \in Statuses
    BY <2>1 DEF Statuses
  <2>3. pub' = [req |-> request, status |-> st,
                complete |-> IF request.on /\ gEligible THEN v # 0 ELSE ~o]
    BY <1>2 DEF Conclude
  <2>4. pub' \in Publications
    BY <2>2, <2>3 DEF Publications, TypeOK
  <2>5. obs' \in Observations
    BY <1>2 DEF Conclude, TypeOK, Observations
  <2> QED BY <1>2, <2>4, <2>5 DEF Conclude
<1>3. CASE ProcessNothing
  BY <1>1, <1>3 DEF ProcessNothing, TypeOK, Publications
<1>4. CASE ProcessRelease
  <2>1. word' \in WordValues /\ intent' \in {0, 1} /\ restore' \in {0, 1}
    BY <1>4 DEF DirectWrites, ProcessRelease, SetAndQuery, TypeOK, WordValues
  <2>2. Concluded
    <3>1. Conclude(word' = kHostPauseToken, word') \/ Conclude(FALSE, word)
      BY <1>4 DEF ProcessRelease
    <3>2. (word' = kHostPauseToken) \in BOOLEAN /\ word \in WordValues
      BY DEF TypeOK
    <3> QED BY <2>1, <3>1, <3>2
  <2> QED BY <1>2, <2>1, <2>2
<1>5. CASE ProcessAcquire
  <2>1. word' \in WordValues /\ intent' \in {0, 1} /\ restore' \in {0, 1}
    BY <1>5
       DEF DirectWrites, ProcessAcquire, SetAndQuery, TypeOK, WordValues, AsBoolean
  <2>2. Concluded
    <3> DEFINE o == CASE word' = kHostPauseToken -> TRUE
                      [] word' = 0 -> ownsPause
                      [] OTHER -> FALSE
    <3>1. Conclude(o, word') \/ Conclude(TRUE, word)
      BY <1>5 DEF ProcessAcquire
    <3>2. o \in BOOLEAN /\ word \in WordValues
      BY TokenAssumption DEF TypeOK
    <3> QED BY <2>1, <3>1, <3>2
  <2> QED BY <1>2, <2>1, <2>2
<1> QED BY <1>3, <1>4, <1>5 DEF Process

\* Every step keeps the type invariant.
LEMMA TypeStep == TypeOK /\ [Next]_vars => TypeOK'
<1> SUFFICES ASSUME TypeOK, [Next]_vars PROVE TypeOK'
  OBVIOUS
<1> USE DEF TypeOK
<1> USE DEF StillOurs, Recorded, Shadowed, InUse, Acknowledged, MayProcess, Suppressed
<1>1. ASSUME NEW paused \in BOOLEAN, RequestPaused(paused) PROVE TypeOK'
  BY <1>1 DEF RequestPaused, Requests
<1>2. CASE TryProcessIdle
  <2>1. NoStatus \in Statuses
    BY DEF NoStatus, Statuses
  <2>2. \/ pub' = pub
        \/ pub' = [req |-> request, status |-> NoStatus, complete |-> TRUE]
    BY <1>2 DEF TryProcessIdle
  <2>3. pub' \in Publications
    <3>1. [req |-> request, status |-> NoStatus, complete |-> TRUE] \in Publications
      BY <2>1 DEF Publications
    <3> QED BY <2>2, <3>1
  <2>4. gpc' \in {"sample", "status"}
    BY <1>2 DEF TryProcessIdle
  <2> QED BY <1>2, <2>3, <2>4 DEF TryProcessIdle
<1>3. CASE SampleMission
  BY <1>3 DEF SampleMission, IsEligibleLocalMission
<1>4. CASE Process
  BY <1>4, ProcessType DEF Process
<1>5. CASE PublishStatus
  BY <1>5 DEF PublishStatus, Publications
<1>6. CASE PublishApplied
  BY <1>6 DEF PublishApplied, Publications
<1>7. ASSUME NEW v \in {0, 1}, FilterRetailWrite(v) PROVE TypeOK'
  BY <1>7 DEF FilterRetailWrite, AsBoolean, RetailWrites, WordValues
<1>8. CASE StoreRetailWrite
  BY <1>8 DEF StoreRetailWrite, NoRetail, RetailWrites, WordValues
<1>9. ASSUME NEW v \in DirectWrites, DirectWrite(v) PROVE TypeOK'
  BY <1>9 DEF DirectWrites, DirectWrite, WordValues
<1>10. ASSUME NEW m \in Missions, ChangeMission(m) PROVE TypeOK'
  BY <1>10 DEF ChangeMission
<1>11. CASE Watchdog
  <2>1. CASE LoadRequest
    BY <1>11, <2>1 DEF Watchdog, LoadRequest, Observations
  <2>2. CASE LoadApplied
    BY <1>11, <2>2 DEF Watchdog, LoadApplied, Observations
  <2>3. CASE LoadStatus
    <3>1. (\/ obs.req.on \/ obs.req # obs.app \/ status.paused \/ status.owned)
             \in BOOLEAN
      BY DEF Observations, Requests, Statuses
    <3>2. obs' \in Observations
      BY <2>3, <3>1 DEF LoadStatus, Observations
    <3> QED BY <1>11, <3>2 DEF Watchdog
  <2>4. CASE NextSample
    BY <1>11, <2>4 DEF Watchdog, NextSample, ObsIdle, Observations, Requests
  <2> QED BY <1>11, <2>1, <2>2, <2>3, <2>4 DEF Watchdog
<1>12. CASE UNCHANGED vars
  BY <1>12 DEF vars
<1> QED
  BY <1>1, <1>2, <1>3, <1>4, <1>5, <1>6, <1>7, <1>8, <1>9, <1>10, <1>11, <1>12
     DEF Next, GameThread

-----------------------------------------------------------------------------

\* What the transaction of Process gives the other proofs: who owns the word,
\* what is in it, and what is going to be published.
ProcessFacts ==
  /\ ~retail.busy /\ wordLock' = "game" /\ gpc' = "status"
  /\ UNCHANGED <<request, applied, status, retail, direct>>
  /\ word' = kHostPauseToken => ownsPause'
  /\ pub'.req = request
  /\ (pub'.complete /\ ~request.on) => ~ownsPause'
  /\ (~ownsPause /\ ~request.on) => ~ownsPause'
  /\ \/ UNCHANGED <<obs, ownsPause>>
     \/ obs' = [obs EXCEPT !.sawFree = @ \/ ~ownsPause']
  /\ ~direct =>
       /\ IF ownsPause' THEN word' = kHostPauseToken ELSE word' = intent'
       /\ ownsPause' => restore' = intent'
       /\ pub'.status.paused => ownsPause'
  /\ (word = 1 /\ word' = 0) => intent' = 0

LEMMA ProcessOutcome == ASSUME IInv, Process PROVE ProcessFacts
<1> USE TokenAssumption DEF DirectWrites, StillOurs, MayProcess
<1>1. ~retail.busy
  BY DEF IInv, LockInv, Process
<1>2. /\ wordLock' = "game" /\ gpc' = "status"
      /\ UNCHANGED <<request, applied, status, retail, direct>>
  BY DEF Process
<1>3. /\ restore \in {0, 1} /\ intent \in {0, 1} /\ word \in {0, 1, kHostPauseToken}
      /\ ownsPause \in BOOLEAN /\ gEligible \in BOOLEAN /\ request.on \in BOOLEAN
      /\ word = kHostPauseToken => ownsPause
  BY DEF IInv, TypeOK, WordValues, FlightInv, Requests
<1>4. ~direct =>
        /\ IF ownsPause THEN word = kHostPauseToken ELSE word = intent
        /\ ownsPause => restore = intent
  BY <1>1 DEF IInv, IntentInv
\* Conclude, field by field.
<1>5. ASSUME NEW o \in BOOLEAN, NEW v, Conclude(o, v)
      PROVE  /\ ownsPause' = o /\ pub'.req = request
             /\ obs' = [obs EXCEPT !.sawFree = @ \/ ~ownsPause']
             /\ ~request.on => (pub'.complete <=> ~o)
             /\ pub'.status.paused <=> (request.on /\ gEligible /\ v # 0)
  BY <1>3, <1>5 DEF Conclude
<1>6. CASE ProcessNothing
  BY <1>1, <1>2, <1>3, <1>4, <1>6 DEF ProcessNothing, ProcessFacts, NoStatus
<1>7. CASE ProcessRelease
  <2>1. ownsPause /\ ~(request.on /\ gEligible) /\ restore' = restore
    BY <1>7 DEF ProcessRelease
  <2>2. CASE word = kHostPauseToken
    <3>1. SetAndQuery(restore) /\ Conclude(word' = kHostPauseToken, word')
      BY <1>7, <2>2 DEF ProcessRelease
    <3>2. word' # kHostPauseToken
      BY <1>3, <3>1 DEF SetAndQuery
    <3>3. ~direct => word' = restore /\ intent' = intent
      BY <3>1 DEF SetAndQuery
    <3>4. Conclude(FALSE, word')
      BY <3>1, <3>2
    <3> QED
      BY <1>1, <1>2, <1>3, <1>4, <1>5, <2>1, <2>2, <3>2, <3>3, <3>4
         DEF ProcessFacts
  <2>3. CASE word # kHostPauseToken
    <3>1. word' = word /\ intent' = intent /\ Conclude(FALSE, word)
      BY <1>7, <2>3 DEF ProcessRelease
    <3> QED
      BY <1>1, <1>2, <1>3, <1>4, <1>5, <2>1, <2>3, <3>1 DEF ProcessFacts
  <2> QED BY <2>2, <2>3
<1>8. CASE ProcessAcquire
  <2>1. request.on /\ gEligible
    BY <1>8 DEF ProcessAcquire
  <2>2. CASE ownsPause /\ word = kHostPauseToken
    <3>1. UNCHANGED <<restore, word, intent>> /\ Conclude(TRUE, word)
      BY <1>8, <2>2 DEF ProcessAcquire
    <3> QED
      BY <1>1, <1>2, <1>3, <1>4, <1>5, <2>1, <2>2, <3>1 DEF ProcessFacts
  <2>3. CASE ~ownsPause \/ word # kHostPauseToken
    <3> DEFINE o == CASE word' = kHostPauseToken -> TRUE
                      [] word' = 0 -> ownsPause
                      [] OTHER -> FALSE
    <3>1. restore' = AsBoolean(word) /\ SetAndQuery(kHostPauseToken) /\ Conclude(o, word')
      BY <1>8, <2>3 DEF ProcessAcquire
    <3>2. word' = kHostPauseToken => o
      OBVIOUS
    <3>3. ~direct => word' = kHostPauseToken /\ intent' = intent
      BY <3>1 DEF SetAndQuery
    <3>4. ~direct => ~ownsPause /\ restore' = intent
      BY <1>3, <1>4, <2>3, <3>1 DEF AsBoolean
    <3>5. o \in BOOLEAN
      BY <1>3
    <3>6. word' = 0 => intent' = 0
      BY <3>1 DEF SetAndQuery
    <3> HIDE DEF o
    <3> QED
      BY <1>1, <1>2, <1>3, <1>5, <2>1, <3>1, <3>2, <3>3, <3>4, <3>5, <3>6
         DEF ProcessFacts
  <2> QED BY <2>2, <2>3
<1> QED BY <1>6, <1>7, <1>8 DEF Process

-----------------------------------------------------------------------------
\* Every step keeps the two mutexes' invariants and the place of the intent.
LEMMA LockStep ==
  IInv /\ [Next]_vars => LockInv' /\ FlightInv' /\ IntentInv'
<1> SUFFICES ASSUME IInv, [Next]_vars PROVE LockInv' /\ FlightInv' /\ IntentInv'
  OBVIOUS
<1> DEFINE Goal == LockInv' /\ FlightInv' /\ IntentInv'
<1> USE DEF LockInv, FlightInv, IntentInv, Publishing
<1>0. TypeOK /\ LockInv /\ FlightInv /\ IntentInv
  BY DEF IInv
<1> USE TokenAssumption DEF DirectWrites, StillOurs, Recorded, Shadowed, InUse, Acknowledged, MayProcess, Suppressed
<1>1. ASSUME NEW paused \in BOOLEAN, RequestPaused(paused) PROVE Goal
  BY <1>0, <1>1 DEF RequestPaused
<1>2. CASE TryProcessIdle
  BY <1>0, <1>2 DEF TryProcessIdle
<1>3. CASE SampleMission
  BY <1>0, <1>3 DEF SampleMission
<1>4. CASE Process
  BY <1>0, <1>4, ProcessOutcome DEF ProcessFacts
<1>5. CASE PublishStatus
  BY <1>0, <1>5 DEF PublishStatus
<1>6. CASE PublishApplied
  BY <1>0, <1>6 DEF PublishApplied
<1>7. ASSUME NEW v \in {0, 1}, FilterRetailWrite(v) PROVE Goal
  BY <1>0, <1>7 DEF FilterRetailWrite, AsBoolean, TypeOK
<1>8. CASE StoreRetailWrite
  BY <1>0, <1>8 DEF StoreRetailWrite, NoRetail, TypeOK, RetailWrites
<1>9. ASSUME NEW v \in DirectWrites, DirectWrite(v) PROVE Goal
  BY <1>0, <1>9 DEF DirectWrite
<1>10. ASSUME NEW m \in Missions, ChangeMission(m) PROVE Goal
  BY <1>0, <1>10 DEF ChangeMission
<1>11. CASE Watchdog
  BY <1>0, <1>11 DEF Watchdog
<1>12. CASE UNCHANGED vars
  BY <1>0, <1>12 DEF vars
<1> QED
  BY <1>1, <1>2, <1>3, <1>4, <1>5, <1>6, <1>7, <1>8, <1>9, <1>10, <1>11, <1>12
     DEF Next, GameThread

\* Every step keeps what is published in agreement with what is true.
LEMMA PublicationStep == IInv /\ [Next]_vars => AckInv' /\ PausedInv'
<1> SUFFICES ASSUME IInv, [Next]_vars PROVE AckInv' /\ PausedInv'
  OBVIOUS
<1> DEFINE Goal == AckInv' /\ PausedInv'
<1> USE DEF AckInv, PausedInv, Publishing
<1> USE DEF StillOurs, Recorded, Shadowed, InUse, Acknowledged, MayProcess, Suppressed
<1>0. TypeOK /\ AckInv /\ PausedInv
  BY DEF IInv
<1>1. ASSUME NEW paused \in BOOLEAN, RequestPaused(paused) PROVE Goal
  <2>1. request.gen \in Nat /\ applied.gen \in Nat
    BY <1>0 DEF TypeOK, Requests
  <2>2. request'.gen = request.gen + 1 /\ applied' = applied /\ ~Publishing
    BY <1>1 DEF RequestPaused, OperationMutexFree
  <2> QED BY <1>0, <1>1, <2>1, <2>2 DEF RequestPaused
<1>2. CASE TryProcessIdle
  BY <1>0, <1>2 DEF TryProcessIdle, NoStatus
<1>3. CASE SampleMission
  BY <1>0, <1>3 DEF SampleMission
<1>4. CASE Process
  BY <1>0, <1>4, ProcessOutcome DEF ProcessFacts
<1>5. CASE PublishStatus
  BY <1>0, <1>5 DEF PublishStatus
<1>6. CASE PublishApplied
  <2>1. applied' = applied \/ (applied' = request /\ pub.complete)
    BY <1>0, <1>6 DEF PublishApplied
  <2>2. request.gen \in Nat
    BY <1>0 DEF TypeOK, Requests
  <2> QED BY <1>0, <1>6, <2>1, <2>2 DEF PublishApplied
<1>7. ASSUME NEW v \in {0, 1}, FilterRetailWrite(v) PROVE Goal
  BY <1>0, <1>7 DEF FilterRetailWrite
<1>8. CASE StoreRetailWrite
  BY <1>0, <1>8 DEF StoreRetailWrite
<1>9. ASSUME NEW v \in DirectWrites, DirectWrite(v) PROVE Goal
  BY <1>0, <1>9 DEF DirectWrite
<1>10. ASSUME NEW m \in Missions, ChangeMission(m) PROVE Goal
  BY <1>0, <1>10 DEF ChangeMission
<1>11. CASE Watchdog
  BY <1>0, <1>11 DEF Watchdog
<1>12. CASE UNCHANGED vars
  BY <1>0, <1>12 DEF vars
<1> QED
  BY <1>1, <1>2, <1>3, <1>4, <1>5, <1>6, <1>7, <1>8, <1>9, <1>10, <1>11, <1>12
     DEF Next, GameThread

\* Every step keeps the watchdog's sample unable to miss an owned pause.
LEMMA WatchdogStep == IInv /\ [Next]_vars => ObsInv' /\ WatchdogMissesNoPause'
<1> SUFFICES ASSUME IInv, [Next]_vars PROVE ObsInv' /\ WatchdogMissesNoPause'
  OBVIOUS
<1> DEFINE Goal == ObsInv' /\ WatchdogMissesNoPause'
<1> USE DEF ObsInv, WatchdogMissesNoPause
<1> USE DEF StillOurs, Recorded, Shadowed, InUse, Acknowledged, MayProcess, Suppressed
<1>0. TypeOK /\ ObsInv /\ WatchdogMissesNoPause /\ AckInv
  BY DEF IInv
<1>T. /\ request.gen \in Nat /\ obs.req.gen \in Nat
      /\ obs.pc \in {"request", "applied", "status", "done"}
      /\ obs.sawFree \in BOOLEAN
  BY <1>0 DEF TypeOK, Requests, Observations
<1>1. ASSUME NEW paused \in BOOLEAN, RequestPaused(paused) PROVE Goal
  <2>1. request'.gen = request.gen + 1
    BY <1>1 DEF RequestPaused
  <2> QED BY <1>0, <1>1, <1>T, <2>1 DEF RequestPaused
<1>2. CASE TryProcessIdle
  BY <1>0, <1>2 DEF TryProcessIdle
<1>3. CASE SampleMission
  BY <1>0, <1>3 DEF SampleMission
<1>4. CASE Process
  <2>1. ProcessFacts
    BY <1>4, ProcessOutcome
  <2>2. CASE UNCHANGED <<obs, ownsPause>>
    BY <1>0, <2>1, <2>2 DEF ProcessFacts
  <2>3. CASE obs' = [obs EXCEPT !.sawFree = @ \/ ~ownsPause']
    <3>1. /\ obs'.sawFree = (obs.sawFree \/ ~ownsPause')
          /\ obs'.pc = obs.pc /\ obs'.req = obs.req /\ obs'.app = obs.app
          /\ obs'.suppressed = obs.suppressed
      BY <1>0, <2>3 DEF TypeOK, Observations
    <3> QED BY <1>0, <2>1, <3>1 DEF ProcessFacts
  <2> QED BY <2>1, <2>2, <2>3 DEF ProcessFacts
<1>5. CASE PublishStatus
  BY <1>0, <1>5 DEF PublishStatus
<1>6. CASE PublishApplied
  <2>1. applied' = applied \/ (applied' = request /\ (~request.on => ~ownsPause))
    BY <1>0, <1>6 DEF PublishApplied, AckInv, Publishing
  <2> QED BY <1>0, <1>6, <1>T, <2>1 DEF PublishApplied
<1>7. ASSUME NEW v \in {0, 1}, FilterRetailWrite(v) PROVE Goal
  BY <1>0, <1>7 DEF FilterRetailWrite
<1>8. CASE StoreRetailWrite
  BY <1>0, <1>8 DEF StoreRetailWrite
<1>9. ASSUME NEW v \in DirectWrites, DirectWrite(v) PROVE Goal
  BY <1>0, <1>9 DEF DirectWrite
<1>10. ASSUME NEW m \in Missions, ChangeMission(m) PROVE Goal
  BY <1>0, <1>10 DEF ChangeMission
<1>11. CASE Watchdog
  <2>0. UNCHANGED <<request, applied, ownsPause>>
    BY <1>11 DEF Watchdog
  <2>1. CASE LoadRequest
    BY <1>0, <1>T, <2>0, <2>1 DEF LoadRequest, TypeOK, Observations, AckInv
  <2>2. CASE LoadApplied
    BY <1>0, <1>T, <2>0, <2>2 DEF LoadApplied, TypeOK, Observations
  <2>3. CASE LoadStatus
    BY <1>0, <1>T, <2>0, <2>3 DEF LoadStatus, TypeOK, Observations
  <2>4. CASE NextSample
    BY <1>0, <2>0, <2>4 DEF NextSample, ObsIdle
  <2> QED BY <1>11, <2>1, <2>2, <2>3, <2>4 DEF Watchdog
<1>12. CASE UNCHANGED vars
  BY <1>0, <1>12 DEF vars
<1> QED
  BY <1>1, <1>2, <1>3, <1>4, <1>5, <1>6, <1>7, <1>8, <1>9, <1>10, <1>11, <1>12
     DEF Next, GameThread

\* The invariant is inductive.
THEOREM Inductive == Spec => []IInv
<1>1. IInv /\ [Next]_vars => IInv'
  BY TypeStep, LockStep, PublicationStep, WatchdogStep DEF IInv
<1> QED BY InitInv, <1>1, PTL DEF Spec

\* Type correctness.
THEOREM TypeCorrect == Spec => []TypeOK
<1>1. IInv => TypeOK
  BY DEF IInv
<1> QED BY Inductive, <1>1, PTL

\* With every store through the setter wrapper, no title write to the pause
\* word is lost or overridden by the host, whatever the interleaving.
THEOREM KeepsRetailIntent == Spec => []RetailIntentKept
<1>1. IInv => RetailIntentKept
  BY DEF IInv, IntentInv, RetailIntentKept
<1> QED BY Inductive, <1>1, PTL

\* The token never stays in the word without an owner that will remove it.
THEOREM LeavesNoOrphanToken == Spec => []NoOrphanToken
<1>1. IInv => NoOrphanToken
  BY DEF IInv, FlightInv, NoOrphanToken
<1> QED BY Inductive, <1>1, PTL

\* An acknowledged resume means that the host has let go of the word.
THEOREM ResumeAcknowledgedHolds == Spec => []ResumeAcknowledged
<1>1. IInv => ResumeAcknowledged
  BY DEF IInv, AckInv, ResumeAcknowledged
<1> QED BY Inductive, <1>1, PTL

\* What the menu is told to be paused is paused, and stays so.
THEOREM PausedIsPausedHolds == Spec => []PausedIsPaused
<1>1. IInv => PausedIsPaused
  BY DEF IInv, PausedInv, IntentInv, PausedIsPaused
<1> QED BY Inductive, <1>1, PTL

\* The watchdog's unlocked sample never misses a pause that covers it.
THEOREM WatchdogMissesNoPauseHolds == Spec => []WatchdogMissesNoPause
<1>1. IInv => WatchdogMissesNoPause
  BY DEF IInv
<1> QED BY Inductive, <1>1, PTL

\* Only the title clears a title pause that is in the word.
THEOREM NeverClears == Spec => NeverClearsRetailPause
<1> DEFINE Kept == (word = 1 /\ word' = 0) => intent' = 0
<1>1. ASSUME IInv, [Next]_vars PROVE [Kept]_vars
  <2> USE TokenAssumption
  <2>1. CASE Process
    BY <1>1, <2>1, ProcessOutcome DEF ProcessFacts
  <2>2. CASE StoreRetailWrite
    BY <1>1, <2>2 DEF StoreRetailWrite, IInv, FlightInv
  <2>3. ASSUME NEW v \in DirectWrites, DirectWrite(v) PROVE Kept
    BY <2>3 DEF DirectWrite
  <2>4. CASE UNCHANGED word
    BY <2>4
  <2>5. CASE ~Process /\ ~StoreRetailWrite /\ ~(\E v \in DirectWrites : DirectWrite(v))
    <3>1. UNCHANGED word
      BY <1>1, <2>5
         DEF Next, GameThread, RequestPaused, TryProcessIdle, SampleMission,
             PublishStatus, PublishApplied, FilterRetailWrite, ChangeMission,
             Watchdog, vars
    <3> QED BY <3>1
  <2> QED BY <2>1, <2>2, <2>3, <2>5
<1> QED BY Inductive, <1>1, PTL DEF Spec, NeverClearsRetailPause

-----------------------------------------------------------------------------
(***************************************************************************)
(* Launch recovery and Safe Mode.                                          *)
(***************************************************************************)
Restoring == pc \in {"restore", "restored", "unmarked"}
Loading == pc \in {"load", "repair", "rewrite", "repaired"}

\* While Safe Mode is prepared, cancelled or refused the config is what would
\* be recovered; while it runs the marker is there, so that saves are undone.
SettingsInv ==
  /\ pc = "restored" => marker # "none" /\ config = Recovered
  /\ pc = "unmarked" => marker = "none"
  /\ pc \in {"backup", "marker"} => config = Recovered /\ safeMode
  /\ (pc = "marker" /\ config # None) => backup = config
  /\ (pc \in {"launcher", "run"} /\ (~warning \/ (pc = "run" /\ safeMode))) => config = Recovered
  /\ (Restoring /\ after = "launcher") => config = Recovered
  /\ (Loading /\ ~warning) => marker = "none"
  /\ ((Restoring /\ after = "load") \/ Loading) => ~safeMode
  /\ (pc \in {"run", "game", "save"} /\ safeMode) => marker # "none"

SafeInv ==
  faults = 0 => Recovered # Safe /\ loaded # Safe /\ ~warning

Launched == game \in {"armed", "unarmed"}

DiedInv ==
  /\ died => runMark
  /\ (Launched /\ pc # "down") => runMark
  /\ (Restoring /\ after # "endrun") => game = "none"
  /\ Loading \/ pc \in {"launcher", "backup", "marker", "run"} => game = "none"
  /\ pc \in {"repair", "rewrite", "repaired", "launcher", "backup", "marker", "run"}
       => interrupted = runMark
  /\ (Restoring /\ after = "launcher") => interrupted = runMark
  /\ (faults = 0 /\ runMark) => died \/ (Launched /\ pc # "down")

RecoveryInv == RecoveryTypeOK /\ SettingsInv /\ SafeInv /\ DiedInv

-----------------------------------------------------------------------------
LEMMA RecoveryInitInv == RecoveryInit => RecoveryInv
<1> SUFFICES ASSUME RecoveryInit PROVE RecoveryInv
  OBVIOUS
<1> USE DEF RecoveryInit
<1>1. RecoveryTypeOK
  <2>1. FlagsOK
    BY Zenon DEF FlagsOK
  <2> QED BY <2>1, FaultsAssumption DEF RecoveryTypeOK, Contents
<1>2. SettingsInv
  BY DEF SettingsInv, Restoring, Loading
<1>3. SafeInv
  BY ContentsAssumption DEF SafeInv, Recovered
<1>4. DiedInv
  BY DEF DiedInv, Restoring, Loading, Launched
<1> QED BY <1>1, <1>2, <1>3, <1>4 DEF RecoveryInv

LEMMA FlagsStep == FlagsOK /\ [RecoveryNext]_recoveryVars => FlagsOK'
<1> SUFFICES ASSUME FlagsOK, [RecoveryNext]_recoveryVars PROVE FlagsOK'
  OBVIOUS
<1> USE DEF FlagsOK, disk
<1>1. CASE Restore
  <2>1. ASSUME NEW ok \in BOOLEAN, Return(ok) PROVE warning' \in BOOLEAN
    BY <2>1 DEF Return
  <2>2. CASE RestoreNothing
    BY <2>1, <2>2, Zenon DEF RestoreNothing
  <2>3. CASE RestoreConfig
    BY <2>1, <2>3, Zenon DEF RestoreConfig
  <2>4. CASE RestoreMarker
    BY <2>1, <2>4, Zenon DEF RestoreMarker
  <2>5. CASE RestoreBackup
    BY <2>1, <2>5, Zenon DEF RestoreBackup
  <2> QED BY <1>1, <2>2, <2>3, <2>4, <2>5 DEF Restore
<1>2. CASE Start \/ LoadConfig \/ ShowLauncher \/ BypassLauncher
  BY <1>2, Zenon DEF Start, LoadConfig, ShowLauncher, BypassLauncher
<1>3. CASE QuitLauncher \/ PlayNormally \/ PlaySafely
  BY <1>3, Zenon DEF QuitLauncher, PlayNormally, PlaySafely
<1>4. CASE BackUpConfig \/ MarkSafeMode \/ BeginRun
  BY <1>4, Zenon DEF BackUpConfig, MarkSafeMode, BeginRun
<1>5. CASE RepairConfig \/ RewriteConfig \/ OpenConfig \/ WriteConfig
  BY <1>5, Zenon DEF RepairConfig, RewriteConfig, OpenConfig, WriteConfig
<1>6. CASE CloseWindow \/ EndRun
  BY <1>6, Zenon DEF CloseWindow, EndRun
<1>7. CASE Crash
  BY <1>7, Zenon DEF Crash
<1>8. CASE UNCHANGED recoveryVars
  BY <1>8, Zenon DEF recoveryVars
<1> QED
  BY <1>1, <1>2, <1>3, <1>4, <1>5, <1>6, <1>7, <1>8 DEF RecoveryNext

LEMMA RecoveryTypeStep == RecoveryTypeOK /\ [RecoveryNext]_recoveryVars => RecoveryTypeOK'
<1> SUFFICES ASSUME RecoveryTypeOK, [RecoveryNext]_recoveryVars PROVE RecoveryTypeOK'
  OBVIOUS
<1>0. Recovered \in Contents
  BY DEF Recovered, RecoveryTypeOK, Contents
<1>F. FlagsOK'
  BY FlagsStep DEF RecoveryTypeOK
<1> USE <1>F, FaultsAssumption DEF RecoveryTypeOK, Fault, Succeed, disk
<1>1. CASE RestoreNothing
  BY <1>1 DEF RestoreNothing, Return, Contents
<1>2. CASE RestoreConfig
  BY <1>0, <1>2 DEF RestoreConfig, Return
<1>3. CASE RestoreMarker
  BY <1>3 DEF RestoreMarker, Return
<1>4. CASE RestoreBackup
  BY <1>4 DEF RestoreBackup, Return, Contents
<1>5. CASE Start \/ LoadConfig \/ ShowLauncher \/ BypassLauncher
  BY <1>5 DEF Start, LoadConfig, ShowLauncher, BypassLauncher
<1>6. CASE QuitLauncher \/ PlayNormally \/ PlaySafely
  BY <1>6 DEF QuitLauncher, PlayNormally, PlaySafely
<1>7. CASE BackUpConfig
  BY <1>7 DEF BackUpConfig
<1>8. CASE MarkSafeMode
  BY <1>8 DEF MarkSafeMode
<1>9. CASE BeginRun
  BY <1>9 DEF BeginRun
<1>10. CASE RepairConfig \/ RewriteConfig \/ OpenConfig \/ WriteConfig
  BY <1>10 DEF RepairConfig, RewriteConfig, OpenConfig, WriteConfig, Contents
<1>11. CASE CloseWindow \/ EndRun \/ Crash
  BY <1>11 DEF CloseWindow, EndRun, Crash
<1>12. CASE UNCHANGED recoveryVars
  BY <1>12 DEF recoveryVars
<1> QED
  BY <1>1, <1>2, <1>3, <1>4, <1>5, <1>6, <1>7, <1>8, <1>9, <1>10, <1>11, <1>12
     DEF RecoveryNext, Restore

\* Every step keeps the settings where a start or a cancellation finds them.
LEMMA SettingsStep == RecoveryInv /\ [RecoveryNext]_recoveryVars => SettingsInv'
<1> SUFFICES ASSUME RecoveryInv, [RecoveryNext]_recoveryVars PROVE SettingsInv'
  OBVIOUS
<1>0. RecoveryTypeOK /\ SettingsInv
  BY DEF RecoveryInv
<1> USE <1>0, ContentsAssumption
    DEF SettingsInv, Restoring, Loading, Recovered, disk
<1>1. CASE RestoreNothing
  BY <1>1 DEF RestoreNothing, Return, RecoveryTypeOK
<1>2. CASE RestoreConfig
  BY <1>2 DEF RestoreConfig, Return, RecoveryTypeOK
<1>3. CASE RestoreMarker
  BY <1>3 DEF RestoreMarker, Return, RecoveryTypeOK
<1>4. CASE RestoreBackup
  BY <1>4 DEF RestoreBackup, Return, RecoveryTypeOK
<1>5. CASE Start \/ LoadConfig \/ ShowLauncher \/ BypassLauncher
  <2>1. CASE Start
    BY <2>1 DEF Start
  <2>2. CASE LoadConfig
    BY <2>2 DEF LoadConfig
  <2>3. CASE BypassLauncher
    BY <2>3 DEF BypassLauncher
  <2>4. CASE ShowLauncher
    BY <2>4 DEF ShowLauncher
  <2> QED BY <1>5, <2>1, <2>2, <2>3, <2>4
<1>6. CASE QuitLauncher \/ PlayNormally \/ PlaySafely
  BY <1>6 DEF QuitLauncher, PlayNormally, PlaySafely
<1>7. CASE BackUpConfig
  BY <1>7 DEF BackUpConfig, RecoveryTypeOK
<1>8. CASE MarkSafeMode
  BY <1>8 DEF MarkSafeMode
<1>9. CASE BeginRun
  BY <1>9 DEF BeginRun
<1>10. CASE RepairConfig \/ RewriteConfig \/ OpenConfig \/ WriteConfig
  BY <1>10 DEF RepairConfig, RewriteConfig, OpenConfig, WriteConfig
<1>11. CASE CloseWindow \/ EndRun \/ Crash
  BY <1>11 DEF CloseWindow, EndRun, Crash
<1>12. CASE UNCHANGED recoveryVars
  BY <1>12 DEF recoveryVars
<1> QED
  BY <1>1, <1>2, <1>3, <1>4, <1>5, <1>6, <1>7, <1>8, <1>9, <1>10, <1>11, <1>12
     DEF RecoveryNext, Restore

\* What a step can do to the settings to be recovered.
LEMMA RecoveredStep ==
  ASSUME RecoveryInv, [RecoveryNext]_recoveryVars
  PROVE  \/ Recovered' = Recovered
         \/ pc \in {"repair", "game"} /\ ~safeMode /\ Recovered' = Torn
         \/ pc = "rewrite" /\ ~safeMode /\ Recovered' = config' /\ RewriteConfig
         \/ pc = "save" /\ ~safeMode /\ Recovered' = config' /\ WriteConfig
<1>0. RecoveryTypeOK /\ SettingsInv
  BY DEF RecoveryInv
<1> USE <1>0 DEF SettingsInv, Restoring, Loading, Recovered, disk, RecoveryTypeOK
<1>1. CASE Restore
  BY <1>1
     DEF Restore, RestoreNothing, RestoreConfig, RestoreMarker, RestoreBackup, Return
<1>2. CASE \/ Start \/ LoadConfig \/ ShowLauncher \/ BypassLauncher
           \/ QuitLauncher \/ PlayNormally \/ PlaySafely
  BY <1>2
     DEF Start, LoadConfig, ShowLauncher, BypassLauncher, QuitLauncher, PlayNormally, PlaySafely
<1>3. CASE BackUpConfig
  BY <1>3 DEF BackUpConfig
<1>4. CASE MarkSafeMode
  BY <1>4 DEF MarkSafeMode
<1>5. CASE BeginRun
  BY <1>5 DEF BeginRun
<1>6. CASE RepairConfig \/ OpenConfig
  BY <1>6 DEF RepairConfig, OpenConfig
<1>7. CASE RewriteConfig \/ WriteConfig
  BY <1>7 DEF RewriteConfig, WriteConfig
<1>8. CASE CloseWindow \/ EndRun \/ Crash
  BY <1>8 DEF CloseWindow, EndRun, Crash
<1>9. CASE UNCHANGED recoveryVars
  BY <1>9 DEF recoveryVars
<1> QED
  BY <1>1, <1>2, <1>3, <1>4, <1>5, <1>6, <1>7, <1>8, <1>9 DEF RecoveryNext

\* Without a failed operation there is nothing of Safe Mode to start from.
LEMMA SafeStep == RecoveryInv /\ [RecoveryNext]_recoveryVars => SafeInv'
<1> SUFFICES ASSUME RecoveryInv, [RecoveryNext]_recoveryVars, faults' = 0
             PROVE  Recovered' # Safe /\ loaded' # Safe /\ ~warning'
  BY DEF SafeInv
<1>1. faults \in Nat /\ (faults' = faults \/ faults' = faults + 1)
  <2>1. faults \in Nat
    BY FaultsAssumption DEF RecoveryInv, RecoveryTypeOK
  <2> QED
    BY <2>1
       DEF RecoveryNext, Restore, RestoreNothing, RestoreConfig, RestoreMarker, RestoreBackup,
           Start, LoadConfig, RepairConfig, RewriteConfig, ShowLauncher, BypassLauncher,
           QuitLauncher, PlayNormally, PlaySafely,
           BackUpConfig, MarkSafeMode, BeginRun, OpenConfig, WriteConfig, CloseWindow,
           EndRun, Crash, recoveryVars, Fault, Succeed
<1>2. faults = 0 /\ ~Fault
  BY <1>1 DEF Fault
<1>3. Recovered # Safe /\ loaded # Safe /\ ~warning
  BY <1>2 DEF RecoveryInv, SafeInv
<1>4. Recovered' # Safe
  <2>1. CASE RewriteConfig \/ WriteConfig
    BY <1>2, <1>3, <2>1, RecoveredStep, ContentsAssumption DEF RewriteConfig, WriteConfig
  <2> QED BY <1>3, <2>1, RecoveredStep, ContentsAssumption
<1>5. CASE LoadConfig
  <2>1. loaded' = config /\ warning' = warning
    BY <1>5 DEF LoadConfig
  <2>2. pc = "load"
    BY <1>5 DEF LoadConfig
  <2>3. config = Recovered
    BY <1>3, <2>2 DEF RecoveryInv, SettingsInv, Loading, Recovered
  <2> QED BY <1>3, <1>4, <2>1, <2>3
<1>6. CASE Restore
  BY <1>2, <1>3, <1>4, <1>6
     DEF Restore, RestoreNothing, RestoreConfig, RestoreMarker, RestoreBackup, Return
<1>7. CASE ~(LoadConfig \/ Restore)
  <2>1. loaded' = loaded /\ (warning' = warning \/ warning' = FALSE)
    BY <1>7
       DEF RecoveryNext, Start, RepairConfig, RewriteConfig, ShowLauncher, BypassLauncher,
           QuitLauncher, PlayNormally, PlaySafely,
           BackUpConfig, MarkSafeMode, BeginRun, OpenConfig, WriteConfig, CloseWindow,
           EndRun, Crash, recoveryVars, disk
  <2> QED BY <1>3, <1>4, <2>1
<1> QED BY <1>5, <1>6, <1>7

\* Every step keeps the run marker in agreement with the games that were started.
LEMMA DiedStep == RecoveryInv /\ [RecoveryNext]_recoveryVars => DiedInv'
<1> SUFFICES ASSUME RecoveryInv, [RecoveryNext]_recoveryVars PROVE DiedInv'
  OBVIOUS
<1>0. RecoveryTypeOK /\ DiedInv
  BY DEF RecoveryInv
<1>N. faults \in Nat
  BY <1>0, FaultsAssumption DEF RecoveryTypeOK
<1> USE <1>0, <1>N DEF DiedInv, Restoring, Loading, Launched, disk, Fault, Succeed, RecoveryTypeOK, FlagsOK
<1>1. CASE RestoreNothing
  BY <1>1 DEF RestoreNothing, Return
<1>2. CASE RestoreConfig
  BY <1>2 DEF RestoreConfig, Return
<1>3. CASE RestoreMarker
  BY <1>3 DEF RestoreMarker, Return
<1>4. CASE RestoreBackup
  BY <1>4 DEF RestoreBackup, Return
<1>5. CASE Start
  BY <1>5 DEF Start
<1>6. CASE LoadConfig \/ ShowLauncher \/ BypassLauncher
  BY <1>6 DEF LoadConfig, ShowLauncher, BypassLauncher
<1>7. CASE QuitLauncher \/ PlayNormally \/ PlaySafely
  BY <1>7 DEF QuitLauncher, PlayNormally, PlaySafely
<1>8. CASE BackUpConfig \/ MarkSafeMode
  BY <1>8 DEF BackUpConfig, MarkSafeMode
<1>9. CASE BeginRun
  BY <1>9 DEF BeginRun
<1>10. CASE RepairConfig \/ RewriteConfig \/ OpenConfig \/ WriteConfig
  BY <1>10 DEF RepairConfig, RewriteConfig, OpenConfig, WriteConfig
<1>11. CASE CloseWindow
  BY <1>11 DEF CloseWindow
<1>12. CASE EndRun
  BY <1>12 DEF EndRun
<1>13. CASE Crash
  BY <1>13 DEF Crash
<1>14. CASE UNCHANGED recoveryVars
  BY <1>14 DEF recoveryVars
<1> QED
  BY <1>1, <1>2, <1>3, <1>4, <1>5, <1>6, <1>7, <1>8, <1>9, <1>10, <1>11, <1>12,
     <1>13, <1>14 DEF RecoveryNext, Restore

\* The invariant is inductive.
THEOREM RecoveryInductive == RecoverySpec => []RecoveryInv
<1>1. RecoveryInv /\ [RecoveryNext]_recoveryVars => RecoveryInv'
  BY RecoveryTypeStep, SettingsStep, SafeStep, DiedStep DEF RecoveryInv
<1> QED BY RecoveryInitInv, <1>1, PTL DEF RecoverySpec

\* Type correctness.
THEOREM RecoveryTypeCorrect == RecoverySpec => []RecoveryTypeOK
<1>1. RecoveryInv => RecoveryTypeOK
  BY DEF RecoveryInv
<1> QED BY RecoveryInductive, <1>1, PTL

\* Crashes at any step, failed file operations and everything Safe Mode does
\* leave the settings that will be recovered as they were last saved outside it,
\* by the game or by a start that repaired them.
THEOREM SettingsKept == RecoverySpec => OnlyOwnSavesChangeSettings
<1>1. ASSUME RecoveryInv, [RecoveryNext]_recoveryVars
      PROVE [Recovered' # Recovered =>
               pc \in {"repair", "rewrite", "game", "save"} /\ ~safeMode]_recoveryVars
  BY <1>1, RecoveredStep
<1> QED BY RecoveryInductive, <1>1, PTL DEF RecoverySpec, OnlyOwnSavesChangeSettings

\* No start loads the overrides of an earlier Safe Mode run.
THEOREM OneRun == RecoverySpec => []SafeModeLastsOneRun
<1>1. RecoveryInv => SafeModeLastsOneRun
  BY DEF RecoveryInv, SafeInv, SafeModeLastsOneRun
<1> QED BY RecoveryInductive, <1>1, PTL

\* An interrupted game is reported, and only an interrupted game.
THEOREM CrashIsReported == RecoverySpec => []CrashReported
<1>1. RecoveryInv => CrashReported
  BY DEF RecoveryInv, DiedInv, Launched, CrashReported
<1> QED BY RecoveryInductive, <1>1, PTL
=============================================================================
