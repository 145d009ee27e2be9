-------------------------- MODULE SaveTransaction --------------------------
(***************************************************************************)
(* Save restore, reset, undo and their recovery (ge_save_manager.cpp).     *)
(*                                                                         *)
(* The player's save is three units below the data root: the package, its  *)
(* header and the title profile.  An operation moves units between the     *)
(* root, staging directories and quarantines by renames, one unit at a     *)
(* time, under a journal; a journal that is found is rolled back, or, when *)
(* it says committed, finished.  RootOperationLock admits one operation at *)
(* a time, so one program counter describes the process; it may die        *)
(* between any two steps.  A rename, a journal write and a removal may     *)
(* fail before it took effect, or after, when only the synchronisation of  *)
(* the directory failed.                                                   *)
(***************************************************************************)
EXTENDS Naturals, FiniteSets

CONSTANTS
  MaxDirs,     \* bound on the directories the operations create
  MaxPlays,    \* bound on the games played, each of which writes new saves
  MaxFaults,   \* bound on the primitives that fail
  MaxCrashes   \* bound on the deaths of the process

ASSUME BoundsAssumption ==
  MaxDirs \in Nat /\ MaxPlays \in Nat /\ MaxFaults \in Nat /\ MaxCrashes \in Nat

Package == 1
Header  == 2
Profile == 3
Units   == {Package, Header, Profile}

\* DiscoverEntries accepts a package with its header and nothing in between.
Legal(U) == Package \in U <=> Header \in U
Snapshots == {U \in SUBSET Units : Legal(U)}

Root   == 0
Dirs   == 1..MaxDirs
Places == 0..MaxDirs

\* A copy of a unit is known by its version: one per game played, and one for
\* what the backup archive holds.
Nothing  == 0
Archived == 1
Versions == 0..(2 + MaxPlays)
Copies   == [Units -> Versions]
Empty    == [u \in Units |-> Nothing]

Modes == {"quarantine", "install", "undo", "displace", "swap"}
NoJournal == [mode |-> "none", state |-> "precommit", first |-> Root,
              second |-> Root, units1 |-> {}, units2 |-> {}]
Journals == [mode : Modes \union {"none"}, state : {"precommit", "committed"},
             first : Places, second : Places,
             units1 : SUBSET Units, units2 : SUBSET Units]

VARIABLES
  disk,     \* the copies below the root and each directory
  kind,     \* what each directory is
  listed,   \* the units its quarantine manifest lists
  journal,  \* .goldeneye-save-transaction
  pc,       \* what the process is about to do
  then,     \* where RecoverInterruptedTransactionUnlocked returns to
  op,       \* the operation under way
  dir,      \* its staging directory, or the quarantine to undo
  tx,       \* its TransactionRecord
  left,     \* units the loop under way has not seen
  moved,    \* MoveUnitsRollbackSafe: units to move back on failure
  leg,      \* RollBackTransaction: the ReconcileUnits call
  plays, faults, crashes,
  kept,     \* history: <<unit, version>> of every copy the game wrote last
  pre,      \* history: the save below the root when the operation began
  post,     \* history: the save the operation is to install
  result,   \* history: what the last call returned
  stopped,  \* history: a recovery refused to go on without an I/O error
  disjoint  \* history: a reset was undone under units it does not list

files   == <<disk, kind, listed, journal>>
process == <<pc, then, op, dir, tx, left, moved, leg>>
history == <<kept, pre, post, result, stopped, disjoint>>
vars == <<disk, kind, listed, journal, pc, then, op, dir, tx, left, moved, leg,
          plays, faults, crashes, kept, pre, post, result, stopped, disjoint>>

FilesOK ==
  /\ disk \in [Places -> Copies]
  /\ kind \in [Dirs -> {"unused", "staging", "reset", "restore", "removed"}]
  /\ listed \in [Dirs -> SUBSET Units]
  /\ journal \in Journals
ProcessOK ==
  /\ pc \in {"idle", "recover", "reconcile", "check", "clear", "recovered",
             "stopped", "quarantine", "begin", "move", "unmove", "phase",
             "commit", "observe", "finish", "clean"}
  /\ then \in {"call", "fail", "drop", "finish", "abort"}
  /\ op \in {"none", "recover", "restore", "reset", "undo"}
  /\ dir \in Places /\ tx \in Journals
  /\ left \subseteq Units /\ moved \subseteq Units /\ leg \in 1..2
HistoryOK ==
  /\ plays \in 0..MaxPlays /\ faults \in 0..MaxFaults /\ crashes \in 0..MaxCrashes
  /\ kept \subseteq Units \X Versions
  /\ pre \in Copies /\ post \in Copies
  /\ result \in {"none", "ok", "recovered", "failed"}
FlagsOK == stopped \in BOOLEAN /\ disjoint \in BOOLEAN
TypeOK == FilesOK /\ ProcessOK /\ HistoryOK /\ FlagsOK

Held(p) == {u \in Units : disk[p][u] # Nothing}
Free    == {d \in Dirs : kind[d] = "unused"}
IsQuarantine(d) == kind[d] \in {"reset", "restore"}
First(U) == CHOOSE u \in U : \A v \in U : u <= v
Last(U)  == CHOOSE u \in U : \A v \in U : v <= u

Init ==
  /\ \E U \in Snapshots :
       /\ disk = [p \in Places |->
                    [u \in Units |-> IF p = Root /\ u \in U THEN 2 ELSE Nothing]]
       /\ kept = {<<u, 2>> : u \in U}
  /\ kind = [d \in Dirs |-> "unused"] /\ listed = [d \in Dirs |-> {}]
  /\ journal = NoJournal /\ tx = NoJournal
  /\ pc = "idle" /\ then = "call" /\ op = "none" /\ dir = Root
  /\ left = {} /\ moved = {} /\ leg = 1
  /\ plays = 0 /\ faults = 0 /\ crashes = 0
  /\ pre = disk[Root] /\ post = disk[Root] /\ result = "none"
  /\ stopped = FALSE /\ disjoint = FALSE

-----------------------------------------------------------------------------
(* The primitives.                                                         *)

Works == UNCHANGED faults
Fault == faults < MaxFaults /\ faults' = faults + 1

\* A mistake: a rename that replaces its destination.
CanRenameOver(from, to, u) == disk[from][u] # Nothing
CanRename(from, to, u) == disk[from][u] # Nothing /\ disk[to][u] = Nothing
Rename(from, to, u) ==
  disk' = [disk EXCEPT ![from][u] = Nothing, ![to][u] = disk[from][u]]

\* Where each transaction moves its units, and how it is rolled back.
Forward(j) ==
  CASE j.mode \in {"quarantine", "displace"} ->
         [from |-> Root, to |-> j.first, units |-> j.units1]
    [] j.mode \in {"install", "undo"} ->
         [from |-> j.first, to |-> Root, units |-> j.units1]
    [] OTHER ->
         [from |-> j.second, to |-> Root, units |-> j.units2]

Back(from, to, U) == [from |-> from, to |-> to, units |-> U]
LastLeg(j) == IF j.mode \in {"install", "swap"} THEN 2 ELSE 1
\* A mistake: the replaced save comes back before the new one has left.
LegReversed(j, n) ==
  CASE j.mode = "install" /\ n = 1 -> Back(j.second, Root, j.units2)
    [] j.mode = "install" /\ n = 2 -> Back(Root, j.first, j.units1)
    [] j.mode = "swap" /\ n = 1    -> Back(Root, j.second, j.units2)
    [] j.mode = "undo"             -> Back(Root, j.first, j.units1)
    [] OTHER                       -> Back(j.first, Root, j.units1)
Leg(j, n) ==
  CASE j.mode = "install" /\ n = 1 -> Back(Root, j.first, j.units1)
    [] j.mode = "install" /\ n = 2 -> Back(j.second, Root, j.units2)
    [] j.mode = "swap" /\ n = 1    -> Back(Root, j.second, j.units2)
    [] j.mode = "undo"             -> Back(Root, j.first, j.units1)
    [] OTHER                       -> Back(j.first, Root, j.units1)

\* ValidateUnitsAt; a transaction without a second directory skips it.
At(p, U) == Held(p) = U
PretransactionState(j) ==
  CASE j.mode = "quarantine" -> At(Root, j.units1) /\ At(j.first, {})
    [] j.mode = "install"    -> /\ At(Root, j.units2) /\ At(j.first, j.units1)
                                /\ j.second # Root => At(j.second, {})
    [] j.mode = "undo"       -> At(Root, {}) /\ At(j.first, j.units1)
    [] OTHER                 -> /\ At(Root, j.units1) /\ At(j.first, {})
                                /\ At(j.second, j.units2)
CommittedState(j) ==
  CASE j.mode = "quarantine" -> At(Root, {}) /\ At(j.first, j.units1)
    [] j.mode = "install"    -> /\ At(Root, j.units1) /\ At(j.first, {})
                                /\ j.second # Root => At(j.second, j.units2)
    [] j.mode = "undo"       -> At(Root, j.units1) /\ At(j.first, {})
    [] j.mode = "swap"       -> /\ At(Root, j.units2) /\ At(j.first, j.units1)
                                /\ At(j.second, {})
    [] OTHER                 -> FALSE

DirectoriesExist(j) ==
  kind[j.first] # "removed" /\ (j.second # Root => kind[j.second] # "removed")

-----------------------------------------------------------------------------
(* A call of the launcher, and the recovery that begins every call.        *)

\* A bound: a call is made while directories are left for all it may create.
NeededDirs(o) == CASE o = "recover" -> 0 [] o = "restore" -> 2 [] OTHER -> 1

Call(o) ==
  /\ pc = "idle" /\ pc' = "recover" /\ then' = "call"
  /\ Cardinality(Free) >= NeededDirs(o)
  /\ op' = o /\ dir' = Root /\ tx' = NoJournal /\ result' = "none"
  /\ IF journal = NoJournal THEN pre' = disk[Root] /\ post' = disk[Root]
                            ELSE UNCHANGED <<pre, post>>
  /\ UNCHANGED <<disk, kind, listed, journal, left, moved, leg, plays, faults,
                 crashes, kept, stopped, disjoint>>

Return(r) == pc' = "idle" /\ op' = "none" /\ result' = r

IsCommitted == journal.state = "committed"

\* The journal is read; one that a crash left commits or rolls back.
Recover ==
  /\ pc = "recover"
  /\ \/ /\ journal = NoJournal /\ pc' = "recovered" /\ UNCHANGED stopped
     \/ /\ journal # NoJournal /\ DirectoriesExist(journal) /\ IsCommitted
        /\ CommittedState(journal) /\ pc' = "clear" /\ UNCHANGED stopped
     \/ /\ journal # NoJournal /\ DirectoriesExist(journal) /\ IsCommitted
        /\ ~CommittedState(journal) /\ pc' = "stopped" /\ stopped' = TRUE
     \/ /\ journal # NoJournal /\ DirectoriesExist(journal) /\ ~IsCommitted
        /\ pc' = "reconcile" /\ UNCHANGED stopped
     \/ /\ journal # NoJournal /\ ~DirectoriesExist(journal)
        /\ pc' = "stopped" /\ stopped' = TRUE
  /\ leg' = 1
  /\ left' = IF journal = NoJournal THEN {} ELSE Leg(journal, 1).units
  /\ Works
  /\ UNCHANGED <<disk, kind, listed, journal, then, op, dir, tx, moved, plays,
                 crashes, kept, pre, post, result, disjoint>>

\* Any step of the recovery may fail: reading the journal, discovering units.
RecoveryFails ==
  /\ pc \in {"recover", "reconcile", "check"} /\ pc' = "stopped" /\ Fault
  /\ UNCHANGED <<disk, kind, listed, journal, then, op, dir, tx, left, moved, leg,
                 plays, crashes, kept, pre, post, result, stopped, disjoint>>

\* ReconcileUnits takes the units of one call one after the other.
LegFrom == Leg(journal, leg).from
LegTo   == Leg(journal, leg).to

\* A unit that is where it belongs is left alone.
ReconcileSkip ==
  /\ pc = "reconcile" /\ left # {}
  /\ disk[LegFrom][First(left)] = Nothing /\ disk[LegTo][First(left)] # Nothing
  /\ left' = left \ {First(left)}
  /\ UNCHANGED <<disk, kind, listed, journal, pc, then, op, dir, tx, moved, leg,
                 plays, faults, crashes, kept, pre, post, result, stopped,
                 disjoint>>

\* A unit that exists twice, or nowhere, stops the recovery.
ReconcileStops ==
  /\ pc = "reconcile" /\ left # {}
  /\ (disk[LegFrom][First(left)] = Nothing) = (disk[LegTo][First(left)] = Nothing)
  /\ pc' = "stopped" /\ stopped' = TRUE
  /\ UNCHANGED <<disk, kind, listed, journal, then, op, dir, tx, left, moved, leg,
                 plays, faults, crashes, kept, pre, post, result, disjoint>>

ReconcileRename ==
  /\ pc = "reconcile" /\ left # {}
  /\ CanRename(LegFrom, LegTo, First(left))
  /\ Rename(LegFrom, LegTo, First(left))
  /\ \/ Works /\ left' = left \ {First(left)} /\ UNCHANGED pc
     \/ Fault /\ pc' = "stopped" /\ UNCHANGED left
  /\ UNCHANGED <<kind, listed, journal, then, op, dir, tx, moved, leg, plays,
                 crashes, kept, pre, post, result, stopped, disjoint>>

ReconcileNext ==
  /\ pc = "reconcile" /\ left = {}
  /\ \/ /\ leg < LastLeg(journal)
        /\ leg' = leg + 1 /\ left' = Leg(journal, leg + 1).units /\ UNCHANGED pc
     \/ /\ leg = LastLeg(journal)
        /\ pc' = "check" /\ UNCHANGED <<leg, left>>
  /\ UNCHANGED <<disk, kind, listed, journal, then, op, dir, tx, moved, plays,
                 faults, crashes, kept, pre, post, result, stopped, disjoint>>

Check ==
  /\ pc = "check"
  /\ pc' = IF PretransactionState(journal) THEN "clear" ELSE "stopped"
  /\ stopped' = (stopped \/ ~PretransactionState(journal))
  /\ UNCHANGED <<disk, kind, listed, journal, then, op, dir, tx, left, moved, leg,
                 plays, faults, crashes, kept, pre, post, result, disjoint>>

\* ClearTransaction at the end of a recovery.
RecoveryClears ==
  /\ pc = "clear"
  /\ \/ journal' = NoJournal /\ Works /\ pc' = "recovered"
     \/ journal' \in {journal, NoJournal} /\ Fault /\ pc' = "stopped"
  /\ UNCHANGED <<disk, kind, listed, then, op, dir, tx, left, moved, leg, plays,
                 crashes, kept, pre, post, result, stopped, disjoint>>

-----------------------------------------------------------------------------
(* What each caller of the recovery does with its answer.                  *)

Recovered == pc \in {"recovered", "stopped"}

\* RecoverInterruptedTransaction, and every other call that cannot go on.
ReturnRecovery ==
  /\ Recovered /\ then = "call"
  /\ \/ pc = "stopped" /\ Return("failed")
     \/ pc = "recovered" /\ op = "recover" /\ Return("recovered")
  /\ UNCHANGED <<disk, kind, listed, journal, then, dir, tx, left, moved, leg,
                 plays, faults, crashes, kept, pre, post, stopped, disjoint>>

\* A failed operation removes its staging directory when the rollback went
\* well, or when it failed before the install phase (RestoreBackup), and an
\* unused quarantine when its journal was never needed (QuarantineCurrent).
FailedStagingGoes ==
  op = "restore" /\ (tx.mode = "quarantine" \/ pc = "recovered")
ReturnFailure ==
  /\ Recovered /\ then \in {"fail", "drop"}
  /\ LET gone == {d \in Dirs :
                    \/ (d = dir /\ FailedStagingGoes)
                    \/ (d = tx.first /\ then = "drop" /\ pc = "recovered")}
     IN /\ disk' = [p \in Places |-> IF p \in gone THEN Empty ELSE disk[p]]
        /\ kind' = [d \in Dirs |-> IF d \in gone THEN "removed" ELSE kind[d]]
  /\ Return("failed")
  /\ UNCHANGED <<listed, journal, then, dir, tx, left, moved, leg, plays, faults,
                 crashes, kept, pre, post, stopped, disjoint>>

\* FinishTransaction failed: an undo recovers once more, the others return.
FinishFails ==
  IF op = "undo"
    THEN pc' = "recover" /\ then' = "fail" /\ UNCHANGED <<op, result>>
    ELSE Return("failed") /\ UNCHANGED then
\* A mistake: an undone commit is taken for a successful one.
FinishRecoveredOk ==
  /\ Recovered /\ then \in {"finish", "abort"}
  /\ IF pc = "recovered" THEN pc' = "clean" /\ UNCHANGED <<then, op, result>>
                         ELSE FinishFails
  /\ UNCHANGED <<disk, kind, listed, journal, dir, tx, left, moved, leg, plays,
                 faults, crashes, kept, pre, post, stopped, disjoint>>
FinishRecovered ==
  /\ Recovered /\ then \in {"finish", "abort"}
  /\ IF then = "finish" /\ pc = "recovered"
       THEN pc' = "clean" /\ UNCHANGED <<then, op, result>>
       ELSE FinishFails
  /\ UNCHANGED <<disk, kind, listed, journal, dir, tx, left, moved, leg, plays,
                 faults, crashes, kept, pre, post, stopped, disjoint>>

-----------------------------------------------------------------------------
(* RestoreBackup, ResetToFresh and UndoQuarantine.                         *)

Ready(o) == pc = "recovered" /\ then = "call" /\ op = o
Begins(target) == pre' = disk[Root] /\ post' = target
Record(m, first, second, units1, units2) ==
  [mode |-> m, state |-> "precommit", first |-> first, second |-> second,
   units1 |-> units1, units2 |-> units2]
Of(version, U) == [u \in Units |-> IF u \in U THEN version ELSE Nothing]

\* A valid archive is unpacked into a new staging directory and compared with
\* it; what fails before that is removed.
StageArchive == \E U \in Snapshots \ {{}}, d \in Free :
  /\ Ready("restore") /\ d = First(Free)
  /\ Begins(Of(Archived, U))
  /\ \/ /\ Works
        /\ kind' = [kind EXCEPT ![d] = "staging"]
        /\ disk' = [disk EXCEPT ![d] = Of(Archived, U)]
        /\ dir' = d /\ UNCHANGED <<op, result>>
        /\ IF Held(Root) = {}
             THEN pc' = "begin" /\ tx' = Record("install", d, Root, U, {})
             ELSE pc' = "quarantine" /\ UNCHANGED tx
     \/ /\ Fault /\ kind' = [kind EXCEPT ![d] = "removed"] /\ Return("failed")
        /\ UNCHANGED <<disk, dir, tx>>
  /\ UNCHANGED <<listed, journal, then, left, moved, leg, plays, crashes, kept,
                 stopped, disjoint>>

\* kNoData: there is nothing to reset.
StartReset ==
  /\ Ready("reset") /\ Begins(Empty)
  /\ IF Held(Root) = {} THEN Return("failed")
                        ELSE pc' = "quarantine" /\ UNCHANGED <<op, result>>
  /\ UNCHANGED <<disk, kind, listed, journal, then, dir, tx, left, moved, leg,
                 plays, faults, crashes, kept, stopped, disjoint>>

\* CreateUniqueDirectory and the manifest.
CreateQuarantine(k, record) == \E d \in Free :
  /\ d = First(Free)
  /\ \/ /\ Works
        /\ kind' = [kind EXCEPT ![d] = k]
        /\ listed' = [listed EXCEPT ![d] = Held(Root)]
        /\ pc' = "begin" /\ tx' = [record EXCEPT !.first = d]
        /\ UNCHANGED <<op, result, disk>>
     \/ /\ Fault /\ Return("failed") /\ UNCHANGED <<tx, listed>>
        /\ IF op = "restore"
             THEN /\ kind' = [kind EXCEPT ![d] = "removed", ![dir] = "removed"]
                  /\ disk' = [disk EXCEPT ![dir] = Empty]
             ELSE kind' = [kind EXCEPT ![d] = "removed"] /\ UNCHANGED disk
  /\ UNCHANGED <<journal, then, left, moved, leg, plays, crashes, kept, stopped>>

QuarantineCurrent ==
  /\ pc = "quarantine"
  /\ CreateQuarantine(IF op = "reset" THEN "reset" ELSE "restore",
                      Record("quarantine", Root, Root, Held(Root), {}))
  /\ UNCHANGED <<dir, pre, post, disjoint>>

\* The quarantine must hold what its manifest lists.
Undoable(q) == IsQuarantine(q) /\ listed[q] # {} /\ Held(q) = listed[q]
UndoRefuses ==
  /\ Ready("undo")
  /\ \E q \in Dirs :
       \/ ~Undoable(q)
       \/ Undoable(q) /\ kind[q] = "reset" /\ listed[q] \intersect Held(Root) # {}
  /\ Return("failed") /\ Begins(disk[Root])
  /\ UNCHANGED <<disk, kind, listed, journal, then, dir, tx, left, moved, leg,
                 plays, faults, crashes, kept, stopped, disjoint>>

\* A reset is undone beside units it does not list, a restore into an empty root.
UndoIntoRoot == \E q \in Dirs :
  /\ Ready("undo") /\ Undoable(q)
  /\ \/ kind[q] = "reset" /\ listed[q] \intersect Held(Root) = {}
     \/ kind[q] = "restore" /\ Held(Root) = {}
  /\ dir' = q /\ tx' = Record("undo", q, Root, listed[q], {}) /\ pc' = "begin"
  /\ Begins([u \in Units |->
               IF u \in listed[q] THEN disk[q][u] ELSE disk[Root][u]])
  /\ disjoint' = (disjoint \/ Held(Root) # {})
  /\ UNCHANGED <<disk, kind, listed, journal, then, op, left, moved, leg, plays,
                 faults, crashes, kept, result, stopped>>

\* Otherwise the current save is displaced into a new quarantine.
UndoBySwap == \E q \in Dirs :
  /\ Ready("undo") /\ Undoable(q) /\ kind[q] = "restore" /\ Held(Root) # {}
  /\ dir' = q /\ Begins(disk[q])
  /\ CreateQuarantine("restore",
                      Record("displace", Root, q, Held(Root), listed[q]))
  /\ UNCHANGED disjoint

-----------------------------------------------------------------------------
(* The transaction: journal, moves, next phase, commit.                    *)

MoveFrom == Forward(tx).from
MoveTo   == Forward(tx).to

StartMoves(j) == pc' = "move" /\ left' = Forward(j).units /\ moved' = {}
RollBack(t) == pc' = "recover" /\ then' = t

\* BeginTransaction; only an undo returns without looking at the journal.
Begin ==
  /\ pc = "begin"
  /\ \/ /\ Works /\ journal' = tx /\ StartMoves(tx)
        /\ UNCHANGED <<then, op, result>>
     \/ /\ Fault /\ journal' \in {journal, tx} /\ UNCHANGED <<left, moved>>
        /\ IF op = "undo"
             THEN Return("failed") /\ UNCHANGED then
             ELSE /\ RollBack(IF tx.mode = "quarantine" THEN "drop" ELSE "fail")
                  /\ UNCHANGED <<op, result>>
  /\ UNCHANGED <<disk, kind, listed, dir, tx, leg, plays, crashes, kept, pre,
                 post, stopped, disjoint>>

\* MoveUnitsRollbackSafe renames one unit after the other ...
MoveUnit ==
  /\ pc = "move" /\ left # {}
  /\ CanRename(MoveFrom, MoveTo, First(left))
  /\ Rename(MoveFrom, MoveTo, First(left))
  /\ moved' = moved \union {First(left)}
  /\ \/ Works /\ left' = left \ {First(left)} /\ UNCHANGED pc
     \/ Fault /\ pc' = "unmove" /\ UNCHANGED left
  /\ UNCHANGED <<kind, listed, journal, then, op, dir, tx, leg, plays, crashes,
                 kept, pre, post, result, stopped, disjoint>>
MoveFails ==
  /\ pc = "move" /\ left # {}
  /\ IF CanRename(MoveFrom, MoveTo, First(left)) THEN Fault ELSE Works
  /\ pc' = "unmove"
  /\ UNCHANGED <<disk, kind, listed, journal, then, op, dir, tx, left, moved, leg,
                 plays, crashes, kept, pre, post, result, stopped, disjoint>>

\* ... and on failure renames them back, last first, whatever that returns.
Unmove ==
  /\ pc = "unmove" /\ moved # {}
  /\ moved' = moved \ {Last(moved)}
  /\ \/ /\ CanRename(MoveTo, MoveFrom, Last(moved))
        /\ \/ Rename(MoveTo, MoveFrom, Last(moved)) /\ Works
           \/ UNCHANGED disk /\ Fault
     \/ ~CanRename(MoveTo, MoveFrom, Last(moved)) /\ UNCHANGED disk /\ Works
  /\ UNCHANGED <<kind, listed, journal, pc, then, op, dir, tx, left, leg, plays,
                 crashes, kept, pre, post, result, stopped, disjoint>>
\* A mistake: with every unit back the journal is thought to be needless.
UnmovedClears ==
  /\ pc = "unmove" /\ moved = {} /\ RollBack("fail") /\ journal' = NoJournal
  /\ UNCHANGED <<disk, kind, listed, op, dir, tx, left, moved, leg, plays, faults,
                 crashes, kept, pre, post, result, stopped, disjoint>>
Unmoved ==
  /\ pc = "unmove" /\ moved = {} /\ RollBack("fail")
  /\ UNCHANGED <<disk, kind, listed, journal, op, dir, tx, left, moved, leg,
                 plays, faults, crashes, kept, pre, post, result, stopped,
                 disjoint>>

\* A restore goes on to install, an undo to restore; then comes the commit.
NextPhase ==
  IF tx.mode = "quarantine"
    THEN Record("install", dir, tx.first, Held(dir), tx.units1)
    ELSE [tx EXCEPT !.mode = "swap"]
MovesDone ==
  /\ pc = "move" /\ left = {}
  /\ IF tx.mode = "displace" \/ (tx.mode = "quarantine" /\ op = "restore")
       THEN pc' = "phase" /\ tx' = NextPhase
       ELSE pc' = "commit" /\ UNCHANGED tx
  /\ UNCHANGED <<disk, kind, listed, journal, then, op, dir, left, moved, leg,
                 plays, faults, crashes, kept, pre, post, result, stopped,
                 disjoint>>

\* UpdateTransaction replaces the journal.
UpdateTransaction ==
  /\ pc = "phase"
  /\ \/ Works /\ journal' = tx /\ StartMoves(tx) /\ UNCHANGED then
     \/ /\ Fault /\ journal' \in {journal, tx} /\ RollBack("fail")
        /\ UNCHANGED <<left, moved>>
  /\ UNCHANGED <<disk, kind, listed, op, dir, tx, leg, plays, crashes, kept, pre,
                 post, result, stopped, disjoint>>

\* FinishTransaction: commit, and look at the journal when that fails.
Committed(j) == [j EXCEPT !.state = "committed"]
Commit ==
  /\ pc = "commit"
  /\ \/ /\ Works /\ journal' = Committed(journal) /\ pc' = "finish"
        /\ UNCHANGED <<then, op, result>>
     \/ /\ Fault /\ journal' \in {journal, Committed(journal)}
        /\ pc' = "observe" /\ UNCHANGED <<then, op, result>>
     \/ Fault /\ UNCHANGED journal /\ FinishFails
  /\ UNCHANGED <<disk, kind, listed, dir, tx, left, moved, leg, plays, crashes,
                 kept, pre, post, stopped, disjoint>>
Observe ==
  /\ pc = "observe"
  /\ \/ /\ Works /\ RollBack(IF IsCommitted THEN "finish" ELSE "abort")
        /\ UNCHANGED <<op, result>>
     \/ Fault /\ FinishFails
  /\ UNCHANGED <<disk, kind, listed, journal, dir, tx, left, moved, leg, plays,
                 crashes, kept, pre, post, stopped, disjoint>>
\* A mistake: a journal that cannot be removed fails the operation it committed.
FinishClearsOrAborts ==
  /\ pc = "finish"
  /\ \/ Works /\ journal' = NoJournal /\ pc' = "clean" /\ UNCHANGED then
     \/ Fault /\ journal' \in {journal, NoJournal} /\ RollBack("abort")
  /\ UNCHANGED <<disk, kind, listed, op, dir, tx, left, moved, leg, plays,
                 crashes, kept, pre, post, result, stopped, disjoint>>
FinishClears ==
  /\ pc = "finish"
  /\ \/ Works /\ journal' = NoJournal /\ pc' = "clean" /\ UNCHANGED then
     \/ Fault /\ journal' \in {journal, NoJournal} /\ RollBack("finish")
  /\ UNCHANGED <<disk, kind, listed, op, dir, tx, left, moved, leg, plays,
                 crashes, kept, pre, post, result, stopped, disjoint>>

\* The staging directory, or the quarantine an undo has emptied, is removed; an
\* error is ignored, and a quarantine that is not empty is preserved.
Clean ==
  /\ pc = "clean" /\ Return("ok")
  /\ LET goes == dir # Root /\ (op = "undo" => Held(dir) = {})
     IN \/ /\ goes /\ Works
           /\ disk' = [disk EXCEPT ![dir] = Empty]
           /\ kind' = [kind EXCEPT ![dir] = "removed"]
        \/ goes /\ Fault /\ UNCHANGED <<disk, kind>>
        \/ ~goes /\ Works /\ UNCHANGED <<disk, kind>>
  /\ UNCHANGED <<listed, journal, then, dir, tx, left, moved, leg, plays, crashes,
                 kept, pre, post, stopped, disjoint>>

-----------------------------------------------------------------------------
(* The rest of the world.                                                  *)

\* The process dies; the files stay as they are.
Crash ==
  /\ pc # "idle" /\ crashes < MaxCrashes /\ crashes' = crashes + 1
  /\ pc' = "idle" /\ then' = "call" /\ op' = "none" /\ dir' = Root
  /\ tx' = NoJournal /\ left' = {} /\ moved' = {} /\ leg' = 1 /\ result' = "none"
  /\ UNCHANGED <<disk, kind, listed, journal, plays, faults, kept, pre, post,
                 stopped, disjoint>>

\* The game starts only when a recovery succeeded, and writes saves.
PlayGame == \E U \in Snapshots \ {{}} :
  /\ pc = "idle" /\ journal = NoJournal
  /\ plays < MaxPlays /\ plays' = plays + 1
  /\ disk' = [disk EXCEPT ![Root] =
                [u \in Units |-> IF u \in U THEN 3 + plays ELSE @[u]]]
  /\ kept' = (kept \ {<<u, disk[Root][u]>> : u \in U})
               \union {<<u, 3 + plays>> : u \in U}
  /\ pre' = disk'[Root] /\ post' = disk'[Root] /\ result' = "none"
  /\ UNCHANGED <<kind, listed, journal, pc, then, op, dir, tx, left, moved, leg,
                 faults, crashes, stopped, disjoint>>

Next ==
  \/ \E o \in {"recover", "restore", "reset", "undo"} : Call(o)
  \/ Recover \/ RecoveryFails \/ ReconcileSkip \/ ReconcileStops
  \/ ReconcileRename \/ ReconcileNext \/ Check \/ RecoveryClears
  \/ ReturnRecovery \/ ReturnFailure \/ FinishRecovered
  \/ StageArchive \/ StartReset \/ QuarantineCurrent \/ UndoRefuses
  \/ UndoIntoRoot \/ UndoBySwap \/ Begin \/ MoveUnit \/ MoveFails
  \/ Unmove \/ Unmoved \/ MovesDone \/ UpdateTransaction \/ Commit
  \/ Observe \/ FinishClears \/ Clean \/ Crash \/ PlayGame

Spec == Init /\ [][Next]_vars

-----------------------------------------------------------------------------
(* Properties.                                                             *)

\* Every copy the game wrote last is below the root or in a quarantine the
\* player can be shown, whatever failed and wherever the process died: no
\* staging clean-up, rollback or removed quarantine takes the only copy along.
NothingLost == \A c \in kept :
  \E p \in Places : disk[p][c[1]] = c[2] /\ (p = Root \/ IsQuarantine(p))

\* The save as a recovery would leave it: with a journal that does not say
\* committed, the one the operation found, whatever is below the root meanwhile.
Recoverable ==
  IF journal # NoJournal /\ ~IsCommitted THEN pre ELSE disk[Root]

\* Restore, reset and undo replace the save in one step or leave it as it was,
\* however their renames, errors, crashes and rollbacks interleave: the module
\* implements AtomicSave.
Abstract == INSTANCE AtomicSave
  WITH Saves <- Copies, save <- Recoverable, goal <- post
ReplacedAtomically == Abstract!Spec

\* A call that returns success has installed exactly what it promised, left no
\* journal behind, and the replaced save is whole in the quarantine it names.
Replaced == CASE tx.mode \in {"quarantine", "swap"} -> tx.first
              [] OTHER -> tx.second
SuccessMeansDone == result = "ok" =>
  /\ journal = NoJournal /\ disk[Root] = post
  /\ Replaced # Root => disk[Replaced] = pre

\* With at most one I/O error and no crash, a call that returns failure has put
\* the save back as it was.
FailureMeansUndone ==
  result = "failed" /\ faults <= 1 /\ crashes = 0 /\ journal = NoJournal =>
    disk[Root] = pre

\* One crash or one I/O error never leaves a state that the recovery refuses,
\* unless a reset was undone beside units it does not list.
OneDisruptionRecovers == faults + crashes <= 1 /\ ~disjoint => ~stopped

\* "It is idempotent" (ge_save_manager.h:74): a recovery that died can be
\* repeated, and with no I/O error it succeeds.
RecoveryIsIdempotent == stopped => disjoint
=============================================================================
