------------------------ MODULE SaveTransactionProofs ------------------------
(***************************************************************************)
(* Theorems about SaveTransaction, for any number of directories, games,   *)
(* I/O errors and crashes.                                                 *)
(***************************************************************************)
EXTENDS SaveTransaction, TLAPS

-----------------------------------------------------------------------------
(* Types.                                                                  *)

\* The next unit of a loop is one of those that are left.
LEMMA FirstIsMember ==
  ASSUME NEW U \in SUBSET Units, U # {}
  PROVE  First(U) \in U /\ Last(U) \in U
<1>1. U \subseteq {1, 2, 3}
  BY DEF Units, Package, Header, Profile
<1>2. \E u \in U : \A v \in U : u <= v
  <2>1. CASE 1 \in U BY <2>1, <1>1
  <2>2. CASE 1 \notin U /\ 2 \in U BY <2>2, <1>1
  <2>3. CASE U = {3} BY <2>3
  <2> QED BY <2>1, <2>2, <2>3, <1>1
<1>3. \E u \in U : \A v \in U : v <= u
  <2>1. CASE 3 \in U BY <2>1, <1>1
  <2>2. CASE 3 \notin U /\ 2 \in U BY <2>2, <1>1
  <2>3. CASE U = {1} BY <2>3
  <2> QED BY <2>1, <2>2, <2>3, <1>1
<1> QED BY <1>2, <1>3 DEF First, Last

\* Renames keep the type of the disk, and take place between places.
LEMMA RenameTyped ==
  ASSUME disk \in [Places -> Copies], NEW from \in Places, NEW to \in Places,
         NEW u \in Units, Rename(from, to, u)
  PROVE  disk' \in [Places -> Copies]
<1>1. Nothing \in Versions BY BoundsAssumption DEF Nothing, Versions
<1> QED BY <1>1 DEF Rename, Copies

\* The moves and the legs of a record are between places, of units.
LEMMA ShapesTyped ==
  ASSUME NEW j \in Journals, NEW n \in 1..2
  PROVE  /\ Forward(j).from \in Places /\ Forward(j).to \in Places
         /\ Forward(j).units \subseteq Units
         /\ Leg(j, n).from \in Places /\ Leg(j, n).to \in Places
         /\ Leg(j, n).units \subseteq Units
  BY BoundsAssumption DEF Journals, Forward, Leg, Back, Places, Root

\* The initial states have the types.
LEMMA FirstStep == Init => TypeOK
<1> SUFFICES ASSUME Init PROVE TypeOK OBVIOUS
<1>1. FlagsOK BY Zenon DEF Init, FlagsOK
<1>2. Nothing \in Versions /\ 2 \in Versions
  BY BoundsAssumption DEF Nothing, Versions
<1>3. disk \in [Places -> Copies] /\ kept \subseteq Units \X Versions
  BY <1>2 DEF Init, Copies, Snapshots
<1>4. disk[Root] \in Copies
  BY <1>3, BoundsAssumption DEF Places, Root
<1>5. NoJournal \in Journals
  BY BoundsAssumption DEF NoJournal, Journals, Places, Root
<1>6. FilesOK /\ ProcessOK /\ HistoryOK
  BY <1>3, <1>4, <1>5, BoundsAssumption
  DEF Init, FilesOK, ProcessOK, HistoryOK, Places, Root
<1> QED BY <1>1, <1>6 DEF TypeOK

\* Steps keep the types: the shapes that the steps assign.
LEMMA ValuesTyped ==
  ASSUME FilesOK
  PROVE  /\ Root \in Places /\ Dirs \subseteq Places /\ NoJournal \in Journals
         /\ \A p \in Places : disk[p] \in Copies /\ Held(p) \subseteq Units
         /\ Empty \in Copies /\ \A U : Of(Archived, U) \in Copies
<1>1. Nothing \in Versions /\ Archived \in Versions
  BY BoundsAssumption DEF Nothing, Archived, Versions
<1>2. Root \in Places /\ Dirs \subseteq Places /\ NoJournal \in Journals
  BY BoundsAssumption DEF Root, Places, Dirs, NoJournal, Journals
<1>3. \A p \in Places : disk[p] \in Copies BY DEF FilesOK
<1> QED BY <1>1, <1>2, <1>3 DEF Empty, Of, Copies, Held

\* The two history flags.
LEMMA FlagsStep ==
  ASSUME FlagsOK, [Next]_vars
  PROVE  FlagsOK'
<1>1. CASE (\E o \in {"recover", "restore", "reset", "undo"} : Call(o))
           \/ Recover \/ RecoveryFails \/ ReconcileSkip \/ ReconcileStops
           \/ ReconcileRename \/ ReconcileNext \/ Check
  BY Zenon, <1>1, FlagsOK DEF FlagsOK, Call, Recover, Works, RecoveryFails,
    Fault, ReconcileSkip, ReconcileStops, ReconcileRename, ReconcileNext, Check
<1>2. CASE RecoveryClears \/ ReturnRecovery \/ ReturnFailure
           \/ FinishRecovered \/ StageArchive \/ StartReset
           \/ QuarantineCurrent \/ UndoRefuses
  BY Zenon, <1>2, FlagsOK DEF FlagsOK, RecoveryClears, Works, Fault,
    ReturnRecovery, Return, ReturnFailure, FinishRecovered, FinishFails,
    StageArchive, Begins, StartReset, QuarantineCurrent, CreateQuarantine,
    UndoRefuses
<1>3. CASE UndoIntoRoot \/ UndoBySwap \/ Begin \/ MoveUnit \/ MoveFails
           \/ Unmove \/ Unmoved \/ MovesDone
  BY Zenon, <1>3, FlagsOK DEF FlagsOK, UndoIntoRoot, Begins, UndoBySwap,
    CreateQuarantine, Works, Fault, Return, Begin, StartMoves, RollBack,
    MoveUnit, MoveFails, Unmove, Unmoved, MovesDone
<1>4. CASE UpdateTransaction \/ Commit \/ Observe \/ FinishClears \/ Clean
           \/ Crash \/ PlayGame
  BY Zenon, <1>4, FlagsOK DEF FlagsOK, UpdateTransaction, Works, Fault,
    StartMoves, RollBack, Commit, FinishFails, Return, Observe, FinishClears,
    Clean, Crash, PlayGame
<1>5. CASE UNCHANGED vars
  BY <1>5, FlagsOK DEF vars, FlagsOK
<1> QED
  BY <1>1, <1>2, <1>3, <1>4, <1>5 DEF Next

\* Counters, histories and results.
LEMMA HistoryStep ==
  ASSUME FilesOK, HistoryOK, [Next]_vars
  PROVE  HistoryOK'
<1>h. HistoryOK /\ FilesOK OBVIOUS
<1>v. Root \in Places /\ (\A p \in Places : disk[p] \in Copies) /\ Empty \in Copies
        /\ Dirs \subseteq Places /\ \A U : Of(Archived, U) \in Copies
  BY ValuesTyped
<1>1. CASE (\E o \in {"recover", "restore", "reset", "undo"} : Call(o))
           \/ Recover \/ RecoveryFails \/ ReconcileSkip \/ ReconcileStops
           \/ ReconcileRename \/ ReconcileNext \/ Check
  BY <1>1, <1>v, <1>h, BoundsAssumption DEF HistoryOK, Call, Recover, Works,
    RecoveryFails, Fault, ReconcileSkip, ReconcileStops, ReconcileRename,
    ReconcileNext, Check
<1>2. CASE RecoveryClears \/ ReturnRecovery \/ ReturnFailure
           \/ FinishRecovered \/ StartReset \/ QuarantineCurrent
           \/ UndoRefuses \/ UndoBySwap
  BY <1>2, <1>v, <1>h, BoundsAssumption DEF HistoryOK, RecoveryClears, Works,
    Fault, ReturnRecovery, Return, ReturnFailure, FinishRecovered, FinishFails,
    StartReset, Begins, QuarantineCurrent, CreateQuarantine, UndoRefuses,
    UndoBySwap
<1>3. CASE Begin \/ MoveUnit \/ MoveFails \/ Unmove \/ Unmoved \/ MovesDone
           \/ UpdateTransaction \/ Commit
  BY <1>3, <1>v, <1>h, BoundsAssumption DEF HistoryOK, Begin, Works, Fault,
    StartMoves, RollBack, Return, MoveUnit, MoveFails, Unmove, Unmoved,
    MovesDone, UpdateTransaction, Commit, FinishFails
<1>4. CASE Observe \/ FinishClears \/ Clean \/ Crash
  BY <1>4, <1>v, <1>h, BoundsAssumption DEF HistoryOK, Observe, Works, Fault,
    FinishFails, Return, RollBack, FinishClears, Clean, Crash
<1>5. CASE StageArchive
  <2>1. PICK U \in Snapshots \ {{}} : Begins(Of(Archived, U))
    BY <1>5 DEF StageArchive
  <2> QED
    BY <1>5, <2>1, <1>v, <1>h, BoundsAssumption
    DEF HistoryOK, StageArchive, Works, Fault, Return, Begins
<1>6. CASE UndoIntoRoot
  <2>1. PICK q \in Dirs :
          Begins([u \in Units |->
                    IF u \in listed[q] THEN disk[q][u] ELSE disk[Root][u]])
    BY <1>6 DEF UndoIntoRoot
  <2>2. pre' \in Copies /\ post' \in Copies
    BY <2>1, <1>v DEF Begins, Copies
  <2> QED BY <1>6, <2>2, <1>h DEF HistoryOK, UndoIntoRoot
<1>7. CASE PlayGame
  <2>1. PICK U \in Snapshots \ {{}} :
          /\ disk' = [disk EXCEPT ![Root] =
                        [u \in Units |-> IF u \in U THEN 3 + plays ELSE @[u]]]
          /\ kept' = (kept \ {<<u, disk[Root][u]>> : u \in U})
                       \union {<<u, 3 + plays>> : u \in U}
    BY <1>7 DEF PlayGame
  <2>2. 3 + plays \in Versions /\ plays' \in 0..MaxPlays
    BY <1>7, <1>h, BoundsAssumption DEF PlayGame, HistoryOK, Versions
  <2>3. disk'[Root] \in Copies BY <2>1, <2>2, <1>v, <1>h DEF FilesOK, Copies
  <2>4. kept' \subseteq Units \X Versions
    BY <2>1, <2>2, <1>h DEF HistoryOK, Snapshots
  <2> QED BY <1>7, <2>2, <2>3, <2>4, <1>h DEF HistoryOK, PlayGame
<1>8. CASE UNCHANGED vars
  BY <1>8, <1>v, <1>h DEF vars, HistoryOK
<1> QED
  BY <1>1, <1>2, <1>3, <1>4, <1>5, <1>6, <1>7, <1>8 DEF Next

\* The files.
\* Renames, new and removed directories, and the journals written.
LEMMA FilesStep ==
  ASSUME TypeOK, [Next]_vars
  PROVE  FilesOK'
<1>h. FilesOK /\ ProcessOK /\ HistoryOK BY DEF TypeOK
<1>v. /\ Root \in Places /\ Dirs \subseteq Places /\ NoJournal \in Journals
      /\ \A p \in Places : disk[p] \in Copies /\ Held(p) \subseteq Units
      /\ Empty \in Copies /\ \A U : Of(Archived, U) \in Copies
  BY <1>h, ValuesTyped
<1>1. CASE (\E o \in {"recover", "restore", "reset", "undo"} : Call(o))
           \/ Recover \/ RecoveryFails \/ ReconcileSkip \/ ReconcileStops
           \/ ReconcileNext \/ Check \/ RecoveryClears
  BY <1>1, <1>h, <1>v DEF FilesOK, Call, Recover, RecoveryFails, ReconcileSkip,
    ReconcileStops, ReconcileNext, Check, RecoveryClears, Works, Fault
<1>2. CASE ReturnRecovery \/ FinishRecovered \/ StartReset \/ UndoRefuses
           \/ UndoIntoRoot \/ Begin \/ MoveFails \/ Unmoved
  BY <1>2, <1>h, <1>v DEF FilesOK, ReturnRecovery, FinishRecovered, StartReset,
    UndoRefuses, UndoIntoRoot, ProcessOK, Begin, MoveFails, Unmoved
<1>3. CASE MovesDone \/ UpdateTransaction \/ Observe \/ FinishClears \/ Clean
           \/ Crash
  BY <1>3, <1>h, <1>v DEF FilesOK, MovesDone, ProcessOK, UpdateTransaction,
    Observe, FinishClears, Clean, Crash
<1>4. CASE ReconcileRename
  <2>1. First(left) \in Units
    BY <1>4, <1>h, FirstIsMember DEF ReconcileRename, ProcessOK
  <2>2. disk' \in [Places -> Copies]
    BY <1>4, <2>1, <1>h, RenameTyped, ShapesTyped
    DEF ReconcileRename, FilesOK, ProcessOK, LegFrom, LegTo
  <2> QED BY <1>4, <2>2, <1>h DEF FilesOK, ReconcileRename
<1>5. CASE ReturnFailure
  BY <1>5, <1>h, <1>v DEF FilesOK, ReturnFailure
<1>6. CASE StageArchive
  BY <1>6, <1>h, <1>v DEF FilesOK, StageArchive, Free
<1>7. CASE QuarantineCurrent
  <2>1. kind' \in [Dirs -> {"unused", "staging", "reset", "restore", "removed"}]
    BY <1>7, <1>h DEF FilesOK, QuarantineCurrent, CreateQuarantine, Free
  <2>2. listed' \in [Dirs -> SUBSET Units]
    BY <1>7, <1>h, <1>v DEF FilesOK, QuarantineCurrent, CreateQuarantine, Free
  <2>3. disk' \in [Places -> Copies]
    BY <1>7, <1>h, <1>v DEF FilesOK, QuarantineCurrent, CreateQuarantine
  <2> QED
    BY <1>7, <2>1, <2>2, <2>3, <1>h
    DEF FilesOK, QuarantineCurrent, CreateQuarantine
<1>8. CASE UndoBySwap
  <2>1. kind' \in [Dirs -> {"unused", "staging", "reset", "restore", "removed"}]
    BY <1>8, <1>h DEF FilesOK, UndoBySwap, CreateQuarantine, Free
  <2>2. listed' \in [Dirs -> SUBSET Units]
    BY <1>8, <1>h, <1>v DEF FilesOK, UndoBySwap, CreateQuarantine, Free
  <2>3. disk' \in [Places -> Copies]
    BY <1>8, <1>h, <1>v DEF FilesOK, UndoBySwap, CreateQuarantine
  <2> QED
    BY <1>8, <2>1, <2>2, <2>3, <1>h DEF FilesOK, UndoBySwap, CreateQuarantine
<1>9. CASE MoveUnit
  <2>1. First(left) \in Units
    BY <1>9, <1>h, FirstIsMember DEF MoveUnit, ProcessOK
  <2>2. disk' \in [Places -> Copies]
    BY <1>9, <2>1, <1>h, RenameTyped, ShapesTyped
    DEF MoveUnit, FilesOK, ProcessOK, MoveFrom, MoveTo
  <2> QED BY <1>9, <2>2, <1>h DEF FilesOK, MoveUnit
<1>10. CASE Unmove
  <2>1. Last(moved) \in Units BY <1>10, <1>h, FirstIsMember DEF Unmove, ProcessOK
  <2>2. disk' \in [Places -> Copies]
    BY <1>10, <2>1, <1>h, RenameTyped, ShapesTyped
    DEF Unmove, FilesOK, ProcessOK, MoveFrom, MoveTo
  <2> QED BY <1>10, <2>2, <1>h DEF FilesOK, Unmove
<1>11. CASE Commit
  <2>1. Committed(journal) \in Journals
    BY <1>h DEF Committed, FilesOK, Journals
  <2> QED BY <1>11, <2>1, <1>h DEF FilesOK, Commit
<1>12. CASE PlayGame
  <2>1. 3 + plays \in Versions
    BY <1>12, <1>h, BoundsAssumption DEF PlayGame, HistoryOK, Versions
  <2>2. disk' \in [Places -> Copies]
    BY <1>12, <2>1, <1>h, <1>v DEF FilesOK, PlayGame, Copies
  <2> QED BY <1>12, <2>2, <1>h DEF FilesOK, PlayGame
<1>13. CASE UNCHANGED vars
  BY <1>13, <1>h, <1>v DEF vars, FilesOK
<1> QED
  BY <1>1, <1>2, <1>3, <1>4, <1>5, <1>6, <1>7, <1>8, <1>9, <1>10, <1>11, <1>12,
    <1>13 DEF Next

\* The process.
LEMMA ProcessStep ==
  ASSUME TypeOK, [Next]_vars
  PROVE  ProcessOK'
<1>h. FilesOK /\ ProcessOK /\ HistoryOK BY DEF TypeOK
<1>v. /\ Root \in Places /\ Dirs \subseteq Places /\ NoJournal \in Journals
      /\ \A p \in Places : disk[p] \in Copies /\ Held(p) \subseteq Units
      /\ Empty \in Copies /\ \A U : Of(Archived, U) \in Copies
  BY <1>h, ValuesTyped
<1>1. CASE (\E o \in {"recover", "restore", "reset", "undo"} : Call(o))
           \/ RecoveryFails \/ ReconcileSkip \/ ReconcileStops
           \/ ReconcileRename \/ Check \/ RecoveryClears \/ ReturnRecovery
  BY <1>1, <1>h, <1>v DEF ProcessOK, Call, RecoveryFails, Fault, ReconcileSkip,
    ReconcileStops, ReconcileRename, Works, Check, RecoveryClears,
    ReturnRecovery, Return
<1>2. CASE ReturnFailure \/ FinishRecovered \/ StartReset \/ UndoRefuses
           \/ MoveFails \/ Unmove \/ Unmoved \/ Commit
  BY <1>2, <1>h, <1>v DEF ProcessOK, ReturnFailure, Return, FinishRecovered,
    FinishFails, StartReset, Begins, UndoRefuses, MoveFails, Works, Fault,
    Unmove, Unmoved, RollBack, Commit
<1>3. CASE Observe \/ FinishClears \/ Clean \/ Crash \/ PlayGame
  BY <1>3, <1>h, <1>v DEF ProcessOK, Observe, Works, Fault, FinishFails, Return,
    RollBack, FinishClears, Clean, Crash, PlayGame
<1>4. CASE Recover
  <2>1. Leg(journal, 1).units \subseteq Units BY <1>h, ShapesTyped DEF FilesOK
  <2> QED BY <1>4, <2>1, <1>h DEF ProcessOK, Recover
<1>5. CASE ReconcileNext
  <2>1. leg' \in 1..2 /\ (leg < LastLeg(journal) => leg + 1 \in 1..2)
    BY <1>5, <1>h DEF ReconcileNext, LastLeg, ProcessOK
  <2>2. leg < LastLeg(journal) => Leg(journal, leg + 1).units \subseteq Units
    BY <2>1, <1>h, ShapesTyped DEF FilesOK
  <2> QED BY <1>5, <2>1, <2>2, <1>h DEF ProcessOK, ReconcileNext
<1>6. CASE StageArchive
  <2>1. tx' \in Journals
    BY <1>6, <1>h, <1>v
    DEF StageArchive, Record, Journals, Modes, Snapshots, Free, ProcessOK
  <2> QED
    BY <1>6, <2>1, <1>h, <1>v DEF ProcessOK, StageArchive, Return, Free
<1>7. CASE QuarantineCurrent
  <2>1. tx' \in Journals
    BY <1>7, <1>h, <1>v
    DEF QuarantineCurrent, CreateQuarantine, Record, Journals, Modes,
      Snapshots, Free, ProcessOK
  <2> QED
    BY <1>7, <2>1, <1>h, <1>v
    DEF ProcessOK, QuarantineCurrent, CreateQuarantine, Return
<1>8. CASE UndoIntoRoot
  <2>1. tx' \in Journals
    BY <1>8, <1>h, <1>v
    DEF UndoIntoRoot, Record, Journals, Modes, Snapshots, FilesOK
  <2> QED
    BY <1>8, <2>1, <1>h, <1>v DEF ProcessOK, UndoIntoRoot
<1>9. CASE UndoBySwap
  <2>1. tx' \in Journals
    BY <1>9, <1>h, <1>v
    DEF UndoBySwap, CreateQuarantine, Record, Journals, Modes, Snapshots, Free,
      ProcessOK, FilesOK
  <2> QED
    BY <1>9, <2>1, <1>h, <1>v DEF ProcessOK, UndoBySwap, CreateQuarantine, Return
<1>10. CASE Begin
  <2>1. Forward(tx).units \subseteq Units BY <1>h, ShapesTyped DEF ProcessOK
  <2> QED BY <1>10, <2>1, <1>h DEF ProcessOK, Begin, StartMoves, RollBack, Return
<1>11. CASE MoveUnit
  <2>1. First(left) \in Units
    BY <1>11, <1>h, FirstIsMember
    DEF MoveUnit, ProcessOK
  <2> QED BY <1>11, <2>1, <1>h DEF ProcessOK, MoveUnit
<1>12. CASE MovesDone
  <2>1. tx' \in Journals
    BY <1>12, <1>h, <1>v
    DEF MovesDone, NextPhase, Record, ProcessOK, Journals, Modes
  <2> QED BY <1>12, <2>1, <1>h DEF ProcessOK, MovesDone
<1>13. CASE UpdateTransaction
  <2>1. Forward(tx).units \subseteq Units BY <1>h, ShapesTyped DEF ProcessOK
  <2> QED
    BY <1>13, <2>1, <1>h
    DEF ProcessOK, UpdateTransaction, StartMoves, RollBack
<1>14. CASE UNCHANGED vars
  BY <1>14, <1>h, <1>v DEF vars, ProcessOK
<1> QED
  BY <1>1, <1>2, <1>3, <1>4, <1>5, <1>6, <1>7, <1>8, <1>9, <1>10, <1>11, <1>12,
    <1>13, <1>14 DEF Next

\* Type correctness: whatever fails and wherever the process dies, the state has
\* the shape that the code's records, directories and loops have.
THEOREM TypeCorrect == Spec => []TypeOK
<1>1. TypeOK /\ [Next]_vars => TypeOK'
  BY FilesStep, ProcessStep, HistoryStep, FlagsStep DEF TypeOK
<1> QED BY FirstStep, <1>1, PTL DEF Spec

-----------------------------------------------------------------------------
(* Nothing is lost.                                                        *)

\* The game's own copies are not those of an archive, which is all that a staging
\* directory holds.
KeptOK == \A c \in kept : c[2] > Archived
DirsOK == \A d \in Dirs :
  /\ kind[d] = "unused" => disk[d] = Empty
  /\ kind[d] = "staging" => \A u \in Units : disk[d][u] \in {Nothing, Archived}

\* What a transaction says of its directories.  Until an install is over each unit
\* it installs is in its staging directory or below the root: no other save is
\* ever moved into a staging directory.
ArchiveSafe(j) ==
  \A u \in j.units1 : disk[j.first][u] = Archived \/ disk[Root][u] = Archived
JournalOK(j) ==
  /\ j.mode # "none" => j.first \in Dirs
  /\ j.mode \in {"quarantine", "undo", "displace", "swap"} => IsQuarantine(j.first)
  /\ j.mode \in {"displace", "swap"} => j.second \in Dirs /\ IsQuarantine(j.second)
  /\ j.mode = "install" =>
       /\ kind[j.first] = "staging"
       /\ j.second # Root => IsQuarantine(j.second)
       /\ ArchiveSafe(j)

\* What the process knows of its transaction, its directory and the journal.
Recovering ==
  pc \in {"recover", "reconcile", "check", "clear", "stopped", "recovered"}
TransactionOK ==
  /\ pc \in {"begin", "phase"} => JournalOK(tx)
  /\ pc \in {"begin", "phase", "move", "unmove"} => tx.mode # "none"
  /\ pc = "phase" => tx.mode \in {"install", "swap"}
  /\ pc # "idle" /\ op = "undo" => tx.mode # "quarantine" /\ pc # "quarantine"
  /\ pc \in {"move", "unmove"} => journal = tx
  /\ pc \in {"recovered", "quarantine", "begin", "clean"} => journal = NoJournal
  /\ Recovering /\ then \in {"fail", "drop"} /\ tx.mode = "quarantine" =>
       journal \in {NoJournal, tx}
DirectoryOK ==
  /\ pc # "idle" /\ op # "undo" /\ dir # Root => kind[dir] = "staging"
  /\ pc \in {"quarantine", "begin", "move", "phase"} /\ op = "restore" => dir # Root
DropOK ==
  (Recovering /\ then = "drop") \/ (pc = "begin" /\ tx.mode = "quarantine") =>
    tx.mode = "quarantine" /\ tx.first \in Dirs /\ disk[tx.first] = Empty
LoopsOK ==
  /\ pc \in {"move", "unmove"} => left \union moved \subseteq Forward(tx).units
  /\ pc = "reconcile" => left \subseteq Leg(journal, leg).units

IInv == /\ TypeOK /\ NothingLost /\ KeptOK /\ DirsOK /\ JournalOK(journal)
        /\ TransactionOK /\ DirectoryOK /\ DropOK /\ LoopsOK

\* A rename loses no copy, unless it is one of the game's that goes to staging.
Harmless(from, to, u) ==
  /\ from \in Places /\ to \in Places /\ u \in Units
  /\ CanRename(from, to, u)
  /\ \/ to = Root \/ (to \in Dirs /\ IsQuarantine(to))
     \/ to \in Dirs /\ kind[to] = "staging" /\ disk[from][u] = Archived

\* A harmless rename keeps each copy in a place where it is safe.
LEMMA HarmlessRename ==
  ASSUME TypeOK, NothingLost, KeptOK, DirsOK,
         NEW from, NEW to, NEW u, Harmless(from, to, u), Rename(from, to, u),
         UNCHANGED <<kind, kept>>
  PROVE  NothingLost' /\ KeptOK' /\ DirsOK'
<1>1. Root \in Places /\ Dirs \subseteq Places /\ Root \notin Dirs
  BY BoundsAssumption DEF Root, Places, Dirs
<1>2. FilesOK /\ HistoryOK BY DEF TypeOK
<1>3. from # to BY DEF Harmless, CanRename
<1>4. \A p \in Places, v \in Units : disk'[p][v] =
        IF p = to /\ v = u THEN disk[from][u]
        ELSE IF p = from /\ v = u THEN Nothing ELSE disk[p][v]
  BY <1>2, <1>3 DEF Rename, FilesOK, Copies, Harmless
<1>5. disk[from][u] # Nothing /\ disk[to][u] = Nothing /\ Archived # Nothing
  BY DEF Harmless, CanRename, Archived, Nothing
<1>6. KeptOK' BY DEF KeptOK
<1>7. NothingLost'
  <2> SUFFICES ASSUME NEW c \in kept
               PROVE  \E p \in Places :
                        disk'[p][c[1]] = c[2] /\ (p = Root \/ IsQuarantine(p))
    BY DEF NothingLost, IsQuarantine
  <2>1. c[1] \in Units /\ c[2] # Nothing /\ c[2] # Archived
    BY <1>2, BoundsAssumption
    DEF KeptOK, HistoryOK, Nothing, Archived, Versions
  <2>2. PICK p \in Places : disk[p][c[1]] = c[2] /\ (p = Root \/ IsQuarantine(p))
    BY DEF NothingLost
  <2>3. CASE p = from /\ c[1] = u
    <3>1. disk'[to][u] = c[2] BY <2>2, <2>3, <1>4, <1>1 DEF Harmless
    <3>2. to = Root \/ IsQuarantine(to) BY <2>1, <2>2, <2>3 DEF Harmless
    <3> QED BY <3>1, <3>2, <2>3 DEF Harmless
  <2>4. CASE ~(p = from /\ c[1] = u)
    BY <2>1, <2>2, <2>4, <1>4, <1>5 DEF Harmless
  <2> QED BY <2>3, <2>4
<1>8. DirsOK'
  <2> SUFFICES ASSUME NEW d \in Dirs
               PROVE  /\ kind[d] = "unused" => disk'[d] = Empty
                      /\ kind[d] = "staging" =>
                           \A v \in Units : disk'[d][v] \in {Nothing, Archived}
    BY DEF DirsOK
  <2>1. ASSUME kind[d] = "unused" PROVE disk'[d] = Empty
    <3>1. disk[d] = Empty /\ d # from
      BY <2>1, <1>5 DEF DirsOK, Harmless, Empty
    <3>2. d # to BY <2>1, <1>1 DEF Harmless, IsQuarantine
    <3> QED BY <3>1, <3>2, <1>1, <1>2 DEF Rename, FilesOK
  <2>2. ASSUME kind[d] = "staging", NEW v \in Units
        PROVE  disk'[d][v] \in {Nothing, Archived}
    BY <2>2, <1>1, <1>4 DEF DirsOK, Harmless, IsQuarantine
  <2> QED BY <2>1, <2>2
<1> QED BY <1>6, <1>7, <1>8

\* The moves of a transaction and of its rollback are such renames, and keep what
\* the transaction says.
Moves(j, from, to, u) ==
  \/ from = Forward(j).from /\ to = Forward(j).to /\ u \in Forward(j).units
  \/ /\ from = Forward(j).to /\ to = Forward(j).from /\ u \in Forward(j).units
     /\ j.mode # "none"
  \/ \E n \in 1..2 :
       from = Leg(j, n).from /\ to = Leg(j, n).to /\ u \in Leg(j, n).units

\* Where a transaction's moves and legs may lead, by its mode.
LEMMA MovesShape ==
  ASSUME NEW j \in Journals, NEW from, NEW to, NEW u, Moves(j, from, to, u)
  PROVE  /\ from \in Places /\ to \in Places /\ u \in Units
         /\ \/ to = Root
            \/ to = j.first /\ j.mode \in {"quarantine", "displace", "undo"}
            \/ to = j.second /\ j.mode = "swap"
            \/ to = j.first /\ from = Root /\ u \in j.units1 /\ j.mode = "install"
         /\ j.mode = "install" /\ to = Root => from \in {j.first, j.second}
<1>1. from \in Places /\ to \in Places /\ u \in Units
  BY ShapesTyped DEF Moves
<1>2. \/ to = Root
      \/ to = j.first /\ j.mode \in {"quarantine", "displace", "undo"}
      \/ to = j.second /\ j.mode = "swap"
      \/ to = j.first /\ from = Root /\ u \in j.units1 /\ j.mode = "install"
  <2>1. CASE from = Forward(j).from /\ to = Forward(j).to /\ u \in Forward(j).units
    BY <2>1 DEF Forward, Journals, Modes
  <2>2. CASE /\ from = Forward(j).to /\ to = Forward(j).from
             /\ u \in Forward(j).units /\ j.mode # "none"
    BY <2>2 DEF Forward, Journals, Modes
  <2>3. ASSUME NEW n \in 1..2, from = Leg(j, n).from, to = Leg(j, n).to,
               u \in Leg(j, n).units
        PROVE  <1>2!1 \/ <1>2!2 \/ <1>2!3 \/ <1>2!4
    BY <2>3 DEF Leg, Back, Journals, Modes
  <2> QED BY <2>1, <2>2, <2>3 DEF Moves
<1>3. j.mode = "install" /\ to = Root => from \in {j.first, j.second}
  BY DEF Moves, Forward, Leg, Back
<1> QED BY <1>1, <1>2, <1>3

\* The renames of a transaction, forwards and back, are harmless.
LEMMA TransactionMove ==
  ASSUME TypeOK, NothingLost, KeptOK, DirsOK, NEW j \in Journals, JournalOK(j),
         NEW from, NEW to, NEW u, Moves(j, from, to, u),
         CanRename(from, to, u), Rename(from, to, u), UNCHANGED <<kind, kept>>
  PROVE  /\ NothingLost' /\ KeptOK' /\ DirsOK'
         /\ j.mode = "install" =>
              \A v \in j.units1 :
                disk'[j.first][v] = Archived \/ disk'[Root][v] = Archived
<1>1. /\ from \in Places /\ to \in Places /\ u \in Units
      /\ \/ to = Root
         \/ to = j.first /\ j.mode \in {"quarantine", "displace", "undo"}
         \/ to = j.second /\ j.mode = "swap"
         \/ to = j.first /\ from = Root /\ u \in j.units1 /\ j.mode = "install"
      /\ j.mode = "install" /\ to = Root => from \in {j.first, j.second}
  BY MovesShape
<1>2. Harmless(from, to, u)
  BY <1>1 DEF Harmless, JournalOK, ArchiveSafe, CanRename, Archived, Nothing
<1>3. NothingLost' /\ KeptOK' /\ DirsOK' BY <1>2, HarmlessRename
<1>4. Root \in Places /\ Dirs \subseteq Places /\ Root \notin Dirs
  BY BoundsAssumption DEF Root, Places, Dirs
<1>5. \A p \in Places, v \in Units : disk'[p][v] =
        IF p = to /\ v = u THEN disk[from][u]
        ELSE IF p = from /\ v = u THEN Nothing ELSE disk[p][v]
  BY <1>1 DEF Rename, TypeOK, FilesOK, Copies, CanRename
<1>6. ASSUME j.mode = "install", NEW v \in j.units1
      PROVE  disk'[j.first][v] = Archived \/ disk'[Root][v] = Archived
  <2>1. j.first \in Dirs /\ j.second \in Places /\ v \in Units
    BY <1>6 DEF JournalOK, Journals
  <2>2. j.second # j.first
    BY <1>6, <1>4, <2>1 DEF JournalOK, IsQuarantine
  <2>3. disk[j.first][v] = Archived \/ disk[Root][v] = Archived
    BY <1>6 DEF JournalOK, ArchiveSafe
  <2>4. disk[from][u] # Nothing /\ disk[to][u] = Nothing /\ Archived # Nothing
    BY DEF CanRename, Archived, Nothing
  <2>5. CASE v # u BY <2>1, <2>3, <2>5, <1>4, <1>5
  <2>6. CASE v = u /\ to = Root
    BY <2>1, <2>2, <2>3, <2>4, <2>6, <1>1, <1>4, <1>5, <1>6
  <2>7. CASE v = u /\ to # Root
    <3>1. from = Root /\ to = j.first BY <1>1, <1>6, <2>7
    <3> QED BY <3>1, <2>1, <2>3, <2>4, <2>7, <1>4, <1>5
  <2> QED BY <2>5, <2>6, <2>7
<1> QED BY <1>3, <1>6

\* Few steps change the files: the others leave them alone or write the journal.
DiskStep ==
  \/ ReconcileRename \/ ReturnFailure \/ StageArchive \/ QuarantineCurrent
  \/ UndoBySwap \/ MoveUnit \/ Unmove \/ Clean \/ PlayGame
JournalStep ==
  /\ UNCHANGED <<disk, kind, kept>>
  /\ \/ journal' \in {journal, NoJournal, Committed(journal)}
     \/ pc \in {"begin", "phase"} /\ journal' = tx

\* What each step may do to the disk and the journal.
LEMMA StepKinds ==
  ASSUME [Next]_vars
  PROVE  DiskStep \/ JournalStep
<1>1. CASE (\E o \in {"recover", "restore", "reset", "undo"} : Call(o))
           \/ Recover \/ RecoveryFails \/ ReconcileSkip \/ ReconcileStops
           \/ ReconcileNext \/ Check \/ RecoveryClears
  BY <1>1 DEF JournalStep, Call, Recover, RecoveryFails, ReconcileSkip,
    ReconcileStops, ReconcileNext, Check, RecoveryClears
<1>2. CASE ReturnRecovery \/ FinishRecovered \/ StartReset \/ UndoRefuses
           \/ UndoIntoRoot \/ Begin \/ MoveFails \/ Unmoved
  BY <1>2 DEF JournalStep, ReturnRecovery, FinishRecovered, StartReset,
    UndoRefuses, UndoIntoRoot, Begin, MoveFails, Unmoved
<1>3. CASE MovesDone \/ UpdateTransaction \/ Commit \/ Observe \/ FinishClears
           \/ Crash
  BY <1>3 DEF JournalStep, MovesDone, UpdateTransaction, Commit, Observe,
    FinishClears, Crash
<1>4. CASE UNCHANGED vars
  BY <1>4 DEF vars, JournalStep
<1> QED
  BY <1>1, <1>2, <1>3, <1>4 DEF Next, DiskStep

\* A directory with none of the game's copies may go.
LEMMA HarmlessRemoval ==
  ASSUME TypeOK, NothingLost, KeptOK, DirsOK, NEW G \in SUBSET Dirs,
         \A d \in G, v \in Units : disk[d][v] \in {Nothing, Archived},
         disk' = [p \in Places |-> IF p \in G THEN Empty ELSE disk[p]],
         kind' = [d \in Dirs |-> IF d \in G THEN "removed" ELSE kind[d]],
         UNCHANGED kept
  PROVE  NothingLost' /\ KeptOK' /\ DirsOK'
<1>1. KeptOK' BY DEF KeptOK
<1>2. DirsOK' BY BoundsAssumption DEF DirsOK, Places, Dirs
<1>3. NothingLost'
  <2> SUFFICES ASSUME NEW c \in kept
               PROVE  \E p \in Places :
                        disk'[p][c[1]] = c[2] /\ (p = Root \/ IsQuarantine(p)')
    BY DEF NothingLost
  <2>1. c[1] \in Units /\ c[2] # Nothing /\ c[2] # Archived
    BY BoundsAssumption
    DEF KeptOK, TypeOK, HistoryOK, Nothing, Archived, Versions
  <2>2. PICK p \in Places : disk[p][c[1]] = c[2] /\ (p = Root \/ IsQuarantine(p))
    BY DEF NothingLost
  <2>3. p \notin G BY <2>1, <2>2
  <2>4. p = Root \/ p \in Dirs BY BoundsAssumption DEF Root, Places, Dirs
  <2> QED BY <2>2, <2>3, <2>4 DEF IsQuarantine
<1> QED BY <1>1, <1>2, <1>3

\* An unused directory may become another one.
LEMMA HarmlessCreation ==
  ASSUME TypeOK, NothingLost, KeptOK, DirsOK, NEW d \in Free, NEW k, NEW U,
         \/ k \in {"reset", "restore", "removed"} /\ disk' = disk
         \/ k = "staging" /\ disk' = [disk EXCEPT ![d] = Of(Archived, U)],
         kind' = [kind EXCEPT ![d] = k], UNCHANGED kept
  PROVE  NothingLost' /\ KeptOK' /\ DirsOK'
<1>1. KeptOK' BY DEF KeptOK
<1>2. Dirs \subseteq Places /\ Root \notin Dirs
  BY BoundsAssumption DEF Root, Places, Dirs
<1>3. d \in Dirs /\ kind[d] = "unused" /\ disk[d] = Empty BY DEF Free, DirsOK
<1>4. DirsOK'
  BY <1>2, <1>3 DEF DirsOK, TypeOK, FilesOK, Of, Archived, Nothing
<1>5. NothingLost'
  <2> SUFFICES ASSUME NEW c \in kept
               PROVE  \E p \in Places :
                        disk'[p][c[1]] = c[2] /\ (p = Root \/ IsQuarantine(p)')
    BY DEF NothingLost
  <2>1. PICK p \in Places : disk[p][c[1]] = c[2] /\ (p = Root \/ IsQuarantine(p))
    BY DEF NothingLost
  <2>2. p # d BY <2>1, <1>2, <1>3 DEF IsQuarantine
  <2>3. disk'[p] = disk[p] BY <2>2, <1>2, <1>3 DEF TypeOK, FilesOK
  <2>4. IsQuarantine(p) => IsQuarantine(p)'
    BY <2>2, <1>3 DEF IsQuarantine, TypeOK, FilesOK
  <2> QED BY <2>1, <2>3, <2>4
<1> QED BY <1>1, <1>4, <1>5

\* The files stay safe through every step, and the journal right.
LEMMA SafeStep ==
  ASSUME IInv, [Next]_vars
  PROVE  NothingLost' /\ KeptOK' /\ DirsOK' /\ JournalOK(journal)'
<1>1. /\ TypeOK /\ NothingLost /\ KeptOK /\ DirsOK /\ JournalOK(journal)
      /\ TransactionOK /\ DirectoryOK /\ DropOK /\ LoopsOK
      /\ FilesOK /\ ProcessOK /\ HistoryOK
  BY DEF IInv, TypeOK
<1>2. /\ Root \in Places /\ Dirs \subseteq Places /\ Root \notin Dirs
      /\ \A p \in Places : p = Root \/ p \in Dirs
  BY BoundsAssumption DEF Root, Places, Dirs
<1>3. CASE JournalStep
  <2>1. JournalOK(journal)'
    BY <1>3, <1>1
    DEF JournalStep, JournalOK, ArchiveSafe, IsQuarantine, TransactionOK,
      NoJournal, Committed, FilesOK, Journals
  <2> QED
    BY <1>3, <1>1, <2>1
    DEF JournalStep, NothingLost, KeptOK, DirsOK, IsQuarantine
<1>4. CASE ReconcileRename
  <2>1. Moves(journal, LegFrom, LegTo, First(left))
    BY <1>4, <1>1, FirstIsMember
    DEF ReconcileRename, Moves, LegFrom, LegTo, LoopsOK, ProcessOK
  <2> QED
    BY <1>4, <2>1, <1>1, TransactionMove
    DEF ReconcileRename, JournalOK, ArchiveSafe, IsQuarantine, FilesOK
<1>5. CASE MoveUnit
  <2>1. Moves(journal, MoveFrom, MoveTo, First(left))
    BY <1>5, <1>1, FirstIsMember
    DEF MoveUnit, Moves, MoveFrom, MoveTo, LoopsOK, TransactionOK, ProcessOK
  <2>2. UNCHANGED journal BY <1>5 DEF MoveUnit
  <2> QED
    BY <1>5, <2>1, <2>2, <1>1, TransactionMove
    DEF MoveUnit, JournalOK, ArchiveSafe, IsQuarantine, FilesOK
<1>6. CASE Unmove
  <2>1. Moves(journal, MoveTo, MoveFrom, Last(moved))
    BY <1>6, <1>1, FirstIsMember
    DEF Unmove, Moves, MoveFrom, MoveTo, LoopsOK, TransactionOK, ProcessOK
  <2>2. UNCHANGED <<journal, kind, kept>> BY <1>6 DEF Unmove
  <2>3. CASE UNCHANGED disk
    BY <2>2, <2>3, <1>1
    DEF NothingLost, KeptOK, DirsOK, JournalOK, ArchiveSafe, IsQuarantine
  <2>4. CASE CanRename(MoveTo, MoveFrom, Last(moved))
             /\ Rename(MoveTo, MoveFrom, Last(moved))
    BY <2>1, <2>2, <2>4, <1>1, TransactionMove
    DEF JournalOK, ArchiveSafe, IsQuarantine, FilesOK
  <2> QED BY <1>6, <2>3, <2>4 DEF Unmove
<1>7. CASE ReturnFailure
  <2> DEFINE gone == {d \in Dirs :
                        \/ (d = dir /\ FailedStagingGoes)
                        \/ (d = tx.first /\ then = "drop" /\ pc = "recovered")}
  <2>1. /\ disk' = [p \in Places |-> IF p \in gone THEN Empty ELSE disk[p]]
        /\ kind' = [d \in Dirs |-> IF d \in gone THEN "removed" ELSE kind[d]]
        /\ UNCHANGED <<kept, journal>> /\ pc \in {"recovered", "stopped"}
        /\ then \in {"fail", "drop"}
    BY <1>7 DEF ReturnFailure, Recovered
  <2>2. \A d \in gone, v \in Units : disk[d][v] \in {Nothing, Archived}
    <3> SUFFICES ASSUME NEW d \in gone, NEW v \in Units
                 PROVE  disk[d][v] \in {Nothing, Archived}
      OBVIOUS
    <3>1. CASE d = dir /\ FailedStagingGoes
      BY <3>1, <2>1, <1>1, <1>2 DEF FailedStagingGoes, DirectoryOK, DirsOK
    <3>2. CASE d = tx.first /\ then = "drop" /\ pc = "recovered"
      BY <3>2, <1>1 DEF DropOK, Recovering, Empty
    <3> QED BY <3>1, <3>2
  <2>3. NothingLost' /\ KeptOK' /\ DirsOK'
    <3> gone \in SUBSET Dirs OBVIOUS
    <3> HIDE DEF gone
    <3> QED BY <2>1, <2>2, <1>1, HarmlessRemoval
  <2>4. JournalOK(journal)'
    <3>1. CASE journal = NoJournal BY <3>1, <2>1 DEF JournalOK, NoJournal
    <3>2. CASE journal # NoJournal
      <4>1. pc = "stopped" BY <3>2, <2>1, <1>1 DEF TransactionOK
      <4>2. gone = {} \/ (gone = {dir} /\ journal = tx /\ tx.mode = "quarantine"
                            /\ kind[dir] = "staging")
        BY <4>1, <3>2, <2>1, <1>1, <1>2
        DEF FailedStagingGoes, TransactionOK, DirectoryOK, Recovering
      <4>3. CASE gone = {}
        BY <4>3, <2>1, <1>1, <1>2
        DEF JournalOK, ArchiveSafe, IsQuarantine, FilesOK, Journals
      <4>4. CASE gone = {dir} /\ journal = tx /\ tx.mode = "quarantine"
                   /\ kind[dir] = "staging"
        BY <4>4, <2>1, <1>1, <1>2 DEF JournalOK, IsQuarantine, FilesOK
      <4> QED BY <4>2, <4>3, <4>4
    <3> QED BY <3>1, <3>2
  <2> QED BY <2>3, <2>4
<1>8. CASE StageArchive
  <2>1. PICK U \in Snapshots \ {{}}, d \in Free :
          /\ \/ /\ kind' = [kind EXCEPT ![d] = "staging"]
                /\ disk' = [disk EXCEPT ![d] = Of(Archived, U)]
             \/ kind' = [kind EXCEPT ![d] = "removed"] /\ UNCHANGED disk
    BY <1>8 DEF StageArchive
  <2>2. UNCHANGED <<kept, journal>> /\ journal = NoJournal
    BY <1>8, <1>1 DEF StageArchive, Ready, TransactionOK
  <2>3. NothingLost' /\ KeptOK' /\ DirsOK'
    BY <2>1, <2>2, <1>1, HarmlessCreation
  <2> QED BY <2>2, <2>3 DEF JournalOK, NoJournal
<1>9. ASSUME NEW k \in {"reset", "restore"}, NEW record,
             CreateQuarantine(k, record),
             pc = "quarantine" \/ (pc = "recovered" /\ op = "undo")
      PROVE  NothingLost' /\ KeptOK' /\ DirsOK' /\ JournalOK(journal)'
  <2>1. PICK d \in Free :
          \/ kind' = [kind EXCEPT ![d] = k] /\ UNCHANGED disk
          \/ /\ op = "restore"
             /\ kind' = [kind EXCEPT ![d] = "removed", ![dir] = "removed"]
             /\ disk' = [disk EXCEPT ![dir] = Empty]
          \/ kind' = [kind EXCEPT ![d] = "removed"] /\ UNCHANGED disk
    BY <1>9 DEF CreateQuarantine
  <2>2. UNCHANGED <<kept, journal>> /\ journal = NoJournal
    BY <1>9, <1>1 DEF CreateQuarantine, TransactionOK
  <2>3. CASE op = "restore"
             /\ kind' = [kind EXCEPT ![d] = "removed", ![dir] = "removed"]
             /\ disk' = [disk EXCEPT ![dir] = Empty]
    <3>1. d \in Dirs /\ disk[d] = Empty BY <1>1 DEF Free, DirsOK
    <3>2. dir \in Dirs /\ kind[dir] = "staging"
      BY <1>9, <2>3, <1>1, <1>2 DEF DirectoryOK, ProcessOK
    <3>3. disk' = [p \in Places |-> IF p \in {d, dir} THEN Empty ELSE disk[p]]
      BY <2>3, <3>1, <3>2, <1>1, <1>2 DEF FilesOK
    <3>4. kind' = [e \in Dirs |-> IF e \in {d, dir} THEN "removed" ELSE kind[e]]
      BY <2>3, <3>1, <3>2, <1>1 DEF FilesOK
    <3>5. \A e \in {d, dir}, v \in Units : disk[e][v] \in {Nothing, Archived}
      BY <3>1, <3>2, <1>1 DEF DirsOK, Empty
    <3>6. {d, dir} \in SUBSET Dirs BY <3>1, <3>2
    <3> QED BY <3>3, <3>4, <3>5, <3>6, <2>2, <1>1, HarmlessRemoval
         DEF JournalOK, NoJournal
  <2>4. CASE kind' = [kind EXCEPT ![d] = k] /\ UNCHANGED disk
    BY <2>4, <2>2, <1>1, HarmlessCreation DEF JournalOK, NoJournal
  <2>5. CASE kind' = [kind EXCEPT ![d] = "removed"] /\ UNCHANGED disk
    BY <2>5, <2>2, <1>1, HarmlessCreation DEF JournalOK, NoJournal
  <2> QED BY <2>1, <2>3, <2>4, <2>5
<1>10. CASE QuarantineCurrent BY <1>9, <1>10 DEF QuarantineCurrent
<1>11. CASE UndoBySwap BY <1>9, <1>11 DEF UndoBySwap, Ready
<1>12. CASE Clean
  <2>1. UNCHANGED <<kept, journal>> /\ journal = NoJournal
    BY <1>12, <1>1 DEF Clean, TransactionOK
  <2>2. CASE UNCHANGED <<disk, kind>>
    BY <2>1, <2>2, <1>1
    DEF NothingLost, KeptOK, DirsOK, JournalOK, NoJournal, IsQuarantine
  <2>3. CASE /\ dir # Root /\ (op = "undo" => Held(dir) = {})
             /\ disk' = [disk EXCEPT ![dir] = Empty]
             /\ kind' = [kind EXCEPT ![dir] = "removed"]
    <3>1. dir \in Dirs BY <2>3, <1>1, <1>2 DEF ProcessOK
    <3>2. \A e \in {dir}, v \in Units : disk[e][v] \in {Nothing, Archived}
      <4>1. CASE op = "undo" BY <4>1, <2>3 DEF Held
      <4>2. CASE op # "undo"
        BY <4>2, <2>3, <3>1, <1>12, <1>1 DEF DirectoryOK, DirsOK, Clean
      <4> QED BY <4>1, <4>2
    <3>3. disk' = [p \in Places |-> IF p \in {dir} THEN Empty ELSE disk[p]]
      BY <2>3, <3>1, <1>1, <1>2 DEF FilesOK
    <3>4. kind' = [e \in Dirs |-> IF e \in {dir} THEN "removed" ELSE kind[e]]
      BY <2>3, <3>1, <1>1 DEF FilesOK
    <3>5. {dir} \in SUBSET Dirs BY <3>1
    <3> QED BY <3>2, <3>3, <3>4, <3>5, <2>1, <1>1, HarmlessRemoval
         DEF JournalOK, NoJournal
  <2> QED BY <1>12, <2>2, <2>3 DEF Clean
<1>13. CASE PlayGame
  <2>1. PICK U \in Snapshots \ {{}} :
          /\ disk' = [disk EXCEPT ![Root] =
                        [u \in Units |-> IF u \in U THEN 3 + plays ELSE @[u]]]
          /\ kept' = (kept \ {<<u, disk[Root][u]>> : u \in U})
                       \union {<<u, 3 + plays>> : u \in U}
          /\ UNCHANGED <<kind, journal>> /\ journal = NoJournal
    BY <1>13 DEF PlayGame
  <2>2. U \subseteq Units BY DEF Snapshots
  <2>3. \A u \in Units :
          disk'[Root][u] = IF u \in U THEN 3 + plays ELSE disk[Root][u]
    BY <2>1, <1>1, <1>2 DEF FilesOK, Copies
  <2>4. \A p \in Dirs : disk'[p] = disk[p] BY <2>1, <1>1, <1>2 DEF FilesOK
  <2>5. 3 + plays > Archived BY <1>1 DEF HistoryOK, Archived
  <2>6. KeptOK' BY <2>1, <2>5, <1>1 DEF KeptOK
  <2>7. DirsOK' BY <2>1, <2>4, <1>1 DEF DirsOK
  <2>8. NothingLost'
    <3> SUFFICES ASSUME NEW c \in kept'
                 PROVE  \E p \in Places :
                          disk'[p][c[1]] = c[2] /\ (p = Root \/ IsQuarantine(p)')
      BY DEF NothingLost
    <3>1. CASE \E u \in U : c = <<u, 3 + plays>> BY <3>1, <2>2, <2>3, <1>2
    <3>2. CASE c \in kept /\ ~\E u \in U : c = <<u, disk[Root][u]>>
      <4>1. c = <<c[1], c[2]>> /\ c[1] \in Units
        BY <3>2, <1>1 DEF HistoryOK
      <4>2. PICK p \in Places :
              disk[p][c[1]] = c[2] /\ (p = Root \/ IsQuarantine(p))
        BY <3>2, <1>1 DEF NothingLost
      <4>3. CASE p = Root
        <5>1. c[1] \notin U BY <3>2, <4>1, <4>2, <4>3
        <5> QED BY <5>1, <4>1, <4>2, <4>3, <2>3
      <4>4. CASE p # Root
        BY <4>2, <4>4, <2>1, <2>4, <1>2 DEF IsQuarantine
      <4> QED BY <4>3, <4>4
    <3> QED BY <2>1, <3>1, <3>2
  <2> QED BY <2>1, <2>6, <2>7, <2>8 DEF JournalOK, NoJournal
<1> QED
  BY <1>3, <1>4, <1>5, <1>6, <1>7, <1>8, <1>10, <1>11, <1>12, <1>13, StepKinds
  DEF DiskStep

\* What the process knows stays right: its staging directory ...
LEMMA DirectoryStep ==
  ASSUME IInv, [Next]_vars
  PROVE  DirectoryOK'
<1>h. /\ FilesOK /\ ProcessOK /\ KeptOK /\ DirsOK /\ JournalOK(journal)
      /\ TransactionOK /\ DirectoryOK /\ DropOK /\ LoopsOK
  BY DEF IInv, TypeOK
<1>r. /\ Root \in Places /\ Dirs \subseteq Places /\ Root \notin Dirs
      /\ \A p \in Places : p = Root \/ p \in Dirs
  BY BoundsAssumption DEF Root, Places, Dirs
<1>1. CASE (\E o \in {"recover", "restore", "reset", "undo"} : Call(o))
           \/ Recover \/ RecoveryFails \/ ReconcileSkip \/ ReconcileStops
           \/ ReconcileRename \/ ReconcileNext \/ Check
  BY <1>1, <1>h DEF DirectoryOK, Call, Recover, Works, RecoveryFails, Fault,
    ReconcileSkip, ReconcileStops, ReconcileRename, ReconcileNext, Check
<1>2. CASE RecoveryClears \/ ReturnRecovery \/ ReturnFailure
           \/ FinishRecovered \/ UndoRefuses \/ Begin \/ MoveUnit \/ MoveFails
  BY <1>2, <1>h DEF DirectoryOK, RecoveryClears, Works, Fault, ReturnRecovery,
    Return, ReturnFailure, FinishRecovered, FinishFails, UndoRefuses, Begins,
    Begin, StartMoves, RollBack, MoveUnit, MoveFails
<1>3. CASE Unmove \/ Unmoved \/ MovesDone \/ UpdateTransaction \/ Commit
           \/ Observe \/ FinishClears \/ Clean
  BY <1>3, <1>h DEF DirectoryOK, Unmove, Works, Fault, Unmoved, RollBack,
    MovesDone, UpdateTransaction, StartMoves, Commit, FinishFails, Return,
    Observe, FinishClears, Clean
<1>4. CASE Crash \/ PlayGame
  BY <1>4, <1>h DEF DirectoryOK, Crash, PlayGame
<1>5. CASE StageArchive
  BY <1>5, <1>h, <1>r
  DEF DirectoryOK, StageArchive, Return, Ready, Free, FilesOK, TransactionOK
<1>6. CASE StartReset
  BY <1>6, <1>h DEF DirectoryOK, StartReset, Return, Ready
<1>7. CASE QuarantineCurrent
  <2>1. PICK d \in Free :
          \/ /\ \E k \in {"reset", "restore"} : kind' = [kind EXCEPT ![d] = k]
             /\ pc' = "begin" /\ UNCHANGED op
          \/ pc' = "idle"
    BY <1>7 DEF QuarantineCurrent, CreateQuarantine, Return
  <2>2. pc = "quarantine" /\ UNCHANGED dir BY <1>7 DEF QuarantineCurrent
  <2>3. dir # Root /\ op # "undo" => dir # d
    BY <2>2, <1>h DEF DirectoryOK, Free
  <2> QED
    BY <2>1, <2>2, <2>3, <1>h, <1>r
    DEF DirectoryOK, FilesOK, ProcessOK, Free
<1>8. CASE UndoIntoRoot
  BY <1>8, <1>h DEF DirectoryOK, UndoIntoRoot, Ready
<1>9. CASE UndoBySwap
  BY <1>9, <1>h DEF DirectoryOK, UndoBySwap, CreateQuarantine, Ready, Return
<1>10. CASE UNCHANGED vars
  BY <1>10, <1>h DEF vars, DirectoryOK
<1> QED
  BY <1>1, <1>2, <1>3, <1>4, <1>5, <1>6, <1>7, <1>8, <1>9, <1>10 DEF Next

\* ... what its loops have left ...
LEMMA LoopsStep ==
  ASSUME IInv, [Next]_vars
  PROVE  LoopsOK'
<1>h. /\ FilesOK /\ ProcessOK /\ KeptOK /\ DirsOK /\ JournalOK(journal)
      /\ TransactionOK /\ DirectoryOK /\ DropOK /\ LoopsOK
  BY DEF IInv, TypeOK
<1>1. CASE (\E o \in {"recover", "restore", "reset", "undo"} : Call(o))
           \/ Recover \/ RecoveryFails \/ ReconcileSkip \/ ReconcileStops
           \/ ReconcileRename \/ ReconcileNext \/ Check
  BY <1>1, <1>h DEF LoopsOK, Call, Recover, Works, RecoveryFails, Fault,
    ReconcileSkip, ReconcileStops, ReconcileRename, ReconcileNext, Check
<1>2. CASE RecoveryClears \/ ReturnRecovery \/ ReturnFailure
           \/ FinishRecovered \/ StageArchive \/ StartReset
           \/ QuarantineCurrent \/ UndoRefuses
  BY <1>2, <1>h DEF LoopsOK, RecoveryClears, Works, Fault, ReturnRecovery,
    Return, ReturnFailure, FinishRecovered, FinishFails, StageArchive, Begins,
    StartReset, QuarantineCurrent, CreateQuarantine, UndoRefuses
<1>3. CASE UndoIntoRoot \/ UndoBySwap \/ Begin \/ MoveFails \/ Unmove
           \/ Unmoved \/ MovesDone \/ UpdateTransaction
  BY <1>3, <1>h DEF LoopsOK, UndoIntoRoot, Begins, UndoBySwap, CreateQuarantine,
    Works, Fault, Return, Begin, StartMoves, RollBack, MoveFails, Unmove,
    Unmoved, MovesDone, UpdateTransaction
<1>4. CASE Commit \/ Observe \/ FinishClears \/ Clean \/ Crash \/ PlayGame
  BY <1>4, <1>h DEF LoopsOK, Commit, Works, Fault, FinishFails, Return, Observe,
    RollBack, FinishClears, Clean, Crash, PlayGame
<1>5. CASE MoveUnit
  BY <1>5, <1>h, FirstIsMember DEF LoopsOK, MoveUnit, ProcessOK
<1>6. CASE UNCHANGED vars
  BY <1>6, <1>h DEF vars, LoopsOK
<1> QED
  BY <1>1, <1>2, <1>3, <1>4, <1>5, <1>6 DEF Next

\* ... the quarantine that may be dropped ...
LEMMA DropStep ==
  ASSUME IInv, [Next]_vars
  PROVE  DropOK'
<1>h. /\ FilesOK /\ ProcessOK /\ KeptOK /\ DirsOK /\ JournalOK(journal)
      /\ TransactionOK /\ DirectoryOK /\ DropOK /\ LoopsOK
  BY DEF IInv, TypeOK
<1>r. /\ Root \in Places /\ Dirs \subseteq Places /\ Root \notin Dirs
      /\ \A p \in Places : p = Root \/ p \in Dirs
  BY BoundsAssumption DEF Root, Places, Dirs
<1>1. CASE (\E o \in {"recover", "restore", "reset", "undo"} : Call(o))
           \/ Recover \/ RecoveryFails \/ ReconcileSkip \/ ReconcileStops
           \/ ReconcileNext \/ Check \/ RecoveryClears
  BY <1>1, <1>h DEF DropOK, Recovering, Call, Recover, Works, RecoveryFails,
    Fault, ReconcileSkip, ReconcileStops, ReconcileNext, Check, RecoveryClears
<1>2. CASE ReturnRecovery \/ ReturnFailure \/ FinishRecovered \/ UndoRefuses
           \/ Begin \/ MoveUnit \/ MoveFails \/ Unmove
  BY <1>2, <1>h DEF DropOK, Recovering, ReturnRecovery, Return, ReturnFailure,
    FinishRecovered, FinishFails, UndoRefuses, Begins, Begin, Works, Fault,
    StartMoves, RollBack, MoveUnit, MoveFails, Unmove
<1>3. CASE Unmoved \/ MovesDone \/ UpdateTransaction \/ Commit \/ Observe
           \/ FinishClears \/ Clean \/ Crash
  BY <1>3, <1>h DEF DropOK, Recovering, Unmoved, RollBack, MovesDone,
    UpdateTransaction, Works, Fault, StartMoves, Commit, FinishFails, Return,
    Observe, FinishClears, Clean, Crash
<1>4. CASE PlayGame
  BY <1>4, <1>h DEF DropOK, Recovering, PlayGame
<1>5. CASE ReconcileRename
  <2>1. UNCHANGED <<tx, then>> /\ pc = "reconcile" BY <1>5 DEF ReconcileRename
  <2>2. SUFFICES ASSUME then = "drop" PROVE FALSE
    BY <2>1, <1>5 DEF DropOK, ReconcileRename, Recovering
  <2>3. tx.mode = "quarantine" /\ disk[tx.first] = Empty /\ First(left) \in Units
    BY <2>1, <2>2, <1>5, <1>h, FirstIsMember
    DEF DropOK, Recovering, ReconcileRename, ProcessOK
  <2>4. journal = tx \/ LegFrom = LegTo
    BY <2>1, <2>2, <2>3, <1>h
    DEF TransactionOK, Recovering, LegFrom, LegTo, Leg, Back, NoJournal
  <2>5. journal = tx => LegFrom = tx.first
    BY <2>3 DEF LegFrom, Leg, Back
  <2> QED
    BY <2>3, <2>4, <2>5, <1>5 DEF ReconcileRename, CanRename, Empty
<1>6. CASE StageArchive
  BY <1>6, <1>h DEF DropOK, Recovering, StageArchive, Return, Ready, Record
<1>7. CASE StartReset
  BY <1>7, <1>h DEF DropOK, Recovering, StartReset, Return, Ready
<1>8. CASE QuarantineCurrent
  <2>1. pc' \in {"begin", "idle"}
    BY <1>8 DEF QuarantineCurrent, CreateQuarantine, Return
  <2>2. CASE pc' = "idle" BY <2>2 DEF DropOK, Recovering
  <2>3. CASE pc' = "begin"
    <3>1. PICK d \in Free :
            /\ tx' = [Record("quarantine", Root, Root, Held(Root), {})
                        EXCEPT !.first = d]
            /\ UNCHANGED disk
      BY <2>3, <1>8 DEF QuarantineCurrent, CreateQuarantine, Return
    <3>2. d \in Dirs /\ disk'[d] = Empty BY <3>1, <1>h DEF Free, DirsOK
    <3> QED BY <3>1, <3>2, <2>3 DEF DropOK, Recovering, Record
  <2> QED BY <2>1, <2>2, <2>3
<1>9. CASE UndoIntoRoot
  BY <1>9, <1>h DEF DropOK, Recovering, UndoIntoRoot, Ready, Record
<1>10. CASE UndoBySwap
  <2>1. pc' = "idle" \/ tx'.mode = "displace"
    BY <1>10 DEF UndoBySwap, CreateQuarantine, Return, Record
  <2>2. pc' \in {"begin", "idle"}
    BY <1>10 DEF UndoBySwap, CreateQuarantine, Return
  <2> QED BY <2>1, <2>2 DEF DropOK, Recovering
<1>11. CASE UNCHANGED vars
  BY <1>11, <1>h DEF vars, DropOK, Recovering
<1> QED
  BY <1>1, <1>2, <1>3, <1>4, <1>5, <1>6, <1>7, <1>8, <1>9, <1>10, <1>11 DEF Next

\* ... and its transaction.
LEMMA TransactionStep ==
  ASSUME IInv, [Next]_vars
  PROVE  TransactionOK'
<1>h. /\ FilesOK /\ ProcessOK /\ KeptOK /\ DirsOK /\ JournalOK(journal)
      /\ TransactionOK /\ DirectoryOK /\ DropOK /\ LoopsOK
  BY DEF IInv, TypeOK
<1>r. /\ Root \in Places /\ Dirs \subseteq Places /\ Root \notin Dirs
      /\ \A p \in Places : p = Root \/ p \in Dirs
  BY BoundsAssumption DEF Root, Places, Dirs
<1>1. CASE (\E o \in {"recover", "restore", "reset", "undo"} : Call(o))
           \/ Recover \/ RecoveryFails \/ ReconcileSkip \/ ReconcileStops
           \/ ReconcileRename \/ ReconcileNext \/ Check
  BY <1>1, <1>h DEF TransactionOK, Recovering, NoJournal, Call, Recover, Works,
    RecoveryFails, Fault, ReconcileSkip, ReconcileStops, ReconcileRename,
    ReconcileNext, Check
<1>2. CASE RecoveryClears \/ ReturnRecovery \/ ReturnFailure \/ UndoRefuses
           \/ Begin \/ MoveUnit \/ MoveFails \/ Unmove
  BY <1>2, <1>h DEF TransactionOK, Recovering, RecoveryClears, Works, Fault,
    ReturnRecovery, Return, ReturnFailure, UndoRefuses, Begins, Begin,
    StartMoves, RollBack, MoveUnit, MoveFails, Unmove
<1>3. CASE Unmoved \/ UpdateTransaction \/ Commit \/ Observe \/ FinishClears
           \/ Clean \/ Crash \/ PlayGame
  BY <1>3, <1>h DEF TransactionOK, Recovering, Unmoved, RollBack,
    UpdateTransaction, Works, Fault, StartMoves, Commit, FinishFails, Return,
    Observe, FinishClears, Clean, Crash, PlayGame
<1>4. CASE FinishRecovered
  BY <1>4, <1>h
  DEF TransactionOK, Recovering, FinishRecovered, FinishFails, Return, Recovered
<1>5. CASE StageArchive
  <2>1. PICK U \in Snapshots \ {{}}, d \in Free :
          \/ /\ kind' = [kind EXCEPT ![d] = "staging"]
             /\ disk' = [disk EXCEPT ![d] = Of(Archived, U)]
             /\ \/ pc' = "begin" /\ tx' = Record("install", d, Root, U, {})
                \/ pc' = "quarantine" /\ UNCHANGED tx
          \/ pc' = "idle"
    BY <1>5 DEF StageArchive, Return
  <2>2. /\ pc = "recovered" /\ op = "restore" /\ UNCHANGED <<journal, then>>
        /\ pc' # "idle" => UNCHANGED op
    BY <1>5 DEF StageArchive, Ready, Return
  <2>3. CASE pc' = "begin"
    <3>1. /\ tx' = Record("install", d, Root, U, {}) /\ d \in Dirs
          /\ kind'[d] = "staging" /\ disk'[d] = Of(Archived, U) /\ U \subseteq Units
      BY <2>1, <2>3, <1>h, <1>r DEF Free, FilesOK, Snapshots
    <3>2. JournalOK(tx)'
      BY <3>1 DEF JournalOK, ArchiveSafe, Record, Of
    <3> QED BY <3>1, <3>2, <2>2, <2>3, <1>h DEF TransactionOK, Recovering, Record
  <2>4. CASE pc' # "begin"
    BY <2>1, <2>2, <2>4, <1>h DEF TransactionOK, Recovering
  <2> QED BY <2>3, <2>4
<1>6. CASE StartReset
  BY <1>6, <1>h DEF TransactionOK, Recovering, StartReset, Return, Ready
<1>7. CASE QuarantineCurrent
  <2>1. pc' \in {"begin", "idle"} /\ UNCHANGED <<journal, then>>
    BY <1>7 DEF QuarantineCurrent, CreateQuarantine, Return
  <2>2. journal = NoJournal
    BY <1>7, <1>h DEF QuarantineCurrent, TransactionOK, Ready
  <2>3. CASE pc' = "begin"
    <3>1. PICK d \in Free :
            /\ tx' = [Record("quarantine", Root, Root, Held(Root), {})
                        EXCEPT !.first = d]
            /\ kind' = [kind EXCEPT ![d] =
                          IF op = "reset" THEN "reset" ELSE "restore"]
      BY <2>3, <1>7 DEF QuarantineCurrent, CreateQuarantine, Return
    <3>2. d \in Dirs /\ IsQuarantine(d)'
      BY <3>1, <1>h DEF Free, FilesOK, IsQuarantine
    <3>3. tx'.mode = "quarantine" /\ tx'.first = d BY <3>1 DEF Record
    <3>4. JournalOK(tx)' BY <3>2, <3>3 DEF JournalOK
    <3>5. tx'.mode # "none" /\ op' # "undo"
      BY <3>3, <2>3, <1>7, <1>h
      DEF QuarantineCurrent, CreateQuarantine, Return, TransactionOK
    <3> QED BY <3>4, <3>5, <2>1, <2>2, <2>3 DEF TransactionOK, Recovering
  <2>4. CASE pc' = "idle" BY <2>1, <2>4, <2>2 DEF TransactionOK, Recovering
  <2> QED BY <2>1, <2>3, <2>4
<1>8. CASE UndoIntoRoot
  <2>1. PICK q \in Dirs :
          Undoable(q) /\ tx' = Record("undo", q, Root, listed[q], {})
    BY <1>8 DEF UndoIntoRoot
  <2>2. JournalOK(tx)'
    BY <2>1, <1>8 DEF UndoIntoRoot, JournalOK, Record, Undoable, IsQuarantine
  <2> QED
    BY <2>1, <2>2, <1>8, <1>h
    DEF TransactionOK, Recovering, UndoIntoRoot, Ready, Record
<1>9. CASE UndoBySwap
  <2>1. pc' \in {"begin", "idle"} /\ UNCHANGED <<journal, then>>
    BY <1>9 DEF UndoBySwap, CreateQuarantine, Return
  <2>2. journal = NoJournal
    BY <1>9, <1>h DEF UndoBySwap, TransactionOK, Ready
  <2>3. CASE pc' = "begin"
    <3>1. PICK q \in Dirs, d \in Free :
            /\ tx' = [Record("displace", Root, q, Held(Root), listed[q])
                        EXCEPT !.first = d]
            /\ kind' = [kind EXCEPT ![d] = "restore"] /\ IsQuarantine(q)
      BY <2>3, <1>9 DEF UndoBySwap, CreateQuarantine, Return, Undoable
    <3>2. /\ d \in Dirs /\ q \in Dirs /\ IsQuarantine(d)' /\ IsQuarantine(q)'
      BY <3>1, <1>h DEF Free, FilesOK, IsQuarantine
    <3>3. tx'.mode = "displace" /\ tx'.first = d /\ tx'.second = q
      BY <3>1 DEF Record
    <3>4. JournalOK(tx)' BY <3>2, <3>3 DEF JournalOK
    <3>5. tx'.mode \notin {"none", "quarantine"} BY <3>3
    <3> QED BY <3>4, <3>5, <2>1, <2>2, <2>3 DEF TransactionOK, Recovering
  <2>4. CASE pc' = "idle" BY <2>1, <2>4, <2>2 DEF TransactionOK, Recovering
  <2> QED BY <2>1, <2>3, <2>4
<1>10. CASE MovesDone
  <2>1. pc = "move" /\ UNCHANGED <<disk, kind, op, journal, then>> /\ journal = tx
    BY <1>10, <1>h DEF MovesDone, TransactionOK
  <2>2. CASE pc' = "commit"
    BY <2>1, <2>2, <1>10, <1>h DEF TransactionOK, Recovering, MovesDone
  <2>3. CASE tx.mode = "displace" /\ pc' = "phase" /\ tx' = NextPhase
    <3>1. /\ tx'.mode = "swap" /\ tx'.first = tx.first /\ tx'.second = tx.second
      BY <2>3, <1>h DEF NextPhase, ProcessOK, Journals
    <3>2. JournalOK(tx)' BY <3>1, <2>1, <2>3, <1>h DEF JournalOK, IsQuarantine
    <3> QED BY <3>1, <3>2, <2>1, <2>3, <1>h DEF TransactionOK, Recovering
  <2>4. CASE /\ tx.mode = "quarantine" /\ op = "restore" /\ pc' = "phase"
             /\ tx' = NextPhase
    <3>1. tx' = Record("install", dir, tx.first, Held(dir), tx.units1)
      BY <2>4 DEF NextPhase
    <3>2. dir \in Dirs /\ kind[dir] = "staging"
      BY <2>1, <2>4, <1>h, <1>r DEF DirectoryOK, ProcessOK
    <3>3. \A u \in Held(dir) : disk[dir][u] = Archived
      BY <3>2, <1>h DEF DirsOK, Held
    <3>4. JournalOK(tx)'
      BY <3>1, <3>2, <3>3, <2>1, <2>4, <1>h
      DEF JournalOK, ArchiveSafe, IsQuarantine, Record
    <3> QED BY <3>1, <3>4, <2>1, <2>4, <1>h DEF TransactionOK, Recovering, Record
  <2> QED BY <2>2, <2>3, <2>4, <1>10 DEF MovesDone
<1>11. CASE UNCHANGED vars
  BY <1>11, <1>h DEF vars, TransactionOK, Recovering, JournalOK, ArchiveSafe,
    IsQuarantine
<1> QED
  BY <1>1, <1>2, <1>3, <1>4, <1>5, <1>6, <1>7, <1>8, <1>9, <1>10, <1>11 DEF Next

\* The initial states satisfy IInv.
LEMMA FirstSafe == Init => IInv
<1> SUFFICES ASSUME Init PROVE IInv OBVIOUS
<1>1. TypeOK BY FirstStep
<1>2. Root \in Places /\ Dirs \subseteq Places /\ Root \notin Dirs
  BY BoundsAssumption DEF Root, Places, Dirs
<1>3. PICK U \in Snapshots :
        /\ disk = [p \in Places |->
                     [u \in Units |-> IF p = Root /\ u \in U THEN 2 ELSE Nothing]]
        /\ kept = {<<u, 2>> : u \in U}
  BY DEF Init
<1>4. NothingLost /\ KeptOK
  BY <1>2, <1>3 DEF NothingLost, KeptOK, Snapshots, Archived
<1>5. DirsOK BY <1>2, <1>3 DEF Init, DirsOK, Empty
<1>6. JournalOK(journal) BY DEF Init, JournalOK, NoJournal
<1>7. TransactionOK /\ DirectoryOK /\ DropOK /\ LoopsOK
  BY DEF Init, TransactionOK, DirectoryOK, DropOK, LoopsOK, Recovering
<1> QED BY <1>1, <1>4, <1>5, <1>6, <1>7 DEF IInv

\* IInv is inductive.
LEMMA Invariance == Spec => []IInv
<1>1. IInv /\ [Next]_vars => IInv'
  <2> SUFFICES ASSUME IInv, [Next]_vars PROVE IInv' OBVIOUS
  <2>1. TypeOK'
    BY FilesStep, ProcessStep, HistoryStep, FlagsStep DEF IInv, TypeOK
  <2> QED
    BY <2>1, SafeStep, DirectoryStep, LoopsStep, DropStep, TransactionStep
    DEF IInv
<1> QED BY FirstSafe, <1>1, PTL DEF Spec

\* Nothing is lost: whatever number of primitives fails, of crashes and of games,
\* and wherever they fall, each copy the game wrote last stays below the root or
\* in a quarantine that an undo can be asked for.
THEOREM NothingLostHolds == Spec => []NothingLost
<1>1. IInv => NothingLost BY DEF IInv
<1> QED BY Invariance, <1>1, PTL

-----------------------------------------------------------------------------
(* Where the units of a transaction are: the save it replaces leaves the    *)
(* root for Old, the one it installs comes from New; Root stands for none.  *)
(* The disk is d, the save that is replaced p, the one installed q.         *)

Old(j) == CASE j.mode \in {"quarantine", "displace", "swap"} -> j.first
            [] j.mode = "install" -> j.second
            [] OTHER -> Root
New(j) == CASE j.mode \in {"install", "undo"} -> j.first
            [] j.mode \in {"displace", "swap"} -> j.second
            [] OTHER -> Root
Leaving(j) == CASE j.mode \in {"quarantine", "displace", "swap"} -> j.units1
                [] j.mode = "install" -> j.units2
                [] OTHER -> {}
Coming(j) == CASE j.mode \in {"install", "undo"} -> j.units1
               [] j.mode \in {"displace", "swap"} -> j.units2
               [] OTHER -> {}
Installs(j) == j.mode \in {"install", "undo", "swap"}
TwoLegs(j) == j.mode \in {"install", "swap"}

\* The units that a record names are those of the two saves.
Names(p, q, j) ==
  IF j.mode = "undo"
    THEN \A u \in Units : IF u \in Coming(j) THEN p[u] = Nothing /\ q[u] # Nothing
                                             ELSE q[u] = p[u]
    ELSE /\ \A u \in Units : u \in Leaving(j) <=> p[u] # Nothing
         /\ j.mode # "quarantine" => \A u \in Units : u \in Coming(j) <=> q[u] # Nothing
Shape(p, q, j) ==
  /\ j \in Journals /\ j.mode # "none"
  /\ j.first \in Dirs /\ j.second # j.first
  /\ j.mode \in {"quarantine", "undo"} => j.second = Root
  /\ j.mode \in {"displace", "swap"} => j.second \in Dirs
  /\ Names(p, q, j)

\* A unit of the old save is in its quarantine, one of the new save still where it was.
Kept(d, p, j, u) == IF Old(j) = Root THEN p[u] = Nothing ELSE d[Old(j)][u] = p[u]
Waits(d, q, j, u) ==
  New(j) # Root => d[New(j)][u] = IF u \in Coming(j) THEN q[u] ELSE Nothing

Untouched(d, p, q, j, u) ==
  /\ d[Root][u] = p[u] /\ Waits(d, q, j, u)
  /\ Old(j) # Root => d[Old(j)][u] = Nothing
Aside(d, p, q, j, u) == d[Root][u] = Nothing /\ Kept(d, p, j, u) /\ Waits(d, q, j, u)
Placed(d, p, q, j, u) ==
  /\ Installs(j) /\ u \in Coming(j)
  /\ d[Root][u] = q[u] /\ Kept(d, p, j, u) /\ d[New(j)][u] = Nothing
Somewhere(d, p, q, j, u) ==
  Untouched(d, p, q, j, u) \/ Aside(d, p, q, j, u) \/ Placed(d, p, q, j, u)
\* Where the moves of a transaction bring it.
Moved(d, p, q, j, u) ==
  IF Installs(j) /\ u \in Coming(j) THEN Placed(d, p, q, j, u)
  ELSE IF j.mode = "undo" THEN Untouched(d, p, q, j, u) ELSE Aside(d, p, q, j, u)
MayMove(d, j, u) == d[Forward(j).from][u] # Nothing /\ d[Forward(j).to][u] = Nothing

Arranged(d, p, q, j) == \A u \in Units : Somewhere(d, p, q, j, u)
NonePlaced(d, p, q, j) == \A u \in Units : ~Placed(d, p, q, j, u)
\* No unit of the old save is back below the root.
Forwards(d, p, q, j) == \A u \in Units : Aside(d, p, q, j, u) \/ Placed(d, p, q, j, u)
\* A loop over the units that has left some of them.
Halfway(d, p, q, j, U) ==
  \A u \in Units : IF u \in U THEN MayMove(d, j, u) ELSE Moved(d, p, q, j, u)
\* A transaction that is about to move, as its record says.
Poised(d, p, q, j) ==
  /\ Shape(p, q, j) /\ j.state = "precommit" /\ Arranged(d, p, q, j)
  /\ Halfway(d, p, q, j, Forward(j).units)
Finished(d, p, q, j) ==
  j.mode # "displace" /\ d[Root] = q /\ \A u \in Units : Moved(d, p, q, j, u)

\* The journal says where the units are, and so does the record of the process.
InJournal == journal # NoJournal
JournalArranged ==
  InJournal =>
    /\ Shape(pre, post, journal)
    /\ IF IsCommitted THEN Finished(disk, pre, post, journal)
                      ELSE Arranged(disk, pre, post, journal)
MovingOK ==
  /\ pc \in {"begin", "phase"} => Poised(disk, pre, post, tx)
  /\ pc \in {"quarantine", "begin"} => disk[Root] = pre
  /\ pc \in {"phase", "move", "unmove", "commit"} => InJournal /\ ~IsCommitted
  /\ pc \in {"move", "unmove", "commit"} => journal = tx
  /\ pc = "move" => Halfway(disk, pre, post, tx, left)
  /\ pc = "commit" => Finished(disk, pre, post, tx)
  /\ pc = "observe" => InJournal /\ journal \in {tx, Committed(tx)}
  /\ pc = "finish" => InJournal /\ IsCommitted /\ journal = Committed(tx)
\* What the process knows of its operation before the save is replaced.
Preparing == pc \in {"quarantine", "begin", "move", "phase"}
ToQuarantine ==
  pc = "quarantine" \/ (pc \in {"begin", "move"} /\ tx.mode = "quarantine")
StagedOK ==
  /\ Preparing => op \in {"restore", "reset", "undo"}
  /\ Preparing /\ op = "reset" =>
       post = Empty /\ (pc # "quarantine" => tx.mode = "quarantine")
  /\ op = "restore" /\ ToQuarantine => dir \in Dirs /\ disk[dir] = post
\* How far a rollback is.
RollbackOK ==
  /\ pc \in {"reconcile", "check"} => InJournal /\ ~IsCommitted
  /\ pc = "reconcile" =>
       /\ leg <= LastLeg(journal)
       /\ leg = 2 => NonePlaced(disk, pre, post, journal)
       /\ \A u \in Leg(journal, leg).units \ left :
            disk[LegFrom][u] = Nothing /\ disk[LegTo][u] # Nothing
  /\ pc = "check" => \A u \in Units : Untouched(disk, pre, post, journal, u)
  /\ pc = "clear" => InJournal /\ (~IsCommitted => disk[Root] = pre)

AInv == JournalArranged /\ MovingOK /\ StagedOK /\ RollbackOK

\* The directories of a transaction, its moves, and the legs of its rollback.
LEMMA Routes ==
  ASSUME NEW p, NEW q, NEW j, Shape(p, q, j)
  PROVE  /\ Old(j) \in Places /\ New(j) \in Places /\ Old(j) # New(j)
         /\ Old(j) # Root => Old(j) \in Dirs
         /\ New(j) # Root => New(j) \in Dirs
         /\ Leaving(j) \subseteq Units /\ Coming(j) \subseteq Units
         /\ Installs(j) => New(j) # Root
         /\ ~Installs(j) => j.mode \in {"quarantine", "displace"} /\ Old(j) # Root
<1>1. Root \in Places /\ Dirs \subseteq Places /\ Root \notin Dirs
      /\ \A x \in Places : x = Root \/ x \in Dirs
  BY BoundsAssumption DEF Root, Places, Dirs
<1> QED BY <1>1 DEF Shape, Journals, Modes, Old, New, Leaving, Coming, Installs

\* Moves go along the route of the new save, or, where a transaction installs none, of the old one.
LEMMA Paths ==
  ASSUME NEW p, NEW q, NEW j, Shape(p, q, j)
  PROVE  /\ Installs(j) => /\ Forward(j).from = New(j) /\ Forward(j).to = Root
                           /\ Forward(j).units = Coming(j)
                           /\ Leg(j, 1).from = Root /\ Leg(j, 1).to = New(j)
                           /\ Leg(j, 1).units = Coming(j)
         /\ ~Installs(j) => /\ Forward(j).from = Root /\ Forward(j).to = Old(j)
                            /\ Forward(j).units = Leaving(j)
                            /\ Leg(j, 1).from = Old(j) /\ Leg(j, 1).to = Root
                            /\ Leg(j, 1).units = Leaving(j)
         /\ TwoLegs(j) => /\ Installs(j) /\ LastLeg(j) = 2
                          /\ Leg(j, 2).from = Old(j) /\ Leg(j, 2).to = Root
                          /\ Leg(j, 2).units = Leaving(j)
         /\ ~TwoLegs(j) => LastLeg(j) = 1
  BY DEF Shape, Journals, Modes, Old, New, Leaving, Coming, Installs, TwoLegs, Forward,
    Leg, LastLeg, Back

\* What a rename does to the disk.
Renames(d, e, from, to, u) ==
  /\ d[from][u] # Nothing /\ d[to][u] = Nothing
  /\ e = [d EXCEPT ![from][u] = Nothing, ![to][u] = d[from][u]]

\* A rename, unit by unit.
LEMMA RenamesIs ==
  ASSUME NEW d \in [Places -> Copies], NEW e, NEW from \in Places, NEW to \in Places,
         NEW u \in Units, Renames(d, e, from, to, u)
  PROVE  /\ from # to
         /\ \A x \in Places, v \in Units : e[x][v] =
              IF x = to /\ v = u THEN d[from][u]
              ELSE IF x = from /\ v = u THEN Nothing ELSE d[x][v]
<1>1. from # to BY DEF Renames
<1> QED BY <1>1 DEF Renames, Copies

\* A rename of one unit between the root and the directories of its transaction brings
\* the unit where it is to be, and leaves the others alone.
LEMMA RenameArranged ==
  ASSUME NEW p, NEW q, NEW j, Shape(p, q, j),
         NEW d \in [Places -> Copies], NEW e, NEW from, NEW to,
         NEW u \in Units, Renames(d, e, from, to, u), Somewhere(d, p, q, j, u),
         \/ from = Root /\ to = Old(j) /\ u \in Leaving(j) /\ ~Installs(j)
         \/ from = Old(j) /\ to = Root /\ u \in Leaving(j)
         \/ from = New(j) /\ to = Root /\ u \in Coming(j) /\ Installs(j)
         \/ from = Root /\ to = New(j) /\ u \in Coming(j) /\ Installs(j)
  PROVE  /\ from = Root /\ ~Installs(j) => Aside(e, p, q, j, u)
         /\ from = Old(j) /\ to = Root => Untouched(e, p, q, j, u)
         /\ from = New(j) /\ Installs(j) => Placed(e, p, q, j, u)
         /\ from = Root /\ Installs(j) => Aside(e, p, q, j, u)
         /\ \A v \in Units \ {u} :
              /\ Untouched(e, p, q, j, v) <=> Untouched(d, p, q, j, v)
              /\ Aside(e, p, q, j, v) <=> Aside(d, p, q, j, v)
              /\ Placed(e, p, q, j, v) <=> Placed(d, p, q, j, v)
<1>1. /\ Old(j) \in Places /\ New(j) \in Places /\ Old(j) # New(j) /\ Root \in Places
      /\ Installs(j) => New(j) # Root
      /\ ~Installs(j) => j.mode \in {"quarantine", "displace"} /\ Old(j) # Root
  BY Routes, BoundsAssumption DEF Root, Places
<1>2. from \in Places /\ to \in Places
  BY <1>1
<1>3. /\ from # to
      /\ \A x \in Places, v \in Units : e[x][v] =
           IF x = to /\ v = u THEN d[from][u]
           ELSE IF x = from /\ v = u THEN Nothing ELSE d[x][v]
  BY <1>2, RenamesIs
<1>4. d[from][u] # Nothing /\ d[to][u] = Nothing
  BY DEF Renames
<1>5. ASSUME NEW v \in Units \ {u}
      PROVE  e[Root][v] = d[Root][v] /\ e[Old(j)][v] = d[Old(j)][v] /\ e[New(j)][v] = d[New(j)][v]
  BY <1>1, <1>2, <1>3
<1>6. ASSUME NEW v \in Units \ {u}
      PROVE  /\ Untouched(e, p, q, j, v) <=> Untouched(d, p, q, j, v)
             /\ Aside(e, p, q, j, v) <=> Aside(d, p, q, j, v)
             /\ Placed(e, p, q, j, v) <=> Placed(d, p, q, j, v)
  BY <1>5 DEF Untouched, Aside, Placed, Kept, Waits
<1>n. /\ u \in Leaving(j) => p[u] # Nothing
      /\ u \in Coming(j) /\ j.mode # "quarantine" => q[u] # Nothing
      /\ j.mode = "undo" => Leaving(j) = {}
  BY DEF Shape, Names, Leaving
<1>7. CASE from = Root /\ to = Old(j) /\ u \in Leaving(j) /\ ~Installs(j)
  <2>1. Untouched(d, p, q, j, u)
    BY <1>1, <1>4, <1>7 DEF Somewhere, Aside, Placed
  <2>2. Aside(e, p, q, j, u)
    BY <1>1, <1>3, <1>7, <2>1 DEF Untouched, Aside, Kept, Waits
  <2> QED BY <1>1, <1>3, <1>6, <1>7, <2>2
<1>8. CASE from = Old(j) /\ to = Root /\ u \in Leaving(j)
  <2>1. Aside(d, p, q, j, u)
    BY <1>1, <1>n, <1>3, <1>4, <1>8 DEF Somewhere, Untouched, Placed, Kept, Installs
  <2>2. Untouched(e, p, q, j, u)
    BY <1>1, <1>3, <1>8, <2>1 DEF Untouched, Aside, Kept, Waits
  <2> QED BY <1>1, <1>3, <1>6, <1>8, <2>2
<1>9. CASE from = New(j) /\ to = Root /\ u \in Coming(j) /\ Installs(j)
  <2>1. d[New(j)][u] = q[u] /\ Kept(d, p, j, u)
    BY <1>1, <1>3, <1>4, <1>9 DEF Somewhere, Untouched, Aside, Placed, Kept, Waits
  <2>2. Placed(e, p, q, j, u)
    BY <1>1, <1>3, <1>9, <2>1 DEF Placed, Kept
  <2> QED BY <1>1, <1>3, <1>6, <1>9, <2>2
<1>10. CASE from = Root /\ to = New(j) /\ u \in Coming(j) /\ Installs(j)
  <2>1. Placed(d, p, q, j, u)
    BY <1>1, <1>n, <1>4, <1>10 DEF Somewhere, Untouched, Aside, Placed, Waits, Installs
  <2>2. Aside(e, p, q, j, u)
    BY <1>1, <1>3, <1>10, <2>1 DEF Aside, Placed, Kept, Waits
  <2> QED BY <1>1, <1>3, <1>6, <1>10, <2>2
<1> QED BY <1>7, <1>8, <1>9, <1>10

\* Other directories than its own do not matter to a transaction.
LEMMA SameDirectories ==
  ASSUME NEW p, NEW q, NEW j, Shape(p, q, j), NEW d, NEW e,
         e[Root] = d[Root], e[j.first] = d[j.first],
         j.second # Root => e[j.second] = d[j.second]
  PROVE  /\ Arranged(e, p, q, j) <=> Arranged(d, p, q, j)
         /\ Finished(e, p, q, j) <=> Finished(d, p, q, j)
<1>1. e[Old(j)] = d[Old(j)] /\ e[New(j)] = d[New(j)]
  BY DEF Old, New
<1>2. \A u \in Units : /\ Untouched(e, p, q, j, u) <=> Untouched(d, p, q, j, u)
                       /\ Aside(e, p, q, j, u) <=> Aside(d, p, q, j, u)
                       /\ Placed(e, p, q, j, u) <=> Placed(d, p, q, j, u)
  BY <1>1 DEF Untouched, Aside, Placed, Kept, Waits
<1> QED BY <1>2 DEF Arranged, Somewhere, Finished, Moved

\* Saying committed changes nothing else.
LEMMA CommittedIs ==
  ASSUME NEW p, NEW q, NEW j, Shape(p, q, j)
  PROVE  /\ Committed(j).state = "committed" /\ Shape(p, q, Committed(j))
         /\ Committed(j).mode = j.mode /\ Committed(j) # NoJournal
         /\ Old(Committed(j)) = Old(j)
         /\ \A d : Finished(d, p, q, j) => Finished(d, p, q, Committed(j))
<1> DEFINE c == Committed(j)
<1>1. /\ c.state = "committed" /\ c.mode = j.mode /\ c.first = j.first
      /\ c.second = j.second /\ c.units1 = j.units1 /\ c.units2 = j.units2
      /\ c \in Journals
  BY DEF Committed, Shape, Journals
<1> HIDE DEF c
<1>2. Old(c) = Old(j) /\ New(c) = New(j) /\ Leaving(c) = Leaving(j) /\ Coming(c) = Coming(j)
      /\ (Installs(c) <=> Installs(j))
  BY <1>1 DEF Old, New, Leaving, Coming, Installs
<1>3. Shape(p, q, c)
  BY <1>1, <1>2 DEF Shape, Names
<1>4. ASSUME NEW d, NEW u \in Units, Moved(d, p, q, j, u) PROVE Moved(d, p, q, c, u)
  BY <1>1, <1>2, <1>4 DEF Moved, Untouched, Aside, Placed, Kept, Waits
<1>5. c # NoJournal
  BY <1>1 DEF NoJournal, Shape
<1> QED BY <1>1, <1>2, <1>3, <1>4, <1>5 DEF Finished, c

\* The moves of a loop.
LEMMA MoveArranged ==
  ASSUME NEW p, NEW q, NEW j, Shape(p, q, j),
         NEW d \in [Places -> Copies], NEW e, Arranged(d, p, q, j), NEW u \in Forward(j).units,
         Renames(d, e, Forward(j).from, Forward(j).to, u)
  PROVE  /\ Arranged(e, p, q, j) /\ Moved(e, p, q, j, u)
         /\ \A v \in Units \ {u} : /\ Moved(d, p, q, j, v) => Moved(e, p, q, j, v)
                                   /\ MayMove(d, j, v) => MayMove(e, j, v)
         /\ Forwards(d, p, q, j) => Forwards(e, p, q, j)
<1>1. u \in Units /\ Somewhere(d, p, q, j, u)
  BY Routes, Paths DEF Arranged
<1>2. Forward(j).from \in Places /\ Forward(j).to \in Places
  BY Routes, Paths, BoundsAssumption DEF Root, Places
<1>3. \A v \in Units \ {u} : MayMove(d, j, v) => MayMove(e, j, v)
  BY <1>1, <1>2, RenamesIs DEF MayMove
<1> DEFINE others == \A v \in Units \ {u} :
              /\ Untouched(e, p, q, j, v) <=> Untouched(d, p, q, j, v)
              /\ Aside(e, p, q, j, v) <=> Aside(d, p, q, j, v)
              /\ Placed(e, p, q, j, v) <=> Placed(d, p, q, j, v)
<1>4. CASE Installs(j)
  <2>1. Placed(e, p, q, j, u) /\ others /\ u \in Coming(j)
    BY <1>1, <1>4, Paths, RenameArranged
  <2> QED BY <1>1, <1>3, <1>4, <2>1 DEF Arranged, Somewhere, Moved, Forwards
<1>5. CASE ~Installs(j)
  <2>1. Aside(e, p, q, j, u) /\ others
    BY <1>1, <1>5, Paths, RenameArranged
  <2>2. j.mode # "undo"
    BY <1>5 DEF Installs
  <2> QED BY <1>1, <1>3, <1>5, <2>1, <2>2 DEF Arranged, Somewhere, Moved, Forwards
<1> QED BY <1>4, <1>5

\* A move taken back keeps the arrangement.
LEMMA UnmoveArranged ==
  ASSUME NEW p, NEW q, NEW j, Shape(p, q, j),
         NEW d \in [Places -> Copies], NEW e, Arranged(d, p, q, j), NEW u \in Forward(j).units,
         Renames(d, e, Forward(j).to, Forward(j).from, u)
  PROVE  /\ Arranged(e, p, q, j)
         /\ Installs(j) /\ Forwards(d, p, q, j) => Forwards(e, p, q, j)
<1>1. u \in Units /\ Somewhere(d, p, q, j, u)
  BY Routes, Paths DEF Arranged
<1> DEFINE others == \A v \in Units \ {u} :
              /\ Untouched(e, p, q, j, v) <=> Untouched(d, p, q, j, v)
              /\ Aside(e, p, q, j, v) <=> Aside(d, p, q, j, v)
              /\ Placed(e, p, q, j, v) <=> Placed(d, p, q, j, v)
<1>4. CASE Installs(j)
  <2>1. Aside(e, p, q, j, u) /\ others
    BY <1>1, <1>4, Paths, RenameArranged
  <2> QED BY <1>1, <1>4, <2>1 DEF Arranged, Somewhere, Forwards
<1>5. CASE ~Installs(j)
  <2>1. Untouched(e, p, q, j, u) /\ others
    BY <1>1, <1>5, Paths, RenameArranged
  <2> QED BY <1>1, <1>5, <2>1 DEF Arranged, Somewhere
<1> QED BY <1>4, <1>5

\* The renames of a rollback.
LEMMA LegArranged ==
  ASSUME NEW p, NEW q, NEW j, Shape(p, q, j), NEW n \in 1 .. 2, n <= LastLeg(j),
         NEW d \in [Places -> Copies], NEW e, Arranged(d, p, q, j), NEW u \in Leg(j, n).units,
         Renames(d, e, Leg(j, n).from, Leg(j, n).to, u)
  PROVE  /\ Arranged(e, p, q, j)
         /\ NonePlaced(d, p, q, j) => NonePlaced(e, p, q, j)
         /\ n = 1 /\ TwoLegs(j) /\ Forwards(d, p, q, j) => Forwards(e, p, q, j)
<1>1. u \in Units /\ Somewhere(d, p, q, j, u)
  BY Routes, Paths DEF Arranged
<1> DEFINE others == \A v \in Units \ {u} :
              /\ Untouched(e, p, q, j, v) <=> Untouched(d, p, q, j, v)
              /\ Aside(e, p, q, j, v) <=> Aside(d, p, q, j, v)
              /\ Placed(e, p, q, j, v) <=> Placed(d, p, q, j, v)
<1>n. n = 1 \/ (n = 2 /\ TwoLegs(j))
  BY Paths
<1>r. u \in Coming(j) \/ u \in Leaving(j)
  BY <1>n, Paths
<1>2. CASE n = 1 /\ Installs(j)
  <2>1. Aside(e, p, q, j, u) /\ others
    BY <1>1, <1>2, Paths, RenameArranged
  <2>2. ~Placed(e, p, q, j, u)
    BY <1>1, <1>2, <2>1, Paths DEF Aside, Placed, Shape, Names, Installs
  <2> QED BY <1>1, <2>1, <2>2 DEF Arranged, Somewhere, Forwards, NonePlaced
<1>3. CASE n = 2 \/ ~Installs(j)
  <2>1. /\ Leg(j, n).from = Old(j) /\ Leg(j, n).to = Root /\ u \in Leaving(j)
    BY <1>n, <1>3, Paths
  <2>2. Untouched(e, p, q, j, u) /\ others
    BY <1>1, <2>1, RenameArranged
  <2>3. ~Placed(e, p, q, j, u)
    <3>1. p[u] # Nothing /\ j.mode # "undo"
      BY <1>1, <2>1 DEF Shape, Names, Leaving
    <3> QED BY <2>2, <3>1, <1>1 DEF Placed, Untouched, Kept
  <2>4. ~(n = 1 /\ TwoLegs(j))
    BY <1>3, Paths
  <2> QED BY <1>1, <2>2, <2>3, <2>4 DEF Arranged, Somewhere, NonePlaced
<1> QED BY <1>n, <1>2, <1>3

\* The renames of the steps.
LEMMA RenameRenames ==
  ASSUME NEW from, NEW to, NEW u, CanRename(from, to, u), Rename(from, to, u)
  PROVE  Renames(disk, disk', from, to, u)
  BY DEF CanRename, Rename, Renames

\* Each step keeps the units where the journal says.
LEMMA JournalArrangedStep ==
  ASSUME IInv, AInv, [Next]_vars
  PROVE  JournalArranged'
<1>h. /\ FilesOK /\ ProcessOK /\ TransactionOK /\ DirectoryOK /\ LoopsOK /\ JournalOK(journal)
      /\ JournalArranged /\ MovingOK /\ RollbackOK
  BY DEF IInv, TypeOK, AInv
<1>r. /\ Root \in Places /\ Dirs \subseteq Places /\ Root \notin Dirs
      /\ \A p \in Places : p = Root \/ p \in Dirs
  BY BoundsAssumption DEF Root, Places, Dirs
<1>s. ASSUME UNCHANGED <<disk, journal, pre, post>> PROVE JournalArranged'
  BY <1>s, <1>h DEF JournalArranged, InJournal, IsCommitted
<1>n. ASSUME journal' = NoJournal PROVE JournalArranged'
  BY <1>n DEF JournalArranged, InJournal
<1>1. CASE \E o \in {"recover", "restore", "reset", "undo"} : Call(o)
  BY <1>1, <1>s, <1>n DEF Call
<1>2. CASE Recover \/ RecoveryFails \/ ReconcileSkip \/ ReconcileStops \/ ReconcileNext \/ Check
  BY <1>2, <1>s DEF Recover, RecoveryFails, ReconcileSkip, ReconcileStops, ReconcileNext, Check
<1>3. CASE ReturnRecovery \/ FinishRecovered \/ MoveFails \/ Unmoved \/ MovesDone \/ Observe \/ Crash
  BY <1>3, <1>s DEF ReturnRecovery, FinishRecovered, MoveFails, Unmoved, MovesDone, Observe, Crash
<1>4. CASE StageArchive \/ StartReset \/ QuarantineCurrent \/ UndoRefuses \/ UndoIntoRoot
  BY <1>4, <1>n, <1>h DEF StageArchive, StartReset, QuarantineCurrent, UndoRefuses, UndoIntoRoot,
    CreateQuarantine, Ready, TransactionOK
<1>5. CASE UndoBySwap \/ Clean \/ PlayGame
  BY <1>5, <1>n, <1>h DEF UndoBySwap, CreateQuarantine, Clean, PlayGame, Ready, TransactionOK
<1>6. CASE RecoveryClears
  BY <1>6, <1>s, <1>n DEF RecoveryClears
<1>7. CASE FinishClears
  BY <1>7, <1>s, <1>n DEF FinishClears
<1>8. CASE Begin \/ UpdateTransaction
  <2>1. /\ UNCHANGED <<disk, pre, post>> /\ journal' \in {journal, tx}
        /\ Shape(pre, post, tx) /\ tx.state = "precommit" /\ Arranged(disk, pre, post, tx)
    BY <1>8, <1>h DEF Begin, UpdateTransaction, MovingOK, Poised
  <2>2. CASE journal' = journal
    BY <2>1, <2>2, <1>s
  <2>3. CASE journal' = tx
    BY <2>1, <2>3 DEF JournalArranged, InJournal, IsCommitted
  <2> QED BY <2>1, <2>2, <2>3
<1>9. CASE Commit
  <2>1. /\ UNCHANGED <<disk, pre, post>> /\ journal' \in {journal, Committed(journal)}
        /\ Shape(pre, post, journal) /\ Finished(disk, pre, post, journal)
    BY <1>9, <1>h DEF Commit, MovingOK, JournalArranged
  <2>2. CASE journal' = journal
    BY <2>1, <2>2, <1>s
  <2>3. CASE journal' = Committed(journal)
    BY <2>1, <2>3, CommittedIs DEF JournalArranged, InJournal, IsCommitted
  <2> QED BY <2>1, <2>2, <2>3
<1>10. CASE ReconcileRename
  <2>1. /\ UNCHANGED <<journal, pre, post>> /\ Shape(pre, post, journal)
        /\ Arranged(disk, pre, post, journal) /\ ~IsCommitted /\ leg <= LastLeg(journal)
        /\ First(left) \in Leg(journal, leg).units /\ leg \in 1 .. 2
        /\ Renames(disk, disk', Leg(journal, leg).from, Leg(journal, leg).to, First(left))
    BY <1>10, <1>h, FirstIsMember, RenameRenames
    DEF ReconcileRename, RollbackOK, JournalArranged, LoopsOK, ProcessOK, LegFrom, LegTo
  <2>2. Arranged(disk', pre, post, journal)
    BY <2>1, <1>h, LegArranged DEF FilesOK
  <2> QED BY <2>1, <2>2 DEF JournalArranged, InJournal, IsCommitted
<1>11. CASE MoveUnit
  <2>1. /\ UNCHANGED <<journal, pre, post>> /\ Shape(pre, post, journal)
        /\ Arranged(disk, pre, post, journal) /\ ~IsCommitted
        /\ First(left) \in Forward(journal).units
        /\ Renames(disk, disk', Forward(journal).from, Forward(journal).to, First(left))
    BY <1>11, <1>h, FirstIsMember, RenameRenames
    DEF MoveUnit, MovingOK, JournalArranged, LoopsOK, ProcessOK, MoveFrom, MoveTo
  <2>2. Arranged(disk', pre, post, journal)
    BY <2>1, <1>h, MoveArranged DEF FilesOK
  <2> QED BY <2>1, <2>2 DEF JournalArranged, InJournal, IsCommitted
<1>12. CASE Unmove
  <2>1. /\ UNCHANGED <<journal, pre, post>> /\ Shape(pre, post, journal)
        /\ Arranged(disk, pre, post, journal) /\ ~IsCommitted
        /\ Last(moved) \in Forward(journal).units
        /\ \/ UNCHANGED disk
           \/ Renames(disk, disk', Forward(journal).to, Forward(journal).from, Last(moved))
    BY <1>12, <1>h, FirstIsMember, RenameRenames
    DEF Unmove, MovingOK, JournalArranged, LoopsOK, ProcessOK, MoveFrom, MoveTo
  <2>2. CASE UNCHANGED disk
    BY <2>1, <2>2, <1>s
  <2>3. CASE Renames(disk, disk', Forward(journal).to, Forward(journal).from, Last(moved))
    <3>1. Arranged(disk', pre, post, journal)
      BY <2>1, <2>3, <1>h, UnmoveArranged DEF FilesOK
    <3> QED BY <2>1, <3>1 DEF JournalArranged, InJournal, IsCommitted
  <2> QED BY <2>1, <2>2, <2>3
<1>13. CASE ReturnFailure
  <2> DEFINE gone == {d \in Dirs :
                        \/ (d = dir /\ FailedStagingGoes)
                        \/ (d = tx.first /\ then = "drop" /\ pc = "recovered")}
  <2>1. /\ disk' = [p \in Places |-> IF p \in gone THEN Empty ELSE disk[p]]
        /\ UNCHANGED <<journal, pre, post>> /\ pc \in {"recovered", "stopped"}
        /\ then \in {"fail", "drop"}
    BY <1>13 DEF ReturnFailure, Recovered
  <2>2. CASE journal = NoJournal
    BY <2>1, <2>2, <1>n
  <2>3. CASE journal # NoJournal
    <3>1. pc = "stopped"
      BY <2>1, <2>3, <1>h DEF TransactionOK
    <3>2. gone = {} \/ (gone = {dir} /\ journal = tx /\ tx.mode = "quarantine"
                          /\ kind[dir] = "staging" /\ dir \in Dirs)
      BY <3>1, <2>3, <2>1, <1>h, <1>r
      DEF FailedStagingGoes, TransactionOK, DirectoryOK, Recovering
    <3>3. Shape(pre, post, journal)
      BY <2>3, <1>h DEF JournalArranged, InJournal
    <3>4. /\ disk'[Root] = disk[Root] /\ disk'[journal.first] = disk[journal.first]
          /\ journal.second # Root => disk'[journal.second] = disk[journal.second]
      <4>1. journal.first \in Dirs /\ journal.second \in Places
        BY <3>3 DEF Shape, Journals
      <4>2. CASE gone = {}
        BY <4>1, <4>2, <2>1, <1>r
      <4>3. CASE gone = {dir} /\ journal = tx /\ tx.mode = "quarantine"
                   /\ kind[dir] = "staging" /\ dir \in Dirs
        <5>1. journal.second = Root /\ journal.first # dir
          BY <4>3, <3>3, <1>h DEF Shape, JournalOK, IsQuarantine
        <5> QED BY <4>1, <4>3, <5>1, <2>1, <1>r
      <4> QED BY <3>2, <4>2, <4>3
    <3>5. /\ Arranged(disk', pre, post, journal) <=> Arranged(disk, pre, post, journal)
          /\ Finished(disk', pre, post, journal) <=> Finished(disk, pre, post, journal)
      BY <3>3, <3>4, SameDirectories
    <3> QED BY <2>1, <2>3, <3>5, <1>h DEF JournalArranged, InJournal, IsCommitted
  <2> QED BY <2>2, <2>3
<1>14. CASE UNCHANGED vars
  BY <1>14, <1>s DEF vars
<1> QED
  BY <1>1, <1>2, <1>3, <1>4, <1>5, <1>6, <1>7, <1>8, <1>9, <1>10, <1>11, <1>12, <1>13, <1>14 DEF Next

\* The records of transactions that are about to move.
LEMMA InstallPoised ==
  ASSUME NEW d, NEW p, NEW q, NEW f \in Dirs, NEW s \in Places, s # f,
         NEW U \in SUBSET Units, NEW V \in SUBSET Units, s = Root => V = {},
         \A u \in Units : d[Root][u] = Nothing /\ d[f][u] = q[u],
         \A u \in Units : (u \in U <=> q[u] # Nothing) /\ (u \in V <=> p[u] # Nothing),
         s # Root => \A u \in Units : d[s][u] = p[u]
  PROVE  Poised(d, p, q, Record("install", f, s, U, V))
<1> DEFINE j == Record("install", f, s, U, V)
<1>1. /\ j.mode = "install" /\ j.first = f /\ j.second = s /\ j.units1 = U /\ j.units2 = V
      /\ j.state = "precommit" /\ j \in Journals
  BY BoundsAssumption DEF Record, Journals, Modes, Places, Dirs
<1> HIDE DEF j
<1>2. /\ Old(j) = s /\ New(j) = f /\ Leaving(j) = V /\ Coming(j) = U /\ Installs(j) /\ f # Root
      /\ Forward(j).from = f /\ Forward(j).to = Root /\ Forward(j).units = U
  BY <1>1, BoundsAssumption DEF Old, New, Leaving, Coming, Installs, Forward, Dirs, Root
<1>3. \A u \in Units : Aside(d, p, q, j, u)
  BY <1>2 DEF Aside, Kept, Waits
<1>4. Shape(p, q, j)
  BY <1>1, <1>2 DEF Shape, Names
<1> QED BY <1>1, <1>2, <1>3, <1>4 DEF Poised, Arranged, Somewhere, Halfway, MayMove, Moved, j

\* A record that puts the save into a new quarantine is poised.
LEMMA QuarantinePoised ==
  ASSUME NEW d, NEW p, NEW q, NEW f \in Dirs, NEW U \in SUBSET Units, NEW j,
         j = [Record("quarantine", Root, Root, U, {}) EXCEPT !.first = f],
         \A u \in Units : (u \in U <=> p[u] # Nothing) /\ d[Root][u] = p[u] /\ d[f][u] = Nothing
  PROVE  Poised(d, p, q, j)
<1>1. /\ j.mode = "quarantine" /\ j.first = f /\ j.second = Root /\ j.units1 = U
      /\ j.state = "precommit" /\ j \in Journals
  BY BoundsAssumption DEF Record, Journals, Modes, Places, Dirs, Root
<1>2. /\ Old(j) = f /\ New(j) = Root /\ Leaving(j) = U /\ Coming(j) = {} /\ ~Installs(j) /\ f # Root
      /\ Forward(j).from = Root /\ Forward(j).to = f /\ Forward(j).units = U
  BY <1>1, BoundsAssumption DEF Old, New, Leaving, Coming, Installs, Forward, Dirs, Root
<1>3. /\ \A u \in Units : Untouched(d, p, q, j, u)
      /\ \A u \in Units \ U : Aside(d, p, q, j, u)
  BY <1>2 DEF Untouched, Aside, Kept, Waits
<1>4. Shape(p, q, j)
  BY <1>1, <1>2 DEF Shape, Names
<1> QED BY <1>1, <1>2, <1>3, <1>4 DEF Poised, Arranged, Somewhere, Halfway, MayMove, Moved

\* A record that brings a quarantine's units back beside others is poised.
LEMMA UndoPoised ==
  ASSUME NEW d, NEW p, NEW q, NEW f \in Dirs, NEW U \in SUBSET Units,
         \A u \in Units : /\ d[Root][u] = p[u]
                          /\ u \in U <=> d[f][u] # Nothing
                          /\ u \in U => p[u] = Nothing
                          /\ q[u] = IF u \in U THEN d[f][u] ELSE p[u]
  PROVE  Poised(d, p, q, Record("undo", f, Root, U, {}))
<1> DEFINE j == Record("undo", f, Root, U, {})
<1>1. /\ j.mode = "undo" /\ j.first = f /\ j.second = Root /\ j.units1 = U
      /\ j.state = "precommit" /\ j \in Journals
  BY BoundsAssumption DEF Record, Journals, Modes, Places, Dirs, Root
<1> HIDE DEF j
<1>2. /\ Old(j) = Root /\ New(j) = f /\ Leaving(j) = {} /\ Coming(j) = U /\ Installs(j) /\ f # Root
      /\ Forward(j).from = f /\ Forward(j).to = Root /\ Forward(j).units = U
  BY <1>1, BoundsAssumption DEF Old, New, Leaving, Coming, Installs, Forward, Dirs, Root
<1>3. \A u \in Units : Untouched(d, p, q, j, u)
  BY <1>2 DEF Untouched, Waits
<1>4. Shape(p, q, j)
  BY <1>1, <1>2 DEF Shape, Names
<1> QED BY <1>1, <1>2, <1>3, <1>4 DEF Poised, Arranged, Somewhere, Halfway, MayMove, Moved, j

\* A record that puts the save aside for a quarantine's is poised.
LEMMA DisplacePoised ==
  ASSUME NEW d, NEW p, NEW q, NEW f \in Dirs, NEW s \in Dirs, f # s, NEW U \in SUBSET Units,
         NEW V \in SUBSET Units, NEW j,
         j = [Record("displace", Root, s, U, V) EXCEPT !.first = f],
         \A u \in Units : (u \in U <=> p[u] # Nothing) /\ d[Root][u] = p[u] /\ d[f][u] = Nothing,
         \A u \in Units : (u \in V <=> q[u] # Nothing) /\ d[s][u] = q[u]
  PROVE  Poised(d, p, q, j)
<1>1. /\ j.mode = "displace" /\ j.first = f /\ j.second = s /\ j.units1 = U /\ j.units2 = V
      /\ j.state = "precommit" /\ j \in Journals
  BY BoundsAssumption DEF Record, Journals, Modes, Places, Dirs, Root
<1>2. /\ Old(j) = f /\ New(j) = s /\ Leaving(j) = U /\ Coming(j) = V /\ ~Installs(j) /\ f # Root
      /\ Forward(j).from = Root /\ Forward(j).to = f /\ Forward(j).units = U
  BY <1>1, BoundsAssumption DEF Old, New, Leaving, Coming, Installs, Forward, Dirs, Root
<1>3. /\ \A u \in Units : Untouched(d, p, q, j, u)
      /\ \A u \in Units \ U : Aside(d, p, q, j, u)
  BY <1>2 DEF Untouched, Aside, Kept, Waits
<1>4. Shape(p, q, j)
  BY <1>1, <1>2 DEF Shape, Names
<1> QED BY <1>1, <1>2, <1>3, <1>4 DEF Poised, Arranged, Somewhere, Halfway, MayMove, Moved

\* Where a loop over all of its units leaves them.
LEMMA HalfwayDone ==
  ASSUME NEW d, NEW p, NEW q, NEW j, Shape(p, q, j), Halfway(d, p, q, j, {})
  PROVE  /\ \A u \in Units : Moved(d, p, q, j, u)
         /\ ~Installs(j) => \A u \in Units : Aside(d, p, q, j, u)
         /\ Installs(j) => \A u \in Units : d[Root][u] = q[u]
<1>1. \A u \in Units : Moved(d, p, q, j, u)
  BY DEF Halfway
<1>2. ~Installs(j) => \A u \in Units : Aside(d, p, q, j, u)
  BY <1>1 DEF Moved, Installs
<1>3. ASSUME Installs(j), NEW u \in Units PROVE d[Root][u] = q[u]
  <2>1. CASE u \in Coming(j)
    BY <1>1, <1>3, <2>1 DEF Moved, Placed
  <2>2. CASE u \notin Coming(j)
    BY <1>1, <1>3, <2>2 DEF Moved, Untouched, Aside, Shape, Names, Installs
  <2> QED BY <2>1, <2>2
<1> QED BY <1>1, <1>2, <1>3

\* With the save aside, the swap is poised.
LEMMA SwapPoised ==
  ASSUME NEW d, NEW p, NEW q, NEW j, Shape(p, q, j), j.mode = "displace", j.state = "precommit",
         \A u \in Units : Aside(d, p, q, j, u)
  PROVE  Poised(d, p, q, [j EXCEPT !.mode = "swap"])
<1> DEFINE k == [j EXCEPT !.mode = "swap"]
<1>1. /\ k.mode = "swap" /\ k.first = j.first /\ k.second = j.second /\ k.units1 = j.units1
      /\ k.units2 = j.units2 /\ k.state = "precommit" /\ k \in Journals
  BY DEF Shape, Journals, Modes
<1> HIDE DEF k
<1>2. /\ Old(k) = Old(j) /\ New(k) = New(j) /\ Leaving(k) = Leaving(j) /\ Coming(k) = Coming(j)
      /\ Installs(k) /\ New(j) # Root /\ New(j) = j.second
      /\ Forward(k).from = New(j) /\ Forward(k).to = Root /\ Forward(k).units = Coming(j)
  BY <1>1, BoundsAssumption DEF Shape, Old, New, Leaving, Coming, Installs, Forward, Dirs, Root
<1>3. \A u \in Units : Aside(d, p, q, k, u)
  BY <1>2 DEF Aside, Kept, Waits
<1>4. Shape(p, q, k)
  BY <1>1, <1>2 DEF Shape, Names
<1>5. \A u \in Coming(j) \cap Units : d[New(j)][u] # Nothing /\ d[Root][u] = Nothing
  BY <1>2, <1>4, <1>1, <1>3 DEF Aside, Waits, Shape, Names
<1> QED BY <1>1, <1>2, <1>3, <1>4, <1>5 DEF Poised, Arranged, Somewhere, Halfway, MayMove, Moved, k

\* Each step keeps what the process knows of its moves.
LEMMA MovingStep ==
  ASSUME IInv, AInv, [Next]_vars
  PROVE  MovingOK'
<1>h. /\ FilesOK /\ ProcessOK /\ HistoryOK /\ TransactionOK /\ DirectoryOK /\ LoopsOK /\ DirsOK
      /\ JournalOK(journal) /\ JournalArranged /\ MovingOK /\ StagedOK
  BY DEF IInv, TypeOK, AInv
<1>r. /\ Root \in Places /\ Dirs \subseteq Places /\ Root \notin Dirs
      /\ \A p \in Places : p = Root \/ p \in Dirs
  BY BoundsAssumption DEF Root, Places, Dirs
<1>o. ASSUME pc' \notin {"quarantine", "begin", "phase", "move", "unmove", "commit", "observe", "finish"}
      PROVE  MovingOK'
  BY <1>o DEF MovingOK
<1>1. CASE \E o \in {"recover", "restore", "reset", "undo"} : Call(o)
  BY <1>1, <1>o DEF Call
<1>2. CASE Recover \/ RecoveryFails \/ ReconcileSkip \/ ReconcileStops \/ ReconcileRename \/ ReconcileNext
  BY <1>2, <1>o DEF Recover, RecoveryFails, ReconcileSkip, ReconcileStops, ReconcileRename, ReconcileNext
<1>3. CASE Check \/ RecoveryClears \/ ReturnRecovery \/ ReturnFailure \/ FinishRecovered \/ UndoRefuses
  BY <1>3, <1>o DEF Check, RecoveryClears, ReturnRecovery, ReturnFailure, FinishRecovered, FinishFails,
    UndoRefuses, Return
<1>4. CASE Unmoved \/ Observe \/ FinishClears \/ Clean \/ Crash \/ PlayGame
  BY <1>4, <1>o DEF Unmoved, Observe, FinishClears, Clean, Crash, PlayGame, RollBack, FinishFails, Return
<1>5. CASE StageArchive
  <2>1. PICK U \in Snapshots \ {{}}, d \in Free :
          /\ Begins(Of(Archived, U))
          /\ \/ /\ disk' = [disk EXCEPT ![d] = Of(Archived, U)]
                /\ \/ Held(Root) = {} /\ pc' = "begin" /\ tx' = Record("install", d, Root, U, {})
                   \/ pc' = "quarantine"
             \/ pc' = "idle"
    BY <1>5 DEF StageArchive, Return
  <2>2. CASE pc' = "idle"
    BY <2>2, <1>o
  <2>3. CASE disk' = [disk EXCEPT ![d] = Of(Archived, U)] /\ pc' \in {"begin", "quarantine"}
    <3>1. /\ d \in Dirs /\ disk'[Root] = disk[Root] /\ disk'[d] = Of(Archived, U)
          /\ U \in SUBSET Units
      BY <2>3, <1>h, <1>r DEF Free, FilesOK, Snapshots
    <3>2. pre' = disk[Root] /\ post' = Of(Archived, U)
      BY <2>1 DEF Begins
    <3>3. CASE pc' = "quarantine"
      BY <3>1, <3>2, <3>3 DEF MovingOK
    <3>4. CASE Held(Root) = {} /\ pc' = "begin" /\ tx' = Record("install", d, Root, U, {})
      <4>1. \A u \in Units : /\ disk'[Root][u] = Nothing /\ disk'[d][u] = post'[u]
                             /\ pre'[u] = Nothing /\ (u \in U <=> post'[u] # Nothing)
        BY <3>1, <3>2, <3>4 DEF Held, Of, Archived, Nothing
      <4>2. Poised(disk', pre', post', tx')
        BY <4>1, <3>1, <3>4, <1>r, InstallPoised
      <4> QED BY <3>1, <3>2, <3>4, <4>2 DEF MovingOK
    <3> QED BY <2>1, <2>3, <3>3, <3>4
  <2> QED BY <2>1, <2>2, <2>3
<1>6. CASE StartReset
  BY <1>6 DEF StartReset, Begins, Return, MovingOK
<1>7. CASE QuarantineCurrent
  <2>1. CASE pc' = "idle"
    BY <2>1, <1>o
  <2>2. CASE pc' # "idle"
    <3>1. PICK d \in Free :
            /\ tx' = [Record("quarantine", Root, Root, Held(Root), {}) EXCEPT !.first = d]
            /\ pc' = "begin" /\ UNCHANGED <<disk, pre, post>> /\ disk[Root] = pre
      BY <2>2, <1>7, <1>h DEF QuarantineCurrent, CreateQuarantine, Return, MovingOK
    <3>2. d \in Dirs /\ disk[d] = Empty
      BY <1>h DEF Free, DirsOK
    <3>3. \A u \in Units : /\ u \in Held(Root) <=> pre[u] # Nothing
                           /\ disk[Root][u] = pre[u] /\ disk[d][u] = Nothing
      BY <3>1, <3>2 DEF Held, Empty
    <3>4. Held(Root) \in SUBSET Units
      BY DEF Held
    <3>5. Poised(disk, pre, post, tx')
      BY <3>1, <3>2, <3>3, <3>4, QuarantinePoised
    <3> QED BY <3>1, <3>5 DEF MovingOK
  <2> QED BY <2>1, <2>2
<1>8. CASE UndoIntoRoot
  <2>1. PICK q \in Dirs :
          /\ Held(q) = listed[q] /\ listed[q] \intersect Held(Root) = {}
          /\ tx' = Record("undo", q, Root, listed[q], {}) /\ pc' = "begin"
          /\ pre' = disk[Root] /\ UNCHANGED disk
          /\ post' = [u \in Units |-> IF u \in listed[q] THEN disk[q][u] ELSE disk[Root][u]]
    BY <1>8 DEF UndoIntoRoot, Undoable, Begins
  <2>2. \A u \in Units : /\ disk[Root][u] = pre'[u]
                         /\ u \in listed[q] <=> disk[q][u] # Nothing
                         /\ u \in listed[q] => pre'[u] = Nothing
                         /\ post'[u] = IF u \in listed[q] THEN disk[q][u] ELSE pre'[u]
    BY <2>1 DEF Held
  <2>3. Poised(disk, pre', post', tx')
    BY <2>1, <2>2, <1>h, UndoPoised DEF FilesOK
  <2> QED BY <2>1, <2>3 DEF MovingOK
<1>9. CASE UndoBySwap
  <2>1. CASE pc' = "idle"
    BY <2>1, <1>o
  <2>2. CASE pc' # "idle"
    <3>1. PICK q \in Dirs, d \in Free :
            /\ Undoable(q) /\ pc' = "begin" /\ UNCHANGED disk
            /\ tx' = [Record("displace", Root, q, Held(Root), listed[q]) EXCEPT !.first = d]
            /\ pre' = disk[Root] /\ post' = disk[q]
      BY <2>2, <1>9 DEF UndoBySwap, CreateQuarantine, Return, Begins
    <3>2. d \in Dirs /\ disk[d] = Empty /\ d # q
      BY <3>1, <1>h DEF Free, DirsOK, Undoable, IsQuarantine
    <3>3. /\ \A u \in Units : /\ u \in Held(Root) <=> pre'[u] # Nothing
                              /\ disk[Root][u] = pre'[u] /\ disk[d][u] = Nothing
          /\ \A u \in Units : (u \in listed[q] <=> post'[u] # Nothing) /\ disk[q][u] = post'[u]
      BY <3>1, <3>2 DEF Held, Empty, Undoable
    <3>4. Held(Root) \in SUBSET Units /\ listed[q] \in SUBSET Units
      BY <1>h DEF Held, FilesOK
    <3>5. Poised(disk, pre', post', tx')
      <4> DEFINE j == tx'
      <4>1. j = [Record("displace", Root, q, Held(Root), listed[q]) EXCEPT !.first = d]
        BY <3>1
      <4> HIDE DEF j
      <4>2. Poised(disk, pre', post', j)
        BY <4>1, <3>2, <3>3, <3>4, DisplacePoised
      <4> QED BY <4>2 DEF j
    <3> QED BY <3>1, <3>5 DEF MovingOK
  <2> QED BY <2>1, <2>2
<1>10. CASE Begin
  <2>1. CASE pc' \in {"recover", "idle"}
    BY <2>1, <1>o
  <2>2. CASE pc' = "move"
    <3>1. /\ journal' = tx /\ tx' = tx /\ left' = Forward(tx).units /\ UNCHANGED <<disk, pre, post>>
          /\ Poised(disk, pre, post, tx)
      BY <2>2, <1>10, <1>h DEF Begin, StartMoves, RollBack, Return, MovingOK
    <3> QED BY <2>2, <3>1 DEF MovingOK, Poised, InJournal, IsCommitted, Shape, NoJournal
  <2> QED BY <1>10, <2>1, <2>2 DEF Begin, StartMoves, RollBack, Return
<1>11. CASE UpdateTransaction
  <2>1. CASE pc' = "recover"
    BY <2>1, <1>o
  <2>2. CASE pc' = "move"
    <3>1. /\ journal' = tx /\ tx' = tx /\ left' = Forward(tx).units /\ UNCHANGED <<disk, pre, post>>
          /\ Poised(disk, pre, post, tx)
      BY <2>2, <1>11, <1>h DEF UpdateTransaction, StartMoves, RollBack, MovingOK
    <3> QED BY <2>2, <3>1 DEF MovingOK, Poised, InJournal, IsCommitted, Shape, NoJournal
  <2> QED BY <1>11, <2>1, <2>2 DEF UpdateTransaction, StartMoves, RollBack
<1>12. CASE MoveUnit
  <2>1. /\ UNCHANGED <<journal, tx, pre, post>> /\ journal = tx /\ InJournal /\ ~IsCommitted
        /\ pc' \in {"move", "unmove"}
        /\ pc' = "move" => left' = left \ {First(left)}
        /\ Halfway(disk, pre, post, tx, left)
    BY <1>12, <1>h DEF MoveUnit, MovingOK
  <2>2. /\ Shape(pre, post, tx) /\ Arranged(disk, pre, post, tx)
        /\ First(left) \in left /\ First(left) \in Forward(tx).units
        /\ Renames(disk, disk', Forward(tx).from, Forward(tx).to, First(left))
    BY <2>1, <1>12, <1>h, FirstIsMember, RenameRenames
    DEF MoveUnit, JournalArranged, LoopsOK, ProcessOK, MoveFrom, MoveTo
  <2>3. /\ Moved(disk', pre, post, tx, First(left))
        /\ \A v \in Units \ {First(left)} :
             /\ Moved(disk, pre, post, tx, v) => Moved(disk', pre, post, tx, v)
             /\ MayMove(disk, tx, v) => MayMove(disk', tx, v)
    BY <2>2, <1>h, MoveArranged DEF FilesOK
  <2>4. Halfway(disk', pre, post, tx, left \ {First(left)})
    BY <2>1, <2>3 DEF Halfway
  <2> QED BY <2>1, <2>4 DEF MovingOK, InJournal, IsCommitted
<1>13. CASE MoveFails \/ Unmove
  BY <1>13, <1>h DEF MoveFails, Unmove, MovingOK, InJournal, IsCommitted
<1>14. CASE MovesDone
  <2>1. /\ UNCHANGED <<disk, journal, pre, post, op, dir>> /\ journal = tx /\ InJournal /\ ~IsCommitted
        /\ Halfway(disk, pre, post, tx, {}) /\ pc = "move"
    BY <1>14, <1>h DEF MovesDone, MovingOK
  <2>2. Shape(pre, post, tx)
    BY <2>1, <1>h DEF JournalArranged
  <2>3. /\ \A u \in Units : Moved(disk, pre, post, tx, u)
        /\ ~Installs(tx) => \A u \in Units : Aside(disk, pre, post, tx, u)
        /\ Installs(tx) => \A u \in Units : disk[Root][u] = post[u]
    BY <2>1, <2>2, HalfwayDone
  <2>4. CASE tx.mode = "displace" /\ pc' = "phase" /\ tx' = NextPhase
    <3>1. tx' = [tx EXCEPT !.mode = "swap"] /\ tx.state = "precommit"
      BY <2>1, <2>2, <2>4 DEF NextPhase, IsCommitted, Shape, Journals
    <3>2. Poised(disk, pre, post, tx')
      BY <2>2, <2>3, <2>4, <3>1, SwapPoised DEF Installs
    <3> QED BY <2>1, <2>4, <3>2 DEF MovingOK, InJournal, IsCommitted
  <2>5. CASE tx.mode = "quarantine" /\ op = "restore" /\ pc' = "phase" /\ tx' = NextPhase
    <3>1. tx' = Record("install", dir, tx.first, Held(dir), tx.units1)
      BY <2>5 DEF NextPhase
    <3>2. dir \in Dirs /\ disk[dir] = post /\ kind[dir] = "staging" /\ IsQuarantine(tx.first)
      BY <2>1, <2>5, <1>h, <1>r DEF StagedOK, ToQuarantine, DirectoryOK, JournalOK
    <3>3. /\ tx.first \in Dirs /\ tx.first # dir /\ tx.first # Root /\ tx.first \in Places
          /\ Old(tx) = tx.first /\ Leaving(tx) = tx.units1 /\ tx.units1 \in SUBSET Units
          /\ Held(dir) \in SUBSET Units /\ ~Installs(tx)
      BY <2>2, <2>5, <3>2, <1>r DEF Shape, IsQuarantine, Old, Leaving, Journals, Held, Installs
    <3>4. \A u \in Units : /\ disk[Root][u] = Nothing /\ disk[dir][u] = post[u]
                           /\ u \in Held(dir) <=> post[u] # Nothing
                           /\ u \in tx.units1 <=> pre[u] # Nothing
                           /\ disk[tx.first][u] = pre[u]
      BY <2>2, <2>3, <2>5, <3>2, <3>3 DEF Aside, Kept, Held, Shape, Names
    <3>5. Poised(disk, pre, post, tx')
      BY <3>1, <3>2, <3>3, <3>4, InstallPoised
    <3> QED BY <2>1, <2>5, <3>5 DEF MovingOK, InJournal, IsCommitted
  <2>6. CASE /\ ~(tx.mode = "displace" \/ (tx.mode = "quarantine" /\ op = "restore"))
             /\ pc' = "commit" /\ tx' = tx
    <3>1. \A u \in Units : disk[Root][u] = post[u]
      <4>1. CASE Installs(tx)
        BY <2>3, <4>1
      <4>2. CASE ~Installs(tx)
        <5>1. tx.mode = "quarantine"
          BY <2>2, <2>6, <4>2, Routes
        <5>2. op = "reset"
          BY <2>1, <2>6, <5>1, <1>h DEF StagedOK, Preparing, TransactionOK
        <5>3. post = Empty
          BY <2>1, <5>2, <1>h DEF StagedOK, Preparing
        <5> QED BY <2>3, <4>2, <5>3 DEF Aside, Empty
      <4> QED BY <4>1, <4>2
    <3>2. disk[Root] = post
      BY <3>1, <1>h, <1>r DEF FilesOK, HistoryOK, Copies
    <3>3. Finished(disk, pre, post, tx)
      BY <2>3, <2>6, <3>2 DEF Finished
    <3> QED BY <2>1, <2>6, <3>3 DEF MovingOK, InJournal, IsCommitted
  <2> QED BY <1>14, <2>4, <2>5, <2>6 DEF MovesDone
<1>15. CASE Commit
  <2>1. /\ journal = tx /\ InJournal /\ UNCHANGED tx
        /\ \/ pc' = "finish" /\ journal' = Committed(journal)
           \/ pc' = "observe" /\ journal' \in {journal, Committed(journal)}
           \/ pc' \in {"idle", "recover"}
    BY <1>15, <1>h DEF Commit, MovingOK, FinishFails, Return
  <2>2. Committed(journal) # NoJournal /\ Committed(journal).state = "committed"
    BY <2>1, <1>h, CommittedIs DEF JournalArranged
  <2> QED BY <2>1, <2>2, <1>o DEF MovingOK, InJournal, IsCommitted
<1>16. CASE UNCHANGED vars
  BY <1>16, <1>h DEF vars, MovingOK, InJournal, IsCommitted
<1> QED
  BY <1>1, <1>2, <1>3, <1>4, <1>5, <1>6, <1>7, <1>8, <1>9, <1>10, <1>11, <1>12, <1>13, <1>14,
     <1>15, <1>16 DEF Next

\* Each step keeps the archive whole in its staging directory.
LEMMA StagedStep ==
  ASSUME IInv, AInv, [Next]_vars
  PROVE  StagedOK'
<1>h. /\ FilesOK /\ ProcessOK /\ TransactionOK /\ DirectoryOK /\ LoopsOK
      /\ JournalOK(journal) /\ JournalArranged /\ MovingOK /\ StagedOK
  BY DEF IInv, TypeOK, AInv
<1>r. /\ Root \in Places /\ Dirs \subseteq Places /\ Root \notin Dirs
  BY BoundsAssumption DEF Root, Places, Dirs
<1>o. ASSUME pc' \notin {"quarantine", "begin", "phase", "move"} PROVE StagedOK'
  BY <1>o DEF StagedOK, Preparing, ToQuarantine
<1>1. CASE \E o \in {"recover", "restore", "reset", "undo"} : Call(o)
  BY <1>1, <1>o DEF Call
<1>2. CASE Recover \/ RecoveryFails \/ ReconcileSkip \/ ReconcileStops \/ ReconcileRename \/ ReconcileNext
  BY <1>2, <1>o DEF Recover, RecoveryFails, ReconcileSkip, ReconcileStops, ReconcileRename, ReconcileNext
<1>3. CASE Check \/ RecoveryClears \/ ReturnRecovery \/ ReturnFailure \/ FinishRecovered \/ UndoRefuses
  BY <1>3, <1>o DEF Check, RecoveryClears, ReturnRecovery, ReturnFailure, FinishRecovered, FinishFails,
    UndoRefuses, Return
<1>4. CASE Unmoved \/ Observe \/ FinishClears \/ Clean \/ Crash \/ PlayGame \/ MoveFails \/ Unmove
  BY <1>4, <1>o DEF Unmoved, Observe, FinishClears, Clean, Crash, PlayGame, RollBack, FinishFails, Return,
    MoveFails, Unmove
<1>5. CASE Commit
  BY <1>5, <1>o DEF Commit, FinishFails, Return
<1>6. CASE StageArchive
  <2>1. PICK U \in Snapshots \ {{}}, d \in Free :
          /\ Begins(Of(Archived, U))
          /\ \/ /\ disk' = [disk EXCEPT ![d] = Of(Archived, U)] /\ dir' = d /\ UNCHANGED op
                /\ \/ pc' = "begin" /\ tx' = Record("install", d, Root, U, {})
                   \/ pc' = "quarantine"
             \/ pc' = "idle"
    BY <1>6 DEF StageArchive, Return
  <2>2. op = "restore" /\ d \in Dirs /\ post' = Of(Archived, U)
    BY <2>1, <1>6 DEF StageArchive, Ready, Free, Begins
  <2>3. CASE pc' = "idle"
    BY <2>3, <1>o
  <2>4. CASE disk' = [disk EXCEPT ![d] = Of(Archived, U)] /\ dir' = d /\ UNCHANGED op
    <3>1. disk'[d] = post' /\ dir' = d /\ op' = "restore"
      BY <2>2, <2>4, <1>h, <1>r DEF FilesOK
    <3>2. tx' = Record("install", d, Root, U, {}) => tx'.mode = "install"
      BY DEF Record
    <3> QED BY <2>1, <2>2, <2>3, <3>1, <3>2 DEF StagedOK, Preparing, ToQuarantine
  <2> QED BY <2>1, <2>3, <2>4
<1>7. CASE StartReset
  BY <1>7, <1>o DEF StartReset, Ready, Begins, Return, StagedOK, Preparing, ToQuarantine
<1>8. CASE QuarantineCurrent
  <2>1. CASE pc' = "idle"
    BY <2>1, <1>o
  <2>2. CASE pc' # "idle"
    <3>1. PICK d \in Free :
            /\ tx' = [Record("quarantine", Root, Root, Held(Root), {}) EXCEPT !.first = d]
            /\ pc' = "begin" /\ UNCHANGED <<disk, pre, post, op, dir>> /\ pc = "quarantine"
      BY <2>2, <1>8 DEF QuarantineCurrent, CreateQuarantine, Return
    <3>2. tx'.mode = "quarantine"
      BY <3>1 DEF Record
    <3> QED BY <3>1, <3>2, <1>h DEF StagedOK, Preparing, ToQuarantine
  <2> QED BY <2>1, <2>2
<1>9. CASE UndoIntoRoot
  BY <1>9 DEF UndoIntoRoot, Ready, StagedOK, Preparing
<1>10. CASE UndoBySwap
  <2>1. pc' = "idle" \/ op' = "undo"
    BY <1>10 DEF UndoBySwap, CreateQuarantine, Ready, Return
  <2> QED BY <2>1, <1>o DEF StagedOK, Preparing
<1>11. CASE Begin
  <2>1. CASE pc' \in {"recover", "idle"}
    BY <2>1, <1>o
  <2>2. CASE pc' = "move"
    BY <2>2, <1>11, <1>h DEF Begin, StartMoves, RollBack, Return, StagedOK, Preparing, ToQuarantine
  <2> QED BY <1>11, <2>1, <2>2 DEF Begin, StartMoves, RollBack, Return
<1>12. CASE UpdateTransaction
  <2>1. CASE pc' = "recover"
    BY <2>1, <1>o
  <2>2. CASE pc' = "move"
    <3>1. pc = "phase" /\ UNCHANGED <<op, tx, post>> /\ tx.mode \in {"install", "swap"}
      BY <1>12, <1>h DEF UpdateTransaction, TransactionOK
    <3> QED BY <2>2, <3>1, <1>h DEF StagedOK, Preparing, ToQuarantine
  <2> QED BY <1>12, <2>1, <2>2 DEF UpdateTransaction, StartMoves, RollBack
<1>13. CASE MoveUnit
  <2>1. /\ UNCHANGED <<op, dir, tx, post>> /\ pc = "move" /\ journal = tx /\ pc' \in {"move", "unmove"}
        /\ Shape(pre, post, tx)
    BY <1>13, <1>h DEF MoveUnit, MovingOK, JournalArranged
  <2>2. ASSUME op = "restore", tx.mode = "quarantine"
        PROVE  dir \in Dirs /\ disk'[dir] = post
    <3>1. dir \in Dirs /\ disk[dir] = post /\ kind[dir] = "staging" /\ IsQuarantine(tx.first)
      BY <2>1, <2>2, <1>h, <1>r DEF StagedOK, ToQuarantine, DirectoryOK, JournalOK
    <3>2. MoveFrom = Root /\ MoveTo = tx.first /\ tx.first # dir /\ dir # Root
      BY <2>2, <3>1, <1>r DEF MoveFrom, MoveTo, Forward, IsQuarantine
    <3> QED BY <3>1, <3>2, <1>13, <1>h, <1>r DEF MoveUnit, Rename, FilesOK
  <2> QED BY <2>1, <2>2, <1>h DEF StagedOK, Preparing, ToQuarantine
<1>14. CASE MovesDone
  <2>1. UNCHANGED <<op, tx, post>> \/ (pc' = "phase" /\ UNCHANGED <<op, post>>)
    BY <1>14 DEF MovesDone
  <2>2. CASE pc' = "commit"
    BY <2>2, <1>o
  <2>3. CASE pc' = "phase"
    <3>1. UNCHANGED <<op, post>> /\ pc = "move" /\ (tx.mode = "displace" \/ op = "restore")
      BY <2>3, <1>14 DEF MovesDone
    <3> QED BY <2>3, <3>1, <1>h DEF StagedOK, Preparing, ToQuarantine
  <2> QED BY <1>14, <2>2, <2>3 DEF MovesDone
<1>15. CASE UNCHANGED vars
  BY <1>15, <1>h DEF vars, StagedOK, Preparing, ToQuarantine
<1> QED
  BY <1>1, <1>2, <1>3, <1>4, <1>5, <1>6, <1>7, <1>8, <1>9, <1>10, <1>11, <1>12, <1>13, <1>14,
     <1>15 DEF Next

\* The legs of a rollback bring each unit of the new save away, then each of the old one back.
LEMMA FirstLegDone ==
  ASSUME NEW d, NEW p, NEW q, NEW j, Shape(p, q, j), Installs(j),
         \A u \in Leg(j, 1).units : d[Leg(j, 1).from][u] = Nothing
  PROVE  NonePlaced(d, p, q, j)
<1> SUFFICES ASSUME NEW u \in Units, Placed(d, p, q, j, u) PROVE FALSE
  BY DEF NonePlaced
<1>1. d[Root][u] = q[u] /\ u \in Coming(j) /\ d[Root][u] = Nothing
  BY Paths DEF Placed
<1> QED BY <1>1 DEF Shape, Names, Installs

\* With the last leg over, every unit is where it was.
LEMMA RolledBack ==
  ASSUME NEW d, NEW p, NEW q, NEW j, Shape(p, q, j), Arranged(d, p, q, j),
         LastLeg(j) = 2 => NonePlaced(d, p, q, j),
         \A u \in Leg(j, LastLeg(j)).units :
           /\ d[Leg(j, LastLeg(j)).from][u] = Nothing
           /\ d[Leg(j, LastLeg(j)).to][u] # Nothing
  PROVE  \A u \in Units : Untouched(d, p, q, j, u)
<1>1. NonePlaced(d, p, q, j)
  <2>1. CASE TwoLegs(j)
    BY <2>1, Paths
  <2>2. CASE ~TwoLegs(j) /\ Installs(j)
    BY <2>2, Paths, FirstLegDone
  <2>3. CASE ~Installs(j)
    BY <2>3 DEF NonePlaced, Placed
  <2> QED BY <2>1, <2>2, <2>3
<1>2. \A u \in Units : u \in Leaving(j) => d[Root][u] # Nothing
  <2>1. CASE TwoLegs(j)
    BY <2>1, Paths
  <2>2. CASE ~TwoLegs(j) /\ Installs(j)
    BY <2>2 DEF TwoLegs, Installs, Leaving
  <2>3. CASE ~Installs(j)
    BY <2>3, Paths
  <2> QED BY <2>1, <2>2, <2>3
<1> SUFFICES ASSUME NEW u \in Units, Aside(d, p, q, j, u) PROVE Untouched(d, p, q, j, u)
  BY <1>1 DEF Arranged, Somewhere, NonePlaced
<1>3. p[u] = Nothing
  BY <1>2 DEF Aside, Kept, Shape, Names, Installs, Old
<1> QED BY <1>3 DEF Aside, Untouched, Kept

\* Each step keeps what a recovery knows of its rollback.
LEMMA RollbackStep ==
  ASSUME IInv, AInv, [Next]_vars
  PROVE  RollbackOK'
<1>h. /\ FilesOK /\ ProcessOK /\ HistoryOK /\ TransactionOK /\ LoopsOK
      /\ JournalArranged /\ MovingOK /\ RollbackOK
  BY DEF IInv, TypeOK, AInv
<1>r. Root \in Places
  BY BoundsAssumption DEF Root, Places
<1>o. ASSUME pc' \notin {"reconcile", "check", "clear"} PROVE RollbackOK'
  BY <1>o DEF RollbackOK
<1>1. CASE \E o \in {"recover", "restore", "reset", "undo"} : Call(o)
  BY <1>1, <1>o DEF Call
<1>2. CASE RecoveryFails \/ ReconcileStops \/ RecoveryClears \/ ReturnRecovery \/ ReturnFailure
           \/ FinishRecovered \/ UndoRefuses
  BY <1>2, <1>o DEF RecoveryFails, ReconcileStops, RecoveryClears, ReturnRecovery, ReturnFailure,
    FinishRecovered, FinishFails, UndoRefuses, Return
<1>3. CASE Unmoved \/ Observe \/ FinishClears \/ Clean \/ Crash \/ PlayGame \/ MoveFails \/ Unmove
           \/ Commit
  BY <1>3, <1>o, <1>h DEF Unmoved, Observe, FinishClears, Clean, Crash, PlayGame, RollBack, FinishFails, Return,
    MoveFails, Unmove, Commit
<1>4. CASE StageArchive \/ StartReset \/ QuarantineCurrent \/ UndoIntoRoot \/ UndoBySwap
  BY <1>4, <1>o DEF StageArchive, StartReset, QuarantineCurrent, UndoIntoRoot, UndoBySwap,
    CreateQuarantine, Return, Ready, Begins
<1>5. CASE Begin \/ UpdateTransaction
  BY <1>5, <1>o DEF Begin, UpdateTransaction, StartMoves, RollBack, Return
<1>6. CASE MoveUnit \/ MovesDone
  BY <1>6, <1>o DEF MoveUnit, MovesDone
<1>7. CASE Recover
  <2>1. /\ UNCHANGED <<disk, journal, pre, post>> /\ leg' = 1
        /\ left' = IF journal = NoJournal THEN {} ELSE Leg(journal, 1).units
        /\ \/ pc' \in {"recovered", "stopped"}
           \/ pc' = "clear" /\ journal # NoJournal /\ IsCommitted
           \/ pc' = "reconcile" /\ journal # NoJournal /\ ~IsCommitted
    BY <1>7 DEF Recover
  <2>2. 1 <= LastLeg(journal)
    BY DEF LastLeg
  <2> QED BY <2>1, <2>2, <1>o DEF RollbackOK, InJournal, IsCommitted
<1>8. CASE ReconcileSkip
  <2>1. /\ UNCHANGED <<disk, journal, pre, post, pc, leg>> /\ pc = "reconcile"
        /\ left' = left \ {First(left)}
        /\ disk[LegFrom][First(left)] = Nothing /\ disk[LegTo][First(left)] # Nothing
    BY <1>8 DEF ReconcileSkip
  <2> QED BY <2>1, <1>h DEF RollbackOK, InJournal, IsCommitted, LegFrom, LegTo
<1>9. CASE ReconcileRename
  <2>1. /\ UNCHANGED <<journal, pre, post, leg>> /\ Shape(pre, post, journal) /\ InJournal
        /\ Arranged(disk, pre, post, journal) /\ ~IsCommitted /\ leg <= LastLeg(journal)
        /\ First(left) \in Leg(journal, leg).units /\ leg \in 1 .. 2 /\ First(left) \in left
        /\ Renames(disk, disk', Leg(journal, leg).from, Leg(journal, leg).to, First(left))
        /\ \A u \in Leg(journal, leg).units \ left :
             /\ disk[Leg(journal, leg).from][u] = Nothing
             /\ disk[Leg(journal, leg).to][u] # Nothing
    BY <1>9, <1>h, FirstIsMember, RenameRenames
    DEF ReconcileRename, RollbackOK, JournalArranged, LoopsOK, ProcessOK, LegFrom, LegTo
  <2>2. leg = 2 => NonePlaced(disk', pre, post, journal)
    BY <2>1, <1>9, <1>h, LegArranged DEF FilesOK, RollbackOK, ReconcileRename
  <2>3. /\ Leg(journal, leg).from \in Places /\ Leg(journal, leg).to \in Places
        /\ Leg(journal, leg).units \subseteq Units
    BY <2>1, <1>h, ShapesTyped DEF FilesOK
  <2>4. \A u \in Leg(journal, leg).units \ (left \ {First(left)}) :
          /\ disk'[Leg(journal, leg).from][u] = Nothing
          /\ disk'[Leg(journal, leg).to][u] # Nothing
    <3>1. First(left) \in Units
      BY <2>1, <2>3
    <3>2. /\ Leg(journal, leg).from # Leg(journal, leg).to
          /\ \A x \in Places, v \in Units : disk'[x][v] =
               IF x = Leg(journal, leg).to /\ v = First(left) THEN disk[Leg(journal, leg).from][First(left)]
               ELSE IF x = Leg(journal, leg).from /\ v = First(left) THEN Nothing ELSE disk[x][v]
      BY <2>1, <2>3, <3>1, <1>h, RenamesIs DEF FilesOK
    <3>3. disk[Leg(journal, leg).from][First(left)] # Nothing
      BY <2>1 DEF Renames
    <3> QED BY <2>1, <2>3, <3>2, <3>3
  <2>5. pc' = "stopped" \/ (pc' = "reconcile" /\ left' = left \ {First(left)})
    BY <1>9 DEF ReconcileRename
  <2> QED BY <2>1, <2>2, <2>4, <2>5, <1>o DEF RollbackOK, InJournal, IsCommitted, LegFrom, LegTo
<1>10. CASE ReconcileNext
  <2>1. /\ UNCHANGED <<disk, journal, pre, post>> /\ Shape(pre, post, journal) /\ InJournal
        /\ Arranged(disk, pre, post, journal) /\ ~IsCommitted /\ leg \in 1 .. 2
        /\ leg = 2 => NonePlaced(disk, pre, post, journal)
        /\ \A u \in Leg(journal, leg).units :
             /\ disk[Leg(journal, leg).from][u] = Nothing
             /\ disk[Leg(journal, leg).to][u] # Nothing
    BY <1>10, <1>h DEF ReconcileNext, RollbackOK, JournalArranged, ProcessOK, LegFrom, LegTo
  <2>2. CASE leg < LastLeg(journal) /\ leg' = leg + 1 /\ left' = Leg(journal, leg + 1).units
             /\ pc' = "reconcile"
    <3>1. leg = 1 /\ LastLeg(journal) = 2 /\ leg' = 2 /\ Installs(journal)
      BY <2>1, <2>2, Paths DEF LastLeg
    <3>2. NonePlaced(disk, pre, post, journal)
      BY <2>1, <3>1, FirstLegDone
    <3>3. left' = Leg(journal, 2).units
      BY <2>2, <3>1
    <3> QED BY <2>1, <2>2, <3>1, <3>2, <3>3 DEF RollbackOK, InJournal, IsCommitted, LegFrom, LegTo
  <2>3. CASE leg = LastLeg(journal) /\ pc' = "check"
    <3>1. \A u \in Units : Untouched(disk, pre, post, journal, u)
      BY <2>1, <2>3, RolledBack
    <3> QED BY <2>1, <2>3, <3>1 DEF RollbackOK, InJournal, IsCommitted
  <2> QED BY <1>10, <2>2, <2>3 DEF ReconcileNext
<1>11. CASE Check
  <2>1. /\ UNCHANGED <<disk, journal, pre, post>> /\ pc' \in {"clear", "stopped"} /\ InJournal
        /\ \A u \in Units : disk[Root][u] = pre[u]
    BY <1>11, <1>h DEF Check, RollbackOK, Untouched
  <2>2. disk[Root] = pre
    BY <2>1, <1>h, <1>r DEF FilesOK, HistoryOK, Copies
  <2> QED BY <2>1, <2>2, <1>o DEF RollbackOK, InJournal, IsCommitted
<1>12. CASE UNCHANGED vars
  BY <1>12, <1>h DEF vars, RollbackOK, InJournal, IsCommitted, LegFrom, LegTo
<1> QED
  BY <1>1, <1>2, <1>3, <1>4, <1>5, <1>6, <1>7, <1>8, <1>9, <1>10, <1>11, <1>12 DEF Next

\* The initial states satisfy AInv.
LEMMA FirstArranged == Init => AInv
  BY DEF Init, AInv, JournalArranged, InJournal, MovingOK, StagedOK, Preparing, ToQuarantine, RollbackOK

\* AInv is inductive, given IInv.
LEMMA ArrangedAlways == Spec => []AInv
<1>1. IInv /\ AInv /\ [Next]_vars => AInv'
  BY JournalArrangedStep, MovingStep, StagedStep, RollbackStep DEF AInv
<1> QED BY FirstArranged, Invariance, <1>1, PTL DEF Spec

\* Each step, as AtomicSave sees it.
LEMMA NextReplaces ==
  ASSUME IInv, IInv', AInv, [Next]_vars
  PROVE  Abstract!Next \/ UNCHANGED <<Recoverable, post>>
<1>h. /\ FilesOK /\ ProcessOK /\ HistoryOK /\ TransactionOK /\ DirectoryOK /\ post' \in Copies
      /\ Recoverable' \in Copies /\ JournalArranged /\ MovingOK /\ RollbackOK
  <2>1. FilesOK' /\ HistoryOK'
    BY DEF IInv, TypeOK
  <2>2. post' \in Copies /\ pre' \in Copies /\ disk'[Root] \in Copies
    BY <2>1, BoundsAssumption DEF FilesOK, HistoryOK, Root, Places
  <2> QED BY <2>2 DEF IInv, TypeOK, AInv, Recoverable
<1>r. /\ Root \in Places /\ Dirs \subseteq Places /\ Root \notin Dirs
      /\ \A p \in Places : p = Root \/ p \in Dirs
  BY BoundsAssumption DEF Root, Places, Dirs
<1>s. ASSUME disk'[Root] = disk[Root], UNCHANGED <<journal, pre, post>>
      PROVE  UNCHANGED <<Recoverable, post>>
  BY <1>s DEF Recoverable, IsCommitted
<1>a. ASSUME disk'[Root] = disk[Root], journal = NoJournal, journal' = NoJournal
      PROVE  Abstract!Next
  BY <1>a, <1>h DEF Abstract!Next, Abstract!Ask, Recoverable
<1>u. ASSUME InJournal, ~IsCommitted, UNCHANGED <<journal, pre, post>>
      PROVE  UNCHANGED <<Recoverable, post>>
  BY <1>u DEF Recoverable, IsCommitted, InJournal
<1>1. CASE \E o \in {"recover", "restore", "reset", "undo"} : Call(o)
  BY <1>1, <1>s, <1>a DEF Call
<1>2. CASE Recover \/ RecoveryFails \/ ReconcileSkip \/ ReconcileStops \/ ReconcileNext \/ Check
  BY <1>2, <1>s DEF Recover, RecoveryFails, ReconcileSkip, ReconcileStops, ReconcileNext, Check
<1>3. CASE ReturnRecovery \/ FinishRecovered \/ MoveFails \/ Unmoved \/ MovesDone \/ Observe \/ Crash
  BY <1>3, <1>s DEF ReturnRecovery, FinishRecovered, MoveFails, Unmoved, MovesDone, Observe, Crash
<1>4. CASE StageArchive \/ StartReset \/ UndoRefuses \/ UndoIntoRoot
  <2>1. journal = NoJournal /\ journal' = NoJournal
    BY <1>4, <1>h DEF StageArchive, StartReset, UndoRefuses, UndoIntoRoot, Ready, TransactionOK
  <2>2. disk'[Root] = disk[Root]
    BY <1>4, <1>h, <1>r DEF StageArchive, StartReset, UndoRefuses, UndoIntoRoot, Free, FilesOK
  <2> QED BY <2>1, <2>2, <1>a
<1>5. CASE QuarantineCurrent \/ UndoBySwap
  <2>1. journal = NoJournal /\ journal' = NoJournal
    BY <1>5, <1>h DEF QuarantineCurrent, UndoBySwap, CreateQuarantine, Ready, TransactionOK
  <2>2. disk' = disk \/ (disk' = [disk EXCEPT ![dir] = Empty] /\ op = "restore")
    BY <1>5 DEF QuarantineCurrent, UndoBySwap, CreateQuarantine
  <2>3. op = "restore" => dir # Root
    BY <1>5, <1>h DEF QuarantineCurrent, UndoBySwap, Ready, DirectoryOK
  <2>4. disk'[Root] = disk[Root]
    BY <2>2, <2>3, <1>h, <1>r DEF FilesOK
  <2> QED BY <2>1, <2>4, <1>a
<1>6. CASE Clean
  <2>1. UNCHANGED <<journal, pre, post>> /\ disk'[Root] = disk[Root]
    BY <1>6, <1>h, <1>r DEF Clean, FilesOK
  <2> QED BY <2>1, <1>s
<1>7. CASE ReturnFailure
  <2>1. UNCHANGED <<journal, pre, post>> /\ disk'[Root] = disk[Root]
    BY <1>7, <1>r DEF ReturnFailure
  <2> QED BY <2>1, <1>s
<1>8. CASE ReconcileRename \/ MoveUnit \/ Unmove
  <2>1. UNCHANGED <<journal, pre, post>> /\ InJournal /\ ~IsCommitted
    BY <1>8, <1>h DEF ReconcileRename, MoveUnit, Unmove, RollbackOK, MovingOK
  <2> QED BY <2>1, <1>u
<1>9. CASE Begin
  <2>1. /\ journal = NoJournal /\ disk[Root] = pre /\ UNCHANGED <<disk, pre, post>>
        /\ journal' \in {journal, tx} /\ tx.state = "precommit"
    BY <1>9, <1>h DEF Begin, MovingOK, TransactionOK, Poised
  <2> QED BY <2>1 DEF Recoverable, IsCommitted
<1>10. CASE UpdateTransaction
  <2>1. /\ InJournal /\ ~IsCommitted /\ UNCHANGED <<disk, pre, post>>
        /\ journal' \in {journal, tx} /\ tx.state = "precommit" /\ tx # NoJournal
    BY <1>10, <1>h DEF UpdateTransaction, MovingOK, Poised, Shape, NoJournal
  <2> QED BY <2>1 DEF Recoverable, IsCommitted, InJournal
<1>11. CASE Commit
  <2>1. /\ InJournal /\ ~IsCommitted /\ UNCHANGED <<disk, pre, post>> /\ disk[Root] = post
        /\ journal' \in {journal, Committed(journal)} /\ Shape(pre, post, journal)
    BY <1>11, <1>h DEF Commit, MovingOK, JournalArranged, Finished
  <2>2. CASE journal' = journal
    BY <2>1, <2>2, <1>u
  <2>3. CASE journal' = Committed(journal)
    <3>1. Recoverable' = post
      BY <2>1, <2>3, CommittedIs DEF Recoverable, IsCommitted
    <3> QED BY <2>1, <3>1 DEF Abstract!Next, Abstract!Install
  <2> QED BY <2>1, <2>2, <2>3
<1>12. CASE FinishClears
  <2>1. /\ InJournal /\ IsCommitted /\ UNCHANGED <<disk, pre, post>>
        /\ journal' \in {journal, NoJournal}
    BY <1>12, <1>h DEF FinishClears, MovingOK
  <2> QED BY <2>1 DEF Recoverable, IsCommitted
<1>13. CASE RecoveryClears
  <2>1. /\ InJournal /\ (~IsCommitted => disk[Root] = pre) /\ UNCHANGED <<disk, pre, post>>
        /\ journal' \in {journal, NoJournal}
    BY <1>13, <1>h DEF RecoveryClears, RollbackOK
  <2> QED BY <2>1 DEF Recoverable, IsCommitted
<1>14. CASE PlayGame
  <2>1. journal' = NoJournal /\ post' = disk'[Root]
    BY <1>14 DEF PlayGame
  <2>2. Recoverable' = post'
    BY <2>1 DEF Recoverable
  <2> QED BY <2>2, <1>h DEF Abstract!Next, Abstract!Play
<1>15. CASE UNCHANGED vars
  BY <1>15, <1>s DEF vars
<1> QED
  BY <1>1, <1>2, <1>3, <1>4, <1>5, <1>6, <1>7, <1>8, <1>9, <1>10, <1>11, <1>12, <1>13, <1>14,
     <1>15 DEF Next

\* SaveTransaction implements AtomicSave: whatever number of primitives fails and wherever
\* the process dies, the save that a recovery would leave is replaced by the one that the
\* operation named in a single step, the journal's commit, or stays what it was.
THEOREM SaveIsAtomic == Spec => ReplacedAtomically
<1>1. Init => Abstract!Init
  <2> SUFFICES ASSUME Init PROVE Abstract!Init
    OBVIOUS
  <2>1. IInv
    BY FirstSafe
  <2>2. disk[Root] \in Copies
    BY <2>1, BoundsAssumption DEF IInv, TypeOK, FilesOK, Root, Places
  <2> QED BY <2>2 DEF Init, Abstract!Init, Recoverable
<1>2. IInv /\ IInv' /\ AInv /\ [Next]_vars => [Abstract!Next]_(Abstract!vars)
  BY NextReplaces DEF Abstract!vars
<1> QED BY <1>1, <1>2, Invariance, ArrangedAlways, PTL DEF Spec, ReplacedAtomically, Abstract!Spec

-----------------------------------------------------------------------------
(* What a call's result says.                                              *)

\* The save is installed, and the one it replaced is where no clean-up goes.
Done ==
  disk[Root] = post /\ (Replaced # Root => disk[Replaced] = pre /\ dir # Replaced)
Begun == pc \in {"begin", "phase", "move", "commit", "observe", "finish"}
Finishing == Recovering /\ then = "finish"
WorkingOK ==
  /\ pc # "idle" => result = "none"
  /\ Begun => dir # Old(tx) \/ Old(tx) = Root
  /\ Finishing => Done /\ (InJournal => IsCommitted)
  /\ pc = "clean" => Done
RInv == WorkingOK /\ SuccessMeansDone

\* A committed journal means that the save is installed.
LEMMA CommittedIsDone ==
  ASSUME IInv, AInv, RInv, InJournal, IsCommitted, pc \in {"observe", "finish"}
  PROVE  Done
<1>1. /\ Shape(pre, post, journal) /\ Finished(disk, pre, post, journal)
      /\ journal \in {tx, Committed(tx)} /\ disk[Root] = post
      /\ dir # Old(tx) \/ Old(tx) = Root
  BY DEF AInv, MovingOK, JournalArranged, Finished, RInv, WorkingOK, Begun
<1>2. /\ journal.mode = tx.mode /\ journal.first = tx.first /\ journal.second = tx.second
  BY <1>1 DEF Committed, IInv, TypeOK, ProcessOK, Journals
<1>3. Old(journal) = Replaced /\ Old(tx) = Replaced
  BY <1>1, <1>2 DEF Old, Replaced, Shape, Finished, Journals, Modes
<1>4. ASSUME Replaced # Root PROVE disk[Replaced] = pre
  <2>1. \A u \in Units : disk[Old(journal)][u] = pre[u]
    BY <1>1, <1>3, <1>4 DEF Finished, Moved, Placed, Aside, Kept, Old
  <2>2. Old(journal) \in Places
    BY <1>1, Routes
  <2> QED BY <2>1, <2>2, <1>3 DEF IInv, TypeOK, FilesOK, HistoryOK, Copies
<1> QED BY <1>1, <1>3, <1>4 DEF Done

\* A call has no result before it returns.
LEMMA ResultStep ==
  ASSUME IInv, AInv, RInv, [Next]_vars
  PROVE  pc' # "idle" => result' = "none"
<1>h. pc # "idle" => result = "none"
  BY DEF RInv, WorkingOK
<1>1. CASE (\E o \in {"recover", "restore", "reset", "undo"} : Call(o))
           \/ Recover \/ RecoveryFails \/ ReconcileSkip \/ ReconcileStops
           \/ ReconcileRename \/ ReconcileNext \/ Check
  BY <1>1, <1>h DEF Call, Recover, RecoveryFails, ReconcileSkip, ReconcileStops, ReconcileRename,
    ReconcileNext, Check
<1>2. CASE RecoveryClears \/ ReturnRecovery \/ ReturnFailure \/ FinishRecovered \/ StageArchive
           \/ StartReset \/ QuarantineCurrent \/ UndoRefuses
  BY <1>2, <1>h DEF RecoveryClears, ReturnRecovery, ReturnFailure, FinishRecovered, FinishFails,
    StageArchive, StartReset, QuarantineCurrent, CreateQuarantine, UndoRefuses, Return, Ready, Recovered
<1>3. CASE UndoIntoRoot \/ UndoBySwap \/ Begin \/ MoveUnit \/ MoveFails \/ Unmove \/ Unmoved \/ MovesDone
  BY <1>3, <1>h DEF UndoIntoRoot, UndoBySwap, CreateQuarantine, Begin, MoveUnit, MoveFails, Unmove,
    Unmoved, MovesDone, Return, Ready
<1>4. CASE UpdateTransaction \/ Commit \/ Observe \/ FinishClears \/ Clean \/ Crash \/ PlayGame
  BY <1>4, <1>h DEF UpdateTransaction, Commit, Observe, FinishFails, FinishClears, Clean, Crash,
    PlayGame, Return
<1>5. CASE UNCHANGED vars
  BY <1>5, <1>h DEF vars
<1> QED BY <1>1, <1>2, <1>3, <1>4, <1>5 DEF Next

\* The directory that the clean-up removes is never the old save's.
LEMMA BegunStep ==
  ASSUME IInv, AInv, RInv, [Next]_vars
  PROVE  Begun' => dir' # Old(tx)' \/ Old(tx)' = Root
<1>h. /\ FilesOK /\ ProcessOK /\ TransactionOK /\ DirectoryOK /\ MovingOK /\ JournalArranged
      /\ Begun => dir # Old(tx) \/ Old(tx) = Root
  BY DEF IInv, TypeOK, AInv, RInv, WorkingOK
<1>s. ASSUME Begun, UNCHANGED <<dir, tx>> PROVE dir' # Old(tx)' \/ Old(tx)' = Root
  BY <1>s, <1>h
<1>o. SUFFICES ASSUME Begun' PROVE dir' # Old(tx)' \/ Old(tx)' = Root
  OBVIOUS
<1>1. CASE (\E o \in {"recover", "restore", "reset", "undo"} : Call(o))
           \/ Recover \/ RecoveryFails \/ ReconcileSkip \/ ReconcileStops
           \/ ReconcileRename \/ ReconcileNext \/ Check
  BY <1>1, <1>o DEF Begun, Call, Recover, RecoveryFails, ReconcileSkip, ReconcileStops, ReconcileRename,
    ReconcileNext, Check
<1>2. CASE RecoveryClears \/ ReturnRecovery \/ ReturnFailure \/ FinishRecovered \/ StartReset \/ UndoRefuses
  BY <1>2, <1>o DEF Begun, RecoveryClears, ReturnRecovery, ReturnFailure, FinishRecovered, FinishFails,
    StartReset, UndoRefuses, Return
<1>3. CASE Unmove \/ Unmoved \/ MoveFails \/ Clean \/ Crash \/ PlayGame \/ FinishClears
  BY <1>3, <1>o DEF Begun, Unmove, Unmoved, MoveFails, Clean, Crash, PlayGame, FinishClears, RollBack,
    Return
<1>4. CASE Begin \/ MoveUnit \/ UpdateTransaction \/ Commit \/ Observe
  <2>1. Begun /\ UNCHANGED <<dir, tx>>
    BY <1>4 DEF Begun, Begin, MoveUnit, UpdateTransaction, Commit, Observe
  <2> QED BY <2>1, <1>s
<1>5. CASE StageArchive
  <2>1. PICK d \in Free, U \in Snapshots : tx' = Record("install", d, Root, U, {})
    BY <1>5, <1>o DEF Begun, StageArchive, Return
  <2>2. tx'.mode = "install" /\ tx'.second = Root
    BY <2>1 DEF Record
  <2> QED BY <2>2 DEF Old
<1>6. CASE QuarantineCurrent
  <2>1. PICK d \in Free :
          /\ tx' = [Record("quarantine", Root, Root, Held(Root), {}) EXCEPT !.first = d]
          /\ UNCHANGED dir /\ pc = "quarantine"
    BY <1>6, <1>o DEF Begun, QuarantineCurrent, CreateQuarantine, Return
  <2>2. tx'.mode = "quarantine" /\ tx'.first = d
    BY <2>1 DEF Record
  <2>3. dir # d
    BY <2>1, <1>h, BoundsAssumption DEF Free, DirectoryOK, TransactionOK, Dirs, Root
  <2> QED BY <2>1, <2>2, <2>3 DEF Old
<1>7. CASE UndoIntoRoot
  <2>1. tx'.mode = "undo"
    BY <1>7 DEF UndoIntoRoot, Record
  <2> QED BY <2>1 DEF Old
<1>8. CASE UndoBySwap
  <2>1. PICK q \in Dirs, d \in Free :
          /\ Undoable(q) /\ dir' = q
          /\ tx' = [Record("displace", Root, q, Held(Root), listed[q]) EXCEPT !.first = d]
    BY <1>8, <1>o DEF Begun, UndoBySwap, CreateQuarantine, Return
  <2>2. tx'.mode = "displace" /\ tx'.first = d /\ q # d
    BY <2>1 DEF Record, Free, Undoable, IsQuarantine
  <2> QED BY <2>1, <2>2 DEF Old
<1>9. CASE MovesDone
  <2>1. Begun /\ UNCHANGED dir /\ tx' \in {tx, NextPhase} /\ Shape(pre, post, tx)
        /\ (tx' = NextPhase /\ tx' # tx => tx.mode \in {"displace", "quarantine"})
    BY <1>9, <1>h DEF Begun, MovesDone, MovingOK, JournalArranged
  <2>2. CASE tx' = tx
    BY <2>1, <2>2, <1>s
  <2>3. CASE tx' = NextPhase /\ tx.mode = "quarantine"
    <3>1. tx'.mode = "install" /\ tx'.second = tx.first
      BY <2>3 DEF NextPhase, Record
    <3> QED BY <2>1, <2>3, <3>1, <1>h DEF Old
  <2>4. CASE tx' = NextPhase /\ tx.mode = "displace"
    <3>1. tx'.mode = "swap" /\ tx'.first = tx.first
      BY <2>1, <2>4 DEF NextPhase, Shape, Journals
    <3> QED BY <2>1, <2>4, <3>1, <1>h DEF Old
  <2> QED BY <2>1, <2>2, <2>3, <2>4
<1>10. CASE UNCHANGED vars
  BY <1>10, <1>h, <1>o DEF vars, Begun
<1> QED BY <1>1, <1>2, <1>3, <1>4, <1>5, <1>6, <1>7, <1>8, <1>9, <1>10 DEF Next

\* A committed save stays until the call returns.
LEMMA DoneStep ==
  ASSUME IInv, AInv, RInv, [Next]_vars
  PROVE  /\ Finishing' => Done' /\ (InJournal' => IsCommitted')
         /\ pc' = "clean" => Done'
<1>h. /\ RollbackOK /\ MovingOK /\ TransactionOK
      /\ Finishing => Done /\ (InJournal => IsCommitted)
      /\ pc = "clean" => Done
  BY DEF IInv, AInv, RInv, WorkingOK
<1>s. ASSUME Done, UNCHANGED <<disk, pre, post, tx, dir>> PROVE Done'
  BY <1>s DEF Done, Replaced
<1>1. CASE \E o \in {"recover", "restore", "reset", "undo"} : Call(o)
  BY <1>1 DEF Finishing, Call
<1>2. CASE Recover \/ RecoveryFails \/ ReconcileSkip \/ ReconcileStops \/ ReconcileNext \/ Check
  <2>1. Recovering /\ UNCHANGED <<then, disk, pre, post, tx, dir, journal>> /\ pc' # "clean"
    BY <1>2 DEF Recovering, Recover, RecoveryFails, ReconcileSkip, ReconcileStops, ReconcileNext, Check
  <2> QED BY <2>1, <1>h, <1>s DEF Finishing, InJournal, IsCommitted
<1>3. CASE ReconcileRename
  <2>1. then # "finish" /\ UNCHANGED then /\ pc' # "clean"
    BY <1>3, <1>h DEF ReconcileRename, RollbackOK, Finishing, Recovering
  <2> QED BY <2>1 DEF Finishing
<1>4. CASE RecoveryClears
  <2>1. /\ Recovering /\ UNCHANGED <<then, disk, pre, post, tx, dir>> /\ pc' # "clean"
        /\ journal' \in {journal, NoJournal}
    BY <1>4 DEF Recovering, RecoveryClears
  <2> QED BY <2>1, <1>h, <1>s DEF Finishing, InJournal, IsCommitted
<1>5. CASE ReturnRecovery \/ ReturnFailure
  BY <1>5 DEF ReturnRecovery, ReturnFailure, Return, Finishing, Recovering
<1>6. CASE FinishRecovered
  <2>1. /\ UNCHANGED <<disk, pre, post, tx, dir, journal>> /\ Recovering
        /\ \/ pc' = "clean" /\ then = "finish"
           \/ pc' = "idle"
           \/ pc' = "recover" /\ then' = "fail"
    BY <1>6 DEF FinishRecovered, FinishFails, Return, Recovering, Recovered
  <2> QED BY <2>1, <1>h, <1>s DEF Finishing, Recovering
<1>7. CASE StageArchive \/ StartReset \/ QuarantineCurrent \/ UndoRefuses \/ UndoIntoRoot \/ UndoBySwap
  BY <1>7 DEF StageArchive, StartReset, QuarantineCurrent, UndoRefuses, UndoIntoRoot, UndoBySwap,
    CreateQuarantine, Return, Finishing, Recovering
<1>8. CASE Begin \/ UpdateTransaction \/ Unmoved
  BY <1>8 DEF Begin, UpdateTransaction, Unmoved, StartMoves, RollBack, Return, Finishing, Recovering
<1>9. CASE MoveUnit \/ MoveFails \/ Unmove \/ MovesDone
  BY <1>9 DEF MoveUnit, MoveFails, Unmove, MovesDone, Finishing, Recovering
<1>10. CASE Commit
  BY <1>10 DEF Commit, FinishFails, Return, Finishing, Recovering
<1>11. CASE Observe
  <2>1. /\ pc = "observe" /\ UNCHANGED <<disk, pre, post, tx, dir, journal>>
        /\ \/ pc' = "recover" /\ then' = "finish" /\ IsCommitted
           \/ pc' \in {"recover", "idle"} /\ then' # "finish"
           \/ pc' = "idle"
    BY <1>11 DEF Observe, RollBack, FinishFails, Return
  <2>2. InJournal
    BY <2>1, <1>h DEF MovingOK
  <2> QED BY <2>1, <2>2, <1>s, CommittedIsDone DEF Finishing, Recovering, IsCommitted
<1>12. CASE FinishClears
  <2>1. /\ pc = "finish" /\ UNCHANGED <<disk, pre, post, tx, dir>>
        /\ journal' \in {journal, NoJournal}
    BY <1>12 DEF FinishClears
  <2>2. InJournal /\ IsCommitted
    BY <2>1, <1>h DEF MovingOK
  <2> QED BY <2>1, <2>2, <1>s, CommittedIsDone DEF InJournal, IsCommitted
<1>13. CASE Clean \/ Crash \/ PlayGame
  BY <1>13 DEF Clean, Crash, PlayGame, Return, Finishing, Recovering
<1>14. CASE UNCHANGED vars
  BY <1>14, <1>h, <1>s DEF vars, Finishing, Recovering, InJournal, IsCommitted
<1> QED BY <1>1, <1>2, <1>3, <1>4, <1>5, <1>6, <1>7, <1>8, <1>9, <1>10, <1>11, <1>12, <1>13, <1>14
        DEF Next

\* Each step keeps what success means.
LEMMA SuccessStep ==
  ASSUME IInv, AInv, RInv, [Next]_vars
  PROVE  SuccessMeansDone'
<1>h. /\ FilesOK /\ ProcessOK /\ TransactionOK /\ SuccessMeansDone
      /\ pc # "idle" => result = "none"
      /\ pc = "clean" => Done
  BY DEF IInv, TypeOK, RInv, WorkingOK
<1>o. ASSUME result' # "ok" PROVE SuccessMeansDone'
  BY <1>o DEF SuccessMeansDone
<1>1. CASE (\E o \in {"recover", "restore", "reset", "undo"} : Call(o))
           \/ Recover \/ RecoveryFails \/ ReconcileSkip \/ ReconcileStops
           \/ ReconcileRename \/ ReconcileNext \/ Check
  BY <1>1, <1>h, <1>o DEF Call, Recover, RecoveryFails, ReconcileSkip, ReconcileStops, ReconcileRename,
    ReconcileNext, Check
<1>2. CASE RecoveryClears \/ ReturnRecovery \/ ReturnFailure \/ FinishRecovered \/ StageArchive
           \/ StartReset \/ QuarantineCurrent \/ UndoRefuses
  BY <1>2, <1>h, <1>o DEF RecoveryClears, ReturnRecovery, ReturnFailure, FinishRecovered, FinishFails,
    StageArchive, StartReset, QuarantineCurrent, CreateQuarantine, UndoRefuses, Return, Ready, Recovered
<1>3. CASE UndoIntoRoot \/ UndoBySwap \/ Begin \/ MoveUnit \/ MoveFails \/ Unmove \/ Unmoved \/ MovesDone
  BY <1>3, <1>h, <1>o DEF UndoIntoRoot, UndoBySwap, CreateQuarantine, Begin, MoveUnit, MoveFails, Unmove,
    Unmoved, MovesDone, Return, Ready
<1>4. CASE UpdateTransaction \/ Commit \/ Observe \/ FinishClears \/ Crash \/ PlayGame
  BY <1>4, <1>h, <1>o DEF UpdateTransaction, Commit, Observe, FinishFails, FinishClears, Crash,
    PlayGame, Return
<1>5. CASE Clean
  <2>1. /\ Done /\ journal = NoJournal /\ UNCHANGED <<journal, tx, pre, post>>
        /\ disk' = disk \/ (dir # Root /\ disk' = [disk EXCEPT ![dir] = Empty])
    BY <1>5, <1>h DEF Clean, TransactionOK
  <2>2. Replaced' = Replaced
    BY <2>1 DEF Replaced
  <2>3. disk'[Root] = disk[Root] /\ (dir # Replaced => disk'[Replaced] = disk[Replaced])
    <3>1. Root \in Places /\ Replaced \in Places
      BY <1>h, BoundsAssumption DEF Places, Root, Replaced, ProcessOK, Journals
    <3> QED BY <2>1, <3>1, <1>h DEF FilesOK
  <2> QED BY <2>1, <2>2, <2>3 DEF SuccessMeansDone, Done
<1>6. CASE UNCHANGED vars
  BY <1>6, <1>h DEF vars, SuccessMeansDone, Replaced
<1> QED BY <1>1, <1>2, <1>3, <1>4, <1>5, <1>6 DEF Next

\* RInv is inductive, given the invariants before.
LEMMA ResultsAlways == Spec => []RInv
<1>1. Init => RInv
  BY DEF Init, RInv, WorkingOK, SuccessMeansDone, Begun, Finishing, Recovering
<1>2. IInv /\ AInv /\ RInv /\ [Next]_vars => RInv'
  BY ResultStep, BegunStep, DoneStep, SuccessStep DEF RInv, WorkingOK
<1> QED BY <1>1, <1>2, Invariance, ArrangedAlways, PTL DEF Spec

\* A call that returns success has installed what it promised, its journal is gone, and the
\* save it replaced is whole in its quarantine: the clean-up at the end removes another
\* directory, and a recovery that finishes a commit renames nothing.
THEOREM SuccessIsDone == Spec => []SuccessMeansDone
<1>1. RInv => SuccessMeansDone
  BY DEF RInv
<1> QED BY <1>1, ResultsAlways, PTL

-----------------------------------------------------------------------------
(* What a failed call leaves.                                              *)

\* With one error at most, a committed journal is found only where its call still waits for it.
Calm == crashes = 0 /\ faults <= 1
Settling ==
  \/ pc = "finish"
  \/ faults = 1 /\ (pc = "observe" \/ (pc \in {"recover", "clear"} /\ then = "finish"))
CommitSeen ==
  /\ Calm /\ InJournal /\ IsCommitted => ~CommittedState(journal) \/ Settling
  /\ pc = "clear" /\ IsCommitted => CommittedState(journal)
  /\ pc = "observe" /\ Calm => faults = 1
RootIsBack ==
  Calm /\ ~InJournal /\ Recovering =>
    disk[Root] = pre \/ (then = "finish" /\ faults = 1 /\ pc \in {"recover", "recovered"})
UInv == CommitSeen /\ RootIsBack /\ FailureMeansUndone

\* The directories of a journal are there, and its commit can be recognised: an undo beside
\* units it does not list is the exception.
LEMMA DirectoriesHeld ==
  ASSUME NEW j, JournalOK(j), Shape(pre, post, j)
  PROVE  DirectoriesExist(j)
<1>1. /\ j.mode \in Modes /\ j.first \in Dirs /\ j.second \in Places
  BY DEF Shape, Journals
<1>2. kind[j.first] # "removed"
  BY <1>1 DEF JournalOK, IsQuarantine, Modes
<1>3. j.second # Root => kind[j.second] # "removed"
  BY <1>1 DEF JournalOK, IsQuarantine, Modes, Shape
<1> QED BY <1>2, <1>3 DEF DirectoriesExist

\* A transaction that has moved every unit leaves the state that recovery asks of a commit.
LEMMA CommitRecognised ==
  ASSUME NEW j, Shape(pre, post, j), Finished(disk, pre, post, j),
         j.mode = "undo" => \A u \in Units : pre[u] = Nothing
  PROVE  CommittedState(j)
<1>1. /\ \A u \in Units : Moved(disk, pre, post, j, u) /\ disk[Root][u] = post[u]
      /\ j.mode \in Modes /\ j.mode # "displace" /\ j.units1 \subseteq Units /\ j.units2 \subseteq Units
      /\ j.first # Root
  BY BoundsAssumption DEF Finished, Shape, Journals, Dirs, Root
<1>2. CASE j.mode = "quarantine"
  <2>1. /\ Old(j) = j.first /\ Leaving(j) = j.units1 /\ ~Installs(j)
    BY <1>2 DEF Old, Leaving, Installs
  <2>2. \A u \in Units : /\ disk[Root][u] = Nothing /\ disk[j.first][u] = pre[u]
                         /\ u \in j.units1 <=> pre[u] # Nothing
    BY <1>1, <1>2, <2>1 DEF Moved, Aside, Kept, Shape, Names
  <2> QED BY <1>1, <1>2, <2>2 DEF CommittedState, At, Held
<1>3. CASE j.mode = "install"
  <2>1. /\ Old(j) = j.second /\ New(j) = j.first /\ Leaving(j) = j.units2 /\ Coming(j) = j.units1
        /\ Installs(j)
    BY <1>3 DEF Old, New, Leaving, Coming, Installs
  <2>2. \A u \in Units : /\ disk[j.first][u] = Nothing
                         /\ j.second # Root => disk[j.second][u] = pre[u]
                         /\ u \in j.units1 <=> post[u] # Nothing
                         /\ u \in j.units2 <=> pre[u] # Nothing
    BY <1>1, <1>3, <2>1 DEF Moved, Placed, Aside, Kept, Waits, Shape, Names
  <2> QED BY <1>1, <1>3, <2>2 DEF CommittedState, At, Held
<1>4. CASE j.mode = "swap"
  <2>1. /\ Old(j) = j.first /\ New(j) = j.second /\ Leaving(j) = j.units1 /\ Coming(j) = j.units2
        /\ Installs(j) /\ j.second # Root
    BY <1>4, BoundsAssumption DEF Old, New, Leaving, Coming, Installs, Shape, Dirs, Root
  <2>2. \A u \in Units : /\ disk[j.second][u] = Nothing
                         /\ disk[j.first][u] = pre[u]
                         /\ u \in j.units2 <=> post[u] # Nothing
                         /\ u \in j.units1 <=> pre[u] # Nothing
    BY <1>1, <1>4, <2>1 DEF Moved, Placed, Aside, Kept, Waits, Shape, Names
  <2> QED BY <1>1, <1>4, <2>2 DEF CommittedState, At, Held
<1>5. CASE j.mode = "undo"
  <2>1. New(j) = j.first /\ Coming(j) = j.units1 /\ Installs(j)
    BY <1>5 DEF New, Coming, Installs
  <2>2. \A u \in Units : /\ disk[j.first][u] = Nothing
                         /\ u \in j.units1 <=> post[u] # Nothing
    BY <1>1, <1>5, <2>1 DEF Moved, Placed, Untouched, Waits, Shape, Names
  <2> QED BY <1>1, <1>5, <2>2 DEF CommittedState, At, Held
<1> QED BY <1>1, <1>2, <1>3, <1>4, <1>5 DEF Modes

\* The clean-up of a failed call touches no directory of a journal but a staging
\* directory that a quarantine's record does not name.
LEMMA FailureSpares ==
  ASSUME IInv, ReturnFailure
  PROVE  /\ InJournal => UNCHANGED disk \/ journal.mode = "quarantine"
         /\ disk'[Root] = disk[Root]
<1> DEFINE gone == {d \in Dirs :
                      \/ (d = dir /\ FailedStagingGoes)
                      \/ (d = tx.first /\ then = "drop" /\ pc = "recovered")}
<1>1. /\ disk' = [p \in Places |-> IF p \in gone THEN Empty ELSE disk[p]]
      /\ pc \in {"recovered", "stopped"} /\ then \in {"fail", "drop"}
  BY DEF ReturnFailure, Recovered
<1>2. /\ FilesOK /\ TransactionOK /\ Root \in Places /\ Root \notin Dirs
  BY BoundsAssumption DEF IInv, TypeOK, Root, Places, Dirs
<1>3. InJournal => pc = "stopped"
  BY <1>1, <1>2 DEF TransactionOK, InJournal
<1>4. InJournal => gone = {} \/ journal.mode = "quarantine"
  BY <1>1, <1>2, <1>3 DEF FailedStagingGoes, TransactionOK, Recovering, InJournal
<1>5. gone = {} => UNCHANGED disk
  BY <1>1, <1>2 DEF FilesOK
<1>6. Root \notin gone
  BY <1>2
<1> QED BY <1>1, <1>2, <1>4, <1>5, <1>6

\* Errors and crashes are counted, and a disjoint undo is remembered.
LEMMA OnlyMore ==
  ASSUME HistoryOK, FlagsOK, [Next]_vars
  PROVE  /\ faults \in Nat /\ crashes \in Nat /\ faults' \in {faults, faults + 1}
         /\ crashes' \in {crashes, crashes + 1}
         /\ disjoint => disjoint'
<1>h. faults \in Nat /\ crashes \in Nat
  BY BoundsAssumption DEF HistoryOK
<1>1. CASE (\E o \in {"recover", "restore", "reset", "undo"} : Call(o))
           \/ Recover \/ RecoveryFails \/ ReconcileSkip \/ ReconcileStops
           \/ ReconcileRename \/ ReconcileNext \/ Check
  BY <1>1, <1>h DEF Call, Recover, RecoveryFails, ReconcileSkip, ReconcileStops, ReconcileRename,
    ReconcileNext, Check, Works, Fault
<1>2. CASE RecoveryClears \/ ReturnRecovery \/ ReturnFailure \/ FinishRecovered \/ StageArchive
           \/ StartReset \/ QuarantineCurrent \/ UndoRefuses
  BY <1>2, <1>h DEF RecoveryClears, ReturnRecovery, ReturnFailure, FinishRecovered, StageArchive,
    StartReset, QuarantineCurrent, CreateQuarantine, UndoRefuses, Works, Fault
<1>3. CASE UndoBySwap \/ Begin \/ MoveUnit \/ MoveFails \/ Unmove \/ Unmoved \/ MovesDone
  BY <1>3, <1>h DEF UndoBySwap, CreateQuarantine, Begin, MoveUnit, MoveFails, Unmove, Unmoved,
    MovesDone, Works, Fault
<1>4. CASE UpdateTransaction \/ Commit \/ Observe \/ FinishClears \/ Clean \/ Crash \/ PlayGame
  BY <1>4, <1>h DEF UpdateTransaction, Commit, Observe, FinishClears, Clean, Crash, PlayGame,
    Works, Fault
<1>5. CASE UndoIntoRoot
  <2>1. UNCHANGED <<faults, crashes>>
    BY <1>5 DEF UndoIntoRoot
  <2>2. PICK q \in Dirs : disjoint' = (disjoint \/ Held(Root) # {})
    BY Zenon, <1>5 DEF UndoIntoRoot
  <2>3. disjoint => disjoint'
    BY Zenon, <2>2
  <2> QED BY <1>h, <2>1, <2>3
<1>6. CASE UNCHANGED vars
  BY <1>6, <1>h DEF vars
<1> QED BY <1>1, <1>2, <1>3, <1>4, <1>5, <1>6 DEF Next

\* Each step keeps what is known of a committed journal.
LEMMA CommitSeenStep ==
  ASSUME IInv, AInv, UInv, [Next]_vars
  PROVE  CommitSeen'
<1>h. /\ TransactionOK /\ JournalOK(journal) /\ JournalArranged /\ MovingOK /\ RollbackOK
      /\ CommitSeen /\ HistoryOK /\ FlagsOK
  BY DEF IInv, TypeOK, AInv, UInv
<1>m. /\ faults \in Nat /\ crashes \in Nat /\ faults' \in {faults, faults + 1}
      /\ crashes' \in {crashes, crashes + 1}
  BY <1>h, OnlyMore
<1>c. Calm' => Calm
  BY <1>m DEF Calm
<1>u. ASSUME ~IsCommitted', pc' # "observe" PROVE CommitSeen'
  BY <1>u DEF CommitSeen
<1>k. ASSUME UNCHANGED <<disk, journal>>, Calm' => ~Settling, pc' \notin {"clear", "observe"}
      PROVE  CommitSeen'
  <2>1. CommittedState(journal)' = CommittedState(journal)
    BY <1>k DEF CommittedState, At, Held
  <2> QED BY <1>k, <1>c, <1>h, <2>1 DEF CommitSeen, InJournal, IsCommitted
<1>n. journal = NoJournal => ~IsCommitted
  BY DEF NoJournal, IsCommitted
<1>1. CASE \E o \in {"recover", "restore", "reset", "undo"} : Call(o)
  BY <1>1, <1>k DEF Call, Settling
<1>2. CASE ReconcileSkip \/ ReconcileStops \/ ReconcileRename \/ ReconcileNext \/ Check
  <2>1. /\ pc \in {"reconcile", "check"} /\ UNCHANGED journal /\ pc' # "observe"
    BY <1>2 DEF ReconcileSkip, ReconcileStops, ReconcileRename, ReconcileNext, Check
  <2> QED BY <2>1, <1>h, <1>u DEF RollbackOK, IsCommitted
<1>3. CASE Recover
  <2>1. pc = "recover" /\ UNCHANGED <<disk, journal, faults, crashes, then>>
    BY <1>3 DEF Recover, Works
  <2>2. CASE pc' # "clear"
    <3>1. InJournal => DirectoriesExist(journal)
      BY <1>h, DirectoriesHeld DEF JournalArranged
    <3>2. InJournal /\ IsCommitted => ~CommittedState(journal)
      BY <2>2, <3>1, <1>3 DEF Recover, InJournal
    <3>3. CommittedState(journal)' = CommittedState(journal)
      BY <2>1 DEF CommittedState, At, Held
    <3>4. pc' # "observe"
      BY <1>3 DEF Recover
    <3> QED BY <2>1, <2>2, <3>2, <3>3, <3>4 DEF CommitSeen, InJournal, IsCommitted
  <2>3. CASE pc' = "clear"
    <3>1. journal # NoJournal /\ IsCommitted /\ CommittedState(journal)
      BY <2>3, <1>3 DEF Recover
    <3>2. CommittedState(journal)' = CommittedState(journal)
      BY <2>1 DEF CommittedState, At, Held
    <3>3. Calm => faults = 1 /\ then = "finish"
      BY <3>1, <2>1, <1>h DEF CommitSeen, Settling, InJournal
    <3> QED BY <2>1, <2>3, <3>1, <3>2, <3>3, <1>c DEF CommitSeen, Settling
  <2> QED BY <2>2, <2>3
<1>4. CASE RecoveryFails \/ Crash
  <2>1. /\ UNCHANGED <<disk, journal>> /\ pc' \in {"stopped", "idle"}
        /\ \/ pc # "finish" /\ faults' = faults + 1
           \/ crashes' = crashes + 1
    BY <1>4 DEF RecoveryFails, Crash, Fault
  <2> QED BY <2>1, <1>m, <1>k DEF Calm, Settling
<1>5. CASE RecoveryClears
  <2>1. CASE journal' = NoJournal
    BY <1>5, <2>1, <1>u DEF RecoveryClears, NoJournal, IsCommitted
  <2>2. CASE journal' # NoJournal
    BY <1>5, <2>2, <1>m, <1>k DEF RecoveryClears, Calm, Settling, Fault
  <2> QED BY <2>1, <2>2
<1>6. CASE ReturnRecovery \/ FinishRecovered \/ StartReset \/ UndoRefuses
  BY <1>6, <1>k DEF ReturnRecovery, FinishRecovered, StartReset, UndoRefuses, Ready, Recovered, Return,
    FinishFails, Settling
<1>7. CASE ReturnFailure
  <2>1. UNCHANGED journal /\ pc' = "idle" /\ pc \in {"recovered", "stopped"}
    BY <1>7 DEF ReturnFailure, Return, Recovered
  <2>2. CASE ~IsCommitted
    BY <2>1, <2>2, <1>u DEF IsCommitted
  <2>3. CASE IsCommitted /\ UNCHANGED disk
    BY <2>1, <2>3, <1>k DEF Settling
  <2>4. CASE IsCommitted /\ journal.mode = "quarantine"
    <3>1. InJournal
      BY <2>4, <1>n DEF InJournal
    <3>2. CommittedState(journal)
      BY <2>4, <3>1, <1>h, CommitRecognised DEF JournalArranged
    <3>3. ~Calm
      BY <2>1, <2>4, <3>1, <3>2, <1>h DEF CommitSeen, Settling
    <3> QED BY <2>1, <3>3, <1>c DEF CommitSeen
  <2> QED BY <1>7, <1>n, <2>2, <2>3, <2>4, FailureSpares DEF InJournal
<1>8. CASE StageArchive \/ QuarantineCurrent \/ UndoIntoRoot \/ UndoBySwap \/ Clean \/ PlayGame
  <2>1. journal = NoJournal /\ UNCHANGED journal /\ pc' # "observe"
    BY <1>8, <1>h DEF StageArchive, QuarantineCurrent, UndoIntoRoot, UndoBySwap, CreateQuarantine,
      Clean, PlayGame, Ready, Return, TransactionOK
  <2> QED BY <2>1, <1>n, <1>u DEF IsCommitted
<1>9. CASE Begin \/ UpdateTransaction
  <2>1. journal' \in {journal, tx} /\ ~IsCommitted /\ tx.state = "precommit" /\ pc' # "observe"
    BY <1>9, <1>h, <1>n DEF Begin, UpdateTransaction, StartMoves, RollBack, Return, MovingOK, Poised,
      TransactionOK
  <2> QED BY <2>1, <1>u DEF IsCommitted
<1>10. CASE MoveUnit \/ MoveFails \/ Unmove \/ Unmoved \/ MovesDone
  <2>1. UNCHANGED journal /\ ~IsCommitted /\ pc' # "observe"
    BY <1>10, <1>h DEF MoveUnit, MoveFails, Unmove, Unmoved, MovesDone, RollBack, MovingOK
  <2> QED BY <2>1, <1>u DEF IsCommitted
<1>11. CASE Commit
  <2>1. pc = "commit" /\ ~IsCommitted
    BY <1>11, <1>h DEF Commit, MovingOK
  <2>2. CASE pc' = "finish"
    BY <2>2 DEF CommitSeen, Settling
  <2>3. CASE pc' = "observe"
    <3>1. faults' = faults + 1
      BY <2>3, <1>11 DEF Commit, Fault, FinishFails, Return
    <3> QED BY <2>3, <3>1, <1>m DEF CommitSeen, Settling, Calm
  <2>4. CASE pc' \notin {"finish", "observe"}
    BY <2>1, <2>4, <1>11, <1>u DEF Commit, IsCommitted
  <2> QED BY <2>2, <2>3, <2>4
<1>12. CASE Observe
  <2>1. /\ pc = "observe" /\ UNCHANGED <<disk, journal>> /\ pc' \in {"recover", "idle"}
        /\ \/ UNCHANGED faults /\ pc' = "recover" /\ (IsCommitted => then' = "finish")
           \/ faults' = faults + 1
    BY <1>12 DEF Observe, RollBack, FinishFails, Return, Works, Fault
  <2>2. Calm => faults = 1
    BY <2>1, <1>h DEF CommitSeen
  <2>3. Calm' /\ IsCommitted => Settling'
    BY <2>1, <2>2, <1>m, <1>c DEF Settling, Calm
  <2> QED BY <2>1, <2>3 DEF CommitSeen, IsCommitted
<1>13. CASE FinishClears
  <2>1. CASE journal' = NoJournal
    BY <1>13, <2>1, <1>u DEF FinishClears, NoJournal, IsCommitted, RollBack
  <2>2. CASE journal' # NoJournal
    <3>1. pc' = "recover" /\ then' = "finish" /\ faults' = faults + 1
      BY <1>13, <2>2 DEF FinishClears, RollBack, Fault
    <3> QED BY <3>1, <1>m DEF CommitSeen, Settling, Calm
  <2> QED BY <2>1, <2>2
<1>14. CASE UNCHANGED vars
  <2>1. CommittedState(journal)' = CommittedState(journal)
    BY <1>14 DEF vars, CommittedState, At, Held
  <2> QED BY <1>14, <2>1, <1>h DEF vars, CommitSeen, Settling, Calm, InJournal, IsCommitted
<1> QED BY <1>1, <1>2, <1>3, <1>4, <1>5, <1>6, <1>7, <1>8, <1>9, <1>10, <1>11, <1>12, <1>13, <1>14
        DEF Next

\* Each step keeps what a recovery that found no journal knows of the root.
LEMMA RootIsBackStep ==
  ASSUME IInv, AInv, UInv, [Next]_vars
  PROVE  RootIsBack'
<1>h. /\ TransactionOK /\ JournalArranged /\ MovingOK /\ RollbackOK
      /\ CommitSeen /\ RootIsBack /\ HistoryOK /\ FlagsOK
  BY DEF IInv, TypeOK, AInv, UInv
<1>m. /\ faults \in Nat /\ crashes \in Nat /\ faults' \in {faults, faults + 1}
      /\ crashes' \in {crashes, crashes + 1}
  BY <1>h, OnlyMore
<1>c. Calm' => Calm
  BY <1>m DEF Calm
<1>o. ASSUME ~Recovering' \/ InJournal' PROVE RootIsBack'
  BY <1>o DEF RootIsBack
<1>b. ASSUME disk'[Root] = pre' PROVE RootIsBack'
  BY <1>b DEF RootIsBack
<1>1. CASE \E o \in {"recover", "restore", "reset", "undo"} : Call(o)
  BY <1>1, <1>o, <1>b DEF Call, InJournal
<1>2. CASE Recover
  <2>1. /\ UNCHANGED <<disk, pre, journal, faults, crashes, then>> /\ pc = "recover"
        /\ journal = NoJournal => pc' = "recovered"
    BY <1>2 DEF Recover, Works
  <2> QED BY <2>1, <1>h DEF RootIsBack, Calm, InJournal, Recovering
<1>3. CASE RecoveryFails
  <2>1. /\ UNCHANGED <<disk, pre, journal>> /\ faults' = faults + 1 /\ Recovering
    BY <1>3 DEF RecoveryFails, Fault, Recovering
  <2>2. Calm' => faults = 0
    BY <2>1, <1>m DEF Calm
  <2> QED BY <2>1, <2>2, <1>c, <1>h DEF RootIsBack, InJournal
<1>4. CASE ReconcileSkip \/ ReconcileStops \/ ReconcileRename \/ ReconcileNext \/ Check
  <2>1. pc \in {"reconcile", "check"} /\ UNCHANGED journal
    BY <1>4 DEF ReconcileSkip, ReconcileStops, ReconcileRename, ReconcileNext, Check
  <2> QED BY <2>1, <1>h, <1>o DEF RollbackOK, InJournal
<1>5. CASE RecoveryClears
  <2>1. /\ UNCHANGED <<disk, pre, then, crashes>> /\ pc = "clear" /\ InJournal
        /\ \/ UNCHANGED faults /\ pc' = "recovered"
           \/ faults' = faults + 1
    BY <1>5, <1>h DEF RecoveryClears, RollbackOK, Works, Fault
  <2>2. CASE ~IsCommitted
    BY <2>1, <2>2, <1>h, <1>b DEF RollbackOK
  <2>3. CASE IsCommitted
    <3>1. Calm => faults = 1 /\ then = "finish"
      BY <2>1, <2>3, <1>h DEF CommitSeen, Settling
    <3> QED BY <2>1, <3>1, <1>m, <1>c DEF RootIsBack, Calm
  <2> QED BY <2>2, <2>3
<1>6. CASE ReturnRecovery \/ ReturnFailure \/ StageArchive \/ StartReset \/ QuarantineCurrent
           \/ UndoRefuses
  BY <1>6, <1>o DEF ReturnRecovery, ReturnFailure, StageArchive, StartReset, QuarantineCurrent,
    UndoRefuses, CreateQuarantine, Return, Recovering
<1>7. CASE UndoIntoRoot \/ UndoBySwap \/ MoveUnit \/ MoveFails \/ Unmove \/ MovesDone \/ Clean \/ Crash
           \/ PlayGame
  <2>1. ~Recovering' \/ (UNCHANGED <<pc, journal>> /\ pc = "unmove")
    BY <1>7 DEF UndoIntoRoot, UndoBySwap, CreateQuarantine, MoveUnit, MoveFails, Unmove, MovesDone,
      Clean, Crash, PlayGame, Return, Recovering
  <2> QED BY <2>1, <1>o DEF Recovering
<1>8. CASE FinishRecovered
  <2>1. CASE then = "finish" /\ pc = "recovered"
    BY <2>1, <1>8, <1>o DEF FinishRecovered, Recovering
  <2>2. CASE ~(then = "finish" /\ pc = "recovered")
    <3>1. UNCHANGED <<disk, pre, journal, faults, crashes>> /\ pc \in {"recovered", "stopped"}
      BY <1>8 DEF FinishRecovered, Recovered
    <3> QED BY <2>2, <3>1, <1>h DEF RootIsBack, Recovering, InJournal, Calm
  <2> QED BY <2>1, <2>2
<1>9. CASE Begin
  BY <1>9, <1>h, <1>b DEF Begin, MovingOK
<1>10. CASE UpdateTransaction
  <2>1. InJournal /\ tx # NoJournal /\ journal' \in {journal, tx}
    BY <1>10, <1>h DEF UpdateTransaction, MovingOK, Poised, Shape, NoJournal
  <2> QED BY <2>1, <1>o DEF InJournal
<1>11. CASE Commit
  <2>1. InJournal /\ Committed(journal) # NoJournal /\ journal' \in {journal, Committed(journal)}
    BY <1>11, <1>h, CommittedIs DEF Commit, MovingOK, JournalArranged
  <2> QED BY <2>1, <1>o DEF InJournal
<1>12. CASE Observe \/ Unmoved
  <2>1. InJournal /\ UNCHANGED journal
    BY <1>12, <1>h DEF Observe, Unmoved, MovingOK
  <2> QED BY <2>1, <1>o DEF InJournal
<1>13. CASE FinishClears
  <2>1. \/ pc' = "clean"
        \/ pc' = "recover" /\ then' = "finish" /\ faults' = faults + 1
    BY <1>13 DEF FinishClears, RollBack, Fault
  <2> QED BY <2>1, <1>o, <1>m DEF RootIsBack, Recovering, Calm
<1>14. CASE UNCHANGED vars
  BY <1>14, <1>h DEF vars, RootIsBack, Calm, InJournal, Recovering
<1> QED BY <1>1, <1>2, <1>3, <1>4, <1>5, <1>6, <1>7, <1>8, <1>9, <1>10, <1>11, <1>12, <1>13, <1>14
        DEF Next

\* Each step keeps what failure means.
LEMMA FailureStep ==
  ASSUME IInv, AInv, RInv, UInv, [Next]_vars
  PROVE  FailureMeansUndone'
<1>h. /\ FilesOK /\ TransactionOK /\ DirectoryOK /\ MovingOK /\ RootIsBack /\ FailureMeansUndone
      /\ pc # "idle" => result = "none"
  BY DEF IInv, TypeOK, AInv, RInv, WorkingOK, UInv
<1>r. Root \in Places
  BY BoundsAssumption DEF Root, Places
<1>o. ASSUME result' # "failed" \/ InJournal' \/ disk'[Root] = pre' PROVE FailureMeansUndone'
  BY <1>o DEF FailureMeansUndone, InJournal
<1>1. CASE (\E o \in {"recover", "restore", "reset", "undo"} : Call(o))
           \/ Recover \/ RecoveryFails \/ ReconcileSkip \/ ReconcileStops
           \/ ReconcileRename \/ ReconcileNext \/ Check
  BY <1>1, <1>h, <1>o DEF Call, Recover, RecoveryFails, ReconcileSkip, ReconcileStops, ReconcileRename,
    ReconcileNext, Check
<1>2. CASE RecoveryClears \/ UndoIntoRoot \/ MoveUnit \/ MoveFails \/ Unmove \/ Unmoved \/ MovesDone
  BY <1>2, <1>h, <1>o DEF RecoveryClears, UndoIntoRoot, MoveUnit, MoveFails, Unmove, Unmoved, MovesDone,
    Ready
<1>3. CASE UpdateTransaction \/ FinishClears \/ Clean \/ Crash \/ PlayGame
  BY <1>3, <1>h, <1>o DEF UpdateTransaction, FinishClears, Clean, Crash, PlayGame, Return
<1>4. CASE ReturnRecovery \/ ReturnFailure \/ FinishRecovered
  <2>1. /\ UNCHANGED <<journal, pre, faults, crashes>> /\ pc \in {"recovered", "stopped"}
    BY <1>4 DEF ReturnRecovery, ReturnFailure, FinishRecovered, Recovered
  <2>2. disk'[Root] = disk[Root]
    BY <1>4, FailureSpares DEF ReturnRecovery, FinishRecovered
  <2>3. \/ result' # "failed"
        \/ ~(then = "finish" /\ pc = "recovered")
    BY <1>4, <1>h DEF ReturnRecovery, ReturnFailure, FinishRecovered, Recovered
  <2> QED BY <2>1, <2>2, <2>3, <1>h
          DEF FailureMeansUndone, RootIsBack, Calm, InJournal, Recovering
<1>5. CASE StageArchive \/ StartReset \/ UndoRefuses
  <2>1. result' # "failed" \/ (UNCHANGED disk /\ pre' = disk[Root])
    BY <1>5, <1>h DEF StageArchive, StartReset, UndoRefuses, Ready, Begins, Return
  <2> QED BY <2>1, <1>o
<1>6. CASE UndoBySwap
  <2>1. UNCHANGED disk /\ pre' = disk[Root]
    BY <1>6 DEF UndoBySwap, CreateQuarantine, Ready, Begins
  <2> QED BY <2>1, <1>o
<1>7. CASE QuarantineCurrent
  <2>1. /\ pc = "quarantine" /\ UNCHANGED pre
        /\ UNCHANGED disk \/ (op = "restore" /\ disk' = [disk EXCEPT ![dir] = Empty])
    BY <1>7 DEF QuarantineCurrent, CreateQuarantine
  <2>2. disk[Root] = pre /\ (op = "restore" => dir # Root)
    BY <2>1, <1>h DEF MovingOK, DirectoryOK
  <2>3. disk'[Root] = disk[Root]
    BY <2>1, <2>2, <1>h, <1>r DEF FilesOK
  <2> QED BY <2>1, <2>2, <2>3, <1>o
<1>8. CASE Begin
  BY <1>8, <1>h, <1>o DEF Begin, MovingOK
<1>9. CASE Commit \/ Observe
  <2>1. result' = result \/ (InJournal /\ UNCHANGED journal)
    BY <1>9, <1>h DEF Commit, Observe, MovingOK
  <2>2. pc # "idle"
    BY <1>9 DEF Commit, Observe
  <2> QED BY <2>1, <2>2, <1>h, <1>o DEF InJournal
<1>10. CASE UNCHANGED vars
  BY <1>10, <1>h DEF vars, FailureMeansUndone
<1> QED BY <1>1, <1>2, <1>3, <1>4, <1>5, <1>6, <1>7, <1>8, <1>9, <1>10 DEF Next

\* With at most one I/O error and no crash, a call that fails and leaves no journal has put the
\* save back: the rollback ended with every unit where it was, or nothing had been moved.
THEOREM FailureIsUndone == Spec => []FailureMeansUndone
<1>1. Init => UInv
  BY DEF Init, UInv, CommitSeen, RootIsBack, FailureMeansUndone, InJournal, Recovering
<1>2. IInv /\ AInv /\ RInv /\ UInv /\ [Next]_vars => UInv'
  BY CommitSeenStep, RootIsBackStep, FailureStep DEF UInv
<1>3. UInv => FailureMeansUndone
  BY DEF UInv
<1> QED BY <1>1, <1>2, <1>3, Invariance, ArrangedAlways, ResultsAlways, PTL DEF Spec

-----------------------------------------------------------------------------
(* What one error or one crash leaves.                                     *)

Steady == faults + crashes <= 1 /\ ~disjoint
\* A journal that waits for its rollback means that something went wrong.
Disturbed ==
  InJournal /\ ~IsCommitted /\ pc \notin {"move", "phase", "commit"} => faults + crashes >= 1
\* Without a directory for the old save there is none, unless an undo left it below the root.
NoOld(j) == Old(j) = Root => \A u \in Units : pre[u] = Nothing
Whole ==
  ~disjoint => /\ InJournal => NoOld(journal)
               /\ pc \in {"begin", "phase"} => NoOld(tx)
\* The old save has left the root before the new one is installed, and comes back only in the
\* second leg of a rollback: the first leg brings a new unit away, and would stop at an old one.
Cleared ==
  pc \in {"begin", "phase"} /\ TwoLegs(tx) => \A u \in Units : disk[Root][u] = Nothing
Onward ==
  Steady /\ InJournal /\ ~IsCommitted /\ TwoLegs(journal) =>
    \/ Forwards(disk, pre, post, journal)
    \/ pc = "reconcile" /\ leg = 2
    \/ pc \in {"check", "clear"}
EInv == Disturbed /\ Whole /\ Cleared /\ Onward /\ OneDisruptionRecovers

\* With nothing below the root, no unit of the old save is back.
LEMMA ClearedForwards ==
  ASSUME NEW d, NEW p, NEW q, NEW j, Shape(p, q, j), Arranged(d, p, q, j),
         \A u \in Units : d[Root][u] = Nothing
  PROVE  Forwards(d, p, q, j)
<1> SUFFICES ASSUME NEW u \in Units, Untouched(d, p, q, j, u) PROVE Aside(d, p, q, j, u)
  BY DEF Forwards, Arranged, Somewhere
<1>1. p[u] = Nothing /\ Waits(d, q, j, u) /\ (Old(j) # Root => d[Old(j)][u] = Nothing)
  BY DEF Untouched
<1> QED BY <1>1 DEF Aside, Kept

\* Each unit of a leg is at exactly one of its ends.
LEMMA LegSound ==
  ASSUME NEW d, NEW p, NEW q, NEW j, Shape(p, q, j), Arranged(d, p, q, j),
         NEW n \in 1 .. 2, n <= LastLeg(j), NEW u \in Leg(j, n).units,
         Old(j) = Root => \A v \in Units : p[v] = Nothing,
         n = 1 /\ TwoLegs(j) => Forwards(d, p, q, j),
         n = 2 => NonePlaced(d, p, q, j)
  PROVE  ~(d[Leg(j, n).from][u] = Nothing <=> d[Leg(j, n).to][u] = Nothing)
<1>1. CASE n = 1 /\ Installs(j)
  <2>1. /\ Leg(j, n).from = Root /\ Leg(j, n).to = New(j) /\ u \in Coming(j) /\ u \in Units
        /\ New(j) # Root
    BY <1>1, Paths, Routes
  <2>2. q[u] # Nothing
    BY <2>1, <1>1 DEF Shape, Names, Installs
  <2>3. CASE Placed(d, p, q, j, u)
    BY <2>1, <2>2, <2>3 DEF Placed
  <2>4. CASE Aside(d, p, q, j, u)
    BY <2>1, <2>2, <2>4 DEF Aside, Waits
  <2>5. CASE Untouched(d, p, q, j, u) /\ ~TwoLegs(j)
    <3>1. p[u] = Nothing
      BY <2>1, <2>5, <1>1 DEF TwoLegs, Installs, Shape, Names
    <3> QED BY <2>1, <2>2, <2>5, <3>1 DEF Untouched, Waits
  <2> QED BY <1>1, <2>1, <2>3, <2>4, <2>5 DEF Forwards, Arranged, Somewhere
<1>2. CASE n = 1 /\ ~Installs(j)
  <2>1. /\ Leg(j, n).from = Old(j) /\ Leg(j, n).to = Root /\ u \in Leaving(j) /\ u \in Units
        /\ Old(j) # Root
    BY <1>2, Paths, Routes
  <2>2. p[u] # Nothing
    BY <2>1, <1>2 DEF Shape, Names, Installs
  <2> QED BY <2>1, <2>2, <1>2 DEF Arranged, Somewhere, Untouched, Aside, Placed, Kept
<1>3. CASE n = 2
  <2>1. /\ Leg(j, n).from = Old(j) /\ Leg(j, n).to = Root /\ u \in Leaving(j) /\ u \in Units
        /\ TwoLegs(j)
    BY <1>3, Paths, Routes
  <2>2. p[u] # Nothing
    BY <2>1 DEF Shape, Names, TwoLegs
  <2>3. Old(j) # Root
    BY <2>1, <2>2
  <2> QED BY <2>1, <2>2, <2>3, <1>3 DEF NonePlaced, Arranged, Somewhere, Untouched, Aside, Kept
<1> QED BY <1>1, <1>2, <1>3

\* A rollback that has brought every unit back finds the state that it checks for.
LEMMA BackAgain ==
  ASSUME NEW j, Shape(pre, post, j), \A u \in Units : Untouched(disk, pre, post, j, u), NoOld(j)
  PROVE  PretransactionState(j)
<1>1. /\ \A u \in Units : disk[Root][u] = pre[u] /\ Waits(disk, post, j, u)
      /\ \A u \in Units : Old(j) # Root => disk[Old(j)][u] = Nothing
      /\ j.mode \in Modes /\ j.units1 \subseteq Units /\ j.units2 \subseteq Units
      /\ j.first # Root
  BY BoundsAssumption DEF Untouched, Shape, Journals, Dirs, Root
<1>2. CASE j.mode = "quarantine"
  <2>1. Old(j) = j.first /\ Leaving(j) = j.units1
    BY <1>2 DEF Old, Leaving
  <2>2. \A u \in Units : disk[j.first][u] = Nothing /\ (u \in j.units1 <=> pre[u] # Nothing)
    BY <1>1, <1>2, <2>1 DEF Shape, Names
  <2> QED BY <1>1, <1>2, <2>2 DEF PretransactionState, At, Held
<1>3. CASE j.mode = "install"
  <2>1. Old(j) = j.second /\ New(j) = j.first /\ Leaving(j) = j.units2 /\ Coming(j) = j.units1
    BY <1>3 DEF Old, New, Leaving, Coming
  <2>2. \A u \in Units : /\ u \in j.units1 <=> post[u] # Nothing
                         /\ u \in j.units2 <=> pre[u] # Nothing
                         /\ u \in j.units1 <=> disk[j.first][u] # Nothing
                         /\ j.second # Root => disk[j.second][u] = Nothing
    BY <1>1, <1>3, <2>1 DEF Shape, Names, Waits
  <2> QED BY <1>1, <1>3, <2>2 DEF PretransactionState, At, Held
<1>4. CASE j.mode = "undo"
  <2>1. Old(j) = Root /\ New(j) = j.first /\ Coming(j) = j.units1
    BY <1>4 DEF Old, New, Coming
  <2>2. \A u \in Units : /\ pre[u] = Nothing
                         /\ u \in j.units1 <=> disk[j.first][u] # Nothing
    BY <1>1, <1>4, <2>1 DEF NoOld, Shape, Names, Waits
  <2> QED BY <1>1, <1>4, <2>2 DEF PretransactionState, At, Held
<1>5. CASE j.mode \in {"displace", "swap"}
  <2>1. /\ Old(j) = j.first /\ New(j) = j.second /\ Leaving(j) = j.units1 /\ Coming(j) = j.units2
        /\ j.second # Root
    BY <1>5, BoundsAssumption DEF Old, New, Leaving, Coming, Shape, Dirs, Root
  <2>2. \A u \in Units : /\ u \in j.units2 <=> disk[j.second][u] # Nothing
                         /\ u \in j.units1 <=> pre[u] # Nothing
                         /\ disk[j.first][u] = Nothing
    BY <1>1, <1>5, <2>1 DEF Shape, Names, Waits
  <2> QED BY <1>1, <1>5, <2>2 DEF PretransactionState, At, Held
<1> QED BY <1>1, <1>2, <1>3, <1>4, <1>5 DEF Modes

\* Each step keeps the count of what went wrong.
LEMMA DisturbedStep ==
  ASSUME IInv, AInv, Disturbed, [Next]_vars
  PROVE  Disturbed'
<1>h. /\ FilesOK /\ ProcessOK /\ HistoryOK /\ FlagsOK /\ TransactionOK /\ LoopsOK
      /\ JournalArranged /\ MovingOK
  BY DEF IInv, TypeOK, AInv
<1>m. /\ faults \in Nat /\ crashes \in Nat /\ (faults' = faults \/ faults' = faults + 1)
      /\ crashes' = crashes \/ crashes' = crashes + 1
  BY <1>h, OnlyMore
<1>o. ASSUME ~InJournal' \/ IsCommitted' \/ pc' \in {"move", "phase", "commit"} PROVE Disturbed'
  BY <1>o DEF Disturbed
<1>d. ASSUME faults' = faults + 1 \/ crashes' = crashes + 1 PROVE Disturbed'
  <2>1. faults' + crashes' >= 1
    BY <1>d, <1>m
  <2> QED BY <2>1 DEF Disturbed
<1>k. ASSUME UNCHANGED journal, pc \notin {"move", "phase", "commit"} PROVE Disturbed'
  <2>1. faults + crashes >= 1 => faults' + crashes' >= 1
    BY <1>m
  <2> QED BY <2>1, <1>k DEF Disturbed, InJournal, IsCommitted
<1>1. CASE (\E o \in {"recover", "restore", "reset", "undo"} : Call(o))
           \/ Recover \/ RecoveryFails \/ ReconcileSkip \/ ReconcileStops
           \/ ReconcileRename \/ ReconcileNext \/ Check
  BY <1>1, <1>k DEF Call, Recover, RecoveryFails, ReconcileSkip, ReconcileStops, ReconcileRename,
    ReconcileNext, Check
<1>2. CASE RecoveryClears \/ FinishClears
  BY <1>2, <1>k, <1>o DEF RecoveryClears, FinishClears, InJournal
<1>3. CASE ReturnRecovery \/ ReturnFailure \/ FinishRecovered \/ StageArchive \/ StartReset
           \/ QuarantineCurrent \/ UndoRefuses
  BY <1>3, <1>k DEF ReturnRecovery, ReturnFailure, FinishRecovered, StageArchive, StartReset,
    QuarantineCurrent, CreateQuarantine, UndoRefuses, Ready, Recovered
<1>4. CASE UndoIntoRoot \/ UndoBySwap \/ Unmove \/ Unmoved \/ Observe \/ Clean \/ PlayGame
  BY <1>4, <1>k DEF UndoIntoRoot, UndoBySwap, CreateQuarantine, Unmove, Unmoved, Observe, Clean,
    PlayGame, Ready
<1>5. CASE Begin \/ UpdateTransaction
  BY <1>5, <1>o, <1>d DEF Begin, UpdateTransaction, StartMoves, Fault
<1>6. CASE MoveUnit \/ MovesDone
  BY <1>6, <1>o, <1>d DEF MoveUnit, MovesDone, Fault
<1>7. CASE MoveFails
  <2>1. /\ pc = "move" /\ left # {} /\ left \subseteq Units /\ Halfway(disk, pre, post, tx, left)
    BY <1>7, <1>h DEF MoveFails, MovingOK, ProcessOK
  <2>2. CanRename(MoveFrom, MoveTo, First(left))
    BY <2>1, FirstIsMember DEF Halfway, MayMove, CanRename, MoveFrom, MoveTo
  <2> QED BY <2>2, <1>7, <1>d DEF MoveFails, Fault
<1>8. CASE Commit
  <2>1. InJournal /\ Committed(journal).state = "committed"
    BY <1>8, <1>h, CommittedIs DEF Commit, MovingOK, JournalArranged
  <2> QED BY <2>1, <1>8, <1>o, <1>d DEF Commit, Fault, IsCommitted
<1>9. CASE Crash
  BY <1>9, <1>d DEF Crash
<1>10. CASE UNCHANGED vars
  BY <1>10 DEF vars, Disturbed, InJournal, IsCommitted
<1> QED BY <1>1, <1>2, <1>3, <1>4, <1>5, <1>6, <1>7, <1>8, <1>9, <1>10 DEF Next

\* Each step keeps what a missing directory means.
LEMMA WholeStep ==
  ASSUME IInv, AInv, Whole, [Next]_vars
  PROVE  Whole'
<1>h. /\ FilesOK /\ HistoryOK /\ FlagsOK /\ TransactionOK /\ JournalArranged /\ MovingOK
  BY DEF IInv, TypeOK, AInv
<1>d. disjoint => disjoint'
  BY <1>h, OnlyMore
<1>r. Root \in Places /\ Root \notin Dirs
  BY BoundsAssumption DEF Root, Places, Dirs
<1>k. ASSUME UNCHANGED pre, journal' \in {journal, NoJournal}, pc' \notin {"begin", "phase"}
      PROVE  Whole'
  BY <1>k, <1>d DEF Whole, NoOld, InJournal
<1>n. ASSUME journal' = NoJournal, pc' \in {"begin", "phase"} /\ ~disjoint' => NoOld(tx)'
      PROVE  Whole'
  BY <1>n DEF Whole, InJournal
<1>1. CASE \E o \in {"recover", "restore", "reset", "undo"} : Call(o)
  <2>1. /\ UNCHANGED journal /\ (journal = NoJournal \/ UNCHANGED pre) /\ pc' = "recover"
    BY <1>1 DEF Call
  <2> QED BY <2>1, <1>k, <1>n
<1>2. CASE Recover \/ RecoveryFails \/ ReconcileSkip \/ ReconcileStops \/ ReconcileRename
           \/ ReconcileNext \/ Check
  BY <1>2, <1>k DEF Recover, RecoveryFails, ReconcileSkip, ReconcileStops, ReconcileRename,
    ReconcileNext, Check
<1>3. CASE RecoveryClears \/ ReturnRecovery \/ ReturnFailure \/ FinishRecovered \/ Clean \/ Crash
           \/ FinishClears
  BY <1>3, <1>k DEF RecoveryClears, ReturnRecovery, ReturnFailure, FinishRecovered, FinishFails, Clean,
    Crash, FinishClears, RollBack, Return, Recovered
<1>4. CASE MoveUnit \/ MoveFails \/ Unmove \/ Unmoved \/ Observe
  BY <1>4, <1>k DEF MoveUnit, MoveFails, Unmove, Unmoved, Observe, RollBack, FinishFails, Return
<1>5. CASE StartReset \/ UndoRefuses \/ PlayGame
  BY <1>5, <1>n, <1>h DEF StartReset, UndoRefuses, PlayGame, Ready, Return, TransactionOK
<1>6. CASE StageArchive
  <2>1. /\ journal' = NoJournal /\ pre' = disk[Root]
        /\ pc' \in {"begin", "phase"} => Held(Root) = {}
    BY <1>6, <1>h DEF StageArchive, Ready, Begins, Return, TransactionOK
  <2> QED BY <2>1, <1>n DEF NoOld, Held
<1>7. CASE QuarantineCurrent
  <2>1. journal' = NoJournal
    BY <1>7, <1>h DEF QuarantineCurrent, CreateQuarantine, TransactionOK
  <2>2. CASE pc' = "begin"
    <3>1. PICK d \in Free : tx' = [Record("quarantine", Root, Root, Held(Root), {}) EXCEPT !.first = d]
      BY <2>2, <1>7 DEF QuarantineCurrent, CreateQuarantine, Return
    <3>2. tx'.mode = "quarantine" /\ tx'.first = d /\ d # Root
      BY <3>1, <1>r DEF Record, Free
    <3> QED BY <2>1, <3>2, <1>n DEF NoOld, Old
  <2> QED BY <2>1, <2>2, <1>7, <1>n DEF QuarantineCurrent, CreateQuarantine, Return
<1>8. CASE UndoIntoRoot
  <2>1. journal' = NoJournal /\ pre' = disk[Root]
    BY <1>8, <1>h DEF UndoIntoRoot, Ready, Begins, TransactionOK
  <2>2. disjoint' = (disjoint \/ Held(Root) # {})
    BY Zenon, <1>8 DEF UndoIntoRoot
  <2>3. ~disjoint' => Held(Root) = {}
    BY Zenon, <2>2
  <2> QED BY <2>1, <2>3, <1>n DEF NoOld, Held
<1>9. CASE UndoBySwap
  <2>1. journal' = NoJournal
    BY <1>9, <1>h DEF UndoBySwap, CreateQuarantine, Ready, TransactionOK
  <2>2. CASE pc' = "begin"
    <3>1. PICK q \in Dirs, d \in Free :
            tx' = [Record("displace", Root, q, Held(Root), listed[q]) EXCEPT !.first = d]
      BY <2>2, <1>9 DEF UndoBySwap, CreateQuarantine, Return
    <3>2. tx'.mode = "displace" /\ tx'.first = d /\ d # Root
      BY <3>1, <1>r DEF Record, Free
    <3> QED BY <2>1, <3>2, <1>n DEF NoOld, Old
  <2> QED BY <2>1, <2>2, <1>9, <1>n DEF UndoBySwap, CreateQuarantine, Return
<1>10. CASE Begin \/ UpdateTransaction
  <2>1. /\ pc \in {"begin", "phase"} /\ journal' \in {journal, tx} /\ UNCHANGED pre
        /\ pc' \notin {"begin", "phase"}
    BY <1>10 DEF Begin, UpdateTransaction, StartMoves, RollBack, Return
  <2> QED BY <2>1, <1>d DEF Whole, NoOld, InJournal
<1>11. CASE MovesDone
  <2>1. /\ UNCHANGED <<journal, pre>> /\ Shape(pre, post, tx)
        /\ \/ pc' = "commit"
           \/ /\ pc' = "phase" /\ tx' = NextPhase /\ tx.mode \in {"displace", "quarantine"}
    BY <1>11, <1>h DEF MovesDone, MovingOK, JournalArranged
  <2>2. CASE pc' = "commit"
    BY <2>1, <2>2, <1>k
  <2>3. CASE pc' = "phase" /\ tx' = NextPhase /\ tx.mode = "quarantine"
    <3>1. tx'.mode = "install" /\ tx'.second = tx.first /\ tx.first # Root
      BY <2>1, <2>3, <1>r DEF NextPhase, Record, Shape
    <3> QED BY <2>1, <2>3, <3>1, <1>d DEF Whole, NoOld, Old, InJournal
  <2>4. CASE pc' = "phase" /\ tx' = NextPhase /\ tx.mode = "displace"
    <3>1. tx'.mode = "swap" /\ tx'.first = tx.first /\ tx.first # Root
      BY <2>1, <2>4, <1>r DEF NextPhase, Shape, Journals
    <3> QED BY <2>1, <2>4, <3>1, <1>d DEF Whole, NoOld, Old, InJournal
  <2> QED BY <2>1, <2>2, <2>3, <2>4
<1>12. CASE Commit
  <2>1. /\ InJournal /\ Old(Committed(journal)) = Old(journal) /\ UNCHANGED pre
        /\ journal' \in {journal, Committed(journal)} /\ pc' \notin {"begin", "phase"}
    BY <1>12, <1>h, CommittedIs DEF Commit, MovingOK, JournalArranged, FinishFails, Return
  <2> QED BY <2>1, <1>d DEF Whole, NoOld
<1>13. CASE UNCHANGED vars
  BY <1>13 DEF vars, Whole, NoOld, InJournal
<1> QED BY <1>1, <1>2, <1>3, <1>4, <1>5, <1>6, <1>7, <1>8, <1>9, <1>10, <1>11, <1>12, <1>13 DEF Next

\* Each step keeps the root clear before an install.
LEMMA ClearedStep ==
  ASSUME IInv, AInv, Cleared, [Next]_vars
  PROVE  Cleared'
<1>h. /\ FilesOK /\ JournalArranged /\ MovingOK
  BY DEF IInv, TypeOK, AInv
<1>r. Root \in Places /\ Root \notin Dirs
  BY BoundsAssumption DEF Root, Places, Dirs
<1>o. ASSUME pc' \notin {"begin", "phase"} \/ ~TwoLegs(tx)' PROVE Cleared'
  BY <1>o DEF Cleared
<1>1. CASE (\E o \in {"recover", "restore", "reset", "undo"} : Call(o))
           \/ Recover \/ RecoveryFails \/ ReconcileSkip \/ ReconcileStops
           \/ ReconcileRename \/ ReconcileNext \/ Check
  BY <1>1, <1>o DEF Call, Recover, RecoveryFails, ReconcileSkip, ReconcileStops, ReconcileRename,
    ReconcileNext, Check
<1>2. CASE RecoveryClears \/ ReturnRecovery \/ ReturnFailure \/ FinishRecovered \/ StartReset
           \/ UndoRefuses \/ Begin \/ UpdateTransaction
  BY <1>2, <1>o DEF RecoveryClears, ReturnRecovery, ReturnFailure, FinishRecovered, FinishFails,
    StartReset, UndoRefuses, Begin, UpdateTransaction, StartMoves, RollBack, Return, Recovered
<1>3. CASE MoveUnit \/ MoveFails \/ Unmove \/ Unmoved \/ Commit \/ Observe \/ FinishClears \/ Clean
           \/ Crash \/ PlayGame
  BY <1>3, <1>o DEF MoveUnit, MoveFails, Unmove, Unmoved, Commit, Observe, FinishClears, Clean,
    Crash, PlayGame, RollBack, FinishFails, Return
<1>4. CASE StageArchive
  <2>1. PICK d \in Free :
          \/ pc' \notin {"begin", "phase"}
          \/ Held(Root) = {} /\ \E x : disk' = [disk EXCEPT ![d] = x]
    BY <1>4 DEF StageArchive, Return
  <2>2. Held(Root) = {} => \A u \in Units : disk[Root][u] = Nothing
    BY DEF Held
  <2> QED BY <2>1, <2>2, <1>o, <1>h, <1>r DEF Cleared, FilesOK, Free
<1>5. CASE QuarantineCurrent
  <2>1. \/ pc' = "idle"
        \/ \E d \in Free : tx' = [Record("quarantine", Root, Root, Held(Root), {}) EXCEPT !.first = d]
    BY <1>5 DEF QuarantineCurrent, CreateQuarantine, Return
  <2>2. pc' = "idle" \/ tx'.mode = "quarantine"
    BY <2>1 DEF Record
  <2> QED BY <2>2, <1>o DEF TwoLegs
<1>6. CASE UndoIntoRoot
  <2>1. tx'.mode = "undo"
    BY <1>6 DEF UndoIntoRoot, Record
  <2> QED BY <2>1, <1>o DEF TwoLegs
<1>7. CASE UndoBySwap
  <2>1. \/ pc' = "idle"
        \/ \E q \in Dirs, d \in Free :
             tx' = [Record("displace", Root, q, Held(Root), listed[q]) EXCEPT !.first = d]
    BY <1>7 DEF UndoBySwap, CreateQuarantine, Return
  <2>2. pc' = "idle" \/ tx'.mode = "displace"
    BY <2>1 DEF Record
  <2> QED BY <2>2, <1>o DEF TwoLegs
<1>8. CASE MovesDone
  <2>1. CASE pc' = "commit"
    BY <2>1, <1>o
  <2>2. CASE pc' = "phase"
    <3>1. /\ tx.mode \in {"displace", "quarantine"} /\ UNCHANGED disk
          /\ Shape(pre, post, tx) /\ Halfway(disk, pre, post, tx, {})
      BY <2>2, <1>8, <1>h DEF MovesDone, MovingOK, JournalArranged
    <3>2. \A u \in Units : Aside(disk, pre, post, tx, u)
      BY <3>1, HalfwayDone DEF Installs
    <3> QED BY <3>1, <3>2 DEF Aside, Cleared
  <2> QED BY <1>8, <2>1, <2>2 DEF MovesDone
<1>9. CASE UNCHANGED vars
  BY <1>9 DEF vars, Cleared
<1> QED BY <1>1, <1>2, <1>3, <1>4, <1>5, <1>6, <1>7, <1>8, <1>9 DEF Next

\* No recovery refuses to go on.
LEMMA NothingStops ==
  ASSUME IInv, AInv, EInv, Steady
  PROVE  /\ ~ReconcileStops
         /\ pc = "check" => PretransactionState(journal)
         /\ InJournal /\ IsCommitted => CommittedState(journal)
         /\ InJournal => DirectoriesExist(journal)
<1>h. /\ ProcessOK /\ LoopsOK /\ JournalOK(journal) /\ JournalArranged /\ RollbackOK
      /\ Onward /\ Whole
  BY DEF IInv, TypeOK, AInv, EInv
<1>n. InJournal => NoOld(journal) /\ Shape(pre, post, journal)
  BY <1>h DEF Whole, Steady, JournalArranged
<1>1. ~ReconcileStops
  <2> SUFFICES ASSUME ReconcileStops PROVE FALSE OBVIOUS
  <2>1. /\ pc = "reconcile" /\ InJournal /\ ~IsCommitted /\ leg \in 1 .. 2 /\ leg <= LastLeg(journal)
        /\ leg = 2 => NonePlaced(disk, pre, post, journal)
        /\ Arranged(disk, pre, post, journal)
        /\ First(left) \in Leg(journal, leg).units
        /\ disk[Leg(journal, leg).from][First(left)] = Nothing
             <=> disk[Leg(journal, leg).to][First(left)] = Nothing
    BY <1>h, FirstIsMember DEF ReconcileStops, RollbackOK, JournalArranged, LoopsOK, ProcessOK,
      LegFrom, LegTo
  <2>2. leg = 1 /\ TwoLegs(journal) => Forwards(disk, pre, post, journal)
    BY <2>1, <1>h DEF Onward
  <2>3. Old(journal) = Root => \A v \in Units : pre[v] = Nothing
    BY <2>1, <1>n DEF NoOld
  <2> QED BY <2>1, <2>2, <2>3, <1>n, LegSound
<1>2. pc = "check" => PretransactionState(journal)
  BY <1>h, <1>n, BackAgain DEF RollbackOK
<1>3. InJournal /\ IsCommitted => CommittedState(journal)
  <2> SUFFICES ASSUME InJournal, IsCommitted PROVE CommittedState(journal) OBVIOUS
  <2>1. journal.mode = "undo" => Old(journal) = Root
    BY DEF Old
  <2>2. Finished(disk, pre, post, journal)
    BY <1>h DEF JournalArranged
  <2> QED BY <2>1, <2>2, <1>n, CommitRecognised DEF NoOld
<1>4. InJournal => DirectoriesExist(journal)
  BY <1>h, <1>n, DirectoriesHeld
<1> QED BY <1>1, <1>2, <1>3, <1>4

\* Each step keeps the old save away from the root until the second leg.
LEMMA OnwardStep ==
  ASSUME IInv, AInv, EInv, [Next]_vars
  PROVE  Onward'
<1> SUFFICES ASSUME Steady', InJournal', ~IsCommitted', TwoLegs(journal)'
             PROVE  \/ Forwards(disk, pre, post, journal)'
                    \/ (pc = "reconcile" /\ leg = 2)'
                    \/ pc' \in {"check", "clear"}
  BY DEF Onward
<1>h. /\ FilesOK /\ ProcessOK /\ TransactionOK /\ LoopsOK /\ JournalArranged /\ MovingOK /\ RollbackOK
      /\ HistoryOK /\ FlagsOK /\ Disturbed /\ Cleared /\ Onward
  BY DEF IInv, TypeOK, AInv, EInv
<1>m. /\ faults \in Nat /\ crashes \in Nat /\ (faults' = faults \/ faults' = faults + 1)
      /\ crashes' = crashes \/ crashes' = crashes + 1
      /\ (disjoint => disjoint')
  BY <1>h, OnlyMore
<1>s. Steady
  <2>1. faults' + crashes' <= 1 => faults + crashes <= 1
    BY <1>m
  <2> QED BY <2>1, <1>m DEF Steady
<1>f. ASSUME faults' = faults + 1 \/ crashes' = crashes + 1
      PROVE  InJournal /\ ~IsCommitted => pc \in {"move", "phase", "commit"}
  <2>1. faults + crashes = 0
    BY <1>f, <1>m DEF Steady
  <2> QED BY <2>1, <1>m, <1>h DEF Disturbed
<1>k. ASSUME UNCHANGED <<disk, journal, pre, post>>, pc \notin {"reconcile", "check", "clear"}
      PROVE  Forwards(disk, pre, post, journal)'
  <2>1. InJournal /\ ~IsCommitted /\ TwoLegs(journal)
    BY <1>k DEF InJournal, IsCommitted
  <2> QED BY <2>1, <1>k, <1>s, <1>h DEF Onward
<1>1. CASE \E o \in {"recover", "restore", "reset", "undo"} : Call(o)
  BY <1>1, <1>k DEF Call, InJournal
<1>2. CASE Recover
  BY <1>2, <1>k DEF Recover
<1>3. CASE RecoveryFails
  BY <1>3, <1>f DEF RecoveryFails, Fault, InJournal, IsCommitted
<1>4. CASE ReconcileSkip
  <2>1. pc = "reconcile" /\ UNCHANGED <<pc, leg, disk, journal, pre, post>>
    BY <1>4 DEF ReconcileSkip
  <2> QED BY <2>1, <1>s, <1>h DEF Onward, InJournal, IsCommitted
<1>5. CASE ReconcileStops
  BY <1>5, <1>s, NothingStops
<1>6. CASE ReconcileRename
  <2>1. /\ UNCHANGED <<journal, pre, post, leg>> /\ pc = "reconcile"
        /\ \/ UNCHANGED pc
           \/ faults' = faults + 1
    BY <1>6 DEF ReconcileRename, Fault
  <2>2. /\ InJournal /\ ~IsCommitted /\ UNCHANGED pc
    BY <2>1, <1>f DEF InJournal, IsCommitted
  <2>3. CASE leg = 2
    BY <2>1, <2>2, <2>3
  <2>4. CASE leg = 1
    <3>1. /\ Shape(pre, post, journal) /\ TwoLegs(journal) /\ 1 <= LastLeg(journal)
          /\ Arranged(disk, pre, post, journal) /\ Forwards(disk, pre, post, journal)
          /\ First(left) \in Leg(journal, 1).units
          /\ Renames(disk, disk', Leg(journal, 1).from, Leg(journal, 1).to, First(left))
      BY <2>1, <2>2, <2>4, <1>6, <1>s, <1>h, FirstIsMember, RenameRenames
      DEF ReconcileRename, RollbackOK, JournalArranged, LoopsOK, ProcessOK, LegFrom, LegTo, Onward
    <3>2. Forwards(disk', pre, post, journal)
      BY <3>1, <1>h, LegArranged DEF FilesOK
    <3> QED BY <2>1, <3>2
  <2> QED BY <2>3, <2>4, <1>h DEF ProcessOK
<1>7. CASE ReconcileNext
  <2>1. CASE pc' = "check"
    BY <2>1
  <2>2. CASE pc' # "check"
    <3>1. pc' = "reconcile" /\ leg' = leg + 1 /\ leg < LastLeg(journal) /\ leg \in 1 .. 2
      BY <2>2, <1>7, <1>h DEF ReconcileNext, ProcessOK
    <3>2. LastLeg(journal) \in 1 .. 2
      BY DEF LastLeg
    <3> QED BY <3>1, <3>2
  <2> QED BY <2>1, <2>2
<1>8. CASE Check
  BY <1>8, <1>s, NothingStops DEF Check
<1>9. CASE RecoveryClears
  BY <1>9, <1>f DEF RecoveryClears, Fault, InJournal, IsCommitted
<1>10. CASE ReturnRecovery \/ FinishRecovered \/ MoveFails \/ Unmoved \/ MovesDone \/ Observe
  BY <1>10, <1>k DEF ReturnRecovery, FinishRecovered, MoveFails, Unmoved, MovesDone, Observe, Recovered
<1>11. CASE ReturnFailure
  <2>1. UNCHANGED <<journal, pre, post>> /\ pc \notin {"reconcile", "check", "clear"}
    BY <1>11 DEF ReturnFailure, Recovered
  <2>2. InJournal /\ journal.mode # "quarantine"
    BY <2>1 DEF InJournal, TwoLegs
  <2> QED BY <2>1, <2>2, <1>11, <1>k, FailureSpares
<1>12. CASE StageArchive \/ StartReset \/ QuarantineCurrent \/ UndoRefuses \/ UndoIntoRoot
            \/ UndoBySwap \/ Clean \/ PlayGame
  <2>1. journal' = NoJournal
    BY <1>12, <1>h DEF StageArchive, StartReset, QuarantineCurrent, UndoRefuses, UndoIntoRoot,
      UndoBySwap, CreateQuarantine, Clean, PlayGame, Ready, TransactionOK
  <2> QED BY <2>1 DEF InJournal
<1>13. CASE Begin \/ UpdateTransaction
  <2>1. /\ UNCHANGED <<disk, pre, post>> /\ pc \in {"begin", "phase"} /\ journal' \in {journal, tx}
        /\ Shape(pre, post, tx) /\ Arranged(disk, pre, post, tx)
    BY <1>13, <1>h DEF Begin, UpdateTransaction, MovingOK, Poised
  <2>2. CASE journal' = journal
    BY <2>1, <2>2, <1>k
  <2>3. CASE journal' = tx
    <3>1. \A u \in Units : disk[Root][u] = Nothing
      BY <2>1, <2>3, <1>h DEF Cleared
    <3>2. Forwards(disk, pre, post, tx)
      BY <2>1, <3>1, ClearedForwards
    <3> QED BY <2>1, <2>3, <3>2
  <2> QED BY <2>1, <2>2, <2>3
<1>14. CASE MoveUnit
  <2>1. /\ UNCHANGED <<journal, pre, post>> /\ pc = "move" /\ InJournal /\ ~IsCommitted
        /\ TwoLegs(journal)
    BY <1>14 DEF MoveUnit, InJournal, IsCommitted
  <2>2. /\ Shape(pre, post, journal) /\ Arranged(disk, pre, post, journal)
        /\ Forwards(disk, pre, post, journal) /\ First(left) \in Forward(journal).units
        /\ Renames(disk, disk', Forward(journal).from, Forward(journal).to, First(left))
    BY <2>1, <1>14, <1>s, <1>h, FirstIsMember, RenameRenames
    DEF MoveUnit, MovingOK, JournalArranged, LoopsOK, ProcessOK, MoveFrom, MoveTo, Onward
  <2>3. Forwards(disk', pre, post, journal)
    BY <2>2, <1>h, MoveArranged DEF FilesOK
  <2> QED BY <2>1, <2>3
<1>15. CASE Unmove
  <2>1. /\ UNCHANGED <<journal, pre, post>> /\ pc = "unmove" /\ InJournal /\ ~IsCommitted
        /\ TwoLegs(journal) /\ Installs(journal)
    BY <1>15 DEF Unmove, InJournal, IsCommitted, TwoLegs, Installs
  <2>2. /\ Shape(pre, post, journal) /\ Arranged(disk, pre, post, journal)
        /\ Forwards(disk, pre, post, journal) /\ Last(moved) \in Forward(journal).units
        /\ \/ UNCHANGED disk
           \/ Renames(disk, disk', Forward(journal).to, Forward(journal).from, Last(moved))
    BY <2>1, <1>15, <1>s, <1>h, FirstIsMember, RenameRenames
    DEF Unmove, MovingOK, JournalArranged, LoopsOK, ProcessOK, MoveFrom, MoveTo, Onward
  <2>3. Forwards(disk', pre, post, journal)
    BY <2>1, <2>2, <1>h, UnmoveArranged DEF FilesOK
  <2> QED BY <2>1, <2>3
<1>16. CASE Commit
  <2>1. /\ UNCHANGED <<disk, pre, post>> /\ pc = "commit"
        /\ journal' \in {journal, Committed(journal)} /\ Committed(journal).state = "committed"
    BY <1>16, <1>h, CommittedIs DEF Commit, MovingOK, JournalArranged
  <2> QED BY <2>1, <1>k DEF IsCommitted
<1>17. CASE FinishClears
  BY <1>17, <1>h DEF FinishClears, MovingOK, InJournal, IsCommitted
<1>18. CASE Crash
  BY <1>18, <1>f, <1>k DEF Crash, InJournal, IsCommitted
<1>19. CASE UNCHANGED vars
  BY <1>19, <1>s, <1>h DEF vars, Onward, InJournal, IsCommitted
<1> QED BY <1>1, <1>2, <1>3, <1>4, <1>5, <1>6, <1>7, <1>8, <1>9, <1>10, <1>11, <1>12, <1>13, <1>14,
           <1>15, <1>16, <1>17, <1>18, <1>19 DEF Next

\* No step stops a recovery.
LEMMA StoppedStep ==
  ASSUME IInv, AInv, EInv, [Next]_vars
  PROVE  OneDisruptionRecovers'
<1> SUFFICES ASSUME Steady' PROVE ~stopped'
  BY DEF OneDisruptionRecovers, Steady
<1>h. HistoryOK /\ FlagsOK
  BY DEF IInv, TypeOK
<1>s. Steady /\ ~stopped
  BY <1>h, OnlyMore DEF Steady, EInv, OneDisruptionRecovers
<1>1. CASE Recover
  BY <1>1, <1>s, NothingStops DEF Recover, InJournal
<1>2. CASE ReconcileStops
  BY <1>2, <1>s, NothingStops
<1>3. CASE Check
  <2>1. PretransactionState(journal) /\ stopped' = (stopped \/ ~PretransactionState(journal))
    BY <1>3, <1>s, NothingStops DEF Check
  <2> QED BY Zenon, <2>1, <1>s
<1>4. CASE (\E o \in {"recover", "restore", "reset", "undo"} : Call(o))
           \/ RecoveryFails \/ ReconcileSkip \/ ReconcileRename \/ ReconcileNext
           \/ RecoveryClears \/ ReturnRecovery \/ ReturnFailure \/ FinishRecovered
  BY <1>4, <1>s DEF Call, RecoveryFails, ReconcileSkip, ReconcileRename, ReconcileNext,
    RecoveryClears, ReturnRecovery, ReturnFailure, FinishRecovered
<1>5. CASE StageArchive \/ StartReset \/ QuarantineCurrent \/ UndoRefuses \/ UndoIntoRoot \/ UndoBySwap
  BY <1>5, <1>s DEF StageArchive, StartReset, QuarantineCurrent, UndoRefuses, UndoIntoRoot,
    UndoBySwap, CreateQuarantine
<1>6. CASE Begin \/ MoveUnit \/ MoveFails \/ Unmove \/ Unmoved \/ MovesDone \/ UpdateTransaction
           \/ Commit \/ Observe \/ FinishClears \/ Clean \/ Crash \/ PlayGame
  BY <1>6, <1>s DEF Begin, MoveUnit, MoveFails, Unmove, Unmoved, MovesDone, UpdateTransaction,
    Commit, Observe, FinishClears, Clean, Crash, PlayGame
<1>7. CASE UNCHANGED vars
  BY <1>7, <1>s DEF vars
<1> QED BY <1>1, <1>2, <1>3, <1>4, <1>5, <1>6, <1>7 DEF Next

\* After one crash or one I/O error, and no undo of a reset beside units it does not list, no
\* recovery refuses: every unit is at one end of its leg, the state checked at the end is
\* there, and a commit is recognised.
THEOREM OneDisruption == Spec => []OneDisruptionRecovers
<1>1. Init => EInv
  BY DEF Init, EInv, Disturbed, Whole, Cleared, Onward, OneDisruptionRecovers, InJournal
<1>2. IInv /\ AInv /\ EInv /\ [Next]_vars => EInv'
  BY DisturbedStep, WholeStep, ClearedStep, OnwardStep, StoppedStep DEF EInv
<1>3. EInv => OneDisruptionRecovers
  BY DEF EInv
<1> QED BY <1>1, <1>2, <1>3, Invariance, ArrangedAlways, PTL DEF Spec
=============================================================================
