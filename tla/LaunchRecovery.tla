--------------------------- MODULE LaunchRecovery ---------------------------
(***************************************************************************)
(* Safe Mode and interrupted-run recovery of the GoldenEye launcher        *)
(* (ge_launch_recovery.cpp and its callers in ge_launcher_macos.mm).       *)
(*                                                                         *)
(* Four files survive a crash: the player's config, the Safe Mode marker,  *)
(* the config backup and the run marker.  Each WriteAtomicPrivateFile and  *)
(* RemoveRegularFile is one atomic change of one file that may also fail;  *)
(* the process may die between any two of them.  SaveConfig truncates the  *)
(* config and then writes it, so a crash in between leaves it torn; it is  *)
(* called by a start that repairs settings, and by the game.               *)
(***************************************************************************)
EXTENDS Naturals

CONSTANTS
  Own,       \* configurations the player saves outside Safe Mode
  Safe,      \* the configuration saved with the Safe Mode overrides applied
  Torn,      \* a config truncated by an interrupted SaveConfig
  None,      \* no such file
  MaxFaults  \* bound on the file operations that fail

ASSUME ContentsAssumption ==
  /\ Own # {} /\ {Safe, Torn, None} \cap Own = {}
  /\ Safe # Torn /\ Safe # None /\ Torn # None
ASSUME FaultsAssumption == MaxFaults \in Nat

Contents == Own \union {Safe, Torn, None}

VARIABLES
  config,       \* GoldenEyeMetal.toml
  backup,       \* .goldeneye-metal-safe-mode-config-backup
  marker,       \* .goldeneye-metal-safe-mode-active: "none" or what it records
  runMark,      \* .goldeneye-metal-run-active exists
  pc,           \* what the process is about to do; "down" when there is none
  after,        \* where RestoreSafeModeConfig returns to
  safeMode,     \* the game runs in Safe Mode
  game,         \* how this process started the game: "armed" if its window
                \* close will end the run, "bypass" without the launcher
  warning,      \* PrepareStartup could not restore
  interrupted,  \* PrepareStartup found the run marker
  loaded,       \* the configuration the process started from
  faults,       \* file operations that failed so far
  died          \* history: the last game the launcher started did not close cleanly

disk == <<config, backup, marker, runMark>>
recoveryVars == <<config, backup, marker, runMark, pc, after, safeMode, game, warning,
                  interrupted, loaded, faults, died>>

FlagsOK ==
  /\ runMark \in BOOLEAN /\ safeMode \in BOOLEAN /\ warning \in BOOLEAN
  /\ interrupted \in BOOLEAN /\ died \in BOOLEAN

RecoveryTypeOK ==
  /\ config \in Contents /\ backup \in Contents /\ loaded \in Contents
  /\ marker \in {"none", "present", "absent"}
  /\ pc \in {"down", "restore", "restored", "unmarked", "load", "repair", "rewrite",
             "repaired", "launcher", "backup", "marker", "run", "game", "save", "endrun"}
  /\ after \in {"load", "launcher", "endrun"}
  /\ game \in {"none", "bypass", "unarmed", "armed"}
  /\ faults \in 0..MaxFaults
  /\ FlagsOK

\* What the next successful PrepareStartup makes of the settings.
Recovered == CASE marker = "none"    -> config
               [] marker = "present" -> backup
               [] OTHER              -> None

RecoveryInit ==
  /\ config \in Own \union {None}
  /\ backup = None /\ marker = "none" /\ runMark = FALSE
  /\ pc = "down" /\ after = "load"
  /\ safeMode = FALSE /\ game = "none" /\ warning = FALSE /\ interrupted = FALSE
  /\ loaded = None /\ faults = 0 /\ died = FALSE

\* A file operation fails and leaves its destination as it was.
Fault == faults < MaxFaults /\ faults' = faults + 1
Succeed == UNCHANGED faults

-----------------------------------------------------------------------------
(* RestoreSafeModeConfig, called from three places.                        *)

Return(ok) ==
  /\ pc' = after
  /\ warning' = IF after = "load" THEN ~ok ELSE warning

\* No marker: at most an orphan backup to discard, and the outcome of that is
\* ignored.
RestoreNothing ==
  /\ pc = "restore" /\ marker = "none"
  /\ \/ backup' = None /\ Succeed
     \/ backup # None /\ UNCHANGED backup /\ Fault
  /\ Return(TRUE)
  /\ UNCHANGED <<config, marker, runMark, after, safeMode, game, interrupted, loaded, died>>

\* Mutant: the marker goes first, so that a crash loses the way back.
RestoreConfigMarkerFirst ==
  /\ pc = "restore" /\ marker # "none"
  /\ marker' = "none" /\ pc' = "restored" /\ UNCHANGED <<config, warning>> /\ Succeed
  /\ UNCHANGED <<backup, runMark, after, safeMode, game, interrupted, loaded, died>>

\* The config is replaced by the backup, or removed when there was none.
RestoreConfig ==
  /\ pc = "restore" /\ marker # "none"
  /\ \/ /\ marker = "present" => backup # None
        /\ config' = Recovered /\ pc' = "restored" /\ UNCHANGED warning /\ Succeed
     \/ UNCHANGED config /\ Return(FALSE) /\ Fault
  /\ UNCHANGED <<backup, marker, runMark, after, safeMode, game, interrupted, loaded, died>>

RestoreMarker ==
  /\ pc = "restored"
  /\ \/ marker' = "none" /\ pc' = "unmarked" /\ UNCHANGED warning /\ Succeed
     \/ UNCHANGED marker /\ Return(FALSE) /\ Fault
  /\ UNCHANGED <<config, backup, runMark, after, safeMode, game, interrupted, loaded, died>>

RestoreBackup ==
  /\ pc = "unmarked"
  /\ \/ backup' = None /\ Succeed
     \/ backup # None /\ UNCHANGED backup /\ Fault
  /\ Return(TRUE)
  /\ UNCHANGED <<config, marker, runMark, after, safeMode, game, interrupted, loaded, died>>

Restore == RestoreNothing \/ RestoreConfig \/ RestoreMarker \/ RestoreBackup

-----------------------------------------------------------------------------
(* Start-up: ConfigureLauncherPaths, then the runtime loads the config.    *)

\* Mutant: the config is loaded before it is restored.
StartUnrestored ==
  /\ pc = "down"
  /\ pc' = "load" /\ after' = "load"
  /\ safeMode' = FALSE /\ game' = "none"
  /\ warning' = FALSE /\ interrupted' = FALSE
  /\ UNCHANGED <<disk, loaded, faults, died>>

Start ==
  /\ pc = "down"
  /\ pc' = "restore" /\ after' = "load"
  /\ safeMode' = FALSE /\ game' = "none"
  /\ warning' = FALSE /\ interrupted' = FALSE
  /\ UNCHANGED <<disk, loaded, faults, died>>

\* PrepareStartup reports the run marker, and LoadConfig reads the config.
LoadConfig ==
  /\ pc = "load"
  /\ interrupted' = runMark
  /\ loaded' = config
  /\ pc' = "repair"
  /\ UNCHANGED <<disk, after, safeMode, game, warning, faults, died>>

\* OnPostInitLogging: where a setting, saved or from the environment, is one that
\* macOS does not support, it is repaired and the config saved at once.
RepairConfig ==
  /\ pc = "repair"
  /\ config' = Torn
  /\ pc' = "rewrite"
  /\ UNCHANGED <<backup, marker, runMark, after, safeMode, game, warning,
                 interrupted, loaded, faults, died>>

RewriteConfig ==
  /\ pc = "rewrite"
  /\ \/ config' \in (IF loaded = Safe THEN {Safe} ELSE Own) /\ Succeed
     \/ UNCHANGED config /\ Fault
  /\ pc' = "repaired"
  /\ UNCHANGED <<backup, marker, runMark, after, safeMode, game, warning,
                 interrupted, loaded, died>>

ShowLauncher ==
  /\ pc \in {"repair", "repaired"}
  /\ pc' = "launcher"
  /\ UNCHANGED <<disk, after, safeMode, game, warning, interrupted, loaded, faults, died>>

\* An explicit non-interactive launch starts the game with no run marker.
BypassLauncher ==
  /\ pc \in {"repair", "repaired"}
  /\ pc' = "game" /\ game' = "bypass"
  /\ UNCHANGED <<disk, after, safeMode, warning, interrupted, loaded, faults, died>>

-----------------------------------------------------------------------------
(* The launcher: launchGameInSafeMode.                                     *)

QuitLauncher ==
  /\ pc = "launcher"
  /\ pc' = "down"
  /\ UNCHANGED <<disk, after, safeMode, game, warning, interrupted, loaded, faults, died>>

PlayNormally ==
  /\ pc = "launcher"
  /\ pc' = "run" /\ safeMode' = FALSE
  /\ UNCHANGED <<disk, after, game, warning, interrupted, loaded, faults, died>>

PlaySafely ==
  /\ pc = "launcher" /\ ~warning
  /\ pc' = "backup" /\ safeMode' = TRUE
  /\ UNCHANGED <<disk, after, game, warning, interrupted, loaded, faults, died>>

\* BeginSafeMode, first file: the backup of the config, or none.
BackUpConfig ==
  /\ pc = "backup"
  /\ \/ backup' = config /\ pc' = "marker" /\ Succeed
     \/ config # None /\ UNCHANGED backup /\ pc' = "launcher" /\ Fault
     \/ config = None /\ UNCHANGED backup /\ pc' = "marker" /\ Fault
  /\ UNCHANGED <<config, marker, runMark, after, safeMode, game, warning,
                 interrupted, loaded, died>>

\* Second file: the marker, which commits the backup.
MarkSafeMode ==
  /\ pc = "marker"
  /\ \/ /\ marker' = IF config = None THEN "absent" ELSE "present"
        /\ pc' = "run" /\ Succeed
     \/ UNCHANGED marker /\ pc' = "launcher" /\ Fault
  /\ UNCHANGED <<config, backup, runMark, after, safeMode, game, warning,
                 interrupted, loaded, died>>

\* Mutant: the run marker is not written.
BeginRunUnmarked ==
  /\ pc = "run"
  /\ pc' = "game" /\ game' = "armed" /\ Succeed
  /\ UNCHANGED <<disk, after, safeMode, warning, interrupted, loaded, died>>

\* BeginRun, and then the game; its window may fail to appear.  If BeginRun
\* fails, CancelSafeMode rolls back and the launcher stays.
BeginRun ==
  /\ pc = "run"
  /\ \/ /\ runMark' = TRUE /\ Succeed
        /\ game' \in {"armed", "unarmed"}
        /\ pc' = "game" /\ UNCHANGED after
     \/ /\ UNCHANGED <<runMark, game>> /\ Fault
        /\ after' = "launcher"
        /\ pc' = IF safeMode THEN "restore" ELSE "launcher"
  /\ UNCHANGED <<config, backup, marker, safeMode, warning, interrupted, loaded, died>>

-----------------------------------------------------------------------------
(* The game.                                                               *)

\* SaveConfig opens the config for writing, which truncates it ...
OpenConfig ==
  /\ pc = "game"
  /\ config' = Torn
  /\ pc' = "save"
  /\ UNCHANGED <<backup, marker, runMark, after, safeMode, game, warning,
                 interrupted, loaded, faults, died>>

\* ... and writes every cvar that differs from its default; no one looks whether
\* the writing succeeded.
WriteConfig ==
  /\ pc = "save"
  /\ \/ /\ config' \in CASE safeMode -> {Safe}
                          [] loaded = Safe -> Own \union {Safe}
                          [] OTHER -> Own
        /\ Succeed
     \/ UNCHANGED config /\ Fault
  /\ pc' = "game"
  /\ UNCHANGED <<backup, marker, runMark, after, safeMode, game, warning,
                 interrupted, loaded, died>>

\* The gameplay window closes: CancelSafeMode after a Safe Mode run, then EndRun.
CloseWindow ==
  /\ pc = "game" /\ game = "armed"
  /\ after' = "endrun"
  /\ pc' = IF safeMode THEN "restore" ELSE "endrun"
  /\ UNCHANGED <<disk, safeMode, game, warning, interrupted, loaded, faults, died>>

EndRun ==
  /\ pc = "endrun"
  /\ \/ runMark' = FALSE /\ Succeed
     \/ UNCHANGED runMark /\ Fault
  /\ died' = FALSE
  /\ pc' = "down"
  /\ UNCHANGED <<config, backup, marker, after, safeMode, game, warning,
                 interrupted, loaded>>

\* The process ends otherwise: it dies, wherever it is, or leaves a game whose
\* window no one observes.
Crash ==
  /\ pc # "down"
  /\ died' = (died \/ game \in {"armed", "unarmed"})
  /\ pc' = "down"
  /\ UNCHANGED <<disk, after, safeMode, game, warning, interrupted, loaded, faults>>

-----------------------------------------------------------------------------
RecoveryNext ==
  \/ Restore
  \/ Start \/ LoadConfig \/ RepairConfig \/ RewriteConfig
  \/ ShowLauncher \/ BypassLauncher
  \/ QuitLauncher \/ PlayNormally \/ PlaySafely
  \/ BackUpConfig \/ MarkSafeMode \/ BeginRun
  \/ OpenConfig \/ WriteConfig \/ CloseWindow \/ EndRun
  \/ Crash

RecoverySpec == RecoveryInit /\ [][RecoveryNext]_recoveryVars

-----------------------------------------------------------------------------
(* Properties.                                                             *)

\* The settings the next start will recover are changed by nothing but a save
\* outside Safe Mode, the game's (OpenConfig) or that of a start which repairs
\* them (OnPostInitLogging): not by beginning, cancelling or restoring Safe Mode,
\* a save during it, another failed file operation or a crash at any step.
OnlyOwnSavesChangeSettings ==
  [][Recovered' # Recovered =>
       pc \in {"repair", "rewrite", "game", "save"} /\ ~safeMode]_recoveryVars

\* "Safe Mode therefore lasts exactly one game run": no process starts from
\* the overrides of an earlier one, as long as no file operation has failed.
SafeModeLastsOneRun == faults = 0 => loaded # Safe

\* A game that the launcher started and that did not close cleanly is reported
\* by the next start, however many starts die on the way; and without failed
\* operations nothing else is.
CrashReported ==
  pc = "launcher" => /\ died => interrupted
                     /\ (interrupted /\ faults = 0) => died
=============================================================================
