---------------------------- MODULE LauncherUpdate ----------------------------
(* The Windows launcher's Updater against a channel that releases versions:   *)
(* check, download, verify, apply, roll back - one file at a time, with the   *)
(* launcher or the machine stopping anywhere, in the middle of a file too.    *)
(* The content of a file in version v is v; its delta to v is a content of    *)
(* its own, as is a damaged file; 0 is no file.                               *)
EXTENDS Naturals, Sequences

CONSTANTS
  Files,        \* names of installed files
  Manifest,     \* sequence: the files of each version's manifest
  Deltas,       \* sequence: those of them with a delta_from_version
  Nested,       \* files in subdirectories, whose backup is restored elsewhere
  MaxStops      \* bound: crashes and I/O errors

LauncherAssumption ==
  /\ Nested \subseteq Files /\ MaxStops \in Nat
  /\ Manifest \in Seq(SUBSET Files) /\ Manifest # <<>>
  /\ Deltas \in Seq(SUBSET Files) /\ Len(Deltas) = Len(Manifest) /\ Deltas[1] = {}

Versions == 1..Len(Manifest)
Delta(v) == Len(Manifest) + v
Damaged == 2 * Len(Manifest) + 1
Contents == 0..Damaged

VARIABLES
  released,     \* version the channel serves: its manifest and its files
  download,     \* [file -> content in the download directory]
  installed,    \* [file -> content in the install directory, 0 = no file]
  backup,       \* [file -> content in .backup, 0 = none]
  current,      \* config.CurrentVersion
  last,         \* config.LastVersion
  step,         \* what the launcher is doing
  wanted,       \* version of the manifest it acts upon
  todo,         \* files left in the running step
  stops,
  torn          \* not program state: apply or rollback cut short, or rolled back

vars == <<released, download, installed, backup, current, last, step, wanted, todo, stops, torn>>
disk == <<download, installed, backup>>
config == <<current, last>>

TypeOK ==
  /\ released \in Versions /\ wanted \in Versions
  /\ {current, last} \subseteq Versions
  /\ \A d \in {download, installed, backup} : d \in [Files -> Contents]
  /\ step \in {"idle", "checked", "download", "downloaded", "verified",
               "backup", "copy", "save", "restore", "revert"}
  /\ todo \subseteq Files /\ stops \in 0..MaxStops /\ torn \in BOOLEAN

Init ==
  /\ released = 1 /\ current = 1 /\ last = 1 /\ wanted = 1
  /\ installed = [f \in Files |-> IF f \in Manifest[1] THEN 1 ELSE 0]
  /\ download = [f \in Files |-> 0] /\ backup = [f \in Files |-> 0]
  /\ step = "idle" /\ todo = {} /\ stops = 0 /\ torn = FALSE

Release == /\ released < Len(Manifest) /\ released' = released + 1
           /\ UNCHANGED <<disk, config, step, wanted, todo, stops, torn>>

\* From one step to the next, with the files it works through.
Goes(s, fs) == step' = s /\ todo' = fs
\* One of the files, then the next step once none is left.
Takes(f, next, fs) ==
  /\ f \in todo
  /\ IF todo = {f} THEN Goes(next, fs) ELSE Goes(step, todo \ {f})

-----------------------------------------------------------------------------
CheckForUpdate ==
  /\ step = "idle" /\ released # current
  /\ wanted' = released /\ Goes("checked", {})
  /\ UNCHANGED <<released, disk, config, stops, torn>>

BeginDownload ==
  /\ step = "checked" /\ Goes("download", Manifest[wanted])
  /\ UNCHANGED <<released, disk, config, wanted, stops, torn>>

\* What the manifest of v asks for under the name f: the delta if it has one.
Asked(v, f) == IF f \in Deltas[v] THEN Delta(v) ELSE v

\* What the channel serves now, or damaged; a missing file fails below.
DownloadFile(f) ==
  /\ step = "download" /\ f \in (IF f \in Deltas[wanted] THEN Deltas ELSE Manifest)[released]
  /\ Takes(f, "downloaded", {})
  /\ \E c \in {IF f \in Deltas[wanted] THEN Delta(released) ELSE released, Damaged} :
       download' = [download EXCEPT ![f] = c]
  /\ UNCHANGED <<released, installed, backup, config, wanted, stops, torn>>

\* Mutant: it is enough that the files were downloaded.
MatchesAny(f) == download[f] \in Contents
\* The checksum is the one the manifest gives for the file, or for its delta.
Matches(f) == download[f] = Asked(wanted, f)

VerifyUpdate ==
  /\ step = "downloaded"
  /\ IF \A f \in Manifest[wanted] : Matches(f) THEN Goes("verified", {}) ELSE Goes("idle", {})
  /\ UNCHANGED <<released, disk, config, wanted, stops, torn>>

BeginApply ==
  /\ step = "verified" /\ Goes("backup", Manifest[wanted])
  /\ UNCHANGED <<released, disk, config, wanted, stops, torn>>

\* The directory is never emptied: files of earlier updates stay in it.
BackupFile(f) ==
  /\ step = "backup" /\ Takes(f, "copy", Manifest[wanted])
  /\ backup' = IF installed[f] = 0 THEN backup ELSE [backup EXCEPT ![f] = installed[f]]
  /\ UNCHANGED <<released, download, installed, config, wanted, stops, torn>>

\* What was downloaded, a delta too, is copied over the installed file.
CopyFile(f) ==
  /\ step = "copy" /\ Takes(f, "save", {})
  /\ installed' = [installed EXCEPT ![f] = download[f]]
  /\ UNCHANGED <<released, download, backup, config, wanted, stops, torn>>

SaveVersion ==
  /\ step = "save" /\ Goes("idle", {})
  /\ last' = current /\ current' = wanted /\ torn' = FALSE
  /\ UNCHANGED <<released, disk, wanted, stops>>

-----------------------------------------------------------------------------
BackedUp == {f \in Files : backup[f] # 0}

BeginRollback ==
  /\ step = "idle"
  /\ IF BackedUp = {} THEN Goes("revert", {}) ELSE Goes("restore", BackedUp)
  /\ torn' = TRUE
  /\ UNCHANGED <<released, disk, config, wanted, stops>>

\* Restored into the install directory itself, which is not where nested files live.
RestoreFile(f) ==
  /\ step = "restore" /\ Takes(f, "revert", {})
  /\ installed' = IF f \in Nested THEN installed ELSE [installed EXCEPT ![f] = backup[f]]
  /\ UNCHANGED <<released, download, backup, config, wanted, stops, torn>>

RevertVersion ==
  /\ step = "revert" /\ Goes("idle", {}) /\ current' = last
  /\ UNCHANGED <<released, disk, last, wanted, stops, torn>>

\* A step that is cut short may leave one of the files it still had to write in part.
CutShort(dir, fs) == {dir} \cup {[dir EXCEPT ![f] = Damaged] : f \in fs}

\* A crash, a full disk, a download given up after the retries: the step ends there.
Stop ==
  /\ step # "idle" /\ stops < MaxStops /\ stops' = stops + 1
  /\ torn' = (torn \/ step \in {"copy", "save"})
  /\ Goes("idle", {})
  /\ installed' \in CutShort(installed, IF step = "copy" THEN todo ELSE IF step = "restore" THEN todo \ Nested ELSE {})
  /\ backup' \in CutShort(backup, IF step = "backup" THEN {f \in todo : installed[f] # 0} ELSE {})
  /\ UNCHANGED <<released, download, config, wanted>>

Next ==
  \/ Release \/ CheckForUpdate \/ BeginDownload \/ VerifyUpdate \/ BeginApply
  \/ SaveVersion \/ BeginRollback \/ RevertVersion \/ Stop
  \/ \E f \in Files : DownloadFile(f) \/ BackupFile(f) \/ CopyFile(f) \/ RestoreFile(f)

Spec == Init /\ [][Next]_vars

-----------------------------------------------------------------------------
Between == {"idle", "checked", "download", "downloaded", "verified", "backup"}

\* Whatever is released while an update downloads, damaged or cut short on its way: unless an
\* apply was cut short or a rollback ran since the last one that was completed, every file of the
\* recorded version is the one its manifest's checksums verify (launcher-windows/src/Updater.cs:88-223).
RecordedIsInstalled ==
  step \in Between /\ ~torn => \A f \in Manifest[current] : installed[f] = Asked(current, f)

\* So installed, each file has the content of the recorded version ("Implement delta patch apply",
\* docs/implementation-plan-v1.md:703).  False: a delta is copied as it is (Updater.cs:207).
DeltasAreApplied ==
  step \in Between /\ ~torn => \A f \in Manifest[current] : installed[f] = current

\* A rollback that has restored its files is about to record the version they make up ("Rollback
\* can restore the previous good build", docs/implementation-plan-v1.md:731).  False: after an
\* apply that was cut short, the backup may be in part, and is of the version after LastVersion
\* (Updater.cs:194-199, 235-239).
RollbackRestoresBuild ==
  step = "revert" => \A f \in Manifest[last] : installed[f] = last
=============================================================================
