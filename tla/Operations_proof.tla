--------------------------- MODULE Operations_proof ---------------------------
(* What the runs check of operators, workers and the launcher on small        *)
(* instances holds for any number of processes, threads, versions and files.  *)
(* As in Services_proof, a step of the whole is a step, or none, of each part.*)
EXTENDS Operations, Integers, SequenceTheorems, FiniteSums, TLAPS

\* A step of the whole is a step, or none, of every part.
LEMMA Steps ==
  ASSUME [Next]_vars
  PROVE  /\ [Forks!Next]_eventVars /\ [Metrics!Next]_telemetryVars /\ [Cleanup!Next]_cleanupVars
         /\ [Launch!Next]_genesisVars /\ [Migration!Next]_migrationVars /\ [Tuning!Next]_tuningVars
         /\ [Content!Next]_contentVars /\ [Validator!Next]_graphVars /\ [Console!Next]_consoleVars
         /\ [Launcher!Next]_launcherVars
  BY DEF Next, Others, vars

-----------------------------------------------------------------------------
(* The launcher installs what it verified.                                 *)

LauncherTypesOK ==
  /\ {released, wanted, current, last} \subseteq Launcher!Versions
  /\ {download, installed, backup} \subseteq [Files -> Launcher!Contents]
  /\ step \in {"idle", "checked", "download", "downloaded", "verified",
               "backup", "copy", "save", "restore", "revert"}

\* What has been verified does not change until it is copied.
LauncherDownloadOK ==
  step \in {"verified", "backup", "copy", "save"} =>
    \A f \in Manifest[wanted] : download[f] = Launcher!Asked(wanted, f)

LauncherCopiedOK ==
  /\ step = "copy" => \A f \in Manifest[wanted] \ todo : installed[f] = Launcher!Asked(wanted, f)
  /\ step = "save" => \A f \in Manifest[wanted] : installed[f] = Launcher!Asked(wanted, f)

LauncherRollsBack == step \in {"restore", "revert"} => torn

LauncherInv == LauncherTypesOK /\ LauncherDownloadOK /\ LauncherCopiedOK /\ LauncherRollsBack
               /\ Launcher!RecordedIsInstalled

LEMMA LauncherManifests ==
  ASSUME Launcher!LauncherAssumption
  PROVE  /\ Len(Manifest) \in Nat \ {0} /\ 1 \in Launcher!Versions
         /\ \A v \in Launcher!Versions : Manifest[v] \subseteq Files
         /\ Launcher!Versions \subseteq Launcher!Contents /\ {0, Launcher!Damaged} \subseteq Launcher!Contents
         /\ \A v \in Launcher!Versions : Launcher!Delta(v) \in Launcher!Contents
  BY DEF Launcher!LauncherAssumption, Launcher!Versions, Launcher!Contents, Launcher!Damaged, Launcher!Delta

LEMMA LauncherInitInvariant ==
  ASSUME Launcher!LauncherAssumption, Launcher!Init
  PROVE  LauncherInv
  <1>1. LauncherTypesOK
    BY LauncherManifests DEF Launcher!Init, LauncherTypesOK
  <1>2. Launcher!RecordedIsInstalled
    BY LauncherManifests DEF Launcher!Init, Launcher!RecordedIsInstalled, Launcher!Asked,
        Launcher!LauncherAssumption
  <1> QED
    BY <1>1, <1>2 DEF Launcher!Init, LauncherInv, LauncherDownloadOK, LauncherCopiedOK, LauncherRollsBack

LEMMA LauncherDownloadFileStep ==
  ASSUME Launcher!LauncherAssumption, LauncherInv, NEW f \in Files, Launcher!DownloadFile(f)
  PROVE  LauncherInv'
  <1>1. LauncherTypesOK'
    <2>1. PICK c \in Launcher!Contents : download' = [download EXCEPT ![f] = c]
      BY LauncherManifests DEF Launcher!DownloadFile, LauncherInv, LauncherTypesOK
    <2> QED
      BY <2>1 DEF Launcher!DownloadFile, Launcher!Takes, Launcher!Goes, Launcher!config,
          LauncherInv, LauncherTypesOK
  <1>2. step' \in {"download", "downloaded"} /\ UNCHANGED <<installed, current, torn>>
    BY DEF Launcher!DownloadFile, Launcher!Takes, Launcher!Goes, Launcher!config
  <1> QED
    BY <1>1, <1>2 DEF Launcher!DownloadFile, LauncherInv, LauncherDownloadOK, LauncherCopiedOK,
        LauncherRollsBack, Launcher!RecordedIsInstalled, Launcher!Between

LEMMA LauncherBackupFileStep ==
  ASSUME Launcher!LauncherAssumption, LauncherInv, NEW f \in Files, Launcher!BackupFile(f)
  PROVE  LauncherInv'
  <1>1. LauncherTypesOK'
    BY DEF Launcher!BackupFile, Launcher!Takes, Launcher!Goes, Launcher!config, LauncherInv, LauncherTypesOK
  <1>2. /\ step = "backup" /\ UNCHANGED <<download, installed, wanted, current, torn>>
        /\ step' = "backup" \/ (step' = "copy" /\ todo' = Manifest[wanted])
    BY DEF Launcher!BackupFile, Launcher!Takes, Launcher!Goes, Launcher!config
  <1> QED
    BY <1>1, <1>2 DEF LauncherInv, LauncherDownloadOK, LauncherCopiedOK, LauncherRollsBack,
        Launcher!RecordedIsInstalled, Launcher!Between

LEMMA LauncherCopyFileStep ==
  ASSUME Launcher!LauncherAssumption, LauncherInv, NEW f \in Files, Launcher!CopyFile(f)
  PROVE  LauncherInv'
  <1>1. LauncherTypesOK'
    BY DEF Launcher!CopyFile, Launcher!Takes, Launcher!Goes, Launcher!config, LauncherInv, LauncherTypesOK
  <1>2. /\ step = "copy" /\ f \in todo /\ UNCHANGED <<download, wanted>>
        /\ installed' = [installed EXCEPT ![f] = download[f]]
        /\ \/ step' = "copy" /\ todo' = todo \ {f}
           \/ step' = "save" /\ todo = {f}
    BY DEF Launcher!CopyFile, Launcher!Takes, Launcher!Goes, Launcher!config
  <1>3. \A g \in Manifest[wanted] : g \in Files /\ download[g] = Launcher!Asked(wanted, g)
    BY <1>2, LauncherManifests DEF LauncherInv, LauncherDownloadOK, LauncherTypesOK
  <1>4. \A g \in Manifest[wanted] : g = f \/ g \notin todo => installed'[g] = Launcher!Asked(wanted, g)
    BY <1>2, <1>3 DEF LauncherInv, LauncherCopiedOK, LauncherTypesOK
  <1> QED
    BY <1>1, <1>2, <1>3, <1>4 DEF LauncherInv, LauncherDownloadOK, LauncherCopiedOK,
        LauncherRollsBack, Launcher!RecordedIsInstalled, Launcher!Between

LEMMA LauncherRestoreFileStep ==
  ASSUME Launcher!LauncherAssumption, LauncherInv, NEW f \in Files, Launcher!RestoreFile(f)
  PROVE  LauncherInv'
  <1>1. LauncherTypesOK'
    BY DEF Launcher!RestoreFile, Launcher!Takes, Launcher!Goes, Launcher!config, LauncherInv,
        LauncherTypesOK
  <1>2. step' \in {"restore", "revert"} /\ torn'
    BY DEF Launcher!RestoreFile, Launcher!Takes, Launcher!Goes, LauncherInv, LauncherRollsBack
  <1> QED
    BY <1>1, <1>2 DEF LauncherInv, LauncherDownloadOK, LauncherCopiedOK, LauncherRollsBack,
        Launcher!RecordedIsInstalled, Launcher!Between

LEMMA LauncherStepInvariant ==
  ASSUME Launcher!LauncherAssumption, LauncherInv, [Launcher!Next]_launcherVars
  PROVE  LauncherInv'
  <1> USE DEF Launcher!Goes, Launcher!disk, Launcher!config, LauncherDownloadOK, LauncherCopiedOK,
      LauncherRollsBack, Launcher!RecordedIsInstalled, Launcher!Between
  <1>1. CASE Launcher!Release
    BY <1>1, LauncherManifests DEF Launcher!Release, LauncherInv, LauncherTypesOK, Launcher!Versions
  <1>2. CASE Launcher!CheckForUpdate
    BY <1>2 DEF Launcher!CheckForUpdate, LauncherInv, LauncherTypesOK
  <1>3. CASE Launcher!BeginDownload
    BY <1>3 DEF Launcher!BeginDownload, LauncherInv, LauncherTypesOK
  <1>4. CASE Launcher!VerifyUpdate
    BY <1>4 DEF Launcher!VerifyUpdate, Launcher!Matches, LauncherInv, LauncherTypesOK
  <1>5. CASE Launcher!BeginApply
    BY <1>5 DEF Launcher!BeginApply, LauncherInv, LauncherTypesOK
  <1>6. CASE Launcher!SaveVersion
    BY <1>6 DEF Launcher!SaveVersion, LauncherInv, LauncherTypesOK
  <1>7. CASE Launcher!BeginRollback
    BY <1>7 DEF Launcher!BeginRollback, LauncherInv, LauncherTypesOK
  <1>8. CASE Launcher!RevertVersion
    BY <1>8 DEF Launcher!RevertVersion, LauncherInv, LauncherTypesOK
  <1>9. CASE Launcher!Stop
    <2>1. step' = "idle" /\ (~torn' => ~torn /\ step \notin {"copy", "save"})
          /\ UNCHANGED <<released, download, current, last, wanted>>
      BY <1>9 DEF Launcher!Stop
    <2>2. /\ installed' = installed \/ \E f : installed' = [installed EXCEPT ![f] = Launcher!Damaged]
          /\ backup' = backup \/ \E f : backup' = [backup EXCEPT ![f] = Launcher!Damaged]
          /\ step \notin {"copy", "restore"} => installed' = installed
      <3>1. PICK fs, gs : /\ installed' \in Launcher!CutShort(installed, fs)
                          /\ backup' \in Launcher!CutShort(backup, gs)
                          /\ step \notin {"copy", "restore"} => fs = {}
        BY <1>9 DEF Launcher!Stop
      <3> QED
        BY <3>1 DEF Launcher!CutShort
    <2>3. LauncherTypesOK'
      BY <2>1, <2>2, LauncherManifests DEF LauncherInv, LauncherTypesOK
    <2>4. ~torn' => installed' = installed /\ ~torn /\ step \in Launcher!Between
      BY <2>1, <2>2 DEF LauncherInv, LauncherTypesOK
    <2>5. Launcher!RecordedIsInstalled'
      BY <2>1, <2>4 DEF LauncherInv
    <2> QED
      BY <2>1, <2>3, <2>5 DEF LauncherInv
  <1>10. CASE UNCHANGED launcherVars
    BY <1>10 DEF launcherVars, LauncherInv, LauncherTypesOK
  <1> QED
    BY <1>1, <1>2, <1>3, <1>4, <1>5, <1>6, <1>7, <1>8, <1>9, <1>10,
       LauncherDownloadFileStep, LauncherBackupFileStep, LauncherCopyFileStep, LauncherRestoreFileStep DEF Launcher!Next

\* Whatever is released meanwhile and wherever a step is cut short, the files of the recorded version
\* are those its manifest's checksums verify, unless an apply was interrupted or a rollback ran since.
THEOREM RecordedVersionIsInstalled == Spec => []RecordedIsInstalled
  <1>1. Init => LauncherInv
    BY OperationsAssumption, LauncherInitInvariant DEF Init, OperationsAssumption
  <1>2. LauncherInv /\ [Next]_vars => LauncherInv'
    BY OperationsAssumption, LauncherStepInvariant, Steps DEF OperationsAssumption
  <1>3. LauncherInv => RecordedIsInstalled
    BY DEF LauncherInv, RecordedIsInstalled
  <1> QED
    BY <1>1, <1>2, <1>3, PTL DEF Spec

-----------------------------------------------------------------------------
(* Economy parameters: processes agree with the tables.                     *)

TuningThreads == [step : {"idle", "promoting", "locked", "read", "inserted", "logged"},
                  op : {"set", "rollback", "promote", None}, version : Nat, value : Tuning!Parameters]

TuningTypesOK ==
  /\ rows \in Seq(Tuning!Parameters)
  /\ thread \in [Threads -> TuningThreads]
  /\ known \in [Processes -> [Tuning!Versions -> Tuning!Parameters \cup {None}]]

\* A thread inserts the version after the latest at most, and has inserted what it remembers.
ThreadsOK ==
  \A t \in Threads :
    /\ thread[t].step = "read" => thread[t].version \in 2 .. Len(rows) + 2
    /\ thread[t].step \in {"inserted", "logged"} =>
         /\ thread[t].version \in 2 .. Len(rows) + 1
         /\ rows[thread[t].version - 1] = thread[t].value

VersionsAgree ==
  \A s \in Processes : \A v \in Tuning!Versions \ {1} :
    known[s][v] # None => v <= Len(rows) + 1 /\ known[s][v] = rows[v - 1]

TuningInv == TuningTypesOK /\ ThreadsOK /\ VersionsAgree

LEMMA TuningIdle ==
  ASSUME Tuning!TuningAssumption
  PROVE  /\ Tuning!Idle \in TuningThreads /\ Tuning!Idle.step = "idle"
         /\ Tuning!FreshVersions \in [Tuning!Versions -> Tuning!Parameters \cup {None}]
         /\ \A v \in Tuning!Versions \ {1} : Tuning!FreshVersions[v] = None
  BY DEF Tuning!Idle, TuningThreads, Tuning!InitialParameters, Tuning!Parameters,
      Tuning!FreshVersions, Tuning!TuningAssumption

LEMMA TuningInitInvariant ==
  ASSUME Tuning!TuningAssumption, Tuning!Init
  PROVE  TuningInv
  <1>1. TuningTypesOK
    BY TuningIdle, EmptySeq DEF Tuning!Init, TuningTypesOK
  <1>2. ThreadsOK /\ VersionsAgree
    BY TuningIdle DEF Tuning!Init, ThreadsOK, VersionsAgree
  <1> QED
    BY <1>1, <1>2 DEF TuningInv

\* A step of a thread that touches neither rows nor what processes know.
LEMMA ThreadStep ==
  ASSUME TuningInv, NEW t \in Threads, NEW r \in TuningThreads,
         thread' = [thread EXCEPT ![t] = r], UNCHANGED <<rows, known>>,
         r.step = "read" => r.version \in 2 .. Len(rows) + 2,
         r.step \in {"inserted", "logged"} =>
           r.version \in 2 .. Len(rows) + 1 /\ rows[r.version - 1] = r.value
  PROVE  TuningInv'
  <1>1. /\ thread' \in [Threads -> TuningThreads] /\ thread'[t] = r
        /\ \A u \in Threads \ {t} : thread'[u] = thread[u]
    BY DEF TuningInv, TuningTypesOK
  <1>2. ThreadsOK'
    BY <1>1 DEF TuningInv, ThreadsOK
  <1> QED
    BY <1>1, <1>2 DEF TuningInv, TuningTypesOK, VersionsAgree

LEMMA InsertsStep ==
  ASSUME TuningInv, NEW t \in Threads, Tuning!InsertsParameter(t), Tuning!TuningAssumption
  PROVE  TuningInv'
  <1>1. PICK r \in TuningThreads : r = thread[t]
    BY DEF TuningInv, TuningTypesOK
  <1>2. r.step = "read" /\ r.version \in 2 .. Len(rows) + 2 /\ r.version \in Nat /\ r.value \in Tuning!Parameters
    BY <1>1 DEF Tuning!InsertsParameter, TuningInv, ThreadsOK, TuningThreads
  <1>3. rows \in Seq(Tuning!Parameters) /\ Len(rows) \in Nat
    BY LenProperties DEF TuningInv, TuningTypesOK
  <1>4. CASE r.version > Len(rows) + 1
    <2>1. PICK q : q = [r EXCEPT !.step = "inserted"]
      OBVIOUS
    <2>2. /\ q \in TuningThreads /\ q.step = "inserted" /\ q.version = r.version /\ q.value = r.value
          /\ thread' = [thread EXCEPT ![t] = q] /\ rows' = Append(rows, r.value)
          /\ UNCHANGED known
      BY <1>1, <1>4, <2>1 DEF Tuning!InsertsParameter, Tuning!Latest, Tuning!Continue, Tuning!Finish,
          TuningThreads
    <2>3. r.version = Len(rows) + 2
      BY <1>2, <1>3, <1>4
    <2>4. /\ rows' \in Seq(Tuning!Parameters) /\ Len(rows') = Len(rows) + 1 /\ rows'[Len(rows) + 1] = r.value
          /\ \A i \in 1 .. Len(rows) : rows'[i] = rows[i]
      BY <1>2, <1>3, <2>2, AppendProperties
    <2>5. /\ thread' \in [Threads -> TuningThreads] /\ thread'[t] = q
          /\ \A u \in Threads \ {t} : thread'[u] = thread[u]
      BY <2>2 DEF TuningInv, TuningTypesOK
    <2>6. ThreadsOK'
      <3> SUFFICES ASSUME NEW u \in Threads
                   PROVE  /\ thread'[u].step = "read" => thread'[u].version \in 2 .. Len(rows') + 2
                          /\ thread'[u].step \in {"inserted", "logged"} =>
                               /\ thread'[u].version \in 2 .. Len(rows') + 1
                               /\ rows'[thread'[u].version - 1] = thread'[u].value
        BY DEF ThreadsOK
      <3>1. CASE u = t
        BY <1>3, <2>2, <2>3, <2>4, <2>5, <3>1
      <3>2. CASE u # t
        <4>1. PICK c \in TuningThreads : c = thread[u] /\ c = thread'[u]
          BY <2>5, <3>2
        <4>2. c.version \in Nat /\ (c.step = "read" => c.version \in 2 .. Len(rows) + 2)
              /\ (c.step \in {"inserted", "logged"} =>
                    c.version \in 2 .. Len(rows) + 1 /\ rows[c.version - 1] = c.value)
          BY <4>1 DEF TuningInv, ThreadsOK, TuningThreads
        <4>3. c.version \in 2 .. Len(rows) + 1 => rows'[c.version - 1] = rows[c.version - 1]
          BY <1>3, <2>4
        <4> QED
          BY <1>3, <2>4, <4>1, <4>2, <4>3
      <3> QED
        BY <3>1, <3>2
    <2>7. VersionsAgree'
      <3> SUFFICES ASSUME NEW s \in Processes, NEW v \in Tuning!Versions \ {1}, known[s][v] # None
                   PROVE  v <= Len(rows') + 1 /\ known[s][v] = rows'[v - 1]
        BY <2>2 DEF VersionsAgree
      <3>1. v \in Nat /\ 2 <= v /\ v <= Len(rows) + 1 /\ known[s][v] = rows[v - 1]
        BY DEF TuningInv, VersionsAgree, Tuning!Versions
      <3> QED
        BY <1>3, <2>4, <3>1
    <2> QED
      BY <2>2, <2>4, <2>5, <2>6, <2>7 DEF TuningInv, TuningTypesOK
  <1>5. CASE ~(r.version > Len(rows) + 1)
    <2>1. Tuning!Idle \in TuningThreads /\ Tuning!Idle.step = "idle"
      BY TuningIdle
    <2>2. thread' = [thread EXCEPT ![t] = Tuning!Idle] /\ UNCHANGED <<rows, known>>
      BY <1>1, <1>5 DEF Tuning!InsertsParameter, Tuning!Latest, Tuning!Finish
    <2> QED
      BY <2>1, <2>2, ThreadStep
  <1> QED
    BY <1>4, <1>5

LEMMA RemembersStep ==
  ASSUME TuningInv, NEW t \in Threads, Tuning!Remembers(t), Tuning!TuningAssumption
  PROVE  TuningInv'
  <1>1. PICK r \in TuningThreads : r = thread[t]
    BY DEF TuningInv, TuningTypesOK
  <1>2. PICK s : s = ProcessOf[t]
    OBVIOUS
  <1>3. /\ r.version \in 2 .. Len(rows) + 1 /\ r.value \in Tuning!Parameters /\ rows[r.version - 1] = r.value
        /\ known' = [known EXCEPT ![s][r.version] = r.value]
        /\ thread' = [thread EXCEPT ![t] = Tuning!Idle] /\ UNCHANGED rows
    BY <1>1, <1>2 DEF Tuning!Remembers, Tuning!Finish, TuningInv, ThreadsOK, TuningThreads
  <1>4. Tuning!Idle \in TuningThreads /\ Tuning!Idle.step = "idle"
    BY TuningIdle
  <1>5. TuningTypesOK' /\ ThreadsOK'
    BY <1>3, <1>4 DEF TuningInv, TuningTypesOK, ThreadsOK
  <1>6. VersionsAgree'
    <2> SUFFICES ASSUME NEW z \in Processes, NEW v \in Tuning!Versions \ {1}, known'[z][v] # None
                 PROVE  v <= Len(rows) + 1 /\ known'[z][v] = rows[v - 1]
      BY <1>3 DEF VersionsAgree
    <2>1. CASE z = s /\ v = r.version
      <3>1. known'[z][v] = r.value
        BY <1>3, <2>1 DEF TuningInv, TuningTypesOK
      <3> QED
        BY <1>3, <2>1, <3>1
    <2>2. CASE ~(z = s /\ v = r.version)
      <3>1. known'[z][v] = known[z][v]
        BY <1>3, <2>2 DEF TuningInv, TuningTypesOK
      <3> QED
        BY <3>1 DEF TuningInv, VersionsAgree
    <2> QED
      BY <2>1, <2>2
  <1> QED
    BY <1>3, <1>5, <1>6 DEF TuningInv

\* Experiments and cohorts leave the versions alone.
LEMMA ExperimentsStep ==
  ASSUME TuningInv, UNCHANGED <<rows, known, thread>>
  PROVE  TuningInv'
  BY DEF TuningInv, TuningTypesOK, ThreadsOK, VersionsAgree

LEMMA TuningRestartStep ==
  ASSUME TuningInv, NEW s \in Processes, Tuning!Restart(s), Tuning!TuningAssumption
  PROVE  TuningInv'
  <1>1. Tuning!Idle \in TuningThreads /\ Tuning!Idle.step = "idle"
    BY TuningIdle
  <1>2. /\ UNCHANGED rows
        /\ known' = [known EXCEPT ![s] = Tuning!FreshVersions]
        /\ thread' = [t \in Threads |-> IF ProcessOf[t] = s THEN Tuning!Idle ELSE thread[t]]
    BY DEF Tuning!Restart
  <1>3. TuningTypesOK' /\ ThreadsOK'
    BY <1>1, <1>2, TuningIdle DEF TuningInv, TuningTypesOK, ThreadsOK
  <1>4. VersionsAgree'
    BY <1>2, TuningIdle DEF TuningInv, TuningTypesOK, VersionsAgree
  <1> QED
    BY <1>3, <1>4 DEF TuningInv

LEMMA TuningStepInvariant ==
  ASSUME Tuning!TuningAssumption, TuningInv, [Tuning!Next]_tuningVars
  PROVE  TuningInv'
  <1>1. ASSUME NEW t \in Threads, NEW w \in Tuning!Parameters,
               thread' = [thread EXCEPT ![t] = [Tuning!Idle EXCEPT !.step = "locked", !.op = "set", !.value = w]],
               UNCHANGED <<rows, known>>
        PROVE  TuningInv'
    <2>1. PICK r : r = [Tuning!Idle EXCEPT !.step = "locked", !.op = "set", !.value = w]
      OBVIOUS
    <2>2. r \in TuningThreads /\ r.step = "locked"
      BY <2>1, TuningIdle DEF TuningThreads
    <2> QED
      BY <1>1, <2>1, <2>2, ThreadStep
  <1>2. ASSUME NEW t \in Threads, NEW w \in Settable, Tuning!SetParameters(t, w)
        PROVE  TuningInv'
    BY <1>1, <1>2 DEF Tuning!SetParameters, Tuning!TuningAssumption
  <1>3. ASSUME NEW t \in Threads, NEW v \in Tuning!Versions, Tuning!RollbackToVersion(t, v)
        PROVE  TuningInv'
    <2>1. PICK w \in Tuning!Parameters : w = known[ProcessOf[t]][v]
      BY <1>3 DEF Tuning!RollbackToVersion, Tuning!TuningAssumption, TuningInv, TuningTypesOK
    <2>2. PICK r : r = [Tuning!Idle EXCEPT !.step = "locked", !.op = "rollback", !.value = w]
      OBVIOUS
    <2>3. r \in TuningThreads /\ r.step = "locked"
      BY <2>2, TuningIdle DEF TuningThreads
    <2>4. thread' = [thread EXCEPT ![t] = r] /\ UNCHANGED <<rows, known>>
      BY <1>3, <2>1, <2>2 DEF Tuning!RollbackToVersion
    <2> QED
      BY <2>3, <2>4, ThreadStep
  <1>4. ASSUME NEW t \in Threads, Tuning!PromoteReads(t)
        PROVE  TuningInv'
    <2>1. PICK w \in Tuning!Parameters : w = Tuning!Current
      <3>1. rows \in Seq(Tuning!Parameters)
        BY DEF TuningInv, TuningTypesOK
      <3>2. rows # <<>> => rows[Len(rows)] \in Tuning!Parameters
        BY <3>1, ElementOfSeq, LenProperties, EmptySeq
      <3>3. Tuning!InitialParameters \in Tuning!Parameters
        BY DEF Tuning!InitialParameters, Tuning!Parameters, Tuning!TuningAssumption
      <3> QED
        BY <3>2, <3>3 DEF Tuning!Current
    <2>2. PICK x \in Tuning!Parameters : x = [w EXCEPT !.tested = Winning]
      BY DEF Tuning!TuningAssumption, Tuning!Parameters
    <2>3. PICK r : r = [Tuning!Idle EXCEPT !.step = "promoting", !.op = "promote", !.value = x]
      OBVIOUS
    <2>4. r \in TuningThreads /\ r.step = "promoting"
      BY <2>3, TuningIdle DEF TuningThreads
    <2>5. thread' = [thread EXCEPT ![t] = r] /\ UNCHANGED <<rows, known>>
      BY <1>4, <2>1, <2>2, <2>3 DEF Tuning!PromoteReads
    <2> QED
      BY <2>4, <2>5, ThreadStep
  <1>5. ASSUME NEW t \in Threads, Tuning!PromoteLocks(t)
        PROVE  TuningInv'
    <2>1. PICK c \in TuningThreads : c = thread[t]
      BY DEF TuningInv, TuningTypesOK
    <2>2. PICK r : r = [c EXCEPT !.step = "locked"]
      OBVIOUS
    <2>3. r \in TuningThreads /\ r.step = "locked"
      BY <2>2 DEF TuningThreads
    <2>4. thread' = [thread EXCEPT ![t] = r] /\ UNCHANGED <<rows, known>>
      BY <1>5, <2>1, <2>2 DEF Tuning!PromoteLocks, Tuning!Continue, Tuning!Finish
    <2> QED
      BY <2>3, <2>4, ThreadStep
  <1>6. ASSUME NEW t \in Threads, Tuning!ReadsPrevious(t)
        PROVE  TuningInv'
    <2>1. PICK c \in TuningThreads : c = thread[t]
      BY DEF TuningInv, TuningTypesOK
    <2>2. PICK n \in Nat : n = Tuning!Latest + 1 /\ n \in 2 .. Len(rows) + 2
      BY LenProperties DEF TuningInv, TuningTypesOK, Tuning!Latest
    <2>3. PICK r : r = [c EXCEPT !.step = "read", !.version = n]
      OBVIOUS
    <2>4. r \in TuningThreads /\ r.step = "read" /\ r.version = n
      BY <2>3 DEF TuningThreads
    <2>6. thread' = [thread EXCEPT ![t] = r] /\ UNCHANGED <<rows, known>>
      BY <1>6, <2>1, <2>2, <2>3 DEF Tuning!ReadsPrevious
    <2> QED
      BY <2>2, <2>4, <2>6, ThreadStep
  <1>7. ASSUME NEW t \in Threads, Tuning!InsertsHistory(t) \/ Tuning!StatementFails(t)
        PROVE  TuningInv'
    <2>1. PICK c \in TuningThreads : c = thread[t]
      BY DEF TuningInv, TuningTypesOK
    <2>2. CASE Tuning!InsertsHistory(t)
      <3>1. /\ thread' = [thread EXCEPT ![t].step = "logged"] /\ UNCHANGED <<rows, known>>
            /\ c.step = "inserted"
        BY <2>1, <2>2 DEF Tuning!InsertsHistory, Tuning!Continue
      <3>2. c.version \in 2 .. Len(rows) + 1 /\ rows[c.version - 1] = c.value
        BY <2>1, <3>1 DEF TuningInv, ThreadsOK
      <3>3. PICK r : r = [c EXCEPT !.step = "logged"]
        OBVIOUS
      <3>4. r \in TuningThreads /\ r.step = "logged" /\ r.version = c.version /\ r.value = c.value
        BY <3>3 DEF TuningThreads
      <3>5. thread' = [thread EXCEPT ![t] = r]
        BY <2>1, <3>1, <3>3
      <3> QED
        BY <3>1, <3>2, <3>4, <3>5, ThreadStep
    <2>3. CASE Tuning!StatementFails(t)
      <3>1. thread' = [thread EXCEPT ![t] = Tuning!Idle] /\ UNCHANGED <<rows, known>>
        BY <2>3 DEF Tuning!StatementFails, Tuning!Finish
      <3>2. Tuning!Idle \in TuningThreads /\ Tuning!Idle.step = "idle"
        BY TuningIdle
      <3> QED
        BY <3>1, <3>2, ThreadStep
    <2> QED
      BY <1>7, <2>2, <2>3
  <1>8. CASE UNCHANGED tuningVars
    BY <1>8 DEF tuningVars, TuningInv, TuningTypesOK, ThreadsOK, VersionsAgree
  <1>9. ASSUME \/ \E s \in Processes : Tuning!CreateExperiment(s)
               \/ \E p \in TestPlayers : Tuning!AssignPlayerToCohort(p) \/ Tuning!InsertsAssignment(p)
               \/ Tuning!InsertsExperiment \/ Tuning!CompletesExperiment
        PROVE  TuningInv'
    BY <1>9, ExperimentsStep DEF Tuning!CreateExperiment, Tuning!InsertsExperiment,
        Tuning!CompletesExperiment,
        Tuning!AssignPlayerToCohort, Tuning!InsertsAssignment, Tuning!tuning
  <1> QED
    BY <1>2, <1>3, <1>4, <1>5, <1>6, <1>7, <1>8, <1>9, InsertsStep, RemembersStep, TuningRestartStep
    DEF Tuning!Next

\* However processes race for a version, have its statements fail and restart.
THEOREM ProcessesAgree == Spec => []ProcessesAgreeWithTables
  <1>1. Init => TuningInv
    BY OperationsAssumption, TuningInitInvariant DEF Init, OperationsAssumption
  <1>2. TuningInv /\ [Next]_vars => TuningInv'
    BY OperationsAssumption, TuningStepInvariant, Steps DEF OperationsAssumption
  <1>3. TuningInv => ProcessesAgreeWithTables
    BY DEF TuningInv, VersionsAgree, ProcessesAgreeWithTables,
        Tuning!ProcessesAgreeWithTables, Tuning!Latest
  <1> QED
    BY <1>1, <1>2, <1>3, PTL DEF Spec

-----------------------------------------------------------------------------
(* Admin console: the audit log tells the configuration.                   *)

ConsoleCalls == [step : Console!Steps, kind : Console!Kinds, value : Nat, old : Int \cup {None}, at : Nat]
AuditEntries == [kind : Console!Kinds, old : Int \cup {None}, new : Nat, at : Nat]

\* A change that is written holds the row's lock, and one whose time is taken is the latest.
CallOK(c, a) ==
  /\ c \in ConsoleCalls
  /\ c.kind = "reset" => c.old \in Int
  /\ (c.kind = "config" /\ c.step # "idle") => c.value \in Values
  /\ c.at <= clock
  /\ c.step = "stamped" => c.at >= 1
  /\ (c.kind = "config" /\ c.step \in {"written", "stamped"}) => lock = a
  /\ (c.kind = "config" /\ c.step = "stamped") => \A e \in Console!ConfigEntries : e.at <= c.at

ConsoleTypes ==
  /\ sum \in Int /\ switch \in {0, 1} /\ clock \in 0 .. MaxAudit
  /\ config \in Values \cup {None} /\ lock \in Admins \cup {None}
  /\ audit \subseteq AuditEntries
  /\ \A e \in audit : 1 <= e.at /\ e.at <= clock

ConsoleInv ==
  /\ ConsoleTypes
  /\ staff \in [Admins -> ConsoleCalls] /\ \A a \in Admins : CallOK(staff[a], a)
  /\ Console!ConfigIsAudited

LEMMA ConsoleIdle ==
  ASSUME ConsoleTypes, NEW a \in Admins
  PROVE  CallOK(Console!Idle, a)
  BY DEF Console!Idle, CallOK, ConsoleCalls, Console!Steps, Console!Kinds, ConsoleTypes

LEMMA ConsoleInitInvariant ==
  ASSUME Console!AdminAssumption, Console!Init
  PROVE  ConsoleInv
  <1>1. ConsoleTypes
    BY DEF Console!Init, ConsoleTypes, Console!AdminAssumption
  <1>2. Console!Idle \in ConsoleCalls
    BY DEF Console!Idle, ConsoleCalls, Console!Steps, Console!Kinds
  <1>3. Console!ConfigIsAudited
    BY DEF Console!Init, Console!ConfigIsAudited, Console!ConfigEntries
  <1> QED
    BY <1>1, <1>2, <1>3, ConsoleIdle DEF Console!Init, ConsoleInv

\* A request that goes on without an entry.
LEMMA CallStep ==
  ASSUME ConsoleInv, NEW a \in Admins, NEW c, staff' = [staff EXCEPT ![a] = c], ConsoleTypes', CallOK(c, a)',
         UNCHANGED <<config, audit>>, clock <= clock', \A b \in Admins \ {a} : lock = b => lock' = b
  PROVE  ConsoleInv'
  <1>1. staff' \in [Admins -> ConsoleCalls] /\ staff'[a] = c /\ \A b \in Admins \ {a} : staff'[b] = staff[b]
    BY DEF ConsoleInv, CallOK
  <1>2. ASSUME NEW b \in Admins
        PROVE  CallOK(staff[b], b)'
    <2>1. CASE b = a
      BY <1>1, <2>1 DEF CallOK
    <2>2. CASE b # a
      <3>1. PICK d \in ConsoleCalls : d = staff[b] /\ d = staff'[b] /\ CallOK(d, b)
        BY <1>1, <2>2 DEF ConsoleInv
      <3>2. d.at \in Nat /\ clock \in Nat /\ clock' \in Nat
        BY <3>1 DEF ConsoleCalls, ConsoleInv, ConsoleTypes
      <3>3. Console!ConfigEntries' = Console!ConfigEntries
        BY DEF Console!ConfigEntries
      <3>4. CallOK(d, b)'
        BY <2>2, <3>1, <3>2, <3>3 DEF CallOK
      <3> QED
        BY <3>1, <3>4 DEF CallOK
    <2> QED
      BY <2>1, <2>2
  <1>3. Console!ConfigIsAudited'
    BY DEF ConsoleInv, Console!ConfigIsAudited, Console!ConfigEntries
  <1> QED
    BY <1>1, <1>2, <1>3 DEF ConsoleInv

\* An entry that is made: of the configuration, it is the latest.
LEMMA AuditsStep ==
  ASSUME Console!AdminAssumption, ConsoleInv, NEW a \in Admins, NEW k \in SUBSET Console!Kinds, Console!Audits(a, k),
         UNCHANGED clock, sum' \in Int, UNCHANGED switch,
         IF "config" \in k THEN k = {"config"} /\ config' = staff[a].value /\ lock' = None
                           ELSE UNCHANGED <<config, lock>>
  PROVE  ConsoleInv'
  <1>1. PICK c \in ConsoleCalls : c = staff[a] /\ CallOK(c, a) /\ c.step = "stamped" /\ c.kind \in k
    BY DEF ConsoleInv, Console!Audits
  <1>2. PICK e : e = [kind |-> c.kind, old |-> c.old, new |-> c.value, at |-> c.at]
    OBVIOUS
  <1>3. /\ e \in AuditEntries /\ e.kind = c.kind /\ e.new = c.value /\ e.at = c.at
        /\ c.at \in Nat /\ 1 <= c.at /\ c.at <= clock
    BY <1>1, <1>2 DEF AuditEntries, ConsoleCalls, CallOK
  <1>4. audit' = audit \cup {e} /\ staff' = [staff EXCEPT ![a] = Console!Idle]
    BY <1>1, <1>2 DEF Console!Audits, Console!Entry
  <1>5. (c.kind = "config") <=> ("config" \in k)
    BY <1>1
  <1>6. config' \in Values \cup {None} /\ lock' \in Admins \cup {None}
    BY <1>1, <1>5 DEF ConsoleInv, ConsoleTypes, CallOK
  <1>7. ConsoleTypes'
    BY <1>3, <1>4, <1>6 DEF ConsoleInv, ConsoleTypes
  <1>8. CallOK(Console!Idle, a)'
    BY <1>7, ConsoleIdle DEF Console!Idle, CallOK, ConsoleTypes, ConsoleCalls, Console!Steps, Console!Kinds
  <1>9. /\ Console!Idle \in ConsoleCalls /\ staff' \in [Admins -> ConsoleCalls] /\ staff'[a] = Console!Idle
        /\ \A b \in Admins \ {a} : staff'[b] = staff[b]
    BY <1>4 DEF ConsoleInv, Console!Idle, ConsoleCalls, Console!Steps, Console!Kinds
  <1>10. \A b \in Admins \ {a} : c.kind = "config" => lock # b
    BY <1>1 DEF CallOK
  <1>11. Console!ConfigEntries' = IF c.kind = "config" THEN Console!ConfigEntries \cup {e} ELSE Console!ConfigEntries
    BY <1>3, <1>4 DEF Console!ConfigEntries
  <1>12. ASSUME NEW b \in Admins \ {a}
         PROVE  CallOK(staff[b], b)'
    <2>1. PICK d \in ConsoleCalls : d = staff[b] /\ d = staff'[b] /\ CallOK(d, b)
      BY <1>9 DEF ConsoleInv
    <2>2. ~(c.kind = "config" /\ d.kind = "config" /\ d.step \in {"written", "stamped"})
      BY <1>10, <2>1 DEF CallOK
    <2>3. CASE c.kind = "config"
      <3>1. CallOK(d, b)'
        BY <2>1, <2>2, <2>3 DEF CallOK
      <3> QED
        BY <2>1, <3>1 DEF CallOK
    <2>4. CASE c.kind # "config"
      <3>1. UNCHANGED lock /\ Console!ConfigEntries' = Console!ConfigEntries
        BY <1>5, <1>11, <2>4
      <3>2. CallOK(d, b)'
        BY <2>1, <3>1 DEF CallOK
      <3> QED
        BY <2>1, <3>2 DEF CallOK
    <2> QED
      BY <2>3, <2>4
  <1>13. Console!ConfigIsAudited'
    <2>1. CASE c.kind = "config"
      <3>1. \A d \in Console!ConfigEntries : d.at <= e.at
        BY <1>1, <1>3, <2>1 DEF CallOK
      <3>2. config' = e.new /\ e \in Console!ConfigEntries' /\ \A d \in Console!ConfigEntries' : d.at <= e.at
        BY <1>1, <1>3, <1>5, <1>11, <2>1, <3>1
      <3> QED
        BY <3>2 DEF Console!ConfigIsAudited
    <2>2. CASE c.kind # "config"
      BY <1>5, <1>11, <2>2 DEF ConsoleInv, Console!ConfigIsAudited
    <2> QED
      BY <2>1, <2>2
  <1> QED
    BY <1>7, <1>8, <1>9, <1>12, <1>13 DEF ConsoleInv

LEMMA ConsoleStepInvariant ==
  ASSUME Console!AdminAssumption, ConsoleInv, [Console!Next]_consoleVars
  PROVE  ConsoleInv'
  <1>1. Values \subseteq Nat /\ MaxAudit \in Nat /\ clock \in Nat /\ clock <= MaxAudit /\ ConsoleTypes
    BY DEF Console!AdminAssumption, ConsoleInv, ConsoleTypes
  <1>2. ASSUME NEW a \in Admins, NEW k \in Console!Kinds, NEW s \in {"read", "written"}, NEW v \in Nat,
               NEW o \in Int \cup {None}, Console!Starts(a, k, s, v, o), UNCHANGED <<config, lock, sum, clock, audit>>,
               switch' \in {0, 1}, k = "reset" => o \in Int, k = "config" => v \in Values /\ s = "read"
        PROVE  ConsoleInv'
    <2>1. PICK c : c = [step |-> s, kind |-> k, value |-> v, old |-> o, at |-> 0]
      OBVIOUS
    <2>2. c \in ConsoleCalls /\ c.step = s /\ c.kind = k /\ c.value = v /\ c.old = o /\ c.at = 0
      BY <2>1 DEF ConsoleCalls, Console!Steps
    <2>3. ConsoleTypes'
      BY <1>1, <1>2 DEF ConsoleTypes
    <2>4. CallOK(c, a)'
      BY <1>1, <1>2, <2>2 DEF CallOK
    <2>5. staff' = [staff EXCEPT ![a] = c]
      BY <1>2, <2>1 DEF Console!Starts
    <2>6. clock <= clock' /\ \A b \in Admins \ {a} : lock = b => lock' = b
      BY <1>1, <1>2
    <2> QED
      BY <1>2, <2>3, <2>4, <2>5, <2>6, CallStep
  <1>3. ASSUME NEW a \in Admins, NEW v \in Values, Console!ConfigReads(a, v)
        PROVE  ConsoleInv'
    <2>1. PICK k \in Console!Kinds, o \in Int \cup {None} : k = "config" /\ o = config
      BY <1>1 DEF Console!Kinds, ConsoleTypes
    <2> QED
      BY <1>1, <1>2, <1>3, <2>1 DEF Console!ConfigReads, ConsoleTypes
  <1>4. ASSUME NEW a \in Admins, NEW v \in Values, Console!ResetReads(a, v)
        PROVE  ConsoleInv'
    <2>1. PICK k \in Console!Kinds, o \in Int \cup {None} : k = "reset" /\ o = sum /\ o \in Int
      BY <1>1 DEF Console!Kinds, ConsoleTypes
    <2> QED
      BY <1>1, <1>2, <1>4, <2>1 DEF Console!ResetReads, ConsoleTypes
  <1>5. ASSUME NEW a \in Admins, NEW v \in {0, 1}, Console!SwitchFlips(a, v)
        PROVE  ConsoleInv'
    <2>1. PICK k \in Console!Kinds, o \in Int \cup {None} : k = "switched" /\ o = switch
      BY <1>1 DEF Console!Kinds, ConsoleTypes
    <2> QED
      BY <1>1, <1>2, <1>5, <2>1 DEF Console!SwitchFlips
  <1>6. ASSUME NEW a \in Admins, Console!EventCancelled(a)
        PROVE  ConsoleInv'
    <2>1. PICK k \in Console!Kinds, o \in Int \cup {None}, v \in Nat : k = "cancelled" /\ o = None /\ v = 1
      BY DEF Console!Kinds
    <2> QED
      BY <1>1, <1>2, <1>6, <2>1 DEF Console!EventCancelled, ConsoleTypes
  <1>7. ASSUME NEW a \in Admins, Console!ConfigWrites(a)
        PROVE  ConsoleInv'
    <2>1. PICK d \in ConsoleCalls : d = staff[a] /\ CallOK(d, a) /\ d.step = "read"
      BY <1>7 DEF Console!ConfigWrites, ConsoleInv
    <2>2. PICK c : c = [d EXCEPT !.step = "written"]
      OBVIOUS
    <2>3. /\ c \in ConsoleCalls /\ c.step = "written" /\ c.kind = d.kind
          /\ c.value = d.value /\ c.old = d.old /\ c.at = d.at
      BY <2>2 DEF ConsoleCalls, Console!Steps
    <2>4. /\ staff' = [staff EXCEPT ![a] = c] /\ lock' = a /\ lock = None
          /\ UNCHANGED <<config, switch, sum, clock, audit>>
      BY <1>7, <2>1, <2>2 DEF Console!ConfigWrites
    <2>5. ConsoleTypes'
      BY <1>1, <2>4 DEF ConsoleTypes
    <2>6. CallOK(c, a)'
      BY <2>1, <2>3, <2>4 DEF CallOK
    <2>7. clock <= clock' /\ \A b \in Admins \ {a} : lock = b => lock' = b
      BY <1>1, <2>4 DEF Console!AdminAssumption
    <2> QED
      BY <2>4, <2>5, <2>6, <2>7, CallStep
  <1>8. ASSUME NEW a \in Admins, Console!Stamps(a)
        PROVE  ConsoleInv'
    <2>1. PICK d \in ConsoleCalls : d = staff[a] /\ CallOK(d, a) /\ d.step = "written"
      BY <1>8 DEF Console!Stamps, ConsoleInv
    <2>2. PICK n \in Nat : n = clock + 1 /\ n >= 1 /\ n <= MaxAudit /\ clock' = n
      BY <1>1, <1>8 DEF Console!Stamps
    <2>3. PICK c : c = [d EXCEPT !.step = "stamped", !.at = n]
      OBVIOUS
    <2>4. /\ c \in ConsoleCalls /\ c.step = "stamped" /\ c.kind = d.kind
          /\ c.value = d.value /\ c.old = d.old /\ c.at = n
      BY <2>3 DEF ConsoleCalls, Console!Steps
    <2>5. staff' = [staff EXCEPT ![a] = c] /\ UNCHANGED <<config, lock, switch, sum, audit>>
      BY <1>8, <2>1, <2>2, <2>3 DEF Console!Stamps
    <2>6. ASSUME NEW e \in audit
          PROVE  e.at \in Nat /\ 1 <= e.at /\ e.at <= n
      BY <1>1, <2>2 DEF ConsoleTypes, AuditEntries
    <2>7. ConsoleTypes'
      BY <1>1, <2>2, <2>5, <2>6 DEF ConsoleTypes
    <2>8. CallOK(c, a)'
      BY <2>1, <2>2, <2>4, <2>5, <2>6 DEF CallOK, Console!ConfigEntries
    <2>9. clock <= clock' /\ \A b \in Admins \ {a} : lock = b => lock' = b
      BY <1>1, <2>2, <2>5
    <2> QED
      BY <2>5, <2>7, <2>8, <2>9, CallStep
  <1>9. ASSUME NEW a \in Admins, Console!ConfigCommits(a)
        PROVE  ConsoleInv'
    <2>1. PICK k \in SUBSET Console!Kinds : k = {"config"}
      BY DEF Console!Kinds
    <2> QED
      BY <1>1, <1>9, <2>1, AuditsStep DEF Console!ConfigCommits, ConsoleTypes
  <1>10. ASSUME NEW a \in Admins, Console!ResetCommits(a)
         PROVE  ConsoleInv'
    <2>1. PICK k \in SUBSET Console!Kinds : k = {"reset"}
      BY DEF Console!Kinds
    <2>2. PICK c \in ConsoleCalls : c = staff[a] /\ CallOK(c, a) /\ c.kind = "reset"
      BY <1>10 DEF Console!ResetCommits, Console!Audits, ConsoleInv
    <2>3. c.value \in Int /\ c.old \in Int /\ sum \in Int /\ sum' = sum + (c.value - c.old)
      BY <1>1, <1>10, <2>2 DEF Console!ResetCommits, ConsoleTypes, ConsoleCalls, CallOK
    <2>4. sum' \in Int
      BY <2>3
    <2> QED
      BY <1>10, <2>1, <2>4, AuditsStep DEF Console!ResetCommits
  <1>11. ASSUME NEW a \in Admins, Console!AuditsAfterwards(a)
         PROVE  ConsoleInv'
    <2>1. PICK k \in SUBSET Console!Kinds : k = {"switched", "cancelled"}
      BY DEF Console!Kinds
    <2> QED
      BY <1>1, <1>11, <2>1, AuditsStep DEF Console!AuditsAfterwards, ConsoleTypes
  <1>12. ASSUME NEW a \in Admins, Console!Fails(a)
         PROVE  ConsoleInv'
    <2>1. ConsoleTypes'
      BY <1>1, <1>12 DEF Console!Fails, ConsoleTypes
    <2>2. CallOK(Console!Idle, a)'
      BY <1>1, <1>12, ConsoleIdle DEF Console!Fails, Console!Idle, CallOK, ConsoleCalls,
          Console!Steps, Console!Kinds
    <2>3. clock <= clock' /\ \A b \in Admins \ {a} : lock = b => lock' = b
      BY <1>1, <1>12 DEF Console!Fails
    <2> QED
      BY <1>12, <2>1, <2>2, <2>3, CallStep DEF Console!Fails
  <1>13. CASE Console!Restart
    <2>1. ConsoleTypes'
      BY <1>1, <1>13 DEF Console!Restart, ConsoleTypes
    <2>2. \A a \in Admins : CallOK(Console!Idle, a)'
      BY <1>1, <1>13 DEF Console!Restart, Console!Idle, CallOK, ConsoleCalls, Console!Steps, Console!Kinds
    <2>3. staff' \in [Admins -> ConsoleCalls] /\ \A a \in Admins : staff'[a] = Console!Idle
      BY <1>13 DEF Console!Restart, Console!Idle, ConsoleCalls, Console!Steps, Console!Kinds
    <2>4. Console!ConfigIsAudited'
      BY <1>13 DEF Console!Restart, ConsoleInv, Console!ConfigIsAudited, Console!ConfigEntries
    <2> QED
      BY <2>1, <2>2, <2>3, <2>4 DEF ConsoleInv
  <1>14. CASE Console!OthersPost \/ UNCHANGED consoleVars
    <2>1. UNCHANGED <<config, lock, switch, clock, audit, staff>> /\ sum' \in Int
      BY <1>1, <1>14 DEF Console!OthersPost, consoleVars, ConsoleTypes
    <2> QED
      BY <2>1 DEF ConsoleInv, ConsoleTypes, CallOK, Console!ConfigIsAudited, Console!ConfigEntries
  <1> QED
    BY <1>3, <1>4, <1>5, <1>6, <1>7, <1>8, <1>9, <1>10, <1>11, <1>12, <1>13, <1>14 DEF Console!Next

\* However the transactions of administrators interleave and fail and wherever the server stops.
THEOREM ConfigurationIsAudited == Spec => []ConfigIsAudited
  <1>1. Init => ConsoleInv
    BY OperationsAssumption, ConsoleInitInvariant DEF Init, OperationsAssumption
  <1>2. ConsoleInv /\ [Next]_vars => ConsoleInv'
    BY OperationsAssumption, ConsoleStepInvariant, Steps DEF OperationsAssumption
  <1>3. ConsoleInv => ConfigIsAudited
    BY DEF ConsoleInv, ConfigIsAudited
  <1> QED
    BY <1>1, <1>2, <1>3, PTL DEF Spec

-----------------------------------------------------------------------------
(* The content pipeline.                                                   *)

\* ContentVersions are numbered without gaps or repeats, and the active ones list their stages.
ContentInv ==
  /\ \A v \in ContentVersions : version[v] \in Content!Records \cup {None}
  /\ DOMAIN version = ContentVersions /\ version = [v \in ContentVersions |-> version[v]]
  /\ active \in [Stages -> ContentVersions \cup {None}]
  /\ Content!ActiveVersionListsItsStage

LEMMA ContentCounts ==
  ASSUME NEW S
  PROVE  Content!Cardinality(S) = Cardinality(S)
  BY DEF Content!Cardinality, Cardinality

LEMMA ContentMax ==
  ASSUME NEW S
  PROVE  Content!Max(S) = Max(S)
  BY DEF Content!Max, Max

LEMMA ContentInitInvariant ==
  ASSUME Content!Init
  PROVE  ContentInv
  <1>1. Content!Staged = {}
    BY DEF Content!Init, Content!Staged
  <1>2. Content!Cardinality({}) = 0
    BY ContentCounts, FS_EmptySet
  <1>3. 1 .. 0 = {} /\ {version[v].number : v \in {}} = {}
    OBVIOUS
  <1> QED
    BY <1>1, <1>2, <1>3 DEF Content!Init, ContentInv, Content!ActiveVersionListsItsStage

LEMMA StageContentStep ==
  ASSUME Content!ContentAssumption, ContentInv, NEW v \in ContentVersions, Content!StageContentVersion(v)
  PROVE  ContentInv'
  <1>1. PICK S, n : S = Content!Staged /\ n = Cardinality(S)
    OBVIOUS
  <1>2. S \subseteq ContentVersions /\ v \notin S /\ IsFiniteSet(S) /\ n \in Nat
    <2>1. IsFiniteSet(ContentVersions)
      BY DEF Content!ContentAssumption, Content!IsFiniteSet, IsFiniteSet
    <2>2. S \in SUBSET ContentVersions /\ v \notin S
      BY <1>1 DEF Content!Staged, Content!StageContentVersion
    <2> QED
      BY <1>1, <2>1, <2>2, FS_Subset, FS_CardinalityType
  <1>3. {version[u].number : u \in S} = 1 .. n
    BY <1>1, ContentCounts DEF ContentInv, Content!ActiveVersionListsItsStage
  <1>4. Content!Max({version[u].number : u \in S} \cup {0}) = n
    <2>1. {version[u].number : u \in S} \cup {0} = 0 .. n
      BY <1>2, <1>3
    <2>2. PICK R : R = 0 .. n
      OBVIOUS
    <2>3. IsFiniteSet(R)
      BY <1>2, <2>2, FS_Interval
    <2>4. R # {} /\ R \subseteq Int /\ n \in R
      BY <1>2, <2>2
    <2>5. Max(R) \in R /\ \A x \in R : x <= Max(R)
      BY <2>3, <2>4, MaxIsGreatest
    <2>6. Max(R) = n
      BY <1>2, <2>2, <2>4, <2>5
    <2> QED
      BY <2>1, <2>2, <2>6, ContentMax
  <1>5. PICK r : r = [number |-> n + 1, status |-> "draft", approvals |-> {}, stages |-> {}]
    OBVIOUS
  <1>6. r \in Content!Records /\ r.number = n + 1 /\ r # None
    <2>1. r \in Content!Records /\ r.number = n + 1
      BY <1>2, <1>5 DEF Content!Records, Content!Statuses
    <2> QED
      BY <2>1 DEF Content!ContentAssumption
  <1>7. version' = [version EXCEPT ![v] = r] /\ active' = active
    BY <1>1, <1>4, <1>5 DEF Content!StageContentVersion
  <1>8. version'[v] = r /\ \A u \in ContentVersions \ {v} : version'[u] = version[u]
    BY <1>7 DEF ContentInv
  <1>9. Content!Staged' = S \cup {v}
    BY <1>1, <1>6, <1>8 DEF Content!Staged
  <1>10. {version'[u].number : u \in S \cup {v}} = {version[u].number : u \in S} \cup {n + 1}
    BY <1>2, <1>6, <1>8
  <1>11. Cardinality(S \cup {v}) = n + 1
    BY <1>1, <1>2, FS_AddElement
  <1>12. {version'[u].number : u \in S \cup {v}} = 1 .. n + 1
    <2>1. n \in Nat
      BY <1>2
    <2>2. (1 .. n) \cup {n + 1} = 1 .. n + 1
      BY ONLY <2>1
    <2> QED
      BY ONLY <1>3, <1>10, <2>2
  <1>13. {version'[u].number : u \in Content!Staged'} = 1 .. Content!Cardinality(Content!Staged')
    BY <1>9, <1>11, <1>12, ContentCounts
  <1>14. \A s \in Stages : active[s] # None => active[s] \in S /\ s \in version[active[s]].stages
    BY <1>1 DEF ContentInv, Content!ActiveVersionListsItsStage
  <1>15. \A s \in Stages : active'[s] # None => active'[s] \in Content!Staged' /\ s \in version'[active'[s]].stages
    BY <1>2, <1>7, <1>8, <1>9, <1>14
  <1>16. /\ \A u \in ContentVersions : version'[u] \in Content!Records \cup {None}
         /\ DOMAIN version' = ContentVersions /\ version' = [u \in ContentVersions |-> version'[u]]
         /\ active' \in [Stages -> ContentVersions \cup {None}]
    BY <1>6, <1>7, <1>8 DEF ContentInv
  <1> QED
    BY <1>13, <1>15, <1>16 DEF ContentInv, Content!ActiveVersionListsItsStage

\* Whatever keeps the records and their numbers, and has active versions list their stages.
LEMMA ContentKeepsNumbers ==
  ASSUME Content!ContentAssumption, ContentInv,
         DOMAIN version' = ContentVersions, version' = [u \in ContentVersions |-> version'[u]],
         \A u \in ContentVersions : IF version[u] = None THEN version'[u] = None
                             ELSE version'[u] \in Content!Records /\ version'[u].number = version[u].number,
         active' \in [Stages -> ContentVersions \cup {None}],
         \A s \in Stages : active'[s] # None => version[active'[s]] # None /\ s \in version'[active'[s]].stages
  PROVE  ContentInv'
  <1>1. Content!Staged' = Content!Staged
    BY DEF Content!Staged, Content!ContentAssumption
  <1>2. \A u \in Content!Staged : version'[u].number = version[u].number
    BY DEF Content!Staged
  <1>3. {version'[u].number : u \in Content!Staged} = {version[u].number : u \in Content!Staged}
    BY <1>2
  <1>4. {version'[u].number : u \in Content!Staged'} = 1 .. Content!Cardinality(Content!Staged')
    BY <1>1, <1>3 DEF ContentInv, Content!ActiveVersionListsItsStage
  <1>5. \A s \in Stages : active'[s] # None => active'[s] \in Content!Staged'
    BY <1>1 DEF Content!Staged, Content!ContentAssumption
  <1> QED
    BY <1>4, <1>5 DEF ContentInv, Content!ActiveVersionListsItsStage

\* One version's record changes, and not its number.
LEMMA ContentUpdates ==
  ASSUME Content!ContentAssumption, ContentInv, NEW v \in Content!Staged, NEW r \in Content!Records,
         r.number = version[v].number, version[v].stages \subseteq r.stages,
         version' = [version EXCEPT ![v] = r]
  PROVE  /\ DOMAIN version' = ContentVersions /\ version' = [u \in ContentVersions |-> version'[u]]
         /\ \A u \in ContentVersions : IF version[u] = None THEN version'[u] = None
                                ELSE version'[u] \in Content!Records /\ version'[u].number = version[u].number
         /\ \A u \in ContentVersions : version[u] # None => version[u].stages \subseteq version'[u].stages
         /\ version'[v] = r
  <1>1. v \in ContentVersions /\ version[v] # None
    BY DEF Content!Staged
  <1> QED
    BY <1>1 DEF ContentInv

LEMMA ContentInvariantStep ==
  ASSUME Content!ContentAssumption, ContentInv, [Content!Next]_contentVars
  PROVE  ContentInv'
  <1>1. CASE UNCHANGED contentVars
    <2>1. UNCHANGED <<version, active>>
      BY <1>1 DEF contentVars
    <2>2. Content!Staged' = Content!Staged
      BY <2>1 DEF Content!Staged
    <2>3. Content!ActiveVersionListsItsStage'
      BY <2>1, <2>2 DEF ContentInv, Content!ActiveVersionListsItsStage
    <2> QED
      BY <2>1, <2>3 DEF ContentInv
  <1>2. ASSUME NEW v \in Content!Staged
        PROVE  v \in ContentVersions /\ version[v] \in Content!Records
    BY DEF Content!Staged, ContentInv
  <1>3. \A s \in Stages : active[s] # None =>
          active[s] \in ContentVersions /\ version[active[s]] # None /\ s \in version[active[s]].stages
    BY DEF ContentInv, Content!ActiveVersionListsItsStage, Content!Staged
  <1>4. ASSUME NEW v \in ContentVersions, Content!RequestReview(v)
        PROVE  ContentInv'
    <2>1. v \in Content!Staged
      BY <1>4 DEF Content!RequestReview
    <2>2. PICK k \in Content!Records : k = version[v]
      BY <1>2, <2>1
    <2>3. PICK r : r = [k EXCEPT !.status = "review_requested"]
      OBVIOUS
    <2>4. r \in Content!Records /\ r.number = k.number /\ r.stages = k.stages
      BY <2>3 DEF Content!Records, Content!Statuses
    <2>5. version' = [version EXCEPT ![v] = r] /\ active' = active
      BY <1>4, <2>2, <2>3 DEF Content!RequestReview
    <2>6. /\ DOMAIN version' = ContentVersions /\ version' = [u \in ContentVersions |-> version'[u]]
          /\ \A u \in ContentVersions : IF version[u] = None THEN version'[u] = None
                                 ELSE version'[u] \in Content!Records /\ version'[u].number = version[u].number
          /\ \A u \in ContentVersions : version[u] # None => version[u].stages \subseteq version'[u].stages
      BY <2>1, <2>2, <2>4, <2>5, ContentUpdates
    <2>7. \A s \in Stages : active'[s] # None => version[active'[s]] # None /\ s \in version'[active'[s]].stages
      BY <1>3, <2>5, <2>6
    <2>8. active' \in [Stages -> ContentVersions \cup {None}]
      BY <2>5 DEF ContentInv
    <2> QED
      BY <2>6, <2>7, <2>8, ContentKeepsNumbers
  <1>5. ASSUME NEW v \in ContentVersions, NEW role \in Roles, Content!ApproveForRollout(v, role)
        PROVE  ContentInv'
    <2>1. v \in Content!Staged
      BY <1>5 DEF Content!ApproveForRollout
    <2>2. PICK k \in Content!Records : k = version[v]
      BY <1>2, <2>1
    <2>3. PICK e \in {"approved", "review_requested"} :
            e = IF Roles \subseteq k.approvals \cup {role} THEN "approved" ELSE "review_requested"
      OBVIOUS
    <2>4. PICK r : r = [k EXCEPT !.approvals = k.approvals \cup {role}, !.status = e]
      OBVIOUS
    <2>5. r \in Content!Records /\ r.number = k.number /\ r.stages = k.stages
      <3>1. k.approvals \cup {role} \in SUBSET Roles /\ e \in Content!Statuses
        BY DEF Content!Records, Content!Statuses
      <3> QED
        BY <2>4, <3>1 DEF Content!Records
    <2>6. version' = [version EXCEPT ![v] = r] /\ active' = active
      BY <1>5, <2>2, <2>3, <2>4 DEF Content!ApproveForRollout
    <2>7. /\ DOMAIN version' = ContentVersions /\ version' = [u \in ContentVersions |-> version'[u]]
          /\ \A u \in ContentVersions : IF version[u] = None THEN version'[u] = None
                                 ELSE version'[u] \in Content!Records /\ version'[u].number = version[u].number
          /\ \A u \in ContentVersions : version[u] # None => version[u].stages \subseteq version'[u].stages
      BY <2>1, <2>2, <2>5, <2>6, ContentUpdates
    <2>8. \A s \in Stages : active'[s] # None => version[active'[s]] # None /\ s \in version'[active'[s]].stages
      BY <1>3, <2>6, <2>7
    <2>9. active' \in [Stages -> ContentVersions \cup {None}]
      BY <2>6 DEF ContentInv
    <2> QED
      BY <2>7, <2>8, <2>9, ContentKeepsNumbers
  <1>6. ASSUME NEW v \in ContentVersions, NEW stage \in Stages, Content!ActivateContent(v, stage)
        PROVE  ContentInv'
    <2>1. v \in Content!Staged
      BY <1>6 DEF Content!ActivateContent
    <2>2. PICK k \in Content!Records : k = version[v]
      BY <1>2, <2>1
    <2>3. PICK r : r = [k EXCEPT !.stages = k.stages \cup {stage}, !.status = stage]
      OBVIOUS
    <2>4. r \in Content!Records /\ r.number = k.number /\ r.stages = k.stages \cup {stage}
      <3>1. k.stages \cup {stage} \in SUBSET Stages /\ stage \in Content!Statuses
        BY DEF Content!Records, Content!Statuses
      <3> QED
        BY <2>3, <3>1 DEF Content!Records
    <2>5. version' = [version EXCEPT ![v] = r] /\ active' = [active EXCEPT ![stage] = v]
      BY <1>6, <2>2, <2>3 DEF Content!ActivateContent
    <2>6. /\ DOMAIN version' = ContentVersions /\ version' = [u \in ContentVersions |-> version'[u]]
          /\ \A u \in ContentVersions : IF version[u] = None THEN version'[u] = None
                                 ELSE version'[u] \in Content!Records /\ version'[u].number = version[u].number
          /\ \A u \in ContentVersions : version[u] # None => version[u].stages \subseteq version'[u].stages
          /\ version'[v] = r
      BY <2>1, <2>2, <2>4, <2>5, ContentUpdates
    <2>7. active'[stage] = v /\ \A s \in Stages \ {stage} : active'[s] = active[s]
      BY <2>5 DEF ContentInv
    <2>8. version[v] # None /\ stage \in r.stages
      BY <2>1, <2>4 DEF Content!Staged
    <2>9. \A s \in Stages : active'[s] # None => version[active'[s]] # None /\ s \in version'[active'[s]].stages
      BY <1>3, <2>6, <2>7, <2>8
    <2>10. active' \in [Stages -> ContentVersions \cup {None}]
      BY <2>5 DEF ContentInv
    <2> QED
      BY <2>6, <2>9, <2>10, ContentKeepsNumbers
  <1>7. ASSUME NEW v \in ContentVersions, Content!RollbackContent(v)
        PROVE  ContentInv'
    <2>1. v \in ContentVersions /\ version[v] # None
      BY <1>7 DEF Content!RollbackContent, Content!Staged
    <2>2. active' = [s \in Stages |-> IF active[s] = None THEN None ELSE v]
      BY <1>7 DEF Content!RollbackContent
    <2>3. ASSUME NEW u \in ContentVersions
          PROVE  IF version[u] = None THEN version'[u] = None
                 ELSE /\ version'[u] \in Content!Records /\ version'[u].number = version[u].number
                      /\ version'[u].stages = {s \in Stages : active'[s] = u}
      <3>1. CASE version[u] = None
        BY <1>7, <3>1 DEF Content!RollbackContent, Content!Staged
      <3>2. CASE version[u] # None
        <4>1. PICK k \in Content!Records : k = version[u]
          BY <3>2 DEF ContentInv
        <4>2. PICK e : e = IF u = v THEN "active_rollback" ELSE IF k.status \in Stages THEN "rolled_back" ELSE k.status
          OBVIOUS
        <4>3. PICK T \in SUBSET Stages : T = {s \in Stages : active'[s] = u}
          OBVIOUS
        <4>4. version'[u] = [k EXCEPT !.stages = T, !.status = e]
          BY <1>7, <3>2, <4>1, <4>2, <4>3 DEF Content!RollbackContent, Content!Staged
        <4>5. e \in Content!Statuses
          BY <4>2 DEF Content!Records, Content!Statuses
        <4> QED
          BY <3>2, <4>1, <4>3, <4>4, <4>5 DEF Content!Records
      <3> QED
        BY <3>1, <3>2
    <2>4. DOMAIN version' = ContentVersions /\ version' = [u \in ContentVersions |-> version'[u]]
      BY <1>7 DEF Content!RollbackContent
    <2>5. active' \in [Stages -> ContentVersions \cup {None}]
      BY <2>1, <2>2
    <2>6. \A s \in Stages : active'[s] # None => active'[s] = v
      BY <2>2
    <2>7. \A s \in Stages : active'[s] # None => version[active'[s]] # None /\ s \in version'[active'[s]].stages
      BY <2>1, <2>3, <2>6
    <2> QED
      BY <2>3, <2>4, <2>5, <2>7, ContentKeepsNumbers
  <1> QED
    BY <1>1, <1>4, <1>5, <1>6, <1>7, StageContentStep DEF Content!Next

-----------------------------------------------------------------------------
(* The genesis launch and the migration of beta accounts.                  *)

GenesisRecords == [exists : BOOLEAN, announced : BOOLEAN, archived : BOOLEAN]

LaunchCalls == [step : {"idle", "create", "announce", "rollback"}, genesis : Geneses \cup {None},
                seen : GenesisRecords]

LaunchTypesOK ==
  /\ record \in [Geneses -> GenesisRecords]
  /\ admin \in [Admins -> LaunchCalls]
  /\ chain \in [active : Nat \cup {None}, genesis : BOOLEAN, mined : SUBSET Nat]
  /\ posted \in [Geneses -> Int]
  /\ \A a \in Admins : admin[a].step # "idle" => admin[a].genesis \in Geneses

\* As long as calls do not overlap, what a call has checked still holds when it writes, and
\* there is one genesis at most that is not archived.
ChecksHold ==
  "overlap" \notin slips =>
    /\ \A a, b \in Admins : admin[a].step # "idle" /\ admin[b].step # "idle" => a = b
    /\ \A g, h \in Launch!Current : g = h
    /\ \A g \in Geneses : ~record[g].exists => ~record[g].archived /\ ~record[g].announced
    /\ \A a \in Admins : admin[a].step = "create" =>
         Launch!Current = {} /\ ~record[admin[a].genesis].exists
    /\ \A a \in Admins : admin[a].step = "announce" => admin[a].genesis \in Launch!Current
    /\ \A a \in Admins : admin[a].step = "rollback" =>
         /\ record[admin[a].genesis].exists /\ ~record[admin[a].genesis].announced
         /\ admin[a].seen = record[admin[a].genesis]

\* The active block is above every finalized one.
BlocksOrdered ==
  "mined" \notin slips =>
    IF chain.active = None THEN Launch!Finalized = {} ELSE \A n \in Launch!Finalized : n < chain.active

LaunchInv == LaunchTypesOK /\ ChecksHold /\ Launch!LedgerFollowsGenesis /\ BlocksOrdered

Announced == \E g \in Launch!Current : record[g].announced

\* What it takes for the launch status not to fall back.
LEMMA StatusAdvances ==
  ASSUME "overlap" \notin slips' => (Announced => Announced'),
         "overlap" \notin slips' => (~Launch!CleanSlate => ~Launch!CleanSlate')
  PROVE  Launch!Advances
  <1>1. /\ Announced => Launch!Stage(Launch!Status) = IF Launch!CleanSlate THEN 1 ELSE 2
        /\ ~Announced => Launch!Stage(Launch!Status) = 0
    BY DEF Announced, Launch!Status, Launch!Stage
  <1>2. /\ Announced' => Launch!Stage(Launch!Status') = IF Launch!CleanSlate' THEN 1 ELSE 2
        /\ ~Announced' => Launch!Stage(Launch!Status') = 0
    BY DEF Announced, Launch!Status, Launch!Stage
  <1>3. PICK m, n : m = Launch!Stage(Launch!Status) /\ n = Launch!Stage(Launch!Status')
    OBVIOUS
  <1>4. "overlap" \notin slips' => n >= m
    BY <1>1, <1>2, <1>3
  <1> QED
    BY <1>3, <1>4 DEF Launch!Advances

\* Finalized blocks beyond the first stay finalized.
LEMMA SlateStaysDirty ==
  ASSUME LaunchTypesOK, LaunchTypesOK', chain.mined \subseteq chain'.mined
  PROVE  ~Launch!CleanSlate => ~Launch!CleanSlate'
  <1>1. \A n \in Launch!Finalized : n \in chain.mined \/ n = 1
    BY DEF Launch!Finalized
  <1>2. chain'.mined \subseteq Launch!Finalized'
    BY DEF Launch!Finalized
  <1>3. 1 <= 1
    OBVIOUS
  <1> QED
    BY <1>1, <1>2, <1>3 DEF Launch!CleanSlate

LEMMA LaunchInitInvariant ==
  ASSUME Launch!Init
  PROVE  LaunchInv
  <1>1. /\ \A g \in Geneses : ~record[g].exists /\ ~record[g].announced /\ ~record[g].archived
        /\ \A a \in Admins : admin[a].step = "idle"
        /\ record \in [Geneses -> GenesisRecords] /\ admin \in [Admins -> LaunchCalls]
    BY DEF Launch!Init, Launch!Idle, GenesisRecords, LaunchCalls
  <1>2. Launch!Current = {}
    BY <1>1 DEF Launch!Current
  <1>3. LaunchTypesOK
    BY <1>1 DEF Launch!Init, LaunchTypesOK
  <1>4. ChecksHold
    BY <1>1, <1>2 DEF ChecksHold
  <1>5. Launch!LedgerFollowsGenesis
    BY <1>2 DEF Launch!Init, Launch!LedgerFollowsGenesis
  <1>6. BlocksOrdered
    BY DEF Launch!Init, BlocksOrdered, Launch!Finalized
  <1> QED
    BY <1>3, <1>4, <1>5, <1>6 DEF LaunchInv

\* A call that opens while none is open has checked what holds.
LEMMA LaunchReadsStep ==
  ASSUME LaunchInv, NEW a \in Admins, NEW g \in Geneses, NEW w \in {"create", "announce", "rollback"},
         Launch!Reads(a, w, g),
         w = "create" => Launch!Current = {} /\ ~record[g].exists,
         w = "announce" => g \in Launch!Current,
         w = "rollback" => record[g].exists /\ ~record[g].announced
  PROVE  LaunchInv' /\ Launch!Advances
  <1>1. PICK r \in GenesisRecords : r = record[g]
    BY DEF LaunchInv, LaunchTypesOK
  <1>2. PICK c : c = [step |-> w, genesis |-> g, seen |-> r]
    OBVIOUS
  <1>3. c \in LaunchCalls /\ c.step = w /\ c.genesis = g /\ c.seen = r /\ w # "idle"
    BY <1>2 DEF LaunchCalls
  <1>4. admin' = [admin EXCEPT ![a] = c] /\ UNCHANGED <<record, posted, tier, chain>>
    BY <1>1, <1>2 DEF Launch!Reads
  <1>5. admin'[a] = c /\ \A b \in Admins \ {a} : admin'[b] = admin[b]
    BY <1>4 DEF LaunchInv, LaunchTypesOK
  <1>6. slips \subseteq slips' /\ slips' \subseteq slips \cup {"overlap"}
        /\ ("overlap" \notin slips' => \A b \in Admins : admin[b].step = "idle")
    BY DEF Launch!Reads
  <1>7. LaunchTypesOK'
    BY <1>3, <1>4, <1>5 DEF LaunchInv, LaunchTypesOK
  <1>8. Launch!Current' = Launch!Current /\ Launch!Finalized' = Launch!Finalized
        /\ Launch!CleanSlate' = Launch!CleanSlate /\ Announced' = Announced
    BY <1>4 DEF Launch!Current, Launch!Finalized, Launch!CleanSlate, Announced
  <1>9. ChecksHold'
    <2> SUFFICES ASSUME "overlap" \notin slips'
                 PROVE  ChecksHold'
      BY DEF ChecksHold
    <2>1. \A b \in Admins : admin'[b].step # "idle" => b = a
      BY <1>5, <1>6
    <2>2. "overlap" \notin slips
      BY <1>6
    <2>3. /\ \A f, h \in Launch!Current : f = h
          /\ \A f \in Geneses : ~record[f].exists => ~record[f].archived /\ ~record[f].announced
      BY <2>2 DEF LaunchInv, ChecksHold
    <2>4. \A b \in Admins : admin'[b].step # "idle" =>
            admin'[b].step = w /\ admin'[b].genesis = g /\ admin'[b].seen = record[g]
      BY <1>1, <1>3, <1>5, <2>1
    <2>5. \A b \in Admins : admin'[b].step = "create" => Launch!Current = {} /\ ~record[admin'[b].genesis].exists
      BY <2>4
    <2>6. \A b \in Admins : admin'[b].step = "announce" => admin'[b].genesis \in Launch!Current
      BY <2>4
    <2>7. \A b \in Admins : admin'[b].step = "rollback" =>
            /\ record[admin'[b].genesis].exists /\ ~record[admin'[b].genesis].announced
            /\ admin'[b].seen = record[admin'[b].genesis]
      BY <2>4
    <2> QED
      BY <1>4, <1>8, <2>1, <2>3, <2>5, <2>6, <2>7 DEF ChecksHold
  <1>10. Launch!LedgerFollowsGenesis'
    <2>1. slips' \cap {"overlap", "again"} = {} => slips \cap {"overlap", "again"} = {}
      BY <1>6
    <2> QED
      BY <1>4, <1>8, <2>1 DEF LaunchInv, Launch!LedgerFollowsGenesis
  <1>11. BlocksOrdered'
    BY <1>4, <1>6, <1>8 DEF LaunchInv, BlocksOrdered
  <1>12. Launch!Advances
    BY <1>8, StatusAdvances
  <1> QED
    BY <1>7, <1>9, <1>10, <1>11, <1>12 DEF LaunchInv

\* What every write of a record leaves as it was.
LEMMA LaunchWriteFrame ==
  ASSUME LaunchInv, NEW a \in Admins, admin[a].step # "idle", NEW r \in GenesisRecords,
         record' = [record EXCEPT ![admin[a].genesis] = r], admin' = [admin EXCEPT ![a] = Launch!Idle]
  PROVE  /\ record' \in [Geneses -> GenesisRecords] /\ admin' \in [Admins -> LaunchCalls]
         /\ record'[admin[a].genesis] = r
         /\ \A g \in Geneses \ {admin[a].genesis} : record'[g] = record[g]
         /\ \A b \in Admins : admin'[b].step # "idle" => b # a /\ admin'[b] = admin[b]
         /\ admin[a].genesis \in Geneses
  <1>1. Launch!Idle \in LaunchCalls /\ Launch!Idle.step = "idle"
    BY DEF LaunchCalls, GenesisRecords, Launch!Idle
  <1>2. admin[a].genesis \in Geneses
    BY DEF LaunchInv, LaunchTypesOK
  <1> QED
    BY <1>1, <1>2 DEF LaunchInv, LaunchTypesOK

LEMMA CreatePersistsStep ==
  ASSUME Launch!LaunchAssumption, LaunchInv, NEW a \in Admins, Launch!CreatePersists(a)
  PROVE  LaunchInv' /\ Launch!Advances
  <1>1. PICK g \in Geneses : g = admin[a].genesis
    BY DEF Launch!CreatePersists, LaunchInv, LaunchTypesOK
  <1>2. PICK k \in GenesisRecords : k = record[g]
    BY DEF LaunchInv, LaunchTypesOK
  <1>3. PICK r : r = [k EXCEPT !.exists = TRUE]
    OBVIOUS
  <1>4. r \in GenesisRecords /\ r.exists /\ r.announced = k.announced /\ r.archived = k.archived
    BY <1>3 DEF GenesisRecords
  <1>5. /\ admin[a].step = "create"
        /\ record' = [record EXCEPT ![admin[a].genesis] = r]
        /\ posted' = [posted EXCEPT ![g] = posted[g] + 1]
        /\ tier' = [p \in Players |-> Launch!StartingTier(p)]
        /\ admin' = [admin EXCEPT ![a] = Launch!Idle]
        /\ chain' = [chain EXCEPT !.genesis = chain.genesis \/ 1 \notin chain.mined, !.active = 2]
        /\ slips' = slips \cup {l \in {"mined"} : ~Launch!CleanSlate}
    BY <1>1, <1>2, <1>3 DEF Launch!CreatePersists
  <1>6. /\ record' \in [Geneses -> GenesisRecords] /\ admin' \in [Admins -> LaunchCalls]
        /\ record'[g] = r /\ \A h \in Geneses \ {g} : record'[h] = record[h]
        /\ \A b \in Admins : admin'[b].step # "idle" => b # a /\ admin'[b] = admin[b]
    BY <1>1, <1>4, <1>5, LaunchWriteFrame
  <1>7. PICK c \in [active : Nat \cup {None}, genesis : BOOLEAN, mined : SUBSET Nat] : c = chain
    BY DEF LaunchInv, LaunchTypesOK
  <1>8. /\ chain' \in [active : Nat \cup {None}, genesis : BOOLEAN, mined : SUBSET Nat]
        /\ chain'.active = 2 /\ chain'.mined = chain.mined
    BY <1>5, <1>7
  <1>9. LaunchTypesOK'
    BY <1>1, <1>5, <1>6, <1>8 DEF LaunchInv, LaunchTypesOK
  <1>10. ("overlap" \in slips' <=> "overlap" \in slips) /\ ("again" \in slips' <=> "again" \in slips)
         /\ ("mined" \notin slips' => Launch!CleanSlate)
    BY <1>5
  <1>11. ASSUME "overlap" \notin slips
         PROVE  /\ Launch!Current = {} /\ ~k.announced /\ Launch!Current' = {g}
                /\ \A b \in Admins : admin'[b].step = "idle"
    <2>1. Launch!Current = {} /\ ~k.exists /\ ~k.archived /\ ~k.announced
      BY <1>1, <1>2, <1>5, <1>11 DEF LaunchInv, ChecksHold
    <2>2. Launch!Current' = {g}
      BY <1>4, <1>6, <2>1 DEF Launch!Current
    <2>3. \A b \in Admins : admin[b].step # "idle" => b = a
      BY <1>5, <1>11 DEF LaunchInv, ChecksHold
    <2> QED
      BY <1>6, <2>1, <2>2, <2>3
  <1>12. ChecksHold'
    <2> SUFFICES ASSUME "overlap" \notin slips
                 PROVE  ChecksHold'
      BY <1>10 DEF ChecksHold
    <2>1. \A h \in Geneses : ~record'[h].exists => ~record'[h].archived /\ ~record'[h].announced
      BY <1>4, <1>6 DEF LaunchInv, ChecksHold
    <2> QED
      BY <1>11, <2>1 DEF ChecksHold
  <1>13. Launch!LedgerFollowsGenesis'
    <2> SUFFICES ASSUME slips \cap {"overlap", "again"} = {}
                 PROVE  /\ \A h \in Geneses : posted'[h] = IF h \in Launch!Current' THEN 1 ELSE 0
                        /\ \A p \in Players : tier'[p] = IF Launch!Current' = {} THEN 1 ELSE Launch!StartingTier(p)
      BY <1>10 DEF Launch!LedgerFollowsGenesis
    <2>1. Launch!Current = {} /\ Launch!Current' = {g}
      BY <1>11
    <2>2. \A h \in Geneses : posted[h] = 0
      BY <2>1 DEF LaunchInv, Launch!LedgerFollowsGenesis
    <2> QED
      BY <1>5, <2>1, <2>2 DEF LaunchInv, LaunchTypesOK
  <1>14. BlocksOrdered'
    <2> SUFFICES ASSUME "mined" \notin slips'
                 PROVE  chain'.active # None /\ \A n \in Launch!Finalized' : n < chain'.active
      BY DEF BlocksOrdered
    <2>1. \A n \in Launch!Finalized' : n \in chain.mined \/ n = 1
      BY <1>8 DEF Launch!Finalized
    <2>2. \A n \in chain.mined : n <= 1 /\ n \in Nat
      BY <1>7, <1>10 DEF Launch!CleanSlate, Launch!Finalized
    <2> QED
      BY <1>8, <2>1, <2>2 DEF Launch!LaunchAssumption
  <1>15. Launch!Advances
    <2>1. "overlap" \notin slips' => ~Announced
      BY <1>10, <1>11 DEF Announced
    <2>2. ~Launch!CleanSlate => ~Launch!CleanSlate'
      BY <1>8, <1>9, SlateStaysDirty DEF LaunchInv
    <2> QED
      BY <2>1, <2>2, StatusAdvances
  <1> QED
    BY <1>9, <1>12, <1>13, <1>14, <1>15 DEF LaunchInv

LEMMA AnnounceStoresStep ==
  ASSUME LaunchInv, NEW a \in Admins, Launch!AnnounceStores(a)
  PROVE  LaunchInv' /\ Launch!Advances
  <1>1. PICK g \in Geneses : g = admin[a].genesis
    BY DEF Launch!AnnounceStores, LaunchInv, LaunchTypesOK
  <1>2. PICK k \in GenesisRecords : k = record[g]
    BY DEF LaunchInv, LaunchTypesOK
  <1>3. PICK r : r = [k EXCEPT !.announced = TRUE, !.archived = FALSE]
    OBVIOUS
  <1>4. r \in GenesisRecords /\ r.exists = k.exists /\ r.announced /\ ~r.archived
    BY <1>3 DEF GenesisRecords
  <1>5. /\ admin[a].step = "announce"
        /\ record' = [record EXCEPT ![admin[a].genesis] = r]
        /\ admin' = [admin EXCEPT ![a] = Launch!Idle]
        /\ UNCHANGED <<posted, tier, chain, slips>>
    <2>1. record' = [record EXCEPT ![g] = r]
      BY <1>1, <1>2, <1>3 DEF Launch!AnnounceStores, LaunchInv, LaunchTypesOK
    <2> QED
      BY <1>1, <2>1 DEF Launch!AnnounceStores
  <1>6. /\ record' \in [Geneses -> GenesisRecords] /\ admin' \in [Admins -> LaunchCalls]
        /\ record'[g] = r /\ \A h \in Geneses \ {g} : record'[h] = record[h]
        /\ \A b \in Admins : admin'[b].step # "idle" => b # a /\ admin'[b] = admin[b]
    BY <1>1, <1>4, <1>5, LaunchWriteFrame
  <1>7. LaunchTypesOK'
    BY <1>5, <1>6 DEF LaunchInv, LaunchTypesOK
  <1>8. ASSUME "overlap" \notin slips
        PROVE  /\ Launch!Current' = Launch!Current /\ g \in Launch!Current' /\ k.exists
               /\ \A b \in Admins : admin'[b].step = "idle"
    <2>1. g \in Launch!Current
      BY <1>1, <1>5, <1>8 DEF LaunchInv, ChecksHold
    <2>2. k.exists /\ ~k.archived
      BY <1>2, <2>1 DEF Launch!Current
    <2>3. Launch!Current' = Launch!Current
      BY <1>2, <1>4, <1>6, <2>2 DEF Launch!Current
    <2>4. \A b \in Admins : admin[b].step # "idle" => b = a
      BY <1>5, <1>8 DEF LaunchInv, ChecksHold
    <2> QED
      BY <1>6, <2>1, <2>2, <2>3, <2>4
  <1>9. ChecksHold'
    <2> SUFFICES ASSUME "overlap" \notin slips
                 PROVE  ChecksHold'
      BY <1>5 DEF ChecksHold
    <2>1. \A h \in Geneses : ~record'[h].exists => ~record'[h].archived /\ ~record'[h].announced
      BY <1>4, <1>6, <1>8 DEF LaunchInv, ChecksHold
    <2>2. \A f, h \in Launch!Current' : f = h
      BY <1>8 DEF LaunchInv, ChecksHold
    <2> QED
      BY <1>8, <2>1, <2>2 DEF ChecksHold
  <1>10. Launch!LedgerFollowsGenesis'
    BY <1>5, <1>8 DEF LaunchInv, Launch!LedgerFollowsGenesis
  <1>11. BlocksOrdered' /\ Launch!CleanSlate' = Launch!CleanSlate
    BY <1>5 DEF LaunchInv, BlocksOrdered, Launch!Finalized, Launch!CleanSlate
  <1>12. Launch!Advances
    <2>1. "overlap" \notin slips' => Announced'
      BY <1>4, <1>5, <1>6, <1>8 DEF Announced
    <2> QED
      BY <1>11, <2>1, StatusAdvances
  <1> QED
    BY <1>7, <1>9, <1>10, <1>11, <1>12 DEF LaunchInv

LEMMA RollbackPersistsStep ==
  ASSUME LaunchInv, NEW a \in Admins, Launch!RollbackPersists(a)
  PROVE  LaunchInv' /\ Launch!Advances
  <1>1. PICK g \in Geneses : g = admin[a].genesis
    BY DEF Launch!RollbackPersists, LaunchInv, LaunchTypesOK
  <1>2. PICK k \in GenesisRecords : k = record[g]
    BY DEF LaunchInv, LaunchTypesOK
  <1>3. PICK r : r = [k EXCEPT !.archived = TRUE]
    OBVIOUS
  <1>4. r \in GenesisRecords /\ r.exists = k.exists /\ r.announced = k.announced /\ r.archived
    BY <1>3 DEF GenesisRecords
  <1>5. /\ admin[a].step = "rollback"
        /\ record' = [record EXCEPT ![admin[a].genesis] = r]
        /\ posted' = [posted EXCEPT ![g] = posted[g] - 1]
        /\ tier' = [p \in Players |-> 1]
        /\ chain' = [chain EXCEPT !.genesis = FALSE, !.active = None]
        /\ admin' = [admin EXCEPT ![a] = Launch!Idle]
        /\ slips' = slips \cup {l \in {"again"} : admin[a].seen.archived} \cup {l \in {"mined"} : chain.mined # {}}
    BY <1>1, <1>2, <1>3 DEF Launch!RollbackPersists
  <1>6. /\ record' \in [Geneses -> GenesisRecords] /\ admin' \in [Admins -> LaunchCalls]
        /\ record'[g] = r /\ \A h \in Geneses \ {g} : record'[h] = record[h]
        /\ \A b \in Admins : admin'[b].step # "idle" => b # a /\ admin'[b] = admin[b]
    BY <1>1, <1>4, <1>5, LaunchWriteFrame
  <1>7. PICK c \in [active : Nat \cup {None}, genesis : BOOLEAN, mined : SUBSET Nat] : c = chain
    BY DEF LaunchInv, LaunchTypesOK
  <1>8. /\ chain' \in [active : Nat \cup {None}, genesis : BOOLEAN, mined : SUBSET Nat]
        /\ chain'.active = None /\ chain'.mined = chain.mined /\ ~chain'.genesis
    BY <1>5, <1>7
  <1>9. LaunchTypesOK'
    BY <1>1, <1>5, <1>6, <1>8 DEF LaunchInv, LaunchTypesOK
  <1>10. ("overlap" \in slips' <=> "overlap" \in slips) /\ ("again" \notin slips' => ~admin[a].seen.archived)
         /\ ("mined" \notin slips' => chain.mined = {}) /\ ("again" \in slips => "again" \in slips')
    BY <1>5
  <1>11. ASSUME "overlap" \notin slips
         PROVE  /\ k.exists /\ ~k.announced /\ k.archived = admin[a].seen.archived
                /\ Launch!Current' = Launch!Current \ {g}
                /\ \A b \in Admins : admin'[b].step = "idle"
    <2>1. k.exists /\ ~k.announced /\ admin[a].seen = k
      BY <1>1, <1>2, <1>5, <1>11 DEF LaunchInv, ChecksHold
    <2>2. Launch!Current' = Launch!Current \ {g}
      BY <1>4, <1>6 DEF Launch!Current
    <2>3. \A b \in Admins : admin[b].step # "idle" => b = a
      BY <1>5, <1>11 DEF LaunchInv, ChecksHold
    <2> QED
      BY <1>6, <2>1, <2>2, <2>3
  <1>12. ChecksHold'
    <2> SUFFICES ASSUME "overlap" \notin slips
                 PROVE  ChecksHold'
      BY <1>10 DEF ChecksHold
    <2>1. \A h \in Geneses : ~record'[h].exists => ~record'[h].archived /\ ~record'[h].announced
      BY <1>4, <1>6, <1>11 DEF LaunchInv, ChecksHold
    <2>2. \A f, h \in Launch!Current' : f = h
      BY <1>11 DEF LaunchInv, ChecksHold
    <2> QED
      BY <1>11, <2>1, <2>2 DEF ChecksHold
  <1>13. Launch!LedgerFollowsGenesis'
    <2> SUFFICES ASSUME "overlap" \notin slips', "again" \notin slips'
                 PROVE  /\ \A h \in Geneses : posted'[h] = IF h \in Launch!Current' THEN 1 ELSE 0
                        /\ \A p \in Players : tier'[p] = IF Launch!Current' = {} THEN 1 ELSE Launch!StartingTier(p)
      BY DEF Launch!LedgerFollowsGenesis
    <2>1. "overlap" \notin slips /\ "again" \notin slips /\ ~k.archived /\ k.exists
      BY <1>10, <1>11
    <2>2. g \in Launch!Current
      BY <1>2, <2>1 DEF Launch!Current
    <2>3. Launch!Current = {g} /\ Launch!Current' = {}
      BY <1>11, <2>1, <2>2 DEF LaunchInv, ChecksHold
    <2>4. \A h \in Geneses : posted[h] = IF h = g THEN 1 ELSE 0
      BY <2>1, <2>3 DEF LaunchInv, Launch!LedgerFollowsGenesis
    <2> QED
      BY <1>5, <2>3, <2>4 DEF LaunchInv, LaunchTypesOK
  <1>14. BlocksOrdered'
    BY <1>8, <1>10 DEF BlocksOrdered, Launch!Finalized
  <1>15. Launch!Advances
    <2>1. ASSUME "overlap" \notin slips', Announced
          PROVE  Announced'
      <3>1. PICK h \in Launch!Current : record[h].announced
        BY <2>1 DEF Announced
      <3>2. h # g /\ h \in Geneses
        BY <1>2, <1>10, <1>11, <2>1, <3>1 DEF Launch!Current
      <3> QED
        BY <1>6, <1>10, <1>11, <2>1, <3>1, <3>2 DEF Announced
    <2>2. ~Launch!CleanSlate => ~Launch!CleanSlate'
      BY <1>8, <1>9, SlateStaysDirty DEF LaunchInv
    <2> QED
      BY <2>1, <2>2, StatusAdvances
  <1> QED
    BY <1>9, <1>12, <1>13, <1>14, <1>15 DEF LaunchInv

LEMMA MineBlockStep ==
  ASSUME Launch!LaunchAssumption, LaunchInv, Launch!MineBlock
  PROVE  LaunchInv' /\ Launch!Advances
  <1>1. PICK c \in [active : Nat \cup {None}, genesis : BOOLEAN, mined : SUBSET Nat] : c = chain
    BY DEF LaunchInv, LaunchTypesOK
  <1>2. PICK n : n = IF c.active = None THEN 1 ELSE c.active
    OBVIOUS
  <1>3. n \in Nat
    BY <1>1, <1>2
  <1>4. PICK M : M = IF n \in Launch!Finalized THEN c.mined ELSE c.mined \cup {n}
    OBVIOUS
  <1>5. chain' = [c EXCEPT !.active = n + 1, !.mined = M] /\ UNCHANGED <<record, posted, tier, admin, slips>>
    BY <1>1, <1>2, <1>4 DEF Launch!MineBlock
  <1>6. /\ chain' \in [active : Nat \cup {None}, genesis : BOOLEAN, mined : SUBSET Nat]
        /\ chain'.active = n + 1 /\ chain'.mined = M /\ chain'.genesis = c.genesis
        /\ M \in SUBSET Nat /\ c.mined \subseteq M
    <2>1. M \in SUBSET Nat /\ c.mined \subseteq M
      BY <1>1, <1>3, <1>4
    <2>2. PICK k \in Nat \cup {None} : k = n + 1
      BY <1>3
    <2> HIDE <1>4
    <2> QED
      BY <1>5, <2>1, <2>2
  <1>7. LaunchTypesOK'
    BY <1>5, <1>6 DEF LaunchInv, LaunchTypesOK
  <1>8. Launch!Current' = Launch!Current /\ Announced' = Announced
    BY <1>5 DEF Launch!Current, Announced
  <1>9. ChecksHold' /\ Launch!LedgerFollowsGenesis'
    BY <1>5, <1>8 DEF LaunchInv, ChecksHold, Launch!LedgerFollowsGenesis
  <1>10. BlocksOrdered'
    <2> SUFFICES ASSUME "mined" \notin slips
                 PROVE  chain'.active # None /\ \A m \in Launch!Finalized' : m < chain'.active
      BY <1>5 DEF BlocksOrdered
    <2>1. \A m \in Launch!Finalized' : m \in Launch!Finalized \/ m = n
      BY <1>1, <1>4, <1>6 DEF Launch!Finalized
    <2>2. IF c.active = None THEN Launch!Finalized = {} ELSE \A m \in Launch!Finalized : m < c.active
      BY <1>1 DEF LaunchInv, BlocksOrdered
    <2>3. \A m \in Launch!Finalized : m \in Nat /\ m < n
      <3>1. \A m \in Launch!Finalized : m \in Nat
        BY <1>1 DEF Launch!Finalized
      <3> QED
        BY <1>2, <2>2, <3>1
    <2> QED
      BY <1>3, <1>6, <2>1, <2>3 DEF Launch!LaunchAssumption
  <1>11. Launch!Advances
    <2>1. ~Launch!CleanSlate => ~Launch!CleanSlate'
      BY <1>1, <1>6, <1>7, SlateStaysDirty DEF LaunchInv
    <2> QED
      BY <1>8, <2>1, StatusAdvances
  <1> QED
    BY <1>7, <1>9, <1>10, <1>11 DEF LaunchInv

LEMMA LaunchInvariantStep ==
  ASSUME Launch!LaunchAssumption, LaunchInv, [Launch!Next]_genesisVars
  PROVE  LaunchInv' /\ Launch!Advances
  <1>1. CASE UNCHANGED genesisVars
    <2>1. LaunchInv'
      BY <1>1 DEF genesisVars, LaunchInv, LaunchTypesOK, ChecksHold, BlocksOrdered,
          Launch!LedgerFollowsGenesis,
                  Launch!Current, Launch!Finalized
    <2>2. Announced' = Announced /\ Launch!CleanSlate' = Launch!CleanSlate
      BY <1>1 DEF genesisVars, Announced, Launch!Current, Launch!CleanSlate, Launch!Finalized
    <2> QED
      BY <2>1, <2>2, StatusAdvances
  <1>2. ASSUME NEW a \in Admins, NEW g \in Geneses, Launch!CreateChecks(a, g)
        PROVE  LaunchInv' /\ Launch!Advances
    <2>1. Launch!Reads(a, "create", g) /\ Launch!Current = {} /\ ~record[g].exists
      BY <1>2 DEF Launch!CreateChecks
    <2> QED
      BY <2>1, LaunchReadsStep
  <1>3. ASSUME NEW a \in Admins, NEW g \in Geneses, Launch!AnnounceChecks(a, g)
        PROVE  LaunchInv' /\ Launch!Advances
    <2>1. Launch!Reads(a, "announce", g) /\ g \in Launch!Current
      BY <1>3 DEF Launch!AnnounceChecks, Launch!Current
    <2> QED
      BY <2>1, LaunchReadsStep
  <1>4. ASSUME NEW a \in Admins, NEW g \in Geneses, Launch!RollbackChecks(a, g)
        PROVE  LaunchInv' /\ Launch!Advances
    <2>1. Launch!Reads(a, "rollback", g) /\ record[g].exists /\ ~record[g].announced
      BY <1>4 DEF Launch!RollbackChecks
    <2> QED
      BY <2>1, LaunchReadsStep
  <1> QED
    BY <1>1, <1>2, <1>3, <1>4, CreatePersistsStep, AnnounceStoresStep, RollbackPersistsStep, MineBlockStep
    DEF Launch!Next

\* Rounding moves a tenth by half a unit at most.
LEMMA QuantizeRounds ==
  ASSUME NEW n \in Int
  PROVE  /\ Migration!Quantize(n) \in Int
         /\ 10 * Migration!Quantize(n) - n <= 5 /\ n - 10 * Migration!Quantize(n) <= 5
  <1>1. n \div 10 \in Int /\ n % 10 \in 0 .. 9
    OBVIOUS
  <1>2. PICK q \in Int, r \in 0 .. 9 : q = n \div 10 /\ r = n % 10
    BY <1>1, Zenon
  <1>4. n = 10 * q + r
    BY <1>2
  <1>3. PICK z \in Int : z = Migration!Quantize(n) /\ ((z = q + 1 /\ r >= 5) \/ (z = q /\ r <= 5))
    BY <1>2 DEF Migration!Quantize
  <1> QED
    BY <1>3, <1>4

MigrationTypesOK ==
  /\ profile \in [Production -> Int]
  /\ migrated \subseteq Migration!Pairs /\ failed \subseteq migrated
  /\ ledger \in [Migration!Pairs -> Nat] /\ restarts \in Nat

\* Profiles hold what the migrated pairs brought; a pair has an entry for each life of the process
\* before this one at most, and one for this life if it was migrated and its entry did not fail.
MigrationInv ==
  /\ MigrationTypesOK
  /\ \A p \in Production : profile[p] = Migration!Brought({c \in migrated : c[2] = p})
  /\ \A c \in Migration!Pairs \ migrated : ledger[c] <= restarts
  /\ \A c \in failed : ledger[c] <= restarts
  /\ \A c \in migrated \ failed : ledger[c] <= restarts + 1 /\ ledger[c] > 0

LEMMA BroughtIsSum ==
  ASSUME NEW S
  PROVE  Migration!Brought(S) = SumFunctionOnSet([d \in Migration!Pairs |-> Migration!Transferred(d[1])], S)
  BY DEF Migration!Brought, Migration!SumFunctionOnSet, SumFunctionOnSet, Migration!FoldFunctionOnSet,
         FoldFunctionOnSet, Migration!MapThenFoldSet, MapThenFoldSet

LEMMA PairsAreFinite ==
  ASSUME Migration!MigrationAssumption
  PROVE  IsFiniteSet(Migration!Pairs)
  <1>1. IsFiniteSet(Beta) /\ IsFiniteSet(Production)
    BY DEF Migration!MigrationAssumption, Migration!IsFiniteSet, IsFiniteSet
  <1> QED
    BY <1>1, FS_Product DEF Migration!Pairs

LEMMA TransferIsInt ==
  ASSUME Migration!MigrationAssumption, NEW b \in Beta
  PROVE  Migration!Transferred(b) \in Int /\ Migration!LossTax(b) \in Int
         /\ Migration!Transferred(b) + Migration!LossTax(b) - BetaBalance[b] \in -1 .. 1
  <1>1. PICK n \in Int : n = BetaBalance[b]
    BY DEF Migration!MigrationAssumption
  <1>2. PICK u, v : u = Migration!Quantize(9 * n) /\ v = Migration!Quantize(n)
    OBVIOUS
  <1>3. u \in Int /\ 10 * u - 9 * n <= 5 /\ 9 * n - 10 * u <= 5
    BY <1>2, QuantizeRounds
  <1>4. v \in Int /\ 10 * v - n <= 5 /\ n - 10 * v <= 5
    BY <1>2, QuantizeRounds
  <1>5. u + v - n \in -1 .. 1
    BY <1>3, <1>4
  <1> QED
    BY <1>1, <1>2, <1>3, <1>4, <1>5 DEF Migration!Transferred, Migration!LossTax

\* A profile that is moved brings its own balance to what came before.
LEMMA MoveProfileStep ==
  ASSUME Migration!MigrationAssumption, MigrationInv, NEW b \in Beta, NEW p \in Production,
         Migration!MoveProfile(b, p)
  PROVE  /\ profile' \in [Production -> Int] /\ <<b, p>> \in Migration!Pairs /\ <<b, p>> \notin migrated
         /\ migrated' = migrated \cup {<<b, p>>}
         /\ \A q \in Production : profile'[q] = Migration!Brought({c \in migrated' : c[2] = q})
  <1>1. PICK d : d = <<b, p>>
    OBVIOUS
  <1>2. d \in Migration!Pairs /\ d[1] = b /\ d[2] = p
    BY <1>1 DEF Migration!Pairs
  <1>3. /\ d \notin migrated /\ migrated' = migrated \cup {d}
        /\ profile' = [profile EXCEPT ![p] = profile[p] + Migration!Transferred(b)]
    BY <1>1 DEF Migration!MoveProfile, Migration!Valid
  <1>4. Migration!Transferred(b) \in Int /\ profile[p] \in Int
    BY TransferIsInt DEF MigrationInv, MigrationTypesOK
  <1>5. profile' \in [Production -> Int] /\ profile'[p] = profile[p] + Migration!Transferred(b)
        /\ \A q \in Production \ {p} : profile'[q] = profile[q]
    BY <1>3, <1>4 DEF MigrationInv, MigrationTypesOK
  <1>6. ASSUME NEW q \in Production
        PROVE  profile'[q] = Migration!Brought({c \in migrated' : c[2] = q})
    <2>1. profile[q] = Migration!Brought({c \in migrated : c[2] = q})
      BY DEF MigrationInv
    <2>2. CASE q # p
      <3>1. {c \in migrated' : c[2] = q} = {c \in migrated : c[2] = q}
        BY <1>2, <1>3, <2>2
      <3> QED
        BY <1>5, <2>1, <2>2, <3>1
    <2>3. CASE q = p
      <3>1. PICK S : S = {c \in migrated : c[2] = p}
        OBVIOUS
      <3>2. {c \in migrated' : c[2] = q} = S \cup {d} /\ d \notin S /\ S \in SUBSET Migration!Pairs
        BY <1>2, <1>3, <2>3, <3>1 DEF MigrationInv, MigrationTypesOK
      <3>3. PICK f : f = [c \in Migration!Pairs |-> Migration!Transferred(c[1])]
        OBVIOUS
      <3>4. \A c \in Migration!Pairs : f[c] \in Int
        BY <3>3, TransferIsInt DEF Migration!Pairs
      <3>5. f[d] = Migration!Transferred(b)
        BY <1>2, <3>3
      <3>6. IsFiniteSet(S)
        BY <3>2, PairsAreFinite, FS_Subset
      <3>7. \A c \in S \cup {d} : f[c] \in Int
        BY <1>2, <3>2, <3>4
      <3>8. SumFunctionOnSet(f, S \cup {d}) = SumFunctionOnSet(f, S) + f[d]
        BY <3>2, <3>6, <3>7, SumInsert
      <3>9. /\ Migration!Brought(S) = SumFunctionOnSet(f, S)
            /\ Migration!Brought(S \cup {d}) = SumFunctionOnSet(f, S \cup {d})
        BY <3>3, BroughtIsSum
      <3> QED
        BY <1>5, <2>1, <2>3, <3>1, <3>2, <3>5, <3>8, <3>9
    <2> QED
      BY <2>2, <2>3
  <1> QED
    BY <1>1, <1>2, <1>3, <1>5, <1>6

LEMMA MigrationInitInvariant ==
  ASSUME Migration!Init
  PROVE  MigrationInv
  <1>1. /\ profile = [p \in Production |-> 0] /\ migrated = {} /\ failed = {} /\ restarts = 0
        /\ ledger = [c \in Migration!Pairs |-> 0]
    BY DEF Migration!Init
  <1>2. \A p : {c \in migrated : c[2] = p} = {}
    BY <1>1
  <1>3. Migration!Brought({}) = 0
    BY BroughtIsSum, SumEmpty
  <1> QED
    BY <1>1, <1>2, <1>3 DEF MigrationInv, MigrationTypesOK

LEMMA MigrateStep ==
  ASSUME Migration!MigrationAssumption, MigrationInv, NEW b \in Beta, NEW p \in Production,
         Migration!MigrateBetaPlayer(b, p)
  PROVE  MigrationInv'
  <1>1. PICK d : d = <<b, p>>
    OBVIOUS
  <1>2. /\ profile' \in [Production -> Int] /\ d \in Migration!Pairs /\ d \notin migrated
        /\ migrated' = migrated \cup {d} /\ restarts' = restarts
        /\ \A q \in Production : profile'[q] = Migration!Brought({c \in migrated' : c[2] = q})
    BY <1>1, MoveProfileStep DEF Migration!MigrateBetaPlayer, Migration!MoveProfile
  <1>3. ledger' = [ledger EXCEPT ![d] = ledger[d] + 1] /\ failed' = failed
    BY <1>1 DEF Migration!MigrateBetaPlayer
  <1>4. PICK n \in Nat : n = ledger[d] /\ n <= restarts /\ restarts \in Nat
    BY <1>2 DEF MigrationInv, MigrationTypesOK
  <1>5. /\ ledger' \in [Migration!Pairs -> Nat] /\ ledger'[d] = n + 1
        /\ \A c \in Migration!Pairs \ {d} : ledger'[c] = ledger[c]
    BY <1>2, <1>3, <1>4 DEF MigrationInv, MigrationTypesOK
  <1>6. ledger'[d] <= restarts + 1 /\ ledger'[d] > 0 /\ d \notin failed
    BY <1>2, <1>4, <1>5 DEF MigrationInv, MigrationTypesOK
  <1>7. MigrationTypesOK'
    BY <1>2, <1>3, <1>4, <1>5 DEF MigrationInv, MigrationTypesOK
  <1> QED
    BY <1>2, <1>3, <1>5, <1>6, <1>7 DEF MigrationInv, MigrationTypesOK

LEMMA LedgerFailsStep ==
  ASSUME Migration!MigrationAssumption, MigrationInv, NEW b \in Beta, NEW p \in Production,
         Migration!LedgerFails(b, p)
  PROVE  MigrationInv'
  <1>1. PICK d : d = <<b, p>>
    OBVIOUS
  <1>2. /\ profile' \in [Production -> Int] /\ d \in Migration!Pairs /\ d \notin migrated
        /\ migrated' = migrated \cup {d} /\ restarts' = restarts
        /\ \A q \in Production : profile'[q] = Migration!Brought({c \in migrated' : c[2] = q})
    BY <1>1, MoveProfileStep DEF Migration!LedgerFails, Migration!MoveProfile
  <1>3. failed' = failed \cup {d} /\ ledger' = ledger
    BY <1>1 DEF Migration!LedgerFails
  <1> QED
    BY <1>2, <1>3 DEF MigrationInv, MigrationTypesOK

LEMMA MigrationRestartStep ==
  ASSUME MigrationInv, Migration!Restart
  PROVE  MigrationInv'
  <1>1. /\ profile' = [p \in Production |-> 0] /\ migrated' = {} /\ failed' = {}
        /\ restarts' = restarts + 1 /\ ledger' = ledger
    BY DEF Migration!Restart
  <1>2. \A q : {c \in migrated' : c[2] = q} = {}
    BY <1>1
  <1>3. Migration!Brought({}) = 0
    BY BroughtIsSum, SumEmpty
  <1>4. restarts \in Nat /\ \A c \in Migration!Pairs : ledger[c] \in Nat /\ ledger[c] <= restarts + 1
    BY DEF MigrationInv, MigrationTypesOK
  <1> QED
    BY <1>1, <1>2, <1>3, <1>4 DEF MigrationInv, MigrationTypesOK

LEMMA MigrationStepInvariant ==
  ASSUME Migration!MigrationAssumption, MigrationInv, [Migration!Next]_migrationVars
  PROVE  MigrationInv'
  <1>1. CASE UNCHANGED migrationVars
    BY <1>1 DEF migrationVars, MigrationInv, MigrationTypesOK
  <1> QED
    BY <1>1, MigrateStep, LedgerFailsStep, MigrationRestartStep DEF Migration!Next

\* As long as administrators' calls do not overlap, the launch status never falls back once it
\* is announced, the ledger holds the starting balances of the current genesis only, and no
\* finalized block becomes active again, for any number of genesis records and administrators
\* (genesis/service.py:162-251, 464-601); and a life of the process pays a pair of accounts once,
\* however often its migration is tried again (genesis/migration.py:40-119).
THEOREM LaunchesAreSound == Spec => LaunchIsSound
  <1>1. Init => LaunchInv /\ MigrationInv
    BY LaunchInitInvariant, MigrationInitInvariant DEF Init
  <1>2. LaunchInv /\ MigrationInv /\ [Next]_vars => (LaunchInv /\ MigrationInv)' /\ Launch!Advances
    BY OperationsAssumption, LaunchInvariantStep, MigrationStepInvariant, Steps DEF OperationsAssumption
  <1>3. LaunchInv /\ MigrationInv =>
          Launch!LedgerFollowsGenesis /\ Launch!ActiveBlockIsNew /\ Migration!PaidOncePerLife
    <2>1. ASSUME LaunchInv, "mined" \notin slips
          PROVE  chain.active \notin Launch!Finalized
      <3>1. chain.active \in Nat \cup {None}
        BY <2>1 DEF LaunchInv, LaunchTypesOK
      <3>2. CASE chain.active = None
        BY <2>1, <3>2 DEF LaunchInv, BlocksOrdered
      <3>3. CASE chain.active # None
        <4>1. chain.active \in Nat
          BY <3>1, <3>3
        <4>2. \A n \in Launch!Finalized : n < chain.active
          BY <2>1, <3>3 DEF LaunchInv, BlocksOrdered
        <4>3. ~(chain.active < chain.active)
          BY <4>1
        <4> QED
          BY <4>2, <4>3
      <3> QED
        BY <3>2, <3>3
    <2>2. \A b \in Beta : Migration!Transferred(b) + Migration!LossTax(b) - BetaBalance[b] \in -1 .. 1
      BY OperationsAssumption, TransferIsInt DEF OperationsAssumption
    <2>3. ASSUME MigrationInv, NEW c \in Migration!Pairs
          PROVE  ledger[c] <= restarts + (IF c \in migrated \ failed THEN 1 ELSE 0)
      BY <2>3 DEF MigrationInv, MigrationTypesOK
    <2>4. MigrationInv => Migration!PaidOncePerLife
      BY <2>2, <2>3 DEF MigrationInv, Migration!PaidOncePerLife
    <2> QED
      BY <2>1, <2>4 DEF LaunchInv, Launch!ActiveBlockIsNew
  <1> QED
    BY <1>1, <1>2, <1>3, PTL DEF Spec, LaunchIsSound

-----------------------------------------------------------------------------
(* The cleanup's rate limit: what a window lets through.                   *)

LEMMA RecentIsSum ==
  ASSUME NEW f
  PROVE  Cleanup!Recent(f) = SumFunctionOnSet(f, Cleanup!Ages)
  BY DEF Cleanup!Recent, Cleanup!SumFunctionOnSet, SumFunctionOnSet, Cleanup!FoldFunctionOnSet,
      FoldFunctionOnSet,
         Cleanup!MapThenFoldSet, MapThenFoldSet

LEMMA AgesAreFinite ==
  ASSUME Cleanup!MaintenanceAssumption
  PROVE  /\ Window \in Nat \ {0} /\ MaxRequests \in Nat \ {0} /\ Cleanup!Lag \in Nat
         /\ Cleanup!Oldest \in Nat /\ Cleanup!Oldest = 2 * Window - 1 + Cleanup!Lag
         /\ Cleanup!Ages = 0 .. Cleanup!Oldest /\ IsFiniteSet(Cleanup!Ages)
         /\ \A lag \in Lags : lag \in Nat /\ lag <= Cleanup!Lag /\ lag \in Cleanup!Ages
  <1>1. Cleanup!Lag \in Lags /\ \A k \in Lags : k <= Cleanup!Lag
    BY DEF Cleanup!MaintenanceAssumption, Cleanup!Lag
  <1>2. Window \in Nat \ {0} /\ MaxRequests \in Nat \ {0} /\ Lags \subseteq Nat
    BY DEF Cleanup!MaintenanceAssumption
  <1>3. Cleanup!Oldest \in Nat /\ Cleanup!Oldest = 2 * Window - 1 + Cleanup!Lag
    BY <1>1, <1>2 DEF Cleanup!Oldest
  <1>4. Cleanup!Ages = 0 .. Cleanup!Oldest /\ IsFiniteSet(Cleanup!Ages)
    BY <1>3, FS_Interval DEF Cleanup!Ages
  <1> QED
    BY <1>1, <1>2, <1>3, <1>4

\* Of requests that grow older, the oldest are lost.
LEMMA OlderLoses ==
  ASSUME Cleanup!MaintenanceAssumption, NEW f \in [Cleanup!Ages -> Nat]
  PROVE  /\ Cleanup!Older(f) \in [Cleanup!Ages -> Nat]
         /\ Cleanup!Recent(Cleanup!Older(f)) = Cleanup!Recent(f) - f[Cleanup!Oldest]
         /\ Cleanup!Recent(f) \in Nat /\ f[Cleanup!Oldest] \in Nat
  <1>0. PICK A, h, w : A = Cleanup!Ages /\ h = Cleanup!Older(f) /\ w = Cleanup!Oldest + 1
    OBVIOUS
  <1> DEFINE First(n) == 0 .. n - 1
             T == {s \in SUBSET A : \A n \in 1 .. w : s = First(n) =>
                     SumFunctionOnSet(h, s) = SumFunctionOnSet(f, s) - f[n - 1]}
  <1>1. IsFiniteSet(A) /\ A = 0 .. w - 1 /\ w \in Nat \ {0}
    BY <1>0, AgesAreFinite
  <1>2. \A a \in A : f[a] \in Nat
    BY <1>0
  <1>3. h \in [A -> Nat] /\ \A a \in A : h[a] = IF a = 0 THEN 0 ELSE f[a - 1]
    <2>1. \A a \in A : a # 0 => a - 1 \in A
      BY <1>1
    <2> QED
      BY <1>0, <1>2, <2>1 DEF Cleanup!Older
  <1>4. ASSUME NEW s \in SUBSET A, \A r \in SUBSET s : r # s => r \in T
        PROVE  s \in T
    <2> SUFFICES ASSUME NEW n \in 1 .. w, s = First(n)
                 PROVE  SumFunctionOnSet(h, s) = SumFunctionOnSet(f, s) - f[n - 1]
      OBVIOUS
    <2>1. PICK m \in Nat : m = n - 1 /\ m \in s /\ s \ {m} = First(m) /\ m \in A
      BY <1>1
    <2>2. IsFiniteSet(s) /\ IsFiniteSet(s \ {m})
      BY <1>1, FS_Subset
    <2>3. /\ SumFunctionOnSet(h, s) = h[m] + SumFunctionOnSet(h, s \ {m})
          /\ SumFunctionOnSet(f, s) = f[m] + SumFunctionOnSet(f, s \ {m})
      <3>1. m \in s /\ IsFiniteSet(s)
        BY <2>1, <2>2
      <3>4. \A x \in s : f[x] \in Int
        BY <1>2
      <3>5. \A x \in s : h[x] \in Int
        BY <1>3
      <3>2. SumFunctionOnSet(h, s) = h[m] + SumFunctionOnSet(h, s \ {m})
        BY <3>1, <3>5, SumRemove
      <3>3. SumFunctionOnSet(f, s) = f[m] + SumFunctionOnSet(f, s \ {m})
        BY <3>1, <3>4, SumRemove
      <3> QED
        BY <3>2, <3>3
    <2>4. SumFunctionOnSet(h, s \ {m}) \in Nat /\ SumFunctionOnSet(f, s \ {m}) \in Nat /\ f[m] \in Nat
      <3>1. \A x \in s \ {m} : f[x] \in Nat /\ h[x] \in Nat
        BY <1>2, <1>3
      <3> QED
        BY <1>2, <2>1, <2>2, <3>1, SumNat
    <2>5. CASE m = 0
      <3>1. s \ {m} = {} /\ h[m] = 0
        BY <1>3, <2>1, <2>5
      <3>2. SumFunctionOnSet(h, s \ {m}) = 0 /\ SumFunctionOnSet(f, s \ {m}) = 0
        BY <3>1, SumEmpty
      <3> QED
        BY <2>1, <2>3, <2>4, <3>1, <3>2
    <2>6. CASE m # 0
      <3>1. s \ {m} \in SUBSET s /\ s \ {m} # s
        BY <2>1
      <3>2. s \ {m} \in T
        <4> HIDE DEF T
        <4> QED
          BY <1>4, <3>1
      <3>3. m \in 1 .. w
        BY <1>1, <2>1, <2>6
      <3>4. SumFunctionOnSet(h, s \ {m}) = SumFunctionOnSet(f, s \ {m}) - f[m - 1]
        BY <2>1, <3>2, <3>3
      <3>5. h[m] = f[m - 1] /\ h[m] \in Nat
        BY <1>3, <2>1, <2>6
      <3> HIDE DEF T
      <3> QED
        BY <2>1, <2>3, <2>4, <3>4, <3>5
    <2> QED
      BY <2>5, <2>6
  <1> HIDE DEF T
  <1>5. \A s \in SUBSET A : s \in T
    <2>1. IsFiniteSet(A)
      BY <1>1
    <2> QED
      BY <2>1, <1>4, SubsetInduction
  <1> USE DEF T
  <1>6. A = First(w) /\ w \in 1 .. w /\ w - 1 \in A /\ w - 1 = Cleanup!Oldest
    BY <1>0, <1>1, AgesAreFinite
  <1>7. SumFunctionOnSet(h, A) = SumFunctionOnSet(f, A) - f[w - 1]
    BY <1>5, <1>6
  <1>8. SumFunctionOnSet(f, A) \in Nat /\ f[w - 1] \in Nat
    BY <1>1, <1>2, <1>6, SumNat
  <1> QED
    BY <1>0, <1>3, <1>6, <1>7, <1>8, RecentIsSum

\* A request let through is one more of those it is counted with.
LEMMA GrantIsOneMore ==
  ASSUME Cleanup!MaintenanceAssumption, NEW f \in [Cleanup!Ages -> Nat], NEW k \in Cleanup!Ages,
         NEW g, g = [f EXCEPT ![k] = f[k] + 1]
  PROVE  /\ g \in [Cleanup!Ages -> Nat]
         /\ Cleanup!Recent(g) = Cleanup!Recent(f) + 1
         /\ Cleanup!Recent(f) \in Nat
  <1>1. PICK A : A = Cleanup!Ages /\ IsFiniteSet(A)
    BY AgesAreFinite
  <1>2. \A a \in A : f[a] \in Nat
    BY <1>1
  <1>3. g \in [A -> Nat] /\ g[k] = f[k] + 1 /\ (\A a \in A \ {k} : g[a] = f[a]) /\ k \in A
    BY <1>1, <1>2
  <1>4. SumFunctionOnSet(g, A) = SumFunctionOnSet(f, A) + (g[k] - f[k])
    <2>1. (\A a \in A : f[a] \in Int /\ g[a] \in Int) /\ \A a \in A \ {k} : g[a] = f[a]
      BY <1>2, <1>3
    <2>2. \A p, q : (\A y \in A : p[y] \in Int /\ q[y] \in Int) /\ (\A y \in A \ {k} : q[y] = p[y])
                    => SumFunctionOnSet(q, A) = SumFunctionOnSet(p, A) + (q[k] - p[k])
      <3>1. IsFiniteSet(A) /\ k \in A
        BY <1>1, <1>3
      <3> QED
        BY <3>1, SumUpdate
    <2> QED
      BY <2>1, <2>2
  <1>5. SumFunctionOnSet(f, A) \in Nat /\ f[k] \in Nat
    BY <1>1, <1>2, <1>3, SumNat
  <1>6. SumFunctionOnSet(g, A) = SumFunctionOnSet(f, A) + 1
    BY <1>3, <1>4, <1>5
  <1> QED
    BY <1>1, <1>3, <1>5, <1>6, RecentIsSum

\* Fewer of each age are fewer in all.
LEMMA FewerAreFewer ==
  ASSUME Cleanup!MaintenanceAssumption, NEW f \in [Cleanup!Ages -> Nat], NEW g \in [Cleanup!Ages -> Nat],
         \A a \in Cleanup!Ages : f[a] <= g[a]
  PROVE  Cleanup!Recent(f) <= Cleanup!Recent(g) /\ Cleanup!Recent(f) \in Nat /\ Cleanup!Recent(g) \in Nat
  <1>1. PICK A : A = Cleanup!Ages /\ IsFiniteSet(A)
    BY AgesAreFinite
  <1>2. \A a \in A : f[a] \in Nat /\ g[a] \in Nat /\ f[a] <= g[a]
    BY <1>1
  <1>3. SumFunctionOnSet(f, A) <= SumFunctionOnSet(g, A)
    <2>1. \A a \in A : f[a] \in Int /\ g[a] \in Int /\ f[a] <= g[a]
      BY <1>2
    <2> QED
      BY <1>1, <2>1, SumBound
  <1>4. SumFunctionOnSet(f, A) \in Nat /\ SumFunctionOnSet(g, A) \in Nat
    BY <1>1, <1>2, SumNat
  <1> QED
    BY <1>1, <1>3, <1>4, RecentIsSum

\* What a function counts below an age.
Upto(f, n) == Cleanup!Recent(Cleanup!Latest(f, n))

LEMMA UptoBasics ==
  ASSUME Cleanup!MaintenanceAssumption, NEW f \in [Cleanup!Ages -> Nat], NEW n \in Int
  PROVE  /\ Cleanup!Latest(f, n) \in [Cleanup!Ages -> Nat]
         /\ Upto(f, n) \in Nat /\ Cleanup!Recent(f) \in Nat /\ Upto(f, n) <= Cleanup!Recent(f)
         /\ n <= 0 => Upto(f, n) = 0
  <1>1. Cleanup!Latest(f, n) \in [Cleanup!Ages -> Nat]
    BY DEF Cleanup!Latest
  <1>2. \A a \in Cleanup!Ages : a \in Nat /\ Cleanup!Latest(f, n)[a] <= f[a]
    BY AgesAreFinite DEF Cleanup!Latest
  <1>3. ASSUME n <= 0
        PROVE  Upto(f, n) = 0
    <2>1. \A a \in Cleanup!Ages : Cleanup!Latest(f, n)[a] = 0
      BY <1>2, <1>3 DEF Cleanup!Latest
    <2> QED
      BY <2>1, AgesAreFinite, RecentIsSum, SumZero DEF Upto
  <1> QED
    BY <1>1, <1>2, <1>3, FewerAreFewer DEF Upto

LEMMA UptoGrows ==
  ASSUME Cleanup!MaintenanceAssumption, NEW f \in [Cleanup!Ages -> Nat], NEW m \in Int, NEW n \in Int, m <= n
  PROVE  Upto(f, m) <= Upto(f, n)
  <1>1. Cleanup!Latest(f, m) \in [Cleanup!Ages -> Nat] /\ Cleanup!Latest(f, n) \in [Cleanup!Ages -> Nat]
    BY UptoBasics
  <1>2. \A a \in Cleanup!Ages : Cleanup!Latest(f, m)[a] <= Cleanup!Latest(f, n)[a]
    BY AgesAreFinite DEF Cleanup!Latest
  <1> QED
    BY <1>1, <1>2, FewerAreFewer DEF Upto

\* One more request of age k counts below the ages beyond k.
LEMMA UptoGrant ==
  ASSUME Cleanup!MaintenanceAssumption, NEW f \in [Cleanup!Ages -> Nat], NEW k \in Cleanup!Ages, NEW n \in Int,
         NEW g, g = [f EXCEPT ![k] = f[k] + 1]
  PROVE  Upto(g, n) = IF k < n THEN Upto(f, n) + 1 ELSE Upto(f, n)
  <1>1. PICK w \in [Cleanup!Ages -> Nat] : w = Cleanup!Latest(f, n)
    BY UptoBasics
  <1>2. CASE k < n
    <2>1. Cleanup!Latest(g, n) = [w EXCEPT ![k] = w[k] + 1]
      BY <1>1, <1>2, AgesAreFinite DEF Cleanup!Latest
    <2> QED
      BY <1>1, <1>2, <2>1, GrantIsOneMore DEF Upto
  <1>3. CASE ~(k < n)
    <2>1. Cleanup!Latest(g, n) = Cleanup!Latest(f, n)
      BY <1>3, AgesAreFinite DEF Cleanup!Latest
    <2> QED
      BY <1>3, <2>1 DEF Upto
  <1> QED
    BY <1>2, <1>3

\* Half a second later the ages below n are those below n + 1; none is lost but the oldest.
LEMMA UptoLater ==
  ASSUME Cleanup!MaintenanceAssumption, NEW f \in [Cleanup!Ages -> Nat], NEW n \in Int
  PROVE  /\ Upto(Cleanup!Older(f), n + 1) <= Upto(f, n)
         /\ n <= Cleanup!Oldest => Upto(Cleanup!Older(f), n + 1) = Upto(f, n)
         /\ Cleanup!Older(f) \in [Cleanup!Ages -> Nat]
         /\ Cleanup!Recent(Cleanup!Older(f)) <= Cleanup!Recent(f)
  <1>1. PICK w \in [Cleanup!Ages -> Nat] : w = Cleanup!Latest(f, n)
    BY UptoBasics
  <1>2. Cleanup!Latest(Cleanup!Older(f), n + 1) = Cleanup!Older(w)
    <2>1. ASSUME NEW a \in Cleanup!Ages
          PROVE  (IF a < n + 1 THEN Cleanup!Older(f)[a] ELSE 0) = IF a = 0 THEN 0 ELSE w[a - 1]
      <3>1. Cleanup!Older(f)[a] = IF a = 0 THEN 0 ELSE f[a - 1]
        BY DEF Cleanup!Older
      <3>2. CASE a = 0
        BY <3>1, <3>2
      <3>3. CASE a # 0
        <4>1. a - 1 \in Cleanup!Ages /\ a \in Nat
          BY <3>3, AgesAreFinite
        <4>2. w[a - 1] = IF a - 1 < n THEN f[a - 1] ELSE 0
          BY <1>1, <4>1 DEF Cleanup!Latest
        <4>3. a < n + 1 <=> a - 1 < n
          BY <4>1
        <4> QED
          BY <3>1, <3>3, <4>2, <4>3
      <3> QED
        BY <3>2, <3>3
    <2> QED
      BY <2>1 DEF Cleanup!Latest, Cleanup!Older
  <1>3. /\ Upto(Cleanup!Older(f), n + 1) = Upto(f, n) - w[Cleanup!Oldest]
        /\ w[Cleanup!Oldest] \in Nat /\ Upto(f, n) \in Nat
    BY <1>1, <1>2, OlderLoses DEF Upto
  <1>4. n <= Cleanup!Oldest => w[Cleanup!Oldest] = 0
    BY <1>1, AgesAreFinite DEF Cleanup!Latest
  <1>5. /\ Cleanup!Older(f) \in [Cleanup!Ages -> Nat]
        /\ Cleanup!Recent(Cleanup!Older(f)) <= Cleanup!Recent(f)
    BY OlderLoses
  <1> QED
    BY <1>3, <1>4, <1>5

CleanupTypesOK ==
  /\ granted \in [Cleanup!Ages -> Nat] /\ stamps \in [Cleanup!Ages -> Nat]
  /\ limiter \in [age : 0 .. Cleanup!Oldest, count : 0 .. MaxRequests]

\* The least time between the openings of two windows.
Span == 2 * Window - 1 - Cleanup!Lag

\* r half seconds ago a call opened the window of the row, whose clock was behind by the longest
\* wait at most.  It and what was let through after it are counted; of the window before, whose
\* first call is older still, the limit less one may be within the span.
OpenedAgo(r) ==
  /\ limiter.age <= r + Cleanup!Lag
  /\ Upto(granted, r) + 1 <= limiter.count
  /\ Upto(granted, r + Span) <= MaxRequests - 1 + limiter.count

Unopened == limiter.age = Cleanup!Oldest /\ \A a \in Cleanup!Ages : granted[a] = 0

\* A stamp is no older than what it let through by more than the longest wait, and none that is
\* younger than the window is dropped.
StampsCover ==
  /\ Cleanup!Recent(stamps) <= MaxRequests
  /\ \A n \in Nat : n + Cleanup!Lag <= 2 * Window => Upto(granted, n) <= Upto(stamps, n + Cleanup!Lag)

CleanupInv ==
  /\ CleanupTypesOK
  /\ persisted => Unopened \/ \E r \in Nat : OpenedAgo(r)
  /\ ~persisted => StampsCover

LEMMA NoneIsNone ==
  ASSUME Cleanup!MaintenanceAssumption, NEW f \in [Cleanup!Ages -> Nat], \A a \in Cleanup!Ages : f[a] = 0,
         NEW n \in Int
  PROVE  Upto(f, n) = 0 /\ Cleanup!Recent(f) = 0
  <1>1. Cleanup!Recent(f) = 0
    BY AgesAreFinite, RecentIsSum, SumZero
  <1> QED
    BY <1>1, UptoBasics

LEMMA CleanupInitInvariant ==
  ASSUME Cleanup!MaintenanceAssumption, Cleanup!Init
  PROVE  CleanupInv
  <1>1. granted = Cleanup!NoStamps /\ stamps = Cleanup!NoStamps /\ limiter = [age |-> Cleanup!Oldest, count |-> 0]
    BY DEF Cleanup!Init
  <1>2. CleanupTypesOK
    BY <1>1, AgesAreFinite DEF CleanupTypesOK, Cleanup!NoStamps
  <1>3. \A a \in Cleanup!Ages : granted[a] = 0 /\ stamps[a] = 0
    BY <1>1 DEF Cleanup!NoStamps
  <1>4. Unopened
    BY <1>1, <1>3 DEF Unopened
  <1>5. StampsCover
    <2>1. Cleanup!Recent(stamps) = 0 /\ \A n \in Int : Upto(granted, n) = 0 /\ Upto(stamps, n) = 0
      BY <1>2, <1>3, NoneIsNone DEF CleanupTypesOK
    <2> QED
      BY <2>1, AgesAreFinite DEF StampsCover
  <1> QED
    BY <1>2, <1>4, <1>5 DEF CleanupInv

LEMMA PersistedGrantStep ==
  ASSUME Cleanup!MaintenanceAssumption, CleanupInv, persisted, NEW lag \in Lags, Cleanup!PersistedGrant(lag),
         granted' = [granted EXCEPT ![0] = granted[0] + 1]
  PROVE  CleanupTypesOK' /\ \E r \in Nat : OpenedAgo(r)'
  <1>1. granted \in [Cleanup!Ages -> Nat] /\ stamps \in [Cleanup!Ages -> Nat]
        /\ limiter \in [age : 0 .. Cleanup!Oldest, count : 0 .. MaxRequests] /\ MaxRequests \in Nat \ {0}
        /\ lag \in 0 .. Cleanup!Oldest /\ lag <= Cleanup!Lag /\ lag \in Nat /\ Cleanup!Lag \in Nat
        /\ Window \in Nat /\ 0 \in Cleanup!Ages /\ Cleanup!Oldest \in Nat
    <2>1. /\ MaxRequests \in Nat \ {0} /\ Cleanup!Lag \in Nat /\ Window \in Nat /\ Cleanup!Oldest \in Nat
          /\ Cleanup!Ages = 0 .. Cleanup!Oldest /\ lag \in Cleanup!Ages /\ lag \in Nat /\ lag <= Cleanup!Lag
      BY AgesAreFinite
    <2>2. 0 \in Cleanup!Ages /\ lag \in 0 .. Cleanup!Oldest
      BY <2>1
    <2>3. granted \in [Cleanup!Ages -> Nat] /\ stamps \in [Cleanup!Ages -> Nat]
          /\ limiter \in [age : 0 .. Cleanup!Oldest, count : 0 .. MaxRequests]
      BY DEF CleanupInv, CleanupTypesOK
    <2> QED
      BY <2>1, <2>2, <2>3
  <1>2. granted' \in [Cleanup!Ages -> Nat]
    BY <1>1, GrantIsOneMore
  <1>3. \A n \in Int : /\ Upto(granted', n) = IF 0 < n THEN Upto(granted, n) + 1 ELSE Upto(granted, n)
                       /\ Upto(granted, n) \in Nat
    <2> SUFFICES ASSUME NEW n \in Int
                 PROVE  /\ Upto(granted', n) = IF 0 < n THEN Upto(granted, n) + 1 ELSE Upto(granted, n)
                        /\ Upto(granted, n) \in Nat
      OBVIOUS
    <2>1. Upto(granted', n) = IF 0 < n THEN Upto(granted, n) + 1 ELSE Upto(granted, n)
      BY <1>1, UptoGrant
    <2>2. Upto(granted, n) \in Nat
      BY <1>1, UptoBasics
    <2> QED
      BY <2>1, <2>2
  <1>4. Span \in Int /\ Span = 2 * Window - 1 - Cleanup!Lag /\ Cleanup!Oldest = 2 * Window - 1 + Cleanup!Lag
    BY <1>1, AgesAreFinite DEF Span
  <1>5. UNCHANGED stamps
    BY DEF Cleanup!PersistedGrant
  <1>8. \A n \in Int : /\ Upto(granted', n) <= Upto(granted, n) + 1
                       /\ Upto(granted', n) \in Int /\ Upto(granted, n) \in Nat
    <2> SUFFICES ASSUME NEW n \in Int
                 PROVE  /\ Upto(granted', n) <= Upto(granted, n) + 1
                        /\ Upto(granted', n) \in Int /\ Upto(granted, n) \in Nat
      OBVIOUS
    <2>1. PICK x \in Nat : x = Upto(granted, n)
      BY <1>3
    <2>2. Upto(granted', n) = x + 1 \/ Upto(granted', n) = x
      BY <1>3, <2>1
    <2> QED
      BY <2>1, <2>2
  <1>6. CASE Cleanup!WindowOver(lag)
    <2>1. limiter' = [age |-> lag, count |-> 1]
      BY <1>6 DEF Cleanup!PersistedGrant
    <2>2. CleanupTypesOK'
      BY <1>1, <1>2, <1>5, <2>1 DEF CleanupTypesOK
    <2>3. Upto(granted, Span) <= MaxRequests - 1
      <3>1. CASE Unopened
        BY <1>1, <1>4, <3>1, NoneIsNone DEF Unopened
      <3>2. ASSUME NEW r \in Nat, OpenedAgo(r)
            PROVE  Upto(granted, Span) <= MaxRequests - 1
        <4>1. limiter.age - lag >= 2 * Window - 1
          BY <1>1, <1>6 DEF Cleanup!WindowOver
        <4>2. Span <= r
          BY <1>1, <1>4, <3>2, <4>1 DEF OpenedAgo
        <4>3. Upto(granted, Span) <= Upto(granted, r)
          BY <1>1, <1>4, <4>2, UptoGrows
        <4> QED
          BY <1>1, <1>3, <1>4, <3>2, <4>3 DEF OpenedAgo
      <3> QED
        BY <3>1, <3>2 DEF CleanupInv
    <2>4. Upto(granted', 0) = 0 /\ Upto(granted', 0 + Span) <= MaxRequests
      <3>1. Upto(granted, 0) = 0 /\ 0 \in Int
        <4>1. \A n \in Int : n <= 0 => Upto(granted, n) = 0
          BY <1>1, UptoBasics
        <4> QED
          BY <4>1
      <3>2. Upto(granted', 0) = 0
        <4>1. PICK z \in Int : z = 0 /\ z <= 0
          OBVIOUS
        <4>2. Upto(granted', z) = 0
          BY <1>2, <4>1, UptoBasics
        <4> QED
          BY <4>1, <4>2
      <3>3. Upto(granted', Span) <= Upto(granted, Span) + 1 /\ Upto(granted', Span) \in Int
        BY <1>4, <1>8
      <3>4. Upto(granted, Span) \in Nat /\ 0 + Span = Span
        BY <1>3, <1>4
      <3> QED
        BY <1>1, <2>3, <3>2, <3>3, <3>4
    <2>5. OpenedAgo(0)'
      BY <1>1, <1>4, <2>1, <2>4 DEF OpenedAgo, Span
    <2> QED
      BY <2>2, <2>5
  <1>7. CASE ~Cleanup!WindowOver(lag)
    <2>1. limiter' = [limiter EXCEPT !.count = limiter.count + 1] /\ limiter.count < MaxRequests
      BY <1>7 DEF Cleanup!PersistedGrant
    <2>2. limiter'.age = limiter.age /\ limiter'.count = limiter.count + 1
          /\ limiter' \in [age : 0 .. Cleanup!Oldest, count : 0 .. MaxRequests]
      BY <1>1, <2>1
    <2>3. CleanupTypesOK'
      BY <1>1, <1>2, <1>5, <2>2 DEF CleanupTypesOK
    <2>4. limiter.age < 2 * Window - 1 + lag
      BY <1>1, <1>7 DEF Cleanup!WindowOver
    <2>5. ~Unopened
      BY <1>1, <1>4, <2>4 DEF Unopened
    <2>6. PICK r \in Nat : OpenedAgo(r)
      BY <2>5 DEF CleanupInv
    <2>7. r \in Int /\ r + Span \in Int
      BY <1>4
    <2>8. /\ Upto(granted', r) <= Upto(granted, r) + 1 /\ Upto(granted', r + Span) <= Upto(granted, r + Span) + 1
          /\ Upto(granted, r) \in Nat /\ Upto(granted, r + Span) \in Nat
          /\ Upto(granted', r) \in Int /\ Upto(granted', r + Span) \in Int
      BY <1>8, <2>7
    <2>9. OpenedAgo(r)'
      BY <1>1, <1>4, <2>2, <2>6, <2>7, <2>8 DEF OpenedAgo, Span
    <2> QED
      BY <2>3, <2>9
  <1> QED
    BY <1>6, <1>7

\* A caller drops the stamps it takes for older than the window.
LEMMA UnexpiredKeeps ==
  ASSUME Cleanup!MaintenanceAssumption, CleanupInv, ~persisted, NEW lag \in Lags
  PROVE  /\ Cleanup!Unexpired(lag) \in [Cleanup!Ages -> Nat]
         /\ Cleanup!Recent(Cleanup!Unexpired(lag)) <= MaxRequests
         /\ \A n \in Nat : n + Cleanup!Lag <= 2 * Window =>
              Upto(granted, n) <= Upto(Cleanup!Unexpired(lag), n + Cleanup!Lag)
  <1>1. /\ stamps \in [Cleanup!Ages -> Nat] /\ Cleanup!Recent(stamps) <= MaxRequests /\ MaxRequests \in Nat
        /\ lag \in Nat /\ Cleanup!Lag \in Nat /\ Window \in Nat /\ Cleanup!Ages = 0 .. Cleanup!Oldest
        /\ Cleanup!Oldest \in Nat
    BY AgesAreFinite DEF CleanupInv, CleanupTypesOK, StampsCover
  <1>2. Cleanup!Unexpired(lag) \in [Cleanup!Ages -> Nat]
    BY <1>1 DEF Cleanup!Unexpired
  <1>3. \A a \in Cleanup!Ages : Cleanup!Unexpired(lag)[a] <= stamps[a]
    BY <1>1 DEF Cleanup!Unexpired
  <1>4. Cleanup!Recent(Cleanup!Unexpired(lag)) <= MaxRequests
    <2>1. /\ Cleanup!Recent(Cleanup!Unexpired(lag)) <= Cleanup!Recent(stamps)
          /\ Cleanup!Recent(Cleanup!Unexpired(lag)) \in Nat /\ Cleanup!Recent(stamps) \in Nat
      <3>1. PICK u \in [Cleanup!Ages -> Nat] : u = Cleanup!Unexpired(lag)
        BY <1>2
      <3>2. \A a \in Cleanup!Ages : u[a] <= stamps[a]
        BY <1>3, <3>1
      <3>3. Cleanup!Recent(u) <= Cleanup!Recent(stamps) /\ Cleanup!Recent(u) \in Nat /\ Cleanup!Recent(stamps) \in Nat
        BY <1>1, <3>2, FewerAreFewer
      <3> QED
        BY <3>1, <3>3
    <2> QED
      BY <1>1, <2>1
  <1>5. ASSUME NEW n \in Nat, n + Cleanup!Lag <= 2 * Window
        PROVE  Upto(granted, n) <= Upto(Cleanup!Unexpired(lag), n + Cleanup!Lag)
    <2>1. \A a \in Cleanup!Ages : a < n + Cleanup!Lag => Cleanup!Unexpired(lag)[a] = stamps[a]
      BY <1>1, <1>5 DEF Cleanup!Unexpired
    <2>2. Cleanup!Latest(Cleanup!Unexpired(lag), n + Cleanup!Lag) = Cleanup!Latest(stamps, n + Cleanup!Lag)
      BY <2>1 DEF Cleanup!Latest
    <2> QED
      BY <1>5, <2>2 DEF Upto, CleanupInv, StampsCover
  <1> QED
    BY <1>2, <1>4, <1>5

LEMMA MemoryGrantStep ==
  ASSUME Cleanup!MaintenanceAssumption, CleanupInv, ~persisted, NEW lag \in Lags, Cleanup!MemoryGrant(lag),
         granted' = [granted EXCEPT ![0] = granted[0] + 1]
  PROVE  CleanupTypesOK' /\ StampsCover'
  <1>1. PICK u \in [Cleanup!Ages -> Nat] : u = Cleanup!Unexpired(lag)
    BY UnexpiredKeeps
  <1>2. /\ granted \in [Cleanup!Ages -> Nat] /\ lag \in Cleanup!Ages /\ 0 \in Cleanup!Ages
        /\ lag \in Nat /\ lag <= Cleanup!Lag /\ Cleanup!Lag \in Nat /\ MaxRequests \in Nat /\ Window \in Nat
    <2>1. /\ MaxRequests \in Nat /\ Cleanup!Lag \in Nat /\ Window \in Nat /\ Cleanup!Oldest \in Nat
          /\ Cleanup!Ages = 0 .. Cleanup!Oldest /\ lag \in Cleanup!Ages /\ lag \in Nat /\ lag <= Cleanup!Lag
      BY AgesAreFinite
    <2>2. 0 \in Cleanup!Ages
      BY <2>1
    <2>3. granted \in [Cleanup!Ages -> Nat]
      BY DEF CleanupInv, CleanupTypesOK
    <2> QED
      BY <2>1, <2>2, <2>3
  <1>3. stamps' = [u EXCEPT ![lag] = u[lag] + 1] /\ Cleanup!Recent(u) < MaxRequests /\ UNCHANGED limiter
    BY <1>1 DEF Cleanup!MemoryGrant
  <1>4. granted' \in [Cleanup!Ages -> Nat] /\ stamps' \in [Cleanup!Ages -> Nat]
        /\ Cleanup!Recent(stamps') = Cleanup!Recent(u) + 1 /\ Cleanup!Recent(u) \in Nat
    BY <1>2, <1>3, GrantIsOneMore
  <1>5. ASSUME NEW n \in Nat, n + Cleanup!Lag <= 2 * Window
        PROVE  Upto(granted', n) <= Upto(stamps', n + Cleanup!Lag)
    <2>1. Upto(granted, n) <= Upto(u, n + Cleanup!Lag)
      BY <1>1, <1>5, UnexpiredKeeps
    <2>2. n \in Int /\ n + Cleanup!Lag \in Int
      BY <1>2
    <2>3. Upto(granted', n) = IF 0 < n THEN Upto(granted, n) + 1 ELSE Upto(granted, n)
      BY <1>2, <2>2, UptoGrant
    <2>4. Upto(stamps', n + Cleanup!Lag) = IF lag < n + Cleanup!Lag THEN Upto(u, n + Cleanup!Lag) + 1
                                                                    ELSE Upto(u, n + Cleanup!Lag)
      <3>1. PICK k \in Int : k = n + Cleanup!Lag
        BY <2>2
      <3>2. Upto(stamps', k) = IF lag < k THEN Upto(u, k) + 1 ELSE Upto(u, k)
        BY <1>2, <1>3, UptoGrant
      <3> QED
        BY <3>1, <3>2
    <2>5. Upto(granted, n) \in Nat /\ Upto(u, n + Cleanup!Lag) \in Nat
      BY <1>2, <2>2, UptoBasics
    <2>6. 0 < n => lag < n + Cleanup!Lag
      BY <1>2
    <2> QED
      BY <2>1, <2>3, <2>4, <2>5, <2>6
  <1>6. Cleanup!Recent(stamps') <= MaxRequests
    BY <1>2, <1>3, <1>4
  <1>7. CleanupTypesOK'
    BY <1>3, <1>4 DEF CleanupInv, CleanupTypesOK
  <1> QED
    BY <1>5, <1>6, <1>7 DEF StampsCover

LEMMA RequestStep ==
  ASSUME Cleanup!MaintenanceAssumption, CleanupInv, NEW lag \in Lags, UNCHANGED persisted,
         Cleanup!LetThrough(lag) \/ Cleanup!Refused(lag)
  PROVE  CleanupInv'
  <1>1. CASE Cleanup!LetThrough(lag)
    BY <1>1, PersistedGrantStep, MemoryGrantStep DEF Cleanup!LetThrough, CleanupInv
  <1>2. CASE Cleanup!Refused(lag)
    <2>1. CASE persisted
      BY <1>2, <2>1 DEF Cleanup!Refused, CleanupInv, CleanupTypesOK, Unopened, OpenedAgo, Upto,
          Cleanup!Recent,
         Cleanup!Latest
    <2>2. CASE ~persisted
      <3>1. stamps' = Cleanup!Unexpired(lag) /\ UNCHANGED <<limiter, granted>>
        BY <1>2, <2>2 DEF Cleanup!Refused
      <3>2. CleanupTypesOK'
        BY <2>2, <3>1, UnexpiredKeeps DEF CleanupInv, CleanupTypesOK
      <3>3. StampsCover'
        <4>1. PICK u : u = Cleanup!Unexpired(lag)
          OBVIOUS
        <4>2. /\ Cleanup!Recent(u) <= MaxRequests
              /\ \A n \in Nat : n + Cleanup!Lag <= 2 * Window => Upto(granted, n) <= Upto(u, n + Cleanup!Lag)
          BY <2>2, <4>1, UnexpiredKeeps
        <4>3. stamps' = u /\ granted' = granted
          BY <3>1, <4>1
        <4> QED
          BY <4>2, <4>3 DEF StampsCover
      <3> QED
        BY <2>2, <3>2, <3>3 DEF CleanupInv
    <2> QED
      BY <2>1, <2>2
  <1> QED
    BY <1>1, <1>2

LEMMA CleanupSecondStep ==
  ASSUME Cleanup!MaintenanceAssumption, CleanupInv, Cleanup!HalfSecond
  PROVE  CleanupInv'
  <1>1. granted \in [Cleanup!Ages -> Nat] /\ stamps \in [Cleanup!Ages -> Nat]
        /\ limiter \in [age : 0 .. Cleanup!Oldest, count : 0 .. MaxRequests] /\ MaxRequests \in Nat \ {0}
        /\ Window \in Nat /\ Cleanup!Lag \in Nat /\ Cleanup!Oldest \in Nat
        /\ Cleanup!Oldest = 2 * Window - 1 + Cleanup!Lag
    BY AgesAreFinite DEF CleanupInv, CleanupTypesOK
  <1>2. PICK n : n = IF limiter.age + 1 < Cleanup!Oldest THEN limiter.age + 1 ELSE Cleanup!Oldest
    OBVIOUS
  <1>3. /\ limiter' = [limiter EXCEPT !.age = n]
        /\ stamps' = Cleanup!Older(stamps) /\ granted' = Cleanup!Older(granted) /\ UNCHANGED persisted
    BY <1>2 DEF Cleanup!HalfSecond, Cleanup!Least
  <1>4. n \in 0 .. Cleanup!Oldest /\ n <= limiter.age + 1 /\ limiter' \in [age : 0 .. Cleanup!Oldest, count : 0 .. MaxRequests]
        /\ limiter'.age = n /\ limiter'.count = limiter.count
    BY <1>1, <1>2, <1>3
  <1>5. granted' \in [Cleanup!Ages -> Nat] /\ stamps' \in [Cleanup!Ages -> Nat]
        /\ Cleanup!Recent(stamps') <= Cleanup!Recent(stamps)
    <2>1. 0 \in Int
      OBVIOUS
    <2> QED
      BY <1>1, <1>3, <2>1, UptoLater
  <1>6. CleanupTypesOK'
    BY <1>4, <1>5 DEF CleanupTypesOK
  <1>7. Unopened => Unopened'
    <2>1. ASSUME Unopened, NEW a \in Cleanup!Ages
          PROVE  granted'[a] = 0
      <3>1. a # 0 => a - 1 \in Cleanup!Ages
        BY AgesAreFinite
      <3> QED
        BY <1>3, <2>1, <3>1 DEF Unopened, Cleanup!Older
    <2>2. Unopened => n = Cleanup!Oldest
      BY <1>1, <1>2 DEF Unopened
    <2> QED
      BY <1>4, <2>1, <2>2 DEF Unopened
  <1>8. ASSUME NEW r \in Nat, OpenedAgo(r)
        PROVE  OpenedAgo(r + 1)'
    <2>1. Span \in Int /\ r \in Int /\ r + Span \in Int
      BY <1>1 DEF Span
    <2>2. Upto(granted', r + 1) <= Upto(granted, r) /\ Upto(granted', (r + Span) + 1) <= Upto(granted, r + Span)
      BY <1>1, <1>3, <2>1, UptoLater
    <2>3. /\ Upto(granted, r) \in Nat /\ Upto(granted, r + Span) \in Nat
          /\ Upto(granted', r + 1) \in Nat /\ Upto(granted', (r + Span) + 1) \in Nat
      <3>1. \A k \in Int : Upto(granted, k) \in Nat
        BY <1>1, UptoBasics
      <3>2. \A k \in Int : Upto(granted', k) \in Nat
        BY <1>5, UptoBasics
      <3>3. r + 1 \in Int /\ (r + Span) + 1 \in Int
        BY <2>1
      <3> QED
        BY <2>1, <3>1, <3>2, <3>3
    <2>4. (r + 1) + Span = (r + Span) + 1
      BY <2>1
    <2>5. Upto(granted', r + 1) + 1 <= limiter'.count /\ Upto(granted', (r + 1) + Span) <= MaxRequests - 1 + limiter'.count
      BY <1>1, <1>4, <1>8, <2>2, <2>3, <2>4 DEF OpenedAgo
    <2>6. limiter'.age <= (r + 1) + Cleanup!Lag
      BY <1>1, <1>4, <1>8 DEF OpenedAgo
    <2> QED
      BY <2>5, <2>6 DEF OpenedAgo, Span
  <1>9. StampsCover => StampsCover'
    <2> SUFFICES ASSUME StampsCover PROVE StampsCover'
      OBVIOUS
    <2>1. Cleanup!Recent(stamps') <= MaxRequests
      <3>1. 0 \in Int
        OBVIOUS
      <3>2. Cleanup!Recent(stamps') \in Nat /\ Cleanup!Recent(stamps) \in Nat
        BY <1>1, <1>5, <3>1, UptoBasics
      <3> QED
        BY <1>1, <1>5, <3>2 DEF StampsCover
    <2>2. ASSUME NEW k \in Nat, k + Cleanup!Lag <= 2 * Window
          PROVE  Upto(granted', k) <= Upto(stamps', k + Cleanup!Lag)
      <3>1. CASE k = 0
        <4>1. k \in Int /\ k + Cleanup!Lag \in Int
          BY <1>1
        <4>2. Upto(granted', k) = 0 /\ Upto(stamps', k + Cleanup!Lag) \in Nat
          BY <1>5, <3>1, <4>1, UptoBasics
        <4> QED
          BY <4>2
      <3>2. CASE k # 0
        <4>1. PICK m \in Nat : k = m + 1
          <5>1. k - 1 \in Nat /\ k = (k - 1) + 1
            BY <3>2
          <5> QED
            BY <5>1
        <4>2. m + Cleanup!Lag <= 2 * Window /\ m + Cleanup!Lag <= Cleanup!Oldest /\ m \in Int
              /\ m + Cleanup!Lag \in Int /\ k + Cleanup!Lag = (m + Cleanup!Lag) + 1
          BY <1>1, <2>2, <4>1
        <4>3. Upto(granted', m + 1) <= Upto(granted, m)
          BY <1>1, <1>3, <4>2, UptoLater
        <4>4. Upto(granted, m) <= Upto(stamps, m + Cleanup!Lag)
          BY <4>2 DEF StampsCover
        <4>5. Upto(stamps', (m + Cleanup!Lag) + 1) = Upto(stamps, m + Cleanup!Lag)
          BY <1>1, <1>3, <4>2, UptoLater
        <4>6. /\ Upto(granted', m + 1) \in Nat /\ Upto(granted, m) \in Nat /\ Upto(stamps, m + Cleanup!Lag) \in Nat
          <5>1. m + 1 \in Int
            OBVIOUS
          <5> QED
            BY <1>1, <1>5, <4>2, <5>1, UptoBasics
        <4> QED
          BY <4>1, <4>2, <4>3, <4>4, <4>5, <4>6
      <3> QED
        BY <3>1, <3>2
    <2> QED
      BY <2>1, <2>2 DEF StampsCover
  <1>10. \A r \in Nat : r + 1 \in Nat
    OBVIOUS
  <1> QED
    BY <1>3, <1>6, <1>7, <1>8, <1>9, <1>10 DEF CleanupInv

LEMMA CleanupStepInvariant ==
  ASSUME Cleanup!MaintenanceAssumption, CleanupInv, [Cleanup!Next]_cleanupVars
  PROVE  CleanupInv'
  <1>1. CASE UNCHANGED <<persisted, limiter, stamps, granted>>
    BY <1>1 DEF CleanupInv, CleanupTypesOK, StampsCover, Unopened, OpenedAgo, Upto,
        Cleanup!Recent, Cleanup!Latest
  <1>2. ASSUME NEW lag \in Lags, Cleanup!OthersCall(lag)
        PROVE  CleanupInv'
    BY <1>2, RequestStep DEF Cleanup!OthersCall
  <1>3. ASSUME NEW e \in 0 .. MaxElapsed, NEW lag \in Lags,
               Cleanup!WorkerSucceeds(e, lag) \/ Cleanup!WorkerFails(e, lag)
        PROVE  CleanupInv'
    BY <1>1, <1>3, RequestStep DEF Cleanup!WorkerSucceeds, Cleanup!WorkerFails
  <1>4. CASE Cleanup!WorkerDies \/ Cleanup!WorkerWakes
    BY <1>1, <1>4 DEF Cleanup!WorkerDies, Cleanup!WorkerWakes
  <1>5. CASE Cleanup!ServerRestarts
    <2>1. /\ stamps' = Cleanup!NoStamps /\ granted' = (IF persisted THEN granted ELSE Cleanup!NoStamps)
          /\ UNCHANGED <<persisted, limiter>>
      BY <1>5 DEF Cleanup!ServerRestarts
    <2>2. Cleanup!NoStamps \in [Cleanup!Ages -> Nat] /\ \A a \in Cleanup!Ages : Cleanup!NoStamps[a] = 0
      BY DEF Cleanup!NoStamps
    <2>3. CleanupTypesOK'
      BY <2>1, <2>2 DEF CleanupInv, CleanupTypesOK
    <2>4. CASE persisted
      <3>1. UNCHANGED <<persisted, limiter, granted>>
        BY <2>1, <2>4
      <3> QED
        BY <2>3, <2>4, <3>1 DEF CleanupInv, Unopened, OpenedAgo, Upto, Cleanup!Recent, Cleanup!Latest
    <2>5. CASE ~persisted
      <3>1. PICK z \in [Cleanup!Ages -> Nat] : z = Cleanup!NoStamps
        BY <2>2
      <3>2. Cleanup!Recent(z) = 0 /\ \A k \in Int : Upto(z, k) = 0
        <4>1. \A k \in Int : Upto(z, k) = 0 /\ Cleanup!Recent(z) = 0
          BY <2>2, <3>1, NoneIsNone
        <4>2. 0 \in Int
          OBVIOUS
        <4> QED
          BY <4>1, <4>2
      <3>3. stamps' = z /\ granted' = z
        BY <2>1, <2>5, <3>1
      <3>4. Cleanup!Lag \in Nat /\ MaxRequests \in Nat
        BY AgesAreFinite
      <3>5. StampsCover'
        BY <3>2, <3>3, <3>4 DEF StampsCover
      <3> QED
        BY <2>1, <2>3, <2>5, <3>5 DEF CleanupInv
    <2> QED
      BY <2>4, <2>5
  <1>6. CASE UNCHANGED cleanupVars
    BY <1>1, <1>6 DEF cleanupVars
  <1> QED
    BY <1>2, <1>3, <1>4, <1>5, <1>6, CleanupSecondStep DEF Cleanup!Next, Cleanup!WorkerCalls

\* However long the window, whatever the limit and however late a call gets its turn: in no stretch
\* that is shorter than the window by half a second and the longest wait are more cleanups let
\* through than two windows take, less one, and none more than the limit itself by a server that
\* counts in memory (api/v1/blockchain.py:263-316, 668-684).
THEOREM RateIsLimited == Spec => []CleanupsAreLimited
  <1>1. Init => CleanupInv
    BY OperationsAssumption, CleanupInitInvariant DEF Init, OperationsAssumption
  <1>2. CleanupInv /\ [Next]_vars => CleanupInv'
    BY OperationsAssumption, CleanupStepInvariant, Steps DEF OperationsAssumption
  <1>3. CleanupInv => CleanupsAreLimited
    <2> SUFFICES ASSUME CleanupInv
                 PROVE  Upto(granted, Span) <= IF persisted THEN 2 * MaxRequests - 1 ELSE MaxRequests
      BY DEF CleanupsAreLimited, Cleanup!CleanupsAreLimited, Upto, Span
    <2>1. /\ Cleanup!MaintenanceAssumption /\ granted \in [Cleanup!Ages -> Nat] /\ stamps \in [Cleanup!Ages -> Nat]
          /\ limiter.count \in 0 .. MaxRequests /\ MaxRequests \in Nat \ {0}
          /\ Window \in Nat /\ Cleanup!Lag \in Nat
      BY OperationsAssumption, AgesAreFinite DEF OperationsAssumption, CleanupInv, CleanupTypesOK
    <2>2. Span \in Int /\ Span = 2 * Window - 1 - Cleanup!Lag
      BY <2>1 DEF Span
    <2>3. CASE persisted
      <3>1. CASE Unopened
        BY <2>1, <2>2, <2>3, <3>1, NoneIsNone DEF Unopened
      <3>2. ASSUME NEW r \in Nat, OpenedAgo(r)
            PROVE  Upto(granted, Span) <= 2 * MaxRequests - 1
        <4>1. r + Span \in Int /\ Span <= r + Span
          BY <2>2
        <4>2. Upto(granted, Span) <= Upto(granted, r + Span)
          BY <2>1, <2>2, <4>1, UptoGrows
        <4>3. Upto(granted, Span) \in Nat /\ Upto(granted, r + Span) \in Nat
          BY <2>1, <2>2, <4>1, UptoBasics
        <4> QED
          BY <2>1, <3>2, <4>2, <4>3 DEF OpenedAgo
      <3> QED
        BY <2>3, <3>1, <3>2 DEF CleanupInv
    <2>4. CASE ~persisted
      <3>1. CASE Span <= 0
        <4>1. Upto(granted, Span) = 0
          BY <2>1, <2>2, <3>1, UptoBasics
        <4> QED
          BY <2>1, <2>4, <4>1
      <3>2. CASE Span > 0
        <4>1. PICK n \in Nat : n = Span
          BY <2>2, <3>2
        <4>2. n + Cleanup!Lag <= 2 * Window /\ n + Cleanup!Lag \in Int /\ n \in Int
          BY <2>1, <2>2, <4>1
        <4>3. Upto(granted, n) <= Upto(stamps, n + Cleanup!Lag) /\ Cleanup!Recent(stamps) <= MaxRequests
          BY <2>4, <4>2 DEF CleanupInv, StampsCover
        <4>4. /\ Upto(granted, n) \in Nat /\ Upto(stamps, n + Cleanup!Lag) \in Nat /\ Cleanup!Recent(stamps) \in Nat
              /\ Upto(stamps, n + Cleanup!Lag) <= Cleanup!Recent(stamps)
          BY <2>1, <4>2, UptoBasics
        <4> QED
          BY <2>1, <2>4, <4>1, <4>3, <4>4
      <3> QED
        BY <2>2, <3>1, <3>2
    <2> QED
      BY <2>3, <2>4
  <1> QED
    BY <1>1, <1>2, <1>3, PTL DEF Spec


-----------------------------------------------------------------------------
(* The validator's search for cycles.  G is the pack's graph, F the stack, *)
(* V the visited items.                                                    *)

Frame == [node : Items, left : SUBSET Items]

Open(F) == {F[i].node : i \in 1 .. Len(F)}

\* In every set of items of S there is one that depends on none of them.
Acyclic(G, S) == \A C \in SUBSET S : C # {} => \E n \in C : G[n] \cap C = {}

\* The stack holds visited items, each once, and each depends on the next one.
StackOK(G, F, V) ==
  /\ F \in Seq(Frame)
  /\ \A i \in 1 .. Len(F) : F[i].node \in V /\ F[i].left \subseteq G[F[i].node] \cap DOMAIN G
  /\ \A i, j \in 1 .. Len(F) : F[i].node = F[j].node => i = j
  /\ \A i \in 1 .. Len(F) : i < Len(F) => F[i + 1].node \in G[F[i].node]

\* The items that are left depend on each other in no cycle and on no others, and what an item
\* on the stack depends on is to be visited yet, is being visited (those in X are next) or is left.
SearchOK(G, F, V, X) ==
  /\ Acyclic(G, V \ Open(F))
  /\ \A n \in V \ Open(F) : G[n] \cap DOMAIN G \subseteq V \ Open(F)
  /\ \A i \in 1 .. Len(F) : \A m \in (G[F[i].node] \cap DOMAIN G) \ F[i].left :
       m \in V \ Open(F) \/ (i < Len(F) /\ m = F[i + 1].node) \/ (i = Len(F) /\ m \in X)

CycleOK(G, c) ==
  /\ Len(c) \in Nat /\ Len(c) >= 2 /\ c[1] = c[Len(c)]
  /\ \A i \in 1 .. Len(c) : c[i] \in DOMAIN G
  /\ \A i \in 1 .. Len(c) - 1 : c[i + 1] \in G[c[i]]

ValidatorInv ==
  /\ \E P \in SUBSET Items : graph \in [P -> SUBSET Items]
  /\ roots \subseteq DOMAIN graph /\ visited \subseteq DOMAIN graph /\ DOMAIN graph \ roots \subseteq visited
  /\ StackOK(graph, frames, visited)
  /\ cycles = {} => SearchOK(graph, frames, visited, {})
  /\ \A c \in cycles : CycleOK(graph, c)

LEMMA LeastIsMember ==
  ASSUME Validator!ItemsAssumption, NEW S \in SUBSET Items, S # {}
  PROVE  Validator!Least(S) \in S
  <1>1. IsFiniteSet(Items) /\ Items \subseteq Int
    BY DEF Validator!ItemsAssumption, Validator!IsFiniteSet, IsFiniteSet
  <1>2. IsFiniteSet(S) /\ S \subseteq Int
    BY <1>1, FS_Subset
  <1>3. \E n \in S : \A m \in S : n <= m
    BY <1>2, LeastExists
  <1> QED
    BY <1>3 DEF Validator!Least

LEMMA FramesOfStack ==
  ASSUME NEW F \in Seq(Frame)
  PROVE  /\ Len(F) \in Nat /\ \A i \in 1 .. Len(F) : F[i] \in Frame /\ F[i].node \in Items
         /\ (F # <<>> <=> Len(F) > 0)
  <1>1. Len(F) \in Nat /\ \A i \in 1 .. Len(F) : F[i] \in Frame
    BY LenProperties, ElementOfSeq
  <1>2. F # <<>> <=> Len(F) > 0
    BY <1>1, EmptySeq, LenProperties
  <1> QED
    BY <1>1, <1>2 DEF Frame

\* A new item on the stack.
LEMMA PushOK ==
  ASSUME NEW G, NEW F, NEW V, NEW n \in Items, n \in DOMAIN G, n \notin V, G[n] \in SUBSET Items,
         StackOK(G, F, V), Len(F) > 0 => n \in G[F[Len(F)].node]
  PROVE  /\ StackOK(G, Append(F, [node |-> n, left |-> G[n] \cap DOMAIN G]), V \cup {n})
         /\ SearchOK(G, F, V, {n}) => SearchOK(G, Append(F, [node |-> n, left |-> G[n] \cap DOMAIN G]), V \cup {n}, {})
  <1>1. PICK f \in Frame : f = [node |-> n, left |-> G[n] \cap DOMAIN G]
    BY DEF Frame
  <1>2. f.node = n /\ f.left = G[n] \cap DOMAIN G
    BY <1>1
  <1>3. F \in Seq(Frame)
    BY DEF StackOK
  <1>4. PICK k \in Nat : k = Len(F)
    BY <1>3, FramesOfStack
  <1>5. PICK H : H = Append(F, f)
    OBVIOUS
  <1>6. /\ H \in Seq(Frame) /\ Len(H) = k + 1 /\ H[k + 1] = f /\ \A i \in 1 .. k : H[i] = F[i]
    BY <1>3, <1>4, <1>5, AppendProperties
  <1>7. \A i \in 1 .. Len(H) : i = k + 1 \/ (i \in 1 .. k /\ H[i] = F[i])
    BY <1>6
  <1>8. Open(H) = Open(F) \cup {n}
    <2>1. \A i \in 1 .. k : i \in 1 .. Len(H)
      BY <1>6
    <2>2. k + 1 \in 1 .. Len(H)
      BY <1>6
    <2> QED
      BY <1>2, <1>4, <1>6, <1>7, <2>1, <2>2 DEF Open
  <1>9. (V \cup {n}) \ Open(H) = V \ Open(F)
    BY <1>8
  <1>10. \A i \in 1 .. k : F[i].node \in V /\ F[i].left \subseteq G[F[i].node] \cap DOMAIN G
    BY <1>4 DEF StackOK
  <1>11. StackOK(G, H, V \cup {n})
    <2>1. \A i \in 1 .. Len(H) : H[i].node \in V \cup {n} /\ H[i].left \subseteq G[H[i].node] \cap DOMAIN G
      BY <1>2, <1>6, <1>7, <1>10
    <2>2. \A i, j \in 1 .. Len(H) : H[i].node = H[j].node => i = j
      <3>1. \A i, j \in 1 .. k : F[i].node = F[j].node => i = j
        BY <1>4 DEF StackOK
      <3> QED
        BY <1>2, <1>6, <1>7, <1>10, <3>1
    <2>3. ASSUME NEW i \in 1 .. Len(H), i < Len(H)
          PROVE  H[i + 1].node \in G[H[i].node]
      <3>1. i \in 1 .. k /\ H[i] = F[i]
        BY <1>6, <2>3
      <3>2. CASE i = k
        BY <1>2, <1>4, <1>6, <3>1, <3>2
      <3>3. CASE i # k
        <4>1. i < k /\ i + 1 \in 1 .. k
          BY <3>1, <3>3
        <4> QED
          BY <1>4, <1>6, <3>1, <4>1 DEF StackOK
      <3> QED
        BY <3>2, <3>3
    <2> QED
      BY <1>6, <2>1, <2>2, <2>3 DEF StackOK
  <1>12. ASSUME SearchOK(G, F, V, {n})
         PROVE  SearchOK(G, H, V \cup {n}, {})
    <2> SUFFICES ASSUME NEW i \in 1 .. Len(H), NEW m \in (G[H[i].node] \cap DOMAIN G) \ H[i].left
                 PROVE  m \in V \ Open(F) \/ (i < Len(H) /\ m = H[i + 1].node)
      BY <1>9, <1>12 DEF SearchOK
    <2>1. CASE i = k + 1
      BY <1>2, <1>6, <2>1
    <2>2. CASE i # k + 1
      <3>1. i \in 1 .. k /\ H[i] = F[i]
        BY <1>7, <2>2
      <3>2. m \in V \ Open(F) \/ (i < k /\ m = F[i + 1].node) \/ (i = k /\ m = n)
        BY <1>4, <1>12, <3>1 DEF SearchOK
      <3>3. CASE i < k /\ m = F[i + 1].node
        <4>1. i + 1 \in 1 .. k /\ i < Len(H)
          BY <1>6, <3>1, <3>3
        <4> QED
          BY <1>6, <3>3, <4>1
      <3>4. CASE i = k /\ m = n
        BY <1>2, <1>6, <3>4
      <3> QED
        BY <3>2, <3>3, <3>4
    <2> QED
      BY <2>1, <2>2
  <1> QED
    BY <1>1, <1>5, <1>11, <1>12

\* An item all of whose dependencies are left is left as well.
LEMMA PopOK ==
  ASSUME NEW G, NEW F, NEW V \in SUBSET DOMAIN G, StackOK(G, F, V), F # <<>>, F[Len(F)].left = {}
  PROVE  /\ StackOK(G, SubSeq(F, 1, Len(F) - 1), V)
         /\ SearchOK(G, F, V, {}) => SearchOK(G, SubSeq(F, 1, Len(F) - 1), V, {})
  <1>1. F \in Seq(Frame)
    BY DEF StackOK
  <1>2. PICK k \in Nat : k = Len(F) - 1 /\ Len(F) = k + 1
    BY <1>1, FramesOfStack
  <1>3. PICK H : H = SubSeq(F, 1, k)
    OBVIOUS
  <1>4. H \in Seq(Frame) /\ Len(H) = k /\ \A i \in 1 .. k : H[i] = F[i]
    <2>1. \A i \in 1 .. k : F[i] \in Frame
      BY <1>1, <1>2, FramesOfStack
    <2>2. /\ SubSeq(F, 1, k) \in Seq(Frame)
          /\ Len(SubSeq(F, 1, k)) = IF 1 <= k THEN k - 1 + 1 ELSE 0
          /\ \A i \in 1 .. k - 1 + 1 : SubSeq(F, 1, k)[i] = F[1 + i - 1]
      BY <2>1, SubSeqProperties
    <2> QED
      BY <1>2, <1>3, <2>2
  <1>5. PICK t : t = F[k + 1].node
    OBVIOUS
  <1>6. /\ k + 1 \in 1 .. Len(F) /\ t \in V
        /\ \A i \in 1 .. k : i \in 1 .. Len(F) /\ F[i].node # t
    <2>1. k + 1 \in 1 .. Len(F) /\ \A i \in 1 .. k : i \in 1 .. Len(F) /\ i # k + 1
      BY <1>2
    <2> QED
      BY <1>5, <2>1 DEF StackOK
  <1>7. Open(F) = Open(H) \cup {t} /\ t \notin Open(H)
    <2>1. \A i \in 1 .. Len(F) : i = k + 1 \/ i \in 1 .. k
      BY <1>2
    <2>2. Open(H) = {F[i].node : i \in 1 .. k}
      BY <1>4 DEF Open
    <2> QED
      BY <1>5, <1>6, <2>1, <2>2 DEF Open
  <1>8. V \ Open(H) = (V \ Open(F)) \cup {t} /\ t \notin V \ Open(F)
    BY <1>6, <1>7
  <1>9. StackOK(G, H, V)
    <2>1. \A i \in 1 .. k : i < k => i < Len(F) /\ i + 1 \in 1 .. k
      BY <1>2
    <2> QED
      BY <1>2, <1>4, <1>6, <2>1 DEF StackOK
  <1>10. ASSUME SearchOK(G, F, V, {})
         PROVE  SearchOK(G, H, V, {})
    <2>1. PICK S : S = V \ Open(F)
      OBVIOUS
    <2>2. G[t] \cap DOMAIN G \subseteq S
      <3>1. F[k + 1].left = {} /\ ~(k + 1 < Len(F))
        BY <1>2
      <3> QED
        BY <1>5, <1>6, <1>10, <2>1, <3>1 DEF SearchOK
    <2>3. Acyclic(G, S) /\ \A n \in S : G[n] \cap DOMAIN G \subseteq S
      BY <1>10, <2>1 DEF SearchOK
    <2>4. S \in SUBSET DOMAIN G /\ t \in DOMAIN G /\ t \notin S /\ V \ Open(H) = S \cup {t}
      BY <1>6, <1>8, <2>1
    <2>5. Acyclic(G, S \cup {t})
      <3> SUFFICES ASSUME NEW C \in SUBSET (S \cup {t}), C # {}, \A n \in C : G[n] \cap C # {}
                   PROVE  FALSE
        BY DEF Acyclic
      <3>1. PICK D : D = C \ {t}
        OBVIOUS
      <3>2. \A n \in S \cup {t} : G[n] \cap C \subseteq S
        BY <2>2, <2>3, <2>4
      <3>3. \A n \in C : G[n] \cap D # {}
        BY <2>4, <3>1, <3>2
      <3>4. D # {} /\ D \in SUBSET S
        BY <3>1, <3>3
      <3> QED
        BY <2>3, <3>1, <3>3, <3>4 DEF Acyclic
    <2>6. \A n \in S \cup {t} : G[n] \cap DOMAIN G \subseteq S \cup {t}
      BY <2>2, <2>3
    <2>7. ASSUME NEW i \in 1 .. k, NEW m \in (G[F[i].node] \cap DOMAIN G) \ F[i].left
          PROVE  m \in S \cup {t} \/ (i < k /\ m = F[i + 1].node)
      <3>1. m \in S \/ (i < Len(F) /\ m = F[i + 1].node)
        BY <1>6, <1>10, <2>1, <2>7 DEF SearchOK
      <3>2. i = k \/ i < k
        BY <2>7
      <3> QED
        BY <1>5, <3>1, <3>2
    <2>8. ASSUME NEW i \in 1 .. Len(H), NEW m \in (G[H[i].node] \cap DOMAIN G) \ H[i].left
          PROVE  m \in S \cup {t} \/ (i < Len(H) /\ m = H[i + 1].node)
      <3>1. i \in 1 .. k /\ H[i] = F[i] /\ (i < k => H[i + 1] = F[i + 1])
        BY <1>4, <2>8
      <3> QED
        BY <1>4, <2>7, <2>8, <3>1
    <2> QED
      BY <2>4, <2>5, <2>6, <2>8 DEF SearchOK
  <1> QED
    BY <1>2, <1>3, <1>9, <1>10

\* An item of the stack that is met again closes a cycle.
LEMMA StackCloses ==
  ASSUME NEW G, NEW F, NEW V \in SUBSET DOMAIN G, NEW n, StackOK(G, F, V), Validator!Place(n, F) # {},
         Len(F) > 0 => n \in G[F[Len(F)].node]
  PROVE  CycleOK(G, Append(SubSeq(Validator!Nodes(F), Validator!Least(Validator!Place(n, F)), Len(F)), n))
  <1>1. PICK z \in Nat : z = Len(F)
    BY FramesOfStack DEF StackOK
  <1>2. PICK k \in 1 .. z : F[k].node = n /\ Validator!Place(n, F) = {k}
    <2>1. PICK k \in 1 .. z : F[k].node = n
      BY <1>1 DEF Validator!Place
    <2>2. \A i \in 1 .. z : F[i].node = n => i = k
      BY <1>1, <2>1 DEF StackOK
    <2> QED
      BY <1>1, <2>1, <2>2 DEF Validator!Place
  <1>3. Validator!Least(Validator!Place(n, F)) = k
    <2>1. k <= k
      BY <1>2
    <2>2. \E x \in {k} : \A m \in {k} : x <= m
      BY <2>1
    <2> QED
      BY <1>2, <2>2 DEF Validator!Least
  <1>4. PICK N : N = Validator!Nodes(F)
    OBVIOUS
  <1>5. \A i \in 1 .. z : N[i] = F[i].node /\ N[i] \in DOMAIN G
    BY <1>1, <1>4 DEF Validator!Nodes, StackOK
  <1>6. PICK p : p = SubSeq(N, k, z)
    OBVIOUS
  <1>7. /\ p \in Seq(DOMAIN G) /\ Len(p) = z - k + 1
        /\ \A i \in 1 .. z - k + 1 : p[i] = N[k + i - 1]
    <2>1. \A i \in k .. z : N[i] \in DOMAIN G
      BY <1>2, <1>5
    <2>2. k \in Int /\ z \in Int /\ k <= z
      BY <1>2
    <2> QED
      BY <1>6, <2>1, <2>2, SubSeqProperties
  <1>8. n \in DOMAIN G /\ n = N[k] /\ n \in G[N[z]]
    <2>1. z > 0 /\ z \in 1 .. z
      BY <1>1, <1>2
    <2> QED
      BY <1>1, <1>2, <1>5, <2>1
  <1>9. PICK c : c = Append(p, n)
    OBVIOUS
  <1>10. PICK L \in Nat : L = z - k + 1 /\ L >= 1 /\ L = Len(p)
    <2>1. z - k + 1 \in Nat /\ z - k + 1 >= 1
      BY <1>2
    <2>2. Len(p) = z - k + 1
      BY <1>7
    <2> QED
      BY <2>1, <2>2
  <1>11. Len(c) = L + 1 /\ c[L + 1] = n /\ \A i \in 1 .. L : c[i] = p[i]
    <2>1. p \in Seq(DOMAIN G)
      BY <1>7
    <2>2. n \in DOMAIN G
      BY <1>8
    <2>3. /\ Len(Append(p, n)) = Len(p) + 1
          /\ \A i \in 1 .. Len(p) : Append(p, n)[i] = p[i]
          /\ Append(p, n)[Len(p) + 1] = n
      BY <2>1, <2>2, AppendProperties
    <2>4. L = Len(p)
      BY <1>10
    <2> QED
      BY <2>3, <2>4, <1>9
  <1>12. \A i \in 1 .. L : k + i - 1 \in 1 .. z /\ c[i] = N[k + i - 1]
    BY <1>2, <1>7, <1>10, <1>11
  <1>13. c[1] = n
    <2>1. 1 \in 1 .. L /\ k + 1 - 1 = k
      BY <1>2, <1>10
    <2> QED
      BY <1>8, <1>12, <2>1
  <1>14. ASSUME NEW i \in 1 .. L
         PROVE  c[i + 1] \in G[c[i]]
    <2>1. CASE i = L
      <3>1. k + L - 1 = z
        BY <1>2, <1>10
      <3> QED
        BY <1>8, <1>11, <1>12, <2>1, <3>1
    <2>2. CASE i # L
      <3>1. i + 1 \in 1 .. L /\ k + (i + 1) - 1 = (k + i - 1) + 1 /\ k + i - 1 < z /\ k + i - 1 \in 1 .. z
        BY <1>2, <1>10, <2>2
      <3>2. PICK j \in 1 .. z : j = k + i - 1 /\ j < z /\ j + 1 \in 1 .. z
        BY <3>1
      <3>3. c[i] = N[j] /\ c[i + 1] = N[j + 1]
        BY <1>12, <3>1, <3>2
      <3>4. F[j + 1].node \in G[F[j].node]
        BY <1>1, <3>2 DEF StackOK
      <3> QED
        BY <1>5, <3>2, <3>3, <3>4
    <2> QED
      BY <2>1, <2>2
  <1>15. \A i \in 1 .. L + 1 : c[i] \in DOMAIN G
    <2>1. \A i \in 1 .. L + 1 : i = L + 1 \/ i \in 1 .. L
      BY <1>10
    <2> QED
      BY <1>5, <1>8, <1>11, <1>12, <2>1
  <1>16. CycleOK(G, c)
    <2>1. Len(c) \in Nat /\ Len(c) >= 2 /\ Len(c) - 1 = L
      BY <1>10, <1>11
    <2> QED
      BY <1>11, <1>13, <1>14, <1>15, <2>1 DEF CycleOK
  <1> QED
    BY <1>1, <1>3, <1>4, <1>6, <1>9, <1>16

\* The items of a cycle depend on each other.
LEMMA CycleIsCyclic ==
  ASSUME NEW G, NEW c, CycleOK(G, c)
  PROVE  \E C \in SUBSET DOMAIN G : C # {} /\ \A n \in C : G[n] \cap C # {}
  <1>1. PICK L \in Nat : L = Len(c) /\ L >= 2
    BY DEF CycleOK
  <1>2. PICK C : C = {c[i] : i \in 1 .. L}
    OBVIOUS
  <1>3. C \in SUBSET DOMAIN G /\ c[1] \in C
    BY <1>1, <1>2 DEF CycleOK
  <1>4. ASSUME NEW n \in C
        PROVE  G[n] \cap C # {}
    <2>1. PICK i \in 1 .. L : n = c[i]
      BY <1>2
    <2>2. PICK j \in 1 .. L - 1 : n = c[j]
      <3>1. CASE i = L
        BY <1>1, <2>1, <3>1 DEF CycleOK
      <3>2. CASE i # L
        BY <2>1, <3>2
      <3> QED
        BY <3>1, <3>2
    <2>3. c[j + 1] \in G[n] /\ j + 1 \in 1 .. L
      BY <1>1, <2>2 DEF CycleOK
    <2> QED
      BY <1>2, <2>3
  <1> QED
    BY <1>3, <1>4

LEMMA ValidatorInitInvariant ==
  ASSUME Validator!Init
  PROVE  ValidatorInv
  <1>1. frames = <<>> /\ visited = {} /\ cycles = {} /\ roots = DOMAIN graph
        /\ \E P \in SUBSET Items : graph \in [P -> SUBSET Items]
    BY DEF Validator!Init
  <1>2. frames \in Seq(Frame) /\ Len(frames) = 0 /\ \A i \in 1 .. Len(frames) : FALSE
    <2>1. frames \in Seq(Frame) /\ Len(frames) = 0
      BY <1>1, EmptySeq
    <2> QED
      BY <2>1
  <1>3. StackOK(graph, frames, visited)
    BY <1>2 DEF StackOK
  <1>4. visited \ Open(frames) = {}
    BY <1>1
  <1>5. SearchOK(graph, frames, visited, {})
    BY <1>2, <1>4 DEF SearchOK, Acyclic
  <1> QED
    BY <1>1, <1>3, <1>5 DEF ValidatorInv

\* A visit of n, by the outer loop or from the item on top of the stack.
LEMMA VisitStep ==
  ASSUME NEW F, NEW n \in DOMAIN graph, NEW P \in SUBSET Items, graph \in [P -> SUBSET Items],
         visited \subseteq DOMAIN graph,
         StackOK(graph, F, visited), cycles = {} => SearchOK(graph, F, visited, {n}),
         \A c \in cycles : CycleOK(graph, c), Len(F) > 0 => n \in graph[F[Len(F)].node],
         Validator!Visit(n, F), graph' = graph
  PROVE  /\ visited' = visited \cup {n}
         /\ StackOK(graph, frames', visited')
         /\ cycles' = {} => SearchOK(graph, frames', visited', {})
         /\ \A c \in cycles' : CycleOK(graph, c)
  <1>1. PICK k \in Nat : k = Len(F)
    BY FramesOfStack DEF StackOK
  <1>2. CASE Validator!Place(n, F) # {}
    <2>1. PICK c : c = Append(SubSeq(Validator!Nodes(F), Validator!Least(Validator!Place(n, F)), Len(F)), n)
      OBVIOUS
    <2>2. cycles' = cycles \cup {c} /\ frames' = F /\ visited' = visited
      BY <1>2, <2>1 DEF Validator!Visit
    <2>3. CycleOK(graph, c)
      BY <1>2, <2>1, StackCloses
    <2>4. n \in visited
      BY <1>2 DEF StackOK, Validator!Place
    <2> QED
      BY <2>2, <2>3, <2>4
  <1>3. CASE Validator!Place(n, F) = {} /\ n \in visited
    <2>1. cycles' = cycles /\ frames' = F /\ visited' = visited
      BY <1>3 DEF Validator!Visit
    <2>2. n \in visited \ Open(F)
      BY <1>3 DEF Validator!Place, Open
    <2>3. ASSUME SearchOK(graph, F, visited, {n})
          PROVE  SearchOK(graph, F, visited, {})
      BY <2>2, <2>3 DEF SearchOK
    <2> QED
      BY <1>3, <2>1, <2>3
  <1>4. CASE Validator!Place(n, F) = {} /\ n \notin visited
    <2>1. /\ cycles' = cycles /\ visited' = visited \cup {n}
          /\ frames' = Append(F, [node |-> n, left |-> graph[n] \cap DOMAIN graph])
      BY <1>4 DEF Validator!Visit
    <2>2. n \in Items /\ graph[n] \in SUBSET Items
      OBVIOUS
    <2>3. /\ StackOK(graph, frames', visited')
          /\ SearchOK(graph, F, visited, {n}) => SearchOK(graph, frames', visited', {})
      BY <1>4, <2>1, <2>2, PushOK
    <2> QED
      BY <2>1, <2>3
  <1> QED
    BY <1>2, <1>3, <1>4

LEMMA VisitRootStep ==
  ASSUME Validator!ItemsAssumption, ValidatorInv, Validator!VisitRoot
  PROVE  ValidatorInv'
  <1>1. PICK P \in SUBSET Items : graph \in [P -> SUBSET Items]
    BY DEF ValidatorInv
  <1>2. PICK n \in roots : n = Validator!Least(roots)
    <2>1. roots \in SUBSET Items /\ roots # {}
      BY <1>1 DEF ValidatorInv, Validator!VisitRoot
    <2> QED
      BY <2>1, LeastIsMember
  <1>3. roots' = roots \ {n} /\ Validator!Visit(n, frames) /\ graph' = graph /\ frames = <<>> /\ n \in DOMAIN graph
    BY <1>2 DEF ValidatorInv, Validator!VisitRoot
  <1>4. Len(frames) = 0
    BY <1>3, EmptySeq
  <1>5. cycles = {} => SearchOK(graph, frames, visited, {n})
    BY DEF ValidatorInv, SearchOK
  <1>6. /\ visited' = visited \cup {n}
        /\ StackOK(graph, frames', visited')
        /\ cycles' = {} => SearchOK(graph, frames', visited', {})
        /\ \A c \in cycles' : CycleOK(graph, c)
    BY <1>1, <1>3, <1>4, <1>5, VisitStep DEF ValidatorInv
  <1> QED
    BY <1>3, <1>6 DEF ValidatorInv

LEMMA VisitDependencyStep ==
  ASSUME Validator!ItemsAssumption, ValidatorInv, Validator!VisitDependency
  PROVE  ValidatorInv'
  <1>1. PICK P \in SUBSET Items : graph \in [P -> SUBSET Items]
    BY DEF ValidatorInv
  <1>2. StackOK(graph, frames, visited) /\ frames \in Seq(Frame) /\ frames # <<>>
    BY DEF ValidatorInv, StackOK, Validator!VisitDependency
  <1>3. PICK k \in Nat : k = Len(frames) /\ k > 0 /\ k \in 1 .. k
    BY <1>2, FramesOfStack
  <1>4. PICK f \in Frame : f = frames[k]
    BY <1>2, <1>3, FramesOfStack
  <1>5. f.left # {} /\ f.left \subseteq graph[f.node] \cap DOMAIN graph /\ f.left \in SUBSET Items
    BY <1>2, <1>3, <1>4 DEF Validator!VisitDependency, Validator!Top, StackOK, Frame
  <1>6. PICK n \in f.left : n = Validator!Least(f.left)
    BY <1>5, LeastIsMember
  <1>7. PICK h : h = [f EXCEPT !.left = f.left \ {n}]
    OBVIOUS
  <1>8. h \in Frame /\ h.node = f.node /\ h.left = f.left \ {n}
    BY <1>7 DEF Frame
  <1>9. PICK F : F = [frames EXCEPT ![k] = h]
    OBVIOUS
  <1>10. Validator!Visit(n, F) /\ graph' = graph /\ roots' = roots
    BY <1>3, <1>4, <1>6, <1>7, <1>9 DEF Validator!VisitDependency, Validator!Top
  <1>11. F \in Seq(Frame) /\ Len(F) = k /\ F[k] = h /\ \A i \in 1 .. k : i # k => F[i] = frames[i]
    <2>1. frames \in [1 .. k -> Frame]
      BY <1>2, <1>3, LenProperties
    <2>2. F \in [1 .. k -> Frame] /\ F[k] = h /\ \A i \in 1 .. k : i # k => F[i] = frames[i]
      BY <1>3, <1>8, <1>9, <2>1
    <2>3. F \in Seq(Frame) /\ Len(F) = k
      BY <2>2
    <2> QED
      BY <2>2, <2>3
  <1>12. \A i \in 1 .. k : F[i].node = frames[i].node /\ F[i].left \subseteq frames[i].left
    BY <1>4, <1>8, <1>11
  <1>13. Open(F) = Open(frames)
    BY <1>3, <1>11, <1>12 DEF Open
  <1>14. StackOK(graph, F, visited)
    <2>1. \A i \in 1 .. k : i < k => i + 1 \in 1 .. k
      OBVIOUS
    <2> QED
      BY <1>2, <1>3, <1>11, <1>12, <2>1 DEF StackOK
  <1>15. ASSUME cycles = {}
         PROVE  SearchOK(graph, F, visited, {n})
    <2>1. SearchOK(graph, frames, visited, {})
      BY <1>15 DEF ValidatorInv
    <2>2. ASSUME NEW i \in 1 .. k, NEW m \in (graph[F[i].node] \cap DOMAIN graph) \ F[i].left
          PROVE  m \in visited \ Open(F) \/ (i < k /\ m = F[i + 1].node) \/ (i = k /\ m \in {n})
      <3>1. m \in frames[i].left => i = k /\ m = n
        BY <1>4, <1>8, <1>11, <2>2
      <3>2. m \notin frames[i].left =>
              m \in visited \ Open(frames) \/ (i < k /\ m = frames[i + 1].node)
        BY <1>3, <1>12, <2>1, <2>2 DEF SearchOK
      <3>3. i < k => F[i + 1].node = frames[i + 1].node
        <4>1. i < k => i + 1 \in 1 .. k
          OBVIOUS
        <4> QED
          BY <1>12, <4>1
      <3> QED
        BY <1>13, <3>1, <3>2, <3>3
    <2> QED
      BY <1>11, <1>13, <2>1, <2>2 DEF SearchOK
  <1>16. n \in graph[F[Len(F)].node] /\ n \in DOMAIN graph
    BY <1>5, <1>6, <1>8, <1>11
  <1>17. /\ visited' = visited \cup {n}
         /\ StackOK(graph, frames', visited')
         /\ cycles' = {} => SearchOK(graph, frames', visited', {})
         /\ \A c \in cycles' : CycleOK(graph, c)
    BY <1>1, <1>10, <1>14, <1>15, <1>16, VisitStep DEF ValidatorInv
  <1> QED
    BY <1>10, <1>16, <1>17 DEF ValidatorInv

LEMMA ValidatorStepInvariant ==
  ASSUME Validator!ItemsAssumption, ValidatorInv, [Validator!Next]_graphVars
  PROVE  ValidatorInv'
  <1>1. CASE UNCHANGED graphVars
    BY <1>1 DEF graphVars, ValidatorInv
  <1>2. CASE Validator!Leave
    <2>1. /\ frames # <<>> /\ frames[Len(frames)].left = {} /\ frames' = SubSeq(frames, 1, Len(frames) - 1)
          /\ UNCHANGED <<graph, roots, visited, cycles>>
      BY <1>2 DEF Validator!Leave, Validator!Top
    <2>2. /\ StackOK(graph, frames', visited)
          /\ SearchOK(graph, frames, visited, {}) => SearchOK(graph, frames', visited, {})
      BY <2>1, PopOK DEF ValidatorInv
    <2> QED
      BY <2>1, <2>2 DEF ValidatorInv
  <1> QED
    BY <1>1, <1>2, VisitRootStep, VisitDependencyStep DEF Validator!Next

\* At the end of the search every item is left.
LEMMA CyclesFound ==
  ASSUME ValidatorInv
  PROVE  Validator!CyclesAreFound
  <1>1. ASSUME roots = {}, frames = <<>>, cycles = {}
        PROVE  ~Validator!Cyclic
    <2>1. Open(frames) = {}
      <3>1. \A i \in 1 .. Len(frames) : FALSE
        BY <1>1, EmptySeq
      <3> QED
        BY <3>1 DEF Open
    <2>2. visited = DOMAIN graph /\ SearchOK(graph, frames, visited, {})
      BY <1>1 DEF ValidatorInv
    <2>3. Acyclic(graph, DOMAIN graph)
      BY <2>1, <2>2 DEF SearchOK
    <2> QED
      BY <2>3 DEF Acyclic, Validator!Cyclic
  <1>2. ASSUME cycles # {}
        PROVE  Validator!Cyclic
    <2>1. PICK c : CycleOK(graph, c)
      BY <1>2 DEF ValidatorInv
    <2> QED
      BY <2>1, CycleIsCyclic DEF Validator!Cyclic
  <1>3. \A c \in cycles : c[1] = c[Len(c)] /\ \A i \in 1 .. Len(c) - 1 : c[i + 1] \in graph[c[i]]
    BY DEF ValidatorInv, CycleOK
  <1> QED
    BY <1>1, <1>2, <1>3 DEF Validator!CyclesAreFound

\* For any content packs, stages and reviewers, the version active in a stage lists it and
\* versions are numbered without gaps (content/service.py:116-180); and for any pack of items the
\* validator reports a cycle of dependencies if and only if there is one (tools/validate_content.py).
THEOREM ContentStaysSound == Spec => []ContentIsSound
  <1>1. Init => ContentInv /\ ValidatorInv
    BY ContentInitInvariant, ValidatorInitInvariant DEF Init
  <1>2. ContentInv /\ ValidatorInv /\ [Next]_vars => (ContentInv /\ ValidatorInv)'
    BY OperationsAssumption, ContentInvariantStep, ValidatorStepInvariant, Steps DEF OperationsAssumption
  <1>3. ContentInv /\ ValidatorInv => ContentIsSound
    BY CyclesFound DEF ContentIsSound, ContentInv
  <1> QED
    BY <1>1, <1>2, <1>3, PTL DEF Spec

-----------------------------------------------------------------------------
(* Types of the parts whose own invariant leaves some out; the invariants     *)
(* that add them end in Typed.                                                *)

LauncherTyped == LauncherInv /\ todo \subseteq Files /\ stops \in 0 .. MaxStops /\ torn \in BOOLEAN

LEMMA LauncherTypedStep ==
  ASSUME Launcher!LauncherAssumption, LauncherTyped, [Launcher!Next]_launcherVars
  PROVE  LauncherTyped'
  <1>1. LauncherInv' /\ LauncherTypesOK
    BY LauncherStepInvariant DEF LauncherTyped, LauncherInv
  <1>2. Manifest[wanted] \subseteq Files
    BY <1>1, LauncherManifests DEF LauncherTypesOK
  <1>3. todo' \subseteq Files
    BY <1>2 DEF LauncherTyped, Launcher!Next, Launcher!Goes, Launcher!Takes, Launcher!BackedUp,
        Launcher!Release, Launcher!CheckForUpdate, Launcher!BeginDownload, Launcher!VerifyUpdate,
        Launcher!BeginApply, Launcher!SaveVersion, Launcher!BeginRollback, Launcher!RevertVersion, Launcher!Stop,
        Launcher!DownloadFile, Launcher!BackupFile, Launcher!CopyFile, Launcher!RestoreFile, launcherVars
  <1>4. UNCHANGED stops \/ (stops < MaxStops /\ stops' = stops + 1)
    BY DEF Launcher!Next, Launcher!Release, Launcher!CheckForUpdate, Launcher!BeginDownload,
        Launcher!VerifyUpdate,
        Launcher!BeginApply, Launcher!SaveVersion, Launcher!BeginRollback, Launcher!RevertVersion, Launcher!Stop,
        Launcher!DownloadFile, Launcher!BackupFile, Launcher!CopyFile, Launcher!RestoreFile, launcherVars
  <1>5. stops' \in 0 .. MaxStops
    BY <1>4 DEF LauncherTyped, Launcher!LauncherAssumption
  <1>6. torn' \in BOOLEAN
    BY DEF LauncherTyped, Launcher!Next, Launcher!Release, Launcher!CheckForUpdate, Launcher!BeginDownload,
        Launcher!VerifyUpdate, Launcher!BeginApply, Launcher!SaveVersion, Launcher!BeginRollback,
        Launcher!RevertVersion, Launcher!Stop,
        Launcher!DownloadFile, Launcher!BackupFile, Launcher!CopyFile, Launcher!RestoreFile, launcherVars
  <1> QED
    BY <1>1, <1>3, <1>5, <1>6 DEF LauncherTyped

LEMMA LauncherIsTyped == Spec => []Launcher!TypeOK
  <1>1. Init => LauncherTyped
    <2> SUFFICES ASSUME Launcher!Init PROVE LauncherTyped
      BY DEF Init
    <2>1. LauncherInv
      BY OperationsAssumption, LauncherInitInvariant DEF OperationsAssumption
    <2>2. MaxStops \in Nat
      BY OperationsAssumption DEF OperationsAssumption, Launcher!LauncherAssumption
    <2>3. todo = {} /\ stops = 0
      BY DEF Launcher!Init
    <2>4. torn \in BOOLEAN
      BY DEF Launcher!Init
    <2>5. stops \in 0 .. MaxStops
      BY <2>2, <2>3
    <2> QED
      BY <2>1, <2>3, <2>4, <2>5 DEF LauncherTyped
  <1>2. LauncherTyped /\ [Next]_vars => LauncherTyped'
    BY OperationsAssumption, LauncherTypedStep, Steps DEF OperationsAssumption
  <1>3. LauncherTyped => Launcher!TypeOK
    BY DEF LauncherTyped, LauncherInv, LauncherTypesOK, Launcher!TypeOK
  <1> QED
    BY <1>1, <1>2, <1>3, PTL DEF Spec


LEMMA ValidatorIsTyped == Spec => []Validator!TypeOK
  <1>1. Init => ValidatorInv
    BY ValidatorInitInvariant DEF Init
  <1>2. ValidatorInv /\ [Next]_vars => ValidatorInv'
    BY OperationsAssumption, ValidatorStepInvariant, Steps DEF OperationsAssumption
  <1>3. ValidatorInv => Validator!TypeOK
    <2> SUFFICES ASSUME ValidatorInv PROVE Validator!TypeOK
      OBVIOUS
    <2>1. \A i \in 1 .. Len(frames) : frames[i].node \in visited
      BY DEF ValidatorInv, StackOK
    <2>2. \A c \in cycles : Len(c) > 1
      BY DEF ValidatorInv, CycleOK
    <2> QED
      BY <2>1, <2>2 DEF ValidatorInv, Validator!TypeOK
  <1> QED
    BY <1>1, <1>2, <1>3, PTL DEF Spec


LEMMA ContentIsTyped == Spec => []Content!TypeOK
  <1>1. Init => ContentInv
    BY ContentInitInvariant DEF Init
  <1>2. ContentInv /\ [Next]_vars => ContentInv'
    BY OperationsAssumption, ContentInvariantStep, Steps DEF OperationsAssumption
  <1>3. ContentInv => Content!TypeOK
    <2> SUFFICES ASSUME ContentInv PROVE Content!TypeOK
      OBVIOUS
    <2>1. IsFiniteSet(ContentVersions) /\ Content!Staged \in SUBSET ContentVersions
      BY OperationsAssumption DEF OperationsAssumption, Content!ContentAssumption, Content!Staged,
         Content!IsFiniteSet, IsFiniteSet
    <2>2. /\ Cardinality(Content!Staged) <= Cardinality(ContentVersions)
          /\ Cardinality(Content!Staged) \in Nat /\ Cardinality(ContentVersions) \in Nat
      BY <2>1, FS_Subset, FS_CardinalityType
    <2>3. \A v \in Content!Staged : version[v].number \in 1 .. Content!Cardinality(ContentVersions)
      <3> TAKE v \in Content!Staged
      <3>1. version[v].number \in 1 .. Cardinality(Content!Staged)
        BY ContentCounts DEF ContentInv, Content!ActiveVersionListsItsStage
      <3> QED
        BY <2>2, <3>1, ContentCounts
    <2> QED
      BY <2>1, <2>3 DEF ContentInv, Content!TypeOK, Content!Staged
  <1> QED
    BY <1>1, <1>2, <1>3, PTL DEF Spec


LEMMA MigrationIsTyped == Spec => []Migration!TypeOK
  <1> DEFINE Typed == MigrationInv /\ moves \subseteq Migration!Pairs
  <1>1. Init => Typed
    BY MigrationInitInvariant DEF Init, Migration!Init
  <1>2. Typed /\ [Next]_vars => Typed'
    <2> SUFFICES ASSUME Typed, [Migration!Next]_migrationVars PROVE Typed'
      BY Steps
    <2>1. MigrationInv'
      BY OperationsAssumption, MigrationStepInvariant DEF OperationsAssumption
    <2>2. \/ UNCHANGED moves \/ moves' = {}
          \/ \E b \in Beta, p \in Production : moves' = moves \cup {<<b, p>>}
      BY DEF Migration!Next, Migration!MigrateBetaPlayer, Migration!LedgerFails, Migration!MoveProfile,
         Migration!Restart, migrationVars
    <2>3. \A b \in Beta, p \in Production : <<b, p>> \in Migration!Pairs
      BY DEF Migration!Pairs
    <2>4. moves' \subseteq Migration!Pairs
      BY <2>2, <2>3
    <2> QED
      BY <2>1, <2>4
  <1>3. Typed => Migration!TypeOK
    BY DEF MigrationInv, MigrationTypesOK, Migration!TypeOK
  <1> HIDE DEF Typed
  <1> QED
    BY <1>1, <1>2, <1>3, PTL DEF Spec


LEMMA LaunchIsTyped == Spec => []Launch!TypeOK
  <1> DEFINE Typed == LaunchInv /\ tier \in [Players -> Nat \ {0}] /\ slips \subseteq Launch!Lapses
  <1>1. Init => Typed
    BY LaunchInitInvariant DEF Init, Launch!Init
  <1>2. Typed /\ [Next]_vars => Typed'
    <2> SUFFICES ASSUME Typed, [Launch!Next]_genesisVars PROVE Typed'
      BY Steps
    <2>1. LaunchInv'
      BY OperationsAssumption, LaunchInvariantStep DEF OperationsAssumption
    <2>2. \A p \in Players : Launch!StartingTier(p) \in Nat \ {0}
      BY OperationsAssumption DEF OperationsAssumption, Launch!LaunchAssumption, Launch!StartingTier
    <2>5. UNCHANGED tier \/ tier' = [p \in Players |-> Launch!StartingTier(p)] \/ tier' = [p \in Players |-> 1]
      BY DEF Launch!Next, Launch!CreateChecks, Launch!AnnounceChecks, Launch!RollbackChecks, Launch!Reads,
         Launch!CreatePersists, Launch!AnnounceStores, Launch!RollbackPersists, Launch!MineBlock, genesisVars
    <2>3. tier' \in [Players -> Nat \ {0}]
      BY <2>2, <2>5
    <2>4. slips' \subseteq slips \cup {"overlap", "again", "mined"}
      BY DEF Launch!Next, Launch!CreateChecks, Launch!AnnounceChecks, Launch!RollbackChecks, Launch!Reads,
         Launch!CreatePersists, Launch!AnnounceStores, Launch!RollbackPersists, Launch!MineBlock, genesisVars
    <2> QED
      BY <2>1, <2>3, <2>4 DEF Launch!Lapses
  <1>3. Typed => Launch!TypeOK
    BY DEF LaunchInv, LaunchTypesOK, LaunchCalls, GenesisRecords, Launch!TypeOK
  <1> HIDE DEF Typed
  <1> QED
    BY <1>1, <1>2, <1>3, PTL DEF Spec


ConsoleTyped == ConsoleInv /\ entries \in 0 .. MaxSum /\ cancelled \in BOOLEAN

LEMMA ConsoleTypedStep ==
  ASSUME Console!AdminAssumption, ConsoleTyped, [Console!Next]_consoleVars
  PROVE  ConsoleTyped'
  <1>1. ConsoleInv'
    BY ConsoleStepInvariant DEF ConsoleTyped
  <1>2. entries' \in 0 .. MaxSum
    <2>1. UNCHANGED entries \/ (entries < MaxSum /\ entries' = entries + 1)
      BY DEF Console!Next, Console!OthersPost, Console!Restart, Console!ConfigReads, Console!ResetReads,
         Console!SwitchFlips, Console!ConfigWrites, Console!Stamps, Console!ConfigCommits, Console!ResetCommits,
         Console!EventCancelled, Console!AuditsAfterwards, Console!Fails, consoleVars
    <2> QED
      BY <2>1 DEF ConsoleTyped, Console!AdminAssumption
  <1>3. cancelled' \in BOOLEAN
    BY DEF ConsoleTyped, Console!Next, Console!OthersPost, Console!Restart, Console!ConfigReads,
        Console!ResetReads,
       Console!SwitchFlips, Console!ConfigWrites, Console!Stamps, Console!ConfigCommits, Console!ResetCommits,
       Console!EventCancelled, Console!AuditsAfterwards, Console!Fails, consoleVars
  <1> QED
    BY <1>1, <1>2, <1>3 DEF ConsoleTyped

LEMMA ConsoleIsTyped == Spec => []Console!TypeOK
  <1>1. Init => ConsoleTyped
    <2> SUFFICES ASSUME Console!Init PROVE ConsoleTyped
      BY DEF Init
    <2>1. ConsoleInv /\ MaxSum \in Nat
      BY OperationsAssumption, ConsoleInitInvariant DEF OperationsAssumption, Console!AdminAssumption
    <2>2. cancelled \in BOOLEAN
      BY DEF Console!Init
    <2>3. entries \in 0 .. MaxSum
      BY <2>1 DEF Console!Init
    <2> QED
      BY <2>1, <2>2, <2>3 DEF ConsoleTyped
  <1>2. ConsoleTyped /\ [Next]_vars => ConsoleTyped'
    BY OperationsAssumption, ConsoleTypedStep, Steps DEF OperationsAssumption
  <1>3. ConsoleTyped => Console!TypeOK
    <2> SUFFICES ASSUME ConsoleTyped PROVE Console!TypeOK
      OBVIOUS
    <2>1. MaxAudit \in Nat /\ ConsoleTypes /\ clock \in 0 .. MaxAudit
      BY OperationsAssumption DEF OperationsAssumption, Console!AdminAssumption, ConsoleTyped,
          ConsoleInv, ConsoleTypes
    <2>2. audit \subseteq [kind : Console!Kinds, old : Int \cup {None}, new : Nat, at : 1 .. MaxAudit]
      <3> SUFFICES ASSUME NEW e \in audit
                   PROVE  e \in [kind : Console!Kinds, old : Int \cup {None}, new : Nat, at : 1 .. MaxAudit]
        OBVIOUS
      <3>1. e \in AuditEntries /\ 1 <= e.at /\ e.at <= clock
        BY <2>1 DEF ConsoleTypes
      <3>2. e.at \in 1 .. MaxAudit
        BY <2>1, <3>1 DEF AuditEntries
      <3> QED
        BY <3>1, <3>2 DEF AuditEntries
    <2>3. staff \in [Admins -> [step : Console!Steps, kind : Console!Kinds, value : Nat,
                                old : Int \cup {None}, at : 0 .. MaxAudit]]
      <3>1. staff \in [Admins -> ConsoleCalls] /\ \A a \in Admins : CallOK(staff[a], a)
        BY DEF ConsoleTyped, ConsoleInv
      <3>2. ASSUME NEW a \in Admins
            PROVE  staff[a] \in [step : Console!Steps, kind : Console!Kinds, value : Nat,
                                 old : Int \cup {None}, at : 0 .. MaxAudit]
        <4>1. PICK c \in ConsoleCalls : c = staff[a] /\ c.at <= clock
          BY <3>1 DEF CallOK
        <4>2. c.at \in 0 .. MaxAudit
          BY <2>1, <4>1 DEF ConsoleCalls
        <4> QED
          BY <4>1, <4>2 DEF ConsoleCalls
      <3> QED
        BY <3>1, <3>2
    <2> QED
      BY <2>1, <2>2, <2>3 DEF ConsoleTyped, ConsoleTypes, Console!TypeOK
  <1> QED
    BY <1>1, <1>2, <1>3, PTL DEF Spec


\* What a flush hands over are emissions.
LEMMA BatchIsOfEmissions ==
  ASSUME NEW batch \in Seq(Emissions)
  PROVE  Metrics!Range(batch) \subseteq Emissions
  <1>1. \A i \in DOMAIN batch : batch[i] \in Emissions
    BY ElementOfSeq, LenProperties
  <1> QED
    BY <1>1 DEF Metrics!Range

LEMMA FlushIsTyped ==
  ASSUME Metrics!TelemetryAssumption, Metrics!TypeOK, NEW batch \in Seq(Emissions), Metrics!Flush(batch),
         buffer' \in Seq(Emissions), UNCHANGED <<marked, posts>>
  PROVE  Metrics!TypeOK'
  <1>1. Metrics!Range(batch) \subseteq Emissions
    BY BatchIsOfEmissions
  <1>2. PICK R : R = Metrics!Range(batch)
    OBVIOUS
  <1>3. /\ stored' = stored \cup R \/ UNCHANGED stored
        /\ sending' = sending \cup {[events |-> R, attempt |-> 1]}
        /\ fate' = [e \in Emissions |-> IF e \in R THEN "flushed" ELSE fate[e]]
        /\ pending' = <<>>
    BY <1>2 DEF Metrics!Flush, Metrics!Persist
  <1>4. pending' \in Seq(Emissions) /\ Len(pending') < BatchSize
    BY <1>3, EmptySeq DEF Metrics!TelemetryAssumption
  <1>5. \A b \in sending' : b.events \subseteq Emissions /\ b.attempt \in 1 .. MaxTries
    <2>1. 1 \in 1 .. MaxTries
      BY DEF Metrics!TelemetryAssumption
    <2> QED
      BY <1>1, <1>2, <1>3, <2>1 DEF Metrics!TypeOK
  <1>6. marked' \subseteq stored' /\ stored' \subseteq Emissions
    BY <1>1, <1>2, <1>3 DEF Metrics!TypeOK
  <1>7. fate' \in [Emissions -> {"unseen", "queued", "flushed", "dropped", "lost"}]
    BY <1>3 DEF Metrics!TypeOK
  <1> QED
    BY <1>4, <1>5, <1>6, <1>7 DEF Metrics!TypeOK

LEMMA TelemetryTypedStep ==
  ASSUME Metrics!TelemetryAssumption, Metrics!TypeOK, [Metrics!Next]_telemetryVars
  PROVE  Metrics!TypeOK'
  <1>1. /\ buffer \in Seq(Emissions) /\ pending \in Seq(Emissions)
        /\ fate \in [Emissions -> {"unseen", "queued", "flushed", "dropped", "lost"}] /\ posts \in [Emissions -> Nat]
    BY DEF Metrics!TypeOK
  <1>2. ASSUME NEW e \in Emissions, Metrics!Emit(e) \/ Metrics!EmitOnce(e)
        PROVE  Metrics!TypeOK'
    <2>1. buffer' \in Seq(Emissions)
      <3>1. UNCHANGED buffer \/ buffer' = Append(buffer, e)
        BY <1>2 DEF Metrics!Emit, Metrics!EmitOnce, Metrics!Enqueue
      <3>2. Append(buffer, e) \in Seq(Emissions)
        BY <1>1, AppendProperties
      <3> QED
        BY <1>1, <3>1, <3>2
    <2>2. fate' \in [Emissions -> {"unseen", "queued", "flushed", "dropped", "lost"}]
      BY <1>1, <1>2 DEF Metrics!Emit, Metrics!EmitOnce, Metrics!Enqueue
    <2>3. UNCHANGED <<pending, sending, stored, marked, posts>>
      BY <1>2 DEF Metrics!Emit, Metrics!EmitOnce
    <2> QED
      BY <2>1, <2>2, <2>3 DEF Metrics!TypeOK
  <1>3. CASE Metrics!WorkerGets
    <2>1. buffer # <<>> /\ buffer' = Tail(buffer) /\ UNCHANGED <<marked, posts>>
      BY <1>3 DEF Metrics!WorkerGets
    <2>2. PICK batch : batch = Append(pending, Head(buffer))
      OBVIOUS
    <2>3. batch \in Seq(Emissions) /\ buffer' \in Seq(Emissions)
      BY <1>1, <2>1, <2>2
    <2>4. CASE Metrics!Flush(batch)
      BY <2>1, <2>3, <2>4, FlushIsTyped
    <2>5. CASE Len(batch) < BatchSize /\ pending' = batch /\ UNCHANGED <<sending, stored, fate>>
      BY <2>1, <2>3, <2>5 DEF Metrics!TypeOK
    <2> QED
      BY <1>3, <2>2, <2>4, <2>5 DEF Metrics!WorkerGets
  <1>4. CASE Metrics!WorkerTimesOut
    BY <1>1, <1>4, FlushIsTyped DEF Metrics!WorkerTimesOut
  <1>5. ASSUME NEW b \in sending, Metrics!Send(b)
        PROVE  Metrics!TypeOK'
    <2>1. posts' \in [Emissions -> Nat]
      BY <1>1, <1>5 DEF Metrics!Send, Metrics!Posted
    <2>2. sending' \subseteq sending /\ marked' = marked \cup (b.events \cap stored)
          /\ UNCHANGED <<buffer, pending, stored, fate>>
      BY <1>5 DEF Metrics!Send, Metrics!MarkSent
    <2> QED
      BY <2>1, <2>2 DEF Metrics!TypeOK
  <1>6. CASE Metrics!Crash
    <2>1. /\ buffer' = <<>> /\ pending' = <<>> /\ sending' = {} /\ UNCHANGED <<stored, marked, posts>>
          /\ fate' = [e \in Emissions |-> IF fate[e] = "queued" THEN "lost" ELSE fate[e]]
      BY <1>6 DEF Metrics!Crash
    <2>2. Len(pending') < BatchSize /\ pending' \in Seq(Emissions)
      BY <2>1, EmptySeq DEF Metrics!TelemetryAssumption
    <2>3. fate' \in [Emissions -> {"unseen", "queued", "flushed", "dropped", "lost"}]
      BY <1>1, <2>1
    <2> QED
      BY <2>1, <2>2, <2>3 DEF Metrics!TypeOK
  <1>7. CASE UNCHANGED telemetryVars
    BY <1>7 DEF telemetryVars, Metrics!TypeOK
  <1> QED
    BY <1>2, <1>3, <1>4, <1>5, <1>6, <1>7 DEF Metrics!Next

LEMMA TelemetryIsTyped == Spec => []Metrics!TypeOK
  <1>1. Init => Metrics!TypeOK
    <2> SUFFICES ASSUME Metrics!Init PROVE Metrics!TypeOK
      BY DEF Init
    <2>1. Len(<<>>) = 0 /\ <<>> \in Seq(Emissions) /\ BatchSize \in Nat \ {0}
      BY EmptySeq, OperationsAssumption DEF OperationsAssumption, Metrics!TelemetryAssumption
    <2> QED
      BY <2>1 DEF Metrics!Init, Metrics!TypeOK
  <1>2. Metrics!TypeOK /\ [Next]_vars => Metrics!TypeOK'
    BY OperationsAssumption, TelemetryTypedStep, Steps DEF OperationsAssumption
  <1> QED
    BY <1>1, <1>2, PTL DEF Spec


CohortsTyped ==
  /\ experiment \in [at : Processes \cup {None}, status : {"none", "active", "completed", "lost"},
       row : {"none", "inserting", "stored"}]
  /\ assigned \in [TestPlayers -> {"a", "b", None}] /\ inserting \subseteq TestPlayers
  /\ assignment \in [TestPlayers -> {"a", "b", None}]

\* A step that at most completes the experiment.
LEMMA CohortsStay ==
  ASSUME CohortsTyped, UNCHANGED <<assigned, inserting, assignment>>,
         \/ UNCHANGED experiment
         \/ experiment' = [experiment EXCEPT !.status = "completed"]
  PROVE  CohortsTyped'
  BY DEF CohortsTyped

LEMMA CohortsStep ==
  ASSUME CohortsTyped,
         \/ \E s \in Processes : Tuning!CreateExperiment(s)
         \/ \E p \in TestPlayers : Tuning!AssignPlayerToCohort(p) \/ Tuning!InsertsAssignment(p)
         \/ Tuning!InsertsExperiment \/ Tuning!CompletesExperiment
  PROVE  CohortsTyped'
  <1>1. CASE \E s \in Processes : Tuning!CreateExperiment(s)
    BY <1>1 DEF Tuning!CreateExperiment, Tuning!cohorts, CohortsTyped
  <1>2. CASE \E p \in TestPlayers : Tuning!AssignPlayerToCohort(p)
    BY <1>2 DEF Tuning!AssignPlayerToCohort, Tuning!Parity, CohortsTyped
  <1>3. ASSUME NEW p \in TestPlayers, Tuning!InsertsAssignment(p)
        PROVE  CohortsTyped'
    <2>1. PICK c \in {"a", "b", None} : c = assigned[p]
      BY DEF CohortsTyped
    <2>2. assignment' \in [TestPlayers -> {"a", "b", None}]
      BY <1>3, <2>1 DEF Tuning!InsertsAssignment, CohortsTyped
    <2> QED
      BY <1>3, <2>2 DEF Tuning!InsertsAssignment, CohortsTyped
  <1>4. CASE Tuning!InsertsExperiment
    <2>1. PICK row \in {"none", "inserting", "stored"} : experiment' = [experiment EXCEPT !.row = row]
      BY <1>4 DEF Tuning!InsertsExperiment
    <2> QED
      BY <1>4, <2>1 DEF Tuning!InsertsExperiment, Tuning!cohorts, CohortsTyped
  <1>5. CASE Tuning!CompletesExperiment
    BY <1>5, CohortsStay DEF Tuning!CompletesExperiment, Tuning!cohorts
  <1> QED
    BY <1>1, <1>2, <1>3, <1>4, <1>5

\* No version beyond the bound is read for, and the history names versions there are.
TuningTyped ==
  /\ TuningInv
  /\ Len(rows) + 1 <= MaxVersion
  /\ past \subseteq [version : Tuning!Versions, previous : Tuning!Versions, reverted : BOOLEAN]
  /\ \A t \in Threads : thread[t].version <= MaxVersion
  /\ CohortsTyped

\* The other steps of a thread keep the version it was reading for, or forget it.
LEMMA VersionsStayBounded ==
  ASSUME TuningInv, MaxVersion \in Nat, \A t \in Threads : thread[t].version <= MaxVersion,
         NEW t \in Threads, NEW c, thread' = [thread EXCEPT ![t] = c], c.version <= MaxVersion
  PROVE  \A u \in Threads : thread'[u].version <= MaxVersion
  BY DEF TuningInv, TuningTypesOK

LEMMA TuningTypedStep ==
  ASSUME Tuning!TuningAssumption, TuningTyped, [Tuning!Next]_tuningVars
  PROVE  TuningTyped'
  <1>1. /\ TuningInv' /\ TuningInv /\ thread \in [Threads -> TuningThreads] /\ rows \in Seq(Tuning!Parameters)
        /\ rows' \in Seq(Tuning!Parameters) /\ Len(rows) \in Nat /\ MaxVersion \in Nat \ {0}
    BY TuningStepInvariant, LenProperties DEF TuningTyped, TuningInv, TuningTypesOK, Tuning!TuningAssumption
  <1> DEFINE Bounded == \A u \in Threads : thread'[u].version <= MaxVersion
             Past == past' \subseteq [version : Tuning!Versions, previous : Tuning!Versions, reverted : BOOLEAN]
  <1>2. ASSUME UNCHANGED <<past, experiment, Tuning!cohorts>>
        PROVE  Past /\ CohortsTyped'
    BY <1>2, CohortsStay DEF TuningTyped, Tuning!cohorts
  <1>3. ASSUME NEW t \in Threads, NEW s, Tuning!Continue(t, s) \/ Tuning!Finish(t)
        PROVE  Bounded
    <2>1. PICK k \in TuningThreads : k = thread[t]
      BY <1>1
    <2>2. CASE Tuning!Continue(t, s)
      <3>1. PICK c : c = [k EXCEPT !.step = s]
        OBVIOUS
      <3>2. c.version = k.version
        BY <3>1 DEF TuningThreads
      <3>3. thread' = [thread EXCEPT ![t] = c]
        BY <1>1, <2>1, <2>2, <3>1 DEF Tuning!Continue
      <3> QED
        BY <1>1, <2>1, <3>2, <3>3 DEF TuningTyped
    <2>3. CASE Tuning!Finish(t)
      <3>1. Tuning!Idle.version = 0 /\ thread' = [thread EXCEPT ![t] = Tuning!Idle]
        BY <2>3 DEF Tuning!Idle, Tuning!Finish
      <3> QED
        BY <1>1, <3>1 DEF TuningTyped
    <2> QED
      BY <1>3, <2>2, <2>3
  <1>4. ASSUME NEW t \in Threads, NEW s, NEW o, NEW w,
               thread' = [thread EXCEPT ![t] = [Tuning!Idle EXCEPT !.step = s, !.op = o, !.value = w]]
        PROVE  Bounded
    <2>1. PICK c : c = [Tuning!Idle EXCEPT !.step = s, !.op = o, !.value = w]
      OBVIOUS
    <2>2. c.version = 0
      BY <2>1 DEF Tuning!Idle
    <2> QED
      BY <1>1, <1>4, <2>1, <2>2 DEF TuningTyped
  <1>5. ASSUME Bounded, Past, CohortsTyped', UNCHANGED rows
        PROVE  TuningTyped'
    BY <1>1, <1>5 DEF TuningTyped
  <1>6. ASSUME NEW t \in Threads, NEW w \in Settable, Tuning!SetParameters(t, w)
        PROVE  TuningTyped'
    BY <1>2, <1>4, <1>5, <1>6 DEF Tuning!SetParameters
  <1>7. ASSUME NEW t \in Threads, NEW v \in Tuning!Versions, Tuning!RollbackToVersion(t, v)
        PROVE  TuningTyped'
    BY <1>2, <1>4, <1>5, <1>7 DEF Tuning!RollbackToVersion
  <1>8. ASSUME NEW t \in Threads, Tuning!PromoteReads(t)
        PROVE  TuningTyped'
    BY <1>2, <1>4, <1>5, <1>8 DEF Tuning!PromoteReads
  <1>9. ASSUME NEW t \in Threads, Tuning!PromoteLocks(t) \/ Tuning!StatementFails(t)
        PROVE  TuningTyped'
    BY <1>2, <1>3, <1>5, <1>9 DEF Tuning!PromoteLocks, Tuning!StatementFails
  <1>10. ASSUME NEW t \in Threads, Tuning!ReadsPrevious(t)
         PROVE  TuningTyped'
    <2>1. PICK k \in TuningThreads : k = thread[t]
      BY <1>1
    <2>2. PICK n \in Nat : n = Len(rows) + 2
      BY <1>1
    <2>3. PICK c : c = [k EXCEPT !.step = "read", !.version = n]
      OBVIOUS
    <2>4. c.version = n
      BY <2>3 DEF TuningThreads
    <2>5. thread' = [thread EXCEPT ![t] = c] /\ n <= MaxVersion
      <3>1. thread' = [thread EXCEPT ![t].step = "read", ![t].version = Tuning!Latest + 1] /\ Tuning!Latest < MaxVersion
        BY <1>10 DEF Tuning!ReadsPrevious
      <3>2. Tuning!Latest = Len(rows) + 1
        BY DEF Tuning!Latest
      <3>3. Tuning!Latest + 1 = n
        BY <1>1, <2>2, <3>2
      <3>4. thread' = [thread EXCEPT ![t].step = "read", ![t].version = n]
        BY <3>1, <3>3
      <3>5. n <= MaxVersion
        BY <1>1, <2>2, <3>1, <3>2
      <3> QED
        BY <1>1, <2>1, <2>3, <3>4, <3>5
    <2>6. Bounded
      BY <1>1, <2>4, <2>5 DEF TuningTyped
    <2> QED
      BY <1>2, <1>5, <1>10, <2>6 DEF Tuning!ReadsPrevious
  <1>11. ASSUME NEW t \in Threads, Tuning!InsertsParameter(t)
         PROVE  TuningTyped'
    <2>1. Bounded /\ Past /\ CohortsTyped'
      BY <1>2, <1>3, <1>11 DEF Tuning!InsertsParameter
    <2>2. Len(rows') + 1 <= MaxVersion
      <3>1. CASE UNCHANGED rows
        BY <3>1 DEF TuningTyped
      <3>2. CASE thread[t].version > Tuning!Latest /\ rows' = Append(rows, thread[t].value)
        <4>1. PICK w \in Tuning!Parameters : w = thread[t].value
          BY <1>1 DEF TuningThreads
        <4>2. Len(rows') = Len(rows) + 1
          BY <1>1, <3>2, <4>1
        <4>3. thread[t].version \in Nat /\ thread[t].version <= MaxVersion
          BY <1>1 DEF TuningThreads, TuningTyped
        <4>4. Tuning!Latest = Len(rows) + 1
          BY DEF Tuning!Latest
        <4> QED
          BY <1>1, <3>2, <4>2, <4>3, <4>4
      <3> QED
        BY <1>11, <3>1, <3>2 DEF Tuning!InsertsParameter
    <2> QED
      BY <1>1, <2>1, <2>2 DEF TuningTyped
  <1>12. ASSUME NEW t \in Threads, Tuning!InsertsHistory(t)
         PROVE  TuningTyped'
    <2>1. PICK n \in Nat : n = thread[t].version /\ n >= 2 /\ n <= MaxVersion
      BY <1>1, <1>12 DEF Tuning!InsertsHistory, TuningThreads, TuningTyped, TuningInv, ThreadsOK
    <2>2. n \in Tuning!Versions /\ n - 1 \in Tuning!Versions
      BY <1>1, <2>1 DEF Tuning!Versions
    <2>3. past' = past \cup {[version |-> n, previous |-> n - 1, reverted |-> FALSE]} /\ UNCHANGED <<rows, experiment, Tuning!cohorts>>
      BY <1>12, <2>1 DEF Tuning!InsertsHistory
    <2>4. Past
      <3>1. PICK v \in Tuning!Versions, w \in Tuning!Versions, r \in BOOLEAN : v = n /\ w = n - 1 /\ r = FALSE
        BY <2>2
      <3>2. past' = past \cup {[version |-> v, previous |-> w, reverted |-> r]}
        BY <2>3, <3>1
      <3> QED
        BY <3>2 DEF TuningTyped
    <2>5. CohortsTyped'
      BY <2>3, CohortsStay DEF TuningTyped, Tuning!cohorts
    <2>6. Bounded
      BY <1>3, <1>12 DEF Tuning!InsertsHistory
    <2> QED
      BY <1>5, <2>3, <2>4, <2>5, <2>6
  <1>13. ASSUME NEW t \in Threads, Tuning!Remembers(t)
         PROVE  TuningTyped'
    <2>1. Past
      <3>1. PICK n : n = thread[t].version
        OBVIOUS
      <3>2. past' = past \/ past' = {IF h.version = n THEN [h EXCEPT !.reverted = TRUE] ELSE h : h \in past}
        BY <1>13, <3>1 DEF Tuning!Remembers, Tuning!Finish, Tuning!Reverted
      <3>3. ASSUME NEW h \in past
            PROVE  (IF h.version = n THEN [h EXCEPT !.reverted = TRUE] ELSE h)
                     \in [version : Tuning!Versions, previous : Tuning!Versions, reverted : BOOLEAN]
        <4>1. PICK r \in BOOLEAN : r = TRUE
          OBVIOUS
        <4>2. [h EXCEPT !.reverted = r] \in [version : Tuning!Versions, previous : Tuning!Versions, reverted : BOOLEAN]
          BY <3>3 DEF TuningTyped
        <4> QED
          BY <3>3, <4>1, <4>2 DEF TuningTyped
      <3>4. CASE past' = past
        BY <3>4 DEF TuningTyped
      <3>5. CASE past' = {IF h.version = n THEN [h EXCEPT !.reverted = TRUE] ELSE h : h \in past}
        <4> SUFFICES ASSUME NEW x \in past'
                     PROVE  x \in [version : Tuning!Versions, previous : Tuning!Versions, reverted : BOOLEAN]
          OBVIOUS
        <4>1. PICK h \in past : x = (IF h.version = n THEN [h EXCEPT !.reverted = TRUE] ELSE h)
          BY <3>5
        <4> QED
          BY <3>3, <4>1
      <3> QED
        BY <3>2, <3>4, <3>5
    <2>2. CohortsTyped'
      <3>1. /\ experiment' = experiment \/ experiment' = [experiment EXCEPT !.status = "completed"]
            /\ UNCHANGED <<assigned, inserting, assignment>>
        BY <1>13 DEF Tuning!Remembers, Tuning!Finish, Tuning!cohorts
      <3> QED
        BY <3>1, CohortsStay DEF TuningTyped
    <2>3. thread' = [thread EXCEPT ![t] = Tuning!Idle] /\ UNCHANGED rows
      BY <1>13 DEF Tuning!Remembers, Tuning!Finish
    <2>4. Tuning!Idle.version = 0
      BY DEF Tuning!Idle
    <2>5. Bounded
      BY <1>1, <2>3, <2>4 DEF TuningTyped
    <2> QED
      BY <1>5, <2>1, <2>2, <2>3, <2>5
  <1>14. ASSUME NEW s \in Processes, Tuning!Restart(s)
         PROVE  TuningTyped'
    <2>1. Tuning!Idle.version = 0
      BY DEF Tuning!Idle
    <2>2. /\ thread' = [t \in Threads |-> IF ProcessOf[t] = s THEN Tuning!Idle ELSE thread[t]]
          /\ UNCHANGED <<rows, past>>
      BY <1>14 DEF Tuning!Restart
    <2>3. Bounded
      BY <1>1, <2>1, <2>2 DEF TuningTyped
    <2>4. CohortsTyped'
      <3>1. PICK row \in {"none", "stored"} : row = IF experiment.row = "stored" THEN "stored" ELSE "none"
        OBVIOUS
      <3>2. CASE experiment.at = s
        <4>1. /\ experiment' = [at |-> None, status |-> "lost", row |-> row] /\ UNCHANGED assignment
              /\ assigned' = [p \in TestPlayers |-> None] /\ inserting' = {}
          BY <1>14, <3>1, <3>2 DEF Tuning!Restart
        <4> QED
          BY <4>1 DEF TuningTyped, CohortsTyped
      <3>3. CASE experiment.at # s
        BY <1>14, <3>3, CohortsStay DEF Tuning!Restart, TuningTyped
      <3> QED
        BY <3>2, <3>3
    <2>5. Past
      BY <2>2 DEF TuningTyped
    <2> QED
      BY <1>5, <2>2, <2>3, <2>4, <2>5
  <1>15. ASSUME \/ \E s \in Processes : Tuning!CreateExperiment(s)
                \/ \E p \in TestPlayers : Tuning!AssignPlayerToCohort(p) \/ Tuning!InsertsAssignment(p)
                \/ Tuning!InsertsExperiment \/ Tuning!CompletesExperiment
         PROVE  TuningTyped'
    <2>1. CohortsTyped'
      BY <1>15, CohortsStep DEF TuningTyped
    <2>2. UNCHANGED <<rows, past, known, thread>>
      BY <1>15 DEF Tuning!CreateExperiment, Tuning!InsertsExperiment, Tuning!CompletesExperiment,
          Tuning!AssignPlayerToCohort, Tuning!InsertsAssignment, Tuning!tuning
    <2> QED
      BY <1>1, <2>1, <2>2 DEF TuningTyped
  <1>16. CASE UNCHANGED tuningVars
    BY <1>1, <1>16 DEF tuningVars, TuningTyped, CohortsTyped
  <1> QED
    BY <1>6, <1>7, <1>8, <1>9, <1>10, <1>11, <1>12, <1>13, <1>14, <1>15, <1>16 DEF Tuning!Next

LEMMA TuningIsTyped == Spec => []Tuning!TypeOK
  <1>1. Init => TuningTyped
    <2> SUFFICES ASSUME Tuning!Init PROVE TuningTyped
      BY DEF Init
    <2>1. TuningInv /\ MaxVersion \in Nat \ {0}
      BY OperationsAssumption, TuningInitInvariant DEF OperationsAssumption, Tuning!TuningAssumption
    <2>2. rows = <<>> /\ Len(<<>>) = 0 /\ past = {} /\ CohortsTyped
      BY EmptySeq DEF Tuning!Init, CohortsTyped
    <2>3. \A t \in Threads : thread[t].version = 0
      BY DEF Tuning!Init, Tuning!Idle
    <2> QED
      BY <2>1, <2>2, <2>3 DEF TuningTyped
  <1>2. TuningTyped /\ [Next]_vars => TuningTyped'
    BY OperationsAssumption, TuningTypedStep, Steps DEF OperationsAssumption
  <1>3. TuningTyped => Tuning!TypeOK
    <2> SUFFICES ASSUME TuningTyped PROVE Tuning!TypeOK
      OBVIOUS
    <2>1. thread \in [Threads -> [step : {"idle", "promoting", "locked", "read", "inserted", "logged"},
            op : {"set", "rollback", "promote", None}, version : 0 .. MaxVersion, value : Tuning!Parameters]]
      <3>1. thread \in [Threads -> TuningThreads] /\ MaxVersion \in Nat
        BY OperationsAssumption
        DEF OperationsAssumption, Tuning!TuningAssumption, TuningTyped, TuningInv, TuningTypesOK
      <3>2. ASSUME NEW t \in Threads
            PROVE  thread[t] \in [step : {"idle", "promoting", "locked", "read", "inserted", "logged"},
              op : {"set", "rollback", "promote", None}, version : 0 .. MaxVersion, value : Tuning!Parameters]
        <4>1. PICK k \in TuningThreads : k = thread[t]
          BY <3>1
        <4>2. k.version \in 0 .. MaxVersion
          BY <3>1, <4>1 DEF TuningTyped, TuningThreads
        <4> QED
          BY <4>1, <4>2 DEF TuningThreads
      <3> QED
        BY <3>1, <3>2
    <2> QED
      BY <2>1 DEF TuningTyped, CohortsTyped, TuningInv, TuningTypesOK, Tuning!TypeOK, Tuning!Latest
  <1> QED
    BY <1>1, <1>2, <1>3, PTL DEF Spec


CleanupTyped ==
  /\ CleanupInv
  /\ persisted \in BOOLEAN
  /\ worker \in [step : {"calling", "sleeping", "dead"}, rest : 0 .. 2 * (Interval + BackoffMax),
                 failures : 0 .. MaxFailures]

\* The worker sleeps a second at least, and no longer than the interval or the longest back-off.
LEMMA SleepIsBounded ==
  ASSUME Cleanup!MaintenanceAssumption, NEW elapsed \in 0 .. MaxElapsed, NEW n \in 0 .. MaxFailures
  PROVE  2 * Cleanup!SleepSeconds(elapsed, n) \in 0 .. 2 * (Interval + BackoffMax)
  <1>1. Interval \in Nat \ {0} /\ BackoffMax \in Nat \ {0} /\ n \in Nat /\ elapsed \in Nat
    BY DEF Cleanup!MaintenanceAssumption
  <1>2. n # 0 => Interval * 2 ^ (n - 1) \in Int
    <2>1. n # 0 => n - 1 \in Nat
      BY <1>1
    <2>2. ASSUME NEW k \in Nat PROVE 2 ^ k \in Int
      OBVIOUS
    <2>3. PICK x : x = 2 ^ (n - 1)
      OBVIOUS
    <2>4. n # 0 => x \in Int
      BY <2>1, <2>2, <2>3
    <2> QED
      BY <1>1, <2>3, <2>4
  <1>3. PICK b : b = IF n = 0 THEN Interval ELSE Cleanup!Backoff(n)
    OBVIOUS
  <1>4. b \in Int /\ b <= Interval + BackoffMax
    <2>1. CASE n = 0
      BY <1>1, <1>3, <2>1
    <2>2. CASE n # 0
      <3>1. PICK y \in Int : y = Interval * 2 ^ (n - 1)
        BY <1>2, <2>2
      <3>2. b = IF BackoffMax < y THEN BackoffMax ELSE y
        BY <1>3, <2>2, <3>1 DEF Cleanup!Backoff, Cleanup!Least
      <3> QED
        BY <1>1, <3>1, <3>2
    <2> QED
      BY <2>1, <2>2
  <1>5. Cleanup!SleepSeconds(elapsed, n) = IF b - elapsed < 1 THEN 1 ELSE b - elapsed
    BY <1>3 DEF Cleanup!SleepSeconds
  <1> QED
    BY <1>1, <1>4, <1>5

LEMMA CleanupTypedStep ==
  ASSUME Cleanup!MaintenanceAssumption, CleanupTyped, [Cleanup!Next]_cleanupVars
  PROVE  CleanupTyped'
  <1>1. CleanupInv'
    BY CleanupStepInvariant DEF CleanupTyped
  <1> DEFINE Workers == [step : {"calling", "sleeping", "dead"}, rest : 0 .. 2 * (Interval + BackoffMax),
                         failures : 0 .. MaxFailures]
  <1>2. PICK w \in Workers : w = worker
    BY DEF CleanupTyped
  <1>3. UNCHANGED persisted
    BY DEF Cleanup!Next, Cleanup!OthersCall, Cleanup!WorkerCalls, Cleanup!WorkerWakes, Cleanup!HalfSecond,
       Cleanup!ServerRestarts, Cleanup!WorkerDies, Cleanup!WorkerSucceeds, Cleanup!WorkerFails, cleanupVars
  <1>4. ASSUME worker' \in Workers
        PROVE  CleanupTyped'
    BY <1>1, <1>3, <1>4 DEF CleanupTyped
  <1>5. ASSUME NEW lag \in Lags, Cleanup!OthersCall(lag)
        PROVE  CleanupTyped'
    <2>1. worker' \in Workers
      BY <1>2, <1>5 DEF Cleanup!OthersCall
    <2> QED
      BY <1>4, <2>1
  <1>6. ASSUME NEW elapsed \in 0 .. MaxElapsed, NEW n \in 0 .. MaxFailures, Cleanup!Sleeps(elapsed, n)
        PROVE  worker' \in Workers
    <2>1. PICK s \in 0 .. 2 * (Interval + BackoffMax) : s = 2 * Cleanup!SleepSeconds(elapsed, n)
      BY SleepIsBounded
    <2> QED
      BY <1>6, <2>1 DEF Cleanup!Sleeps
  <1>7. 0 \in 0 .. MaxFailures /\ Cleanup!Failed \in 0 .. MaxFailures
    <2>1. w.failures \in Nat /\ MaxFailures \in Nat /\ w.failures <= MaxFailures
      BY DEF Cleanup!MaintenanceAssumption
    <2> QED
      BY <1>2, <2>1 DEF Cleanup!Failed, Cleanup!Least
  <1>8. ASSUME NEW elapsed \in 0 .. MaxElapsed, NEW lag \in Lags,
               Cleanup!WorkerSucceeds(elapsed, lag) \/ Cleanup!WorkerFails(elapsed, lag)
        PROVE  CleanupTyped'
    <2>1. PICK n \in 0 .. MaxFailures : Cleanup!Sleeps(elapsed, n)
      BY <1>7, <1>8 DEF Cleanup!WorkerSucceeds, Cleanup!WorkerFails
    <2> QED
      BY <1>4, <1>6, <2>1
  <1>9. CASE Cleanup!WorkerDies \/ Cleanup!WorkerWakes
    <2>1. PICK s \in {"calling", "dead"} : worker' = [w EXCEPT !.step = s]
      BY <1>2, <1>9 DEF Cleanup!WorkerDies, Cleanup!WorkerWakes
    <2>2. worker' \in Workers
      BY <2>1
    <2> QED
      BY <1>4, <2>2
  <1>10. CASE Cleanup!HalfSecond
    <2>6. PICK m : m = IF w.rest > 0 THEN w.rest - 1 ELSE w.rest
      OBVIOUS
    <2>7. m \in 0 .. 2 * (Interval + BackoffMax)
      <3>1. PICK top \in Nat : top = 2 * (Interval + BackoffMax)
        BY DEF Cleanup!MaintenanceAssumption
      <3>2. w.rest \in 0 .. top
        BY <3>1
      <3>3. m \in 0 .. top
        BY <2>6, <3>1, <3>2
      <3> QED
        BY <3>1, <3>3
    <2>8. worker' = [w EXCEPT !.rest = m]
      BY <1>2, <1>10, <2>6 DEF Cleanup!HalfSecond
    <2>9. worker' \in Workers
      BY <2>7, <2>8
    <2> QED
      BY <1>4, <2>9
  <1>11. CASE Cleanup!ServerRestarts
    <2>1. worker' \in Workers
      BY <1>2, <1>11 DEF Cleanup!ServerRestarts
    <2> QED
      BY <1>4, <2>1
  <1>12. CASE UNCHANGED cleanupVars
    <2>1. worker' \in Workers
      BY <1>2, <1>12 DEF cleanupVars
    <2> QED
      BY <1>4, <2>1
  <1> QED
    BY <1>5, <1>8, <1>9, <1>10, <1>11, <1>12 DEF Cleanup!Next, Cleanup!WorkerCalls

LEMMA CleanupIsTyped == Spec => []Cleanup!TypeOK
  <1>1. Init => CleanupTyped
    <2> SUFFICES ASSUME Cleanup!Init PROVE CleanupTyped
      BY DEF Init
    <2>1. CleanupInv /\ Interval \in Nat /\ BackoffMax \in Nat /\ MaxFailures \in Nat
      BY OperationsAssumption, CleanupInitInvariant
      DEF OperationsAssumption, Cleanup!MaintenanceAssumption
    <2>2. 0 \in 0 .. 2 * (Interval + BackoffMax) /\ 0 \in 0 .. MaxFailures
      BY <2>1
    <2>3. worker \in [step : {"calling", "sleeping", "dead"}, rest : 0 .. 2 * (Interval + BackoffMax),
                      failures : 0 .. MaxFailures]
      BY <2>2 DEF Cleanup!Init
    <2>4. persisted \in BOOLEAN
      BY DEF Cleanup!Init
    <2> QED
      BY <2>1, <2>3, <2>4 DEF CleanupTyped
  <1>2. CleanupTyped /\ [Next]_vars => CleanupTyped'
    BY OperationsAssumption, CleanupTypedStep, Steps DEF OperationsAssumption
  <1>3. CleanupTyped => Cleanup!TypeOK
    <2> SUFFICES ASSUME CleanupTyped PROVE Cleanup!TypeOK
      OBVIOUS
    <2>1. limiter.age \in 0 .. Cleanup!Oldest /\ limiter.count \in 0 .. MaxRequests
      BY DEF CleanupTyped, CleanupInv, CleanupTypesOK
    <2>2. \A a \in Cleanup!Ages : {stamps[a], granted[a]} \subseteq Nat
      BY DEF CleanupTyped, CleanupInv, CleanupTypesOK
    <2> QED
      BY <2>1, <2>2 DEF CleanupTyped, Cleanup!TypeOK
  <1> QED
    BY <1>1, <1>2, <1>3, PTL DEF Spec

-----------------------------------------------------------------------------
(* Forks, as in Services_proof but for their types alone. *)

ForkCalls == [step : {"idle", "resolving", "cancelling"}, event : Events \cup {None},
              winner : Forks!BranchSet \cup {None}, delta : [Forks!PlayerSet -> Int],
              late : BOOLEAN, moved : SUBSET Forks!PlayerSet]
ForkEvents == [status : {"scheduled", "active", "completed", "cancelled"}, ended : BOOLEAN,
               winner : Forks!BranchSet \cup {None}, meddled : BOOLEAN]

ForksTyped ==
  /\ event \in [Events -> ForkEvents]
  /\ branch \in [Events -> [Forks!BranchSet -> Nat \cup {None}]]
  /\ score \in [Events -> [Forks!PlayerSet -> Nat \cup {None}]]
  /\ rewards \in [Events -> [Forks!PlayerSet -> 0 .. 2]]
  /\ snapshot \in [Events -> [Forks!PlayerSet -> Int \cup {None}]]
  /\ balance \in [Forks!PlayerSet -> Int \cup {None}]
  /\ call \in [Forks!Actors -> ForkCalls]
  /\ \A a \in Forks!Actors : call[a].step # "idle" => call[a].event \in Events
  /\ queue \subseteq Events /\ resolved \subseteq Events /\ announced \subseteq Events

LEMMA ForkIdle ==
  /\ Forks!Idle \in ForkCalls
  /\ Forks!Idle.step = "idle"
  BY DEF Forks!Idle, ForkCalls

\* Calls that are open are marked; nothing else of them changes.
LEMMA MovedCalls ==
  ASSUME NEW c \in [Forks!Actors -> ForkCalls], NEW S \in SUBSET Forks!PlayerSet
  PROVE  /\ Forks!Moved(c, S) \in [Forks!Actors -> ForkCalls]
         /\ \A a \in Forks!Actors : Forks!Moved(c, S)[a].step = c[a].step /\ Forks!Moved(c, S)[a].event = c[a].event
  <1>1. ASSUME NEW a \in Forks!Actors
        PROVE  /\ Forks!Moved(c, S)[a] \in ForkCalls
               /\ Forks!Moved(c, S)[a].step = c[a].step /\ Forks!Moved(c, S)[a].event = c[a].event
    <2>1. PICK r \in ForkCalls : r = c[a]
      OBVIOUS
    <2>2. PICK q : q = [r EXCEPT !.moved = r.moved \cup S]
      OBVIOUS
    <2>3. Forks!Moved(c, S)[a] = IF r.step = "idle" THEN r ELSE q
      BY <2>1, <2>2 DEF Forks!Moved
    <2>4. q \in ForkCalls /\ q.step = r.step /\ q.event = r.event
      BY <2>2 DEF ForkCalls
    <2> QED
      BY <2>1, <2>3, <2>4
  <1>2. Forks!Moved(c, S) = [a \in Forks!Actors |-> Forks!Moved(c, S)[a]]
    BY DEF Forks!Moved
  <1> QED
    BY <1>1, <1>2

\* Of two branches or more, one leads.
LEMMA LeaderIsBranch ==
  ASSUME Forks!EventsAssumption, ForksTyped, NEW e \in Events, Forks!Cardinality(Forks!Created(e)) >= 2
  PROVE  Forks!Leader(e) \in Forks!BranchSet
  <1>1. PICK x, y : x = Branches[1] /\ y = Branches[2] /\ Forks!BranchSet = {x, y}
    BY DEF Forks!EventsAssumption, Forks!BranchSet, Forks!Range
  <1>2. Forks!Created(e) \subseteq {x, y} /\ \A b \in Forks!Created(e) : branch[e][b] \in Nat
    BY <1>1 DEF Forks!Created, ForksTyped
  <1>3. Forks!Created(e) # {}
    <2>1. Forks!Cardinality({}) = Cardinality({})
      BY DEF Forks!Cardinality, Cardinality
    <2> QED
      BY <2>1, FS_EmptySet
  <1> DEFINE Leads(b) == \A c \in Forks!Created(e) \ {b} :
               branch[e][b] > branch[e][c] \/ (branch[e][b] = branch[e][c] /\ b = x)
  <1>4. \E b \in Forks!Created(e) : Leads(b)
    <2>1. CASE x \in Forks!Created(e) /\ (y \in Forks!Created(e) => branch[e][x] >= branch[e][y])
      BY <1>2, <2>1
    <2>2. CASE y \in Forks!Created(e) /\ (x \in Forks!Created(e) => branch[e][y] > branch[e][x])
      BY <1>2, <2>2
    <2> QED
      BY <1>2, <1>3, <2>1, <2>2
  <1>5. Forks!Leader(e) = CHOOSE b \in Forks!Created(e) : Leads(b)
    BY <1>1 DEF Forks!Leader
  <1> QED
    BY <1>1, <1>2, <1>4, <1>5

\* The ledger sum of a player without entries is nothing.
LEMMA CreditsAreInt ==
  ASSUME ForksTyped, NEW p \in Forks!PlayerSet
  PROVE  Forks!Credits(p) \in Int
  BY DEF ForksTyped, Forks!Credits

LEMMA ForksTypedInit ==
  ASSUME Forks!EventsAssumption, Forks!Init
  PROVE  ForksTyped
  BY ForkIdle DEF Forks!Init, ForksTyped, ForkEvents

\* A step that rewrites an event.
LEMMA EventIsTyped ==
  ASSUME ForksTyped, NEW e \in Events, NEW s \in {"active", "completed", "cancelled"}, NEW m \in BOOLEAN,
         NEW w \in Forks!BranchSet \cup {None}
  PROVE  /\ [event EXCEPT ![e].status = s, ![e].meddled = m] \in [Events -> ForkEvents]
         /\ [event EXCEPT ![e].status = s, ![e].winner = w, ![e].meddled = m] \in [Events -> ForkEvents]
         /\ [event EXCEPT ![e].ended = TRUE] \in [Events -> ForkEvents]
         /\ event[e].meddled \in BOOLEAN
  <1>1. PICK r \in ForkEvents : r = event[e]
    BY DEF ForksTyped
  <1>2. /\ [r EXCEPT !.status = s, !.meddled = m] \in ForkEvents
        /\ [r EXCEPT !.status = s, !.winner = w, !.meddled = m] \in ForkEvents
        /\ [r EXCEPT !.ended = TRUE] \in ForkEvents
        /\ r.meddled \in BOOLEAN
    BY DEF ForkEvents
  <1> QED
    BY <1>1, <1>2 DEF ForksTyped

\* An actor starts a call.
LEMMA ForkCallStarts ==
  ASSUME ForksTyped, NEW a \in Forks!Actors, NEW r \in ForkCalls, r.event \in Events,
         call' = [call EXCEPT ![a] = r],
         UNCHANGED <<event, branch, score, rewards, snapshot, balance, queue, resolved, announced>>
  PROVE  ForksTyped'
  <1>1. call' \in [Forks!Actors -> ForkCalls]
    BY DEF ForksTyped
  <1>2. \A b \in Forks!Actors : call'[b].step # "idle" => call'[b].event \in Events
    BY DEF ForksTyped
  <1> QED
    BY <1>1, <1>2 DEF ForksTyped

LEMMA ForkReads ==
  ASSUME Forks!EventsAssumption, ForksTyped, NEW a \in Forks!Actors, NEW e \in Events,
         Forks!Cardinality(Forks!Created(e)) >= 2, Forks!Reads(a, e),
         UNCHANGED <<event, branch, score, rewards, snapshot, balance, queue, resolved, announced>>
  PROVE  ForksTyped'
  <1>1. PICK w \in Forks!BranchSet : w = Forks!Leader(e)
    BY LeaderIsBranch
  <1>2. PICK r : r = [Forks!Idle EXCEPT !.step = "resolving", !.event = e, !.winner = w]
    OBVIOUS
  <1>3. r \in ForkCalls /\ r.event = e
    BY <1>2, ForkIdle DEF ForkCalls
  <1>4. call' = [call EXCEPT ![a] = r]
    BY <1>1, <1>2 DEF Forks!Reads
  <1> QED
    BY <1>3, <1>4, ForkCallStarts

\* The second half of a resolution.
LEMMA ResolutionTyped ==
  ASSUME Forks!EventsAssumption, ForksTyped, NEW a \in Forks!Actors, Forks!Resolution(a),
         queue' \subseteq Events, resolved' \subseteq Events \cup {call[a].event}, announced' = announced
  PROVE  ForksTyped'
  <1>1. PICK c \in ForkCalls : c = call[a]
    BY DEF ForksTyped
  <1>2. PICK e \in Events : e = c.event
    BY <1>1 DEF Forks!Resolution, ForksTyped
  <1>3. PICK w \in Forks!BranchSet \cup {None} : w = c.winner
    BY DEF ForkCalls
  <1>4. PICK m \in BOOLEAN : m = (event[e].meddled \/ a # Worker)
    OBVIOUS
  <1>5. /\ event' = [event EXCEPT ![e].status = "completed", ![e].winner = w, ![e].meddled = m]
        /\ call' = [call EXCEPT ![a] = Forks!Idle] /\ UNCHANGED <<branch, score, snapshot, balance>>
    BY <1>1, <1>2, <1>3, <1>4 DEF Forks!Resolution
  <1>6. event' \in [Events -> ForkEvents]
    BY <1>5, EventIsTyped
  <1>7. PICK f : f = [p \in Forks!PlayerSet |->
          IF p \in {q \in Forks!Contributors(e) : Forks!ComputedRank(e, q) <= TopRanks} /\ rewards[e][p] < 2
            THEN rewards[e][p] + 1 ELSE rewards[e][p]]
    OBVIOUS
  <1>8. rewards' = [rewards EXCEPT ![e] = f]
    BY <1>1, <1>2, <1>7 DEF Forks!Resolution
  <1>9. ASSUME NEW p \in Forks!PlayerSet
        PROVE  f[p] \in 0 .. 2
    <2>1. PICK n \in 0 .. 2 : n = rewards[e][p]
      BY DEF ForksTyped
    <2>2. (f[p] = n + 1 /\ n < 2) \/ f[p] = n
      BY <1>7, <2>1
    <2> QED
      BY <2>2
  <1>10. f \in [Forks!PlayerSet -> 0 .. 2]
    BY <1>7, <1>9
  <1>11. rewards' \in [Events -> [Forks!PlayerSet -> 0 .. 2]]
    BY <1>8, <1>10 DEF ForksTyped
  <1>12. /\ call' \in [Forks!Actors -> ForkCalls]
         /\ \A b \in Forks!Actors : call'[b].step # "idle" => call'[b].event \in Events
    BY <1>5, ForkIdle DEF ForksTyped
  <1>13. resolved' \subseteq Events
    BY <1>1, <1>2
  <1> QED
    BY <1>5, <1>6, <1>11, <1>12, <1>13 DEF ForksTyped

LEMMA CancelReadsTyped ==
  ASSUME Forks!EventsAssumption, ForksTyped, NEW h \in Handlers, NEW e \in Events, Forks!CancelReads(h, e)
  PROVE  ForksTyped'
  <1>1. PICK d : d = [p \in Forks!PlayerSet |-> IF snapshot[e][p] = None THEN 0 ELSE snapshot[e][p] - Forks!Credits(p)]
    OBVIOUS
  <1>2. d \in [Forks!PlayerSet -> Int]
    <2>1. ASSUME NEW p \in Forks!PlayerSet
          PROVE  d[p] \in Int
      <3>1. snapshot[e][p] \in Int \cup {None} /\ Forks!Credits(p) \in Int
        BY CreditsAreInt DEF ForksTyped
      <3> QED
        BY <1>1, <3>1
    <2> QED
      BY <1>1, <2>1
  <1>3. PICK r : r = [Forks!Idle EXCEPT !.step = "cancelling", !.event = e, !.delta = d]
    OBVIOUS
  <1>4. r \in ForkCalls /\ r.event = e
    BY <1>2, <1>3, ForkIdle DEF ForkCalls
  <1>5. /\ call' = [call EXCEPT ![h] = r]
        /\ UNCHANGED <<event, branch, score, rewards, snapshot, balance, queue, resolved, announced>>
    BY <1>1, <1>3 DEF Forks!CancelReads, Forks!world, Forks!round
  <1>6. h \in Forks!Actors
    BY DEF Forks!Actors
  <1> QED
    BY <1>4, <1>5, <1>6, ForkCallStarts

LEMMA CancelCommitsTyped ==
  ASSUME Forks!EventsAssumption, ForksTyped, NEW h \in Handlers, Forks!CancelCommits(h)
  PROVE  ForksTyped'
  <1>1. h \in Forks!Actors
    BY DEF Forks!Actors
  <1>2. PICK c \in ForkCalls : c = call[h] /\ c.step = "cancelling"
    BY <1>1 DEF Forks!CancelCommits, ForksTyped
  <1>3. PICK e \in Events : e = c.event
    BY <1>1, <1>2 DEF ForksTyped
  <1>4. PICK d \in [Forks!PlayerSet -> Int] : d = c.delta
    BY DEF ForkCalls
  <1>5. PICK S \in SUBSET Forks!PlayerSet : S = {p \in Forks!PlayerSet : d[p] # 0}
    OBVIOUS
  <1>6. PICK k : k = [call EXCEPT ![h] = Forks!Idle]
    OBVIOUS
  <1>7. /\ balance' = [p \in Forks!PlayerSet |-> IF d[p] = 0 THEN balance[p] ELSE Forks!Credits(p) + d[p]]
        /\ event' = [event EXCEPT ![e].status = "cancelled", ![e].meddled = TRUE]
        /\ call' = Forks!Moved(k, S)
        /\ UNCHANGED <<branch, score, rewards, snapshot, queue, resolved, announced>>
    BY <1>2, <1>3, <1>4, <1>5, <1>6 DEF Forks!CancelCommits, Forks!round
  <1>8. /\ k \in [Forks!Actors -> ForkCalls]
        /\ \A a \in Forks!Actors : k[a].step # "idle" => k[a].event \in Events
    BY <1>1, <1>6, ForkIdle DEF ForksTyped
  <1>9. /\ call' \in [Forks!Actors -> ForkCalls]
        /\ \A a \in Forks!Actors : call'[a].step # "idle" => call'[a].event \in Events
    BY <1>7, <1>8, MovedCalls
  <1>10. PICK m \in BOOLEAN : m = TRUE
    OBVIOUS
  <1>11. PICK w \in Forks!BranchSet \cup {None} : w = None
    OBVIOUS
  <1>12. event' \in [Events -> ForkEvents]
    BY <1>7, <1>10, EventIsTyped
  <1>13. balance' \in [Forks!PlayerSet -> Int \cup {None}]
    <2>1. ASSUME NEW p \in Forks!PlayerSet
          PROVE  balance'[p] \in Int \cup {None}
      <3>1. balance[p] \in Int \cup {None} /\ Forks!Credits(p) + d[p] \in Int
        BY <1>4, CreditsAreInt DEF ForksTyped
      <3> QED
        BY <1>7, <3>1
    <2> QED
      BY <1>7, <2>1
  <1> QED
    BY <1>7, <1>9, <1>12, <1>13 DEF ForksTyped

LEMMA ContributionTyped ==
  ASSUME Forks!EventsAssumption, ForksTyped, NEW e \in Events, NEW b \in Forks!BranchSet,
         NEW p \in Forks!PlayerSet, Forks!RecordBranchContribution(e, b, p)
  PROVE  ForksTyped'
  <1>1. PICK n : n = (IF score[e][p] = None THEN 0 ELSE score[e][p]) + 1
    OBVIOUS
  <1>2. /\ branch[e][b] # None /\ branch' = [branch EXCEPT ![e][b] = branch[e][b] + 1]
        /\ score' = [score EXCEPT ![e][p] = n]
        /\ call' = [a \in Forks!Actors |-> IF call[a].event = e THEN [call[a] EXCEPT !.late = TRUE] ELSE call[a]]
        /\ UNCHANGED <<event, rewards, snapshot, balance, queue, resolved, announced>>
    BY <1>1 DEF Forks!RecordBranchContribution, Forks!round
  <1>3. n \in Nat /\ branch[e][b] + 1 \in Nat
    BY <1>1, <1>2 DEF ForksTyped
  <1>4. ASSUME NEW a \in Forks!Actors
        PROVE  call'[a] \in ForkCalls /\ call'[a].step = call[a].step /\ call'[a].event = call[a].event
    <2>1. PICK r \in ForkCalls : r = call[a]
      BY DEF ForksTyped
    <2>2. PICK q : q = [r EXCEPT !.late = TRUE]
      OBVIOUS
    <2>3. q \in ForkCalls /\ q.step = r.step /\ q.event = r.event
      BY <2>2 DEF ForkCalls
    <2>4. call'[a] = IF r.event = e THEN q ELSE r
      BY <1>2, <2>1, <2>2
    <2> QED
      BY <2>1, <2>3, <2>4
  <1>5. call' \in [Forks!Actors -> ForkCalls]
    <2>1. call' = [a \in Forks!Actors |-> call'[a]]
      BY <1>2
    <2> QED
      BY <1>4, <2>1
  <1>6. \A a \in Forks!Actors : call'[a].step # "idle" => call'[a].event \in Events
    BY <1>4 DEF ForksTyped
  <1>7. score' \in [Events -> [Forks!PlayerSet -> Nat \cup {None}]]
    BY <1>2, <1>3 DEF ForksTyped
  <1>8. branch' \in [Events -> [Forks!BranchSet -> Nat \cup {None}]]
    BY <1>2, <1>3 DEF ForksTyped
  <1> QED
    BY <1>2, <1>5, <1>6, <1>7, <1>8 DEF ForksTyped

LEMMA LedgerMoveTyped ==
  ASSUME ForksTyped, NEW p \in Forks!PlayerSet, NEW n \in {-1, 1}, Forks!LedgerMoves(p, n)
  PROVE  ForksTyped'
  <1>1. /\ balance' = [balance EXCEPT ![p] = Forks!Credits(p) + n] /\ call' = Forks!Moved(call, {p})
        /\ UNCHANGED <<event, branch, score, rewards, snapshot, queue, resolved, announced>>
    BY DEF Forks!LedgerMoves, Forks!round
  <1>2. /\ call' \in [Forks!Actors -> ForkCalls]
        /\ \A a \in Forks!Actors : call'[a].step # "idle" => call'[a].event \in Events
    <2>1. PICK S \in SUBSET Forks!PlayerSet : S = {p}
      OBVIOUS
    <2>2. PICK c \in [Forks!Actors -> ForkCalls] : c = call
      BY DEF ForksTyped
    <2>3. call' = Forks!Moved(c, S)
      BY <1>1, <2>1, <2>2
    <2>4. \A a \in Forks!Actors : c[a].step # "idle" => c[a].event \in Events
      BY <2>2 DEF ForksTyped
    <2> QED
      BY <2>3, <2>4, MovedCalls
  <1>3. Forks!Credits(p) + n \in Int
    BY CreditsAreInt
  <1> QED
    BY <1>1, <1>2, <1>3 DEF ForksTyped

LEMMA ForksTypedStep ==
  ASSUME Forks!EventsAssumption, ForksTyped, [Forks!Next]_eventVars
  PROVE  ForksTyped'
  <1>1. Worker \in Forks!Actors /\ Handlers \subseteq Forks!Actors
    BY DEF Forks!Actors
  <1>2. ASSUME NEW e \in Events, Forks!ActivateEvent(e)
        PROVE  ForksTyped'
    <2>1. PICK m \in BOOLEAN, w \in Forks!BranchSet \cup {None} :
            m = (event[e].meddled \/ event[e].status # "scheduled") /\ w = None
      OBVIOUS
    <2>2. /\ event' = [event EXCEPT ![e].status = "active", ![e].meddled = m]
          /\ snapshot' = [snapshot EXCEPT ![e] =
               [p \in Forks!PlayerSet |-> IF snapshot[e][p] = None THEN balance[p] ELSE snapshot[e][p]]]
          /\ UNCHANGED <<branch, score, rewards, balance, call, queue, resolved, announced>>
      BY <1>2, <2>1 DEF Forks!ActivateEvent, Forks!round
    <2>3. event' \in [Events -> ForkEvents]
      BY <2>1, <2>2, EventIsTyped
    <2>4. snapshot' \in [Events -> [Forks!PlayerSet -> Int \cup {None}]]
      BY <2>2 DEF ForksTyped
    <2> QED
      BY <2>2, <2>3, <2>4 DEF ForksTyped
  <1>3. ASSUME NEW e \in Events, Forks!EndPasses(e)
        PROVE  ForksTyped'
    <2>1. PICK m \in BOOLEAN, w \in Forks!BranchSet \cup {None}, s \in {"active", "completed", "cancelled"} :
            w = None /\ s = "active"
      OBVIOUS
    <2>2. event' \in [Events -> ForkEvents]
      BY <1>3, <2>1, EventIsTyped DEF Forks!EndPasses
    <2> QED
      BY <1>3, <2>2 DEF ForksTyped, Forks!EndPasses, Forks!round
  <1>4. ASSUME NEW e \in Events, NEW b \in Forks!BranchSet, Forks!CreateBranch(e, b)
        PROVE  ForksTyped'
    BY <1>4 DEF ForksTyped, Forks!CreateBranch, Forks!round
  <1>5. ASSUME NEW h \in Handlers, NEW e \in Events, Forks!ResolveReads(h, e)
        PROVE  ForksTyped'
    <2>1. /\ h \in Forks!Actors /\ Forks!Cardinality(Forks!Created(e)) >= 2 /\ Forks!Reads(h, e)
          /\ UNCHANGED <<event, branch, score, rewards, snapshot, balance, queue, resolved, announced>>
      BY <1>1, <1>5 DEF Forks!ResolveReads, Forks!world, Forks!round
    <2> QED
      BY <2>1, ForkReads
  <1>6. ASSUME NEW h \in Handlers, Forks!ResolveCommits(h)
        PROVE  ForksTyped'
    <2>1. UNCHANGED <<queue, resolved, announced>>
      BY <1>6 DEF Forks!ResolveCommits, Forks!round
    <2>2. queue' \subseteq Events /\ resolved' \subseteq Events \cup {call[h].event}
      BY <2>1 DEF ForksTyped
    <2> QED
      BY <1>1, <1>6, <2>1, <2>2, ResolutionTyped DEF Forks!ResolveCommits
  <1>7. CASE Forks!WorkerReads
    <2>1. PICK e \in queue : Forks!Cardinality(Forks!Created(e)) >= 2 /\ Forks!Reads(Worker, e)
      BY <1>7 DEF Forks!WorkerReads
    <2>2. e \in Events /\ UNCHANGED <<event, branch, score, rewards, snapshot, balance, queue, resolved, announced>>
      BY <1>7 DEF Forks!WorkerReads, Forks!world, Forks!round, ForksTyped
    <2> QED
      BY <1>1, <2>1, <2>2, ForkReads
  <1>8. CASE Forks!WorkerCommits
    <2>1. /\ queue' \subseteq queue /\ resolved' = resolved \cup {call[Worker].event} /\ announced' = announced
      BY <1>8 DEF Forks!WorkerCommits
    <2>2. queue' \subseteq Events /\ resolved' \subseteq Events \cup {call[Worker].event}
      BY <2>1 DEF ForksTyped
    <2> QED
      BY <1>1, <1>8, <2>1, <2>2, ResolutionTyped DEF Forks!WorkerCommits
  <1>9. ASSUME Forks!WorkerSelects \/ Forks!WorkerRaises \/ Forks!WorkerAnnounces \/ UNCHANGED eventVars
        PROVE  ForksTyped'
    BY <1>9 DEF Forks!WorkerSelects, Forks!WorkerRaises, Forks!WorkerAnnounces, Forks!world,
        eventVars, ForksTyped
  <1> QED
    BY <1>2, <1>3, <1>4, <1>5, <1>6, <1>7, <1>8, <1>9, ContributionTyped, LedgerMoveTyped,
       CancelReadsTyped, CancelCommitsTyped DEF Forks!Next

LEMMA ForksAreTyped == Spec => []Forks!TypeOK
  <1>1. Init => ForksTyped
    BY OperationsAssumption, ForksTypedInit DEF Init, OperationsAssumption
  <1>2. ForksTyped /\ [Next]_vars => ForksTyped'
    BY OperationsAssumption, ForksTypedStep, Steps DEF OperationsAssumption
  <1>3. ForksTyped => Forks!TypeOK
    BY DEF ForksTyped, ForkEvents, ForkCalls, Forks!TypeOK
  <1> QED
    BY <1>1, <1>2, <1>3, PTL DEF Spec


\* However long operators, workers and the launcher run, and whatever the constants are.
THEOREM TypeCorrect == Spec => []TypeOK
  <1>1. Forks!TypeOK /\ Metrics!TypeOK /\ Cleanup!TypeOK /\ Launch!TypeOK /\ Migration!TypeOK
        /\ Tuning!TypeOK /\ Content!TypeOK /\ Validator!TypeOK /\ Console!TypeOK /\ Launcher!TypeOK => TypeOK
    BY DEF TypeOK
  <1> QED
    BY <1>1, ForksAreTyped, TelemetryIsTyped, CleanupIsTyped, LaunchIsTyped, MigrationIsTyped,
        TuningIsTyped,
       ContentIsTyped, ValidatorIsTyped, ConsoleIsTyped, LauncherIsTyped, PTL
=============================================================================
