--------------------------- MODULE StateSyncProofs ---------------------------
(* Theorems about StateSync. *)
EXTENDS StateSync, TLAPS

-----------------------------------------------------------------------------
(* The inductive invariant.                                                  *)

\* No file, archived or not, is newer than the last write.
Bounded ==
  \A f \in File : files[f] <= writes /\ remote[f] <= writes

\* There is no sync runner before the bot is started or after the container ended.
RunnerWithBot ==
  /\ main \in {"code", "state", "boot"} => sync = SyncOff /\ signal # "cleanup"
  /\ main = "down" => sync.pc = "off"

\* The files only move forward from the hash of the last upload, and a file in the
\* archive being made lies between the hash of this sync and the file as it is now.
SyncedFrom ==
  /\ sync.pc # "off" => \A f \in File : sync.lastHash[f] <= files[f]
  /\ sync.pc \in {"archive", "put"} =>
       /\ sync.hash # sync.lastHash
       /\ \A f \in File : /\ sync.lastHash[f] <= sync.hash[f]
                          /\ sync.hash[f] <= files[f]
                          /\ sync.archive[f] <= files[f]
                          /\ f \notin sync.left => sync.hash[f] <= sync.archive[f]
  /\ sync.pc = "archive" => ~sync.broken
  /\ sync.pc = "put" /\ ~sync.broken => sync.left = {}

\* Without damage the files, and the archive being made of them, are at least as
\* new as what is archived.
Ahead ==
  ~damaged =>
    /\ main \in {"boot", "bot", "cleanup"} => \A f \in File : remote[f] <= files[f]
    /\ main = "state" => \A f \in File \ left : remote[f] <= files[f]
    /\ sync.pc \in {"archive", "put"} =>
         \A f \in File \ sync.left : remote[f] <= sync.archive[f]

\* In a container without signal and fault the runner stops only after the bot has
\* ended, and by then the files are archived.
CleanRun ==
  clean =>
    /\ signal = "none" /\ ~cancelled /\ ~sync.broken
    /\ sync.stopping => main \in {"cleanup", "down"}
    /\ sync.final /\ sync.pc \in {"archive", "put"} => sync.hash = files
    /\ main = "bot" \/ (main = "cleanup" /\ ~sync.stopping) => sync.pc # "off"
    /\ main \in {"cleanup", "down"} /\ sync.pc = "off" => files = NoFiles \/ remote = files

IInv == TypeOK /\ Bounded /\ RunnerWithBot /\ SyncedFrom /\ SkipIsRight /\ Ahead /\ CleanRun

-----------------------------------------------------------------------------
\* A spent fault stays within its bound and spoils the container; otherwise neither
\* changes.
LEMMA FaultTyped ==
  ASSUME clean \in BOOLEAN, faults \in 0..MaxFaults, Fault \/ NoFault
  PROVE  /\ clean' \in BOOLEAN /\ faults' \in 0..MaxFaults
         /\ Fault => clean' = FALSE
         /\ NoFault => clean' = clean
<1>1. CASE Fault
  <2>1. faults + 1 \in 0..MaxFaults
    BY <1>1, ConstantsOK DEF Fault
  <2> QED BY <1>1, <2>1, Zenon DEF Fault, NoFault
<1>2. CASE ~Fault
  BY <1>2, Zenon DEF NoFault
<1> QED BY <1>1, <1>2

\* A record of the sync runner is rebuilt field by field.
LEMMA SyncOffTyped == SyncOff \in SyncState /\ NoFiles \in Content
  BY ConstantsOK DEF SyncOff, SyncState, NoFiles, Content

\* Init establishes the types.
LEMMA TypeInit == Init => TypeOK
<1> SUFFICES ASSUME Init PROVE TypeOK
  OBVIOUS
<1>1. 0 \in 0..MaxWrites /\ 0 \in 0..MaxStarts /\ 0 \in 0..MaxFaults
  BY ConstantsOK
<1>2. ~SyncOff.final
  BY DEF SyncOff
<1> QED BY <1>1, <1>2, SyncOffTyped, Zenon DEF Init, TypeOK

\* Every step keeps the types.
LEMMA TypeStep == TypeOK /\ [Next]_vars => TypeOK'
<1> SUFFICES ASSUME TypeOK, [Next]_vars PROVE TypeOK'
  OBVIOUS
<1> USE ConstantsOK, SyncOffTyped
<1>1. CASE RunBot
  <2>1. CASE Start
    <3>1. starts + 1 \in 0..MaxStarts
      BY <2>1 DEF Start, TypeOK
    <3>2. ~SyncOff.final
      BY DEF SyncOff
    <3> QED BY <2>1, <3>1, <3>2, Zenon DEF Start, TypeOK
  <2>2. CASE downloadCode
    BY <2>2 DEF downloadCode, TypeOK, botVars
  <2>3. CASE downloadCodeFails
    BY <2>3, FaultTyped DEF downloadCodeFails, TypeOK, CallFails, NoFault, botVars
  <2>4. ASSUME NEW f \in File, extractTarGz(f) PROVE TypeOK'
    BY <2>4 DEF extractTarGz, TypeOK, Content
  <2>5. CASE DownloadDone
    BY <2>5 DEF DownloadDone, TypeOK, botVars
  <2>6. CASE DownloadFails
    BY <2>6, FaultTyped DEF DownloadFails, TypeOK, CallFails, NoFault, botVars
  <2>7. CASE Boot
    BY <2>7, FaultTyped DEF Boot, TypeOK, SyncState, NoFault, botVars
  <2>8. ASSUME NEW f \in File, BotWrites(f) PROVE TypeOK'
    BY <2>8 DEF BotWrites, TypeOK, Content, runVars
  <2>9. CASE BotEnds
    BY <2>9 DEF BotEnds, TypeOK, botVars
  <2>10. CASE StopSync
    BY <2>10 DEF StopSync, TypeOK, SyncState, botVars, runVars
  <2>11. CASE Exit
    BY <2>11 DEF Exit, TypeOK, botVars
  <2>12. CASE SIGTERM
    BY <2>12 DEF SIGTERM, TypeOK, botVars
  <2>13. CASE CancelRun
    BY <2>13 DEF CancelRun, TypeOK, botVars
  <2> QED BY <1>1, <2>1, <2>2, <2>3, <2>4, <2>5, <2>6, <2>7, <2>8, <2>9, <2>10, <2>11, <2>12, <2>13 DEF RunBot
<1>2. CASE Syncing
  <2>1. ASSUME NEW final \in BOOLEAN, BeginSync(final) PROVE TypeOK'
    BY <2>1 DEF BeginSync, TypeOK, SyncState, Content, botVars, runVars
  <2>2. CASE NothingToSync
    BY <2>2 DEF NothingToSync, TypeOK, SyncState, botVars, runVars
  <2>3. ASSUME NEW f \in File, ArchiveFile(f) PROVE TypeOK'
    BY <2>3 DEF ArchiveFile, TypeOK, SyncState, Content, botVars, runVars
  <2>4. CASE ArchiveBreaks
    BY <2>4, FaultTyped DEF ArchiveBreaks, TypeOK, SyncState, botVars, runVars
  <2>5. CASE ArchiveDone
    BY <2>5 DEF ArchiveDone, TypeOK, SyncState, botVars, runVars
  <2>6. CASE PutObject
    BY <2>6 DEF PutObject, TypeOK, SyncState, Content, AfterSync, botVars, runVars
  <2>7. CASE UploadFails
    BY <2>7, FaultTyped DEF UploadFails, TypeOK, SyncState, NoFault, AfterSync, botVars, runVars
  <2> QED BY <1>2, <2>1, <2>2, <2>3, <2>4, <2>5, <2>6, <2>7 DEF Syncing
<1>3. CASE Kill
  BY <1>3, FaultTyped DEF Kill, TypeOK, SyncState, SyncOff, botVars
<1>4. CASE UNCHANGED vars
  BY <1>4 DEF vars, botVars, runVars, TypeOK
<1> QED BY <1>1, <1>2, <1>3, <1>4 DEF Next

-----------------------------------------------------------------------------
(* The inductive step, one lemma for each part of the invariant. *)

\* Init establishes the invariant.
LEMMA IInvInit == Init => IInv
<1> SUFFICES ASSUME Init PROVE IInv
  OBVIOUS
<1>1. TypeOK
  BY TypeInit
<1>2. Bounded /\ SkipIsRight
  BY DEF Init, Bounded, SkipIsRight, NoFiles, SyncOff
<1>3. RunnerWithBot /\ SyncedFrom
  BY DEF Init, RunnerWithBot, SyncedFrom, SyncOff
<1>4. Ahead /\ CleanRun
  BY DEF Init, Ahead, CleanRun, SyncOff
<1> QED BY <1>1, <1>2, <1>3, <1>4 DEF IInv

\* Versions stay below the number of writes.
LEMMA BoundedStep == IInv /\ [Next]_vars => Bounded'
<1> SUFFICES ASSUME TypeOK, Bounded, SyncedFrom, [Next]_vars PROVE Bounded'
  BY DEF IInv
<1> USE DEF Bounded
<1>1. CASE Start
  BY <1>1 DEF Start, NoFiles, TypeOK, Content
<1>2. ASSUME NEW f \in File, extractTarGz(f) PROVE Bounded'
  BY <1>2 DEF extractTarGz, TypeOK, Content
<1>3. ASSUME NEW f \in File, BotWrites(f) PROVE Bounded'
  <2>1. writes' = writes + 1 /\ writes \in Nat /\ remote' = remote
    BY <1>3 DEF BotWrites, TypeOK
  <2>2. ASSUME NEW g \in File PROVE files'[g] <= writes' /\ remote'[g] <= writes'
    BY <2>1, <1>3 DEF BotWrites, TypeOK, Content
  <2> QED BY <2>2
<1>4. CASE PutObject
  <2>1. \A f \in File : sync.archive[f] <= files[f]
    BY <1>4 DEF PutObject, SyncedFrom
  <2> QED BY <1>4, <2>1 DEF PutObject, botVars, TypeOK, SyncState, Content
<1>5. CASE UNCHANGED <<remote, files, writes>>
  BY <1>5
<1> QED
  BY <1>1, <1>2, <1>3, <1>4, <1>5
  DEF Next, RunBot, Syncing, Kill, vars, botVars, downloadCode, downloadCodeFails, DownloadDone,
      DownloadFails, Boot, BotEnds, StopSync, Exit, SIGTERM, CancelRun, BeginSync,
      NothingToSync, ArchiveFile, ArchiveBreaks, ArchiveDone, UploadFails

\* The sync runner lives as long as the bot does.
LEMMA RunnerStep == IInv /\ [Next]_vars => RunnerWithBot'
<1> SUFFICES ASSUME TypeOK, RunnerWithBot, [Next]_vars PROVE RunnerWithBot'
  BY DEF IInv
<1> USE DEF RunnerWithBot
<1>1. CASE RunBot
  <2>1. CASE Start \/ downloadCode \/ downloadCodeFails \/ DownloadDone \/ DownloadFails
    BY <2>1 DEF Start, downloadCode, downloadCodeFails, DownloadDone, DownloadFails, SyncOff
  <2>2. CASE Boot \/ BotEnds \/ Exit \/ CancelRun
    BY <2>2 DEF Boot, BotEnds, Exit, CancelRun
  <2>4. CASE StopSync
    <3>1. main = "cleanup" \/ main \notin {"down", "code", "state", "boot"} \/ main = "down"
      BY <2>4 DEF StopSync
    <3>2. sync'.pc = sync.pc /\ main' = main /\ signal' = signal
      BY <2>4 DEF StopSync, runVars, TypeOK, SyncState
    <3> QED BY <3>1, <3>2
  <2>5. CASE SIGTERM
    <3>1. main \in {"code", "state", "boot"} => signal' = "done"
      BY <2>5 DEF SIGTERM, SyncOff
    <3> QED BY <2>5, <3>1 DEF SIGTERM
  <2>3. ASSUME NEW f \in File, extractTarGz(f) \/ BotWrites(f) PROVE RunnerWithBot'
    BY <2>3 DEF extractTarGz, BotWrites, runVars
  <2> QED BY <1>1, <2>1, <2>2, <2>3, <2>4, <2>5 DEF RunBot
<1>2. CASE Syncing
  <2>0. sync.pc # "off"
    BY <1>2 DEF Syncing, BeginSync, NothingToSync, ArchiveFile, ArchiveBreaks, ArchiveDone,
                PutObject, UploadFails
  <2>1. main \notin {"down", "code", "state", "boot"}
    BY <2>0 DEF SyncOff
  <2>2. main' = main
    BY <1>2 DEF Syncing, BeginSync, NothingToSync, ArchiveFile, ArchiveBreaks, ArchiveDone,
                PutObject, UploadFails, runVars
  <2> QED BY <2>1, <2>2
<1>3. CASE Kill
  BY <1>3 DEF Kill, SyncOff
<1>4. CASE UNCHANGED vars
  BY <1>4 DEF vars, runVars
<1> QED BY <1>1, <1>2, <1>3, <1>4 DEF Next

\* Hashes, archive and files stay in order, and a skipped sync misses nothing.
LEMMA SyncedStep == IInv /\ [Next]_vars => SyncedFrom' /\ SkipIsRight'
<1> SUFFICES ASSUME TypeOK, Bounded, RunnerWithBot, SyncedFrom, SkipIsRight, [Next]_vars
             PROVE  SyncedFrom' /\ SkipIsRight'
  BY DEF IInv
<1> USE DEF SyncedFrom, SkipIsRight
<1>1. CASE Start \/ Kill
  BY <1>1 DEF Start, Kill, SyncOff
<1>2. ASSUME NEW f \in File, extractTarGz(f) PROVE SyncedFrom' /\ SkipIsRight'
  BY <1>2 DEF extractTarGz, RunnerWithBot, SyncOff
<1>3. CASE Boot
  <2>1. sync = SyncOff
    BY <1>3 DEF Boot, RunnerWithBot
  <2>2. sync'.lastHash = NoFiles /\ sync'.pc \in {"idle", "off"}
    BY <1>3, <2>1 DEF Boot, SyncOff
  <2>3. files' = files /\ \A f \in File : files[f] >= 0
    BY <1>3 DEF Boot, botVars, TypeOK, Content
  <2> QED BY <2>2, <2>3 DEF NoFiles
<1>4. ASSUME NEW f \in File, BotWrites(f) PROVE SyncedFrom' /\ SkipIsRight'
  <2>1. \A g \in File : files[g] <= files'[g] /\ files'[g] \in Nat
    BY <1>4 DEF BotWrites, Bounded, TypeOK, Content
  <2>2. files'[f] = writes + 1 /\ files[f] <= writes
    BY <1>4 DEF BotWrites, Bounded, TypeOK, Content
  <2>3. sync' = sync
    BY <1>4 DEF BotWrites
  <2>4. SyncedFrom'
    BY <2>1, <2>3 DEF TypeOK, SyncState, Content
  <2>5. sync.pc # "off" => files' # sync.lastHash
    BY <2>2 DEF TypeOK, SyncState, Content
  <2> QED BY <2>3, <2>4, <2>5
<1>5. CASE StopSync
  BY <1>5 DEF StopSync, TypeOK, SyncState, botVars
<1>6. ASSUME NEW final \in BOOLEAN, BeginSync(final) PROVE SyncedFrom' /\ SkipIsRight'
  BY <1>6 DEF BeginSync, TypeOK, SyncState, Content, NoFiles, botVars
<1>7. CASE NothingToSync \/ ArchiveBreaks \/ ArchiveDone
  BY <1>7 DEF NothingToSync, ArchiveBreaks, ArchiveDone, TypeOK, SyncState, botVars
<1>8. ASSUME NEW f \in File, ArchiveFile(f) PROVE SyncedFrom' /\ SkipIsRight'
  BY <1>8 DEF ArchiveFile, TypeOK, SyncState, Content, botVars
<1>9. CASE PutObject
  <2>1. \A f \in File : /\ sync.lastHash[f] <= sync.hash[f] /\ sync.hash[f] <= files[f]
                        /\ sync.archive[f] <= files[f]
    BY <1>9 DEF PutObject
  <2>2. ~sync.broken => \A f \in File : sync.hash[f] <= sync.archive[f]
    BY <1>9 DEF PutObject
  <2>3. files # sync.lastHash
    BY <1>9, <2>1 DEF PutObject, TypeOK, SyncState, Content
  <2>4. CASE sync.broken
    BY <1>9, <2>1, <2>3, <2>4 DEF PutObject, AfterSync, TypeOK, SyncState, Content, botVars
  <2>5. CASE ~sync.broken
    <3>1. sync'.lastHash = sync.hash /\ sync'.pc \in {"idle", "off"} /\ files' = files
      BY <1>9, <2>5 DEF PutObject, AfterSync, TypeOK, SyncState, botVars
    <3>2. files = sync.hash => files = sync.archive
      BY <2>1, <2>2, <2>5 DEF TypeOK, SyncState, Content
    <3> QED BY <1>9, <2>1, <3>1, <3>2 DEF PutObject
  <2> QED BY <2>4, <2>5
<1>10. CASE UploadFails
  <2>1. \A f \in File : sync.lastHash[f] <= sync.hash[f] /\ sync.hash[f] <= files[f]
    BY <1>10 DEF UploadFails
  <2>2. files # sync.lastHash
    BY <1>10, <2>1 DEF UploadFails, TypeOK, SyncState, Content
  <2> QED BY <1>10, <2>1, <2>2 DEF UploadFails, AfterSync, TypeOK, SyncState, Content, botVars
<1>11. CASE UNCHANGED <<remote, files, sync>>
  BY <1>11
<1> QED
  BY <1>1, <1>2, <1>3, <1>4, <1>5, <1>6, <1>7, <1>8, <1>9, <1>10, <1>11
  DEF Next, RunBot, Syncing, vars, botVars, downloadCode, downloadCodeFails, DownloadDone,
      DownloadFails, BotEnds, Exit, SIGTERM, CancelRun

\* Nothing older than the archive is about to replace it.
LEMMA AheadStep == IInv /\ [Next]_vars => Ahead'
<1> SUFFICES ASSUME TypeOK, Bounded, RunnerWithBot, SyncedFrom, Ahead, [Next]_vars, ~damaged'
             PROVE  Ahead'
  BY DEF IInv, Ahead
<1>0. ~damaged
  BY DEF Next, RunBot, Syncing, vars, Start, downloadCode, downloadCodeFails, extractTarGz,
         DownloadDone, DownloadFails, Boot, BotWrites, BotEnds, StopSync, Exit, SIGTERM,
         CancelRun, BeginSync, NothingToSync, ArchiveFile, ArchiveBreaks, ArchiveDone,
         PutObject, UploadFails, Kill
<1> USE <1>0 DEF Ahead
<1>1. CASE Start \/ downloadCode \/ downloadCodeFails \/ Kill
  BY <1>1 DEF Start, downloadCode, downloadCodeFails, Kill, SyncOff, RunnerWithBot
<1>2. ASSUME NEW f \in File, extractTarGz(f) PROVE Ahead'
  <2>1. sync' = sync /\ sync = SyncOff /\ main' = "state" /\ remote' = remote
    BY <1>2 DEF extractTarGz, RunnerWithBot
  <2>2. \A g \in File \ left' : remote[g] <= files'[g]
    BY <1>2 DEF extractTarGz, TypeOK, Content
  <2> QED BY <2>1, <2>2 DEF SyncOff
<1>3. CASE DownloadDone
  BY <1>3 DEF DownloadDone, RunnerWithBot, SyncOff, botVars
<1>4. CASE DownloadFails
  <2>1. \A f \in left : remote[f] = 0
    BY <1>4 DEF DownloadFails, TypeOK
  <2>2. \A f \in File : remote[f] <= files[f]
    BY <1>4, <2>1 DEF DownloadFails, TypeOK, Content
  <2> QED BY <1>4, <2>2 DEF DownloadFails, RunnerWithBot, SyncOff, botVars
<1>5. CASE Boot
  BY <1>5 DEF Boot, RunnerWithBot, SyncOff, botVars
<1>6. ASSUME NEW f \in File, BotWrites(f) PROVE Ahead'
  <2>1. \A g \in File : files[g] <= files'[g] /\ files'[g] \in Nat /\ remote[g] \in Nat
    BY <1>6 DEF BotWrites, Bounded, TypeOK, Content
  <2> QED BY <1>6, <2>1 DEF BotWrites, runVars, TypeOK, Content
<1>7. CASE BotEnds \/ StopSync \/ Exit \/ SIGTERM \/ CancelRun
  BY <1>7 DEF BotEnds, StopSync, Exit, SIGTERM, CancelRun, botVars, runVars, TypeOK, SyncState
<1>8. ASSUME NEW final \in BOOLEAN, BeginSync(final) PROVE Ahead'
  BY <1>8 DEF BeginSync, botVars, runVars, TypeOK, SyncState
<1>9. ASSUME NEW f \in File, ArchiveFile(f) PROVE Ahead'
  <2>1. main \in {"bot", "cleanup"}
    BY <1>9 DEF ArchiveFile, RunnerWithBot, SyncOff, TypeOK
  <2>2. \A g \in File \ sync'.left : remote[g] <= sync'.archive[g]
    BY <1>9, <2>1 DEF ArchiveFile, TypeOK, SyncState, Content
  <2> QED BY <1>9, <2>2 DEF ArchiveFile, botVars, runVars
<1>10. CASE NothingToSync \/ ArchiveBreaks \/ ArchiveDone \/ UploadFails
  BY <1>10 DEF NothingToSync, ArchiveBreaks, ArchiveDone, UploadFails, AfterSync, botVars,
               runVars, TypeOK, SyncState
<1>11. CASE PutObject
  <2>1. main \in {"bot", "cleanup"} /\ main' = main /\ files' = files
    BY <1>11 DEF PutObject, RunnerWithBot, SyncOff, TypeOK, botVars, runVars
  <2>2. \A f \in File : remote'[f] <= files[f]
    BY <1>11 DEF PutObject, SyncedFrom
  <2>3. sync'.pc \in {"idle", "off"}
    BY <1>11 DEF PutObject, AfterSync, TypeOK, SyncState
  <2> QED BY <2>1, <2>2, <2>3
<1>12. CASE UNCHANGED vars
  BY <1>12 DEF vars, botVars, runVars
<1> QED
  BY <1>1, <1>2, <1>3, <1>4, <1>5, <1>6, <1>7, <1>8, <1>9, <1>10, <1>11, <1>12
  DEF Next, RunBot, Syncing

\* A container without signal and fault ends with its files archived.
LEMMA CleanStep == IInv /\ [Next]_vars => CleanRun'
<1> SUFFICES ASSUME TypeOK, RunnerWithBot, SyncedFrom, SkipIsRight, CleanRun,
                    [Next]_vars, clean'
             PROVE  CleanRun'
  BY DEF IInv, CleanRun
<1> USE DEF CleanRun
<1>1. CASE Start
  BY <1>1 DEF Start, SyncOff, TypeOK
<1>2. CASE downloadCodeFails \/ DownloadFails \/ SIGTERM \/ ArchiveBreaks \/ Kill
  BY <1>2 DEF downloadCodeFails, DownloadFails, SIGTERM, ArchiveBreaks, Kill, CallFails,
              Fault, NoFault
<1>3. CASE downloadCode \/ DownloadDone \/ CancelRun
  BY <1>3 DEF downloadCode, DownloadDone, CancelRun, RunnerWithBot, SyncOff, botVars
<1>4. ASSUME NEW f \in File, extractTarGz(f) PROVE CleanRun'
  BY <1>4 DEF extractTarGz, RunnerWithBot, SyncOff
<1>5. CASE Boot
  <2>1. NoFault /\ main' = "bot" /\ sync = SyncOff /\ sync' = [sync EXCEPT !.pc = "idle"]
    BY <1>5 DEF Boot, Fault, RunnerWithBot
  <2>2. sync'.pc = "idle" /\ ~sync'.stopping /\ ~sync'.broken
    BY <2>1 DEF SyncOff
  <2> QED BY <1>5, <2>1, <2>2 DEF Boot, NoFault
<1>6. ASSUME NEW f \in File, BotWrites(f) PROVE CleanRun'
  BY <1>6 DEF BotWrites, runVars, TypeOK
<1>7. CASE BotEnds \/ Exit
  BY <1>7 DEF BotEnds, Exit, botVars, TypeOK
<1>8. CASE StopSync
  BY <1>8 DEF StopSync, botVars, runVars, TypeOK, SyncState
<1>9. ASSUME NEW final \in BOOLEAN, BeginSync(final) PROVE CleanRun'
  BY <1>9 DEF BeginSync, botVars, runVars, TypeOK, SyncState
<1>10. CASE NothingToSync
  BY <1>10 DEF NothingToSync, SkipIsRight, botVars, runVars, TypeOK, SyncState
<1>11. ASSUME (\E f \in File : ArchiveFile(f)) \/ ArchiveDone PROVE CleanRun'
  <2>1. /\ sync.pc = "archive" /\ sync'.pc \in {"archive", "put"}
        /\ sync'.hash = sync.hash /\ sync'.final = sync.final
        /\ sync'.stopping = sync.stopping /\ sync'.broken = sync.broken
    BY <1>11 DEF ArchiveFile, ArchiveDone, TypeOK, SyncState
  <2>2. UNCHANGED <<clean, main, signal, cancelled, files, remote>>
    BY <1>11 DEF ArchiveFile, ArchiveDone, botVars, runVars
  <2> QED BY <2>1, <2>2
<1>12. CASE PutObject
  <2>1. clean /\ ~sync.broken /\ main' = main /\ files' = files /\ signal' = signal
        /\ cancelled' = cancelled
    BY <1>12 DEF PutObject, botVars, runVars
  <2>2. sync.final => files = sync.archive
    BY <1>12, <2>1 DEF PutObject, SyncedFrom, TypeOK, SyncState, Content
  <2>3. /\ sync'.pc = AfterSync /\ sync'.stopping = sync.stopping /\ sync'.broken = sync.broken
        /\ remote' = sync.archive
    BY <1>12 DEF PutObject, TypeOK, SyncState
  <2>4. sync.pc # "off"
    BY <1>12 DEF PutObject
  <2>5. CASE sync.final
    BY <2>1, <2>2, <2>3, <2>5 DEF AfterSync, TypeOK
  <2>6. CASE ~sync.final
    BY <2>1, <2>3, <2>4, <2>6 DEF AfterSync, TypeOK
  <2> QED BY <2>5, <2>6
<1>13. CASE UploadFails
  BY <1>13 DEF UploadFails, Fault, NoFault, AfterSync, botVars, runVars, TypeOK, SyncState
<1>14. CASE UNCHANGED vars
  BY <1>14 DEF vars, botVars, runVars
<1> QED
  BY <1>1, <1>2, <1>3, <1>4, <1>5, <1>6, <1>7, <1>8, <1>9, <1>10, <1>11, <1>12, <1>13, <1>14
  DEF Next, RunBot, Syncing

-----------------------------------------------------------------------------
(* Theorems *)

\* The invariant holds in every reachable state.
LEMMA Inductive == Spec => []IInv
<1>1. IInv /\ [Next]_vars => IInv'
  BY TypeStep, BoundedStep, RunnerStep, SyncedStep, AheadStep, CleanStep DEF IInv
<1> QED BY IInvInit, <1>1, PTL DEF Spec

\* Every variable has its type, and a sync is the final one only after the stop.
THEOREM TypeCorrect == Spec => []TypeOK
BY Inductive, PTL DEF IInv

\* When Sync skips the upload because the hash is the remembered one, MinIO holds
\* what the state directory holds, whatever failed, was cut short or ran before.
THEOREM SkipsOnlyWhenStored == Spec => []SkipIsRight
BY Inductive, PTL DEF IInv

\* A bot that ended by itself, in a container without signal or fault, has its whole
\* state directory archived when the container is gone.
THEOREM FinalSyncSaves == Spec => []CompletionSaves
<1>1. IInv => CompletionSaves
  BY DEF IInv, CleanRun, RunnerWithBot, CompletionSaves
<1> QED BY Inductive, <1>1, PTL

\* No upload replaces an archived file by an older one or drops it, unless a container
\* went on without the whole archive or an archive was cut short.
THEOREM RegressNeedsDamage == Spec => RegressesOnlyWhenDamaged
<1>1. IInv /\ [Next]_vars => [~damaged' => \A f \in File : remote[f] <= remote'[f]]_vars
  <2> SUFFICES ASSUME IInv, Next, ~damaged', NEW f \in File PROVE remote[f] <= remote'[f]
    OBVIOUS
  <2>1. CASE PutObject
    <3>1. ~damaged /\ ~sync.broken
      BY <2>1 DEF PutObject
    <3> QED BY <2>1, <3>1 DEF PutObject, IInv, Ahead, SyncedFrom
  <2>2. CASE UNCHANGED remote
    BY <2>2 DEF IInv, TypeOK, Content
  <2> QED
    BY <2>1, <2>2
    DEF Next, RunBot, Syncing, Start, downloadCode, downloadCodeFails, extractTarGz,
        DownloadDone, DownloadFails, Boot, BotWrites, BotEnds, StopSync, Exit, SIGTERM,
        CancelRun, BeginSync, NothingToSync, ArchiveFile, ArchiveBreaks, ArchiveDone,
        UploadFails, Kill
<1> QED BY Inductive, <1>1, PTL DEF Spec, RegressesOnlyWhenDamaged

=============================================================================
