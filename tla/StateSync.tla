------------------------------ MODULE StateSync ------------------------------
(***************************************************************************)
(* The state of one bot, from container to container: runBot of            *)
(* runtime/cmd/app/execute.go, the SyncRunner and StateSyncer of           *)
(* runtime/internal/daemon and the StateManager of                         *)
(* runtime/internal/runtime/storage.                                       *)
(*                                                                         *)
(* A container extracts the archive kept in MinIO, starts the sync runner  *)
(* and then the bot.  While the bot writes its files the sync runner       *)
(* hashes them, archives them one after the other and replaces the object  *)
(* in MinIO.  A stop signal is handled by a goroutine that waits for the   *)
(* final sync and only then cancels the context the rest of runBot uses.   *)
(***************************************************************************)
EXTENDS Naturals, FiniteSets

CONSTANTS
  File,           \* the files of the state directory
  MaxWrites,      \* bound: writes by the bot
  MaxStarts,      \* bound: containers started one after the other
  MaxFaults       \* bound: failed calls, kills, files that change while archived

ASSUME ConstantsOK ==
  /\ MaxWrites \in Nat
  /\ MaxStarts \in Nat
  /\ MaxFaults \in Nat

VARIABLES
  remote,         \* MinIO: the archived version of each file
  files,          \* the container's state directory
  writes,         \* how many writes the bot has made, over all containers
  starts,         \* how many containers have been started
  main,           \* runBot: the step it is at
  left,           \* files still to be extracted
  signal,         \* the signal goroutine: "none", "cleanup" or "done"
  cancelled,      \* runBot's context is cancelled
  sync,           \* the sync runner
  damaged,        \* history: a container went on without the whole archive, or a
                  \* truncated archive replaced a whole one
  clean,          \* history: this container met no signal and no fault
  faults          \* how much of MaxFaults is used up

botVars == <<files, writes, starts>>
runVars == <<main, left, signal, cancelled>>
vars == <<remote, files, writes, starts, main, left, signal, cancelled, sync,
          damaged, clean, faults>>

-----------------------------------------------------------------------------
(* A file is known by the write that made its contents; 0 is no such file. *)
Content == [File -> 0..MaxWrites]
NoFiles == [f \in File |-> 0]

SyncOff == [pc |-> "off", left |-> {}, archive |-> NoFiles, hash |-> NoFiles,
            lastHash |-> NoFiles, stopping |-> FALSE, final |-> FALSE, broken |-> FALSE]

\* hash and lastHash stand for hashDirectory, which covers names, contents and
\* modification times: two are equal exactly when the same writes made the files.
SyncState ==
  [pc       : {"off", "idle", "archive", "put"},
   left     : SUBSET File,
   archive  : Content,
   hash     : Content,
   lastHash : Content,
   stopping : BOOLEAN,
   final    : BOOLEAN,
   broken   : BOOLEAN]

\* Every variable has its type, and only a runner told to stop is at its final sync.
TypeOK ==
  /\ remote \in Content
  /\ files \in Content
  /\ writes \in 0..MaxWrites
  /\ starts \in 0..MaxStarts
  /\ main \in {"down", "code", "state", "boot", "bot", "cleanup"}
  /\ left \subseteq File
  /\ signal \in {"none", "cleanup", "done"}
  /\ cancelled \in BOOLEAN
  /\ sync \in SyncState /\ (sync.final => sync.stopping)
  /\ damaged \in BOOLEAN
  /\ clean \in BOOLEAN
  /\ faults \in 0..MaxFaults

Fault     == faults < MaxFaults /\ faults' = faults + 1 /\ clean' = FALSE
NoFault   == UNCHANGED <<clean, faults>>
\* A call made with runBot's context.
CallFails == (cancelled /\ NoFault) \/ (~cancelled /\ Fault)

-----------------------------------------------------------------------------
Init ==
  /\ remote = NoFiles
  /\ files = NoFiles
  /\ writes = 0
  /\ starts = 0
  /\ main = "down"
  /\ left = {}
  /\ signal = "none"
  /\ cancelled = FALSE
  /\ sync = SyncOff
  /\ damaged = FALSE
  /\ clean = FALSE
  /\ faults = 0

-----------------------------------------------------------------------------
(* runBot *)

\* A new container: an empty state directory.
Start ==
  /\ main = "down" /\ starts < MaxStarts
  /\ starts' = starts + 1
  /\ main' = "code"
  /\ files' = NoFiles
  /\ left' = {}
  /\ signal' = "none"
  /\ cancelled' = FALSE
  /\ sync' = SyncOff
  /\ clean' = TRUE
  /\ UNCHANGED <<remote, writes, damaged, faults>>

downloadCode ==
  /\ main = "code" /\ ~cancelled
  /\ main' = "state"
  /\ left' = File
  /\ UNCHANGED <<remote, botVars, signal, cancelled, sync, damaged, clean, faults>>

downloadCodeFails ==
  /\ main = "code"
  /\ CallFails
  /\ main' = "down"
  /\ UNCHANGED <<remote, botVars, left, signal, cancelled, sync, damaged>>

\* extractTarGz writes the archived files one by one.
extractTarGz(f) ==
  /\ main = "state" /\ f \in left /\ ~cancelled
  /\ files' = [files EXCEPT ![f] = remote[f]]
  /\ left' = left \ {f}
  /\ UNCHANGED <<remote, writes, starts, main, signal, cancelled, sync, damaged, clean, faults>>

\* Mutation: extraction stops one file early.
DownloadDone_OneShort ==
  /\ main = "state" /\ Cardinality(left) <= 1
  /\ main' = "boot"
  /\ UNCHANGED <<remote, botVars, left, signal, cancelled, sync, damaged, clean, faults>>

DownloadDone ==
  /\ main = "state" /\ left = {}
  /\ main' = "boot"
  /\ UNCHANGED <<remote, botVars, left, signal, cancelled, sync, damaged, clean, faults>>

\* A failed or cancelled download is logged, what was extracted stays, and the
\* bot is started all the same.
DownloadFails ==
  /\ main = "state"
  /\ CallFails
  /\ main' = "boot"
  /\ damaged' = (damaged \/ \E f \in left : remote[f] # 0)
  /\ UNCHANGED <<remote, botVars, left, signal, cancelled, sync>>

\* The sync runner is ready, or could not be set up, and the bot starts; a bot that
\* cannot be started goes straight to the clean-up.
Boot ==
  /\ main = "boot"
  /\ \/ sync' = [sync EXCEPT !.pc = "idle"] /\ main' = "bot" /\ NoFault
     \/ sync' = sync /\ main' = "bot" /\ Fault
     \/ sync' = [sync EXCEPT !.pc = "idle"] /\ main' = "cleanup" /\ Fault
  /\ UNCHANGED <<remote, botVars, left, signal, cancelled, damaged>>

BotWrites(f) ==
  /\ main = "bot" /\ writes < MaxWrites
  /\ writes' = writes + 1
  /\ files' = [files EXCEPT ![f] = writes + 1]
  /\ UNCHANGED <<remote, starts, runVars, sync, damaged, clean, faults>>

\* executeBotProcess returns: the bot ended by itself, or was killed because the
\* context is cancelled.
BotEnds ==
  /\ main = "bot"
  /\ main' = "cleanup"
  /\ UNCHANGED <<remote, botVars, left, signal, cancelled, sync, damaged, clean, faults>>

\* cleanup asks the sync runner to stop ...
StopSync ==
  /\ main = "cleanup" \/ signal = "cleanup"
  /\ ~sync.stopping
  /\ sync' = [sync EXCEPT !.stopping = TRUE]
  /\ UNCHANGED <<remote, botVars, runVars, damaged, clean, faults>>

\* ... and waits for it.  The container is gone when runBot returns.
Exit ==
  /\ main = "cleanup" /\ sync.stopping /\ sync.pc = "off"
  /\ main' = "down"
  /\ UNCHANGED <<remote, botVars, left, signal, cancelled, sync, damaged, clean, faults>>

-----------------------------------------------------------------------------
(* The signal goroutine.  Before there is a sync runner it cancels at once. *)

SIGTERM ==
  /\ main # "down" /\ signal = "none"
  /\ signal' = IF sync.pc = "off" THEN "done" ELSE "cleanup"
  /\ cancelled' = (sync.pc = "off")
  /\ clean' = FALSE
  /\ UNCHANGED <<remote, botVars, main, left, sync, damaged, faults>>

\* Mutation: the goroutine cleans up but leaves the context alone.
CancelRun_KeepsContext ==
  /\ main # "down"
  /\ signal = "cleanup" /\ sync.stopping /\ sync.pc = "off"
  /\ signal' = "done"
  /\ UNCHANGED <<remote, botVars, main, left, cancelled, sync, damaged, clean, faults>>

CancelRun ==
  /\ main # "down"
  /\ signal = "cleanup" /\ sync.stopping /\ sync.pc = "off"
  /\ signal' = "done"
  /\ cancelled' = TRUE
  /\ UNCHANGED <<remote, botVars, main, left, sync, damaged, clean, faults>>

-----------------------------------------------------------------------------
(* The sync runner: ticker and file watcher trigger DoSync, which holds a     *)
(* mutex; once told to stop it makes one last sync with a context of its own. *)

BeginSync(final) ==
  /\ sync.pc = "idle"
  /\ final = sync.stopping
  /\ files # sync.lastHash /\ files # NoFiles
  /\ sync' = [sync EXCEPT !.pc = "archive", !.left = File, !.archive = NoFiles,
                          !.hash = files, !.final = final, !.broken = FALSE]
  /\ UNCHANGED <<remote, botVars, runVars, damaged, clean, faults>>

\* The final sync finds nothing new: the runner stops.
NothingToSync ==
  /\ sync.pc = "idle" /\ sync.stopping
  /\ files = sync.lastHash \/ files = NoFiles
  /\ sync' = [sync EXCEPT !.pc = "off"]
  /\ UNCHANGED <<remote, botVars, runVars, damaged, clean, faults>>

\* createTarGz streams the files into the upload, one after the other.
ArchiveFile(f) ==
  /\ sync.pc = "archive" /\ f \in sync.left
  /\ sync' = [sync EXCEPT !.archive[f] = files[f], !.left = @ \ {f}]
  /\ UNCHANGED <<remote, botVars, runVars, damaged, clean, faults>>

\* A file shrinks, grows or goes away while it is copied: the archive ends here, and
\* the upload is told of its end but not of the error.
ArchiveBreaks ==
  /\ sync.pc = "archive" /\ sync.left # {} /\ main = "bot"
  /\ Fault
  /\ sync' = [sync EXCEPT !.pc = "put", !.broken = TRUE]
  /\ UNCHANGED <<remote, botVars, runVars, damaged>>

ArchiveDone ==
  /\ sync.pc = "archive" /\ sync.left = {}
  /\ sync' = [sync EXCEPT !.pc = "put"]
  /\ UNCHANGED <<remote, botVars, runVars, damaged, clean, faults>>

AfterSync == IF sync.final THEN "off" ELSE "idle"

\* Mutation: the hash is remembered although the archive was cut short.
PutObject_RemembersAnyway ==
  /\ sync.pc = "put"
  /\ remote' = sync.archive
  /\ damaged' = (damaged \/ sync.broken)
  /\ sync' = [sync EXCEPT !.pc = AfterSync, !.lastHash = sync.hash]
  /\ UNCHANGED <<botVars, runVars, clean, faults>>

\* The object is replaced.  UploadState then reports the archiver's error, so the
\* hash of a cut archive is not remembered.
PutObject ==
  /\ sync.pc = "put"
  /\ remote' = sync.archive
  /\ damaged' = (damaged \/ sync.broken)
  /\ sync' = [sync EXCEPT !.pc = AfterSync,
                          !.lastHash = IF sync.broken THEN @ ELSE sync.hash]
  /\ UNCHANGED <<botVars, runVars, clean, faults>>

\* Mutation: the final sync uses the runner's context, cancelled by then.
UploadFails_FinalToo ==
  /\ sync.pc \in {"archive", "put"}
  /\ \/ sync.stopping /\ NoFault
     \/ Fault
  /\ sync' = [sync EXCEPT !.pc = AfterSync]
  /\ UNCHANGED <<remote, botVars, runVars, damaged>>

\* The upload fails, or a sync begun before the stop sees its context cancelled.
UploadFails ==
  /\ sync.pc \in {"archive", "put"}
  /\ \/ sync.stopping /\ ~sync.final /\ NoFault
     \/ Fault
  /\ sync' = [sync EXCEPT !.pc = AfterSync]
  /\ UNCHANGED <<remote, botVars, runVars, damaged>>

-----------------------------------------------------------------------------
\* The engine kills the container: it crashed, or the stop timeout ran out.
Kill ==
  /\ main # "down"
  /\ Fault
  /\ main' = "down"
  /\ sync' = SyncOff
  /\ UNCHANGED <<remote, botVars, left, signal, cancelled, damaged>>

RunBot == \/ Start
          \/ downloadCode
          \/ downloadCodeFails
          \/ \E f \in File : extractTarGz(f)
          \/ DownloadDone
          \/ DownloadFails
          \/ Boot
          \/ \E f \in File : BotWrites(f)
          \/ BotEnds
          \/ StopSync
          \/ Exit
          \/ SIGTERM
          \/ CancelRun

Syncing == \/ \E final \in BOOLEAN : BeginSync(final)
           \/ NothingToSync
           \/ \E f \in File : ArchiveFile(f)
           \/ ArchiveBreaks
           \/ ArchiveDone
           \/ PutObject
           \/ UploadFails

Next == RunBot \/ Syncing \/ Kill

Spec == Init /\ [][Next]_vars

\* Goroutines run and the backup ticker ticks.  The bot need not write or end, and
\* nobody need stop it.
Fairness == /\ WF_vars(Syncing)
            /\ WF_vars(StopSync)
            /\ WF_vars(Exit)
            /\ WF_vars(CancelRun)
            /\ WF_vars(cancelled /\ BotEnds)

FairSpec == Spec /\ Fairness

-----------------------------------------------------------------------------
(* Properties *)

\* What is archived only ever moves forward: a later container continues from the
\* state the earlier one left, and no upload takes a file back or drops it.
RemoteNeverRegresses == [][\A f \in File : remote[f] <= remote'[f]]_vars

\* It moves forward as long as no container has gone on without the whole archive
\* and no archive was cut short, whatever syncs, stops and kills interleave.
RegressesOnlyWhenDamaged == [][~damaged' => \A f \in File : remote[f] <= remote'[f]]_vars

\* A bot that ends by itself leaves nothing behind: the final sync has archived the
\* directory as it was, even if a sync was under way when it ended.
CompletionSaves ==
  main = "down" /\ clean /\ files # NoFiles => remote = files

\* A sync is skipped only when MinIO holds just what the directory holds.
SkipIsRight ==
  sync.pc = "idle" /\ files = sync.lastHash /\ files # NoFiles => remote = files

\* What the bot wrote is archived, once it falls quiet and as long as its container
\* runs with a sync runner: failed and cut-short uploads are made good by a later one.
WritesReachRemote ==
  []<>(files = NoFiles \/ remote = files \/ main # "bot" \/ sync.pc = "off")

\* Every started stop comes to an end.
StopEnds == sync.stopping ~> (main = "down")
=============================================================================
