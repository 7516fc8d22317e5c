# QuantFlow: TLA+ models, checks and proofs

This directory holds a verification project for the bot runtime, the API, the web
frontend and the Node SDK of this repository: TLA+ models of the parts that coordinate containers,
messages, requests and stored state, the TLC configurations that check them, and TLAPS
proofs of theorems about them.
`PROJECT.json` maps every definition to the source lines it models and lists runs,
mutants, hazards, findings and theorems. Paths below are relative to the repository.

Contents: [1 the system](#1-the-system) · [2 the modules](#2-the-modules) ·
[3 the runs](#3-the-runs) · [4 fairness](#4-fairness) · [5 what is proved](#5-what-is-proved) ·
[6 disagreements found](#6-where-the-code-disagrees-with-its-documents) ·
[7 not modelled](#7-what-is-not-modelled) · [8 plan](#8-plan)

## 1. The system

QuantFlow runs trading bots. A user creates a *bot* (runs until stopped) or a *bot
schedule* (runs by a cron expression) through the API. The API stores a row in its
database and publishes a NATS event. The runtime's subscriber applies the event to
MongoDB. A service compares MongoDB with the containers of an engine (Docker, or a
Kubernetes controller in the other mode) and starts and stops containers. In a
container an entry point fetches the bot's code and state from MinIO, runs the bot,
and keeps its state directory and logs synchronised to MinIO.

Bots are deployed from *custom bots*, which users publish in versions. The API stores a
version's row in the database and its code in MinIO. Users have roles and sign in with
tokens or API keys. The browser shows a bot's logs (REST for history, SSE for new lines,
polling in need) and the dashboard that its custom bot brings along.

```
 API (TypeScript)            runtime, Docker mode (Go)                 container (Go + bot)
 bot.service.ts  --NATS-->  bot-runner/subscriber --\
   row in SQL               bot-scheduler/subscriber -+--> MongoDB
                                                      |      |
                            BotService, ScheduleService <----/
                              ServiceState, DependencyChecker
                                 |  dockerRunner / ContainerOrchestrator
                                 v
                              Docker engine ------------------------->  execute.go (runBot)
                                                                        SyncRunner, StateSyncer
                                                        MinIO <-------- StateManager, LogsSyncer
```

### Components, their state and what makes each correct

| component | state | operations | how it interacts | hard behaviours | correct when |
|---|---|---|---|---|---|
| **Bot service** `runtime/internal/docker/service.go`, `state.go` | tracked bots, failure counters and backoff times, `startBot` goroutines | reconcile (list, compare, stop extras, restart changed, start missing, sweep, replace state), shutdown | reads MongoDB and the engine; the dependency checker gates each tick | starts outlive the cycle that made them; decisions from a copied map; failed stops reported as done; crash with containers running | one container per wanted bot, none else; restarts only what is out of date; shutdown leaves nothing of its own |
| **Docker runner, orchestrator** `runner.go`, `container_orchestrator.go` | `managedContainers` | start, stop, list, remove, run-and-wait, close | called by both services | stop of a refused container, cancelled contexts | as seen by its callers |
| **Dependency health** `dep_health.go`, `dependency_checker.go` | a cached verdict | probe loop | both loops skip a tick on it | stale verdict | work resumes |
| **Schedule service** `schedule_service.go` | map of executing schedules, one goroutine each | tick, query, try-start, run, book the next time, shutdown | reads and writes MongoDB; engine | check against a map after a query; updates raced by slow runs; abandoned runs | one execution at a time; next time follows the cron; due schedules run |
| **Bot and schedule subscribers** `bot-runner/subscriber`, `bot-scheduler/subscriber` | connection; in MongoDB the documents, the partitions with their counts, a sequence counter | created / updated / deleted handlers | one goroutine per NATS subject | reordering across subjects, multi-call handlers, lost events | documents follow the API; partition counts cover their bots |
| **API bot service** `api/src/bot`, `api/src/common`, `api/src/nats` | rows | create, update, delete, then publish | NATS | publish fails after store, overlapping requests | the runtime hears what was stored |
| **Container entry point** `runtime/cmd/app/execute.go` | context, signal goroutine, cleanup once | download, boot, run, clean up | starts the sync runner; stopped by the engine | signal during any step, kill during the final sync | stop ends; state survives |
| **Sync runner, state syncer, state manager** `runtime/internal/daemon`, `runtime/internal/runtime/storage/state.go` | last hash, a sync under way, stop flag | periodic / triggered / final sync, archive, upload, extract | MinIO; the bot writes meanwhile | hash before archive, upload cut short, cancelled context | remote state never goes back; a skip is right; completion saves |
| Log syncer, MinIO logger `daemon/logs_syncer.go`, `minio-logger` | offset, buffers | append chunks | MinIO | lost answers, rotation | every line at least once, in order |
| Kubernetes controllers `runtime/internal/k8s/controller` | finalizers, status | Reconcile per resource | API server | requeue, deletion | as the bot service |
| Storage garbage collection `runtime/internal/gc` | none | list artifacts, list bots, delete orphans | MinIO, MongoDB | a bot created between the two lists | never deletes a live bot's state |
| **Custom bots** `api/src/custom-bot`, `common/role-revision.repository.ts` | rows per version, objects in MinIO | publish, replace, delete a version or all | rows are what bots refer to; deleting one deletes its bots (foreign key) | every request is a series of separate calls, no constraint on (name, version); storage and database fail apart | versions in order, with their files; no counted bot deleted |
| **Bots of a version** `api/src/bot`, `api/src/mcp` | rows of bots | deploy, upgrade, remove; the MCP tools | looks up versions, publishes events | look-ups grow stale between calls | a bot's config names the version it refers to; the runtime is told |
| **Users and the admin lock** `api/src/user`, `common/lock.repository.ts`, `auth/admin-bootstrap.service.ts` | roles, the lock's row, a queue per instance | change a role, delete an account, bootstrap | several instances over one database | stale locks stolen, instances dying, restarts | changes one at a time; an administrator remains |
| **Queries** `api/src/bot-query`, `runtime/internal/query`, `docker/query_*.go` | map of scheduled ids, ephemeral containers, results in MinIO | resolve, proxy to the bot's server or run a container and fetch its result | engine, MinIO, the bot's container | bots start, stop and vanish between two look-ups; overlapping queries | an answer is of the bot that was asked, for this query |
| **Sessions, API keys** `api/src/auth`, `api/src/api-key` | session versions, keys | login, validate, change or reset a password, delete, create a key | every guard | requests overlap between read and write | accepted tokens are of the account as it is |
| **Bot state API** `api/src/bot-state` | none (the archive in MinIO) | read, delete a key, clear | against the container's uploads | optimistic check, unconditional put | a deletion takes one key |
| **Logs API** `api/src/logs` | shared NATS subscriptions | pages of day files; SSE streams | MinIO, NATS | tail read, limits, growing files; clients leaving at any moment | pages exact; no subscription left, no line missed |
| **Web: log view** `frontend/src/hooks/use-bot-logs.ts` | entries, pending lines, one fetch, an SSE session, polling | fetch, paginate, stream, poll, change mode | REST and SSE of the logs API | answers older than live lines, aborts, torn-down sessions | no line lost, one source of updates, pages stay |
| **Web: bot events** `frontend/src/hooks/use-bot-events.ts`, `lib/events` | events computed from log lines | fetch, parse, group, select | REST and live lines | pages of either order, lines without a time | each event once, in its group |
| **Web: live stream hooks** `frontend/src/hooks/sse`, `lib/sse` | an EventSource, retry timers | connect, retry, switch, unmount | SSE | errors, timers, unmounting in any order | one stream, for the bot shown |
| **Web: bots, keys, users, custom bots** `components/dashboard`, `components/settings`, `app/settings/users`, `app/custom-bots` | a page's copy of the API's rows, dialogs and forms | load, create, edit, delete, navigate | REST through the frontend's routes | answers late, lost or overtaken; changes from elsewhere; pages left | what is shown is what is stored; a new key is seen |
| **Web: dashboard loader** `frontend/src/components/bot/bot-dashboard-loader.tsx` | a bundle cache, runs in progress, a timeout | load, cancel, time out | API route of the bundle | late answers for another bot | the dashboard is the one asked for; loading ends |
| **Web: session** `frontend/src/contexts/auth-context.tsx`, `lib/auth*`, `lib/api-client.ts` | token in localStorage, cookie and page; user | sign in, out, refresh, 401 | API | late answers to an earlier session | the three agree |
| **Node SDK: state** `sdk/nodejs/src/state.ts` | a file per key | set, get, delete, clear | the directory that StateSync uploads | killed within a write; two processes | a key reads as it was left |
| Health, database set-up, CLI, other frontend, other SDKs, charts, examples | — | request/response, user interface, configuration | — | little | — |

## 2. The modules

Each component module declares its parameters as CONSTANTS with one named assumption
(`ConstantsOK`), has one action per step that another process can see, and names its
actions after the code's functions where the step is one function. `MC*` modules add
symmetry for TLC; `*Proofs` modules hold the theorems: one for each component of the runtime,
`BotApiProofs` (BotStateApi, BotQueries, Catalog), `AccountsProofs` (Admins, AdminRoster, Sessions),
`LogsProofs` (LogFanOut, LogView, LogPages) and `ClientsProofs` (the browser's other modules and
SdkState). Definitions marked *Mutation* in a comment are deliberately wrong variants of the
definition after them and no part of `Next`; `PROJECT.json` says which property notices each of them.

### BotService

Models `service.go`, `state.go`, and the runner and orchestrator behind them.

- **The cycle** is `rc`, a program counter with the locals of `reconcile` and
  `performReconciliation`: `want` (bots read from MongoDB), `seen` (container list),
  `snap` (copy of the tracked map), then per bot `cur`, `keep` and `stops`, and `fresh`,
  the map being collected. Steps: `BeginCycle` → `ListContainers` (which also removes
  exited containers, or fails to) → `TakeSnapshot` → `HandleMissing` / `HandleRunning`
  for each bot (in any order: Go map iteration) with `StopBot`, `SettleKept`,
  `SettleChanged`, `Restart` (an instance nobody tracked is first entered by `Adopt`,
  and the entry read back) → `BeginSweep` → `GatherState` → `CommitState`. Every point
  where the code releases a lock or waits for the engine is a step boundary.
- **Starts** (`launch`) are goroutines: `Spawn`, then `LaunchFails` (any failing call, a
  container created and never started included), `LaunchLost` (the engine started the container
  when the cancelled client gave up on the answer), or `LaunchStarts` followed by
  `LaunchRecorded`, which enters the tracked map. They interleave with later cycles and with the
  shutdown.
- **Stops** are part of the cycle and always remove the map entry, since `StopContainer`
  answers nil whatever the engine says (`runner.go:356`).
- **Lifecycle**: `RequestShutdown` (context cancelled: calls fail, starts in progress
  may be lost) → `Drained` (loop and goroutines have ended) → `ShutdownStop` for each
  tracked container → `CloseRunner` → `ShutdownStop` for each managed one → `Exit`;
  or `ServiceCrash`. `Boot` follows either.
- **Data abstracted**: a configuration is a value with equality (a hash comparison in
  the code); the failure counter is capped at the threshold, and the backoff window is a
  flag that opens with a failure at the threshold and closes when time passes.
- **History**: `strays` are containers this process does not answer for (left by a
  crash, or it tried to stop them and the engine refused); `excused` are bots with a
  start that spanned a container listing, or a refused stop.

### ScheduleService

Models `schedule_service.go` with what `bot-scheduler/subscriber` stores. The loop
(`Tick`, `getDueSchedules`, `HandleDue` with `tryStartExecution`, `CheckDone`) holds
copies of the due schedules; each execution goroutine goes `start` → `wait` → `book` →
`release`. Time is abstracted to whether a stored next time has come (`due`) and which
expression it was computed from (`from`): that is all the code's decisions depend on.
`updateNextExecutionTime` uses the expression captured at start and clears `due`.
`Exit` may pass running executions when the wait times out; `ServiceCrash` forgets them;
their containers run on in both cases.

### BotSubscriber

Models the path from `api/src/bot/bot.service.ts` (`create`, `update`, `remove`: store, for
`update` a second read, then publish) over NATS to the handlers of `bot-runner/subscriber`, call
by call: look up, claim a place in a partition, take a sequence number, insert a partition,
upsert, delete, decrement. One queue and one goroutine per subject, so events of one subject are
in order and events of two subjects are not. `Stop` loses queues and running handlers, because
the subscriptions are core NATS ones without a durable consumer.

`Follower` is the abstract specification of the runtime's copy of the bots: it takes over a change
of a bot before the next one is made, and never has anything else than the original has or had
last, but for bots that came loose. BotSubscriber implements it with `original <- Rows` (the API's
table), `copy <- Copies` (MongoDB), `loose <- disturbed`; Catalog with `original <- Wanted`
(the versions of the bots' rows), `copy <- told` (what the events sent say), and as `loose` what
`RuntimeIsTold` excuses. Both refinements are theorems. What they add to the invariants
`AgreesUnlessDisturbed` and `RuntimeIsTold`, which speak of the moments at which nothing is under
way, is every step between: no version is skipped or comes back.

### StateSync

Models one bot's state through a series of containers: `runBot` (download the code,
extract the archive file by file, boot, run, clean up), its signal goroutine, and the sync runner
(hash, archive file by file, put, final sync). A file's content is the number of the
write that made it, so hashes are compared by what was written (`hashDirectory` covers
names, contents and modification times). `ArchiveBreaks` is a file that changes size while it is
copied: the tar ends with an error, and the upload of the shortened archive still
succeeds. The goroutine that handles SIGTERM and `runBot` itself both call `Stop`,
which cancels the runner's context and waits for it; the second call only waits.

### Catalog

Models publishing (`custom-bot.service.ts`, its repository and storage) together with
deploying (`bot.service.ts` and the tools of `mcp.service.ts` that change bots), because
what can go wrong is between them. A request is a record of `req` whose `pc` names the
call it will make next; each call to the database, MinIO or NATS is one step, and nothing
else is atomic. One name of a custom bot is modelled; versions are numbers in the order
of semver, `Major` gives their major number and `Longer` which version's text extends
another's (`1.0.1`, `1.0.10`), which is all that paths and upgrade checks depend on.
The history variables name what the code does not prevent and the properties excuse:
publishing requests that overlapped, bots deployed from a version someone else
published, bots whose config an MCP tool replaced, and bots whose event was not sent.

### Admins and AdminRoster

`Admins` has the roles, the lock (`lock`, its age as the flag `aged`), the promise chain
of each instance (`queue`) and the changes in progress. `tryAcquire`, the theft of a stale
row and `releaseIfMatches` are the statements of `lock.repository.ts`; bootstrap runs under
the same lock before an instance listens; instances crash and restart with the row left
behind. Time is whether the row is older than `staleMs`. `outlived` is history: a lock
grew old under a change that went on, after which the code promises nothing.
`AdminRoster` is the abstract specification: a set of administrators that
join and leave one at a time, never the last, and an API that opens only when there is
one. `Admins` implements it with `admins <- ActiveAdmins`, `open <-` some instance listens,
`sure <- ~outlived`; checked as `ImplementsRoster` and proved.

### Sessions

Login (read, compare, sign), password changes and resets, deactivation, account deletion,
API keys. A token carries the `sessionVersion` that its login read; `epoch` counts what
ought to take tokens back and is compared with it.

### BotStateApi

The archive as an etag with a set of files, uploads by the bot at any moment, and the
requests `stat` → `get` → `check` → `put` or `remove`. `slipped` marks requests whose archive was
written between the last check and the write: the window the code leaves.

### LogPages and LogFanOut

`LogPages` computes a page the way `logs.service.ts` does, file by file, with one step per
file read, so that the file of today grows between two; the checks compare with the page
of the whole log (`PageOf`). The lines of a day are numbered, so that a list of lines is the set
of them with the direction in which it is ordered: the first of a list are those with few lines
ahead of them, and a list that is appended comes after what is there. `Picked` are those
a filter keeps. `LogFanOut` is one bot's entry in the controller's maps: streams, the
subscription they share, and what each was owed and written.

### BotQueries

A query's way: the API's relay with its time limit, the resolver's look-ups (`mark1`, `mark2`
are the two calls of `GetBot`, which write `scheduledIDs`), then either `proxy` to a running
realtime bot's server or an ephemeral container, named after the query, whose result is an
object under `newQueryResultKey`. Parameters are the query's own name, so that an answer tells
for whom it was computed. Bots start, stop and are removed at any moment; the process of the
query server may die.

### LogView, BundleLoader, WebSession

`LogView` is the hook as a state machine: its refs and states are variables under their
names, its handlers and timers actions. `BundleLoader` has each run of `importBundle` as a
record with its own `cancelled`, as the closure has. `WebSession` keeps the token in its
three places; tokens are numbers and a user is the number of the token it came with. Its
requests include the settings forms that change the profile, the password or the account,
through the routes with `withAdminAuth`, down to what the API answers.

### BotEvents and BotStream

`BotEvents` is the pure part of the browser: lines with a kind and a time become events,
and `groupByRun`, `groupByTimeWindow`, `groupByMetricType` and the selections are written
as the code has them and compared with what they promise, over every log of the
bounds, every interval and both orders. `BotStream` is `SSEClient` with the two hooks around it;
`strayed` marks the one timer that the hook cannot cancel.

### DashboardBots, ApiKeyPage, UsersPage, CustomBotPages

Pages over the API. In each, the API's rows are a variable, a request is sent, handled and
answered in separate steps, and a history variable names what the page cannot know: changes made
elsewhere, answers that were lost or overtook each other. Between the steps the user goes on:
opens and closes dialogs, turns to another page, unmounts what asked. `DashboardBots` has the
list of bots and the panel of one; `ApiKeyPage` the keys with the dialog that displays a new
one; `UsersPage` the table with its edits and the form; `CustomBotPages` the list, the page
of one bot, its selected version and its history. In `CustomBotPages` versions are numbered in
the order of publication, which is also that of `updatedAt`, so that a list of versions sorted by
either is the set of them; text search, the contents of
schemas and readmes, and the tabs of the narrow layout are left out. In `DashboardBots` the
API's order of the list is any order.

### SdkState

The files of one state directory, with calls of two processes step by step: a `set` creates or
truncates its file and then fills it, a `clear` removes files one after the other. `Killed` ends
a process anywhere. A query in its own container has `queryMode`, in which writes are refused.

### MCApi and MCClients

The parts of the API share no state, nor do those of its clients, so two modules sum them: the
initial state chooses a part, whose steps are then the only ones. TLC thus checks each on its
own, all in one run, and the number of states is the sum. `MCApi` has Catalog, BotStateApi,
BotQueries, Admins, Sessions, LogPages, LogFanOut and, to share the work evenly, LogView;
`MCClients` has BotSubscriber, BotEvents, BundleLoader, WebSession, BotStream, DashboardBots,
ApiKeyPage, UsersPage, CustomBotPages and SdkState. `ClientsTypeOK` says that the client
that steps is well typed; that the parts of `MCApi` are, is proved for each. The parts
name interchangeable ids alike so that two or three permutations of model values serve all.

## 3. The runs

| run | checks | bounds | shows |
|---|---|---|---|
| `bot_service_safety` | `NoDoubleRun`, `CycleLeavesOnePerWantedBot`, `RestartsOnlyOutdated`, `ShutdownStopsOwn` | 2 bots, 2 configs, 2 containers, threshold 2, 3 edits, 2 faults | all interleavings of cycles, slow starts, crashes and shutdowns (4.1 M states) |
| `bot_service_liveness` | `Converges` | 1 bot, 2 configs, 2 containers, threshold 1, 2 edits, 2 faults | the service recovers to exactly one container per wanted bot |
| `bot_service_stale_config` | `ConfigApplied` (violated) | 1 bot, 2 containers, 2 edits, no fault | finding 1 |
| `schedule_service_checks` | `OneExecution`, `NextFollowsCron`, `DueRuns` | 2 schedules, 2 crons, 4 runs, 2 edits, 1 fault | the executing map equals the goroutines; the next time is of the stored expression; due schedules run |
| `schedule_service_double_run` | `StartsOnlyDue` (violated) | 2 schedules, 1 cron, 3 runs, 1 edit, no fault | finding 2 |
| `bot_subscriber_lost_event` | `EventuallyAgrees` (violated) | 1 bot, 1 request, 1 fault | finding 3 |
| `state_sync_checks` | `CompletionSaves`, `RegressesOnlyWhenDamaged`, `WritesReachRemote`, `StopEnds` | 2 files, 3 writes, 2 containers, 2 faults | archive and directory stay consistent through cut and failed syncs, stops, kills |
| `state_sync_regress` | `RemoteNeverRegresses` (violated) | 2 files, 2 writes, 2 containers, no fault | finding 4 |
| `api_checks` | 13 invariants, `DeletionSparesBots`, `ImplementsRoster`, `DeletingTakesOneKey` | see below | the seven parts of the API and the log view (1.6 M states) |
| `clients_checks` | 12 invariants | see below | the subscriber, eight parts of the browser and the SDK's state (1.8 M states) |
| `catalog_prefix_deletion` | `VersionsHaveTheirFiles` (violated) | 1 user, 1 request at a time, versions 1.0.1 and 1.0.10 | finding 5 |
| `bot_events_latest` | `LatestIsNewest` (violated) | 3 lines, 1 type, pages of 2 | finding 6 |

`api_checks` by part:

| part | properties | bounds |
|---|---|---|
| Catalog | `VersionsInOrder`, `VersionsHaveTheirFiles`, `DeletionSparesBots`, `BotsReferToTheirVersion`, `RuntimeIsTold` | 2 users, 2 versions with 2 rows ever, 1 bot, 2 requests at once, 4 in all, 2 uploads, 1 failed call |
| Admins | `OneChangeAtATime`, `AnAdminRemains`, `ImplementsRoster` | the configured administrator and one more account, 2 instances started twice, 2 changes at once, lock taken 4 times |
| Sessions | `AcceptedTokensAreCurrent` | 1 user, 2 passwords, 2 requests at once, session version to 2, 3 keys |
| BotStateApi | `DeletingTakesOneKey` | 3 keys, 2 requests at once, 4 writes of the archive |
| BotQueries | `QueriesReachTheirBot` | 1 realtime and 1 scheduled bot, 2 queries at once |
| LogPages | `PagesAreExact` | 2 days of 5 lines, tail of 2, cap of 4, pages of 1 and 2, offsets to 2 |
| LogFanOut | `NoIdleSubscription`, `StreamsMissNothing` | 3 streams, 2 subscriptions, 3 lines |
| LogView | `LiveLinesSurvive`, `OneSourceOfUpdates` | 3 lines, pages of 1 |

`clients_checks` (with `ClientsTypeOK`) by part:

| part | properties | bounds |
|---|---|---|
| BotSubscriber | `CountsCoverBots`, `AgreesUnlessDisturbed` | 2 bots, 2 versions, 2 concurrent requests, 4 in all, capacity 1, 3 partitions, 1 fault |
| BundleLoader | `DashboardIsTheOneAsked` | 2 bundles, 3 runs at once |
| WebSession | `SessionAgrees` | 3 tokens, 2 requests in flight |
| BotEvents | `GroupsAreExact` | 3 lines at 3 times, 1 type of metric, gap 1, window 2, pages of 2 |
| BotStream | `OneStreamPerView` | 2 bots, 2 attempts to reconnect, 2 EventSources |
| DashboardBots | `ShownBotsAreStored` | 2 bots, 2 requests at once, 1 change or failure from elsewhere |
| ApiKeyPage | `NewKeysAreSeen` | 2 keys ever, 2 requests at once, 1 lost answer |
| UsersPage | `TableIsTrue` | the administrator and one more user, 2 requests at once |
| CustomBotPages | `PageIsOfOneVersion` | 2 names, 2 versions ever, history pages of 1 |
| SdkState | `StateIsAsLeft` | 2 keys, 2 values, 2 processes |

In `api_checks` no version's text extends another's: `catalog_prefix_deletion` is the same
module and property with one pair that does. The type invariants of BotService,
ScheduleService, StateSync and of the parts of `MCApi`, and `SkipIsRight`, `AddedPagesStay`,
`KeyNamesAreDistinct` and the two refinements of `Follower`, are theorems (section 5), which say
more than a run, and are in no run; TLC was asked about each on the instances above before it was
proved.

**Why the bounds are enough for what they ask.** Duplicate instances, stale copies and lost map
entries concern one bot and two containers; the second bot makes the order of handling and a
partly handled cycle matter. Two containers are also the pool: a third start waits for an id,
which prunes three simultaneous instances and nothing about two. Two faults let a failure hit
the recovery from a failure. Schedules: two expressions tell an old from a new next time, four
runs leave room for abandoned containers next to new ones. Partitions: capacity 1 makes every
claim a boundary case, with a second bot contending for the last place; four requests are
create, update, delete and create again. State: two files are the least for which an archive can
be half new and half old; two containers are the least for which what the first archived can be
lost by the second. API: what goes wrong between requests goes wrong between two; four requests
publish, deploy, upgrade and delete one after the other. Two accounts are the least for which
two demotions can take the last administrator away, and a lock taken four times lets a stolen
one be stolen again. Days of five lines with a tail of two and a cap of four have pages that end
within, at and beyond each. Three lines let one be in history, one in flight and one live. Three
tokens are the session before, the one now and the next. Pages in the browser: two requests at
once are what late answers need to overtake each other; one change from elsewhere makes a copy
stale, and with two bots the page can turn to the other one. Two published versions are two
bots, or two versions of one, not both at once; pages of one make two versions two pages of
history. `MaxSource` and the like leave room for one more than the code may use, so that a
second one would be seen. Bounds live in guards and are named `Max…`; the pools (containers,
runs, requests, streams, loads) bound what goes on at once.

**Deadlock** is checked for both services. It is off for `BotSubscriber` (all requests
served), `StateSync` (all containers used up) and the runs of the API and the browser (all
requests served): those systems really stop at the bound.

**Symmetry** is used only in safety runs, over ids that no definition orders or picks from.

Type invariants say a little more than types where a wrong step would otherwise be
invisible: a tracked entry is never half made; only a runner told to stop is at its
final sync.

## 4. Fairness

- *BotService*: weak fairness of the reconciliation goroutine as a whole, of each start
  (to start and to record), of the shutdown steps, of `Boot` (the supervisor restarts
  the container: `restart: unless-stopped`), of the health loop (a ticker) and of
  backoff windows closing (time). Edits and faults carry no fairness and are bounded,
  so `Converges` speaks of what happens after the last of them. Nothing makes a
  container exit or a start fail.
- *ScheduleService*: the loop, each goroutine, the health probe that finds the service
  healthy again, boot and exit. No fairness for container exits (a container may hang:
  then `DueRuns` only promises that the schedule is running), for times coming due, or
  for calls failing.
- *BotSubscriber*: requests and handlers run to their end, the runtime is restarted.
- *StateSync*: the sync goroutine (which includes the backup ticker that starts a sync again),
  the stop, the cancellation after cleanup, exit, and the end of the bot *once the
  context is cancelled* (`executeProcessWithDeps` then kills it). The bot need not write, nor
  end by itself, and nobody need send a signal.
- The modules of the API and of the browser state safety only and assume no fairness. The second
  part of `DashboardIsTheOneAsked` says that whoever waits for a bundle has a timer set, which
  is what the end of the waiting rests on.

## 5. What is proved

`tlapm` checks every obligation; the only assumptions are those that each module states about
its constants (the null values differ from the real ones, the bounds are numbers, the threshold
is positive, there is a user, a key, a password to speak of). The theorems hold for every set of
bots, containers, schedules, files and every bound.

**BotServiceProofs.** `TypeCorrect` from `TypeInv` = `TypeOK` ∧ `Shape`; `Shape` says what each
program point of the cycle has in hand (a bot with a wanted configuration, a kept container it
has seen) and that a start's record is complete and its container id is still unused while the
image is pulled: without it, a step that writes an entry for `rc.cur` could leave the types.
`ShutdownIsComplete` (`[]ShutdownStopsOwn`) from `Own`: every running container is a stray, or
managed, or in the set being stopped, and the last two are empty at the end. The tracked map
does *not* occur in it, which is why entries lost in `CommitState` do no harm. It needs that
after `Drained` neither a cycle nor a start remains. `AtMostOneInstance` (`[]NoDoubleRun`) from
`OneLive`: for a bot that is not excused there is at most one among running containers and
pending starts, together with what the cycle knows about them: while a bot is undecided, its
instance, if any, is among the containers seen and not a pending start; while extras are
stopped, all its instances are the kept one or about to be stopped; before a restart, all are
about to be stopped. `NoDoubleRun` itself speaks of running containers only and is not
inductive: a pending start would break it. `CycleSettles` (`[]CycleLeavesOnePerWantedBot`) from
`LeavesOne`: of the containers that a cycle has listed, a handled bot has one left, the bot at work
has its kept one and those about to be stopped, and in the sweep the unwanted ones are about to be
stopped. `RestartsAreDue` (`[]RestartsOnlyOutdated`) from `BeliefsTrue`: for a bot that is not
excused, what the tracked map, the cycle's copy of it and the map to be committed say of the bot's
configuration is true of its running containers. The exceptions are what makes it inductive: an
entry need not be true while a start is under way, and one made by `Adopt` says what is wanted,
not what runs (finding 1), but is no longer there after `CommitState`.

**ScheduleServiceProofs.** `TypeCorrect`; `ExecutesOnce` (`[]OneExecution`): the
inductive part is that goroutines and map entries correspond one to one, counted with
`Cardinality`; `StaleOnlyWhenRaced` (`[]NextFollowsCron`): every copy held by the loop or
a goroutine carries the stored expression unless the schedule is marked as raced.

**StateSyncProofs.** The invariant `IInv` is `TypeOK` ∧ `Bounded` (contents come from writes
made) ∧ `RunnerWithBot` (a sync runner only beside a container that uses it) ∧ `SyncedFrom` ∧
`SkipIsRight` ∧ `Ahead` ∧ `CleanRun`. `SkipsOnlyWhenStored`: the remembered hash may be older
than the directory, and the archive may be newer than the hash it was taken under; `SyncedFrom`
says what lies between the two (hash ≤ archive ≤ directory while a sync runs), so equality of
hashes squeezes them together. `RegressNeedsDamage`: `Ahead` says that the directory, the
archive in the making and the files still to be extracted are at or beyond the stored archive
while nothing was damaged. `FinalSyncSaves`: `CleanRun` says which step of the final sync a
container without signal or fault is at.

**BotSubscriberProofs.** `SubscriberInv` is about places in partitions. `Fits`: the bots in a
partition together with the places that handlers hold (claimed and not yet used, or freed and not
yet subtracted) are at most its count, and the count at most the capacity; `Numbered`: partitions
come from the sequence and two handlers do not insert the same one. It gives
`SubscriberTypeCorrect` (without it a decrement could leave the numbers) and `NoPlaceFreedTwice`
(`[]CountsCoverBots`). `RuntimeFollowsTheApi` (`[]AgreesUnlessDisturbed`) from `AgreementInv`: of an
undisturbed bot, `OnCourse` says that MongoDB agrees, or that the last change is in exactly one
place (a call to the API, a message, a handler) and nothing else about the bot is under way, so that
it still reaches MongoDB when it is applied there. `SubscriberImplementsFollower` maps every step
to a step of `Follower` or a stutter under both invariants: storing a change is `Changes` (MongoDB
agreed with the row before), a handler's write to MongoDB is `Follows` (it carries the row as it
is), and a step that disturbs a bot lets it come loose. Neither is visible in the step itself: a
handler writes what it read from a message long before, and it is `OnCourse` that says the row has
not changed since.

**BotApiProofs.** *Bot state*: an etag that was found is still the archive's, with the files read,
or never will be again; after the last look the archive is what was read, or the request has slipped
(`DeletionTakesOneKey`, an action property). *Queries*: `OnTrack` says that whoever is past
the first write of `scheduledIDs` finds the bot there, that a container found for a query is the
bot's own or that of a query, and that the object under a query's key is of the query
(`AnswersReachTheirQuery`). *Catalog*, three invariants, each on top of the one before:

- `References`: ids of rows are given out once, and a row that a request holds by its id is of the
  version it deploys, if it is still there. `CatalogTypeCorrect`, and `BotsKeepTheirVersion`
  (`[]BotsReferToTheirVersion`).
- `PublishingInv`: unless requests overlapped, one request at a time publishes or deletes, and
  `Stage` says what it knows at each step (whose the rows are, that its version comes after them
  all, that its files are stored; which rows and objects go and that no counted bot refers to
  them). That the newest row exists needs finiteness and a lemma on the greatest id.
  `VersionsStayInOrder`, `DeletionsSpareBots` (an action property), and `FilesOutliveTheirRows`:
  every version whose text begins with no other's has its files. `VersionsKeepTheirFiles`
  (`[]VersionsHaveTheirFiles`) therefore has the hypothesis that no version's text begins with
  another's: without it the run `catalog_prefix_deletion` refutes the property (finding 5).
- `ToldInv`: of a bot that is not excused, one request at a time is under way, `Handles` says what it
  knows of the bot's row at each step, and when there is none the runtime has been told of
  the bot as it is (`TheRuntimeIsTold`). `CatalogImplementsFollower`: writing a row is `Changes`,
  sending its event is `Follows`. The rows are those of `References`; `ToldInv`
  says at a request's own write and event (`OwnStepTells`) that the runtime had been told, or is
  told what the row says. `StepsTell` and `CallsTell` are what makes it go through for all others:
  no step of another request touches row or runtime of a bot that does not come loose with it.

**AccountsProofs.** *Admins*: `AdminInv` = `AdminsTypeOK` ∧ `LockInv` ∧ `AdminsKept`. `LockInv`:
stamps are handed out once, so two holders have different ones, and while no lock was outlived every
holder's is the row's and the row is young; hence one holder (`LockKeepsApart`). `AdminsKept`:
what the holder has read is still so: past the count the target exists, and if the change
demotes an active administrator there is another; an instance listens only after a bootstrap
that left one (`SomeAdminRemains`). `AdminsImplementRoster` maps each step to a step of
`AdminRoster` or a stutter under that invariant: a write that demotes is `Leave`, one that
promotes is `Join`, the first instance that listens is `Open`, the last that dies `Close`, a
lock growing old under its holder is `Doubt`. `RosterKeepsAnAdmin` shows what the abstract
specification is good for. *Sessions*: `TokensAsOf`: a token, and the row a login has read, is of a
version of the past, or of the present one and then of the present account; versions only grow, so
it stays (`StaleTokensAreRefused`). `NamesKept`: two requests that create a key for one user do not
both pass the check unless they overlap (`KeysHaveDistinctNames`).

**LogsProofs.** *Live streams*: `OneSubscription` (only the one in the map is up; its clients are
the live streams) gives `SubscriptionsEnd`; `Served` (owed equals written) gives `EveryLineOnce`.
*Log view*: `ReplaceHoldsBack`: while a replace is in flight every line delivered since it began is
held back and no page is added; `PagedIsPaginated`: added pages imply the flag that makes polling
skip its ticks. With the three properties themselves that is inductive (`NoLineIsLost`,
`StreamOrPolling`, `PollingSparesPages`). *Pages*: `LogPagesInv` = `LogPagesTypeOK` ∧ `Reading` ∧
`PagesAreExact`. `Reading` says what is left to read (`DaysLeft`) and what has been collected of
the days already read: for the latest mode all their lines, fewer than are looked for
(`Collected`); for a range, the lines from the offset on, fewer than the limit, with the number
skipped (`Gathered`). It is stated with `seen`, what each day had when it was read, since the file
of today grows. `PagesAreExact` alone says nothing before the answer. Under it lies an
argument about ranks: counting the lines ahead of a line in a finite list is a bijection onto
`0..Size - 1` (`RanksAreNumbers`), so `FirstOf` and `Dropped` cut by rank, have the sizes expected
(`DroppedSize`), and commute with appending a day and with reversing (`PagesAreAlwaysExact`). It
assumes that there is a page size and an offset to ask for. The proof also had a case to settle
that no run can: two conditions of a CASE in `GetRange` overlapped, of which TLC takes the
first; they are disjoint now.

**ClientsProofs.** One inductive invariant for each part, of what the part knows while answers are
missing:

- `BundleInv`: at most one run of the effect is live; it is the one with the timeout and is for the
  bundle asked for (`LatestBundleWins`).
- `WebSessionInv`: requests carry tokens that were given out, and nothing is asked for before the
  page has loaded (`SignOutsAreComplete`).
- `DashboardInv`: the list is what is stored but for bots changed since it was read; a
  panel that nothing disturbed has one request of its own at a time and shows what is stored or
  what an answer is about to replace; what was deleted stays so (`PanelAndListAreStored`).
- `KeyPageInv`: one key is made at a time and displayed before it is forgotten; the list and the
  statistics are the API's, or a fetch is under way that is newer than the last change
  (`NoKeyIsMissed`).
- `ViewInv`: until a timer of `reconnect()` strays, everything that is connected, waiting or
  scheduled serves the one URL of the bot shown (`ViewsKeepOneStream`).
- `UsersPageInv`: two requests about one user are entangled there; of every other user the table
  shows what the API has, or exactly one answer is missing that makes it so. The lemmas say what
  each kind of answer does to the table, a sequence, in terms of the rows in it
  (`TableFollowsTheApi`).
- `SdkInv`: a key that two processes never met at is torn exactly while one call writes it,
  and otherwise reads as the last call left it (`CallsLeaveTheirState`).
- `CustomPagesInv`: every list, in the page or in a request's answer, has one bot of a name, with
  its newest version (`BotList`); the page's bot is of the path in its address and the selected
  version one that this bot has, at a page of its history that begins with a version
  (`PageProper`); what was read after the last change is the API's (`ReadTruly`). That grouping
  by name gives such a list, and that a bot has a newest version, are lemmas about finite sets of
  numbered versions (`OneVersionIsOffered`).

The type invariants of all component modules but BotEvents, BotStream and DashboardBots are theorems
of their own (`…TypeCorrect`); most of them need part of the inductive invariant beside them. The
proof of `DashboardBots` would need a bound on the editions of a configuration, the one of
`BotStream` one on the EventSources that a stray timer opens: TLC's bounds cut both short, the code
has neither.

**Only model-checked.** Liveness (`Converges`, `DueRuns`, `WritesReachRemote`, `StopEnds`): the
prover does not handle fairness and ENABLED. `GroupsAreExact` (`BotEvents`) says what sorting,
filtering and folding a sequence results in. That needs induction over the sequence, and the
library's induction theorems take an operator as a parameter, which the installed provers cannot
instantiate; of `SelectSeq` not even the definition can be expanded. `TableIsTrue`,
`PageIsOfOneVersion` and `PagesAreExact` are stated over sets of rows, versions and lines, whose
numbers give their order, so that they do not meet this limit. `ClientsTypeOK` is the sum of the
clients' type invariants, of which the three above are not proved. The
violated properties are counterexamples by TLC. No module uses a RECURSIVE operator.

## 6. Where the code disagrees with its documents

1. *A changed configuration may never be applied* (`ConfigApplied`).
   `runtime/internal/docker/README.md:44` promises a restart. A container that is running and
   untracked is adopted together with the configuration wanted *now* (`service.go:366-376`); a
   start that is recorded while a cycle collects its map is dropped from it
   (`service.go:409-420`). The two together lose a change for good, without any fault.
2. *A schedule can start although it is not due* (`StartsOnlyDue`).
   `schedule_service.go:273` and `:344` claim the time-of-check race is closed; the map
   is checked atomically but the query that found the schedule due is older.
3. *A lost event is never made good* (`EventuallyAgrees`).
   `runtime/internal/docker/README.md:46` says changes wait for the next interval without NATS;
   the reconciler reads MongoDB, which only the subscriber fills.
4. *An interrupted download lets state go back* (`RemoteNeverRegresses`). A stop signal
   or an error during the download is logged only; the bot starts without its files and
   the upload that follows replaces the archive.
5. *Deleting a version can delete another's files* (`VersionsHaveTheirFiles`).
   `custom-bot.service.ts:417-419` wants no row that points to missing files. The cleanup
   removes every object whose path starts with `<user>/<name>/<version>`: deleting `1.0.1` removes
   the code of `1.0.10`.
6. *The latest metric can be the oldest* (`LatestIsNewest`). `use-bot-events.ts:184` sorts so
   that "utils are correct regardless of fetch order", but a metric line carries its time in its
   JSON, which the parser does not look at: every metric of a page is stamped with now, the sort
   keeps a newest-first page as it is, and `latest` takes its last.

`PROJECT.json` quotes the lines and tells each run's counterexample.

Other behaviour that surprised while modelling, in the models as the code has it, or in
code that is not modelled:

- The MCP tools that update and delete bots publish no event, and the update checks
  neither schema nor version (`mcp.service.ts`); `Catalog` marks such bots `patched` or `adrift`.
- When the 512 KB tail of a day is too short, the latest mode reads the day's *oldest*
  10000 lines (`logs.service.ts:167-180`); in a time window read oldest first, the offset is
  counted before the filter (`:250-254`). `PagesAreExact` names both as exceptions.
  `handleLogsSummary` (`mcp.service.ts:622-663`) takes `logs[0]` for the last entry, although
  the answer for a single day is oldest first.
- A guard reads the caller's role before the change queues for the admin lock: a caller demoted
  meanwhile still gets the change through. A token becomes valid again when its account
  is deactivated and activated. `changePassword` can overwrite an administrator's reset.
- A key deleted from a bot's archive comes back with the running bot's next upload.
- In the log view, pages of earlier lines do not keep polling from replacing them; lines
  published between the history's snapshot and the stream's subscription are missed; a line can
  be shown twice, from history and from the stream, since their keys differ. Asking for a page
  aborts a replace in flight and leaves the flag that holds new lines back set
  (`use-bot-logs.ts:298-300`): they stay hidden until the next replace. The console's sort
  toggle in live mode reverses an answer that is already oldest first (`:252-257`).
- *Session*: a 401 to a request of an earlier session signs the present one out; a refresh of
  the user that an earlier session asked for is shown in the present one (`mixed` in
  `WebSession`). A wrong current password in the settings is answered 401
  (`user.service.ts:236`, `:259`), at which `authFetch` signs the user out, although the form's
  own message says to check the password and try again (`password-form.tsx:82`).
- *Queries*: parameters never reach a realtime bot's handler: the runtime posts them as the
  body, the SDK reads the URL (`docs/custom-bot-development/queries.md:41` says they arrive).
  `GetContainerID` also finds the ephemeral containers of a realtime bot's queries; the query
  then fails. The object of a query whose handler failed or that timed out is not deleted.
  `scheduledIDs` is a plain map that concurrent queries write: besides what `BotQueries` shows,
  the Go runtime may end the process.
- *Dashboard*: a toggle sends the whole configuration the panel loaded, so that an edit by the
  CLI is lost (`bot-detail-panel.tsx:255`); the list beside is not told of it; a deletion
  answered after the user moved on still navigates, to the first bot of an old list; a list
  fetched late brings back a bot removed meanwhile (`dashboard-bots-context.tsx`).
- *Live stream hooks*: no page uses them. An `EventSource` sends no Authorization header, which
  both stream routes demand; with the API failing too, the hook reconnects without a pause;
  `initialLoadComplete` is not reset when the bot changes; the 100 ms timer of `reconnect()`
  outlives the hook (`strayed`).
- *API keys*: a key created after its dialog was closed appears when the dialog is opened next;
  overlapping fetches may leave an older list; a deletion's answer closes whichever dialog is
  open. The dialog says that the key cannot be seen again, but the API's list returns keys in
  full.
- *Users*: a creation that is answered while the list loads gives a double row; a creation's
  answer closes a dialog opened again since and empties its form. Both are excused by `tangled`.
- *Custom bot pages*: the layout's list is fetched once per mount. On a wide screen a deleted
  bot that is first in the old list traps the user: from "Bot Not Found" Back leads to the list,
  which redirects to the first bot. The history's page number is kept when another version list
  has fewer pages.
- *Node SDK*: a query's parameters are a global of the module; `state.set` writes its file in
  place, and `state.get` answers its default for a file cut short; `state.clear` stops silently
  when another process has removed a file that it listed; the read-only error does not hold in
  the query server's process, where `QUERY_PATH` is not set.

## 7. What is not modelled

- *Log path of the runtime (log syncer, MinIO logger), Kubernetes controllers, garbage
  collection*: planned (section 8).
- *Two runtime processes in one NATS queue group*, and *two containers of one bot
  uploading over each other*: each module has one process on that side. That two
  containers can exist is BotService's `excused` case.
- *Containers created and not started* are dropped by `LaunchFails`: nothing in the code
  looks at them again.
- *The file watcher*: a sync may begin at any moment in `StateSync`, which covers it.
- *Image names, environment, mounts, resource limits, ports, metrics, restart counters,
  log texts*: no decision of the modelled code depends on them.
- *Field validation and reads of the API, health, migrations*: they
  change no state that another component relies on.
- *The rest of the frontend*: components without requests of their own, notices, charts and
  routing over the contexts and hooks that are modelled. Leaving the page of the API keys in the
  middle of a request, and several tabs of one browser, are left out. *CLI*: one-shot commands.
  *SDKs* besides the Node SDK's state: the same functions in other languages, or sequential
  helpers. *Charts, examples, docs*: configuration and text.

Hazards of the code that no property here covers, besides the ones that `PROJECT.json`
lists with a note:

- a container that starts and crashes at once resets the failure counter on each start,
  so it never backs off (`docker/service.go:264`);
- a container that was created but failed to start is never removed
  (`container_orchestrator.go:133`);
- a schedule's place in a partition is claimed before its cron expression is
  validated (`bot-scheduler/subscriber/subscriber.go:365`);
- a state directory that the bot has emptied is never uploaded, so the next container starts
  with the deleted files (`daemon/state_syncer.go:75`; `StateSync`'s bot only writes);
- a log upload whose answer is lost is repeated from the same offset
  (`daemon/logs_syncer.go:152`); what the bot writes between the final sync and its kill is lost
  (`execute.go:174`).

## 8. Plan

Done: the modules of section 2, their runs, and the proofs of section 5.

Next, in order of importance:

1. **LogSync** with an abstract **AppendLog**: `LogsSyncer` (offset, chunks, rotation,
   final sync) and the MinIO logger's buffers; the abstract specification promises that
   each line is stored at least once and in order until a fault. The pages of `LogPages`
   then read what it stores.
2. **K8sControllers**: `bot_controller.go` and `botschedule_controller.go` with
   finalizers and requeues; same contract as BotService (one workload per wanted bot,
   none after deletion), stated once and instantiated by both.
3. **StorageGC**: mark-then-delete of `gc.go` against bots created between its two
   lists and against a sync in flight, composed with StateSync's archive.
4. StateSync with file deletion, and with a second container of the same bot; its
   archive composed with BotStateApi's.
5. Proofs: `GroupsAreExact`, with the events of a page as a set with their times and places, as
   far as it does not rest on induction; the types of `BotStream` and `DashboardBots` with their
   bounds as hypotheses.
