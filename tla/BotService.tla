----------------------------- MODULE BotService -----------------------------
(***************************************************************************)
(* Docker mode's realtime side: BotService of runtime/internal/docker.     *)
(*                                                                         *)
(* One reconciliation goroutine compares the bots MongoDB wants with the   *)
(* containers the Docker engine runs.  Starts run in goroutines of their   *)
(* own (startBot) and may outlive the cycle that asked for them; stops are *)
(* made by the cycle itself.  What the service believes is running is the  *)
(* in-memory map of ServiceState, copied at the start of a cycle and       *)
(* replaced at its end.  The dependency health loop, the NATS subscribers  *)
(* that change MongoDB, crashing containers, and the crash or graceful     *)
(* shutdown of the service itself interleave with all of that.             *)
(***************************************************************************)
EXTENDS Naturals, FiniteSets

CONSTANTS
  Bot,            \* bot ids
  Config,         \* the configurations a bot may be given (only equality matters)
  Container,      \* container ids; the pool bounds how many exist at once
  NoBot,          \* a container id nobody uses carries no bot
  NoContainer,    \* no container is being kept
  NoConfig,       \* no document for the bot, or a disabled one
  Untracked,      \* no entry in ServiceState.runningBots
  Threshold,      \* maxConsecutiveFailures (5 in the code)
  MaxEdits,       \* bound: changes of the wanted bots
  MaxFaults       \* bound: crashes, failures, outages and shutdowns

ASSUME ConstantsOK ==
  /\ NoBot \notin Bot
  /\ NoConfig \notin Config
  /\ NoContainer \notin Container
  /\ Untracked \notin [id : Container, cfg : Config]
  /\ Threshold \in Nat \ {0}
  /\ MaxEdits \in Nat
  /\ MaxFaults \in Nat

VARIABLES
  desired,        \* MongoDB: the config of every enabled bot
  edits,          \* how often desired has changed
  svc,            \* the service process: "down", "up", then the phases of shutdown
  healthy,        \* DependencyChecker's cached verdict
  rc,             \* the reconciliation goroutine: its program counter and its locals
  tracked,        \* ServiceState.runningBots
  failures,       \* ServiceState.botFailures: consecutive failures, capped at Threshold
  cooling,        \* whether the bot's backoff window is still open
  launch,         \* the startBot goroutines, by the container they are to make
  managed,        \* dockerRunner.managedContainers
  closing,        \* containers the shutdown has yet to stop
  container,      \* the Docker engine
  strays,         \* history: containers this process does not answer for
  excused,        \* history: bots that had a slow start or a failed stop
  faults          \* how much of MaxFaults is used up

dbVars      == <<desired, edits>>
stateVars   == <<tracked, failures, cooling>>
engineVars  == <<container, managed, strays>>
vars == <<desired, edits, svc, healthy, rc, tracked, failures, cooling, launch,
          managed, closing, container, strays, excused, faults>>

-----------------------------------------------------------------------------
(* Types *)

Want     == Config \cup {NoConfig}
Tracking == [id : Container, cfg : Config]

Gone       == [bot |-> NoBot, cfg |-> NoConfig, status |-> "gone"]
Idle       == [bot |-> NoBot, cfg |-> NoConfig, stage |-> "none"]

\* Between cycles the goroutine holds nothing.
AtRest == [pc     |-> "idle",
           want   |-> [b \in Bot |-> NoConfig],
           seen   |-> {},
           snap   |-> [b \in Bot |-> NoConfig],
           todo   |-> {},
           cur    |-> NoBot,
           keep   |-> NoContainer,
           stops  |-> {},
           missed |-> {},
           fresh  |-> [b \in Bot |-> Untracked]]

CycleState ==
  [pc     : {"idle", "list", "snap", "bots", "extras", "adopted", "restart", "sweep",
             "commit"},
   want   : [Bot -> Want],
   seen   : SUBSET Container,
   snap   : [Bot -> Want],
   todo   : SUBSET Bot,
   cur    : Bot \cup {NoBot},
   keep   : Container \cup {NoContainer},
   stops  : SUBSET Container,
   missed : SUBSET Container,
   fresh  : [Bot -> Tracking \cup {Untracked}]]

LaunchState    == [bot : Bot \cup {NoBot}, cfg : Want, stage : {"none", "pull", "started"}]
ContainerState == [bot : Bot \cup {NoBot}, cfg : Want, status : {"gone", "running", "exited"}]

\* Every variable has its type; in particular a tracked entry is never half made.
TypeOK ==
  /\ desired \in [Bot -> Want]
  /\ edits \in 0..MaxEdits
  /\ svc \in {"down", "up", "draining", "stopping", "closing"}
  /\ healthy \in BOOLEAN
  /\ rc \in CycleState
  /\ tracked \in [Bot -> Tracking \cup {Untracked}]
  /\ failures \in [Bot -> 0..Threshold]
  /\ cooling \in [Bot -> BOOLEAN]
  /\ launch \in [Container -> LaunchState]
  /\ managed \subseteq Container
  /\ closing \subseteq Container
  /\ container \in [Container -> ContainerState]
  /\ strays \subseteq Container
  /\ excused \subseteq Bot
  /\ faults \in 0..MaxFaults

-----------------------------------------------------------------------------
(* Reading the state *)

Running    == {c \in Container : container[c].status = "running"}
Exited     == {c \in Container : container[c].status = "exited"}
RunningFor(b) == {c \in Running : container[c].bot = b}

Pending       == {c \in Container : launch[c].stage # "none"}

\* The instances of b among the containers this cycle listed.
Instances(b) == {c \in rc.seen : container[c].bot = b}

TrackedIds == {tracked[b].id : b \in {x \in Bot : tracked[x] # Untracked}}
FreshIds   == {rc.fresh[b].id : b \in {x \in Bot : rc.fresh[x] # Untracked}}

\* Docker never reuses an id; the pool does, once nothing refers to it.
Free == {c \in Container : /\ container[c] = Gone
                           /\ launch[c] = Idle
                           /\ c \notin TrackedIds \cup FreshIds}

\* s.ctx is cancelled: every Docker call the service makes from now on may be
\* refused by the client.
Cancelled == svc = "draining"

\* The environment spends one fault.
Fault == faults < MaxFaults /\ faults' = faults + 1

\* A call fails of its own accord, or because its context is cancelled.
CallFails == \/ Cancelled /\ UNCHANGED faults
             \/ ~Cancelled /\ Fault

-----------------------------------------------------------------------------
Init ==
  /\ desired = [b \in Bot |-> NoConfig]
  /\ edits = 0
  /\ svc = "down"
  /\ healthy = TRUE
  /\ rc = AtRest
  /\ tracked = [b \in Bot |-> Untracked]
  /\ failures = [b \in Bot |-> 0]
  /\ cooling = [b \in Bot |-> FALSE]
  /\ launch = [c \in Container |-> Idle]
  /\ managed = {}
  /\ closing = {}
  /\ container = [c \in Container |-> Gone]
  /\ strays = {}
  /\ excused = {}
  /\ faults = 0

-----------------------------------------------------------------------------
(* The environment *)

\* The NATS subscriber stores, changes, disables or deletes a bot; without NATS,
\* which is optional, somebody else does, whether or not the service runs.
SetDesired(b, w) ==
  /\ edits < MaxEdits
  /\ w # desired[b]
  /\ desired' = [desired EXCEPT ![b] = w]
  /\ edits' = edits + 1
  /\ UNCHANGED <<svc, healthy, rc, tracked, failures, cooling, launch, managed,
                 closing, container, strays, excused, faults>>

\* A bot's process ends on its own; its container is kept for the crash logs.
ContainerExits(c) ==
  /\ c \in Running
  /\ Fault
  /\ container' = [container EXCEPT ![c].status = "exited"]
  /\ UNCHANGED <<desired, edits, svc, healthy, rc, tracked, failures, cooling,
                 launch, managed, closing, strays, excused>>

\* A pass of runDepHealthLoop: it caches what it found.
CheckHealth ==
  /\ svc = "up"
  /\ \/ healthy /\ Fault
     \/ ~healthy /\ UNCHANGED faults
  /\ healthy' = ~healthy
  /\ UNCHANGED <<dbVars, svc, rc, stateVars, launch, engineVars, closing, excused>>

\* Enough time passes for ShouldSkipBot to let the bot through again.
BackoffExpires(b) ==
  /\ cooling[b]
  /\ cooling' = [cooling EXCEPT ![b] = FALSE]
  /\ UNCHANGED <<dbVars, svc, healthy, rc, tracked, failures, launch, engineVars,
                 closing, excused, faults>>

-----------------------------------------------------------------------------
(* startBot: the goroutine that makes container c *)

RecordBotFailure(b) ==
  /\ failures' = [failures EXCEPT ![b] = IF @ < Threshold THEN @ + 1 ELSE @]
  /\ cooling' = [cooling EXCEPT ![b] = failures[b] + 1 >= Threshold]

\* startBot: the goroutine is under way from here on.  With the pool used up the
\* start is left to the next cycle: that is the pool's bound, not the code's.
Spawn(b) ==
  \/ /\ Free = {}
     /\ UNCHANGED launch
  \/ \E c \in Free :
       launch' = [launch EXCEPT ![c] = [bot |-> b, cfg |-> rc.want[b], stage |-> "pull"]]

\* StartContainer ends with status "error": a bad entrypoint or runtime, or the
\* image, the create or the start failed.  A container that was created and never
\* started is not seen by any later step, so it leaves the model here.
LaunchFails(c) ==
  LET b == launch[c].bot IN
  /\ launch[c].stage = "pull"
  /\ CallFails
  /\ launch' = [launch EXCEPT ![c] = Idle]
  /\ RecordBotFailure(b)
  /\ UNCHANGED <<dbVars, svc, healthy, rc, tracked, engineVars, closing, excused>>

\* The engine has started the container when the cancelled client gives up on the
\* answer: the service takes the start for a failure.
LaunchLost(c) ==
  LET b == launch[c].bot IN
  /\ launch[c].stage = "pull"
  /\ Cancelled
  /\ launch' = [launch EXCEPT ![c] = Idle]
  /\ container' = [container EXCEPT ![c] = [bot |-> b, cfg |-> launch[c].cfg,
                                            status |-> "running"]]
  /\ strays' = strays \cup {c}
  /\ excused' = excused \cup {b}
  /\ RecordBotFailure(b)
  /\ UNCHANGED <<dbVars, svc, healthy, rc, tracked, managed, closing, faults>>

\* CreateAndStart succeeds and addManagedContainer records the id.
LaunchStarts(c) ==
  /\ launch[c].stage = "pull"
  /\ launch' = [launch EXCEPT ![c].stage = "started"]
  /\ container' = [container EXCEPT ![c] = [bot |-> launch[c].bot, cfg |-> launch[c].cfg,
                                            status |-> "running"]]
  /\ managed' = managed \cup {c}
  /\ UNCHANGED <<dbVars, svc, healthy, rc, stateVars, closing, strays, excused, faults>>

\* The goroutine ends: ResetBotFailure, then SetRunningBot.
LaunchRecorded(c) ==
  LET b == launch[c].bot IN
  /\ launch[c].stage = "started"
  /\ launch' = [launch EXCEPT ![c] = Idle]
  /\ failures' = [failures EXCEPT ![b] = 0]
  /\ cooling' = [cooling EXCEPT ![b] = FALSE]
  /\ tracked' = [tracked EXCEPT ![b] = [id |-> c, cfg |-> launch[c].cfg]]
  /\ UNCHANGED <<dbVars, svc, healthy, rc, engineVars, closing, excused, faults>>

-----------------------------------------------------------------------------
(* reconcile *)

\* getDesiredBots.  (When the query fails the cycle ends before it did anything.)
BeginCycle ==
  /\ svc = "up"
  /\ healthy
  /\ rc.pc = "idle"
  /\ rc' = [rc EXCEPT !.pc = "list", !.want = desired]
  /\ UNCHANGED <<dbVars, svc, healthy, stateVars, launch, engineVars, closing,
                 excused, faults>>

\* ListAllManagedContainers fails: the cycle is given up.
ListFails ==
  /\ rc.pc = "list"
  /\ CallFails
  /\ rc' = AtRest
  /\ UNCHANGED <<dbVars, svc, healthy, stateVars, launch, engineVars, closing, excused>>

\* The running containers are kept for the comparison, the exited ones removed
\* (HandleCrashedContainer); one that could not be removed is listed again next time.
ListContainers ==
  /\ rc.pc = "list"
  /\ svc = "up"
  /\ rc' = [rc EXCEPT !.pc = "snap", !.seen = Running]
  /\ managed' = managed \ Exited
  /\ excused' = excused \cup {launch[c].bot : c \in Pending}
  /\ \/ /\ container' = [c \in Container |-> IF c \in Exited THEN Gone ELSE container[c]]
        /\ strays' = strays \ Exited
        /\ UNCHANGED faults
     \/ /\ Exited # {}
        /\ Fault
        /\ UNCHANGED <<container, strays>>
  /\ UNCHANGED <<dbVars, svc, healthy, stateVars, launch, closing>>

\* performReconciliation copies the tracked bots once, before its loops.
TakeSnapshot ==
  /\ rc.pc = "snap"
  /\ rc' = [rc EXCEPT !.pc   = "bots",
                      !.snap = [b \in Bot |-> IF tracked[b] = Untracked THEN NoConfig
                                              ELSE tracked[b].cfg],
                      !.todo = {b \in Bot : rc.want[b] # NoConfig}]
  /\ UNCHANGED <<dbVars, svc, healthy, stateVars, launch, engineVars, closing,
                 excused, faults>>

ShouldSkipBot(b) == failures[b] >= Threshold /\ cooling[b]

\* A wanted bot that no listed container runs: start it, unless it is backing off.
HandleMissing(b) ==
  /\ rc.pc = "bots"
  /\ b \in rc.todo
  /\ Instances(b) = {}
  /\ rc' = [rc EXCEPT !.todo = @ \ {b}]
  /\ IF ShouldSkipBot(b) THEN UNCHANGED launch ELSE Spawn(b)
  /\ UNCHANGED <<dbVars, svc, healthy, stateVars, engineVars, closing, excused, faults>>

\* Mutation: the extra instances are left running.
HandleRunning_KeepsExtras(b) ==
  /\ rc.pc = "bots"
  /\ b \in rc.todo
  /\ \E k \in Instances(b) :
       rc' = [rc EXCEPT !.pc = "extras", !.todo = @ \ {b}, !.cur = b, !.keep = k]
  /\ UNCHANGED <<dbVars, svc, healthy, stateVars, launch, engineVars, closing,
                 excused, faults>>

\* A wanted bot that runs: keep the first instance of the engine's list, whose
\* order is the engine's, and stop the others.
HandleRunning(b) ==
  /\ rc.pc = "bots"
  /\ b \in rc.todo
  /\ \E k \in Instances(b) :
       rc' = [rc EXCEPT !.pc = "extras", !.todo = @ \ {b}, !.cur = b, !.keep = k,
                        !.stops = Instances(b) \ {k}]
  /\ UNCHANGED <<dbVars, svc, healthy, stateVars, launch, engineVars, closing,
                 excused, faults>>

\* stopBot on container c, in whichever loop of the cycle: StopContainer forgets the
\* container and then stops it, and answers nil whether or not the engine did.
StopBot(c) ==
  LET b == container[c].bot IN
  /\ rc.pc \in {"extras", "restart", "sweep"}
  /\ c \in rc.stops
  /\ managed' = managed \ {c}
  /\ tracked' = [tracked EXCEPT ![b] = Untracked]
  /\ \/ /\ container' = [container EXCEPT ![c].status = "exited"]
        /\ rc' = [rc EXCEPT !.stops = @ \ {c}]
        /\ UNCHANGED <<strays, excused, faults>>
     \/ /\ c \in Running
        /\ CallFails
        /\ rc' = [rc EXCEPT !.stops = @ \ {c}, !.missed = @ \cup {c}]
        /\ strays' = strays \cup {c}
        /\ excused' = excused \cup {b}
        /\ UNCHANGED container
  /\ UNCHANGED <<dbVars, svc, healthy, failures, cooling, launch, closing>>

ExtrasStopped == rc.pc = "extras" /\ rc.stops = {}

\* An instance nobody tracked is adopted with the wanted configuration, and the entry
\* is read back: a start recorded in between has overwritten it.
Adopt ==
  LET b == rc.cur IN
  /\ ExtrasStopped
  /\ rc.snap[b] = NoConfig
  /\ tracked' = [tracked EXCEPT ![b] = [id |-> rc.keep, cfg |-> rc.want[b]]]
  /\ rc' = [rc EXCEPT !.pc = "adopted"]
  /\ UNCHANGED <<dbVars, svc, healthy, failures, cooling, launch, engineVars,
                 closing, excused, faults>>

\* The comparison is made with the copy of the tracked bots, or with what was read
\* back after an adoption.
ReadyToCompare == \/ ExtrasStopped /\ rc.snap[rc.cur] # NoConfig
                  \/ rc.pc = "adopted"

ConfigChanged(b) ==
  rc.want[b] # IF rc.pc = "adopted" THEN tracked[b].cfg ELSE rc.snap[b]

\* Nothing changed: SetRunningBot on the kept instance.
SettleKept ==
  LET b == rc.cur IN
  /\ ReadyToCompare
  /\ ~ConfigChanged(b)
  /\ tracked' = [tracked EXCEPT ![b] = [id |-> rc.keep, cfg |-> rc.want[b]]]
  /\ rc' = [rc EXCEPT !.pc = "bots", !.cur = NoBot, !.keep = NoContainer]
  /\ UNCHANGED <<dbVars, svc, healthy, failures, cooling, launch, engineVars,
                 closing, excused, faults>>

\* Mutation: the bot is started anew without stopping the outdated instance.
SettleChanged_NoStop ==
  /\ ReadyToCompare
  /\ ConfigChanged(rc.cur)
  /\ rc' = [rc EXCEPT !.pc = "restart"]
  /\ UNCHANGED <<dbVars, svc, healthy, stateVars, launch, engineVars, closing,
                 excused, faults>>

SettleChanged ==
  /\ ReadyToCompare
  /\ ConfigChanged(rc.cur)
  /\ rc' = [rc EXCEPT !.pc = "restart", !.stops = {rc.keep}]
  /\ UNCHANGED <<dbVars, svc, healthy, stateVars, launch, engineVars, closing,
                 excused, faults>>

\* The outdated instance was stopped: start the bot anew.
Restart ==
  /\ rc.pc = "restart"
  /\ rc.stops = {}
  /\ Spawn(rc.cur)
  /\ rc' = [rc EXCEPT !.pc = "bots", !.cur = NoBot, !.keep = NoContainer]
  /\ UNCHANGED <<dbVars, svc, healthy, stateVars, engineVars, closing, excused, faults>>

\* Mutation: only containers of tracked bots are swept.
BeginSweep_TrackedOnly ==
  /\ rc.pc = "bots"
  /\ rc.todo = {}
  /\ rc' = [rc EXCEPT !.pc = "sweep",
                      !.stops = {c \in rc.seen : /\ rc.want[container[c].bot] = NoConfig
                                                 /\ rc.snap[container[c].bot] # NoConfig}]
  /\ UNCHANGED <<dbVars, svc, healthy, stateVars, launch, engineVars, closing,
                 excused, faults>>

\* The loop over the wanted bots ends; the containers of the others are to stop.
BeginSweep ==
  /\ rc.pc = "bots"
  /\ rc.todo = {}
  /\ rc' = [rc EXCEPT !.pc = "sweep",
                      !.stops = {c \in rc.seen : rc.want[container[c].bot] = NoConfig}]
  /\ UNCHANGED <<dbVars, svc, healthy, stateVars, launch, engineVars, closing,
                 excused, faults>>

\* Mutation: bots adopted in this cycle stay tracked, with the configuration they were
\* adopted with.
Survivors_AdoptedToo == {b \in Bot : rc.want[b] # NoConfig /\ Instances(b) # {}}

\* The state to keep: bots tracked when the cycle began, wanted and listed, with the
\* entry they have now.
Survivors == {b \in Bot : /\ rc.snap[b] # NoConfig
                          /\ rc.want[b] # NoConfig
                          /\ Instances(b) # {}}

GatherState ==
  /\ rc.pc = "sweep"
  /\ rc.stops = {}
  /\ rc' = [rc EXCEPT !.pc = "commit",
                      !.fresh = [b \in Bot |-> IF b \in Survivors THEN tracked[b]
                                               ELSE Untracked]]
  /\ UNCHANGED <<dbVars, svc, healthy, stateVars, launch, engineVars, closing,
                 excused, faults>>

\* UpdateRunningBotsFromMap replaces the map: what was set since is lost.
CommitState ==
  /\ rc.pc = "commit"
  /\ tracked' = rc.fresh
  /\ rc' = AtRest
  /\ UNCHANGED <<dbVars, svc, healthy, failures, cooling, launch, engineVars,
                 closing, excused, faults>>

-----------------------------------------------------------------------------
(* Boot, graceful shutdown, crash *)

\* The process starts with empty memory and probes its dependencies once.
Boot ==
  /\ svc = "down"
  /\ svc' = "up"
  /\ \/ healthy' = TRUE /\ UNCHANGED faults
     \/ healthy' = FALSE /\ Fault
  /\ UNCHANGED <<dbVars, rc, stateVars, launch, engineVars, closing, excused>>

\* SIGTERM, or Stop: s.cancel().
RequestShutdown ==
  /\ svc = "up"
  /\ Fault
  /\ svc' = "draining"
  /\ UNCHANGED <<dbVars, healthy, rc, stateVars, launch, engineVars, closing, excused>>

\* wg.Wait returns: the loop and every startBot goroutine are gone.
Drained ==
  /\ svc = "draining"
  /\ rc.pc = "idle"
  /\ Pending = {}
  /\ svc' = "stopping"
  /\ closing' = TrackedIds
  /\ UNCHANGED <<dbVars, healthy, rc, stateVars, launch, engineVars, excused, faults>>

\* One of the concurrent stops of shutdown, or of cleanupManagedContainers.
ShutdownStop(c) ==
  /\ svc \in {"stopping", "closing"}
  /\ c \in closing
  /\ closing' = closing \ {c}
  /\ managed' = managed \ {c}
  /\ \/ /\ container' = IF c \in Running THEN [container EXCEPT ![c].status = "exited"]
                         ELSE container
        /\ UNCHANGED <<strays, faults>>
     \/ /\ c \in Running
        /\ Fault
        /\ strays' = strays \cup {c}
        /\ UNCHANGED container
  /\ UNCHANGED <<dbVars, svc, healthy, rc, stateVars, launch, excused>>

\* Mutation: the runner is not closed; only tracked containers are stopped.
CloseRunner_Skipped ==
  /\ svc = "stopping"
  /\ closing = {}
  /\ svc' = "closing"
  /\ closing' = {}
  /\ managed' = {}
  /\ UNCHANGED <<dbVars, healthy, rc, stateVars, launch, container, strays, excused, faults>>

\* The deferred runner.Close takes over what is still managed.
CloseRunner ==
  /\ svc = "stopping"
  /\ closing = {}
  /\ svc' = "closing"
  /\ closing' = managed
  /\ managed' = {}
  /\ UNCHANGED <<dbVars, healthy, rc, stateVars, launch, container, strays, excused, faults>>

\* What the process had in memory goes with it.
ForgetMemory ==
  /\ svc' = "down"
  /\ healthy' = TRUE
  /\ rc' = AtRest
  /\ tracked' = [b \in Bot |-> Untracked]
  /\ failures' = [b \in Bot |-> 0]
  /\ cooling' = [b \in Bot |-> FALSE]
  /\ launch' = [c \in Container |-> Idle]
  /\ managed' = {}
  /\ closing' = {}

Exit ==
  /\ svc = "closing"
  /\ closing = {}
  /\ ForgetMemory
  /\ UNCHANGED <<dbVars, container, strays, excused, faults>>

\* The process is killed; its containers run on.
ServiceCrash ==
  /\ svc # "down"
  /\ Fault
  /\ ForgetMemory
  /\ strays' = strays \cup Running
  /\ UNCHANGED <<dbVars, container, excused>>

-----------------------------------------------------------------------------
Environment ==
  \/ \E b \in Bot, w \in Want : SetDesired(b, w)
  \/ \E c \in Container : ContainerExits(c)
  \/ CheckHealth
  \/ \E b \in Bot : BackoffExpires(b)

Launching ==
  \E c \in Container : LaunchFails(c) \/ LaunchLost(c) \/ LaunchStarts(c) \/ LaunchRecorded(c)

Reconciling ==
  \/ BeginCycle \/ ListFails \/ ListContainers \/ TakeSnapshot
  \/ \E b \in Bot : HandleMissing(b) \/ HandleRunning(b)
  \/ \E c \in Container : StopBot(c)
  \/ Adopt \/ SettleKept \/ SettleChanged \/ Restart
  \/ BeginSweep \/ GatherState \/ CommitState

Lifecycle ==
  \/ Boot \/ RequestShutdown \/ Drained \/ CloseRunner \/ Exit \/ ServiceCrash
  \/ \E c \in Container : ShutdownStop(c)

Next == Environment \/ Launching \/ Reconciling \/ Lifecycle

Spec == Init /\ [][Next]_vars

\* The goroutines are scheduled and their calls return; the process is restarted
\* whenever it has ended; the health loop ticks, and time passes.
Fairness ==
  /\ \A c \in Container : WF_vars(LaunchStarts(c)) /\ WF_vars(LaunchRecorded(c))
  /\ \A c \in Container : WF_vars(ShutdownStop(c))
  /\ \A b \in Bot : WF_vars(BackoffExpires(b))
  /\ WF_vars(Reconciling)
  /\ WF_vars(CheckHealth)
  /\ WF_vars(Boot) /\ WF_vars(Drained) /\ WF_vars(CloseRunner) /\ WF_vars(Exit)

FairSpec == Spec /\ Fairness

-----------------------------------------------------------------------------
(* Properties *)

\* Two instances of one bot trade at the same time only after a start that was still
\* under way when a later cycle listed the containers, or a stop the engine refused.
NoDoubleRun ==
  \A c, d \in Running :
    container[c].bot = container[d].bot /\ container[c].bot \notin excused => c = d

\* When a cycle has done its work, what is left running of the containers it listed
\* is at most one instance of a bot it wanted, unless the engine refused the stop.
CycleLeavesOnePerWantedBot ==
  rc.pc = "commit" =>
    \A c, d \in (rc.seen \cap Running) \ rc.missed :
      /\ rc.want[container[c].bot] # NoConfig
      /\ container[c].bot = container[d].bot => c = d

\* A running bot is stopped for a changed configuration only if the container really
\* runs another one: the comparison is made with a copy of what the service tracked
\* one or more cycles ago, which must still be true of the container.
RestartsOnlyOutdated ==
  rc.pc = "restart" =>
    \A c \in rc.stops :
      container[c].bot \notin excused => container[c].cfg # rc.want[container[c].bot]

\* A graceful shutdown leaves nothing running that this process has started, whatever
\* the tracked map lost on the way, except where a stop or a cancelled start failed.
ShutdownStopsOwn == svc = "down" => Running \subseteq strays

\* Once the wanted bots and the faults settle, every wanted bot runs exactly once and
\* no other runs: the reconciliation converges from wherever crashes left it.
Converges ==
  <>[](\A b \in Bot :
         Cardinality(RunningFor(b)) = IF desired[b] = NoConfig THEN 0 ELSE 1)

\* The README: "If the configuration changed, the service restarts the container."
\* So in the end whatever runs, runs the wanted configuration.
ConfigApplied == <>[](\A c \in Running : container[c].cfg = desired[container[c].bot])
=============================================================================
