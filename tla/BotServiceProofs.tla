-------------------------- MODULE BotServiceProofs --------------------------
(* Proofs about BotService, for any bots, configurations, pool and bounds. *)
EXTENDS BotService, TLAPS

\* The goroutine is in a cycle whose listing is done.
InCycle == rc.pc \in {"snap", "bots", "extras", "adopted", "restart", "sweep", "commit"}

\* Bots this cycle has yet to decide on: it has started nothing for them.
Undecided(b) ==
  \/ rc.pc = "snap"
  \/ rc.pc \in {"bots", "extras", "adopted", "restart"} /\ b \in rc.todo
  \/ rc.pc \in {"extras", "adopted", "restart"} /\ b = rc.cur

\* A running instance of b, or a start of b whose container does not run yet.
Live(b) == {c \in Container : \/ container[c].status = "running" /\ container[c].bot = b
                              \/ launch[c].stage = "pull" /\ launch[c].bot = b}

\* At most one live instance, and before its decision no instance unseen.
OneLiveFor(b) ==
  /\ \A c, d \in Live(b) : c = d
  /\ Undecided(b) => \A c \in Live(b) : c \in rc.seen /\ launch[c].stage # "pull"
  /\ rc.pc \in {"extras", "adopted"} /\ rc.cur = b => Live(b) \subseteq rc.stops \cup {rc.keep}
  /\ rc.pc = "restart" /\ rc.cur = b => Live(b) \subseteq rc.stops

OneLive == \A b \in Bot \ excused : OneLiveFor(b)

\* A running container is answered for: by the managed set, by the shutdown that is
\* stopping it, or by the history of what this process could not or did not own.
Own ==
  /\ Running \subseteq strays \cup managed \cup closing
  /\ svc \in {"down", "closing"} => managed = {}
  /\ svc \in {"down", "up", "draining"} => closing = {}
  /\ svc \in {"down", "stopping", "closing"} =>
       rc = AtRest /\ \A c \in Container : launch[c].stage = "none"

-----------------------------------------------------------------------------
(* Type correctness *)

\* TypeOK alone is not inductive: a step that writes an entry for rc.cur or rc.keep
\* needs them to be a bot and a container, one that labels a container with the bot of
\* a launch needs that launch to have one, and what a cycle stops must still exist.
Shape ==
  /\ rc.pc = "idle" => rc = AtRest
  /\ rc.pc = "list" => rc.todo = {} /\ rc.seen = {} /\ rc.stops = {}
  /\ rc.pc \notin {"extras", "adopted", "restart"} => rc.cur = NoBot
  /\ rc.pc \in {"extras", "adopted", "restart"} =>
       rc.cur \in Bot /\ rc.keep \in rc.seen /\ rc.want[rc.cur] \in Config
  /\ rc.pc \in {"bots", "extras", "adopted", "restart"} =>
       \A b \in rc.todo : b # rc.cur /\ rc.want[b] \in Config
  /\ rc.stops \subseteq rc.seen
  /\ rc.pc = "adopted" => rc.stops = {}
  /\ InCycle => \A c \in rc.seen : container[c].status # "gone"
  /\ \A c \in Container :
       container[c].status # "gone" => container[c].bot \in Bot
  /\ \A c \in Container :
       launch[c].stage # "none" => launch[c].bot \in Bot /\ launch[c].cfg \in Config
  /\ \A c \in Container : launch[c].stage = "pull" => container[c].status = "gone"

TypeInv == TypeOK /\ Shape

\* Init establishes the type invariant.
LEMMA TypeInvInit == Init => TypeInv
  BY ConstantsOK DEF Init, TypeInv, TypeOK, Shape, CycleState, LaunchState, ContainerState,
     AtRest, Idle, Gone, Want, Tracking, InCycle

\* A fault is only spent while there is one left.
LEMMA FaultTyped == ASSUME faults \in 0..MaxFaults, Fault PROVE faults' \in 0..MaxFaults
  BY ConstantsOK DEF Fault

\* What Spawn may do to the launches: nothing, or add one of b on an unused id.
Launched(b) ==
  \/ launch' = launch
  \/ \E c \in Container :
       /\ container[c] = Gone
       /\ launch[c] = Idle
       /\ launch' = [launch EXCEPT ![c] = [bot |-> b, cfg |-> rc.want[b], stage |-> "pull"]]

\* Starting a bot with the configuration the cycle wants keeps the launches typed.
LEMMA SpawnTyped ==
  ASSUME TypeOK, NEW b \in Bot, rc.want[b] \in Config, Spawn(b)
  PROVE  launch' \in [Container -> LaunchState] /\ Launched(b)
  BY DEF TypeOK, Spawn, Free, Launched, LaunchState, Want

\* A launch under way names a bot and its configuration, on a container not yet made.
LaunchedShape ==
  \A c \in Container :
    /\ launch[c].stage # "none" => launch[c].bot \in Bot /\ launch[c].cfg \in Config
    /\ launch[c].stage = "pull" => container[c].status = "gone"

\* Starting a bot keeps that shape of the launches.
LEMMA LaunchedKeepsShape ==
  ASSUME TypeOK, NEW b \in Bot, rc.want[b] \in Config, LaunchedShape, Launched(b),
         UNCHANGED container
  PROVE  LaunchedShape'
  BY DEF TypeOK, LaunchedShape, Launched, LaunchState, Gone

\* Changing a container's status changes nothing else of the engine.
LEMMA StatusTyped ==
  ASSUME container \in [Container -> ContainerState], NEW c \in Container,
         NEW st \in {"gone", "running", "exited"}
  PROVE  /\ [container EXCEPT ![c].status = st] \in [Container -> ContainerState]
         /\ \A d \in Container :
              /\ [container EXCEPT ![c].status = st][d].bot = container[d].bot
              /\ [container EXCEPT ![c].status = st][d].status =
                   IF d = c THEN st ELSE container[d].status
  BY DEF ContainerState

\* Every step keeps the type invariant.
LEMMA TypeInvStep == TypeInv /\ [Next]_vars => TypeInv'
<1> SUFFICES ASSUME TypeInv, [Next]_vars PROVE TypeInv'
  OBVIOUS
<1> USE ConstantsOK DEF TypeInv, TypeOK, Shape, CycleState, LaunchState, ContainerState,
                        Want, Tracking, dbVars, stateVars, engineVars, InCycle, AtRest
<1>1. ASSUME NEW b \in Bot, NEW w \in Want, SetDesired(b, w) PROVE TypeInv'
  BY <1>1 DEF SetDesired
<1>2. ASSUME NEW c \in Container, ContainerExits(c) PROVE TypeInv'
  <2>1. container' \in [Container -> ContainerState]
    BY <1>2, StatusTyped DEF ContainerExits
  <2>2. \A d \in Container :
          /\ container'[d].bot = container[d].bot
          /\ container[d].status = "gone" <=> container'[d].status = "gone"
    BY <1>2, StatusTyped DEF ContainerExits, Running
  <2>3. faults' \in 0..MaxFaults
    BY <1>2, FaultTyped DEF ContainerExits
  <2>4. QED
    BY <1>2, <2>1, <2>2, <2>3 DEF ContainerExits, InCycle
<1>3. ASSUME CheckHealth PROVE TypeInv'
  BY <1>3 DEF CheckHealth, Fault
<1>4. ASSUME NEW b \in Bot, BackoffExpires(b) PROVE TypeInv'
  BY <1>4 DEF BackoffExpires
<1>5. ASSUME NEW c \in Container, LaunchFails(c) PROVE TypeInv'
  BY <1>5 DEF LaunchFails, RecordBotFailure, CallFails, Fault, Idle
<1>6. ASSUME NEW c \in Container, LaunchLost(c) PROVE TypeInv'
  BY <1>6 DEF LaunchLost, RecordBotFailure, Idle, Cancelled
<1>7. ASSUME NEW c \in Container, LaunchStarts(c) PROVE TypeInv'
  BY <1>7 DEF LaunchStarts
<1>8. ASSUME NEW c \in Container, LaunchRecorded(c) PROVE TypeInv'
  BY <1>8 DEF LaunchRecorded, Idle
<1>9. ASSUME BeginCycle PROVE TypeInv'
  <2>1. rc.cur = NoBot /\ rc.todo = {} /\ rc.seen = {} /\ rc.stops = {}
    BY <1>9 DEF BeginCycle
  <2>2. rc' \in CycleState /\ rc'.pc = "list" /\ rc'.cur = NoBot
        /\ rc'.todo = {} /\ rc'.seen = {} /\ rc'.stops = {}
    BY <1>9, <2>1 DEF BeginCycle
  <2>3. QED
    BY <1>9, <2>2 DEF BeginCycle
<1>10. ASSUME ListFails PROVE TypeInv'
  BY <1>10 DEF ListFails, CallFails, Fault, AtRest
<1>11. ASSUME ListContainers PROVE TypeInv'
  <2>1. container' \in [Container -> ContainerState]
    BY <1>11 DEF ListContainers, Gone
  <2>2. rc' \in CycleState
    BY <1>11 DEF ListContainers, Running
  <2>3. excused' \subseteq Bot
    BY <1>11 DEF ListContainers, Pending
  <2>4. Shape'
    <3>1. rc'.pc = "snap" /\ rc'.cur = NoBot /\ rc'.stops = {} /\ rc'.seen = Running
      BY <1>11 DEF ListContainers
    <3>2. \A c \in Container :
            /\ container'[c].status = "running" <=> container[c].status = "running"
            /\ container'[c].status # "gone" => container'[c] = container[c]
            /\ container[c].status = "gone" => container'[c].status = "gone"
      BY <1>11 DEF ListContainers, Exited, Gone
    <3>3. \A c \in rc'.seen : container'[c].status # "gone"
      BY <3>1, <3>2 DEF Running
    <3>4. QED
      BY <1>11, <3>1, <3>2, <3>3 DEF ListContainers
  <2>5. strays' \subseteq Container /\ faults' \in 0..MaxFaults
    BY <1>11, FaultTyped DEF ListContainers
  <2>6. QED
    BY <1>11, <2>1, <2>2, <2>3, <2>4, <2>5 DEF ListContainers
<1>12. ASSUME TakeSnapshot PROVE TypeInv'
  <2>1. [b \in Bot |-> IF tracked[b] = Untracked THEN NoConfig ELSE tracked[b].cfg]
           \in [Bot -> Want]
    OBVIOUS
  <2>2. rc' \in CycleState
    BY <1>12, <2>1 DEF TakeSnapshot
  <2>3. Shape'
    <3>1. /\ rc'.pc = "bots" /\ rc'.cur = NoBot /\ rc'.stops = rc.stops
          /\ rc'.seen = rc.seen /\ rc'.want = rc.want
          /\ rc'.todo = {b \in Bot : rc.want[b] # NoConfig}
      BY <1>12 DEF TakeSnapshot
    <3>2. \A b \in rc'.todo : b # rc'.cur /\ rc'.want[b] \in Config
      BY <3>1
    <3>3. QED
      BY <1>12, <3>1, <3>2 DEF TakeSnapshot
  <2>4. QED
    BY <1>12, <2>2, <2>3 DEF TakeSnapshot
<1>13. ASSUME NEW b \in Bot, HandleMissing(b) PROVE TypeInv'
  <2>1. rc.want[b] \in Config
    BY <1>13 DEF HandleMissing
  <2>2. launch' \in [Container -> LaunchState] /\ Launched(b)
    BY <1>13, <2>1, SpawnTyped DEF HandleMissing, Launched
  <2>3. rc' \in CycleState
    BY <1>13 DEF HandleMissing
  <2>4. Shape'
    <3>1. /\ rc'.pc = "bots" /\ rc'.cur = NoBot /\ rc'.stops = rc.stops
          /\ rc'.seen = rc.seen /\ rc'.want = rc.want /\ rc'.todo \subseteq rc.todo
      BY <1>13 DEF HandleMissing
    <3>2. LaunchedShape'
      BY <1>13, <2>1, <2>2, LaunchedKeepsShape DEF HandleMissing, LaunchedShape
    <3>3. QED
      BY <1>13, <3>1, <3>2 DEF HandleMissing, LaunchedShape
  <2>5. QED
    BY <1>13, <2>2, <2>3, <2>4 DEF HandleMissing
<1>14. ASSUME NEW b \in Bot, HandleRunning(b) PROVE TypeInv'
  <2>1. PICK k \in Instances(b) :
          rc' = [rc EXCEPT !.pc = "extras", !.todo = @ \ {b}, !.cur = b, !.keep = k,
                           !.stops = Instances(b) \ {k}]
    BY <1>14 DEF HandleRunning
  <2>2. Instances(b) \subseteq Container
    BY DEF Instances
  <2>3. rc' \in CycleState
    BY <2>1, <2>2
  <2>4. Shape'
    <3>1. /\ rc'.pc = "extras" /\ rc'.cur = b /\ rc'.keep = k
          /\ rc'.stops = Instances(b) \ {k} /\ rc'.seen = rc.seen
          /\ rc'.want = rc.want /\ rc'.todo = rc.todo \ {b}
      BY <2>1
    <3>2. Instances(b) \subseteq rc.seen
      BY DEF Instances
    <3>3. QED
      BY <1>14, <3>1, <3>2 DEF HandleRunning
  <2>5. QED
    BY <1>14, <2>3, <2>4 DEF HandleRunning
<1>15. ASSUME NEW c \in Container, StopBot(c) PROVE TypeInv'
  <2>1. CASE /\ container' = [container EXCEPT ![c].status = "exited"]
             /\ rc' = [rc EXCEPT !.stops = @ \ {c}]
             /\ UNCHANGED <<strays, excused, faults>>
    <3>1. container' \in [Container -> ContainerState]
      BY <2>1, StatusTyped
    <3>2. container[c].status # "gone"
      BY <1>15 DEF StopBot, InCycle
    <3>3. rc' \in CycleState
      BY <2>1
    <3>4. \A d \in Container :
            /\ container'[d].bot = container[d].bot
            /\ container[d].status = "gone" <=> container'[d].status = "gone"
      BY <2>1, <3>2, StatusTyped
    <3>5. Shape'
      BY <1>15, <2>1, <3>4 DEF StopBot, InCycle
    <3>6. QED
      BY <1>15, <2>1, <3>1, <3>3, <3>5 DEF StopBot
  <2>2. CASE /\ c \in Running
             /\ CallFails
             /\ rc' = [rc EXCEPT !.stops = @ \ {c}, !.missed = @ \cup {c}]
             /\ strays' = strays \cup {c}
             /\ excused' = excused \cup {container[c].bot}
             /\ UNCHANGED container
    <3>1. rc' \in CycleState
      BY <2>2
    <3>2. faults' \in 0..MaxFaults
      BY <2>2, FaultTyped DEF CallFails
    <3>3. excused' \subseteq Bot
      BY <2>2 DEF Running
    <3>4. Shape'
      BY <1>15, <2>2 DEF StopBot, InCycle
    <3>5. QED
      BY <1>15, <2>2, <3>1, <3>2, <3>3, <3>4 DEF StopBot
  <2>3. QED
    BY <1>15, <2>1, <2>2 DEF StopBot
<1>16a. ASSUME Adopt PROVE TypeInv'
  BY <1>16a DEF Adopt, ExtrasStopped
<1>16. ASSUME SettleKept PROVE TypeInv'
  BY <1>16 DEF SettleKept, ReadyToCompare, ExtrasStopped
<1>17. ASSUME SettleChanged PROVE TypeInv'
  BY <1>17 DEF SettleChanged, ReadyToCompare, ExtrasStopped
<1>18. ASSUME Restart PROVE TypeInv'
  <2>1. rc.cur \in Bot /\ rc.want[rc.cur] \in Config
    BY <1>18 DEF Restart
  <2>2. launch' \in [Container -> LaunchState] /\ Launched(rc.cur)
    BY <1>18, <2>1, SpawnTyped DEF Restart
  <2>3. rc' \in CycleState
    BY <1>18 DEF Restart
  <2>4. Shape'
    <3>1. /\ rc'.pc = "bots" /\ rc'.cur = NoBot /\ rc'.stops = rc.stops
          /\ rc'.seen = rc.seen /\ rc'.want = rc.want /\ rc'.todo = rc.todo
      BY <1>18 DEF Restart
    <3>2. LaunchedShape'
      BY <1>18, <2>1, <2>2, LaunchedKeepsShape DEF Restart, LaunchedShape
    <3>3. QED
      BY <1>18, <3>1, <3>2 DEF Restart, LaunchedShape
  <2>5. QED
    BY <1>18, <2>2, <2>3, <2>4 DEF Restart
<1>19. ASSUME BeginSweep PROVE TypeInv'
  BY <1>19 DEF BeginSweep
<1>20. ASSUME GatherState PROVE TypeInv'
  BY <1>20 DEF GatherState, Survivors
<1>21. ASSUME CommitState PROVE TypeInv'
  BY <1>21 DEF CommitState, AtRest
<1>22. ASSUME Boot PROVE TypeInv'
  <2>1. faults' \in 0..MaxFaults /\ healthy' \in BOOLEAN
    BY <1>22, FaultTyped DEF Boot
  <2>2. QED
    BY <1>22, <2>1 DEF Boot
<1>23. ASSUME RequestShutdown PROVE TypeInv'
  BY <1>23 DEF RequestShutdown, Fault
<1>24. ASSUME Drained PROVE TypeInv'
  BY <1>24 DEF Drained, TrackedIds
<1>25. ASSUME CloseRunner PROVE TypeInv'
  BY <1>25 DEF CloseRunner
<1>26. ASSUME Exit PROVE TypeInv'
  BY <1>26 DEF Exit, ForgetMemory, AtRest, Idle
<1>27. ASSUME ServiceCrash PROVE TypeInv'
  BY <1>27 DEF ServiceCrash, ForgetMemory, AtRest, Idle, Running, Fault
<1>28. ASSUME NEW c \in Container, ShutdownStop(c) PROVE TypeInv'
  <2>0. \/ UNCHANGED container
        \/ container' = [container EXCEPT ![c].status = "exited"]
           /\ container[c].status = "running"
    BY <1>28 DEF ShutdownStop, Running
  <2>1. /\ container' \in [Container -> ContainerState]
        /\ \A d \in Container :
             /\ container'[d].bot = container[d].bot
             /\ container[d].status = "gone" <=> container'[d].status = "gone"
    <3>1. CASE UNCHANGED container
      BY <3>1
    <3>2. CASE /\ container' = [container EXCEPT ![c].status = "exited"]
               /\ container[c].status = "running"
      <4>1. container' \in [Container -> ContainerState]
        BY <3>2, StatusTyped
      <4>2. \A d \in Container :
              /\ container'[d].bot = container[d].bot
              /\ container'[d].status = IF d = c THEN "exited" ELSE container[d].status
        BY <3>2, StatusTyped
      <4>3. QED
        BY <3>2, <4>1, <4>2
    <3>3. QED
      BY <2>0, <3>1, <3>2
  <2>2. faults' \in 0..MaxFaults
    BY <1>28, FaultTyped DEF ShutdownStop
  <2>4. Shape'
    BY <1>28, <2>1 DEF ShutdownStop, InCycle
  <2>5. QED
    BY <1>28, <2>1, <2>2, <2>4 DEF ShutdownStop
<1>29. CASE UNCHANGED vars
  BY <1>29 DEF vars
<1>30. QED
  BY <1>1, <1>2, <1>3, <1>4, <1>5, <1>6, <1>7, <1>8, <1>9, <1>10, <1>11, <1>12, <1>13,
     <1>14, <1>15, <1>16, <1>16a, <1>17, <1>18, <1>19, <1>20, <1>21, <1>22, <1>23,
     <1>24, <1>25, <1>26, <1>27, <1>28, <1>29
     DEF Next, Environment, Launching, Reconciling, Lifecycle

\* Every reachable state is well typed, whatever crashes, fails or overlaps.
THEOREM TypeCorrect == Spec => []TypeOK
<1>1. TypeInv => TypeOK
  BY DEF TypeInv
<1>2. QED
  BY TypeInvInit, TypeInvStep, <1>1, PTL DEF Spec

-----------------------------------------------------------------------------
(* Shutdown *)

\* Every step keeps track of the containers this process answers for.
LEMMA OwnStep == TypeInv /\ Own /\ [Next]_vars => Own'
<1> SUFFICES ASSUME TypeInv, Own, [Next]_vars PROVE Own'
  OBVIOUS
<1> USE DEF TypeInv, TypeOK, Own, Running, dbVars, stateVars, engineVars, AtRest, Idle
<1>1. ASSUME NEW b \in Bot, NEW w \in Want, SetDesired(b, w) PROVE Own'
  BY <1>1 DEF SetDesired
<1>2. ASSUME NEW c \in Container, ContainerExits(c) PROVE Own'
  BY <1>2 DEF ContainerExits
<1>3. ASSUME CheckHealth PROVE Own'
  BY <1>3 DEF CheckHealth
<1>4. ASSUME NEW b \in Bot, BackoffExpires(b) PROVE Own'
  BY <1>4 DEF BackoffExpires
<1>5. ASSUME NEW c \in Container, LaunchFails(c) PROVE Own'
  BY <1>5 DEF LaunchFails, Cancelled
<1>6. ASSUME NEW c \in Container, LaunchLost(c) PROVE Own'
  BY <1>6 DEF LaunchLost, Cancelled
<1>7. ASSUME NEW c \in Container, LaunchStarts(c) PROVE Own'
  BY <1>7 DEF LaunchStarts
<1>8. ASSUME NEW c \in Container, LaunchRecorded(c) PROVE Own'
  BY <1>8 DEF LaunchRecorded
<1>9. ASSUME BeginCycle PROVE Own'
  BY <1>9 DEF BeginCycle
<1>10. ASSUME ListFails PROVE Own'
  BY <1>10 DEF ListFails
<1>11. ASSUME ListContainers PROVE Own'
  BY <1>11 DEF ListContainers, Exited, Gone
<1>12. ASSUME TakeSnapshot PROVE Own'
  BY <1>12 DEF TakeSnapshot
<1>13. ASSUME NEW b \in Bot, HandleMissing(b) PROVE Own'
  BY <1>13 DEF HandleMissing, Spawn, Idle
<1>14. ASSUME NEW b \in Bot, HandleRunning(b) PROVE Own'
  BY <1>14 DEF HandleRunning
<1>15. ASSUME NEW c \in Container, StopBot(c) PROVE Own'
  <2>1. svc \notin {"down", "stopping", "closing"} /\ svc' = svc
    BY <1>15 DEF StopBot
  <2>2. CASE container' = [container EXCEPT ![c].status = "exited"] /\ strays' = strays
    <3>1. \A d \in Container : container'[d].status = "running" =>
                               d # c /\ container[d].status = "running"
      BY <2>2, StatusTyped
    <3>2. QED
      BY <1>15, <2>1, <2>2, <3>1 DEF StopBot
  <2>3. CASE container' = container /\ strays' = strays \cup {c}
    BY <1>15, <2>1, <2>3 DEF StopBot
  <2>4. QED
    BY <1>15, <2>2, <2>3 DEF StopBot
<1>16a. ASSUME Adopt PROVE Own'
  BY <1>16a DEF Adopt, ExtrasStopped
<1>16. ASSUME SettleKept PROVE Own'
  BY <1>16 DEF SettleKept, ReadyToCompare, ExtrasStopped
<1>17. ASSUME SettleChanged PROVE Own'
  BY <1>17 DEF SettleChanged, ReadyToCompare, ExtrasStopped
<1>18. ASSUME Restart PROVE Own'
  BY <1>18 DEF Restart, Spawn, Idle
<1>19. ASSUME BeginSweep PROVE Own'
  BY <1>19 DEF BeginSweep
<1>20. ASSUME GatherState PROVE Own'
  BY <1>20 DEF GatherState
<1>21. ASSUME CommitState PROVE Own'
  BY <1>21 DEF CommitState
<1>22. ASSUME Boot PROVE Own'
  BY <1>22 DEF Boot
<1>23. ASSUME RequestShutdown PROVE Own'
  BY <1>23 DEF RequestShutdown
<1>24. ASSUME Drained PROVE Own'
  BY <1>24 DEF Drained, Pending, Shape
<1>25. ASSUME CloseRunner PROVE Own'
  BY <1>25 DEF CloseRunner
<1>26. ASSUME Exit PROVE Own'
  BY <1>26 DEF Exit, ForgetMemory
<1>27. ASSUME ServiceCrash PROVE Own'
  BY <1>27 DEF ServiceCrash, ForgetMemory
<1>28. ASSUME NEW c \in Container, ShutdownStop(c) PROVE Own'
  <2>1. svc \in {"stopping", "closing"} /\ svc' = svc /\ UNCHANGED <<rc, launch>>
    BY <1>28 DEF ShutdownStop
  <2>2. CASE c \in Running /\ container' = [container EXCEPT ![c].status = "exited"]
             /\ strays' = strays
    <3>1. \A d \in Container : container'[d].status = "running" =>
                               d # c /\ container[d].status = "running"
      BY <2>2, StatusTyped
    <3>2. QED
      BY <1>28, <2>1, <2>2, <3>1 DEF ShutdownStop
  <2>3. CASE c \notin Running /\ container' = container /\ strays' = strays
    BY <1>28, <2>1, <2>3 DEF ShutdownStop
  <2>4. CASE container' = container /\ strays' = strays \cup {c}
    BY <1>28, <2>1, <2>4 DEF ShutdownStop
  <2>5. QED
    BY <1>28, <2>2, <2>3, <2>4 DEF ShutdownStop
<1>29. CASE UNCHANGED vars
  BY <1>29 DEF vars
<1>30. QED
  BY <1>1, <1>2, <1>3, <1>4, <1>5, <1>6, <1>7, <1>8, <1>9, <1>10, <1>11, <1>12, <1>13,
     <1>14, <1>15, <1>16, <1>16a, <1>17, <1>18, <1>19, <1>20, <1>21, <1>22, <1>23,
     <1>24, <1>25, <1>26, <1>27, <1>28, <1>29
     DEF Next, Environment, Launching, Reconciling, Lifecycle

\* However the tracked map lost entries on the way, a graceful shutdown leaves no
\* container running that this process started and could have stopped.
THEOREM ShutdownIsComplete == Spec => []ShutdownStopsOwn
<1>1. Init => Own
  BY DEF Init, Own, Running, Gone, AtRest, Idle
<1>2. Own => ShutdownStopsOwn
  BY DEF Own, ShutdownStopsOwn
<1>3. QED
  BY TypeInvInit, TypeInvStep, OwnStep, <1>1, <1>2, PTL DEF Spec

-----------------------------------------------------------------------------
(* At most one instance of a bot *)

\* What does not touch the cycle, and makes no bot live that was not, keeps OneLive.
LEMMA OneLiveShrinks ==
  ASSUME NEW x \in Bot, OneLiveFor(x), UNCHANGED rc,
         \A c \in Live(x)' : c \in Live(x)
                            /\ (launch'[c].stage = "pull" => launch[c].stage = "pull")
  PROVE  OneLiveFor(x)'
  BY DEF OneLiveFor, Undecided

\* Every step keeps at most one live instance of a bot that is not excused.
LEMMA OneLiveStep == TypeInv /\ OneLive /\ [Next]_vars => OneLive'
<1> SUFFICES ASSUME TypeInv, OneLive, [Next]_vars,
                    NEW x \in Bot, x \notin excused'
             PROVE  OneLiveFor(x)'
  BY DEF OneLive
<1> USE DEF TypeInv, TypeOK, dbVars, stateVars, engineVars
<1>0. excused \subseteq excused' => x \notin excused /\ OneLiveFor(x)
  BY DEF OneLive
<1>1. ASSUME NEW b \in Bot, NEW w \in Want, SetDesired(b, w) PROVE OneLiveFor(x)'
  BY <1>1, <1>0, OneLiveShrinks DEF SetDesired, Live
<1>2. ASSUME CheckHealth PROVE OneLiveFor(x)'
  BY <1>2, <1>0, OneLiveShrinks DEF CheckHealth, Live
<1>3. ASSUME NEW b \in Bot, BackoffExpires(b) PROVE OneLiveFor(x)'
  BY <1>3, <1>0, OneLiveShrinks DEF BackoffExpires, Live
<1>4. ASSUME Boot PROVE OneLiveFor(x)'
  BY <1>4, <1>0, OneLiveShrinks DEF Boot, Live
<1>5. ASSUME RequestShutdown PROVE OneLiveFor(x)'
  BY <1>5, <1>0, OneLiveShrinks DEF RequestShutdown, Live
<1>6. ASSUME Drained PROVE OneLiveFor(x)'
  BY <1>6, <1>0, OneLiveShrinks DEF Drained, Live
<1>7. ASSUME CloseRunner PROVE OneLiveFor(x)'
  BY <1>7, <1>0, OneLiveShrinks DEF CloseRunner, Live
<1>8. ASSUME NEW c \in Container, ContainerExits(c) PROVE OneLiveFor(x)'
  <2>1. x \notin excused /\ OneLiveFor(x) /\ UNCHANGED rc
    BY <1>8, <1>0 DEF ContainerExits
  <2>2. \A d \in Live(x)' : d \in Live(x)
                           /\ (launch'[d].stage = "pull" => launch[d].stage = "pull")
    BY <1>8 DEF ContainerExits, Live, Running, LaunchState, ContainerState, Idle, Gone
  <2>3. QED
    BY <2>1, <2>2, OneLiveShrinks
<1>9. ASSUME NEW c \in Container, ShutdownStop(c) PROVE OneLiveFor(x)'
  <2>1. x \notin excused /\ OneLiveFor(x) /\ UNCHANGED rc
    BY <1>9, <1>0 DEF ShutdownStop
  <2>2. \A d \in Live(x)' : d \in Live(x)
                           /\ (launch'[d].stage = "pull" => launch[d].stage = "pull")
    BY <1>9 DEF ShutdownStop, Live, Running, LaunchState, ContainerState, Idle, Gone
  <2>3. QED
    BY <2>1, <2>2, OneLiveShrinks
<1>10. ASSUME NEW c \in Container, LaunchFails(c) PROVE OneLiveFor(x)'
  <2>1. x \notin excused /\ OneLiveFor(x) /\ UNCHANGED rc
    BY <1>10, <1>0 DEF LaunchFails
  <2>2. \A d \in Live(x)' : d \in Live(x)
                           /\ (launch'[d].stage = "pull" => launch[d].stage = "pull")
    BY <1>10 DEF LaunchFails, Live, Running, LaunchState, ContainerState, Idle, Gone
  <2>3. QED
    BY <2>1, <2>2, OneLiveShrinks
<1>11. ASSUME NEW c \in Container, LaunchLost(c) PROVE OneLiveFor(x)'
  <2>1. x \notin excused /\ OneLiveFor(x) /\ UNCHANGED rc
    BY <1>11, <1>0 DEF LaunchLost
  <2>2. \A d \in Live(x)' : d \in Live(x)
                           /\ (launch'[d].stage = "pull" => launch[d].stage = "pull")
    BY <1>11 DEF LaunchLost, Live, Running, LaunchState, ContainerState, Idle, Gone
  <2>3. QED
    BY <2>1, <2>2, OneLiveShrinks
<1>12. ASSUME NEW c \in Container, LaunchStarts(c) PROVE OneLiveFor(x)'
  <2>1. x \notin excused /\ OneLiveFor(x) /\ UNCHANGED rc
    BY <1>12, <1>0 DEF LaunchStarts
  <2>2. \A d \in Live(x)' : d \in Live(x)
                           /\ (launch'[d].stage = "pull" => launch[d].stage = "pull")
    BY <1>12 DEF LaunchStarts, Live, Running, LaunchState, ContainerState, Idle, Gone
  <2>3. QED
    BY <2>1, <2>2, OneLiveShrinks
<1>13. ASSUME NEW c \in Container, LaunchRecorded(c) PROVE OneLiveFor(x)'
  <2>1. x \notin excused /\ OneLiveFor(x) /\ UNCHANGED rc
    BY <1>13, <1>0 DEF LaunchRecorded
  <2>2. \A d \in Live(x)' : d \in Live(x)
                           /\ (launch'[d].stage = "pull" => launch[d].stage = "pull")
    BY <1>13 DEF LaunchRecorded, Live, Running, LaunchState, ContainerState, Idle, Gone
  <2>3. QED
    BY <2>1, <2>2, OneLiveShrinks
<1>14. ASSUME Exit PROVE OneLiveFor(x)'
  <2>1. x \notin excused /\ OneLiveFor(x)
    BY <1>14, <1>0 DEF Exit
  <2>2. Live(x)' \subseteq Live(x) /\ rc'.pc = "idle"
    BY <1>14 DEF Exit, ForgetMemory, Live, Idle, AtRest
  <2>3. QED
    BY <2>1, <2>2 DEF OneLiveFor, Undecided
<1>15. ASSUME ServiceCrash PROVE OneLiveFor(x)'
  <2>1. x \notin excused /\ OneLiveFor(x)
    BY <1>15, <1>0 DEF ServiceCrash
  <2>2. Live(x)' \subseteq Live(x) /\ rc'.pc = "idle"
    BY <1>15 DEF ServiceCrash, ForgetMemory, Live, Idle, AtRest
  <2>3. QED
    BY <2>1, <2>2 DEF OneLiveFor, Undecided
<1>16. ASSUME BeginCycle PROVE OneLiveFor(x)'
  <2>1. x \notin excused /\ OneLiveFor(x) /\ Live(x)' = Live(x)
    BY <1>16, <1>0 DEF BeginCycle, Live
  <2>2. QED
    BY <1>16, <2>1 DEF BeginCycle, OneLiveFor, Undecided, CycleState
<1>17. ASSUME ListFails PROVE OneLiveFor(x)'
  <2>1. x \notin excused /\ OneLiveFor(x) /\ Live(x)' = Live(x)
    BY <1>17, <1>0 DEF ListFails, Live
  <2>2. QED
    BY <1>17, <2>1 DEF ListFails, OneLiveFor, Undecided, CycleState, AtRest
<1>18. ASSUME CommitState PROVE OneLiveFor(x)'
  <2>1. x \notin excused /\ OneLiveFor(x) /\ Live(x)' = Live(x)
    BY <1>18, <1>0 DEF CommitState, Live
  <2>2. QED
    BY <1>18, <2>1 DEF CommitState, OneLiveFor, Undecided, CycleState, AtRest
<1>19. ASSUME BeginSweep PROVE OneLiveFor(x)'
  <2>1. x \notin excused /\ OneLiveFor(x) /\ Live(x)' = Live(x)
    BY <1>19, <1>0 DEF BeginSweep, Live
  <2>2. QED
    BY <1>19, <2>1 DEF BeginSweep, OneLiveFor, Undecided, CycleState
<1>20. ASSUME GatherState PROVE OneLiveFor(x)'
  <2>1. x \notin excused /\ OneLiveFor(x) /\ Live(x)' = Live(x)
    BY <1>20, <1>0 DEF GatherState, Live
  <2>2. QED
    BY <1>20, <2>1 DEF GatherState, OneLiveFor, Undecided, CycleState
<1>21. ASSUME TakeSnapshot PROVE OneLiveFor(x)'
  <2>1. x \notin excused /\ OneLiveFor(x) /\ Live(x)' = Live(x)
    BY <1>21, <1>0 DEF TakeSnapshot, Live
  <2>2. QED
    BY <1>21, <2>1 DEF TakeSnapshot, OneLiveFor, Undecided, CycleState
<1>22. ASSUME ListContainers PROVE OneLiveFor(x)'
  <2>1. x \notin excused /\ OneLiveFor(x)
    BY <1>22, <1>0 DEF ListContainers
  <2>2. \A d \in Container : launch[d].stage # "none" => launch[d].bot # x
    BY <1>22 DEF ListContainers, Pending
  <2>3. Live(x)' \subseteq Live(x) \cap Running
    BY <1>22, <2>2 DEF ListContainers, Live, Running, Exited, Gone
  <2>4. rc'.pc = "snap" /\ rc'.seen = Running
    BY <1>22 DEF ListContainers, CycleState
  <2>5. \A d \in Live(x)' : launch'[d].stage # "pull"
    BY <1>22, <2>3 DEF ListContainers, Shape, Running
  <2>6. QED
    BY <2>1, <2>3, <2>4, <2>5 DEF OneLiveFor, Undecided
<1>23. ASSUME NEW b \in Bot, HandleMissing(b) PROVE OneLiveFor(x)'
  <2>1. x \notin excused /\ OneLiveFor(x) /\ UNCHANGED container
    BY <1>23, <1>0 DEF HandleMissing
  <2>2. /\ rc.pc = "bots" /\ rc'.pc = "bots" /\ rc'.todo = rc.todo \ {b}
        /\ rc'.seen = rc.seen
    BY <1>23 DEF HandleMissing, CycleState
  <2>3. CASE launch' = launch
    BY <2>1, <2>2, <2>3 DEF OneLiveFor, Undecided, Live
  <2>4. CASE launch' # launch
    <3>1. Launched(b)
      BY <1>23, <2>4, SpawnTyped DEF HandleMissing, Shape, Launched
    <3>2. PICK c \in Container :
            /\ container[c] = Gone
            /\ launch' = [launch EXCEPT ![c] = [bot |-> b, cfg |-> rc.want[b], stage |-> "pull"]]
      BY <3>1, <2>4 DEF Launched
    <3>3. CASE x # b
      <4>0. \A d \in Container : /\ d # c => launch'[d] = launch[d]
                                /\ launch'[c].bot # x
        BY <3>2, <3>3
      <4>1. Live(x)' \subseteq Live(x)
            /\ \A d \in Live(x)' : launch'[d].stage = "pull" => launch[d].stage = "pull"
        <5> SUFFICES ASSUME NEW d \in Live(x)'
                     PROVE  /\ d \in Live(x)
                            /\ launch'[d].stage = "pull" => launch[d].stage = "pull"
          OBVIOUS
        <5>1. CASE d = c
          BY <2>1, <3>2, <4>0, <5>1 DEF Live, Gone
        <5>2. CASE d # c
          BY <2>1, <4>0, <5>2 DEF Live
        <5>3. QED
          BY <5>1, <5>2
      <4>2. QED
        BY <2>1, <2>2, <3>3, <4>1 DEF OneLiveFor, Undecided
    <3>4. CASE x = b
      <4>1. Live(x) = {}
        BY <1>23, <2>1, <2>2, <3>4 DEF HandleMissing, OneLiveFor, Undecided, Instances, Live
      <4>2. Live(x)' \subseteq {c}
        BY <2>1, <3>2, <4>1 DEF Live, LaunchState
      <4>3. QED
        BY <2>2, <3>4, <4>2 DEF OneLiveFor, Undecided
    <3>5. QED
      BY <3>3, <3>4
  <2>5. QED
    BY <2>3, <2>4
<1>24. ASSUME NEW b \in Bot, HandleRunning(b) PROVE OneLiveFor(x)'
  <2>1. x \notin excused /\ OneLiveFor(x) /\ Live(x)' = Live(x)
    BY <1>24, <1>0 DEF HandleRunning, Live
  <2>2. PICK k \in Instances(b) :
          rc' = [rc EXCEPT !.pc = "extras", !.todo = @ \ {b}, !.cur = b, !.keep = k,
                           !.stops = Instances(b) \ {k}]
    BY <1>24 DEF HandleRunning
  <2>3. /\ rc.pc = "bots" /\ b \in rc.todo /\ rc'.pc = "extras" /\ rc'.cur = b
        /\ rc'.seen = rc.seen /\ rc'.todo = rc.todo \ {b} /\ rc'.keep = k
        /\ rc'.stops = Instances(b) \ {k}
    BY <1>24, <2>2 DEF HandleRunning, CycleState
  <2>4. Undecided(x)' => Undecided(x)
    BY <2>3 DEF Undecided
  <2>5. x = b => Live(x) \subseteq rc'.stops \cup {rc'.keep}
    BY <2>1, <2>3 DEF OneLiveFor, Undecided, Instances, Live
  <2>6. UNCHANGED launch
    BY <1>24 DEF HandleRunning
  <2>7. QED
    BY <2>1, <2>3, <2>4, <2>5, <2>6 DEF OneLiveFor
<1>25. ASSUME NEW c \in Container, StopBot(c) PROVE OneLiveFor(x)'
  <2>1. x \notin excused /\ OneLiveFor(x)
    BY <1>25, <1>0 DEF StopBot
  <2>2. /\ rc'.pc = rc.pc /\ rc'.cur = rc.cur /\ rc'.keep = rc.keep
        /\ rc'.seen = rc.seen /\ rc'.todo = rc.todo /\ rc'.stops = rc.stops \ {c}
        /\ UNCHANGED launch
    BY <1>25 DEF StopBot, CycleState
  <2>3. c \in Container /\ launch[c].stage # "pull"
    BY <1>25 DEF StopBot, Shape, InCycle
  <2>4. Live(x)' \subseteq Live(x) \ {c}
    <3>1. CASE container' = [container EXCEPT ![c].status = "exited"]
      BY <2>2, <2>3, <3>1, StatusTyped DEF Live
    <3>2. CASE UNCHANGED container /\ excused' = excused \cup {container[c].bot}
      BY <2>2, <2>3, <3>2 DEF Live
    <3>3. QED
      BY <1>25, <3>1, <3>2 DEF StopBot
  <2>5. QED
    BY <2>1, <2>2, <2>4 DEF OneLiveFor, Undecided
<1>26a. ASSUME Adopt PROVE OneLiveFor(x)'
  <2>1. x \notin excused /\ OneLiveFor(x) /\ Live(x)' = Live(x) /\ UNCHANGED launch
    BY <1>26a, <1>0 DEF Adopt, Live
  <2>2. /\ rc.pc = "extras" /\ rc'.pc = "adopted" /\ rc'.seen = rc.seen
        /\ rc'.todo = rc.todo /\ rc'.cur = rc.cur /\ rc'.stops = rc.stops
        /\ rc'.keep = rc.keep
    BY <1>26a DEF Adopt, ExtrasStopped, CycleState
  <2>3. QED
    BY <2>1, <2>2 DEF OneLiveFor, Undecided
<1>26. ASSUME SettleKept PROVE OneLiveFor(x)'
  <2>1. x \notin excused /\ OneLiveFor(x) /\ Live(x)' = Live(x) /\ UNCHANGED launch
    BY <1>26, <1>0 DEF SettleKept, Live
  <2>2. /\ rc.pc \in {"extras", "adopted"} /\ rc'.pc = "bots" /\ rc'.seen = rc.seen
        /\ rc'.todo = rc.todo
    BY <1>26 DEF SettleKept, ReadyToCompare, ExtrasStopped, CycleState
  <2>3. QED
    BY <2>1, <2>2 DEF OneLiveFor, Undecided
<1>27. ASSUME SettleChanged PROVE OneLiveFor(x)'
  <2>1. x \notin excused /\ OneLiveFor(x) /\ Live(x)' = Live(x) /\ UNCHANGED launch
    BY <1>27, <1>0 DEF SettleChanged, Live
  <2>2. /\ rc.pc \in {"extras", "adopted"} /\ rc.stops = {} /\ rc'.pc = "restart"
        /\ rc'.seen = rc.seen /\ rc'.todo = rc.todo /\ rc'.cur = rc.cur
        /\ rc'.stops = {rc.keep}
    BY <1>27 DEF SettleChanged, ReadyToCompare, ExtrasStopped, CycleState, Shape
  <2>3. QED
    BY <2>1, <2>2 DEF OneLiveFor, Undecided
<1>28. ASSUME Restart PROVE OneLiveFor(x)'
  <2>1. x \notin excused /\ OneLiveFor(x) /\ UNCHANGED container
    BY <1>28, <1>0 DEF Restart
  <2>2. /\ rc.pc = "restart" /\ rc.stops = {} /\ rc'.pc = "bots" /\ rc'.todo = rc.todo
        /\ rc'.seen = rc.seen /\ rc.cur \in Bot /\ rc.cur \notin rc.todo
    BY <1>28 DEF Restart, CycleState, Shape
  <2>3. CASE launch' = launch
    BY <2>1, <2>2, <2>3 DEF OneLiveFor, Undecided, Live
  <2>4. CASE launch' # launch
    <3>1. Launched(rc.cur)
      BY <1>28, SpawnTyped DEF Restart, Shape
    <3>2. PICK c \in Container :
            /\ container[c] = Gone
            /\ launch' = [launch EXCEPT ![c] = [bot |-> rc.cur, cfg |-> rc.want[rc.cur],
                                                stage |-> "pull"]]
      BY <3>1, <2>4 DEF Launched
    <3>3. CASE x # rc.cur
      <4>0. \A d \in Container : /\ d # c => launch'[d] = launch[d]
                                /\ launch'[c].bot # x
        BY <3>2, <3>3
      <4>1. Live(x)' \subseteq Live(x)
            /\ \A d \in Live(x)' : launch'[d].stage = "pull" => launch[d].stage = "pull"
        <5> SUFFICES ASSUME NEW d \in Live(x)'
                     PROVE  /\ d \in Live(x)
                            /\ launch'[d].stage = "pull" => launch[d].stage = "pull"
          OBVIOUS
        <5>1. CASE d = c
          BY <2>1, <3>2, <4>0, <5>1 DEF Live, Gone
        <5>2. CASE d # c
          BY <2>1, <4>0, <5>2 DEF Live
        <5>3. QED
          BY <5>1, <5>2
      <4>2. QED
        BY <2>1, <2>2, <3>3, <4>1 DEF OneLiveFor, Undecided
    <3>4. CASE x = rc.cur
      <4>1. Live(x) = {}
        BY <2>1, <2>2, <3>4 DEF OneLiveFor
      <4>2. Live(x)' \subseteq {c}
        BY <2>1, <3>2, <4>1 DEF Live, LaunchState
      <4>3. QED
        BY <2>2, <3>4, <4>2 DEF OneLiveFor, Undecided
    <3>5. QED
      BY <3>3, <3>4
  <2>5. QED
    BY <2>3, <2>4
<1>29. CASE UNCHANGED vars
  BY <1>29, <1>0, OneLiveShrinks DEF vars, Live
<1>30. QED
  BY <1>1, <1>2, <1>3, <1>4, <1>5, <1>6, <1>7, <1>8, <1>9, <1>10, <1>11, <1>12, <1>13,
     <1>14, <1>15, <1>16, <1>17, <1>18, <1>19, <1>20, <1>21, <1>22, <1>23, <1>24,
     <1>25, <1>26, <1>26a, <1>27, <1>28, <1>29
     DEF Next, Environment, Launching, Reconciling, Lifecycle

\* Whatever crashes, and however slow the engine is: a bot has two running instances
\* only after a start outlived the cycle that made it, or a stop failed.
THEOREM AtMostOneInstance == Spec => []NoDoubleRun
<1>1. Init => OneLive
  BY DEF Init, OneLive, OneLiveFor, Undecided, Live, Gone, Idle, AtRest
<1>2. TypeInv /\ OneLive => NoDoubleRun
  <2> SUFFICES ASSUME TypeInv, OneLive, NEW c \in Running, NEW d \in Running,
                      container[c].bot = container[d].bot, container[c].bot \notin excused
               PROVE  c = d
    BY DEF NoDoubleRun
  <2>1. container[c].bot \in Bot
    BY DEF TypeInv, Shape, Running
  <2>2. c \in Live(container[c].bot) /\ d \in Live(container[c].bot)
    BY DEF Live, Running
  <2>3. QED
    BY <2>1, <2>2 DEF OneLive, OneLiveFor
<1>3. QED
  BY TypeInvInit, TypeInvStep, OneLiveStep, <1>1, <1>2, PTL DEF Spec

-----------------------------------------------------------------------------
(* What a cycle leaves running *)

\* The loops of performReconciliation: the copy of the tracked bots has been taken.
PastSnapshot == rc.pc \in {"bots", "extras", "adopted", "restart", "sweep", "commit"}

\* The cycle is at work on the bot rc.cur.
Handling == rc.pc \in {"extras", "adopted", "restart"}

\* Steps of anybody but the reconciliation goroutine, while its cycle goes on.
Outside == (Environment \/ Launching \/ Lifecycle \/ UNCHANGED vars) /\ rc' = rc

\* A step that ends within the loops is one of the goroutine's, or leaves it alone.
LEMMA StepsOfACycle ==
  ASSUME [Next]_vars, PastSnapshot'
  PROVE  \/ Outside
         \/ TakeSnapshot
         \/ \E b \in Bot : HandleMissing(b) \/ HandleRunning(b)
         \/ \E c \in Container : StopBot(c)
         \/ Adopt \/ SettleKept \/ SettleChanged \/ Restart \/ BeginSweep \/ GatherState
<1>1. Environment \/ Launching => rc' = rc
  BY DEF Environment, Launching, SetDesired, ContainerExits, CheckHealth, BackoffExpires,
         LaunchFails, LaunchLost, LaunchStarts, LaunchRecorded
<1>2. Lifecycle => rc' = rc \/ rc' = AtRest
  BY DEF Lifecycle, Boot, RequestShutdown, Drained, CloseRunner, Exit, ServiceCrash,
         ForgetMemory, ShutdownStop
<1>3. rc' # AtRest
  BY DEF PastSnapshot, AtRest
<1>4. ~BeginCycle /\ ~ListFails /\ ~ListContainers /\ ~CommitState
  <2>1. ~ListFails /\ ~CommitState
    BY <1>3 DEF ListFails, CommitState
  <2>2. ASSUME BeginCycle PROVE FALSE
    BY <2>2 DEF BeginCycle, PastSnapshot
  <2>3. ASSUME ListContainers PROVE FALSE
    BY <2>3 DEF ListContainers, PastSnapshot
  <2>4. QED
    BY <2>1, <2>2, <2>3
<1>5. UNCHANGED vars => rc' = rc
  BY DEF vars
<1>6. QED
  BY <1>1, <1>2, <1>3, <1>4, <1>5 DEF Next, Reconciling, Outside

\* A container keeps its bot and configuration, and does not start to run.
SameOrStopped(c) ==
  /\ container'[c].bot = container[c].bot /\ container'[c].cfg = container[c].cfg
  /\ container'[c].status = "running" => container[c].status = "running"

\* An outside step changes nothing of a listed container, except that it may stop.
LEMMA OutsideKeepsListed ==
  ASSUME TypeInv, InCycle, Outside, NEW c \in rc.seen
  PROVE  SameOrStopped(c)
<1> USE DEF TypeInv, TypeOK, Shape, CycleState, ContainerState, LaunchState,
           SameOrStopped, Running
<1>0. c \in Container /\ launch[c].stage # "pull" /\ container[c].status # "gone"
  OBVIOUS
<1>1. ASSUME NEW d \in Container, ContainerExits(d) PROVE SameOrStopped(c)
  BY <1>0, <1>1 DEF ContainerExits
<1>2. ASSUME NEW d \in Container, LaunchLost(d) PROVE SameOrStopped(c)
  BY <1>0, <1>2 DEF LaunchLost
<1>3. ASSUME NEW d \in Container, LaunchStarts(d) PROVE SameOrStopped(c)
  BY <1>0, <1>3 DEF LaunchStarts
<1>4. ASSUME NEW d \in Container, ShutdownStop(d) PROVE SameOrStopped(c)
  BY <1>0, <1>4 DEF ShutdownStop
<1>5. ASSUME \/ \E b \in Bot : BackoffExpires(b) \/ \E w \in Want : SetDesired(b, w)
             \/ CheckHealth \/ \E d \in Container : LaunchFails(d) \/ LaunchRecorded(d)
             \/ Boot \/ RequestShutdown \/ Drained \/ CloseRunner \/ Exit \/ ServiceCrash
             \/ UNCHANGED vars
      PROVE  UNCHANGED container
  BY <1>5 DEF BackoffExpires, SetDesired, CheckHealth, LaunchFails, LaunchRecorded, Boot,
     RequestShutdown, Drained, CloseRunner, Exit, ServiceCrash, engineVars, vars
<1>6. QED
  BY <1>1, <1>2, <1>3, <1>4, <1>5
     DEF Outside, Environment, Launching, Lifecycle, SameOrStopped

\* What a cycle listed and wanted stays as it was, until the cycle ends.
ListedKept ==
  /\ rc'.seen = rc.seen /\ rc'.want = rc.want /\ rc.missed \subseteq rc'.missed
  /\ rc.pc # "snap" => rc'.snap = rc.snap
  /\ \A c \in rc.seen : SameOrStopped(c)

\* Every step that ends within the loops started in the cycle, and keeps its listing.
LEMMA CycleKeepsListed ==
  ASSUME TypeInv, [Next]_vars, PastSnapshot'
  PROVE  InCycle /\ ListedKept
<1> USE DEF TypeInv, TypeOK, CycleState
<1>1. CASE Outside
  <2>1. InCycle /\ rc' = rc
    BY <1>1 DEF Outside, PastSnapshot, InCycle
  <2>2. QED
    BY <1>1, <2>1, OutsideKeepsListed DEF ListedKept
<1>2. ASSUME TakeSnapshot PROVE InCycle /\ ListedKept
  BY <1>2 DEF TakeSnapshot, ListedKept, SameOrStopped, InCycle, engineVars
<1>3. ASSUME NEW b \in Bot, HandleMissing(b) PROVE InCycle /\ ListedKept
  BY <1>3 DEF HandleMissing, ListedKept, SameOrStopped, InCycle, engineVars
<1>4. ASSUME Adopt PROVE InCycle /\ ListedKept
  BY <1>4 DEF Adopt, ExtrasStopped, ListedKept, SameOrStopped, InCycle, engineVars
<1>5. ASSUME SettleKept PROVE InCycle /\ ListedKept
  BY <1>5 DEF SettleKept, ReadyToCompare, ExtrasStopped, ListedKept, SameOrStopped,
     InCycle, engineVars
<1>6. ASSUME SettleChanged PROVE InCycle /\ ListedKept
  BY <1>6 DEF SettleChanged, ReadyToCompare, ExtrasStopped, ListedKept, SameOrStopped,
     InCycle, engineVars
<1>7. ASSUME Restart PROVE InCycle /\ ListedKept
  BY <1>7 DEF Restart, ListedKept, SameOrStopped, InCycle, engineVars
<1>8. ASSUME BeginSweep PROVE InCycle /\ ListedKept
  BY <1>8 DEF BeginSweep, ListedKept, SameOrStopped, InCycle, engineVars
<1>9. ASSUME GatherState PROVE InCycle /\ ListedKept
  BY <1>9 DEF GatherState, ListedKept, SameOrStopped, InCycle, engineVars
<1>10. ASSUME NEW b \in Bot, HandleRunning(b) PROVE InCycle /\ ListedKept
  BY <1>10 DEF HandleRunning, ListedKept, SameOrStopped, InCycle, engineVars
<1>11. ASSUME NEW c \in Container, StopBot(c) PROVE InCycle /\ ListedKept
  <2>1. InCycle /\ rc'.seen = rc.seen /\ rc'.want = rc.want /\ rc'.snap = rc.snap
        /\ rc.missed \subseteq rc'.missed
    BY <1>11 DEF StopBot, InCycle
  <2>2. container' = [container EXCEPT ![c].status = "exited"] \/ UNCHANGED container
    BY <1>11 DEF StopBot
  <2>3. \A d \in rc.seen : SameOrStopped(d)
    BY <2>2 DEF SameOrStopped, ContainerState
  <2>4. QED
    BY <2>1, <2>3 DEF ListedKept
<1>12. QED
  BY <1>1, <1>2, <1>3, <1>4, <1>5, <1>7, <1>8, <1>9, <1>6, <1>10, <1>11,
     StepsOfACycle

\* The instances of b this cycle listed that still run, and whose stop did not fail.
Left(b) == {c \in Instances(b) : container[c].status = "running" /\ c \notin rc.missed}

\* The cycle has dealt with the wanted bot b.
Handled(b) ==
  /\ rc.want[b] # NoConfig
  /\ \/ rc.pc \in {"bots", "extras", "adopted", "restart"} /\ b \notin rc.todo \cup {rc.cur}
     \/ rc.pc \in {"sweep", "commit"}

\* A handled bot has one instance left; of the bot at work all but the kept one are about
\* to be stopped; and in the sweep, whatever is left of a bot nobody wants.
LeavesOneOf(b) ==
  /\ Handled(b) => \A c, d \in Left(b) : c = d
  /\ rc.pc \in {"extras", "adopted"} /\ rc.cur = b => Left(b) \subseteq rc.stops \cup {rc.keep}
  /\ rc.pc = "restart" /\ rc.cur = b => Left(b) \subseteq rc.stops
  /\ rc.pc = "sweep" /\ rc.want[b] = NoConfig => Left(b) \subseteq rc.stops
  /\ rc.pc = "commit" /\ rc.want[b] = NoConfig => Left(b) = {}

LeavesOne == \A b \in Bot : LeavesOneOf(b)

\* The listed instances of a bot stay the same, and only ever fewer of them are left.
LEMMA LeftShrinks ==
  ASSUME TypeInv, NEW b \in Bot, ListedKept
  PROVE  Instances(b)' = Instances(b) /\ Left(b)' \subseteq Left(b)
  BY DEF ListedKept, SameOrStopped, Instances, Left, TypeInv, TypeOK, CycleState

\* Every step keeps what the cycle has achieved so far.
LEMMA LeavesOneStep == TypeInv /\ LeavesOne /\ [Next]_vars => LeavesOne'
<1> SUFFICES ASSUME TypeInv, LeavesOne, [Next]_vars PROVE LeavesOne'
  OBVIOUS
<1> USE DEF TypeInv, TypeOK, CycleState
<1>1. CASE ~PastSnapshot'
  BY <1>1 DEF PastSnapshot, LeavesOne, LeavesOneOf, Handled
<1>2. CASE PastSnapshot'
  <2>1. InCycle /\ ListedKept
    BY <1>2, CycleKeepsListed
  <2> SUFFICES ASSUME NEW x \in Bot
               PROVE  LeavesOneOf(x)'
    BY DEF LeavesOne
  <2>2. LeavesOneOf(x) /\ rc'.want = rc.want /\ Left(x)' \subseteq Left(x)
    <3>1. Left(x)' \subseteq Left(x)
      BY <2>1, LeftShrinks
    <3>2. QED
      BY <2>1, <3>1 DEF LeavesOne, ListedKept
  <2>3. CASE Outside
    BY <2>2, <2>3 DEF Outside, LeavesOneOf, Handled
  <2>4. ASSUME TakeSnapshot PROVE LeavesOneOf(x)'
    BY <2>4, <2>2 DEF TakeSnapshot, Handled, LeavesOneOf
  <2>5. ASSUME NEW b \in Bot, HandleMissing(b) PROVE LeavesOneOf(x)'
    <3>1. /\ rc.pc = "bots" /\ rc'.pc = "bots" /\ rc'.todo = rc.todo \ {b} /\ rc'.cur = rc.cur
          /\ Instances(b) = {}
      BY <2>5 DEF HandleMissing
    <3>2. x = b => Left(x) = {}
      BY <3>1 DEF Left
    <3>3. QED
      BY <2>2, <3>1, <3>2 DEF LeavesOneOf, Handled
  <2>6. ASSUME NEW b \in Bot, HandleRunning(b) PROVE LeavesOneOf(x)'
    <3>1. PICK k \in Instances(b) :
            rc' = [rc EXCEPT !.pc = "extras", !.todo = @ \ {b}, !.cur = b, !.keep = k,
                             !.stops = Instances(b) \ {k}]
      BY <2>6 DEF HandleRunning
    <3>2. /\ rc.pc = "bots" /\ rc'.pc = "extras" /\ rc'.todo = rc.todo \ {b} /\ rc'.cur = b
          /\ rc'.keep = k /\ rc'.stops = Instances(b) \ {k} /\ rc.cur = NoBot
      BY <2>6, <3>1 DEF HandleRunning, Shape
    <3>3. x # b => (Handled(x)' => Handled(x))
      BY <2>2, <3>2, ConstantsOK DEF Handled
    <3>4. Left(x) \subseteq Instances(x)
      BY DEF Left
    <3>5. QED
      BY <2>2, <3>2, <3>3, <3>4 DEF LeavesOneOf, Handled
  <2>7. ASSUME NEW c \in Container, StopBot(c) PROVE LeavesOneOf(x)'
    <3>1. /\ rc'.pc = rc.pc /\ rc'.todo = rc.todo /\ rc'.cur = rc.cur /\ rc'.keep = rc.keep
          /\ rc'.stops = rc.stops \ {c} /\ rc.pc # "commit"
      BY <2>7 DEF StopBot
    <3>2. c \notin Left(x)'
      <4>1. CASE container' = [container EXCEPT ![c].status = "exited"]
        BY <4>1, StatusTyped DEF Left
      <4>2. CASE rc' = [rc EXCEPT !.stops = @ \ {c}, !.missed = @ \cup {c}]
        BY <4>2 DEF Left
      <4>3. QED
        BY <2>7, <4>1, <4>2 DEF StopBot
    <3>3. QED
      BY <2>2, <3>1, <3>2 DEF LeavesOneOf, Handled
  <2>8. ASSUME Adopt PROVE LeavesOneOf(x)'
    <3>1. /\ rc.pc = "extras" /\ rc'.pc = "adopted" /\ rc'.todo = rc.todo /\ rc'.cur = rc.cur
          /\ rc'.keep = rc.keep /\ rc'.stops = rc.stops
      BY <2>8 DEF Adopt, ExtrasStopped
    <3>2. QED
      BY <2>2, <3>1 DEF LeavesOneOf, Handled
  <2>9. ASSUME SettleKept PROVE LeavesOneOf(x)'
    <3>1. /\ rc.pc \in {"extras", "adopted"} /\ rc.stops = {} /\ rc'.pc = "bots"
          /\ rc'.todo = rc.todo /\ rc'.cur = NoBot
      BY <2>9 DEF SettleKept, ReadyToCompare, ExtrasStopped, Shape
    <3>2. QED
      BY <2>2, <3>1 DEF LeavesOneOf, Handled
  <2>10. ASSUME SettleChanged PROVE LeavesOneOf(x)'
    <3>1. /\ rc.pc \in {"extras", "adopted"} /\ rc.stops = {} /\ rc'.pc = "restart"
          /\ rc'.todo = rc.todo /\ rc'.cur = rc.cur /\ rc'.stops = {rc.keep}
      BY <2>10 DEF SettleChanged, ReadyToCompare, ExtrasStopped, Shape
    <3>2. QED
      BY <2>2, <3>1 DEF LeavesOneOf, Handled
  <2>11. ASSUME Restart PROVE LeavesOneOf(x)'
    <3>1. /\ rc.pc = "restart" /\ rc.stops = {} /\ rc'.pc = "bots"
          /\ rc'.todo = rc.todo /\ rc'.cur = NoBot
      BY <2>11 DEF Restart
    <3>2. QED
      BY <2>2, <3>1 DEF LeavesOneOf, Handled
  <2>12. ASSUME BeginSweep PROVE LeavesOneOf(x)'
    <3>1. /\ rc.pc = "bots" /\ rc.todo = {} /\ rc'.pc = "sweep" /\ rc.cur = NoBot
          /\ rc'.stops = {c \in rc.seen : rc.want[container[c].bot] = NoConfig}
      BY <2>12 DEF BeginSweep, Shape
    <3>2. Handled(x)' => Handled(x)
      BY <2>2, <3>1, ConstantsOK DEF Handled
    <3>3. rc.want[x] = NoConfig => Left(x) \subseteq rc'.stops
      BY <3>1 DEF Left, Instances
    <3>4. QED
      BY <2>2, <3>1, <3>2, <3>3 DEF LeavesOneOf
  <2>13. ASSUME GatherState PROVE LeavesOneOf(x)'
    <3>1. /\ rc.pc = "sweep" /\ rc.stops = {} /\ rc'.pc = "commit" /\ rc'.stops = rc.stops
          /\ rc'.todo = rc.todo /\ rc'.cur = rc.cur
      BY <2>13 DEF GatherState
    <3>2. QED
      BY <2>2, <3>1 DEF LeavesOneOf, Handled
  <2>14. QED
    BY <1>2, <2>3, <2>4, <2>5, <2>6, <2>7, <2>8, <2>9, <2>10, <2>11, <2>12, <2>13,
       StepsOfACycle
<1>3. QED
  BY <1>1, <1>2

\* A cycle that has done its work leaves running, of what it listed, at most one
\* instance of each bot it wanted, except where the engine refused a stop.
THEOREM CycleSettles == Spec => []CycleLeavesOnePerWantedBot
<1>1. Init => LeavesOne
  BY DEF Init, LeavesOne, LeavesOneOf, Handled, AtRest
<1>2. TypeInv /\ LeavesOne => CycleLeavesOnePerWantedBot
  <2> SUFFICES ASSUME TypeInv, LeavesOne, rc.pc = "commit",
                      NEW c \in (rc.seen \cap Running) \ rc.missed,
                      NEW d \in (rc.seen \cap Running) \ rc.missed
               PROVE  /\ rc.want[container[c].bot] # NoConfig
                      /\ container[c].bot = container[d].bot => c = d
    BY DEF CycleLeavesOnePerWantedBot
  <2>1. container[c].bot \in Bot /\ container[d].bot \in Bot
    BY DEF TypeInv, Shape, Running
  <2>2. c \in Left(container[c].bot) /\ d \in Left(container[d].bot)
    BY DEF Left, Instances, Running
  <2>3. QED
    BY <2>1, <2>2 DEF LeavesOne, LeavesOneOf, Handled
<1>3. QED
  BY TypeInvInit, TypeInvStep, LeavesOneStep, <1>1, <1>2, PTL DEF Spec

-----------------------------------------------------------------------------
(* Restarts *)

\* The kept instance and those to be stopped are instances of the bot at work, and an
\* adopted bot was not among the copied entries.
AtWork ==
  /\ Handling => \A c \in rc.stops \cup {rc.keep} : container[c].bot = rc.cur
  /\ rc.pc = "adopted" => rc.snap[rc.cur] = NoConfig

\* A container a goroutine has started carries the bot and configuration it was asked for.
StartedAsAsked ==
  \A c \in Container :
    launch[c].stage = "started" /\ container[c].status # "gone" =>
      container[c].bot = launch[c].bot /\ container[c].cfg = launch[c].cfg

\* Every step keeps the goroutine's locals about the bot it is at work on.
LEMMA AtWorkStep == TypeInv /\ AtWork /\ [Next]_vars => AtWork'
<1> SUFFICES ASSUME TypeInv, AtWork, [Next]_vars PROVE AtWork'
  OBVIOUS
<1> USE DEF TypeInv, TypeOK, CycleState
<1>1. CASE ~Handling'
  BY <1>1 DEF AtWork, Handling
<1>2. CASE Handling'
  <2>1. PastSnapshot'
    BY <1>2 DEF Handling, PastSnapshot
  <2>2. InCycle /\ ListedKept
    BY <2>1, CycleKeepsListed
  <2>3. /\ \A c \in rc.seen : container'[c].bot = container[c].bot
        /\ rc.stops \subseteq rc.seen /\ (Handling => rc.keep \in rc.seen)
        /\ rc'.stops \subseteq rc'.seen /\ rc'.keep \in rc'.seen /\ rc'.seen = rc.seen
    <3>1. TypeInv'
      BY TypeInvStep
    <3>2. QED
      BY <1>2, <2>2, <3>1 DEF ListedKept, SameOrStopped, Shape, Handling
  <2>4. CASE Outside
    BY <2>3, <2>4 DEF Outside, AtWork, Handling
  <2>5. ASSUME NEW b \in Bot, HandleRunning(b) PROVE AtWork'
    <3>1. PICK k \in Instances(b) :
            rc' = [rc EXCEPT !.pc = "extras", !.todo = @ \ {b}, !.cur = b, !.keep = k,
                             !.stops = Instances(b) \ {k}]
      BY <2>5 DEF HandleRunning
    <3>2. rc'.pc = "extras" /\ rc'.cur = b /\ rc'.stops \cup {rc'.keep} \subseteq Instances(b)
      BY <3>1
    <3>3. QED
      BY <2>3, <3>2 DEF AtWork, Instances
  <2>6. ASSUME NEW c \in Container, StopBot(c) PROVE AtWork'
    <3>1. /\ rc'.pc = rc.pc /\ rc'.cur = rc.cur /\ rc'.keep = rc.keep /\ rc'.snap = rc.snap
          /\ rc'.stops \subseteq rc.stops
      BY <2>6 DEF StopBot
    <3>2. QED
      BY <1>2, <2>3, <3>1 DEF AtWork, Handling
  <2>7. ASSUME Adopt PROVE AtWork'
    <3>1. /\ rc.pc = "extras" /\ rc.snap[rc.cur] = NoConfig /\ rc'.snap = rc.snap
          /\ rc'.cur = rc.cur /\ rc'.keep = rc.keep /\ rc'.stops = rc.stops
      BY <2>7 DEF Adopt, ExtrasStopped
    <3>2. QED
      BY <2>3, <3>1 DEF AtWork, Handling
  <2>8. ASSUME SettleChanged PROVE AtWork'
    <3>1. /\ rc.pc \in {"extras", "adopted"} /\ rc'.pc = "restart" /\ rc'.cur = rc.cur
          /\ rc'.keep = rc.keep /\ rc'.stops = {rc.keep}
      BY <2>8 DEF SettleChanged, ReadyToCompare, ExtrasStopped
    <3>2. QED
      BY <2>3, <3>1 DEF AtWork, Handling
  <2>9. ~TakeSnapshot /\ ~SettleKept /\ ~Restart /\ ~BeginSweep /\ ~GatherState
        /\ \A b \in Bot : ~HandleMissing(b)
    BY <1>2 DEF Handling, TakeSnapshot, SettleKept, Restart, BeginSweep, GatherState,
       HandleMissing
  <2>10. QED
    BY <2>1, <2>4, <2>5, <2>6, <2>7, <2>8, <2>9, StepsOfACycle
<1>3. QED
  BY <1>1, <1>2

\* Every step keeps what was started as it was asked for.
LEMMA StartedAsAskedStep == TypeInv /\ StartedAsAsked /\ [Next]_vars => StartedAsAsked'
<1> SUFFICES ASSUME TypeInv, StartedAsAsked, [Next]_vars,
                    NEW c \in Container,
                    launch'[c].stage = "started", container'[c].status # "gone"
             PROVE  container'[c].bot = launch'[c].bot /\ container'[c].cfg = launch'[c].cfg
  BY DEF StartedAsAsked
<1> USE DEF TypeInv, TypeOK, LaunchState, ContainerState
<1>1. ASSUME NEW d \in Container, LaunchStarts(d)
      PROVE  container'[c].bot = launch'[c].bot /\ container'[c].cfg = launch'[c].cfg
  BY <1>1 DEF LaunchStarts, StartedAsAsked
<1>2. ASSUME ~ \E d \in Container : LaunchStarts(d)
      PROVE  /\ launch[c] = launch'[c]
             /\ container[c].status # "gone"
             /\ container'[c].bot = container[c].bot /\ container'[c].cfg = container[c].cfg
  <2> DEFINE Same == /\ launch[c] = launch'[c] /\ container[c].status # "gone"
                     /\ container'[c].bot = container[c].bot
                     /\ container'[c].cfg = container[c].cfg
  <2>1. ASSUME Environment PROVE Same
    <3>1. UNCHANGED launch
      BY <2>1 DEF Environment, SetDesired, ContainerExits, CheckHealth, BackoffExpires
    <3>2. UNCHANGED container \/ \E d \in Container : container[d].status = "running"
                                   /\ container' = [container EXCEPT ![d].status = "exited"]
      BY <2>1 DEF Environment, SetDesired, ContainerExits, CheckHealth, BackoffExpires,
         engineVars, Running
    <3>3. QED
      BY <3>1, <3>2
  <2>2. ASSUME NEW d \in Container, LaunchFails(d) \/ LaunchRecorded(d) PROVE Same
    BY <2>2 DEF LaunchFails, LaunchRecorded, Idle, engineVars
  <2>3. ASSUME NEW d \in Container, LaunchLost(d) PROVE Same
    BY <2>3 DEF LaunchLost, Idle
  <2>4. ASSUME NEW b \in Bot, Spawn(b), UNCHANGED container PROVE Same
    BY <2>4 DEF Spawn, Free
  <2>5. ASSUME Reconciling PROVE Same
    <3>1. ASSUME NEW b \in Bot, HandleMissing(b) PROVE Same
      BY <3>1, <2>4 DEF HandleMissing, engineVars
    <3>2. ASSUME Restart PROVE Same
      <4>1. rc.cur \in Bot
        BY <3>2 DEF Restart, Shape
      <4>2. QED
        BY <3>2, <2>4, <4>1 DEF Restart, engineVars
    <3>3. ASSUME ListContainers PROVE Same
      BY <3>3 DEF ListContainers, Gone
    <3>4. ASSUME NEW d \in Container, StopBot(d) PROVE Same
      <4>1. container[d].status # "gone" /\ UNCHANGED launch
        BY <3>4 DEF StopBot, Shape, InCycle
      <4>2. UNCHANGED container \/ container' = [container EXCEPT ![d].status = "exited"]
        BY <3>4 DEF StopBot
      <4>3. QED
        BY <4>1, <4>2
    <3>5. ASSUME \/ BeginCycle \/ ListFails \/ TakeSnapshot \/ Adopt \/ SettleKept
                 \/ SettleChanged \/ BeginSweep \/ GatherState \/ CommitState
                 \/ \E b \in Bot : HandleRunning(b)
          PROVE  Same
      BY <3>5 DEF BeginCycle, ListFails, TakeSnapshot, Adopt, SettleKept, SettleChanged,
         BeginSweep, GatherState, CommitState, HandleRunning, engineVars
    <3>6. QED
      BY <2>5, <3>1, <3>2, <3>3, <3>4, <3>5 DEF Reconciling
  <2>6. ASSUME Lifecycle PROVE Same
    <3>1. ASSUME NEW d \in Container, ShutdownStop(d) PROVE Same
      BY <3>1 DEF ShutdownStop, Running
    <3>2. ASSUME Exit \/ ServiceCrash PROVE FALSE
      BY <3>2 DEF Exit, ServiceCrash, ForgetMemory, Idle
    <3>3. ASSUME Boot \/ RequestShutdown \/ Drained \/ CloseRunner PROVE Same
      BY <3>3 DEF Boot, RequestShutdown, Drained, CloseRunner, engineVars
    <3>4. QED
      BY <2>6, <3>1, <3>2, <3>3 DEF Lifecycle
  <2>7. ASSUME UNCHANGED vars PROVE Same
    BY <2>7 DEF vars
  <2>8. QED
    BY <1>2, <2>1, <2>2, <2>3, <2>5, <2>6, <2>7 DEF Next, Launching
<1>3. QED
  BY <1>1, <1>2 DEF StartedAsAsked

\* The starts of b under way.
LaunchesOf(b) == {c \in Pending : launch[c].bot = b}

\* Before the decision on a bot no start of it is under way, and a start under way is
\* the only one and the only running instance.
OneStartFor(b) ==
  /\ Undecided(b) => LaunchesOf(b) = {}
  /\ \A c \in LaunchesOf(b) : \A d \in LaunchesOf(b) \cup RunningFor(b) : c = d

OneStart == \A b \in Bot \ excused : OneStartFor(b)

\* Stopping a container makes nothing run.
LEMMA StoppingShrinks ==
  ASSUME container \in [Container -> ContainerState], NEW c \in Container, NEW x,
         UNCHANGED container \/ container' = [container EXCEPT ![c].status = "exited"]
  PROVE  RunningFor(x)' \subseteq RunningFor(x)
<1>1. CASE UNCHANGED container
  BY <1>1 DEF RunningFor, Running
<1>2. CASE container' = [container EXCEPT ![c].status = "exited"]
  <2>1. \A d \in Container : /\ container'[d].bot = container[d].bot
                             /\ container'[d].status = IF d = c THEN "exited"
                                                       ELSE container[d].status
    BY <1>2, StatusTyped
  <2>2. QED
    BY <2>1 DEF RunningFor, Running
<1>3. QED
  BY <1>1, <1>2

\* Nothing more starts or runs, and nothing becomes undecided.
LEMMA OneStartShrinks ==
  ASSUME NEW x \in Bot, OneStartFor(x), Undecided(x)' => Undecided(x),
         LaunchesOf(x)' \subseteq LaunchesOf(x), RunningFor(x)' \subseteq RunningFor(x)
  PROVE  OneStartFor(x)'
  BY DEF OneStartFor

\* Starting b while nothing of b runs or starts makes that start the only one.
LEMMA OneStartSpawned ==
  ASSUME TypeOK, NEW x \in Bot, OneStartFor(x), NEW b \in Bot, Launched(b), UNCHANGED container,
         x = b => LaunchesOf(x) \cup RunningFor(x) = {} /\ ~Undecided(x)',
         Undecided(x)' => Undecided(x)
  PROVE  OneStartFor(x)'
<1> USE DEF TypeOK, LaunchState
<1>0. RunningFor(x)' = RunningFor(x)
  BY DEF RunningFor, Running
<1>1. CASE launch' = launch
  BY <1>0, <1>1, OneStartShrinks DEF LaunchesOf, Pending
<1>2. ASSUME NEW c \in Container, launch[c] = Idle,
             launch' = [launch EXCEPT ![c] = [bot |-> b, cfg |-> rc.want[b], stage |-> "pull"]]
      PROVE  OneStartFor(x)'
  <2>1. LaunchesOf(x)' = LaunchesOf(x) \cup (IF x = b THEN {c} ELSE {})
    BY <1>2 DEF LaunchesOf, Pending, Idle
  <2>2. QED
    BY <1>0, <2>1 DEF OneStartFor
<1>3. QED
  BY <1>1, <1>2 DEF Launched

\* Every step keeps the starts of a bot that is not excused apart.
LEMMA OneStartStep == TypeInv /\ OneLive /\ OneStart /\ [Next]_vars => OneStart'
<1> SUFFICES ASSUME TypeInv, OneLive, OneStart, [Next]_vars,
                    NEW x \in Bot, x \notin excused'
             PROVE  OneStartFor(x)'
  BY DEF OneStart
<1> USE DEF TypeInv, TypeOK, dbVars, stateVars, engineVars
<1>0. excused \subseteq excused' => x \notin excused /\ OneLiveFor(x) /\ OneStartFor(x)
  BY DEF OneLive, OneStart
<1>1. ASSUME \/ \E b \in Bot : BackoffExpires(b) \/ \E w \in Want : SetDesired(b, w)
             \/ CheckHealth \/ Boot \/ RequestShutdown \/ Drained \/ CloseRunner
             \/ UNCHANGED vars
      PROVE  OneStartFor(x)'
  <2>1. UNCHANGED <<rc, launch, container, excused>>
    BY <1>1 DEF BackoffExpires, SetDesired, CheckHealth, Boot, RequestShutdown, Drained,
       CloseRunner, vars
  <2>2. QED
    BY <1>0, <2>1, OneStartShrinks DEF LaunchesOf, RunningFor, Running, Pending, Undecided
<1>2. ASSUME NEW c \in Container, ContainerExits(c) \/ ShutdownStop(c) PROVE OneStartFor(x)'
  <2>1. UNCHANGED <<rc, launch, excused>>
        /\ (UNCHANGED container \/ container' = [container EXCEPT ![c].status = "exited"])
    BY <1>2 DEF ContainerExits, ShutdownStop
  <2>2. RunningFor(x)' \subseteq RunningFor(x)
    BY <2>1, StoppingShrinks
  <2>3. QED
    BY <1>0, <2>1, <2>2, OneStartShrinks DEF LaunchesOf, Pending, Undecided
<1>3. ASSUME NEW c \in Container, LaunchFails(c) \/ LaunchRecorded(c) PROVE OneStartFor(x)'
  <2>1. UNCHANGED <<rc, container, excused>> /\ launch' = [launch EXCEPT ![c] = Idle]
    BY <1>3 DEF LaunchFails, LaunchRecorded
  <2>2. LaunchesOf(x)' \subseteq LaunchesOf(x)
    BY <2>1 DEF LaunchesOf, Pending, Idle
  <2>3. QED
    BY <1>0, <2>1, <2>2, OneStartShrinks DEF RunningFor, Running, Undecided
<1>4. ASSUME NEW c \in Container, LaunchLost(c) PROVE OneStartFor(x)'
  <2>1. UNCHANGED rc /\ launch' = [launch EXCEPT ![c] = Idle] /\ launch[c].bot # x
        /\ excused \subseteq excused'
        /\ container' = [container EXCEPT ![c] = [bot |-> launch[c].bot, cfg |-> launch[c].cfg,
                                                  status |-> "running"]]
    BY <1>4 DEF LaunchLost
  <2>2. LaunchesOf(x)' \subseteq LaunchesOf(x) /\ RunningFor(x)' \subseteq RunningFor(x)
    BY <2>1 DEF LaunchesOf, Pending, Idle, RunningFor, Running
  <2>3. QED
    BY <1>0, <2>1, <2>2, OneStartShrinks DEF Undecided
<1>5. ASSUME NEW c \in Container, LaunchStarts(c) PROVE OneStartFor(x)'
  <2>1. UNCHANGED <<rc, excused>> /\ launch' = [launch EXCEPT ![c].stage = "started"]
        /\ launch[c].stage = "pull"
        /\ container' = [container EXCEPT ![c] = [bot |-> launch[c].bot, cfg |-> launch[c].cfg,
                                                  status |-> "running"]]
    BY <1>5 DEF LaunchStarts
  <2>2. LaunchesOf(x)' = LaunchesOf(x)
    BY <2>1 DEF LaunchesOf, Pending, LaunchState
  <2>3. \A d \in RunningFor(x)' : d \in RunningFor(x) \cup LaunchesOf(x)
    BY <2>1 DEF RunningFor, Running, LaunchesOf, Pending
  <2>4. QED
    BY <1>0, <2>1, <2>2, <2>3 DEF OneStartFor, Undecided
<1>6. ASSUME Exit \/ ServiceCrash PROVE OneStartFor(x)'
  BY <1>6 DEF Exit, ServiceCrash, ForgetMemory, OneStartFor, Undecided, LaunchesOf, Pending,
     Idle, AtRest
<1>7. ASSUME \/ BeginCycle \/ ListFails \/ CommitState \/ BeginSweep \/ GatherState
             \/ TakeSnapshot \/ SettleKept \/ SettleChanged \/ Adopt
      PROVE  OneStartFor(x)'
  <2>1. UNCHANGED <<launch, container, excused>>
    BY <1>7 DEF BeginCycle, ListFails, CommitState, BeginSweep, GatherState, TakeSnapshot,
       SettleKept, SettleChanged, Adopt
  <2>2. ASSUME \/ BeginCycle \/ ListFails \/ CommitState \/ BeginSweep \/ GatherState
        PROVE  ~Undecided(x)'
    <3>1. rc'.pc \in {"idle", "list", "sweep", "commit"}
      <4>1. ListFails \/ CommitState => rc'.pc = "idle"
        BY DEF ListFails, CommitState, AtRest
      <4>2. BeginCycle => rc'.pc = "list"
        BY DEF BeginCycle, CycleState
      <4>3. BeginSweep => rc'.pc = "sweep"
        BY DEF BeginSweep, CycleState
      <4>4. GatherState => rc'.pc = "commit"
        BY DEF GatherState, CycleState
      <4>5. QED
        BY <2>2, <4>1, <4>2, <4>3, <4>4
    <3>2. QED
      BY <3>1 DEF Undecided
  <2>3. ASSUME TakeSnapshot PROVE Undecided(x)' => Undecided(x)
    BY <2>3 DEF TakeSnapshot, Undecided
  <2>4. ASSUME Adopt \/ SettleKept \/ SettleChanged PROVE Undecided(x)' => Undecided(x)
    <3>1. /\ rc.pc \in {"extras", "adopted"} /\ rc'.todo = rc.todo
          /\ rc'.pc \in {"bots", "adopted", "restart"} /\ (rc'.pc # "bots" => rc'.cur = rc.cur)
      BY <2>4 DEF Adopt, SettleKept, SettleChanged, ReadyToCompare, ExtrasStopped, CycleState
    <3>2. QED
      BY <3>1 DEF Undecided
  <2>5. QED
    BY <1>7, <1>0, <2>1, <2>2, <2>3, <2>4, OneStartShrinks
       DEF LaunchesOf, RunningFor, Running, Pending
<1>8. ASSUME ListContainers PROVE OneStartFor(x)'
  <2>1. \A c \in Pending : launch[c].bot # x
    BY <1>8 DEF ListContainers
  <2>2. LaunchesOf(x)' = {}
    BY <1>8, <2>1 DEF ListContainers, LaunchesOf, Pending
  <2>3. QED
    BY <2>2 DEF OneStartFor
<1>9. ASSUME NEW b \in Bot, HandleMissing(b) PROVE OneStartFor(x)'
  <2>1. /\ rc.pc = "bots" /\ rc'.pc = "bots" /\ rc'.todo = rc.todo \ {b} /\ b \in rc.todo
        /\ UNCHANGED <<container, excused>> /\ rc.want[b] \in Config /\ Instances(b) = {}
    BY <1>9 DEF HandleMissing, CycleState, Shape
  <2>2. OneStartFor(x) /\ OneLiveFor(x)
    BY <1>0, <2>1
  <2>3. Launched(b)
    BY <1>9, <2>1, SpawnTyped DEF HandleMissing, Launched
  <2>4. x = b => LaunchesOf(x) \cup RunningFor(x) = {} /\ ~Undecided(x)'
    BY <2>1, <2>2 DEF OneStartFor, OneLiveFor, Undecided, Live, Instances, RunningFor, Running
  <2>5. Undecided(x)' => Undecided(x)
    BY <2>1 DEF Undecided
  <2>6. QED
    BY <2>1, <2>2, <2>3, <2>4, <2>5, OneStartSpawned
<1>10. ASSUME NEW b \in Bot, HandleRunning(b) PROVE OneStartFor(x)'
  <2>1. /\ UNCHANGED <<launch, container, excused>> /\ rc.pc = "bots" /\ rc'.pc = "extras"
        /\ b \in rc.todo /\ rc'.todo = rc.todo \ {b} /\ rc'.cur = b
    BY <1>10 DEF HandleRunning, CycleState
  <2>2. QED
    BY <1>0, <2>1, OneStartShrinks DEF LaunchesOf, RunningFor, Running, Pending, Undecided
<1>11. ASSUME NEW c \in Container, StopBot(c) PROVE OneStartFor(x)'
  <2>1. /\ rc'.pc = rc.pc /\ rc'.cur = rc.cur /\ rc'.todo = rc.todo /\ UNCHANGED launch
        /\ excused \subseteq excused'
        /\ (UNCHANGED container \/ container' = [container EXCEPT ![c].status = "exited"])
    BY <1>11 DEF StopBot, CycleState
  <2>2. RunningFor(x)' \subseteq RunningFor(x)
    BY <2>1, StoppingShrinks
  <2>3. QED
    BY <1>0, <2>1, <2>2, OneStartShrinks DEF LaunchesOf, Pending, Undecided
<1>12. ASSUME Restart PROVE OneStartFor(x)'
  <2>1. /\ rc.pc = "restart" /\ rc.stops = {} /\ rc'.pc = "bots" /\ rc'.todo = rc.todo
        /\ UNCHANGED <<container, excused>> /\ rc.cur \in Bot /\ rc.want[rc.cur] \in Config
        /\ rc.cur \notin rc.todo
    BY <1>12 DEF Restart, CycleState, Shape
  <2>2. OneStartFor(x) /\ OneLiveFor(x)
    BY <1>0, <2>1
  <2>3. Launched(rc.cur)
    BY <1>12, <2>1, SpawnTyped DEF Restart
  <2>4. x = rc.cur => LaunchesOf(x) \cup RunningFor(x) = {} /\ ~Undecided(x)'
    BY <2>1, <2>2 DEF OneStartFor, OneLiveFor, Undecided, Live, RunningFor, Running
  <2>5. Undecided(x)' => Undecided(x)
    BY <2>1 DEF Undecided
  <2>6. QED
    BY <2>1, <2>2, <2>3, <2>4, <2>5, OneStartSpawned
<1>13. QED
  BY <1>1, <1>2, <1>3, <1>4, <1>5, <1>6, <1>7, <1>8, <1>9, <1>10, <1>11, <1>12
     DEF Next, Environment, Launching, Reconciling, Lifecycle

\* Whatever runs of b runs the configuration v.
Runs(b, v) == \A c \in RunningFor(b) : container[c].cfg = v

\* What the service believes of b's configuration is true of b's containers: the entry,
\* unless a start is under way or it was made by an adoption in this cycle; the copy of
\* the entry, of the listed instances; and the entry to be committed.  And an instance
\* about to be stopped for a restart runs another configuration than the wanted one.
TrueOf(b) ==
  /\ tracked[b] # Untracked /\ LaunchesOf(b) = {} /\ (PastSnapshot => rc.snap[b] # NoConfig)
       => Runs(b, tracked[b].cfg)
  /\ rc.pc = "snap" /\ tracked[b] # Untracked =>
       \A c \in Instances(b) : container[c].cfg = tracked[b].cfg
  /\ PastSnapshot /\ rc.snap[b] # NoConfig =>
       \A c \in Instances(b) : container[c].cfg = rc.snap[b]
  /\ PastSnapshot /\ Instances(b) # {} /\ LaunchesOf(b) # {} => tracked[b] = Untracked
  /\ rc.pc = "adopted" /\ rc.cur = b => tracked[b] # Untracked /\ tracked[b].cfg = rc.want[b]
  /\ rc.pc = "restart" /\ rc.cur = b => /\ rc.keep \in rc.stops \/ tracked[b] = Untracked
                                        /\ \A c \in rc.stops : container[c].cfg # rc.want[b]
  /\ rc.pc = "commit" /\ rc.fresh[b] # Untracked => LaunchesOf(b) = {} /\ Runs(b, rc.fresh[b].cfg)

BeliefsTrue == \A b \in Bot \ excused : TrueOf(b)

\* A step of anybody else that touches neither b's entry nor its starts, and starts
\* nothing of b unless a start is under way, keeps the beliefs about b true.
LEMMA TrueOfQuiet ==
  ASSUME TypeInv, NEW x \in Bot, TrueOf(x), UNCHANGED rc, tracked'[x] = tracked[x],
         LaunchesOf(x)' = LaunchesOf(x),
         LaunchesOf(x) = {} => \A c \in RunningFor(x)' : /\ c \in RunningFor(x)
                                                        /\ container'[c].cfg = container[c].cfg,
         InCycle => \A c \in rc.seen : SameOrStopped(c)
  PROVE  TrueOf(x)'
<1>1. InCycle => /\ Instances(x)' = Instances(x)
                 /\ \A c \in rc.seen : container'[c].cfg = container[c].cfg
  BY DEF Instances, SameOrStopped
<1>2. \A v : LaunchesOf(x) = {} /\ Runs(x, v) => Runs(x, v)'
  BY DEF Runs
<1>3. PastSnapshot' = PastSnapshot /\ (PastSnapshot \/ rc.pc = "snap" => InCycle)
  BY DEF PastSnapshot, InCycle
<1>4. Instances(x) \subseteq rc.seen /\ rc.stops \subseteq rc.seen
  BY DEF Instances, TypeInv, Shape
<1>5. rc.pc = "restart" => InCycle
  BY DEF InCycle
<1>6. QED
  BY <1>1, <1>2, <1>3, <1>4, <1>5 DEF TrueOf

\* The end of a start makes the entry true: nothing else of the bot runs or starts.
LEMMA TrueOfRecorded ==
  ASSUME TypeInv, StartedAsAsked, NEW x \in Bot, OneStartFor(x), TrueOf(x),
         NEW c \in Container, LaunchRecorded(c), launch[c].bot = x
  PROVE  TrueOf(x)'
<1> USE DEF TypeInv, TypeOK
<1>1. /\ UNCHANGED <<rc, container>> /\ launch' = [launch EXCEPT ![c] = Idle]
      /\ tracked'[x].cfg = launch[c].cfg
  BY DEF LaunchRecorded, engineVars
<1>2. c \in LaunchesOf(x) /\ launch[c].stage = "started"
  BY DEF LaunchRecorded, LaunchesOf, Pending
<1>3. LaunchesOf(x)' = {} /\ RunningFor(x) \subseteq {c} /\ ~Undecided(x)
  BY <1>1, <1>2 DEF OneStartFor, LaunchesOf, Pending, Idle, LaunchState
<1>4. Runs(x, tracked[x].cfg)'
  <2>1. \A d \in RunningFor(x)' : d = c /\ container[c].status = "running"
    BY <1>1, <1>3 DEF RunningFor, Running
  <2>2. QED
    BY <1>1, <1>2, <2>1 DEF StartedAsAsked, Runs
<1>5. rc.pc \notin {"snap"} /\ ~(rc.pc \in {"adopted", "restart"} /\ rc.cur = x)
  BY <1>3 DEF Undecided
<1>6. rc.pc = "commit" => rc.fresh[x] = Untracked
  BY <1>2 DEF TrueOf
<1>7. Instances(x)' = Instances(x) /\ PastSnapshot' = PastSnapshot
  BY <1>1 DEF Instances, PastSnapshot
<1>8. QED
  BY <1>1, <1>3, <1>4, <1>5, <1>6, <1>7 DEF TrueOf

\* A start that fails leaves nothing of its bot running or starting.
LEMMA TrueOfFailed ==
  ASSUME TypeInv, NEW x \in Bot, OneStartFor(x), TrueOf(x),
         NEW c \in Container, LaunchFails(c), launch[c].bot = x
  PROVE  TrueOf(x)'
<1> USE DEF TypeInv, TypeOK
<1>1. UNCHANGED <<rc, container, tracked>> /\ launch' = [launch EXCEPT ![c] = Idle]
  BY DEF LaunchFails, engineVars
<1>2. c \in LaunchesOf(x) /\ container[c].status = "gone"
  BY DEF LaunchFails, LaunchesOf, Pending, Shape
<1>3. LaunchesOf(x)' = {} /\ RunningFor(x)' = {}
  BY <1>1, <1>2 DEF OneStartFor, LaunchesOf, Pending, Idle, LaunchState, RunningFor, Running
<1>4. rc.pc = "commit" => rc.fresh[x] = Untracked
  BY <1>2 DEF TrueOf
<1>5. Instances(x)' = Instances(x) /\ PastSnapshot' = PastSnapshot
  BY <1>1 DEF Instances, PastSnapshot
<1>6. QED
  BY <1>1, <1>3, <1>4, <1>5 DEF TrueOf, Runs

\* Steps of anybody but the reconciliation goroutine keep the beliefs about b true.
LEMMA TrueOfOutside ==
  ASSUME TypeInv, StartedAsAsked, NEW x \in Bot, OneStartFor(x), TrueOf(x), x \notin excused',
         Outside
  PROVE  TrueOf(x)'
<1> USE DEF TypeInv, TypeOK
<1>1. UNCHANGED rc /\ (InCycle => \A c \in rc.seen : SameOrStopped(c))
  BY OutsideKeepsListed DEF Outside
<1>2. ASSUME \/ \E b \in Bot : BackoffExpires(b) \/ \E w \in Want : SetDesired(b, w)
             \/ CheckHealth \/ Boot \/ RequestShutdown \/ Drained \/ CloseRunner
             \/ UNCHANGED vars
      PROVE  TrueOf(x)'
  <2>1. UNCHANGED <<launch, container, tracked>>
    BY <1>2 DEF BackoffExpires, SetDesired, CheckHealth, Boot, RequestShutdown, Drained,
       CloseRunner, vars, stateVars, engineVars
  <2>2. QED
    BY <1>1, <2>1, TrueOfQuiet DEF LaunchesOf, Pending, RunningFor, Running
<1>3. ASSUME NEW c \in Container, ContainerExits(c) \/ ShutdownStop(c) PROVE TrueOf(x)'
  <2>1. /\ UNCHANGED <<launch, tracked>>
        /\ UNCHANGED container \/ container' = [container EXCEPT ![c].status = "exited"]
    BY <1>3 DEF ContainerExits, ShutdownStop, stateVars
  <2>2. RunningFor(x)' \subseteq RunningFor(x)
    BY <2>1, StoppingShrinks
  <2>3. \A d \in Container : container'[d].cfg = container[d].cfg
    BY <2>1 DEF ContainerState
  <2>4. LaunchesOf(x)' = LaunchesOf(x) /\ RunningFor(x) \subseteq Container
    BY <2>1 DEF LaunchesOf, Pending, RunningFor, Running
  <2>5. QED
    BY <1>1, <2>1, <2>2, <2>3, <2>4, TrueOfQuiet
<1>4. ASSUME NEW c \in Container, LaunchFails(c) PROVE TrueOf(x)'
  <2>1. CASE launch[c].bot = x
    BY <1>4, <2>1, TrueOfFailed
  <2>2. CASE launch[c].bot # x
    <3>1. UNCHANGED <<container, tracked>> /\ launch' = [launch EXCEPT ![c] = Idle]
      BY <1>4 DEF LaunchFails, engineVars
    <3>2. LaunchesOf(x)' = LaunchesOf(x)
      BY <2>2, <3>1 DEF LaunchesOf, Pending, Idle
    <3>3. QED
      BY <1>1, <3>1, <3>2, TrueOfQuiet DEF RunningFor, Running
  <2>3. QED
    BY <2>1, <2>2
<1>5. ASSUME NEW c \in Container, LaunchRecorded(c) PROVE TrueOf(x)'
  <2>1. CASE launch[c].bot = x
    BY <1>5, <2>1, TrueOfRecorded
  <2>2. CASE launch[c].bot # x
    <3>1. /\ UNCHANGED container /\ launch' = [launch EXCEPT ![c] = Idle]
          /\ tracked'[x] = tracked[x]
      BY <1>5, <2>2 DEF LaunchRecorded, engineVars
    <3>2. LaunchesOf(x)' = LaunchesOf(x)
      BY <2>2, <3>1 DEF LaunchesOf, Pending, Idle
    <3>3. QED
      BY <1>1, <3>1, <3>2, TrueOfQuiet DEF RunningFor, Running
  <2>3. QED
    BY <2>1, <2>2
<1>6. ASSUME NEW c \in Container, LaunchLost(c) PROVE TrueOf(x)'
  <2>1. /\ UNCHANGED tracked /\ launch' = [launch EXCEPT ![c] = Idle] /\ launch[c].bot # x
        /\ container' = [container EXCEPT ![c] = [bot |-> launch[c].bot, cfg |-> launch[c].cfg,
                                                  status |-> "running"]]
    BY <1>6 DEF LaunchLost
  <2>2. LaunchesOf(x)' = LaunchesOf(x)
    BY <2>1 DEF LaunchesOf, Pending, Idle
  <2>3. \A d \in RunningFor(x)' : d \in RunningFor(x) /\ container'[d].cfg = container[d].cfg
    BY <2>1 DEF RunningFor, Running
  <2>4. QED
    BY <1>1, <2>1, <2>2, <2>3, TrueOfQuiet
<1>7. ASSUME NEW c \in Container, LaunchStarts(c) PROVE TrueOf(x)'
  <2>1. /\ UNCHANGED tracked /\ launch' = [launch EXCEPT ![c].stage = "started"]
        /\ launch[c].stage = "pull"
        /\ container' = [container EXCEPT ![c] = [bot |-> launch[c].bot, cfg |-> launch[c].cfg,
                                                  status |-> "running"]]
    BY <1>7 DEF LaunchStarts, stateVars
  <2>2. LaunchesOf(x)' = LaunchesOf(x)
    BY <2>1 DEF LaunchesOf, Pending, LaunchState
  <2>3. LaunchesOf(x) = {} =>
          \A d \in RunningFor(x)' : d \in RunningFor(x) /\ container'[d].cfg = container[d].cfg
    BY <2>1 DEF RunningFor, Running, LaunchesOf, Pending
  <2>4. QED
    BY <1>1, <2>1, <2>2, <2>3, TrueOfQuiet
<1>8. ASSUME Exit \/ ServiceCrash PROVE TrueOf(x)'
  BY <1>8 DEF Exit, ServiceCrash, ForgetMemory, TrueOf, PastSnapshot, AtRest
<1>9. QED
  BY <1>2, <1>3, <1>4, <1>5, <1>6, <1>7, <1>8
     DEF Outside, Environment, Launching, Lifecycle

\* A step of the cycle's loops that leaves b's entry, copy and starts alone keeps the
\* beliefs about b true, if it has settled what is new of them.
LEMMA TrueOfLoopStep ==
  ASSUME TypeInv, NEW x \in Bot, TrueOf(x), PastSnapshot, PastSnapshot', ListedKept,
         LaunchesOf(x) \subseteq LaunchesOf(x)',
         \A c \in RunningFor(x)' : c \in RunningFor(x) /\ container'[c].cfg = container[c].cfg,
         tracked'[x] # Untracked =>
           tracked'[x] = tracked[x]
             \/ (LaunchesOf(x)' = {} /\ (rc.snap[x] # NoConfig => Runs(x, tracked'[x].cfg))),
         LaunchesOf(x)' # LaunchesOf(x) => Instances(x) = {} \/ tracked'[x] = Untracked,
         rc'.pc = "adopted" /\ rc'.cur = x =>
           tracked'[x] # Untracked /\ tracked'[x].cfg = rc.want[x],
         rc'.pc = "restart" /\ rc'.cur = x =>
           /\ rc'.keep \in rc'.stops \/ tracked'[x] = Untracked
           /\ \A c \in rc'.stops : container'[c].cfg # rc.want[x],
         rc'.pc # "commit"
  PROVE  TrueOf(x)'
<1>1. /\ Instances(x)' = Instances(x) /\ rc'.snap = rc.snap /\ rc'.want = rc.want
      /\ \A c \in Instances(x) : container'[c].cfg = container[c].cfg
  BY DEF ListedKept, SameOrStopped, Instances, PastSnapshot
<1>2. \A v : Runs(x, v) => Runs(x, v)'
  BY DEF Runs
<1>3. rc'.pc # "snap"
  BY DEF PastSnapshot
<1>4. QED
  BY <1>1, <1>2, <1>3 DEF TrueOf

\* The beliefs hold when the copy is taken: before the decisions nothing is under way.
LEMMA TrueOfSnapshot ==
  ASSUME TypeInv, NEW x \in Bot, OneStartFor(x), TrueOf(x), TakeSnapshot
  PROVE  TrueOf(x)'
<1> USE DEF TypeInv, TypeOK, CycleState
<1>1. /\ rc.pc = "snap" /\ rc'.pc = "bots" /\ rc'.seen = rc.seen
      /\ UNCHANGED <<container, launch, tracked>>
      /\ rc'.snap[x] = IF tracked[x] = Untracked THEN NoConfig ELSE tracked[x].cfg
  BY DEF TakeSnapshot, stateVars, engineVars
<1>2. LaunchesOf(x)' = LaunchesOf(x) /\ LaunchesOf(x) = {} /\ RunningFor(x)' = RunningFor(x)
      /\ Instances(x)' = Instances(x) /\ ~PastSnapshot
  BY <1>1 DEF OneStartFor, Undecided, LaunchesOf, Pending, RunningFor, Running, Instances,
     PastSnapshot
<1>3. QED
  BY <1>1, <1>2 DEF TrueOf, Runs

\* The listing looks at what the entries speak of.
LEMMA TrueOfListed ==
  ASSUME TypeInv, NEW x \in Bot, TrueOf(x), ListContainers, x \notin excused'
  PROVE  TrueOf(x)'
<1> USE DEF TypeInv, TypeOK, CycleState
<1>1. /\ rc.pc = "list" /\ rc'.pc = "snap" /\ rc'.seen = Running /\ UNCHANGED <<launch, tracked>>
      /\ \A c \in Pending : launch[c].bot # x
  BY DEF ListContainers, stateVars
<1>2. \A c \in Container : /\ container'[c].status = "running" <=> container[c].status = "running"
                           /\ c \in Running => container'[c] = container[c]
  <2>1. CASE UNCHANGED container
    BY <2>1
  <2>2. CASE container' = [c \in Container |-> IF c \in Exited THEN Gone ELSE container[c]]
    BY <2>2 DEF Running, Exited, Gone
  <2>3. QED
    BY <2>1, <2>2 DEF ListContainers
<1>3. RunningFor(x)' = RunningFor(x) /\ Instances(x)' = RunningFor(x) /\ LaunchesOf(x) = {}
      /\ LaunchesOf(x)' = {} /\ ~PastSnapshot /\ ~PastSnapshot'
  BY <1>1, <1>2 DEF RunningFor, Running, Instances, LaunchesOf, Pending, PastSnapshot
<1>4. \A c \in RunningFor(x) : container'[c] = container[c]
  BY <1>2 DEF RunningFor, Running
<1>5. QED
  BY <1>1, <1>3, <1>4 DEF TrueOf, Runs

\* The committed entries are true of the containers.
LEMMA TrueOfCommitted ==
  ASSUME TypeInv, NEW x \in Bot, TrueOf(x), GatherState \/ CommitState
  PROVE  TrueOf(x)'
<1> USE DEF TypeInv, TypeOK, CycleState
<1>1. UNCHANGED <<container, launch>>
  BY DEF GatherState, CommitState, engineVars
<1>2. RunningFor(x)' = RunningFor(x) /\ LaunchesOf(x)' = LaunchesOf(x)
  BY <1>1 DEF RunningFor, Running, LaunchesOf, Pending
<1>3. CASE GatherState
  <2>1. /\ rc.pc = "sweep" /\ rc'.pc = "commit" /\ rc'.seen = rc.seen /\ rc'.snap = rc.snap
        /\ tracked' = tracked
        /\ rc'.fresh[x] = IF x \in Survivors THEN tracked[x] ELSE Untracked
    BY <1>3 DEF GatherState, stateVars
  <2>2. Instances(x)' = Instances(x) /\ PastSnapshot /\ PastSnapshot'
    BY <1>1, <2>1 DEF Instances, PastSnapshot
  <2>3. rc'.fresh[x] # Untracked => LaunchesOf(x) = {} /\ Runs(x, rc'.fresh[x].cfg)
    BY <2>1, <2>2 DEF TrueOf, Survivors
  <2>4. QED
    BY <1>1, <1>2, <2>1, <2>2, <2>3 DEF TrueOf, Runs
<1>4. CASE CommitState
  <2>1. rc.pc = "commit" /\ rc'.pc = "idle" /\ tracked' = rc.fresh
    BY <1>4 DEF CommitState, AtRest
  <2>2. QED
    BY <1>1, <1>2, <2>1 DEF TrueOf, Runs, PastSnapshot
<1>5. QED
  BY <1>3, <1>4

\* Every step keeps the beliefs about a bot that is not excused true.
LEMMA BeliefsTrueStep ==
  ASSUME TypeInv, OneLive, StartedAsAsked, AtWork, OneStart, BeliefsTrue, [Next]_vars
  PROVE  BeliefsTrue'
<1> SUFFICES ASSUME NEW x \in Bot, x \notin excused'
             PROVE  TrueOf(x)'
  BY DEF BeliefsTrue
<1> USE DEF TypeInv, TypeOK, CycleState
<1>1. excused \subseteq excused'
  BY DEF Next, Environment, Launching, Reconciling, Lifecycle, SetDesired, ContainerExits,
     CheckHealth, BackoffExpires, LaunchFails, LaunchLost, LaunchStarts, LaunchRecorded,
     BeginCycle, ListFails, ListContainers, TakeSnapshot, HandleMissing, HandleRunning,
     StopBot, Adopt, SettleKept, SettleChanged, Restart, BeginSweep, GatherState,
     CommitState, Boot, RequestShutdown, Drained, CloseRunner, Exit, ServiceCrash,
     ShutdownStop, vars
<1>2. OneLiveFor(x) /\ OneStartFor(x) /\ TrueOf(x)
  BY <1>1 DEF OneLive, OneStart, BeliefsTrue
<1>3. CASE ~PastSnapshot'
  <2>1. CASE Environment \/ Launching \/ UNCHANGED vars \/ (Lifecycle /\ rc' = rc)
    <3>1. Outside
      <4>1. Environment \/ Launching \/ UNCHANGED vars => rc' = rc
        BY DEF Environment, Launching, SetDesired, ContainerExits, CheckHealth, BackoffExpires,
               LaunchFails, LaunchLost, LaunchStarts, LaunchRecorded, vars
      <4>2. QED
        BY <2>1, <4>1 DEF Outside
    <3>2. QED
      BY <1>2, <3>1, TrueOfOutside
  <2>2. CASE Exit \/ ServiceCrash
    BY <2>2 DEF Exit, ServiceCrash, ForgetMemory, TrueOf, PastSnapshot, AtRest
  <2>3. CASE ListContainers
    BY <1>2, <2>3, TrueOfListed
  <2>4. CASE CommitState
    BY <1>2, <2>4, TrueOfCommitted
  <2>5. CASE BeginCycle \/ ListFails
    <3>1. /\ UNCHANGED <<container, launch, tracked>> /\ rc'.pc \in {"idle", "list"}
          /\ ~PastSnapshot
      <4>1. CASE BeginCycle
        BY <4>1 DEF BeginCycle, stateVars, engineVars, PastSnapshot
      <4>2. CASE ListFails
        BY <4>2 DEF ListFails, stateVars, engineVars, PastSnapshot, AtRest
      <4>3. QED
        BY <2>5, <4>1, <4>2
    <3>2. RunningFor(x)' = RunningFor(x) /\ LaunchesOf(x)' = LaunchesOf(x)
      BY <3>1 DEF RunningFor, Running, LaunchesOf, Pending
    <3>3. QED
      BY <1>2, <3>1, <3>2 DEF TrueOf, Runs, PastSnapshot
  <2>6. Lifecycle => rc' = rc \/ Exit \/ ServiceCrash
    BY DEF Lifecycle, Boot, RequestShutdown, Drained, CloseRunner, ShutdownStop
  <2>7. Reconciling => ListContainers \/ CommitState \/ BeginCycle \/ ListFails
    <3>1. /\ ~TakeSnapshot /\ ~Restart /\ ~SettleKept /\ ~SettleChanged /\ ~Adopt
          /\ ~BeginSweep /\ ~GatherState
      <4>1. ~TakeSnapshot /\ ~Restart /\ ~BeginSweep /\ ~GatherState
        BY <1>3 DEF TakeSnapshot, Restart, BeginSweep, GatherState, PastSnapshot
      <4>2. ~SettleKept /\ ~SettleChanged /\ ~Adopt
        BY <1>3 DEF SettleKept, SettleChanged, Adopt, PastSnapshot
      <4>3. QED
        BY <4>1, <4>2
    <3>2. ASSUME NEW b \in Bot PROVE ~HandleMissing(b) /\ ~HandleRunning(b)
      BY <1>3 DEF HandleMissing, HandleRunning, PastSnapshot
    <3>3. ASSUME NEW c \in Container PROVE ~StopBot(c)
      BY <1>3 DEF StopBot, PastSnapshot
    <3>4. QED
      BY <3>1, <3>2, <3>3 DEF Reconciling
  <2>8. QED
    BY <2>1, <2>2, <2>3, <2>4, <2>5, <2>6, <2>7 DEF Next
<1>4. CASE PastSnapshot'
  <2>1. InCycle /\ ListedKept
    BY <1>4, CycleKeepsListed
  <2>2. CASE Outside
    BY <1>2, <2>2, TrueOfOutside
  <2>3. CASE TakeSnapshot
    BY <1>2, <2>3, TrueOfSnapshot
  <2>4. CASE GatherState
    BY <1>2, <2>4, TrueOfCommitted
  <2>5. ASSUME NEW b \in Bot, HandleMissing(b) PROVE TrueOf(x)'
    <3>1. /\ rc.pc = "bots" /\ rc'.pc = "bots" /\ UNCHANGED <<container, tracked>>
          /\ rc.want[b] \in Config /\ Instances(b) = {}
      BY <2>5 DEF HandleMissing, stateVars, engineVars, Shape
    <3>2. Launched(b)
      BY <2>5, <3>1, SpawnTyped DEF HandleMissing, Launched
    <3>3. LaunchesOf(x) \subseteq LaunchesOf(x)' /\ (x # b => LaunchesOf(x)' = LaunchesOf(x))
      BY <3>2 DEF Launched, LaunchesOf, Pending, Idle, LaunchState
    <3>4. RunningFor(x)' = RunningFor(x) /\ PastSnapshot
      BY <3>1 DEF RunningFor, Running, PastSnapshot
    <3>5. QED
      BY <1>2, <1>4, <2>1, <3>1, <3>3, <3>4, TrueOfLoopStep
  <2>6. ASSUME BeginSweep \/ \E b \in Bot : HandleRunning(b) PROVE TrueOf(x)'
    <3>1. /\ rc.pc = "bots" /\ rc'.pc \in {"extras", "sweep"}
          /\ UNCHANGED <<container, launch, tracked>>
      BY <2>6 DEF HandleRunning, BeginSweep, stateVars, engineVars
    <3>2. RunningFor(x)' = RunningFor(x) /\ PastSnapshot /\ LaunchesOf(x)' = LaunchesOf(x)
      BY <3>1 DEF RunningFor, Running, PastSnapshot, LaunchesOf, Pending
    <3>3. QED
      BY <1>2, <1>4, <2>1, <3>1, <3>2, TrueOfLoopStep
  <2>7. ASSUME NEW c \in Container, StopBot(c) PROVE TrueOf(x)'
    <3>1. /\ rc.pc \in {"extras", "restart", "sweep"} /\ rc'.pc = rc.pc /\ rc'.cur = rc.cur
          /\ rc'.keep = rc.keep /\ rc'.stops = rc.stops \ {c} /\ UNCHANGED launch
          /\ tracked' = [tracked EXCEPT ![container[c].bot] = Untracked]
          /\ UNCHANGED container \/ container' = [container EXCEPT ![c].status = "exited"]
      BY <2>7 DEF StopBot
    <3>2. RunningFor(x)' \subseteq RunningFor(x)
      BY <3>1, StoppingShrinks
    <3>3. \A d \in Container : container'[d].cfg = container[d].cfg
      BY <3>1 DEF ContainerState
    <3>4. /\ LaunchesOf(x)' = LaunchesOf(x) /\ RunningFor(x) \subseteq Container /\ PastSnapshot
          /\ rc.stops \subseteq Container
      BY <3>1 DEF LaunchesOf, Pending, RunningFor, Running, PastSnapshot
    <3>5. tracked'[x] \in {tracked[x], Untracked}
      BY <3>1
    <3>6. rc'.pc = "restart" /\ rc'.cur = x =>
            /\ rc'.keep \in rc'.stops \/ tracked'[x] = Untracked
            /\ \A d \in rc'.stops : container'[d].cfg # rc.want[x]
      <4>1. SUFFICES ASSUME rc.pc = "restart", rc.cur = x
                     PROVE  /\ rc.keep \in rc.stops \ {c} \/ tracked'[x] = Untracked
                            /\ \A d \in rc.stops : container[d].cfg # rc.want[x]
        BY <3>1, <3>3, <3>4
      <4>2. container[rc.keep].bot = x
        BY <4>1 DEF AtWork, Handling
      <4>3. c = rc.keep => tracked'[x] = Untracked
        BY <3>1, <4>2
      <4>4. QED
        BY <1>2, <3>5, <4>1, <4>3 DEF TrueOf
    <3>7. QED
      BY <1>2, <1>4, <2>1, <3>1, <3>2, <3>3, <3>4, <3>5, <3>6, TrueOfLoopStep
  <2>8. CASE Adopt
    <3>1. /\ rc.pc = "extras" /\ rc'.pc = "adopted" /\ rc'.cur = rc.cur /\ rc.cur \in Bot
          /\ UNCHANGED <<container, launch>> /\ rc.snap[rc.cur] = NoConfig
          /\ tracked' = [tracked EXCEPT ![rc.cur] = [id |-> rc.keep, cfg |-> rc.want[rc.cur]]]
          /\ rc.keep \in Container /\ rc.want[rc.cur] \in Want
      BY <2>8 DEF Adopt, ExtrasStopped, engineVars, Shape
    <3>2. RunningFor(x)' = RunningFor(x) /\ PastSnapshot /\ LaunchesOf(x)' = LaunchesOf(x)
      BY <3>1 DEF RunningFor, Running, PastSnapshot, LaunchesOf, Pending
    <3>3. x = rc.cur => LaunchesOf(x) = {}
      BY <1>2, <3>1 DEF OneStartFor, Undecided
    <3>4. x = rc.cur => tracked'[x].cfg = rc.want[x] /\ tracked'[x] # Untracked
      <4>1. [id |-> rc.keep, cfg |-> rc.want[rc.cur]] \in [id : Container, cfg : Config]
        BY <2>8, <3>1 DEF Shape
      <4>2. QED
        BY <3>1, <4>1, ConstantsOK
    <3>5. x # rc.cur => tracked'[x] = tracked[x]
      BY <3>1
    <3>6. QED
      BY <1>2, <1>4, <2>1, <3>1, <3>2, <3>3, <3>4, <3>5, TrueOfLoopStep
  <2>9. CASE SettleKept
    <3>1. /\ rc.pc \in {"extras", "adopted"} /\ rc'.pc = "bots" /\ rc.cur \in Bot
          /\ UNCHANGED <<container, launch>>
          /\ tracked' = [tracked EXCEPT ![rc.cur] = [id |-> rc.keep, cfg |-> rc.want[rc.cur]]]
          /\ rc.pc = "extras" => rc.snap[rc.cur] # NoConfig /\ rc.want[rc.cur] = rc.snap[rc.cur]
      BY <2>9 DEF SettleKept, ReadyToCompare, ExtrasStopped, ConfigChanged, engineVars, Shape
    <3>2. RunningFor(x)' = RunningFor(x) /\ PastSnapshot /\ LaunchesOf(x)' = LaunchesOf(x)
      BY <3>1 DEF RunningFor, Running, PastSnapshot, LaunchesOf, Pending
    <3>3. x = rc.cur => LaunchesOf(x) = {} /\ RunningFor(x) \subseteq Instances(x)
      BY <1>2, <3>1 DEF OneStartFor, OneLiveFor, Undecided, Live, RunningFor, Running, Instances
    <3>4. x = rc.cur => tracked'[x].cfg = rc.want[x]
      BY <3>1
    <3>5. x # rc.cur => tracked'[x] = tracked[x]
      BY <3>1
    <3>6. x = rc.cur /\ rc.snap[x] # NoConfig => Runs(x, rc.want[x])
      BY <1>2, <3>1, <3>2, <3>3 DEF AtWork, TrueOf, Runs
    <3>7. QED
      BY <1>2, <1>4, <2>1, <3>1, <3>2, <3>3, <3>4, <3>5, <3>6, TrueOfLoopStep
  <2>10. CASE SettleChanged
    <3>1. /\ rc.pc \in {"extras", "adopted"} /\ rc'.pc = "restart" /\ rc'.cur = rc.cur
          /\ rc'.keep = rc.keep /\ rc'.stops = {rc.keep} /\ rc.keep \in rc.seen
          /\ UNCHANGED <<container, launch, tracked>>
          /\ rc.pc = "extras" => rc.snap[rc.cur] # NoConfig /\ rc.want[rc.cur] # rc.snap[rc.cur]
          /\ rc.pc = "adopted" => rc.want[rc.cur] # tracked[rc.cur].cfg
      BY <2>10 DEF SettleChanged, ReadyToCompare, ExtrasStopped, ConfigChanged, engineVars,
         stateVars, Shape
    <3>2. RunningFor(x)' = RunningFor(x) /\ PastSnapshot /\ LaunchesOf(x)' = LaunchesOf(x)
      BY <3>1 DEF RunningFor, Running, PastSnapshot, LaunchesOf, Pending
    <3>3. x = rc.cur => container[rc.keep].cfg # rc.want[x]
      <4>1. rc.keep \in Instances(rc.cur)
        BY <3>1 DEF AtWork, Handling, Instances
      <4>2. QED
        BY <1>2, <3>1, <3>2, <4>1 DEF TrueOf
    <3>4. QED
      BY <1>2, <1>4, <2>1, <3>1, <3>2, <3>3, TrueOfLoopStep
  <2>11. CASE Restart
    <3>1. /\ rc.pc = "restart" /\ rc.stops = {} /\ rc'.pc = "bots" /\ rc.cur \in Bot
          /\ rc.want[rc.cur] \in Config /\ UNCHANGED <<container, tracked>>
      BY <2>11 DEF Restart, Shape, engineVars, stateVars
    <3>2. Launched(rc.cur)
      BY <2>11, <3>1, SpawnTyped DEF Restart
    <3>3. /\ LaunchesOf(x) \subseteq LaunchesOf(x)'
          /\ x # rc.cur => LaunchesOf(x)' = LaunchesOf(x)
      BY <3>2 DEF Launched, LaunchesOf, Pending, Idle, LaunchState
    <3>4. RunningFor(x)' = RunningFor(x) /\ PastSnapshot
      BY <3>1 DEF RunningFor, Running, PastSnapshot
    <3>5. x = rc.cur => tracked[x] = Untracked
      BY <1>2, <3>1 DEF TrueOf
    <3>6. QED
      BY <1>2, <1>4, <2>1, <3>1, <3>3, <3>4, <3>5, TrueOfLoopStep
  <2>12. QED
    BY <1>4, <2>2, <2>3, <2>4, <2>5, <2>6, <2>7, <2>8, <2>9, <2>10, <2>11, StepsOfACycle
<1>5. QED
  BY <1>3, <1>4

\* A running bot is stopped for a changed configuration only if its container really runs
\* another one, however long ago the service last looked at it.
THEOREM RestartsAreDue == Spec => []RestartsOnlyOutdated
<1> DEFINE Inv == TypeInv /\ OneLive /\ StartedAsAsked /\ AtWork /\ OneStart /\ BeliefsTrue
<1>1. Init => Inv
  <2>1. Init => OneLive /\ OneStart /\ BeliefsTrue
    BY DEF Init, OneLive, OneLiveFor, Undecided, Live, Gone, Idle, AtRest, OneStart, OneStartFor,
       LaunchesOf, Pending, BeliefsTrue, TrueOf, PastSnapshot
  <2>2. Init => StartedAsAsked /\ AtWork
    BY DEF Init, StartedAsAsked, AtWork, Handling, AtRest, Idle
  <2>3. QED
    BY <2>1, <2>2, TypeInvInit
<1>2. Inv /\ [Next]_vars => Inv'
  BY TypeInvStep, OneLiveStep, StartedAsAskedStep, AtWorkStep, OneStartStep, BeliefsTrueStep
<1>3. Inv => RestartsOnlyOutdated
  <2> SUFFICES ASSUME Inv, rc.pc = "restart", NEW c \in rc.stops,
                      container[c].bot \notin excused
               PROVE  container[c].cfg # rc.want[container[c].bot]
    BY DEF RestartsOnlyOutdated
  <2>1. container[c].bot = rc.cur /\ rc.cur \in Bot
    BY DEF AtWork, Handling, TypeInv, Shape
  <2>2. QED
    BY <2>1 DEF BeliefsTrue, TrueOf
<1>4. QED
  BY <1>1, <1>2, <1>3, PTL DEF Spec
=============================================================================
