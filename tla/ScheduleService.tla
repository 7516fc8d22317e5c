--------------------------- MODULE ScheduleService ---------------------------
(***************************************************************************)
(* Docker mode's scheduled side: ScheduleService of                        *)
(* runtime/internal/docker/schedule_service.go.                            *)
(*                                                                         *)
(* One goroutine asks MongoDB on every tick which schedules are due and    *)
(* starts a goroutine for each one that is not executing already.  That    *)
(* goroutine runs a container to completion, writes the next execution     *)
(* time computed from the cron expression it was started with, and only    *)
(* then leaves the map of executing schedules.  Meanwhile the subscriber   *)
(* creates, changes and deletes schedules, time passes, containers exit or *)
(* hang, and the service crashes or shuts down.                            *)
(***************************************************************************)
EXTENDS Naturals, FiniteSets

CONSTANTS
  Schedule,       \* ids of schedules
  Cron,           \* cron expressions (valid ones: the subscriber refuses others)
  Run,            \* one execution goroutine and its container; bounds how many coexist
  NoSchedule,     \* a run nobody uses
  NoCron,
  NoDoc,          \* no document for the schedule
  MaxEdits,       \* bound: events the subscriber applies
  MaxFaults       \* bound: crashes, failed calls, outages and shutdowns

ASSUME ConstantsOK ==
  /\ NoSchedule \notin Schedule
  /\ NoCron \notin Cron
  /\ NoDoc \notin [cron : Cron, enabled : BOOLEAN, from : Cron, due : BOOLEAN]
  /\ MaxEdits \in Nat
  /\ MaxFaults \in Nat

VARIABLES
  doc,            \* MongoDB: the schedules
  edits,          \* how often the subscriber has changed doc
  raced,          \* history: schedules given another cron while a run held the old one
  svc,            \* the service process
  healthy,        \* DependencyChecker's cached verdict
  loop,           \* the schedule loop: its program counter and the due schedules it read
  executing,      \* ScheduleState.executing
  exec,           \* the execution goroutines
  container,      \* the Docker engine: the schedule each running container is for
  faults          \* how much of MaxFaults is used up

dbVars == <<doc, edits, raced>>
vars   == <<doc, edits, raced, svc, healthy, loop, executing, exec, container, faults>>

-----------------------------------------------------------------------------
(* A document holds the cron expression, the expression next_execution_time *)
(* was computed from, and whether that time has come.                       *)
Doc      == [cron : Cron, enabled : BOOLEAN, from : Cron, due : BOOLEAN]
\* What the loop hands to a goroutine: model.BotSchedule by value.
Captured == [sched : Schedule, cron : Cron]
Stages   == {"none", "start", "wait", "book", "release"}
NoRun    == [sched |-> NoSchedule, cron |-> NoCron, stage |-> "none"]
RunState == [sched : Schedule \cup {NoSchedule}, cron : Cron \cup {NoCron}, stage : Stages]

\* Every variable has its type.
TypeOK ==
  /\ doc \in [Schedule -> Doc \cup {NoDoc}]
  /\ edits \in 0..MaxEdits
  /\ raced \subseteq Schedule
  /\ svc \in {"down", "up", "draining", "waiting"}
  /\ healthy \in BOOLEAN
  /\ loop \in [pc : {"idle", "query", "start"}, todo : SUBSET Captured]
  /\ executing \subseteq Schedule
  /\ exec \in [Run -> RunState]
  /\ container \in [Run -> Schedule \cup {NoSchedule}]
  /\ faults \in 0..MaxFaults

Stored(s)  == doc[s] # NoDoc
Due(s)     == Stored(s) /\ doc[s].enabled /\ doc[s].due
RunsOf(s)  == {r \in Run : exec[r].sched = s}
Free       == {r \in Run : exec[r] = NoRun /\ container[r] = NoSchedule}

\* Somebody still holds a copy of s from which next_execution_time will be computed.
Held(s) == \/ \E r \in RunsOf(s) : exec[r].stage # "release"
           \/ \E e \in loop.todo : e.sched = s

Cancelled == svc \in {"draining", "waiting"}
Fault     == faults < MaxFaults /\ faults' = faults + 1
CallFails == \/ Cancelled /\ UNCHANGED faults
             \/ ~Cancelled /\ Fault

-----------------------------------------------------------------------------
Init ==
  /\ doc = [s \in Schedule |-> NoDoc]
  /\ edits = 0
  /\ raced = {}
  /\ svc = "down"
  /\ healthy = TRUE
  /\ loop = [pc |-> "idle", todo |-> {}]
  /\ executing = {}
  /\ exec = [r \in Run |-> NoRun]
  /\ container = [r \in Run |-> NoSchedule]
  /\ faults = 0

(* MongoDB, as the subscriber and the clock change it. *)

\* A new cron expression comes with a next execution time of its own.
Recalculated(c, on) == [cron |-> c, enabled |-> on, from |-> c, due |-> FALSE]

\* The subscriber lives and dies with the service.  Each of its handlers is one step
\* here; BotSubscriber takes the same handlers call by call.
Store(s, d) ==
  /\ svc # "down"
  /\ edits < MaxEdits
  /\ edits' = edits + 1
  /\ doc' = [doc EXCEPT ![s] = d]
  /\ raced' = IF d = NoDoc \/ (Stored(s) /\ d.cron = doc[s].cron) THEN raced
              ELSE IF Held(s) THEN raced \cup {s}
              ELSE raced \ {s}
  /\ UNCHANGED <<svc, healthy, loop, executing, exec, container, faults>>

\* A new document, for a created schedule or an update of one not found.
upsertBotSchedule(s, c, on) == ~Stored(s) /\ Store(s, Recalculated(c, on))

\* Mutation: the next execution time stays with a new expression.
handleUpdate_KeepsTime(s, c, on) ==
  /\ Stored(s)
  /\ Store(s, [doc[s] EXCEPT !.cron = c, !.enabled = on])

\* handleUpdate on an existing document: next_execution_time is left alone
\* unless the cron expression is another one.
handleUpdate(s, c, on) ==
  /\ Stored(s)
  /\ Store(s, IF c = doc[s].cron THEN [doc[s] EXCEPT !.enabled = on]
              ELSE Recalculated(c, on))

handleDelete(s) == Stored(s) /\ Store(s, NoDoc)

TimeComes(s) ==
  /\ Stored(s) /\ ~doc[s].due
  /\ doc' = [doc EXCEPT ![s].due = TRUE]
  /\ UNCHANGED <<edits, raced, svc, healthy, loop, executing, exec, container, faults>>

(* Containers are made with AutoRemove: an exited one is gone. *)
ContainerExits(r) ==
  /\ container[r] # NoSchedule
  /\ container' = [container EXCEPT ![r] = NoSchedule]
  /\ UNCHANGED <<dbVars, svc, healthy, loop, executing, exec, faults>>

\* The health loop's verdict changes; turning bad spends a fault.
CheckHealth ==
  /\ svc = "up"
  /\ healthy' = ~healthy
  /\ IF healthy THEN Fault ELSE UNCHANGED faults
  /\ UNCHANGED <<dbVars, svc, loop, executing, exec, container>>

-----------------------------------------------------------------------------
(* The schedule loop. *)

\* A tick that finds the context cancelled can only make a query that fails.
Tick ==
  /\ svc = "up" /\ healthy /\ loop.pc = "idle"
  /\ loop' = [loop EXCEPT !.pc = "query"]
  /\ UNCHANGED <<dbVars, svc, healthy, executing, exec, container, faults>>

\* getDueSchedules fails: the tick is over.
QueryFails ==
  /\ loop.pc = "query"
  /\ CallFails
  /\ loop' = [loop EXCEPT !.pc = "idle"]
  /\ UNCHANGED <<dbVars, svc, healthy, executing, exec, container>>

getDueSchedules ==
  /\ loop.pc = "query" /\ ~Cancelled
  /\ loop' = [pc   |-> "start",
              todo |-> {[sched |-> s, cron |-> doc[s].cron] : s \in {x \in Schedule : Due(x)}}]
  /\ UNCHANGED <<dbVars, svc, healthy, executing, exec, container, faults>>

Skip(e) ==
  /\ e.sched \in executing
  /\ loop' = [loop EXCEPT !.todo = @ \ {e}]
  /\ UNCHANGED <<dbVars, svc, healthy, executing, exec, container, faults>>

\* Mutation: the map of executing schedules is not consulted.
tryStartExecution_Unchecked(e, r) ==
  /\ r \in Free
  /\ executing' = executing \cup {e.sched}
  /\ exec' = [exec EXCEPT ![r] = [sched |-> e.sched, cron |-> e.cron, stage |-> "start"]]
  /\ loop' = [loop EXCEPT !.todo = @ \ {e}]
  /\ UNCHANGED <<dbVars, svc, healthy, container, faults>>

\* tryStartExecution succeeds and the goroutine is started.  The loop over the
\* due schedules does not look at the context, so a shutdown does not end it.
tryStartExecution(e, r) ==
  /\ e.sched \notin executing
  /\ r \in Free
  /\ executing' = executing \cup {e.sched}
  /\ exec' = [exec EXCEPT ![r] = [sched |-> e.sched, cron |-> e.cron, stage |-> "start"]]
  /\ loop' = [loop EXCEPT !.todo = @ \ {e}]
  /\ UNCHANGED <<dbVars, svc, healthy, container, faults>>

HandleDue == \E e \in loop.todo :
  /\ loop.pc = "start"
  /\ \/ Skip(e)
     \/ \E r \in Run : tryStartExecution(e, r)

CheckDone ==
  /\ loop.pc = "start" /\ loop.todo = {}
  /\ loop' = [loop EXCEPT !.pc = "idle"]
  /\ UNCHANGED <<dbVars, svc, healthy, executing, exec, container, faults>>

-----------------------------------------------------------------------------
(* executeSchedule: one goroutine per run. *)

MoveTo(r, stage) == exec' = [exec EXCEPT ![r].stage = stage]

\* No container: an unusable document, a failed pull, create or start.
StartFails(r) ==
  /\ exec[r].stage = "start"
  /\ CallFails
  /\ MoveTo(r, "book")
  /\ UNCHANGED <<dbVars, svc, healthy, loop, executing, container>>

RunContainer(r) ==
  /\ exec[r].stage = "start" /\ ~Cancelled
  /\ container' = [container EXCEPT ![r] = exec[r].sched]
  /\ MoveTo(r, "wait")
  /\ UNCHANGED <<dbVars, svc, healthy, loop, executing, faults>>

WaitReturns(r) ==
  /\ exec[r].stage = "wait" /\ container[r] = NoSchedule
  /\ MoveTo(r, "book")
  /\ UNCHANGED <<dbVars, svc, healthy, loop, executing, container, faults>>

\* The wait ends without the container: AutoRemove leaves that one to run on.
WaitAborts(r) ==
  /\ exec[r].stage = "wait" /\ container[r] # NoSchedule
  /\ CallFails
  /\ MoveTo(r, "book")
  /\ UNCHANGED <<dbVars, svc, healthy, loop, executing, container>>

\* The update sets next_execution_time alone, by id, and never inserts.
updateNextExecutionTime(r) ==
  LET s == exec[r].sched IN
  /\ exec[r].stage = "book" /\ ~Cancelled
  /\ doc' = IF Stored(s) THEN [doc EXCEPT ![s].from = exec[r].cron, ![s].due = FALSE] ELSE doc
  /\ MoveTo(r, "release")
  /\ UNCHANGED <<edits, raced, svc, healthy, loop, executing, container, faults>>

\* Mutation: a failed update returns before the map entry is deleted.
UpdateFails_KeepsEntry(r) ==
  /\ exec[r].stage = "book"
  /\ CallFails
  /\ exec' = [exec EXCEPT ![r] = NoRun]
  /\ UNCHANGED <<dbVars, svc, healthy, loop, executing, container>>

UpdateFails(r) ==
  /\ exec[r].stage = "book"
  /\ CallFails
  /\ MoveTo(r, "release")
  /\ UNCHANGED <<dbVars, svc, healthy, loop, executing, container>>

Release(r) ==
  /\ exec[r].stage = "release"
  /\ executing' = executing \ {exec[r].sched}
  /\ exec' = [exec EXCEPT ![r] = NoRun]
  /\ UNCHANGED <<dbVars, svc, healthy, loop, container, faults>>

executeSchedule(r) ==
  \/ StartFails(r)
  \/ RunContainer(r)
  \/ WaitReturns(r)
  \/ WaitAborts(r)
  \/ updateNextExecutionTime(r)
  \/ UpdateFails(r)
  \/ Release(r)

-----------------------------------------------------------------------------
(* The process. *)

ForgetMemory ==
  /\ svc' = "down"
  /\ loop' = [pc |-> "idle", todo |-> {}]
  /\ executing' = {}
  /\ exec' = [r \in Run |-> NoRun]
  /\ UNCHANGED <<dbVars, container>>

Boot ==
  /\ svc = "down"
  /\ svc' = "up"
  /\ healthy' \in BOOLEAN
  /\ UNCHANGED <<dbVars, loop, executing, exec, container, faults>>

\* shutdown cancels the context first: from here every call fails.
RequestShutdown ==
  /\ svc = "up"
  /\ Fault
  /\ svc' = "draining"
  /\ UNCHANGED <<dbVars, healthy, loop, executing, exec, container>>

\* wg.Wait returns once the schedule loop has seen the cancelled context.
LoopStopped ==
  /\ svc = "draining" /\ loop.pc = "idle"
  /\ svc' = "waiting"
  /\ UNCHANGED <<dbVars, healthy, loop, executing, exec, container, faults>>

\* waitForExecutions returns when every goroutine is done or the time is up.
Exit ==
  /\ svc = "waiting"
  /\ \/ (\A r \in Run : exec[r] = NoRun) /\ UNCHANGED faults
     \/ Fault
  /\ ForgetMemory
  /\ UNCHANGED healthy

ServiceCrash ==
  /\ svc # "down"
  /\ Fault
  /\ ForgetMemory
  /\ UNCHANGED healthy

-----------------------------------------------------------------------------
Events ==
  \/ \E s \in Schedule :
       \/ handleDelete(s)
       \/ TimeComes(s)
       \/ \E c \in Cron, on \in BOOLEAN : upsertBotSchedule(s, c, on) \/ handleUpdate(s, c, on)
  \/ \E r \in Run : ContainerExits(r)

ScheduleLoop == \/ Tick
                \/ QueryFails
                \/ getDueSchedules
                \/ HandleDue
                \/ CheckDone

Lifecycle == \/ CheckHealth
             \/ Boot
             \/ RequestShutdown
             \/ LoopStopped
             \/ Exit
             \/ ServiceCrash

Next == \/ Events
        \/ ScheduleLoop
        \/ \E r \in Run : executeSchedule(r)
        \/ Lifecycle

Spec == Init /\ [][Next]_vars

\* Goroutines run, the ticker ticks, a health probe that can succeed does, and
\* the supervisor restarts the service.  Nothing makes a container exit, a
\* schedule come due or a call fail.
Fairness ==
  /\ WF_vars(ScheduleLoop)
  /\ \A r \in Run : WF_vars(executeSchedule(r))
  /\ WF_vars(CheckHealth /\ ~healthy)
  /\ WF_vars(Boot \/ LoopStopped \/ Exit)

FairSpec == Spec /\ Fairness

-----------------------------------------------------------------------------
(* Properties *)

\* However ticks, slow runs and shutdowns interleave, a schedule has exactly one
\* execution goroutine while it is in the map of executing schedules and none
\* while it is not: the entry is neither leaked nor dropped early.
OneExecution ==
  \A s \in Schedule :
    Cardinality(RunsOf(s)) = IF s \in executing THEN 1 ELSE 0

\* next_execution_time belongs to the stored cron expression, unless the expression
\* was changed while the loop or a run held the old one: a run computes the time at its
\* end from what it was started with, many ticks, edits and stops of the service later,
\* and the loop skips and retries with what it read at the tick.
NextFollowsCron ==
  \A s \in Schedule : (Stored(s) /\ doc[s].from # doc[s].cron) => s \in raced

\* A schedule that is due gets its container, or stops being due, however the
\* service fails and restarts in between; a hung container is the only excuse.
DueRuns ==
  \A s \in Schedule :
    Due(s) ~> (~Due(s) \/ \E r \in RunsOf(s) : exec[r].stage = "wait")

\* tryStartExecution is said to prevent a race between the check and the start:
\* a schedule whose next time lies in the future is not started.
StartsOnlyDue ==
  [][\A s \in executing' \ executing : Stored(s) => doc[s].due]_vars
=============================================================================
