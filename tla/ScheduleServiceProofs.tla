------------------------ MODULE ScheduleServiceProofs ------------------------
(* Theorems about ScheduleService, for every value of its constants. *)
EXTENDS ScheduleService, FiniteSetTheorems, TLAPS

-----------------------------------------------------------------------------
(* Types.  A goroutine's record is either NoRun or fully filled in. *)

Shape ==
  \A r \in Run : \/ exec[r] = NoRun
                 \/ /\ exec[r].stage # "none"
                    /\ exec[r].sched \in Schedule
                    /\ exec[r].cron \in Cron

TypeInv == TypeOK /\ Shape

\* A spent fault stays within its bound: every action that calls Fault relies on it.
LEMMA FaultTyped ==
  ASSUME faults \in 0..MaxFaults, Fault \/ UNCHANGED faults
  PROVE  faults' \in 0..MaxFaults
  BY ConstantsOK DEF Fault

\* Init establishes the type invariant.
LEMMA TypeInvInit == Init => TypeInv
  BY ConstantsOK DEF Init, TypeInv, TypeOK, Shape, NoRun, RunState, Stages

\* Moving a goroutine to its next stage keeps its record complete.
LEMMA MoveTyped ==
  ASSUME TypeInv, NEW r \in Run, NEW st \in Stages \ {"none"},
         exec[r].stage # "none", MoveTo(r, st)
  PROVE  exec' \in [Run -> RunState] /\ Shape'
  BY DEF TypeInv, TypeOK, Shape, MoveTo, NoRun, RunState, Stages

\* Every step of the module keeps the type invariant.
LEMMA TypeInvStep == TypeInv /\ [Next]_vars => TypeInv'
<1> SUFFICES ASSUME TypeInv, [Next]_vars PROVE TypeInv'
  OBVIOUS
<1> USE ConstantsOK
<1>s. ASSUME NEW s \in Schedule, NEW d \in Doc \cup {NoDoc}, Store(s, d) PROVE TypeInv'
  BY <1>s DEF Store, TypeInv, TypeOK, Shape, dbVars
<1>1. CASE Events
  <2>1. ASSUME NEW s \in Schedule, handleDelete(s) PROVE TypeInv'
    BY <2>1, <1>s DEF handleDelete
  <2>2. ASSUME NEW s \in Schedule, TimeComes(s) PROVE TypeInv'
    BY <2>2 DEF TimeComes, Stored, TypeInv, TypeOK, Shape, Doc, dbVars
  <2>3. ASSUME NEW s \in Schedule, NEW c \in Cron, NEW on \in BOOLEAN,
               upsertBotSchedule(s, c, on)
        PROVE  TypeInv'
    BY <2>3, <1>s DEF upsertBotSchedule, Recalculated, Doc
  <2>4. ASSUME NEW s \in Schedule, NEW c \in Cron, NEW on \in BOOLEAN, handleUpdate(s, c, on)
        PROVE  TypeInv'
    <3>1. doc[s] \in Doc
      BY <2>4 DEF handleUpdate, Stored, TypeInv, TypeOK
    <3>2. [doc[s] EXCEPT !.enabled = on] \in Doc
      BY <3>1 DEF Doc
    <3>3. Recalculated(c, on) \in Doc
      BY DEF Recalculated, Doc
    <3> QED BY <2>4, <3>2, <3>3, <1>s DEF handleUpdate
  <2>5. ASSUME NEW r \in Run, ContainerExits(r) PROVE TypeInv'
    BY <2>5 DEF ContainerExits, TypeInv, TypeOK, Shape, dbVars
  <2> QED BY <1>1, <2>1, <2>2, <2>3, <2>4, <2>5 DEF Events
<1>2. CASE ScheduleLoop
  <2>1. CASE Tick
    BY <2>1 DEF Tick, TypeInv, TypeOK, Shape, dbVars
  <2>2. CASE QueryFails
    BY <2>2, FaultTyped DEF QueryFails, CallFails, TypeInv, TypeOK, Shape, dbVars
  <2>3. CASE getDueSchedules
    <3>1. loop'.todo \subseteq Captured
      BY <2>3 DEF getDueSchedules, Captured, Due, Stored, TypeInv, TypeOK, Doc
    <3>2. loop' \in [pc : {"idle", "query", "start"}, todo : SUBSET Captured]
      BY <2>3, <3>1 DEF getDueSchedules
    <3> QED BY <2>3, <3>2 DEF getDueSchedules, TypeInv, TypeOK, Shape, dbVars
  <2>4. ASSUME NEW e \in loop.todo, Skip(e) PROVE TypeInv'
    BY <2>4 DEF Skip, TypeInv, TypeOK, Shape, dbVars
  <2>5. ASSUME NEW e \in loop.todo, NEW r \in Run, tryStartExecution(e, r) PROVE TypeInv'
    <3>1. e \in Captured
      BY DEF TypeInv, TypeOK
    <3> DEFINE new == [sched |-> e.sched, cron |-> e.cron, stage |-> "start"]
    <3>2. new \in RunState /\ new.stage # "none" /\ new.sched \in Schedule /\ new.cron \in Cron
      BY <3>1 DEF Captured, RunState, Stages
    <3>3. exec' = [exec EXCEPT ![r] = new]
      BY <2>5 DEF tryStartExecution
    <3>4. exec' \in [Run -> RunState] /\ Shape'
      BY <3>2, <3>3 DEF TypeInv, TypeOK, Shape, NoRun
    <3> QED BY <2>5, <3>1, <3>4 DEF tryStartExecution, TypeInv, TypeOK, dbVars, Captured
  <2>6. CASE CheckDone
    BY <2>6 DEF CheckDone, TypeInv, TypeOK, Shape, dbVars
  <2> QED BY <1>2, <2>1, <2>2, <2>3, <2>4, <2>5, <2>6 DEF ScheduleLoop, HandleDue
<1>3. ASSUME NEW r \in Run, executeSchedule(r) PROVE TypeInv'
  <2>1. CASE StartFails(r)
    BY <2>1, MoveTyped, FaultTyped DEF StartFails, CallFails, Stages, TypeInv, TypeOK, dbVars
  <2>2. CASE RunContainer(r)
    <3>1. exec[r].sched \in Schedule
      BY <2>2 DEF RunContainer, TypeInv, Shape, NoRun
    <3> QED BY <2>2, <3>1, MoveTyped DEF RunContainer, Stages, TypeInv, TypeOK, dbVars
  <2>3. CASE WaitReturns(r)
    BY <2>3, MoveTyped DEF WaitReturns, Stages, TypeInv, TypeOK, dbVars
  <2>4. CASE WaitAborts(r)
    BY <2>4, MoveTyped, FaultTyped DEF WaitAborts, CallFails, Stages, TypeInv, TypeOK, dbVars
  <2>5. CASE updateNextExecutionTime(r)
    <3>1. exec[r].sched \in Schedule /\ exec[r].cron \in Cron
      BY <2>5 DEF updateNextExecutionTime, TypeInv, Shape, NoRun
    <3>2. doc' \in [Schedule -> Doc \cup {NoDoc}]
      BY <2>5, <3>1 DEF updateNextExecutionTime, Stored, TypeInv, TypeOK, Doc
    <3> QED BY <2>5, <3>2, MoveTyped DEF updateNextExecutionTime, Stages, TypeInv, TypeOK, dbVars
  <2>6. CASE UpdateFails(r)
    BY <2>6, MoveTyped, FaultTyped DEF UpdateFails, CallFails, Stages, TypeInv, TypeOK, dbVars
  <2>7. CASE Release(r)
    BY <2>7 DEF Release, TypeInv, TypeOK, Shape, NoRun, RunState, Stages, dbVars
  <2> QED BY <1>3, <2>1, <2>2, <2>3, <2>4, <2>5, <2>6, <2>7 DEF executeSchedule
<1>4. CASE Lifecycle
  <2>f. ASSUME ForgetMemory PROVE /\ svc' = "down" /\ loop' = [pc |-> "idle", todo |-> {}]
                                  /\ executing' = {} /\ UNCHANGED <<dbVars, container>>
                                  /\ exec' \in [Run -> RunState] /\ Shape'
    BY <2>f DEF ForgetMemory, Shape, NoRun, RunState, Stages
  <2>1. CASE CheckHealth
    BY <2>1, FaultTyped DEF CheckHealth, TypeInv, TypeOK, Shape, dbVars
  <2>2. CASE Boot
    BY <2>2 DEF Boot, TypeInv, TypeOK, Shape, dbVars
  <2>3. CASE RequestShutdown
    BY <2>3, FaultTyped DEF RequestShutdown, TypeInv, TypeOK, Shape, dbVars
  <2>4. CASE LoopStopped
    BY <2>4 DEF LoopStopped, TypeInv, TypeOK, Shape, dbVars
  <2>5. CASE Exit
    <3>1. Fault \/ UNCHANGED faults
      BY <2>5 DEF Exit
    <3> QED BY <2>5, <3>1, <2>f, FaultTyped DEF Exit, TypeInv, TypeOK, dbVars
  <2>6. CASE ServiceCrash
    BY <2>6, <2>f, FaultTyped DEF ServiceCrash, TypeInv, TypeOK, dbVars
  <2> QED BY <1>4, <2>1, <2>2, <2>3, <2>4, <2>5, <2>6 DEF Lifecycle
<1>5. CASE UNCHANGED vars
  BY <1>5 DEF vars, TypeInv, TypeOK, Shape
<1> QED BY <1>1, <1>2, <1>3, <1>4, <1>5 DEF Next

\* Type correctness of the schedule service, from Shape and TypeOK together.
THEOREM TypeCorrect == Spec => []TypeOK
<1>1. TypeInv => TypeOK
  BY DEF TypeInv
<1> QED BY <1>1, TypeInvInit, TypeInvStep, PTL DEF Spec

-----------------------------------------------------------------------------
(* Mutual exclusion.  Counting is replaced by what a count of one means: no   *)
(* two goroutines for a schedule, and an entry for exactly those that run.    *)

Exclusive ==
  /\ \A r, q \in Run : (exec[r].sched \in Schedule /\ exec[r].sched = exec[q].sched) => r = q
  /\ \A s \in Schedule : s \in executing <=> \E r \in Run : exec[r].sched = s

\* Exclusive is what OneExecution says with Cardinality.
LEMMA ExclusiveCounts == TypeInv /\ Exclusive => OneExecution
<1> SUFFICES ASSUME TypeInv, Exclusive, NEW s \in Schedule
             PROVE  Cardinality(RunsOf(s)) = IF s \in executing THEN 1 ELSE 0
  BY DEF OneExecution
<1>1. CASE s \in executing
  <2>1. PICK r \in Run : exec[r].sched = s
    BY <1>1 DEF Exclusive
  <2>2. RunsOf(s) = {r}
    BY <2>1 DEF RunsOf, Exclusive
  <2> QED BY <1>1, <2>2, FS_Singleton
<1>2. CASE s \notin executing
  <2>1. RunsOf(s) = {}
    BY <1>2 DEF RunsOf, Exclusive
  <2> QED BY <1>2, <2>1, FS_EmptySet
<1> QED BY <1>1, <1>2

\* A goroutine that moves on keeps its schedule, so exclusion is undisturbed.
LEMMA MoveExclusive ==
  ASSUME TypeInv, Exclusive, NEW r \in Run, NEW st, MoveTo(r, st), UNCHANGED executing
  PROVE  Exclusive'
  BY DEF TypeInv, TypeOK, RunState, MoveTo, Exclusive

\* Only the start and the end of a goroutine, and the end of the process, touch
\* the map and the goroutines.
LEMMA ExclusiveStep == TypeInv /\ Exclusive /\ [Next]_vars => Exclusive'
<1> SUFFICES ASSUME TypeInv, Exclusive, [Next]_vars PROVE Exclusive'
  OBVIOUS
<1> USE ConstantsOK
<1>u. ASSUME UNCHANGED <<executing, exec>> PROVE Exclusive'
  BY <1>u DEF Exclusive
<1>1. CASE Events
  BY <1>1, <1>u DEF Events, handleDelete, TimeComes, upsertBotSchedule, handleUpdate, Store,
                    ContainerExits, dbVars
<1>2. CASE ScheduleLoop
  <2>1. ASSUME NEW e \in loop.todo, NEW r \in Run, tryStartExecution(e, r) PROVE Exclusive'
    <3>1. e.sched \in Schedule /\ e.sched \notin executing
      BY <2>1 DEF tryStartExecution, TypeInv, TypeOK, Captured
    <3>2. \A q \in Run : exec[q].sched # e.sched
      BY <3>1 DEF Exclusive
    <3>3. exec[r].sched = NoSchedule
      BY <2>1 DEF tryStartExecution, Free, NoRun
    <3>4. \A q \in Run : exec'[q].sched = IF q = r THEN e.sched ELSE exec[q].sched
      BY <2>1 DEF tryStartExecution, TypeInv, TypeOK
    <3>5. executing' = executing \cup {e.sched}
      BY <2>1 DEF tryStartExecution
    <3>6. \A q, p \in Run : (exec'[q].sched \in Schedule /\ exec'[q].sched = exec'[p].sched) => q = p
      BY <3>2, <3>4 DEF Exclusive
    <3>7. ASSUME NEW s \in Schedule PROVE s \in executing' <=> \E q \in Run : exec'[q].sched = s
      BY <3>3, <3>4, <3>5 DEF Exclusive
    <3> QED BY <3>6, <3>7 DEF Exclusive
  <2> QED BY <1>2, <2>1, <1>u DEF ScheduleLoop, Tick, QueryFails, getDueSchedules, HandleDue,
                                  Skip, CheckDone
<1>3. ASSUME NEW r \in Run, executeSchedule(r) PROVE Exclusive'
  <2>1. CASE Release(r)
    <3> DEFINE s == exec[r].sched
    <3>1. s \in Schedule
      BY <2>1 DEF Release, TypeInv, Shape, NoRun
    <3>2. \A q \in Run : exec'[q].sched = IF q = r THEN NoSchedule ELSE exec[q].sched
      BY <2>1 DEF Release, TypeInv, TypeOK, NoRun
    <3>3. executing' = executing \ {s}
      BY <2>1 DEF Release
    <3>4. \A q, p \in Run : (exec'[q].sched \in Schedule /\ exec'[q].sched = exec'[p].sched) => q = p
      BY <3>2 DEF Exclusive
    <3>5. ASSUME NEW x \in Schedule PROVE x \in executing' <=> \E q \in Run : exec'[q].sched = x
      <4>1. CASE x = s
        BY <4>1, <3>1, <3>2, <3>3 DEF Exclusive
      <4>2. CASE x # s
        BY <4>2, <3>1, <3>2, <3>3 DEF Exclusive
      <4> QED BY <4>1, <4>2
    <3> QED BY <3>4, <3>5 DEF Exclusive
  <2> QED BY <1>3, <2>1, MoveExclusive
          DEF executeSchedule, StartFails, RunContainer, WaitReturns, WaitAborts,
              updateNextExecutionTime, UpdateFails
<1>4. CASE Lifecycle
  <2>1. ASSUME ForgetMemory PROVE Exclusive'
    BY <2>1 DEF ForgetMemory, Exclusive, NoRun
  <2> QED BY <1>4, <2>1, <1>u DEF Lifecycle, CheckHealth, Boot, RequestShutdown, LoopStopped,
                                  Exit, ServiceCrash
<1>5. CASE UNCHANGED vars
  BY <1>5, <1>u DEF vars
<1> QED BY <1>1, <1>2, <1>3, <1>4, <1>5 DEF Next

\* The map of executing schedules and the goroutines agree, for any number of
\* schedules and runs: no schedule is ever executed twice at once by one process.
THEOREM ExecutesOnce == Spec => []OneExecution
<1>1. Init => Exclusive
  BY ConstantsOK DEF Init, Exclusive, NoRun
<1> QED BY <1>1, TypeInvInit, TypeInvStep, ExclusiveStep, ExclusiveCounts, PTL DEF Spec

-----------------------------------------------------------------------------
(* Stale cron expressions.  A copy that differs from the stored expression    *)
(* can only have been taken before the expression was changed.                *)

CopiesFollow ==
  /\ NextFollowsCron
  /\ \A r \in Run, s \in Schedule :
       (/\ exec[r].sched = s /\ exec[r].stage # "release"
        /\ Stored(s) /\ exec[r].cron # doc[s].cron) => s \in raced
  /\ \A e \in loop.todo :
       (Stored(e.sched) /\ e.cron # doc[e.sched].cron) => e.sched \in raced

\* A write by the subscriber marks the schedule when a copy of it is held.
LEMMA StoreFollows ==
  ASSUME TypeInv, CopiesFollow, NEW s \in Schedule, NEW d \in Doc \cup {NoDoc}, Store(s, d),
         d # NoDoc => d.from = d.cron \/ (Stored(s) /\ d.cron = doc[s].cron /\ d.from = doc[s].from)
  PROVE  CopiesFollow'
<1>1. /\ doc' = [doc EXCEPT ![s] = d]
      /\ UNCHANGED <<loop, exec>>
      /\ raced' = IF d = NoDoc \/ (Stored(s) /\ d.cron = doc[s].cron) THEN raced
                  ELSE IF Held(s) THEN raced \cup {s} ELSE raced \ {s}
  BY DEF Store
<1>2. \A x \in Schedule : x # s => doc'[x] = doc[x] /\ (x \in raced' <=> x \in raced)
  BY <1>1 DEF TypeInv, TypeOK
<1>3. doc'[s] = d
  BY <1>1 DEF TypeInv, TypeOK
<1>4. CASE d = NoDoc
  BY <1>1, <1>2, <1>3, <1>4 DEF CopiesFollow, NextFollowsCron, Stored, TypeInv, TypeOK, Captured
<1>5. CASE d # NoDoc /\ Stored(s) /\ d.cron = doc[s].cron
  BY <1>1, <1>2, <1>3, <1>5 DEF CopiesFollow, NextFollowsCron, Stored, TypeInv, TypeOK, Captured
<1>6. CASE d # NoDoc /\ ~(Stored(s) /\ d.cron = doc[s].cron)
  <2>1. CASE Held(s)
    BY <1>1, <1>2, <1>3, <1>6, <2>1
       DEF CopiesFollow, NextFollowsCron, Stored, TypeInv, TypeOK, Captured
  <2>2. CASE ~Held(s)
    <3>1. \A r \in Run : exec[r].sched = s => exec[r].stage = "release"
      BY <2>2 DEF Held, RunsOf
    <3>2. \A e \in loop.todo : e.sched # s
      BY <2>2 DEF Held
    <3>3. d.from = d.cron
      BY <1>6
    <3> QED BY <1>1, <1>2, <1>3, <3>1, <3>2, <3>3
            DEF CopiesFollow, NextFollowsCron, Stored, TypeInv, TypeOK, Captured
  <2> QED BY <2>1, <2>2
<1> QED BY <1>4, <1>5, <1>6

\* A goroutine that moves on without writing to MongoDB holds the same copy.
LEMMA MoveFollows ==
  ASSUME TypeInv, CopiesFollow, NEW r \in Run, NEW st \in Stages \ {"none"},
         exec[r].stage \notin {"none", "release"}, MoveTo(r, st), UNCHANGED <<doc, raced, loop>>
  PROVE  CopiesFollow'
  BY DEF TypeInv, TypeOK, RunState, MoveTo, CopiesFollow, NextFollowsCron, Stored

\* Reading takes fresh copies, starting hands one over, booking writes one back.
LEMMA FollowStep == TypeInv /\ CopiesFollow /\ [Next]_vars => CopiesFollow'
<1> SUFFICES ASSUME TypeInv, CopiesFollow, [Next]_vars PROVE CopiesFollow'
  OBVIOUS
<1> USE ConstantsOK
<1>u. ASSUME UNCHANGED <<doc, raced, loop, exec>> PROVE CopiesFollow'
  BY <1>u DEF CopiesFollow, NextFollowsCron, Stored
<1>1. CASE Events
  <2>1. ASSUME NEW s \in Schedule, handleDelete(s) PROVE CopiesFollow'
    BY <2>1, StoreFollows DEF handleDelete
  <2>2. ASSUME NEW s \in Schedule, TimeComes(s) PROVE CopiesFollow'
    <3>1. \A x \in Schedule : /\ doc'[x] = NoDoc <=> doc[x] = NoDoc
                              /\ doc[x] # NoDoc => /\ doc'[x].cron = doc[x].cron
                                                   /\ doc'[x].from = doc[x].from
      BY <2>2 DEF TimeComes, Stored, TypeInv, TypeOK, Doc
    <3>2. UNCHANGED <<raced, loop, exec>>
      BY <2>2 DEF TimeComes
    <3> QED BY <3>1, <3>2 DEF CopiesFollow, NextFollowsCron, Stored, TypeInv, TypeOK, Captured
  <2>3. ASSUME NEW s \in Schedule, NEW c \in Cron, NEW on \in BOOLEAN,
               upsertBotSchedule(s, c, on)
        PROVE  CopiesFollow'
    <3>1. Recalculated(c, on) \in Doc /\ Recalculated(c, on).from = Recalculated(c, on).cron
      BY DEF Recalculated, Doc
    <3> QED BY <2>3, <3>1, StoreFollows DEF upsertBotSchedule
  <2>4. ASSUME NEW s \in Schedule, NEW c \in Cron, NEW on \in BOOLEAN, handleUpdate(s, c, on)
        PROVE  CopiesFollow'
    <3>1. doc[s] \in Doc /\ Stored(s)
      BY <2>4 DEF handleUpdate, Stored, TypeInv, TypeOK
    <3>2. CASE c = doc[s].cron
      <4> DEFINE d == [doc[s] EXCEPT !.enabled = on]
      <4>1. d \in Doc /\ d.cron = doc[s].cron /\ d.from = doc[s].from
        BY <3>1 DEF Doc
      <4>2. Store(s, d)
        BY <2>4, <3>2 DEF handleUpdate
      <4> HIDE DEF d
      <4> QED BY <3>1, <4>1, <4>2, StoreFollows
    <3>3. CASE c # doc[s].cron
      <4>1. Recalculated(c, on) \in Doc /\ Recalculated(c, on).from = Recalculated(c, on).cron
        BY DEF Recalculated, Doc
      <4>2. Store(s, Recalculated(c, on))
        BY <2>4, <3>3 DEF handleUpdate
      <4> QED BY <4>1, <4>2, StoreFollows
    <3> QED BY <3>2, <3>3
  <2>5. ASSUME NEW r \in Run, ContainerExits(r) PROVE CopiesFollow'
    BY <2>5, <1>u DEF ContainerExits, dbVars
  <2> QED BY <1>1, <2>1, <2>2, <2>3, <2>4, <2>5 DEF Events
<1>2. CASE ScheduleLoop
  <2>1. CASE Tick \/ QueryFails \/ CheckDone
    <3>1. UNCHANGED <<doc, raced, exec>> /\ loop'.todo = loop.todo
      BY <2>1 DEF Tick, QueryFails, CheckDone, dbVars, TypeInv, TypeOK
    <3> QED BY <3>1 DEF CopiesFollow, NextFollowsCron, Stored
  <2>2. CASE getDueSchedules
    <3>1. UNCHANGED <<doc, raced, exec>> /\ \A e \in loop'.todo : e.cron = doc[e.sched].cron
      BY <2>2 DEF getDueSchedules, dbVars
    <3> QED BY <3>1 DEF CopiesFollow, NextFollowsCron, Stored
  <2>3. ASSUME NEW e \in loop.todo, Skip(e) PROVE CopiesFollow'
    BY <2>3 DEF Skip, dbVars, TypeInv, TypeOK, CopiesFollow, NextFollowsCron, Stored
  <2>4. ASSUME NEW e \in loop.todo, NEW r \in Run, tryStartExecution(e, r) PROVE CopiesFollow'
    <3>1. \A q \in Run : exec'[q] = IF q = r THEN [sched |-> e.sched, cron |-> e.cron, stage |-> "start"]
                                    ELSE exec[q]
      BY <2>4 DEF tryStartExecution, TypeInv, TypeOK
    <3>2. UNCHANGED <<doc, raced>> /\ loop'.todo \subseteq loop.todo
      BY <2>4 DEF tryStartExecution, dbVars, TypeInv, TypeOK
    <3> QED BY <3>1, <3>2 DEF CopiesFollow, NextFollowsCron, Stored
  <2> QED BY <1>2, <2>1, <2>2, <2>3, <2>4 DEF ScheduleLoop, HandleDue
<1>3. ASSUME NEW r \in Run, executeSchedule(r) PROVE CopiesFollow'
  <2>1. CASE updateNextExecutionTime(r)
    <3> DEFINE s == exec[r].sched
    <3>1. s \in Schedule /\ exec[r].cron \in Cron
      BY <2>1 DEF updateNextExecutionTime, TypeInv, Shape, NoRun
    <3>2. \A x \in Schedule : /\ doc'[x] = NoDoc <=> doc[x] = NoDoc
                              /\ doc[x] # NoDoc => /\ doc'[x].cron = doc[x].cron
                                                   /\ x # s => doc'[x].from = doc[x].from
                                                   /\ x = s => doc'[x].from = exec[r].cron
      BY <2>1, <3>1 DEF updateNextExecutionTime, Stored, TypeInv, TypeOK, Doc
    <3>3. UNCHANGED <<raced, loop>> /\ MoveTo(r, "release") /\ exec[r].stage = "book"
      BY <2>1 DEF updateNextExecutionTime
    <3>4. \A q \in Run : /\ exec'[q].sched = exec[q].sched /\ exec'[q].cron = exec[q].cron
                         /\ exec'[q].stage = IF q = r THEN "release" ELSE exec[q].stage
      BY <3>3 DEF MoveTo, TypeInv, TypeOK, RunState
    <3>5. NextFollowsCron'
      BY <3>1, <3>2, <3>3 DEF CopiesFollow, NextFollowsCron, Stored
    <3> QED BY <3>2, <3>3, <3>4, <3>5 DEF CopiesFollow, Stored, TypeInv, TypeOK, Captured
  <2>2. CASE Release(r)
    <3>1. \A q \in Run : exec'[q] = IF q = r THEN NoRun ELSE exec[q]
      BY <2>2 DEF Release, TypeInv, TypeOK
    <3>2. UNCHANGED <<doc, raced, loop>>
      BY <2>2 DEF Release, dbVars
    <3> QED BY <3>1, <3>2 DEF NoRun, CopiesFollow, NextFollowsCron, Stored
  <2>3. CASE StartFails(r) \/ RunContainer(r) \/ WaitReturns(r) \/ WaitAborts(r) \/ UpdateFails(r)
    BY <2>3, MoveFollows
       DEF StartFails, RunContainer, WaitReturns, WaitAborts, UpdateFails, dbVars, Stages
  <2> QED BY <1>3, <2>1, <2>2, <2>3 DEF executeSchedule
<1>4. CASE Lifecycle
  <2>1. ASSUME ForgetMemory PROVE CopiesFollow'
    BY <2>1 DEF ForgetMemory, NoRun, dbVars, CopiesFollow, NextFollowsCron, Stored
  <2> QED BY <1>4, <2>1, <1>u DEF Lifecycle, CheckHealth, Boot, RequestShutdown, LoopStopped,
                                  Exit, ServiceCrash, dbVars
<1>5. CASE UNCHANGED vars
  BY <1>5, <1>u DEF vars, dbVars
<1> QED BY <1>1, <1>2, <1>3, <1>4, <1>5 DEF Next

\* next_execution_time is computed from a cron expression other than the stored one
\* only after the expression was changed while a run, or the loop, held the old one.
THEOREM StaleOnlyWhenRaced == Spec => []NextFollowsCron
<1>1. Init => CopiesFollow
  BY ConstantsOK DEF Init, CopiesFollow, NextFollowsCron, Stored, NoRun
<1>2. CopiesFollow => NextFollowsCron
  BY DEF CopiesFollow
<1> QED BY <1>1, <1>2, TypeInvInit, TypeInvStep, FollowStep, PTL DEF Spec
=============================================================================
