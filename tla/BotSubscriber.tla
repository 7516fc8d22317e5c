---------------------------- MODULE BotSubscriber ----------------------------
(***************************************************************************)
(* How a bot's record travels from the API to the runtime.                 *)
(*                                                                         *)
(* BotService of the API (api/src/bot/bot.service.ts) writes its own       *)
(* database and then publishes an event.  The runtime's NATSSubscriber     *)
(* (runtime/internal/docker/bot-runner/subscriber/subscriber.go) has one   *)
(* subscription, and so one goroutine, per subject: events of one subject  *)
(* are handled in order, events of different subjects are not.  A handler  *)
(* makes several MongoDB calls and the others run between any two of them. *)
(* The subscriptions are core NATS ones: what is published while nobody    *)
(* listens is not delivered later.                                         *)
(*                                                                         *)
(* MongoDB holds the bot documents the reconciler reads, each assigned to  *)
(* a partition, and the partitions with their number of bots.  The bot     *)
(* scheduler's subscriber has the same handlers for its own collection.    *)
(***************************************************************************)
EXTENDS Integers, FiniteSets, Sequences

CONSTANTS
  Bot,            \* bot ids
  Version,        \* a bot's config and custom bot version
  Call,           \* requests the API serves at once
  NoBot,
  NoVersion,      \* not created yet
  Deleted,        \* removed from the API's database
  NoDoc,          \* no document in MongoDB
  Cap,            \* maxBotsPerPartition
  MaxPartition,   \* bound: partitions ever numbered
  MaxCalls,       \* bound: requests ever served
  MaxFaults       \* bound: failed calls, restarts of the runtime

Partition == 1..MaxPartition
Doc       == [ver : Version, seg : Partition]

ASSUME ConstantsOK ==
  /\ NoBot \notin Bot
  /\ NoVersion \notin Version /\ Deleted \notin Version /\ NoVersion # Deleted
  /\ NoDoc \notin [ver : Version, seg : Partition]
  /\ Cap \in Nat \ {0}
  /\ MaxPartition \in Nat
  /\ MaxCalls \in Nat
  /\ MaxFaults \in Nat

VARIABLES
  api,            \* the API's database: each bot's version
  call,           \* the API's requests in progress
  calls,          \* how much of MaxCalls is used up
  up,             \* whether the runtime's subscriber is connected
  queue,          \* messages delivered to a subscription and not handled yet
  handler,        \* the goroutine of each subscription
  doc,            \* MongoDB: the bots
  made,           \* MongoDB: the partitions that exist
  count,          \* MongoDB: their bot_count
  seq,            \* MongoDB: the partition_id counter
  disturbed,      \* history: bots with a lost event, a failed step or overlapping requests
  faults          \* how much of MaxFaults is used up

apiVars   == <<api, call, calls>>
mongoVars == <<doc, made, count, seq>>
vars == <<api, call, calls, up, queue, handler, doc, made, count, seq, disturbed, faults>>

-----------------------------------------------------------------------------
Subject == {"created", "updated", "deleted"}
Message == [bot : Bot, ver : Version \cup {NoVersion}]

NoCall   == [op |-> "none", bot |-> NoBot, ver |-> NoVersion, pc |-> "none"]
Waiting  == [bot |-> NoBot, ver |-> NoVersion, seg |-> 0, pc |-> "receive"]

CallState ==
  [op  : Subject \cup {"none"},
   bot : Bot \cup {NoBot},
   ver : Version \cup {NoVersion},
   pc  : {"none", "store", "reread", "publish"}]

HandlerState ==
  [bot : Bot \cup {NoBot},
   ver : Version \cup {NoVersion},
   seg : 0..MaxPartition,
   pc  : {"receive", "look", "claim", "number", "insert", "upsert", "set", "drop", "decrement"}]

\* Every variable has its type; a partition's count never goes below zero.
TypeOK ==
  /\ api \in [Bot -> Version \cup {NoVersion, Deleted}]
  /\ call \in [Call -> CallState]
  /\ calls \in 0..MaxCalls
  /\ up \in BOOLEAN
  /\ queue \in [Subject -> Seq(Message)]
  /\ handler \in [Subject -> HandlerState]
  /\ doc \in [Bot -> Doc \cup {NoDoc}]
  /\ made \subseteq Partition
  /\ count \in [Partition -> Nat]
  /\ seq \in 0..MaxPartition
  /\ disturbed \subseteq Bot
  /\ faults \in 0..MaxFaults

Stored(b) == doc[b] # NoDoc

Queued(b)    == \E u \in Subject : \E i \in 1..Len(queue[u]) : queue[u][i].bot = b
Handling(b)  == \E u \in Subject : handler[u].bot = b
InFlight(b)  == Queued(b) \/ Handling(b) \/ \E k \in Call : call[k].bot = b

Fault == faults < MaxFaults /\ faults' = faults + 1

-----------------------------------------------------------------------------
Init ==
  /\ api = [b \in Bot |-> NoVersion]
  /\ call = [k \in Call |-> NoCall]
  /\ calls = 0
  /\ up = TRUE
  /\ queue = [u \in Subject |-> <<>>]
  /\ handler = [u \in Subject |-> Waiting]
  /\ doc = [b \in Bot |-> NoDoc]
  /\ made = {}
  /\ count = [p \in Partition |-> 0]
  /\ seq = 0
  /\ disturbed = {}
  /\ faults = 0

-----------------------------------------------------------------------------
(* The API.  A request is its database calls, then the event. *)

Begin(k, op, b, v, pc) ==
  /\ call[k] = NoCall
  /\ calls < MaxCalls
  /\ calls' = calls + 1
  /\ call' = [call EXCEPT ![k] = [op |-> op, bot |-> b, ver |-> v, pc |-> pc]]
  /\ disturbed' = IF InFlight(b) THEN disturbed \cup {b} ELSE disturbed

\* create inserts the row first: the id is new.
create(k, b, v) ==
  /\ api[b] = NoVersion
  /\ Begin(k, "created", b, v, "publish")
  /\ api' = [api EXCEPT ![b] = v]
  /\ UNCHANGED <<up, queue, handler, mongoVars, faults>>

\* update and remove start by finding the bot.
update(k, b, v) ==
  /\ api[b] \in Version
  /\ Begin(k, "updated", b, v, "store")
  /\ UNCHANGED <<api, up, queue, handler, mongoVars, faults>>

remove(k, b) ==
  /\ api[b] \in Version
  /\ Begin(k, "deleted", b, NoVersion, "store")
  /\ UNCHANGED <<api, up, queue, handler, mongoVars, faults>>

\* The UPDATE or DELETE by id; neither complains of a row that is gone.
Store(k) ==
  LET c == call[k] IN
  /\ c.pc = "store"
  /\ api' = [api EXCEPT ![c.bot] = CASE c.op = "deleted" -> Deleted
                                     [] c.op = "updated" /\ @ \in Version -> c.ver
                                     [] OTHER -> @]
  /\ call' = [call EXCEPT ![k].pc = IF c.op = "updated" THEN "reread" ELSE "publish"]
  /\ UNCHANGED <<calls, up, queue, handler, mongoVars, disturbed, faults>>

\* update looks the bot up again and publishes only if it is still there.  The
\* event carries the version of the request, not the one just read.
Reread(k) ==
  LET c == call[k] IN
  /\ c.pc = "reread"
  /\ call' = [call EXCEPT ![k] = IF api[c.bot] \in Version THEN [@ EXCEPT !.pc = "publish"]
                                 ELSE NoCall]
  /\ UNCHANGED <<api, calls, up, queue, handler, mongoVars, disturbed, faults>>

Publish(k) ==
  LET c == call[k] IN
  /\ c.pc = "publish" /\ up
  /\ queue' = [queue EXCEPT ![c.op] = Append(@, [bot |-> c.bot, ver |-> c.ver])]
  /\ call' = [call EXCEPT ![k] = NoCall]
  /\ UNCHANGED <<api, calls, up, handler, mongoVars, disturbed, faults>>

\* Stored in the stream, where nobody reads it.
PublishUnheard(k) ==
  LET c == call[k] IN
  /\ c.pc = "publish" /\ ~up
  /\ call' = [call EXCEPT ![k] = NoCall]
  /\ disturbed' = disturbed \cup {c.bot}
  /\ UNCHANGED <<api, calls, up, queue, handler, mongoVars, faults>>

\* A failed publish, or a custom bot version that cannot be looked up for its
\* topic: logged, and the request succeeds.
PublishFails(k) ==
  LET c == call[k] IN
  /\ c.pc = "publish"
  /\ Fault
  /\ call' = [call EXCEPT ![k] = NoCall]
  /\ disturbed' = disturbed \cup {c.bot}
  /\ UNCHANGED <<api, calls, up, queue, handler, mongoVars>>

Request(k) == \/ Store(k)
              \/ Reread(k)
              \/ Publish(k)
              \/ PublishUnheard(k)
              \/ PublishFails(k)

-----------------------------------------------------------------------------
(* The handlers. *)

Receive(u) ==
  /\ handler[u].pc = "receive" /\ queue[u] # <<>>
  /\ LET m == Head(queue[u]) IN
     handler' = [handler EXCEPT ![u] = [bot |-> m.bot, ver |-> m.ver, seg |-> 0, pc |-> "look"]]
  /\ queue' = [queue EXCEPT ![u] = Tail(@)]
  /\ UNCHANGED <<apiVars, up, mongoVars, disturbed, faults>>

Goto(u, pc) == handler' = [handler EXCEPT ![u].pc = pc]
Finish(u)   == handler' = [handler EXCEPT ![u] = Waiting]

handleCreate ==
  LET h == handler["created"] IN
  /\ h.pc = "look"
  /\ IF Stored(h.bot) THEN Finish("created") ELSE Goto("created", "claim")
  /\ UNCHANGED <<apiVars, up, queue, mongoVars, disturbed, faults>>

\* Mutation: an update changes only a bot that was not there.
handleUpdate_KnownIgnored ==
  LET h == handler["updated"] IN
  /\ h.pc = "look"
  /\ IF Stored(h.bot) THEN Finish("updated") ELSE Goto("updated", "claim")
  /\ UNCHANGED <<apiVars, up, queue, mongoVars, disturbed, faults>>

\* An unknown bot is created: an update that overtakes the create is not lost.
handleUpdate ==
  LET h == handler["updated"] IN
  /\ h.pc = "look"
  /\ Goto("updated", IF Stored(h.bot) THEN "set" ELSE "claim")
  /\ UNCHANGED <<apiVars, up, queue, mongoVars, disturbed, faults>>

handleDelete ==
  LET h == handler["deleted"] IN
  /\ h.pc = "look"
  /\ handler' = [handler EXCEPT !["deleted"] =
                   IF Stored(h.bot) THEN [h EXCEPT !.pc = "drop", !.seg = doc[h.bot].seg]
                   ELSE Waiting]
  /\ UNCHANGED <<apiVars, up, queue, mongoVars, disturbed, faults>>

\* findOrCreatePartition, first step: one atomic find-and-increment.
Roomy == {p \in made : count[p] < Cap}

\* Mutation: the filter on bot_count is off by one.
ClaimPartition_OneMore(u) ==
  /\ handler[u].pc = "claim"
  /\ \E p \in made :
       /\ count[p] <= Cap
       /\ count' = [count EXCEPT ![p] = @ + 1]
       /\ handler' = [handler EXCEPT ![u].pc = "upsert", ![u].seg = p]
  /\ UNCHANGED <<apiVars, up, queue, doc, made, seq, disturbed, faults>>

ClaimPartition(u) ==
  /\ handler[u].pc = "claim"
  /\ \E p \in Roomy :
       /\ count' = [count EXCEPT ![p] = @ + 1]
       /\ handler' = [handler EXCEPT ![u].pc = "upsert", ![u].seg = p]
  /\ UNCHANGED <<apiVars, up, queue, doc, made, seq, disturbed, faults>>

NoRoom(u) ==
  /\ handler[u].pc = "claim" /\ Roomy = {}
  /\ Goto(u, "number")
  /\ UNCHANGED <<apiVars, up, queue, mongoVars, disturbed, faults>>

getNextSequenceValue(u) ==
  /\ handler[u].pc = "number"
  /\ seq < MaxPartition
  /\ seq' = seq + 1
  /\ handler' = [handler EXCEPT ![u].pc = "insert", ![u].seg = seq + 1]
  /\ UNCHANGED <<apiVars, up, queue, doc, made, count, disturbed, faults>>

InsertPartition(u) ==
  LET p == handler[u].seg IN
  /\ handler[u].pc = "insert"
  /\ made' = made \cup {p}
  /\ count' = [count EXCEPT ![p] = 1]
  /\ Goto(u, "upsert")
  /\ UNCHANGED <<apiVars, up, queue, doc, seq, disturbed, faults>>

\* upsertBot overwrites what another handler has written since the look.
upsertBot(u) ==
  LET h == handler[u] IN
  /\ h.pc = "upsert"
  /\ doc' = [doc EXCEPT ![h.bot] = [ver |-> h.ver, seg |-> h.seg]]
  /\ Finish(u)
  /\ UNCHANGED <<apiVars, up, queue, made, count, seq, disturbed, faults>>

\* UpdateOne without upsert: nothing happens to a document deleted since the look.
SetBot ==
  LET h == handler["updated"] IN
  /\ h.pc = "set"
  /\ doc' = [doc EXCEPT ![h.bot] = IF @ = NoDoc THEN NoDoc ELSE [@ EXCEPT !.ver = h.ver]]
  /\ Finish("updated")
  /\ UNCHANGED <<apiVars, up, queue, made, count, seq, disturbed, faults>>

\* Mutation: the count is lowered although the document is still there.
DeleteBot_CountFirst ==
  LET h == handler["deleted"] IN
  /\ h.pc = "drop"
  /\ count' = [count EXCEPT ![h.seg] = @ - 1]
  /\ Goto("deleted", "decrement")
  /\ UNCHANGED <<apiVars, up, queue, doc, made, seq, disturbed, faults>>

DeleteBot ==
  LET h == handler["deleted"] IN
  /\ h.pc = "drop"
  /\ doc' = [doc EXCEPT ![h.bot] = NoDoc]
  /\ Goto("deleted", "decrement")
  /\ UNCHANGED <<apiVars, up, queue, made, count, seq, disturbed, faults>>

DecrementPartition ==
  LET h == handler["deleted"] IN
  /\ h.pc = "decrement"
  /\ count' = [count EXCEPT ![h.seg] = @ - 1]
  /\ Finish("deleted")
  /\ UNCHANGED <<apiVars, up, queue, doc, made, seq, disturbed, faults>>

\* A MongoDB call fails: the error is logged and the message is gone.
HandlerFails(u) ==
  /\ handler[u].pc # "receive"
  /\ Fault
  /\ Finish(u)
  /\ disturbed' = disturbed \cup {handler[u].bot}
  /\ UNCHANGED <<apiVars, up, queue, mongoVars>>

Handlers ==
  \/ \E u \in Subject : \/ Receive(u)
                        \/ ClaimPartition(u)
                        \/ NoRoom(u)
                        \/ getNextSequenceValue(u)
                        \/ InsertPartition(u)
                        \/ upsertBot(u)
                        \/ HandlerFails(u)
  \/ handleCreate
  \/ handleUpdate
  \/ handleDelete
  \/ SetBot
  \/ DeleteBot
  \/ DecrementPartition

-----------------------------------------------------------------------------
(* The runtime process: Stop closes the connections under a running handler, *)
(* so a shutdown loses what a crash loses.                                   *)

Stop ==
  /\ up
  /\ Fault
  /\ up' = FALSE
  /\ queue' = [u \in Subject |-> <<>>]
  /\ handler' = [u \in Subject |-> Waiting]
  /\ disturbed' = disturbed \cup {b \in Bot : Queued(b) \/ Handling(b)}
  /\ UNCHANGED <<apiVars, mongoVars>>

Start ==
  /\ ~up
  /\ up' = TRUE
  /\ UNCHANGED <<apiVars, queue, handler, mongoVars, disturbed, faults>>

Requests ==
  \E k \in Call : \/ Request(k)
                  \/ \E b \in Bot : \/ remove(k, b)
                                    \/ \E v \in Version : create(k, b, v) \/ update(k, b, v)

Next == Requests \/ Handlers \/ Stop \/ Start

Spec == Init /\ [][Next]_vars

\* Requests and handlers run to their end, and the runtime is restarted.
Fairness == /\ \A k \in Call : WF_vars(Request(k))
            /\ WF_vars(Handlers)
            /\ WF_vars(Start)

FairSpec == Spec /\ Fairness

-----------------------------------------------------------------------------
(* Properties *)

BotsIn(p) == {b \in Bot : Stored(b) /\ doc[b].seg = p}

\* A partition never holds more bots than it is counted for, nor is it counted for
\* more than its capacity: races and failures leak places, they never free one twice.
CountsCoverBots == \A p \in Partition : Cardinality(BotsIn(p)) <= count[p] /\ count[p] <= Cap

Agree(b) == IF api[b] \in Version THEN Stored(b) /\ doc[b].ver = api[b] ELSE ~Stored(b)

\* Once nothing about a bot is under way, the runtime's document is what the API
\* stored last, unless an event was lost, a step failed or requests overlapped.
AgreesUnlessDisturbed == \A b \in Bot : InFlight(b) \/ b \in disturbed \/ Agree(b)

\* The version each bot has in the API's database, and in MongoDB.
Rows   == [b \in Bot |-> IF api[b] \in Version THEN api[b] ELSE NoVersion]
Copies == [b \in Bot |-> IF Stored(b) THEN doc[b].ver ELSE NoVersion]

Record == INSTANCE Follower WITH
  Item <- Bot, Value <- Version, Absent <- NoVersion,
  original <- Rows, copy <- Copies, loose <- disturbed

\* The same of every step: MongoDB takes over each change that the API makes to a bot
\* before the next one, and never goes back to a version it has had or to a bot that is
\* gone, in whatever order the subjects' events are handled, but for those bots.
ImplementsFollower == Record!Spec

\* The documentation has changes take effect at the next reconciliation when no
\* event is received: the reconciler's input then follows the API's database.
EventuallyAgrees == \A b \in Bot : <>[]Agree(b)
=============================================================================
