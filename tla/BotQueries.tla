------------------------------- MODULE BotQueries -------------------------------
(***************************************************************************)
(* A query to a bot: the API's relay (api/src/bot-query), the query server *)
(* of the runtime (runtime/internal/query, docker/query_*.go) and what     *)
(* answers it: the server of the SDK in a realtime bot's container, or a   *)
(* container of its own that leaves the result in MinIO.  Every bot here   *)
(* has a query entrypoint, and every query has parameters, named like it.  *)
(***************************************************************************)
EXTENDS Integers, FiniteSets

CONSTANTS
  Realtime, Scheduled,  \* the bots of each collection
  Query,                \* queries, each asked once
  NoOne                 \* no query, no bot

Queried == Realtime \cup Scheduled

ASSUME QueryConstants ==
  /\ Realtime \cap Scheduled = {} /\ Query \cap Queried = {}
  /\ NoOne \notin Query \cup Queried

VARIABLES
  botDocs,         \* bots with a document in the runtime's collections
  running,        \* bots with a container of their own that runs
  ephemeral,      \* the container of each query: not there, up, or how it exited
  resultObjects,  \* the bucket query-results
  scheduledIDs,   \* MultiBotResolver's map, which no lock protects
  query,          \* where each query is, its bot, and the container found for it
  reply,          \* what the API answered
  serverUp        \* the process of the query server

queryVars == <<botDocs, running, ephemeral, resultObjects, scheduledIDs, query, reply, serverUp>>

NoAnswer == [bot |-> NoOne, params |-> NoOne]
InRuntime == {"mark1", "resolved", "mark2", "located", "proxy", "spawn", "waiting"}

\* Every variable has its type.
QueriesTypeOK ==
  /\ botDocs \subseteq Queried /\ running \subseteq Queried /\ scheduledIDs \subseteq Queried
  /\ ephemeral \in [Query -> {"none", "up", "ok", "failed"}]
  /\ resultObjects \in [Query \cup Queried -> [bot : Queried \cup {NoOne}, params : Query \cup {NoOne}]]
  /\ query \in [Query -> [pc : {"idle", "asked", "done"} \cup InRuntime,
                          bot : Queried \cup {NoOne}, target : Query \cup Queried \cup {NoOne}]]
  /\ reply \in [Query -> [status : {"none", "ok", "error", "notFound", "unavailable", "timeout"},
                          data : [bot : Queried \cup {NoOne}, params : Query \cup {NoOne}]]]
  /\ serverUp \in BOOLEAN

QueriesInit ==
  /\ botDocs = Queried /\ running = {} /\ scheduledIDs = {}
  /\ ephemeral = [q \in Query |-> "none"]
  /\ resultObjects = [k \in Query \cup Queried |-> NoAnswer]
  /\ query = [q \in Query |-> [pc |-> "idle", bot |-> NoOne, target |-> NoOne]]
  /\ reply = [q \in Query |-> [status |-> "none", data |-> NoAnswer]]
  /\ serverUp = TRUE

QueryAt(q, pc) == query' = [query EXCEPT ![q].pc = pc] /\ UNCHANGED reply

ReplyQuery(q, status, data) ==
  /\ query' = [query EXCEPT ![q].pc = "done"]
  /\ reply' = [reply EXCEPT ![q] = [status |-> status, data |-> data]]

-----------------------------------------------------------------------------
(* The API *)

\* The caller may see the bot; a process that is down refuses the connection.
executeQuery(q, b) ==
  /\ query[q].pc = "idle"
  /\ IF serverUp
     THEN query' = [query EXCEPT ![q].pc = "asked", ![q].bot = b] /\ UNCHANGED reply
     ELSE /\ query' = [query EXCEPT ![q].pc = "done", ![q].bot = b]
          /\ reply' = [reply EXCEPT ![q].status = "unavailable"]
  /\ UNCHANGED <<botDocs, running, ephemeral, resultObjects, scheduledIDs, serverUp>>

\* The API aborts its request, and with it the context of the handler; the container
\* that a query runs in goes on.
QueryTimesOut(q) ==
  /\ query[q].pc \in {"asked"} \cup InRuntime
  /\ ReplyQuery(q, "timeout", NoAnswer)
  /\ UNCHANGED <<botDocs, running, ephemeral, resultObjects, scheduledIDs, serverUp>>

-----------------------------------------------------------------------------
(* The query server *)

\* GetBot finds the document, or says that the bot is not there when a read fails.
\* ResolveBot calls it, and so does ExecuteQuery.
FindBot(q) ==
  /\ query[q].pc \in {"asked", "resolved"}
  /\ \/ query[q].bot \in botDocs /\ QueryAt(q, IF query[q].pc = "asked" THEN "mark1" ELSE "mark2")
     \/ ReplyQuery(q, IF query[q].pc = "asked" THEN "notFound" ELSE "error", NoAnswer)
  /\ UNCHANGED <<botDocs, running, ephemeral, resultObjects, scheduledIDs, serverUp>>

\* ... and writes the map, for either kind.
MarkBot(q) ==
  /\ query[q].pc \in {"mark1", "mark2"}
  /\ scheduledIDs' = IF query[q].bot \in Realtime THEN scheduledIDs \ {query[q].bot}
                                                   ELSE scheduledIDs \cup {query[q].bot}
  /\ QueryAt(q, IF query[q].pc = "mark1" THEN "resolved" ELSE "located")
  /\ UNCHANGED <<botDocs, running, ephemeral, resultObjects, serverUp>>

\* The running containers with the bot's label: its own, and those of its queries.
Labelled(b) ==
  (running \cap {b}) \cup {p \in Query : ephemeral[p] = "up" /\ query[p].bot = b}

\* The container of a bot that is not known as scheduled; none when listing fails.
GetContainerID(q) ==
  /\ query[q].pc = "located"
  /\ \/ QueryAt(q, "spawn")
     \/ /\ query[q].bot \notin scheduledIDs
        /\ \E c \in Labelled(query[q].bot) :
             query' = [query EXCEPT ![q].pc = "proxy", ![q].target = c]
        /\ UNCHANGED reply
  /\ UNCHANGED <<botDocs, running, ephemeral, resultObjects, scheduledIDs, serverUp>>

\* The SDK's server in a realtime bot's container takes parameters from the URL, where
\* the runtime, which posts them as the body, puts none.
ServerAnswer(b) == [bot |-> b, params |-> NoOne]

\* The IP is looked up and the query posted; no server listens in other containers.
executeRealtimeQuery(q) ==
  /\ query[q].pc = "proxy"
  /\ \/ ReplyQuery(q, "error", NoAnswer)
     \/ /\ query[q].target \in running \cap Realtime
        /\ ReplyQuery(q, "ok", ServerAnswer(query[q].target))
  /\ UNCHANGED <<botDocs, running, ephemeral, resultObjects, scheduledIDs, serverUp>>

\* Mutation: without the random suffix.
newQueryResultKey_PerBot(q) == query[q].bot

\* A key no other query has.
newQueryResultKey(q) == q

\* A container is started with QUERY_PATH, the parameters and the key.
executeScheduledQuery(q) ==
  /\ query[q].pc = "spawn"
  /\ \/ ReplyQuery(q, "error", NoAnswer) /\ UNCHANGED ephemeral
     \/ QueryAt(q, "waiting") /\ ephemeral' = [ephemeral EXCEPT ![q] = "up"]
  /\ UNCHANGED <<botDocs, running, resultObjects, scheduledIDs, serverUp>>

\* The SDK in that container takes them from QUERY_PARAMS.
EphemeralAnswer(q) == [bot |-> query[q].bot, params |-> q]

\* In that container: the handler answers and the result is uploaded, or something fails
\* before the upload, or the handler fails, whose error is uploaded as well.
runEphemeralQuery(q) ==
  /\ ephemeral[q] = "up"
  /\ \/ /\ ephemeral' = [ephemeral EXCEPT ![q] = "ok"]
        /\ resultObjects' = [resultObjects EXCEPT ![newQueryResultKey(q)] =
                               EphemeralAnswer(q)]
     \/ ephemeral' = [ephemeral EXCEPT ![q] = "failed"] /\ UNCHANGED resultObjects
     \/ /\ ephemeral' = [ephemeral EXCEPT ![q] = "failed"]
        /\ resultObjects' = [resultObjects EXCEPT ![newQueryResultKey(q)] =
                               [bot |-> query[q].bot, params |-> NoOne]]
  /\ UNCHANGED <<botDocs, running, scheduledIDs, query, reply, serverUp>>

\* The container has exited: its result is downloaded and, if that works out, deleted.
DownloadResult(q) ==
  /\ query[q].pc = "waiting" /\ ephemeral[q] \in {"ok", "failed"}
  /\ LET object == resultObjects[newQueryResultKey(q)] IN
     \/ ReplyQuery(q, "error", NoAnswer) /\ UNCHANGED resultObjects
     \/ /\ ephemeral[q] = "ok" /\ object # NoAnswer
        /\ ReplyQuery(q, "ok", object)
        /\ \/ UNCHANGED resultObjects
           \/ resultObjects' = [resultObjects EXCEPT ![newQueryResultKey(q)] = NoAnswer]
  /\ UNCHANGED <<botDocs, running, ephemeral, scheduledIDs, serverUp>>

\* Two handlers at the map, one of them writing: the Go runtime may end the process.
\* Its connections break; the containers it started go on.
MapRace ==
  /\ \E p, q \in Query :
       /\ p # q
       /\ query[p].pc \in {"mark1", "mark2"} /\ query[q].pc \in {"mark1", "mark2", "located"}
  /\ serverUp' = FALSE /\ scheduledIDs' = {}
  /\ LET cut == {r \in Query : query[r].pc \in {"asked"} \cup InRuntime} IN
     /\ query' = [q \in Query |->
                    IF q \in cut THEN [query[q] EXCEPT !.pc = "done"] ELSE query[q]]
     /\ reply' = [q \in Query |->
                    IF q \in cut THEN [reply[q] EXCEPT !.status = "error"] ELSE reply[q]]
  /\ UNCHANGED <<botDocs, running, ephemeral, resultObjects>>

ServerRestarts ==
  /\ ~serverUp /\ serverUp' = TRUE
  /\ UNCHANGED <<botDocs, running, ephemeral, resultObjects, scheduledIDs, query, reply>>

-----------------------------------------------------------------------------
(* The rest of the runtime *)

\* A bot's own container, or that of a scheduled run, comes and goes.
ContainerComesOrGoes(b) ==
  /\ running' = IF b \in running THEN running \ {b} ELSE running \cup {b}
  /\ UNCHANGED <<botDocs, ephemeral, resultObjects, scheduledIDs, query, reply, serverUp>>

BotIsDeleted(b) ==
  /\ b \in botDocs /\ botDocs' = botDocs \ {b}
  /\ UNCHANGED <<running, ephemeral, resultObjects, scheduledIDs, query, reply, serverUp>>

QueriesNext ==
  \/ \E q \in Query, b \in Queried : executeQuery(q, b)
  \/ \E q \in Query :
       \/ QueryTimesOut(q) \/ FindBot(q) \/ MarkBot(q) \/ GetContainerID(q)
       \/ executeRealtimeQuery(q) \/ executeScheduledQuery(q)
       \/ runEphemeralQuery(q) \/ DownloadResult(q)
  \/ MapRace \/ ServerRestarts
  \/ \E b \in Queried : ContainerComesOrGoes(b) \/ BotIsDeleted(b)

QueriesSpec == QueriesInit /\ [][QueriesNext]_queryVars

-----------------------------------------------------------------------------
(* Properties *)

\* A successful answer comes from a handler of the bot that was asked, and was computed
\* for this query or, by a realtime bot's server, for no parameters at all, never for those
\* of another query; and a scheduled bot is never queried through a container it already
\* runs (query_resolver.go:66, "Scheduled bots should NEVER use realtime query mode").
QueriesReachTheirBot ==
  \A q \in Query :
    /\ reply[q].status = "ok" =>
         /\ reply[q].data.bot = query[q].bot
         /\ \/ reply[q].data.params = q
            \/ reply[q].data.params = NoOne /\ query[q].bot \in Realtime
    /\ query[q].bot \in Scheduled => query[q].pc # "proxy"
=============================================================================
