-------------------------------- MODULE Catalog --------------------------------
(***************************************************************************)
(* The API's catalogue: custom bots with their versions, the objects in    *)
(* MinIO that hold their code, and the bots users deploy from them.        *)
(*                                                                         *)
(* Publishing (api/src/custom-bot) and deploying (api/src/bot, and the MCP *)
(* tools of api/src/mcp) are separate services over one database.  Every   *)
(* request is a sequence of database, storage and NATS calls, and other    *)
(* requests run between any two of them: there is no transaction, and the  *)
(* tables have no constraint on (name, version).                           *)
(*                                                                         *)
(* One name of a custom bot is modelled, whose versions are numbered in    *)
(* the order of semver; names share nothing.  An object's path starts with *)
(* its publisher, the name and the version.                                *)
(***************************************************************************)
EXTENDS Integers, FiniteSets

CONSTANTS
  Publisher,      \* users; any of them deploys bots too
  Ver,            \* versions, in the order of semver
  Major,          \* a version's major number
  Longer,         \* pairs <<v, w>>: the text of w is that of v and more, as 1.0.1 and 1.0.10
  Deployed,       \* ids of bots
  Req,            \* requests the API serves at once
  Nobody,
  MaxRow,         \* bound: rows ever inserted into custom_bots
  MaxReq,         \* bound: requests ever served, uploads aside
  MaxArchive,     \* bound: archives in storage when another one is uploaded
  MaxMiss         \* bound: failed storage or NATS calls

ASSUME CatalogConstants ==
  /\ Ver \subseteq Nat \ {0}
  /\ Major \in [Ver -> Nat]
  /\ Longer \subseteq Ver \X Ver
  /\ Nobody \notin Publisher \cup Deployed
  /\ MaxRow \in Nat /\ MaxReq \in Nat /\ MaxArchive \in Nat /\ MaxMiss \in Nat

VARIABLES
  rows,           \* custom_bots: ids grow with createdAt
  inserted,       \* how much of MaxRow is used up
  objects,        \* MinIO: code bundles and frontends
  bots,           \* the bots table
  told,           \* what the runtime was last told to run of a bot; 0 is nothing
  req,            \* the requests in progress
  served,         \* how much of MaxReq is used up
  missed,         \* how much of MaxMiss is used up
  overlap,        \* history: publishing requests have overlapped
  foreign,        \* history: bots deployed from a version its user did not publish
  patched,        \* history: bots whose config an MCP tool has replaced
  adrift          \* history: bots the runtime could not be told of (see Excuse)

catalogVars ==
  <<rows, inserted, objects, bots, told, req, served, missed, overlap, foreign, patched, adrift>>
tables  == <<rows, inserted, bots>>
history == <<overlap, foreign, patched, adrift>>

-----------------------------------------------------------------------------
RowId   == 1..MaxRow
Row     == [id : RowId, by : Publisher, ver : Ver, front : BOOLEAN]
Object  == [by : Publisher, ver : Ver, kind : {"code", "frontend"}]
BotRow  == [id : Deployed, by : Publisher, cb : RowId, ver : Ver]

Publishing == {"create", "update", "deleteVersion", "deleteAll"}
Deploying  == {"deploy", "upgrade", "remove", "mcpDeploy"}

Request ==
  [op   : Publishing \cup Deploying \cup {"none"},
   by   : Publisher \cup {Nobody},
   ver  : Ver \cup {0},
   bot  : Deployed \cup {Nobody},
   row  : RowId \cup {0},             \* the version looked up
   was  : RowId \cup {0},             \* the version the bot referred to when it was read
   ids  : SUBSET RowId,               \* the versions to delete
   from : Publisher \cup {Nobody},    \* whose objects to delete
   list : SUBSET Object,              \* the objects listed for deletion
   bots : SUBSET BotRow,              \* history: the bots there when they were counted
   flag : BOOLEAN,                    \* publishing: a frontend was stored; remove: there is a topic
   pc   : {"none", "exists", "own", "newer", "fresh", "zip", "frontend", "insert", "find",
           "all", "inUse", "erase", "list", "wipe", "validate", "read", "store", "reread",
           "lookup", "publish"}]

Idle == [op |-> "none", by |-> Nobody, ver |-> 0, bot |-> Nobody, row |-> 0, was |-> 0,
         ids |-> {}, from |-> Nobody, list |-> {}, bots |-> {}, flag |-> FALSE, pc |-> "none"]

\* Every variable has its type.
CatalogTypeOK ==
  /\ rows \subseteq Row
  /\ inserted \in 0..MaxRow
  /\ objects \subseteq Object
  /\ bots \subseteq BotRow
  /\ told \in [Deployed -> Ver \cup {0}]
  /\ req \in [Req -> Request]
  /\ served \in 0..MaxReq
  /\ missed \in 0..MaxMiss
  /\ overlap \in BOOLEAN
  /\ foreign \subseteq Deployed
  /\ patched \subseteq Deployed
  /\ adrift \subseteq Deployed

CatalogInit ==
  /\ rows = {} /\ inserted = 0
  /\ objects = {}
  /\ bots = {}
  /\ told = [b \in Deployed |-> 0]
  /\ req = [k \in Req |-> Idle]
  /\ served = 0 /\ missed = 0
  /\ overlap = FALSE /\ foreign = {} /\ patched = {} /\ adrift = {}

-----------------------------------------------------------------------------
(* The repository's queries. *)

getAllGlobalVersions == rows
getAllUserVersions(u) == {r \in rows : r.by = u}

\* Ordered by createdAt, the newest first.
Newest(S) == CHOOSE r \in S : \A q \in S : q.id <= r.id
getGlobalLatestVersion == Newest(rows)
checkUserOwnership(u) == rows # {} /\ Newest(rows).by = u

\* No order is asked for: any of the rows of that version.
getSpecificGlobalVersion(v)  == {r \in rows : r.ver = v}
getSpecificUserVersion(u, v) == {r \in rows : r.by = u /\ r.ver = v}

countInstancesByCustomBotIds(ids) == Cardinality({b \in bots : b.cb \in ids})

Deployments(b) == {d \in bots : d.id = b}

\* Deleting rows deletes the bots that refer to them (onDelete: cascade).
DeleteRows(S) ==
  LET gone == {d \in bots : \E r \in S : r.id = d.cb} IN
  /\ rows' = rows \ S
  /\ bots' = bots \ gone
  /\ adrift' = adrift \cup {d.id : d \in gone}

-----------------------------------------------------------------------------
(* Requests begin and end. *)

Start(k, r) ==
  /\ req[k] = Idle
  /\ served < MaxReq
  /\ served' = served + 1
  /\ req' = [req EXCEPT ![k] = r]

Step(k, pc) == req' = [req EXCEPT ![k].pc = pc]
End(k)      == req' = [req EXCEPT ![k] = Idle]

At(k, pc)     == req[k].pc = pc
Doing(k, ops) == req[k].op \in ops

Busy(b)    == \E k \in Req : req[k].bot = b
Unread     == <<rows, inserted, objects, bots, told, served, missed, history>>
Miss       == missed < MaxMiss /\ missed' = missed + 1

\* What keeps the runtime from following a bot: overlapping requests for it, an
\* MCP tool, an event not published, the deletion of its version under it.
Excuse(b)  == adrift' = adrift \cup {b}

-----------------------------------------------------------------------------
(* Publishing.  The client uploads the archive, then posts the config with the *)
(* path it was given.                                                          *)

Code(u, v)     == [by |-> u, ver |-> v, kind |-> "code"]
Frontend(u, v) == [by |-> u, ver |-> v, kind |-> "frontend"]

\* uploadFile stores the archive under the version, whether or not that version
\* has been published.
uploadFile(u, v) ==
  /\ Cardinality({o \in objects : o.kind = "code"}) < MaxArchive
  /\ objects' = objects \cup {Code(u, v)}
  /\ UNCHANGED <<tables, told, req, served, missed, history>>

\* The controllers check that the archive is there.
Publish(k, op, u, v, pc) ==
  /\ Code(u, v) \in objects
  /\ Start(k, [Idle EXCEPT !.op = op, !.by = u, !.ver = v, !.pc = pc])
  /\ overlap' = (overlap \/ \E j \in Req : Doing(j, Publishing))
  /\ UNCHANGED <<tables, objects, told, missed, foreign, patched, adrift>>

createCustomBot(k, u, v) == Publish(k, "create", u, v, "exists")
updateCustomBot(k, u, v) == Publish(k, "update", u, v, "own")

globalBotExists(k) ==
  /\ At(k, "exists")
  /\ IF rows # {} THEN End(k) ELSE Step(k, "zip")
  /\ UNCHANGED Unread

CheckOwner(k) ==
  /\ At(k, "own")
  /\ IF ~checkUserOwnership(req[k].by) THEN End(k)
     ELSE Step(k, CASE req[k].op = "update" -> "newer"
                    [] req[k].op = "deleteVersion" -> "find"
                    [] req[k].op = "deleteAll" -> "all")
  /\ UNCHANGED Unread

\* Mutation: any version that has not been published is accepted.
isVersionNewer_Always(k) ==
  /\ At(k, "newer")
  /\ Step(k, "fresh")
  /\ UNCHANGED Unread

isVersionNewer(k) ==
  /\ At(k, "newer")
  /\ IF rows # {} /\ req[k].ver > getGlobalLatestVersion.ver THEN Step(k, "fresh") ELSE End(k)
  /\ UNCHANGED Unread

globalVersionExists(k) ==
  /\ At(k, "fresh")
  /\ IF getSpecificGlobalVersion(req[k].ver) # {} THEN End(k) ELSE Step(k, "zip")
  /\ UNCHANGED Unread

\* Fails when the archive is gone, or lacks its entry point.
validateZipStructure(k) ==
  /\ At(k, "zip")
  /\ \/ Code(req[k].by, req[k].ver) \in objects /\ Step(k, "frontend")
     \/ End(k)
  /\ UNCHANGED Unread

\* Mutation: a frontend that could not be stored is recorded all the same.
extractAndStoreFrontend_Recorded(k) ==
  /\ At(k, "frontend")
  /\ req' = [req EXCEPT ![k] = [@ EXCEPT !.flag = TRUE, !.pc = "insert"]]
  /\ \/ UNCHANGED objects
     \/ /\ Code(req[k].by, req[k].ver) \in objects
        /\ objects' = objects \cup {Frontend(req[k].by, req[k].ver)}
  /\ UNCHANGED <<tables, told, served, missed, history>>

\* Not every archive has a frontend, and failing to store it is no error.
extractAndStoreFrontend(k) ==
  /\ At(k, "frontend")
  /\ \/ Step(k, "insert") /\ UNCHANGED objects
     \/ /\ Code(req[k].by, req[k].ver) \in objects
        /\ objects' = objects \cup {Frontend(req[k].by, req[k].ver)}
        /\ req' = [req EXCEPT ![k] = [@ EXCEPT !.flag = TRUE, !.pc = "insert"]]
  /\ UNCHANGED <<tables, told, served, missed, history>>

createNewGlobalVersion(k) ==
  /\ At(k, "insert") /\ Doing(k, Publishing)
  /\ inserted < MaxRow
  /\ inserted' = inserted + 1
  /\ rows' = rows \cup {[id |-> inserted + 1, by |-> req[k].by, ver |-> req[k].ver,
                            front |-> req[k].flag]}
  /\ End(k)
  /\ UNCHANGED <<objects, bots, told, served, missed, history>>

-----------------------------------------------------------------------------
(* Deleting versions. *)

Unpublish(k, op, u, v) ==
  /\ Start(k, [Idle EXCEPT !.op = op, !.by = u, !.ver = v, !.pc = "own"])
  /\ overlap' = (overlap \/ \E j \in Req : Doing(j, Publishing))
  /\ UNCHANGED <<tables, objects, told, missed, foreign, patched, adrift>>

deleteVersion(k, u, v)  == Unpublish(k, "deleteVersion", u, v)
deleteAllVersions(k, u) == Unpublish(k, "deleteAll", u, 0)

FindVersion(k) ==
  /\ At(k, "find")
  /\ IF getSpecificGlobalVersion(req[k].ver) = {} THEN End(k)
     ELSE \E r \in getSpecificGlobalVersion(req[k].ver) :
            req' = [req EXCEPT ![k] = [@ EXCEPT !.ids = {r.id}, !.from = r.by, !.pc = "inUse"]]
  /\ UNCHANGED Unread

\* All the versions of the name, whoever published them.
ListVersions(k) ==
  /\ At(k, "all")
  /\ IF getAllGlobalVersions = {} THEN End(k)
     ELSE req' = [req EXCEPT ![k] = [@ EXCEPT !.ids = {r.id : r \in getAllGlobalVersions},
                                              !.from = req[k].by, !.pc = "inUse"]]
  /\ UNCHANGED Unread

\* Mutation: bots deployed from a version do not keep it from being deleted.
RefuseInUse_Never(k) ==
  /\ At(k, "inUse")
  /\ req' = [req EXCEPT ![k] = [@ EXCEPT !.bots = bots, !.pc = "erase"]]
  /\ UNCHANGED Unread

\* Any bot deployed from the versions, and nothing is deleted.  The deletion is
\* another query: a bot deployed meanwhile is deleted with its version.
RefuseInUse(k) ==
  /\ At(k, "inUse")
  /\ IF countInstancesByCustomBotIds(req[k].ids) > 0 THEN End(k)
     ELSE req' = [req EXCEPT ![k] = [@ EXCEPT !.bots = bots, !.pc = "erase"]]
  /\ UNCHANGED Unread

\* remove deletes by user and id, removeAllByName by user and name.
EraseRows(k) ==
  /\ At(k, "erase")
  /\ DeleteRows({r \in rows : /\ r.by = req[k].by
                              /\ req[k].op = "deleteVersion" => r.id \in req[k].ids})
  /\ Step(k, "list")
  /\ UNCHANGED <<inserted, objects, told, served, missed, overlap, foreign, patched>>

\* Objects are listed by prefix.  A version's prefix is the path of its archive,
\* with no separator after it; that of a name ends in a separator.
Under(k, o) ==
  /\ o.by = req[k].from
  /\ req[k].op = "deleteVersion" => o.ver = req[k].ver \/ <<req[k].ver, o.ver>> \in Longer

listObjects(k) ==
  /\ At(k, "list")
  /\ req' = [req EXCEPT ![k] = [@ EXCEPT !.list = {o \in objects : Under(k, o)}, !.pc = "wipe"]]
  /\ UNCHANGED Unread

\* What could not be deleted stays, and nobody deletes it later.
WipeObjects(k) ==
  /\ At(k, "wipe")
  /\ \/ objects' = objects \ req[k].list /\ UNCHANGED missed
     \/ Miss /\ \E left \in SUBSET req[k].list : objects' = objects \ (req[k].list \ left)
  /\ End(k)
  /\ UNCHANGED <<tables, told, served, history>>

-----------------------------------------------------------------------------
(* Bots.  Their ids are new when they are deployed. *)

BeginBot(k, op, u, b, v, pc) ==
  /\ Start(k, [Idle EXCEPT !.op = op, !.by = u, !.bot = b, !.ver = v, !.pc = pc])
  /\ adrift' = IF Busy(b) THEN adrift \cup {b} ELSE adrift
  /\ UNCHANGED <<tables, objects, told, missed, overlap, foreign, patched>>

Unused(b) == Deployments(b) = {} /\ told[b] = 0 /\ ~Busy(b) /\ b \notin foreign \cup patched \cup adrift

create(k, u, b, v)  == Unused(b) /\ BeginBot(k, "deploy", u, b, v, "validate")
update(k, u, b, v)  == BeginBot(k, "upgrade", u, b, v, "validate")
remove(k, u, b)     == BeginBot(k, "remove", u, b, 0, "read")

\* The tool looks the version up as create does, and that is all it checks.
handleBotDeploy(k, u, b, v) == Unused(b) /\ BeginBot(k, "mcpDeploy", u, b, v, "validate")

\* Anybody's version will do.  A config that its schema refuses ends the request.
validateBotTypeAndConfig(k) ==
  /\ At(k, "validate")
  /\ \/ End(k)
     \/ \E r \in getSpecificGlobalVersion(req[k].ver) :
          req' = [req EXCEPT ![k] = [@ EXCEPT !.row = r.id,
                                              !.pc = IF req[k].op = "upgrade" THEN "read" ELSE "insert"]]
  /\ UNCHANGED Unread

\* The row's reference to its version is checked by the database.  The MCP tool
\* publishes no event.
InsertBot(k) ==
  LET q == req[k] IN
  /\ At(k, "insert") /\ Doing(k, Deploying)
  /\ IF \E r \in rows : r.id = q.row
     THEN /\ bots' = bots \cup {[id |-> q.bot, by |-> q.by, cb |-> q.row, ver |-> q.ver]}
          /\ foreign' = IF \E r \in rows : r.id = q.row /\ r.by # q.by
                        THEN foreign \cup {q.bot} ELSE foreign
          /\ IF q.op = "deploy" THEN Step(k, "publish") /\ UNCHANGED adrift
             ELSE End(k) /\ Excuse(q.bot)
     ELSE End(k) /\ UNCHANGED <<bots, foreign, adrift>>
  /\ UNCHANGED <<rows, inserted, objects, told, served, missed, overlap, patched>>

\* Mutation: an upgrade leaves customBotId alone.
ReadBot_NotRotated(k) ==
  /\ At(k, "read")
  /\ \/ /\ \A d \in Deployments(req[k].bot) : d.by # req[k].by
        /\ End(k)
     \/ \E d \in Deployments(req[k].bot) :
          /\ d.by = req[k].by
          /\ IF req[k].op = "upgrade"
             THEN req' = [req EXCEPT ![k].was = d.cb, ![k].pc = "store"]
             ELSE req' = [req EXCEPT ![k].ver = d.ver, ![k].pc = "lookup"]
  /\ UNCHANGED Unread

\* findOne: a user's own bot.  The major version of an upgrade must not change.
ReadBot(k) ==
  LET q == req[k] IN
  /\ At(k, "read")
  /\ \/ /\ \A d \in Deployments(q.bot) :
             d.by # q.by \/ (q.op = "upgrade" /\ Major[d.ver] # Major[q.ver])
        /\ End(k)
     \/ \E d \in Deployments(q.bot) :
          /\ d.by = q.by
          /\ \/ /\ q.op = "upgrade" /\ Major[d.ver] = Major[q.ver]
                \* customBotId is rotated only if the version changes.
                /\ req' = [req EXCEPT ![k] = [@ EXCEPT !.was = IF d.ver = q.ver THEN d.cb ELSE q.row,
                                                       !.pc = "store"]]
             \/ /\ q.op = "remove"
                /\ req' = [req EXCEPT ![k] = [@ EXCEPT !.ver = d.ver, !.pc = "lookup"]]
  /\ UNCHANGED Unread

\* The UPDATE by user and id: nothing to a bot that is gone, an error for a
\* version that is gone.
StoreBot(k) ==
  LET q == req[k] IN
  /\ At(k, "store") /\ q.op = "upgrade"
  /\ IF Deployments(q.bot) = {} \/ ~\E r \in rows : r.id = q.was
     THEN End(k) /\ UNCHANGED <<bots, foreign>>
     ELSE /\ bots' = {IF d.id = q.bot THEN [d EXCEPT !.ver = q.ver, !.cb = q.was] ELSE d : d \in bots}
          /\ foreign' = IF \E r \in rows : r.id = q.was /\ r.by # q.by
                        THEN foreign \cup {q.bot} ELSE foreign
          /\ Step(k, "reread")
  /\ UNCHANGED <<rows, inserted, objects, told, served, missed, overlap, patched, adrift>>

RereadBot(k) ==
  /\ At(k, "reread")
  /\ IF Deployments(req[k].bot) = {} THEN End(k) ELSE Step(k, "lookup")
  /\ UNCHANGED Unread

\* Mutation: only a deployment finds its topic.
getTopics_DeploymentsOnly(k) ==
  LET q == req[k]
      known == q.op = "deploy" IN
  /\ At(k, "lookup")
  /\ CASE q.op = "remove" -> req' = [req EXCEPT ![k] = [@ EXCEPT !.flag = known, !.pc = "store"]]
       [] OTHER -> IF known THEN Step(k, "publish") ELSE End(k)
  /\ UNCHANGED Unread

\* The topic depends on the version's type, and the version is looked up among
\* those the user has published: without it no event is published.
getTopics(k) ==
  LET q == req[k]
      known == getSpecificUserVersion(q.by, q.ver) # {} IN
  /\ At(k, "lookup")
  /\ CASE q.op = "remove" -> req' = [req EXCEPT ![k] = [@ EXCEPT !.flag = known, !.pc = "store"]]
       [] OTHER -> IF known THEN Step(k, "publish") ELSE End(k)
  /\ UNCHANGED Unread

\* The DELETE by user and id; then the bot's version is checked for other users.
RemoveBot(k) ==
  /\ At(k, "store") /\ Doing(k, {"remove"})
  /\ bots' = bots \ Deployments(req[k].bot)
  /\ IF req[k].flag THEN Step(k, "publish") ELSE End(k)
  /\ UNCHANGED <<rows, inserted, objects, told, served, missed, history>>

PublishEvent(k) ==
  /\ At(k, "publish")
  /\ told' = [told EXCEPT ![req[k].bot] = IF req[k].op = "remove" THEN 0 ELSE req[k].ver]
  /\ End(k)
  /\ UNCHANGED <<tables, objects, served, missed, history>>

\* Logged, and the request succeeds.
PublishFails(k) ==
  /\ At(k, "publish")
  /\ Miss
  /\ End(k)
  /\ Excuse(req[k].bot)
  /\ UNCHANGED <<tables, objects, told, served, overlap, foreign, patched>>

\* The tools that update and delete are one statement each, by user and id: the
\* reference to the version stays, the new version is not looked up, and the
\* runtime is not told.
handleBotUpdate(u, b, v) ==
  /\ served < MaxReq
  /\ served' = served + 1
  /\ bots' = {IF d.id = b /\ d.by = u THEN [d EXCEPT !.ver = v] ELSE d : d \in bots}
  /\ patched' = patched \cup {b}
  /\ UNCHANGED <<rows, inserted, objects, told, req, missed, overlap, foreign, adrift>>

handleBotDelete(u, b) ==
  /\ served < MaxReq
  /\ served' = served + 1
  /\ bots' = {d \in bots : d.id # b \/ d.by # u}
  /\ Excuse(b)
  /\ UNCHANGED <<rows, inserted, objects, told, req, missed, overlap, foreign, patched>>

-----------------------------------------------------------------------------
CatalogStep(k) ==
  \/ globalBotExists(k) \/ CheckOwner(k) \/ isVersionNewer(k) \/ globalVersionExists(k)
  \/ validateZipStructure(k) \/ extractAndStoreFrontend(k) \/ createNewGlobalVersion(k)
  \/ FindVersion(k) \/ ListVersions(k) \/ RefuseInUse(k) \/ EraseRows(k)
  \/ listObjects(k) \/ WipeObjects(k)
  \/ validateBotTypeAndConfig(k) \/ InsertBot(k) \/ ReadBot(k) \/ StoreBot(k) \/ RereadBot(k)
  \/ getTopics(k) \/ RemoveBot(k) \/ PublishEvent(k) \/ PublishFails(k)

CatalogCall(u) ==
  \/ \E v \in Ver : uploadFile(u, v)
  \/ \E k \in Req, v \in Ver : createCustomBot(k, u, v) \/ updateCustomBot(k, u, v)
                             \/ deleteVersion(k, u, v)
  \/ \E k \in Req : deleteAllVersions(k, u)
  \/ \E k \in Req, b \in Deployed, v \in Ver : create(k, u, b, v) \/ update(k, u, b, v)
                                              \/ handleBotDeploy(k, u, b, v)
  \/ \E k \in Req, b \in Deployed : remove(k, u, b)
  \/ \E b \in Deployed, v \in Ver : handleBotUpdate(u, b, v)
  \/ \E b \in Deployed : handleBotDelete(u, b)

CatalogNext ==
  \/ \E k \in Req : CatalogStep(k)
  \/ \E u \in Publisher : CatalogCall(u)

CatalogSpec == CatalogInit /\ [][CatalogNext]_catalogVars

-----------------------------------------------------------------------------
(* Properties *)

\* A name belongs to one user, a version is published once, and versions are
\* published in their order, so that the row created last, which stands for the
\* latest version everywhere, is the greatest one - unless publishing requests for
\* the name have overlapped, which the tables do not rule out.
VersionsInOrder ==
  overlap \/ \A r, q \in rows : r.id < q.id => r.by = q.by /\ r.ver < q.ver

\* "Dangling DB rows pointing to missing files would be a real problem": the code of
\* every published version is in storage, and its frontend if it has one, unless
\* publishing requests have overlapped.
VersionsHaveTheirFiles ==
  overlap \/ \A r \in rows : /\ Code(r.by, r.ver) \in objects
                           /\ r.front => Frontend(r.by, r.ver) \in objects

\* Deleting versions never takes with it a bot that was there, as it is, when the
\* bots deployed from them were counted.
DeletionSparesBots ==
  [][\A k \in Req : At(k, "erase") /\ req'[k] # req[k] /\ ~overlap
                     => req[k].bots \cap bots \subseteq bots']_catalogVars

\* The version in a bot's config is the version it refers to, whatever upgrades
\* overlap, unless an MCP tool has replaced the config.
BotsReferToTheirVersion ==
  \A d \in bots : \E r \in rows : r.id = d.cb /\ (r.ver = d.ver \/ d.id \in patched)

\* Between requests the runtime has been told to run exactly the bots of the table,
\* each at its version, if their users deploy what they have published themselves
\* and nothing of Excuse has happened to them.
RuntimeIsTold ==
  \A b \in Deployed :
    \/ Busy(b) \/ b \in foreign \cup patched \cup adrift
    \/ IF Deployments(b) = {} THEN told[b] = 0 ELSE \A d \in Deployments(b) : told[b] = d.ver

\* The version at which each bot is deployed.
Wanted ==
  [b \in Deployed |-> IF Deployments(b) = {} THEN 0 ELSE (CHOOSE d \in Deployments(b) : TRUE).ver]

Runtime == INSTANCE Follower WITH
  Item <- Deployed, Value <- Ver, Absent <- 0,
  original <- Wanted, copy <- told, loose <- foreign \cup patched \cup adrift

\* And at every step: the runtime is told of each change of such a bot before its user can
\* make the next, and never of a version that the bot has not, or of a bot that is gone,
\* whatever requests for other bots, publications and deletions come in between.
RuntimeFollows == Runtime!Spec
=============================================================================
