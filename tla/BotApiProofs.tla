----------------------------- MODULE BotApiProofs ------------------------------
(* Theorems about what the API does for bots: their persistent state (BotStateApi),  *)
(* the queries relayed to them (BotQueries), and the catalogue they are deployed     *)
(* from (Catalog), whose changes the runtime follows (it implements Follower).       *)
EXTENDS BotStateApi, BotQueries, Catalog, FiniteSetTheorems, TLAPS

-----------------------------------------------------------------------------
(* Bot state: the inductive invariant.                                       *)

\* An archive is known by its etag, which is given out once: the one that was found is
\* still there, or it will never be again.
Read(a) ==
  LET q == access[a] IN
  /\ q.pc \in {"get", "check"} => q.etag # 0 /\ q.etag <= etags
  /\ q.pc = "check" /\ archive.etag = q.etag => q.files = archive.files \ {q.key}

\* What is about to be written is the archive that is there without the key, unless
\* that archive has been written since.
Checked(a) ==
  LET q == access[a] IN
  q.op = "deleteKey" /\ q.pc \in {"put", "remove"} =>
    /\ a \notin slipped => q.files = archive.files \ {q.key}
    /\ q.pc = "remove" => q.files = {}

\* The inductive invariant: the archive has an etag, and requests what they read of it.
BotStateInv ==
  /\ BotStateTypeOK
  /\ archive.etag <= etags
  /\ archive.etag = 0 => archive = NoArchive
  /\ \A a \in Access : Read(a) /\ Checked(a)

-----------------------------------------------------------------------------
LEMMA NoAccessTyped ==
  /\ NoAccess \in AccessState /\ NoAccess.pc = "none" /\ NoAccess.op = "none"
<1>1. (CHOOSE k \in StateKey : TRUE) \in StateKey /\ 0 \in 0..MaxEtag
  BY BotStateConstants
<1>2. {} \in SUBSET StateKey
  OBVIOUS
<1> DEFINE key == CHOOSE k \in StateKey : TRUE
<1>3. NoAccess = [op |-> "none", key |-> key, etag |-> 0, files |-> {}, pc |-> "none"]
  BY DEF NoAccess
<1> HIDE DEF key
<1> HIDE BotStateConstants
<1>4. key \in StateKey
  BY <1>1 DEF key
<1> QED BY <1>1, <1>2, <1>3, <1>4 DEF AccessState

LEMMA NoArchiveTyped ==
  /\ NoArchive \in Archive /\ NoArchive.etag = 0 /\ NoArchive.files = {}
BY BotStateConstants DEF NoArchive, Archive

LEMMA BotStateInvInit == BotStateInit => BotStateInv
<1> SUFFICES ASSUME BotStateInit PROVE BotStateInv
  OBVIOUS
<1>1. BotStateTypeOK
  BY NoAccessTyped, NoArchiveTyped, BotStateConstants DEF BotStateInit, BotStateTypeOK
<1>2. \A a \in Access : Read(a) /\ Checked(a)
  BY NoAccessTyped DEF BotStateInit, Read, Checked
<1> QED BY <1>1, <1>2, NoArchiveTyped DEF BotStateInit, BotStateInv

\* A step of one request that leaves the archive alone.
LEMMA RequestKeeps ==
  ASSUME BotStateInv, UNCHANGED <<archive, etags>>, NEW a \in Access,
         access' \in [Access -> AccessState], \A b \in Access : b # a => access'[b] = access[b],
         slipped' \in {slipped, slipped \ {a}}, Read(a)', Checked(a)'
  PROVE  BotStateInv'
<1>1. BotStateTypeOK'
  BY DEF BotStateInv, BotStateTypeOK
<1>2. ASSUME NEW b \in Access, b # a PROVE Read(b)' /\ Checked(b)'
  BY <1>2 DEF BotStateInv, Read, Checked
<1> QED BY <1>1, <1>2 DEF BotStateInv

LEMMA AnswerKeeps ==
  ASSUME BotStateInv, UNCHANGED <<archive, etags>>, NEW a \in Access, Answer(a) PROVE BotStateInv'
<1>1. access \in [Access -> AccessState]
  BY DEF BotStateInv, BotStateTypeOK
<1>2. /\ access' \in [Access -> AccessState] /\ access'[a] = NoAccess
      /\ \A b \in Access : b # a => access'[b] = access[b]
      /\ slipped' = slipped \ {a}
  BY <1>1, NoAccessTyped DEF Answer
<1>3. Read(a)' /\ Checked(a)'
  BY <1>2, NoAccessTyped DEF Read, Checked
<1> QED BY <1>2, <1>3, RequestKeeps

\* Whoever writes the archive, the others will find that it is another one.
LEMMA WriteKeeps ==
  ASSUME BotStateInv, NEW new \in Archive, NEW by \in SUBSET Access, Write(new, by),
         \/ new.etag = etags + 1 /\ etags' = etags + 1 /\ etags < MaxEtag
         \/ new = NoArchive /\ etags' = etags,
         access' \in [Access -> AccessState],
         \A a \in by : access'[a] = NoAccess,
         \A a \in Access \ by : access'[a] = access[a]
  PROVE  BotStateInv'
<1> USE BotStateConstants
<1>1. etags \in Nat /\ etags' \in 0..MaxEtag /\ etags <= etags'
  BY DEF BotStateInv, BotStateTypeOK
<1>2. archive' = new
        /\ slipped' = (slipped \cup {a \in Access : access[a].pc \in {"put", "remove"}}) \ by
  BY DEF Write
<1>3. BotStateTypeOK'
  BY <1>1, <1>2 DEF BotStateInv, BotStateTypeOK
<1>4. archive'.etag <= etags' /\ (archive'.etag = 0 => archive' = NoArchive)
  BY <1>1, <1>2, NoArchiveTyped
<1>5. ASSUME NEW a \in Access PROVE Read(a)' /\ Checked(a)'
  <2>1. CASE a \in by
    BY <2>1, NoAccessTyped DEF Read, Checked
  <2>2. CASE a \notin by
    <3>1. access'[a] = access[a] /\ access[a] \in AccessState
      BY <2>2 DEF BotStateInv, BotStateTypeOK
    <3>2. Read(a) /\ Checked(a)
      BY DEF BotStateInv
    <3>3. access[a].etag # 0 /\ access[a].etag <= etags => archive'.etag # access[a].etag
      BY <1>1, <1>2, <3>1, NoArchiveTyped DEF AccessState
    <3>4. Read(a)'
      <4>1. access[a].etag \in Nat
        BY <3>1 DEF AccessState
      <4> QED BY <1>1, <3>1, <3>2, <3>3, <4>1 DEF Read
    <3>5. Checked(a)'
      BY <1>2, <2>2, <3>1, <3>2 DEF Checked
    <3> QED BY <3>4, <3>5
  <2> QED BY <2>1, <2>2
<1> QED BY <1>3, <1>4, <1>5 DEF BotStateInv

-----------------------------------------------------------------------------
(* Every step. *)

LEMMA UploadKeeps ==
  ASSUME BotStateInv, NEW files \in SUBSET StateKey, UploadArchive(files) PROVE BotStateInv'
<1> DEFINE new == [etag |-> etags + 1, files |-> files]
<1>1. /\ Write(new, {}) /\ etags' = etags + 1 /\ etags < MaxEtag /\ access' = access
      /\ access \in [Access -> AccessState] /\ etags \in 0..MaxEtag
  BY DEF UploadArchive, BotStateInv, BotStateTypeOK
<1>2. new \in Archive /\ new.etag = etags + 1
  BY <1>1, BotStateConstants DEF Archive
<1> HIDE DEF new
<1> QED BY <1>1, <1>2, WriteKeeps

LEMMA PutKeeps == ASSUME BotStateInv, NEW a \in Access, PutArchive(a) PROVE BotStateInv'
<1> DEFINE new == [etag |-> etags + 1, files |-> access[a].files]
<1>1. /\ Write(new, {a}) /\ etags' = etags + 1 /\ etags < MaxEtag
      /\ access' = [access EXCEPT ![a] = NoAccess]
      /\ access \in [Access -> AccessState] /\ etags \in 0..MaxEtag
  BY DEF PutArchive, BotStateInv, BotStateTypeOK
<1>2. new \in Archive /\ new.etag = etags + 1
  BY <1>1, BotStateConstants DEF Archive, AccessState
<1>3. access' \in [Access -> AccessState] /\ access'[a] = NoAccess
      /\ \A b \in Access \ {a} : access'[b] = access[b]
  BY <1>1, NoAccessTyped
<1> HIDE DEF new
<1> QED BY <1>1, <1>2, <1>3, WriteKeeps

LEMMA RemoveKeeps == ASSUME BotStateInv, NEW a \in Access, RemoveArchive(a) PROVE BotStateInv'
<1>1. /\ Write(NoArchive, {a}) /\ etags' = etags
      /\ access' = [access EXCEPT ![a] = NoAccess] /\ access \in [Access -> AccessState]
  BY DEF RemoveArchive, BotStateInv, BotStateTypeOK
<1>2. access' \in [Access -> AccessState] /\ access'[a] = NoAccess
      /\ \A b \in Access \ {a} : access'[b] = access[b]
  BY <1>1, NoAccessTyped
<1> QED BY <1>1, <1>2, NoArchiveTyped, WriteKeeps

LEMMA AskKeeps ==
  ASSUME BotStateInv, NEW a \in Access, NEW key \in StateKey,
         NEW op \in {"deleteKey", "clearState", "getKey"}, Ask(a, op, key)
  PROVE  BotStateInv'
<1> DEFINE r == [NoAccess EXCEPT !.op = op, !.key = key, !.pc = "stat"]
<1>1. /\ access' = [access EXCEPT ![a] = r] /\ UNCHANGED <<archive, etags, slipped>>
      /\ access \in [Access -> AccessState]
  BY DEF Ask, BotStateInv, BotStateTypeOK
<1>2. r \in AccessState /\ r.pc = "stat"
  BY NoAccessTyped DEF AccessState
<1> HIDE DEF r
<1>3. access' \in [Access -> AccessState] /\ access'[a] = r
        /\ \A b \in Access : b # a => access'[b] = access[b]
  BY <1>1, <1>2
<1>4. Read(a)' /\ Checked(a)'
  BY <1>2, <1>3 DEF Read, Checked
<1> QED BY <1>1, <1>3, <1>4, RequestKeeps

LEMMA StatKeeps ==
  ASSUME BotStateInv, NEW a \in Access, downloadAndExtractStateWithEtag(a) PROVE BotStateInv'
<1>1. UNCHANGED <<archive, etags>> /\ access \in [Access -> AccessState]
        /\ access[a] \in AccessState
      /\ archive \in Archive
  BY DEF downloadAndExtractStateWithEtag, BotStateInv, BotStateTypeOK
<1>2. CASE Answer(a)
  BY <1>1, <1>2, AnswerKeeps
<1>3. CASE ~Answer(a)
  <2> DEFINE p == IF access[a].op = "clearState" THEN "remove" ELSE "get"
             r == [access[a] EXCEPT !.etag = archive.etag, !.pc = p]
  <2>1. archive # NoArchive /\ access' = [access EXCEPT ![a] = r] /\ slipped' = slipped
    BY <1>3 DEF downloadAndExtractStateWithEtag
  <2>2. p \in {"remove", "get"} /\ (p = "remove" => access[a].op = "clearState")
    OBVIOUS
  <2>3. archive.etag \in 0..MaxEtag /\ archive.etag # 0 /\ archive.etag <= etags
    BY <1>1, <2>1 DEF BotStateInv, Archive
  <2> HIDE DEF p
  <2>4. r \in AccessState /\ r.pc = p /\ r.etag = archive.etag /\ r.op = access[a].op
    BY <1>1, <2>2, <2>3 DEF AccessState
  <2> HIDE DEF r
  <2>5. access' \in [Access -> AccessState] /\ access'[a] = r
          /\ \A b \in Access : b # a => access'[b] = access[b]
    BY <1>1, <2>1, <2>4
  <2>6. Read(a)' /\ Checked(a)'
    BY <1>1, <2>2, <2>3, <2>4, <2>5 DEF Read, Checked
  <2> QED BY <1>1, <2>1, <2>5, <2>6, RequestKeeps
<1> QED BY <1>2, <1>3

LEMMA GetKeeps == ASSUME BotStateInv, NEW a \in Access, deleteKey(a) PROVE BotStateInv'
<1>1. UNCHANGED <<archive, etags>> /\ access \in [Access -> AccessState]
        /\ access[a] \in AccessState
      /\ archive \in Archive /\ access[a].pc = "get"
  BY DEF deleteKey, Pc, BotStateInv, BotStateTypeOK
<1>2. CASE Answer(a)
  BY <1>1, <1>2, AnswerKeeps
<1>3. CASE ~Answer(a)
  <2> DEFINE left == archive.files \ {access[a].key}
             r == [access[a] EXCEPT !.files = left, !.pc = "check"]
  <2>1. access' = [access EXCEPT ![a] = r] /\ slipped' = slipped
    BY <1>3 DEF deleteKey
  <2>2. left \in SUBSET StateKey
    BY <1>1 DEF Archive
  <2> HIDE DEF left
  <2>3. r \in AccessState /\ r.pc = "check" /\ r.files = left /\ r.etag = access[a].etag
          /\ r.key = access[a].key
    BY <1>1, <2>2 DEF AccessState
  <2> HIDE DEF r
  <2>4. access' \in [Access -> AccessState] /\ access'[a] = r
          /\ \A b \in Access : b # a => access'[b] = access[b]
    BY <1>1, <2>1, <2>3
  <2>5. Read(a)' /\ Checked(a)'
    BY <1>1, <2>3, <2>4 DEF Read, Checked, BotStateInv, left
  <2> QED BY <1>1, <2>1, <2>4, <2>5, RequestKeeps
<1> QED BY <1>2, <1>3

\* The etag that still is the one found stands for the files that were read.
LEMMA CheckKeeps == ASSUME BotStateInv, NEW a \in Access, uploadStateWithLocking(a)
  PROVE BotStateInv'
<1>1. UNCHANGED <<archive, etags>> /\ access \in [Access -> AccessState]
        /\ access[a] \in AccessState
      /\ access[a].pc = "check" /\ Read(a)
  BY DEF uploadStateWithLocking, Pc, BotStateInv, BotStateTypeOK
<1>2. CASE Answer(a)
  BY <1>1, <1>2, AnswerKeeps
<1>3. CASE ~Answer(a)
  <2> DEFINE p == IF access[a].files = {} THEN "remove" ELSE "put"
             r == [access[a] EXCEPT !.pc = p]
  <2>1. access' = [access EXCEPT ![a] = r] /\ slipped' = slipped
    BY <1>3 DEF uploadStateWithLocking
  <2>2. archive.etag = access[a].etag \/ (archive = NoArchive /\ access[a].files = {})
    BY <1>3 DEF uploadStateWithLocking
  <2>3. access[a].files = archive.files \ {access[a].key}
    BY <1>1, <2>2, NoArchiveTyped DEF Read
  <2>4. p \in {"remove", "put"} /\ (p = "remove" => access[a].files = {})
    OBVIOUS
  <2> HIDE DEF p
  <2>5. r \in AccessState /\ r.pc = p /\ r.files = access[a].files /\ r.key = access[a].key
    BY <1>1, <2>4 DEF AccessState
  <2> HIDE DEF r
  <2>6. access' \in [Access -> AccessState] /\ access'[a] = r
          /\ \A b \in Access : b # a => access'[b] = access[b]
    BY <1>1, <2>1, <2>5
  <2>7. Read(a)' /\ Checked(a)'
    BY <1>1, <2>3, <2>4, <2>5, <2>6 DEF Read, Checked
  <2> QED BY <1>1, <2>1, <2>6, <2>7, RequestKeeps
<1> QED BY <1>2, <1>3

LEMMA BotStateInvStep == BotStateInv /\ [BotStateNext]_botStateVars => BotStateInv'
<1> SUFFICES ASSUME BotStateInv, [BotStateNext]_botStateVars PROVE BotStateInv'
  OBVIOUS
<1>1. CASE UNCHANGED botStateVars
  BY <1>1 DEF botStateVars, BotStateInv, BotStateTypeOK, Read, Checked
<1>2. ASSUME NEW a \in Access, AccessFails(a) PROVE BotStateInv'
  BY <1>2, AnswerKeeps DEF AccessFails
<1> QED BY <1>1, <1>2, UploadKeeps, AskKeeps, StatKeeps, GetKeeps, CheckKeeps, PutKeeps, RemoveKeeps
        DEF BotStateNext

-----------------------------------------------------------------------------
(* The theorems. *)

\* Every variable keeps its type.
THEOREM BotStateTypeCorrect == BotStateSpec => []BotStateTypeOK
<1>1. BotStateInv => BotStateTypeOK
  BY DEF BotStateInv
<1> QED BY <1>1, BotStateInvInit, BotStateInvStep, PTL DEF BotStateSpec

\* Deleting a key takes only that key out of the archive as it is, however many uploads
\* and deletions overlap, unless one of them comes after the last check of the etag
\* (uploadStateWithLocking of bot-state.service.ts).
THEOREM DeletionTakesOneKey == BotStateSpec => DeletingTakesOneKey
<1> DEFINE Exact(a) == access[a].op = "deleteKey" /\ archive' # archive /\ access'[a] # access[a]
                         => archive'.files = archive.files \ {access[a].key}
<1>1. BotStateInv /\ [BotStateNext]_botStateVars =>
        [\A a \in Access \ slipped : Exact(a)]_botStateVars
  <2> SUFFICES ASSUME BotStateInv, BotStateNext, NEW a \in Access \ slipped,
                      access[a].op = "deleteKey", archive' # archive, access'[a] # access[a]
               PROVE  archive'.files = archive.files \ {access[a].key}
    OBVIOUS
  <2>1. access \in [Access -> AccessState] /\ Checked(a)
    BY DEF BotStateInv, BotStateTypeOK
  <2>2. ASSUME NEW b \in Access
        PROVE  /\ \A key \in StateKey, op \in {"deleteKey", "clearState", "getKey"} : ~Ask(b, op, key)
               /\ ~downloadAndExtractStateWithEtag(b) /\ ~deleteKey(b)
               /\ ~uploadStateWithLocking(b) /\ ~AccessFails(b)
    BY DEF Ask, downloadAndExtractStateWithEtag, deleteKey, uploadStateWithLocking, AccessFails
  <2>3. PutArchive(a) \/ RemoveArchive(a)
    <3>1. ASSUME NEW b \in Access, b # a, PutArchive(b) \/ RemoveArchive(b) PROVE FALSE
      BY <2>1, <3>1 DEF PutArchive, RemoveArchive
    <3>2. \A files \in SUBSET StateKey : ~UploadArchive(files)
      BY DEF UploadArchive
    <3>3. PICK b \in Access :
            \/ \E key \in StateKey, op \in {"deleteKey", "clearState", "getKey"} : Ask(b, op, key)
            \/ downloadAndExtractStateWithEtag(b) \/ deleteKey(b) \/ uploadStateWithLocking(b)
            \/ PutArchive(b) \/ RemoveArchive(b) \/ AccessFails(b)
      BY <3>2 DEF BotStateNext
    <3>4. PutArchive(b) \/ RemoveArchive(b)
      BY <2>2, <3>3
    <3> QED BY <3>1, <3>4
  <2>4. CASE PutArchive(a)
    BY <2>1, <2>4 DEF PutArchive, Write, Checked, Pc
  <2>5. CASE RemoveArchive(a)
    BY <2>1, <2>5, NoArchiveTyped DEF RemoveArchive, Write, Checked, Pc
  <2> QED BY <2>3, <2>4, <2>5
<1> HIDE DEF Exact
<1>2. BotStateSpec => [][\A a \in Access \ slipped : Exact(a)]_botStateVars
  BY <1>1, BotStateInvInit, BotStateInvStep, PTL DEF BotStateSpec
<1> QED BY <1>2 DEF DeletingTakesOneKey, Exact

-----------------------------------------------------------------------------
(* Queries: the inductive invariant.                                         *)

\* A container of the query exists only after the API's request has got there; whoever
\* is past the first write of the map finds its bot in it; a container found for a
\* realtime query is the bot's own or one of a query; the result under the query's key
\* is the query's; and a successful answer is the last thing that happens.
OnTrack(q) ==
  /\ ephemeral[q] # "none" => query[q].pc \in {"waiting", "done"}
  /\ query[q].pc # "idle" => query[q].bot \in Queried
  /\ query[q].pc \in {"resolved", "mark2", "located"} /\ query[q].bot \in Scheduled =>
       query[q].bot \in scheduledIDs
  /\ query[q].pc = "proxy" =>
       /\ query[q].bot \in Realtime
       /\ query[q].target = query[q].bot \/ query[q].target \in Query
  /\ query[q].pc = "waiting" /\ ephemeral[q] = "ok" =>
       resultObjects[q] \in {NoAnswer, EphemeralAnswer(q)}
  /\ reply[q].status = "ok" =>
       /\ query[q].pc = "done"
       /\ reply[q].data.bot = query[q].bot
       /\ \/ reply[q].data.params = q
          \/ reply[q].data.params = NoOne /\ query[q].bot \in Realtime

\* What a bot answers: to which query, in whose name; the states of a query and of its reply.
QueryAnswer == [bot : Queried \cup {NoOne}, params : Query \cup {NoOne}]
QueryState == [pc : {"idle", "asked", "done"} \cup InRuntime,
               bot : Queried \cup {NoOne}, target : Query \cup Queried \cup {NoOne}]
ReplyStatus == {"none", "ok", "error", "notFound", "unavailable", "timeout"}
ReplyState == [status : ReplyStatus, data : QueryAnswer]

\* The inductive invariant.
QueriesInv == QueriesTypeOK /\ \A q \in Query : OnTrack(q)

\* What a step of one query may change of the others: nothing they rely on.
LEMMA OthersOnTrack ==
  ASSUME QueriesTypeOK, NEW q \in Query, OnTrack(q),
         query'[q] = query[q], reply'[q] = reply[q], ephemeral'[q] = ephemeral[q],
         resultObjects'[q] = resultObjects[q],
         query[q].bot \in Scheduled \cap scheduledIDs => query[q].bot \in scheduledIDs'
  PROVE  OnTrack(q)'
  BY DEF OnTrack, EphemeralAnswer

\* The process ends and cuts the requests it served.
LEMMA CutOnTrack ==
  ASSUME QueriesTypeOK, NEW q \in Query, OnTrack(q), MapRace
  PROVE  OnTrack(q)'
<1> USE DEF QueriesTypeOK, InRuntime
<1>1. UNCHANGED <<ephemeral, resultObjects>>
  BY DEF MapRace
<1>2. CASE query[q].pc \in {"asked"} \cup InRuntime
  <2>1. query'[q] = [query[q] EXCEPT !.pc = "done"] /\ reply'[q].status = "error"
    BY <1>2 DEF MapRace
  <2>2. QED
    <3>1. query'[q].pc = "done" /\ query'[q].bot = query[q].bot
      BY <2>1
    <3>2. QED
      BY <1>1, <1>2, <2>1, <3>1 DEF OnTrack
<1>3. CASE query[q].pc \notin {"asked"} \cup InRuntime
  <2>1. query'[q] = query[q] /\ reply'[q] = reply[q]
    BY <1>3 DEF MapRace
  <2>2. query[q].pc \in {"idle", "done"}
    BY <1>3
  <2>3. QED
    BY <1>1, <2>1, <2>2 DEF OnTrack
<1>4. QED
  BY <1>2, <1>3

\* A query moves on.
LEMMA QueryMoves ==
  ASSUME QueriesTypeOK, NEW q \in Query, NEW pc \in {"idle", "asked", "done"} \cup InRuntime,
         QueryAt(q, pc)
  PROVE  /\ query' \in [Query -> QueryState] /\ reply' = reply
         /\ query'[q].pc = pc /\ query'[q].bot = query[q].bot /\ query'[q].target = query[q].target
         /\ \A p \in Query \ {q} : query'[p] = query[p] /\ reply'[p] = reply[p]
  BY DEF QueriesTypeOK, QueryAt, QueryState

\* A query is answered.
LEMMA QueryAnswered ==
  ASSUME QueriesTypeOK, NEW q \in Query, NEW st, st \in ReplyStatus, NEW a \in QueryAnswer,
         ReplyQuery(q, st, a)
  PROVE  /\ query' \in [Query -> QueryState] /\ reply' \in [Query -> ReplyState]
         /\ query'[q].pc = "done" /\ query'[q].bot = query[q].bot
         /\ reply'[q].status = st /\ reply'[q].data = a
         /\ \A p \in Query \ {q} : query'[p] = query[p] /\ reply'[p] = reply[p]
  BY DEF QueriesTypeOK, ReplyQuery, QueryState, ReplyState, QueryAnswer, ReplyStatus

\* No answer is an answer of its type.
LEMMA NoAnswerTyped == NoAnswer \in QueryAnswer
  BY DEF NoAnswer, QueryAnswer

\* Every step keeps the invariant.
LEMMA QueriesInvStep == QueriesInv /\ [QueriesNext]_queryVars => QueriesInv'
<1> SUFFICES ASSUME QueriesInv, [QueriesNext]_queryVars PROVE QueriesInv'
  OBVIOUS
<1> USE DEF QueriesInv
<1>0. QueriesTypeOK <=>
        /\ botDocs \subseteq Queried /\ running \subseteq Queried /\ scheduledIDs \subseteq Queried
        /\ ephemeral \in [Query -> {"none", "up", "ok", "failed"}]
        /\ resultObjects \in [Query \cup Queried -> QueryAnswer]
        /\ query \in [Query -> QueryState]
        /\ reply \in [Query -> ReplyState]
        /\ serverUp \in BOOLEAN
  BY DEF QueriesTypeOK, QueryAnswer, QueryState, ReplyState, ReplyStatus
<1>0a. QueriesTypeOK' <=>
        /\ botDocs' \subseteq Queried /\ running' \subseteq Queried
             /\ scheduledIDs' \subseteq Queried
        /\ ephemeral' \in [Query -> {"none", "up", "ok", "failed"}]
        /\ resultObjects' \in [Query \cup Queried -> QueryAnswer]
        /\ query' \in [Query -> QueryState]
        /\ reply' \in [Query -> ReplyState]
        /\ serverUp' \in BOOLEAN
  BY DEF QueriesTypeOK, QueryAnswer, QueryState, ReplyState, ReplyStatus
<1>1. ASSUME NEW q \in Query, NEW b \in Queried, executeQuery(q, b) PROVE QueriesInv'
  <2>1. /\ query' \in [Query -> QueryState] /\ reply' \in [Query -> ReplyState]
        /\ query[q].pc = "idle"
        /\ query'[q].pc \in {"asked", "done"} /\ query'[q].bot = b
        /\ reply'[q].status # "ok" \/ reply' = reply
        /\ \A p \in Query \ {q} : query'[p] = query[p] /\ reply'[p] = reply[p]
    BY <1>0, <1>1 DEF executeQuery, QueryState, ReplyState, ReplyStatus
  <2>2. UNCHANGED <<botDocs, running, ephemeral, resultObjects, scheduledIDs, serverUp>>
    BY <1>1 DEF executeQuery
  <2>3. QueriesTypeOK'
    BY <1>0, <1>0a, <2>1, <2>2
  <2>4. OnTrack(q)'
    BY <2>1, <2>2 DEF OnTrack
  <2>5. \A p \in Query \ {q} : OnTrack(p)'
    BY <2>1, <2>2, OthersOnTrack
  <2>6. QED
    BY <2>3, <2>4, <2>5
<1>2. ASSUME NEW q \in Query, QueryTimesOut(q) PROVE QueriesInv'
  <2>1. /\ UNCHANGED <<botDocs, running, ephemeral, resultObjects, scheduledIDs, serverUp>>
        /\ ReplyQuery(q, "timeout", NoAnswer) /\ query[q].pc # "idle"
    BY <1>2 DEF QueryTimesOut, InRuntime
  <2>2. /\ query' \in [Query -> QueryState] /\ reply' \in [Query -> ReplyState]
        /\ query'[q].pc = "done" /\ query'[q].bot = query[q].bot /\ reply'[q].status = "timeout"
        /\ \A p \in Query \ {q} : query'[p] = query[p] /\ reply'[p] = reply[p]
    BY <2>1, QueryAnswered, NoAnswerTyped DEF ReplyStatus
  <2>3. QueriesTypeOK'
    BY <1>0, <1>0a, <2>1, <2>2
  <2>4. OnTrack(q)'
    BY <2>1, <2>2 DEF OnTrack
  <2>5. \A p \in Query \ {q} : OnTrack(p)'
    BY <2>1, <2>2, OthersOnTrack
  <2>6. QED
    BY <2>3, <2>4, <2>5
<1>3. ASSUME NEW q \in Query, FindBot(q) PROVE QueriesInv'
  <2>1. UNCHANGED <<botDocs, running, ephemeral, resultObjects, scheduledIDs, serverUp>>
        /\ query[q].pc \in {"asked", "resolved"}
    BY <1>3 DEF FindBot
  <2>2. CASE QueryAt(q, IF query[q].pc = "asked" THEN "mark1" ELSE "mark2")
    <3>1. /\ query' \in [Query -> QueryState] /\ reply' = reply /\ query'[q].bot = query[q].bot
          /\ query'[q].pc = IF query[q].pc = "asked" THEN "mark1" ELSE "mark2"
          /\ \A p \in Query \ {q} : query'[p] = query[p] /\ reply'[p] = reply[p]
      BY <2>2, QueryMoves DEF InRuntime
    <3>2. OnTrack(q)'
      BY <2>1, <3>1 DEF OnTrack
    <3>3. QED
      BY <1>0, <1>0a, <2>1, <3>1, <3>2, OthersOnTrack
  <2>3. CASE ReplyQuery(q, IF query[q].pc = "asked" THEN "notFound" ELSE "error", NoAnswer)
    <3>1. /\ query' \in [Query -> QueryState] /\ reply' \in [Query -> ReplyState]
          /\ query'[q].pc = "done" /\ query'[q].bot = query[q].bot /\ reply'[q].status # "ok"
          /\ \A p \in Query \ {q} : query'[p] = query[p] /\ reply'[p] = reply[p]
      BY <2>3, QueryAnswered, NoAnswerTyped DEF ReplyStatus
    <3>2. OnTrack(q)'
      BY <2>1, <3>1 DEF OnTrack
    <3>3. QED
      BY <1>0, <1>0a, <2>1, <3>1, <3>2, OthersOnTrack
  <2>4. QED
    BY <1>3, <2>2, <2>3 DEF FindBot
<1>4. ASSUME NEW q \in Query, MarkBot(q) PROVE QueriesInv'
  <2>1. /\ UNCHANGED <<botDocs, running, ephemeral, resultObjects, serverUp>>
        /\ query[q].pc \in {"mark1", "mark2"}
        /\ scheduledIDs' = IF query[q].bot \in Realtime THEN scheduledIDs \ {query[q].bot}
                                                        ELSE scheduledIDs \cup {query[q].bot}
        /\ QueryAt(q, IF query[q].pc = "mark1" THEN "resolved" ELSE "located")
    BY <1>4 DEF MarkBot
  <2>2. /\ query' \in [Query -> QueryState] /\ reply' = reply /\ query'[q].bot = query[q].bot
        /\ query'[q].pc \in {"resolved", "located"}
        /\ \A p \in Query \ {q} : query'[p] = query[p] /\ reply'[p] = reply[p]
    BY <2>1, QueryMoves DEF InRuntime
  <2>3. query[q].bot \in Queried
    BY <2>1 DEF OnTrack
  <2>4. query[q].bot \in Scheduled => query[q].bot \in scheduledIDs'
    BY <2>1, QueryConstants
  <2>5. \A b \in Scheduled : b \in scheduledIDs => b \in scheduledIDs'
    BY <2>1, QueryConstants
  <2>6. OnTrack(q)'
    BY <2>1, <2>2, <2>4 DEF OnTrack
  <2>7. QED
    BY <1>0, <1>0a, <2>1, <2>2, <2>3, <2>5, <2>6, OthersOnTrack
<1>5. ASSUME NEW q \in Query, GetContainerID(q) PROVE QueriesInv'
  <2>1. UNCHANGED <<botDocs, running, ephemeral, resultObjects, scheduledIDs, serverUp>>
        /\ query[q].pc = "located"
    BY <1>5 DEF GetContainerID
  <2>2. CASE QueryAt(q, "spawn")
    <3>1. /\ query' \in [Query -> QueryState] /\ reply' = reply /\ query'[q].bot = query[q].bot
          /\ query'[q].pc = "spawn"
          /\ \A p \in Query \ {q} : query'[p] = query[p] /\ reply'[p] = reply[p]
      BY <2>2, QueryMoves DEF InRuntime
    <3>2. OnTrack(q)'
      BY <2>1, <3>1 DEF OnTrack
    <3>3. QED
      BY <1>0, <1>0a, <2>1, <3>1, <3>2, OthersOnTrack
  <2>3. ASSUME query[q].bot \notin scheduledIDs, NEW c \in Labelled(query[q].bot),
               query' = [query EXCEPT ![q].pc = "proxy", ![q].target = c], UNCHANGED reply
        PROVE  QueriesInv'
    <3>1. c = query[q].bot \/ c \in Query
      BY DEF Labelled
    <3>2. query[q].bot \in Queried \ Scheduled
      BY <2>1, <2>3 DEF OnTrack
    <3>3. /\ query' \in [Query -> QueryState] /\ query'[q].bot = query[q].bot
          /\ query'[q].pc = "proxy" /\ query'[q].target = c
          /\ \A p \in Query \ {q} : query'[p] = query[p] /\ reply'[p] = reply[p]
      BY <1>0, <2>3, <3>1, <3>2 DEF QueryState, InRuntime
    <3>4. OnTrack(q)'
      BY <2>1, <2>3, <3>1, <3>2, <3>3 DEF OnTrack, Queried
    <3>5. QED
      BY <1>0, <1>0a, <2>1, <2>3, <3>3, <3>4, OthersOnTrack
  <2>4. QED
    BY <1>5, <2>2, <2>3 DEF GetContainerID
<1>6. ASSUME NEW q \in Query, executeRealtimeQuery(q) PROVE QueriesInv'
  <2>1. UNCHANGED <<botDocs, running, ephemeral, resultObjects, scheduledIDs, serverUp>>
        /\ query[q].pc = "proxy"
    BY <1>6 DEF executeRealtimeQuery
  <2>2. PICK st \in {"error", "ok"}, a \in QueryAnswer :
          /\ ReplyQuery(q, st, a)
          /\ st = "ok" => a.bot = query[q].bot /\ a.params = NoOne /\ query[q].bot \in Realtime
    <3>1. CASE ReplyQuery(q, "error", NoAnswer)
      BY <3>1, NoAnswerTyped
    <3>2. CASE /\ query[q].target \in running \cap Realtime
               /\ ReplyQuery(q, "ok", ServerAnswer(query[q].target))
      <4>1. query[q].target = query[q].bot
        BY <2>1, <3>2, QueryConstants DEF OnTrack, Queried
      <4>2. ServerAnswer(query[q].target) \in QueryAnswer
        BY <3>2 DEF ServerAnswer, QueryAnswer, Queried
      <4>3. QED
        BY <3>2, <4>1, <4>2 DEF ServerAnswer
    <3>3. QED
      BY <1>6, <3>1, <3>2 DEF executeRealtimeQuery
  <2>3. /\ query' \in [Query -> QueryState] /\ reply' \in [Query -> ReplyState]
        /\ query'[q].pc = "done" /\ query'[q].bot = query[q].bot
        /\ reply'[q].status = st /\ reply'[q].data = a
        /\ \A p \in Query \ {q} : query'[p] = query[p] /\ reply'[p] = reply[p]
    BY <2>2, QueryAnswered DEF ReplyStatus
  <2>4. OnTrack(q)'
    BY <2>1, <2>2, <2>3 DEF OnTrack
  <2>5. QED
    BY <1>0, <1>0a, <2>1, <2>3, <2>4, OthersOnTrack
<1>7. ASSUME NEW q \in Query, executeScheduledQuery(q) PROVE QueriesInv'
  <2>1. UNCHANGED <<botDocs, running, resultObjects, scheduledIDs, serverUp>>
        /\ query[q].pc = "spawn"
    BY <1>7 DEF executeScheduledQuery
  <2>2. CASE ReplyQuery(q, "error", NoAnswer) /\ UNCHANGED ephemeral
    <3>1. /\ query' \in [Query -> QueryState] /\ reply' \in [Query -> ReplyState]
          /\ query'[q].pc = "done" /\ query'[q].bot = query[q].bot /\ reply'[q].status = "error"
          /\ \A p \in Query \ {q} : query'[p] = query[p] /\ reply'[p] = reply[p]
      BY <2>2, QueryAnswered, NoAnswerTyped DEF ReplyStatus
    <3>2. OnTrack(q)'
      BY <2>1, <2>2, <3>1 DEF OnTrack
    <3>3. QED
      BY <1>0, <1>0a, <2>1, <2>2, <3>1, <3>2, OthersOnTrack
  <2>3. CASE QueryAt(q, "waiting") /\ ephemeral' = [ephemeral EXCEPT ![q] = "up"]
    <3>1. /\ query' \in [Query -> QueryState] /\ reply' = reply /\ query'[q].bot = query[q].bot
          /\ query'[q].pc = "waiting"
          /\ \A p \in Query \ {q} : query'[p] = query[p] /\ reply'[p] = reply[p]
      BY <2>3, QueryMoves DEF InRuntime
    <3>2. /\ ephemeral' \in [Query -> {"none", "up", "ok", "failed"}] /\ ephemeral'[q] = "up"
          /\ \A p \in Query \ {q} : ephemeral'[p] = ephemeral[p]
      BY <1>0, <2>3
    <3>3. OnTrack(q)'
      BY <2>1, <3>1, <3>2 DEF OnTrack
    <3>4. QED
      BY <1>0, <1>0a, <2>1, <3>1, <3>2, <3>3, OthersOnTrack
  <2>4. QED
    BY <1>7, <2>2, <2>3 DEF executeScheduledQuery
<1>8. ASSUME NEW q \in Query, runEphemeralQuery(q) PROVE QueriesInv'
  <2>1. UNCHANGED <<botDocs, running, scheduledIDs, query, reply, serverUp>>
        /\ ephemeral[q] = "up"
    BY <1>8 DEF runEphemeralQuery
  <2>2. query[q].bot \in Queried /\ query[q].pc \in {"waiting", "done"}
    BY <2>1 DEF OnTrack
  <2>3. /\ ephemeral' \in [Query -> {"none", "up", "ok", "failed"}]
        /\ resultObjects' \in [Query \cup Queried -> QueryAnswer]
        /\ \A p \in Query \ {q} : /\ ephemeral'[p] = ephemeral[p]
                                  /\ resultObjects'[p] = resultObjects[p]
        /\ ephemeral'[q] = "ok" => resultObjects'[q] = EphemeralAnswer(q)
    BY <1>0, <1>8, <2>2 DEF runEphemeralQuery, newQueryResultKey, EphemeralAnswer, QueryAnswer
  <2>4. OnTrack(q)'
    BY <2>1, <2>2, <2>3 DEF OnTrack, EphemeralAnswer
  <2>5. QED
    BY <1>0, <1>0a, <2>1, <2>3, <2>4, OthersOnTrack
<1>9. ASSUME NEW q \in Query, DownloadResult(q) PROVE QueriesInv'
  <2>1. UNCHANGED <<botDocs, running, ephemeral, scheduledIDs, serverUp>>
        /\ query[q].pc = "waiting"
    BY <1>9 DEF DownloadResult
  <2>2. PICK st \in {"error", "ok"}, a \in QueryAnswer :
          /\ ReplyQuery(q, st, a)
          /\ st = "ok" => a = EphemeralAnswer(q)
    <3>1. CASE ReplyQuery(q, "error", NoAnswer)
      BY <3>1, NoAnswerTyped
    <3>2. CASE /\ ephemeral[q] = "ok" /\ resultObjects[q] # NoAnswer
               /\ ReplyQuery(q, "ok", resultObjects[q])
      BY <1>0, <2>1, <3>2 DEF OnTrack
    <3>3. QED
      BY <1>9, <3>1, <3>2 DEF DownloadResult, newQueryResultKey
  <2>3. /\ query' \in [Query -> QueryState] /\ reply' \in [Query -> ReplyState]
        /\ query'[q].pc = "done" /\ query'[q].bot = query[q].bot
        /\ reply'[q].status = st /\ reply'[q].data = a
        /\ \A p \in Query \ {q} : query'[p] = query[p] /\ reply'[p] = reply[p]
    BY <2>2, QueryAnswered DEF ReplyStatus
  <2>4. /\ resultObjects' \in [Query \cup Queried -> QueryAnswer]
        /\ \A p \in Query \ {q} : resultObjects'[p] = resultObjects[p]
    BY <1>0, <1>9, NoAnswerTyped DEF DownloadResult, newQueryResultKey
  <2>5. OnTrack(q)'
    BY <2>1, <2>2, <2>3 DEF OnTrack, EphemeralAnswer
  <2>6. QED
    BY <1>0, <1>0a, <2>1, <2>3, <2>4, <2>5, OthersOnTrack
<1>10. CASE MapRace
  <2>1. /\ UNCHANGED <<botDocs, running, ephemeral, resultObjects>>
        /\ serverUp' = FALSE /\ scheduledIDs' = {}
    BY <1>10 DEF MapRace
  <2>2. query' \in [Query -> QueryState] /\ reply' \in [Query -> ReplyState]
    <3>1. \A q \in Query : [query[q] EXCEPT !.pc = "done"] \in QueryState
                           /\ [reply[q] EXCEPT !.status = "error"] \in ReplyState
      BY <1>0 DEF QueryState, ReplyState, ReplyStatus
    <3>2. QED
      BY <1>0, <1>10, <3>1 DEF MapRace
  <2>3. QED
    BY <1>0, <1>0a, <1>10, <2>1, <2>2, CutOnTrack
<1>11. ASSUME \/ ServerRestarts \/ UNCHANGED queryVars
              \/ \E b \in Queried : ContainerComesOrGoes(b) \/ BotIsDeleted(b)
       PROVE  QueriesInv'
  <2>1. /\ UNCHANGED <<ephemeral, resultObjects, scheduledIDs, query, reply>>
        /\ botDocs' \subseteq Queried /\ running' \subseteq Queried /\ serverUp' \in BOOLEAN
    BY <1>0, <1>11 DEF ServerRestarts, ContainerComesOrGoes, BotIsDeleted, queryVars
  <2>2. QED
    BY <1>0, <1>0a, <2>1, OthersOnTrack
<1>12. QED
  BY <1>1, <1>2, <1>3, <1>4, <1>5, <1>6, <1>7, <1>8, <1>9, <1>10, <1>11 DEF QueriesNext

LEMMA QueriesInvariant == QueriesSpec => []QueriesInv
<1>1. QueriesInit => QueriesInv
  BY QueryConstants DEF QueriesInit, QueriesInv, QueriesTypeOK, OnTrack, NoAnswer, InRuntime
<1>2. QED
  BY QueriesInvStep, <1>1, PTL DEF QueriesSpec

\* Every reachable state of BotQueries is well typed.
THEOREM QueriesTypeCorrect == QueriesSpec => []QueriesTypeOK
<1>1. QueriesInv => QueriesTypeOK
  BY DEF QueriesInv
<1>2. QED
  BY <1>1, QueriesInvariant, PTL

\* Whatever queries, deletions and races of the resolver's map overlap: an answer comes
\* from a handler of the bot that was asked, for this query or for none.
THEOREM AnswersReachTheirQuery == QueriesSpec => []QueriesReachTheirBot
<1>1. QueriesInv => QueriesReachTheirBot
  BY QueryConstants DEF QueriesInv, OnTrack, QueriesReachTheirBot
<1>2. QED
  BY <1>1, QueriesInvariant, PTL

-----------------------------------------------------------------------------
(* The catalogue: rows, requests and the versions bots refer to.             *)

\* The steps of each kind of request.
StepsOf(op) ==
  CASE op = "none"          -> {"none"}
    [] op = "create"        -> {"exists", "zip", "frontend", "insert"}
    [] op = "update"        -> {"own", "newer", "fresh", "zip", "frontend", "insert"}
    [] op = "deleteVersion" -> {"own", "find", "inUse", "erase", "list", "wipe"}
    [] op = "deleteAll"     -> {"own", "all", "inUse", "erase", "list", "wipe"}
    [] op = "deploy"        -> {"validate", "insert", "publish"}
    [] op = "mcpDeploy"     -> {"validate", "insert"}
    [] op = "upgrade"       -> {"validate", "read", "store", "reread", "lookup", "publish"}
    [] op = "remove"        -> {"read", "lookup", "store", "publish"}

\* A request has the step, the user, the version and the bot that its operation takes.
WellFormed(k) ==
  LET q == req[k] IN
  /\ q.pc \in StepsOf(q.op)
  /\ q.op = "none" => q.bot = Nobody
  /\ q.op # "none" => q.by \in Publisher
  /\ q.op \in Publishing => q.bot = Nobody
  /\ q.op \in Deploying => q.bot \in Deployed
  /\ q.op \notin {"none", "deleteAll", "remove"} => q.ver \in Ver

\* The rows a request holds by their ids, if they are still there, are of the version it
\* deploys; only an MCP tool makes a bot refer to another version than its own.
PointsTo(k) ==
  LET q == req[k] IN
  /\ q.op \notin {"deploy", "mcpDeploy", "upgrade"} => q.row = 0 /\ q.was = 0
  /\ q.row # 0 => q.row <= inserted /\ \A r \in rows : r.id = q.row => r.ver = q.ver
  /\ q.was # 0 =>
       q.was <= inserted /\ \A r \in rows : r.id = q.was => r.ver = q.ver \/ q.bot \in patched

\* Ids are given out once.
RowsNumbered ==
  /\ \A r \in rows : r.id <= inserted
  /\ \A r, q \in rows : r.id = q.id => r = q

\* The inductive invariant of what refers to a version's row.
References ==
  /\ CatalogTypeOK /\ IsFiniteSet(bots)
  /\ RowsNumbered
  /\ \A k \in Req : WellFormed(k) /\ PointsTo(k)
  /\ BotsReferToTheirVersion

\* What is left of the rows, or new among them.
RowsGrow == /\ \A r \in rows' : r \in rows \/ r.id > inserted
            /\ inserted <= inserted' /\ patched \subseteq patched'
            /\ inserted \in Nat /\ inserted' \in Nat

-----------------------------------------------------------------------------
\* The requests that do not take the step.
LEMMA OthersKeep ==
  ASSUME CatalogTypeOK, NEW k \in Req, WellFormed(k), PointsTo(k), req'[k] = req[k], RowsGrow
  PROVE  WellFormed(k)' /\ PointsTo(k)'
<1>1. req[k] \in Request
  BY DEF CatalogTypeOK
<1>2. WellFormed(k)'
  BY DEF WellFormed
<1>3. PointsTo(k)'
  BY <1>1 DEF PointsTo, RowsGrow, Request, RowId
<1>4. QED
  BY <1>2, <1>3

\* No request is a request of its type.
LEMMA IdleTyped == Idle \in Request
  BY DEF Idle, Request

\* A request ends.
LEMMA EndKeeps ==
  ASSUME CatalogTypeOK, NEW k \in Req, End(k)
  PROVE  /\ req' \in [Req -> Request] /\ req'[k] = Idle
         /\ \A j \in Req \ {k} : req'[j] = req[j]
         /\ WellFormed(k)' /\ PointsTo(k)'
<1>1. /\ req' \in [Req -> Request] /\ req'[k] = Idle
      /\ \A j \in Req \ {k} : req'[j] = req[j]
  BY IdleTyped DEF CatalogTypeOK, End
<1>2. WellFormed(k)' /\ PointsTo(k)'
  BY <1>1 DEF WellFormed, PointsTo, Idle, StepsOf, Publishing, Deploying
<1>3. QED
  BY <1>1, <1>2

\* A request takes its next step.
LEMMA StepKeeps ==
  ASSUME CatalogTypeOK, NEW k \in Req, WellFormed(k), PointsTo(k), RowsGrow,
         NEW pc, Step(k, pc), pc \in StepsOf(req[k].op)
  PROVE  /\ req' \in [Req -> Request] /\ req'[k] = [req[k] EXCEPT !.pc = pc]
         /\ \A j \in Req \ {k} : req'[j] = req[j]
         /\ WellFormed(k)' /\ PointsTo(k)'
<1> DEFINE r == [req[k] EXCEPT !.pc = pc]
<1>1. req \in [Req -> Request] /\ req[k] \in Request
  BY DEF CatalogTypeOK
<1>2. r \in Request
  BY <1>1 DEF Request, StepsOf, Publishing, Deploying
<1>3. r.op = req[k].op /\ r.by = req[k].by /\ r.ver = req[k].ver /\ r.bot = req[k].bot
      /\ r.row = req[k].row /\ r.was = req[k].was /\ r.pc = pc
  BY <1>1 DEF Request
<1>4. req' \in [Req -> Request] /\ req'[k] = r /\ \A j \in Req \ {k} : req'[j] = req[j]
  BY <1>1, <1>2 DEF Step
<1>5. WellFormed(k)'
  BY <1>3, <1>4 DEF WellFormed
<1>6. PointsTo(k)'
  BY <1>1, <1>3, <1>4 DEF PointsTo, RowsGrow, Request, RowId
<1>7. QED
  BY <1>4, <1>5, <1>6

\* A request begins.
LEMMA StartKeeps ==
  ASSUME CatalogTypeOK, NEW k \in Req, NEW r \in Request, Start(k, r),
         r.op \in Publishing \cup Deploying, r.by \in Publisher, r.pc \in StepsOf(r.op),
         r.op \in Publishing => r.bot = Nobody, r.op \in Deploying => r.bot \in Deployed,
         r.op \notin {"deleteAll", "remove"} => r.ver \in Ver, r.row = 0, r.was = 0
  PROVE  /\ req' \in [Req -> Request] /\ req'[k] = r
         /\ \A j \in Req \ {k} : req'[j] = req[j]
         /\ WellFormed(k)' /\ PointsTo(k)'
<1>1. /\ req' \in [Req -> Request] /\ req'[k] = r /\ \A j \in Req \ {k} : req'[j] = req[j]
  BY DEF CatalogTypeOK, Start
<1>2. WellFormed(k)'
  BY <1>1 DEF WellFormed, Publishing, Deploying
<1>3. PointsTo(k)'
  BY <1>1 DEF PointsTo
<1>4. QED
  BY <1>1, <1>2, <1>3

\* The request moves and stays sound, and no other one moves.
Moves(k) == /\ req' \in [Req -> Request]
            /\ \A j \in Req \ {k} : req'[j] = req[j]
            /\ WellFormed(k)' /\ PointsTo(k)'

\* Requests that publish or delete versions read, and store objects.
LEMMA PublisherMoves ==
  ASSUME References, RowsGrow, NEW k \in Req,
         \/ globalBotExists(k) \/ CheckOwner(k) \/ isVersionNewer(k) \/ globalVersionExists(k)
         \/ validateZipStructure(k) \/ extractAndStoreFrontend(k) \/ createNewGlobalVersion(k)
         \/ FindVersion(k) \/ ListVersions(k) \/ RefuseInUse(k) \/ EraseRows(k)
         \/ listObjects(k) \/ WipeObjects(k)
  PROVE  Moves(k)
<1>1. /\ CatalogTypeOK /\ WellFormed(k) /\ PointsTo(k)
      /\ req \in [Req -> Request] /\ req[k] \in Request /\ rows \subseteq Row
      /\ objects \subseteq Object /\ bots \subseteq BotRow
  BY DEF References, CatalogTypeOK
<1>2. ASSUME End(k) PROVE Moves(k)
  BY <1>1, <1>2, EndKeeps DEF Moves
<1>3. ASSUME NEW pc, Step(k, pc), pc \in StepsOf(req[k].op) PROVE Moves(k)
  BY <1>1, <1>3, StepKeeps DEF Moves
<1>4. ASSUME NEW r \in Request, req' = [req EXCEPT ![k] = r], r.op = req[k].op, r.by = req[k].by,
             r.ver = req[k].ver, r.bot = req[k].bot, r.row = req[k].row, r.was = req[k].was,
             r.pc \in StepsOf(r.op)
      PROVE  Moves(k)
  <2>1. req' \in [Req -> Request] /\ req'[k] = r /\ \A j \in Req \ {k} : req'[j] = req[j]
    BY <1>1, <1>4
  <2>2. WellFormed(k)'
    BY <1>1, <1>4, <2>1 DEF WellFormed
  <2>3. PointsTo(k)'
    BY <1>1, <1>4, <2>1 DEF PointsTo, RowsGrow, Request, RowId
  <2>4. QED
    BY <2>1, <2>2, <2>3 DEF Moves
<1>5. req[k].pc \in StepsOf(req[k].op)
        /\ (req[k].op \in Publishing \cup Deploying \/ req[k].op = "none")
  BY <1>1 DEF WellFormed, Request
<1>6. CASE globalBotExists(k)
  BY <1>2, <1>3, <1>5, <1>6 DEF globalBotExists, At, StepsOf, Publishing, Deploying
<1>7. CASE CheckOwner(k)
  BY <1>2, <1>3, <1>5, <1>7 DEF CheckOwner, At, StepsOf, Publishing, Deploying
<1>8. CASE isVersionNewer(k)
  BY <1>2, <1>3, <1>5, <1>8 DEF isVersionNewer, At, StepsOf, Publishing, Deploying
<1>9. CASE globalVersionExists(k)
  BY <1>2, <1>3, <1>5, <1>9 DEF globalVersionExists, At, StepsOf, Publishing, Deploying
<1>10. CASE validateZipStructure(k)
  BY <1>2, <1>3, <1>5, <1>10 DEF validateZipStructure, At, StepsOf, Publishing, Deploying
<1>11. CASE extractAndStoreFrontend(k)
  <2>1. At(k, "frontend") /\ "insert" \in StepsOf(req[k].op)
    BY <1>5, <1>11 DEF extractAndStoreFrontend, At, StepsOf, Publishing, Deploying
  <2>2. CASE Step(k, "insert")
    BY <1>3, <2>1, <2>2
  <2>3. CASE req' = [req EXCEPT ![k] = [@ EXCEPT !.flag = TRUE, !.pc = "insert"]]
    <3> DEFINE r == [req[k] EXCEPT !.flag = TRUE, !.pc = "insert"]
    <3>1. r \in Request /\ r.op = req[k].op /\ r.by = req[k].by /\ r.ver = req[k].ver
          /\ r.bot = req[k].bot /\ r.row = req[k].row /\ r.was = req[k].was /\ r.pc = "insert"
      BY <1>1 DEF Request
    <3>2. req' = [req EXCEPT ![k] = r]
      BY <2>3
    <3> HIDE DEF r
    <3>3. QED
      BY <1>4, <2>1, <3>1, <3>2
  <2>4. QED
    BY <1>11, <2>2, <2>3 DEF extractAndStoreFrontend
<1>12. CASE createNewGlobalVersion(k)
  BY <1>2, <1>12 DEF createNewGlobalVersion
<1>13. CASE FindVersion(k)
  <2>1. "inUse" \in StepsOf(req[k].op)
    BY <1>5, <1>13 DEF FindVersion, At, StepsOf, Publishing, Deploying
  <2>2. ASSUME NEW w \in rows,
               req' = [req EXCEPT ![k] = [@ EXCEPT !.ids = {w.id}, !.from = w.by, !.pc = "inUse"]]
        PROVE  Moves(k)
    <3> DEFINE r == [req[k] EXCEPT !.ids = {w.id}, !.from = w.by, !.pc = "inUse"]
    <3>0. w.id \in RowId /\ w.by \in Publisher
      BY <1>1 DEF Row
    <3>1. r \in Request /\ r.op = req[k].op /\ r.by = req[k].by /\ r.ver = req[k].ver
          /\ r.bot = req[k].bot /\ r.row = req[k].row /\ r.was = req[k].was /\ r.pc = "inUse"
      BY <1>1, <3>0 DEF Request
    <3>2. req' = [req EXCEPT ![k] = r]
      BY <2>2
    <3> HIDE DEF r
    <3>3. QED
      BY <1>4, <2>1, <3>1, <3>2
  <2>3. QED
    BY <1>2, <1>13, <2>2 DEF FindVersion, getSpecificGlobalVersion
<1>14. CASE ListVersions(k)
  <2>1. "inUse" \in StepsOf(req[k].op) /\ req[k].by \in Publisher
    BY <1>1, <1>5, <1>14 DEF ListVersions, At, StepsOf, Publishing, Deploying, WellFormed
  <2>2. ASSUME req' = [req EXCEPT ![k] = [@ EXCEPT !.ids = {r.id : r \in getAllGlobalVersions},
                                                   !.from = req[k].by, !.pc = "inUse"]]
        PROVE  Moves(k)
    <3> DEFINE r == [req[k] EXCEPT !.ids = {x.id : x \in rows}, !.from = req[k].by, !.pc = "inUse"]
    <3>0. {x.id : x \in rows} \subseteq RowId
      BY <1>1 DEF Row
    <3>1. r \in Request /\ r.op = req[k].op /\ r.by = req[k].by /\ r.ver = req[k].ver
          /\ r.bot = req[k].bot /\ r.row = req[k].row /\ r.was = req[k].was /\ r.pc = "inUse"
      BY <1>1, <2>1, <3>0 DEF Request
    <3>2. req' = [req EXCEPT ![k] = r]
      BY <2>2 DEF getAllGlobalVersions
    <3> HIDE DEF r
    <3>3. QED
      BY <1>4, <2>1, <3>1, <3>2
  <2>3. QED
    BY <1>2, <1>14, <2>2 DEF ListVersions
<1>15. CASE RefuseInUse(k)
  <2>1. "erase" \in StepsOf(req[k].op)
    BY <1>5, <1>15 DEF RefuseInUse, At, StepsOf, Publishing, Deploying
  <2>2. CASE req' = [req EXCEPT ![k] = [@ EXCEPT !.bots = bots, !.pc = "erase"]]
    <3> DEFINE r == [req[k] EXCEPT !.bots = bots, !.pc = "erase"]
    <3>1. r \in Request /\ r.op = req[k].op /\ r.by = req[k].by /\ r.ver = req[k].ver
          /\ r.bot = req[k].bot /\ r.row = req[k].row /\ r.was = req[k].was /\ r.pc = "erase"
      BY <1>1 DEF Request
    <3>2. req' = [req EXCEPT ![k] = r]
      BY <2>2
    <3> HIDE DEF r
    <3>3. QED
      BY <1>4, <2>1, <3>1, <3>2
  <2>3. QED
    BY <1>2, <1>15, <2>2 DEF RefuseInUse
<1>16. CASE EraseRows(k)
  BY <1>3, <1>5, <1>16 DEF EraseRows, At, StepsOf, Publishing, Deploying
<1>17. CASE listObjects(k)
  <2>1. "wipe" \in StepsOf(req[k].op)
    BY <1>5, <1>17 DEF listObjects, At, StepsOf, Publishing, Deploying
  <2>2. req' = [req EXCEPT ![k] = [@ EXCEPT !.list = {o \in objects : Under(k, o)}, !.pc = "wipe"]]
    BY <1>17 DEF listObjects
  <2> DEFINE r == [req[k] EXCEPT !.list = {o \in objects : Under(k, o)}, !.pc = "wipe"]
  <2>3. r \in Request /\ r.op = req[k].op /\ r.by = req[k].by /\ r.ver = req[k].ver
        /\ r.bot = req[k].bot /\ r.row = req[k].row /\ r.was = req[k].was /\ r.pc = "wipe"
    <3> DEFINE L == {o \in objects : Under(k, o)}
    <3>1. L \in SUBSET Object
      BY <1>1
    <3> HIDE DEF L
    <3>2. QED
      BY <1>1, <3>1 DEF Request
  <2>4. req' = [req EXCEPT ![k] = r]
    BY <2>2
  <2> HIDE DEF r
  <2>5. QED
    BY <1>4, <2>1, <2>3, <2>4
<1>18. CASE WipeObjects(k)
  BY <1>2, <1>18 DEF WipeObjects
<1>19. QED
  BY <1>6, <1>7, <1>8, <1>9, <1>10, <1>11, <1>12, <1>13, <1>14, <1>15, <1>16, <1>17, <1>18

\* Requests that deploy, upgrade and remove bots.
LEMMA DeployerMoves ==
  ASSUME References, RowsGrow, NEW k \in Req,
         \/ validateBotTypeAndConfig(k) \/ InsertBot(k) \/ ReadBot(k) \/ StoreBot(k)
         \/ RereadBot(k) \/ getTopics(k) \/ RemoveBot(k) \/ PublishEvent(k) \/ PublishFails(k)
  PROVE  Moves(k)
<1>1. /\ CatalogTypeOK /\ WellFormed(k) /\ PointsTo(k) /\ RowsNumbered
      /\ req \in [Req -> Request] /\ req[k] \in Request /\ rows \subseteq Row
      /\ bots \subseteq BotRow /\ inserted \in 0..MaxRow /\ MaxRow \in Nat
  BY CatalogConstants DEF References, CatalogTypeOK
<1>2. ASSUME End(k) PROVE Moves(k)
  BY <1>1, <1>2, EndKeeps DEF Moves
<1>3. ASSUME NEW pc, Step(k, pc), pc \in StepsOf(req[k].op) PROVE Moves(k)
  BY <1>1, <1>3, StepKeeps DEF Moves
<1>5. req[k].pc \in StepsOf(req[k].op)
        /\ (req[k].op \in Publishing \cup Deploying \/ req[k].op = "none")
  BY <1>1 DEF WellFormed, Request
<1>6. CASE validateBotTypeAndConfig(k)
  <2>1. ASSUME NEW w \in rows, w.ver = req[k].ver,
               req' = [req EXCEPT ![k] = [@ EXCEPT !.row = w.id,
                                            !.pc = IF req[k].op = "upgrade" THEN "read"
                                              ELSE "insert"]]
        PROVE  Moves(k)
    <3> DEFINE pc == IF req[k].op = "upgrade" THEN "read" ELSE "insert"
               r == [req[k] EXCEPT !.row = w.id, !.pc = pc]
    <3>0. w.id \in RowId /\ w.id <= inserted
      BY <1>1 DEF Row, RowsNumbered
    <3>9. pc \in {"read", "insert"} /\ (req[k].op = "upgrade" <=> pc = "read")
      OBVIOUS
    <3>10. req' = [req EXCEPT ![k] = [@ EXCEPT !.row = w.id, !.pc = pc]]
      BY <2>1
    <3> HIDE DEF pc
    <3>1. r \in Request /\ r.op = req[k].op /\ r.by = req[k].by /\ r.ver = req[k].ver
          /\ r.bot = req[k].bot /\ r.row = w.id /\ r.was = req[k].was /\ r.pc = pc
      BY <1>1, <3>0, <3>9 DEF Request
    <3>2. req' = [req EXCEPT ![k] = r]
      BY <3>10
    <3> HIDE DEF r
    <3>3. req' \in [Req -> Request] /\ req'[k] = r /\ \A j \in Req \ {k} : req'[j] = req[j]
      BY <1>1, <3>1, <3>2
    <3>4. req[k].op \in {"deploy", "mcpDeploy", "upgrade"}
      BY <1>5, <1>6 DEF validateBotTypeAndConfig, At, StepsOf, Publishing, Deploying
    <3>5. WellFormed(k)'
      BY <1>1, <3>9, <3>1, <3>3, <3>4 DEF WellFormed, StepsOf, Publishing, Deploying
    <3>6. \A x \in rows' : x.id = w.id => x = w
      BY <1>1, <3>0 DEF RowsGrow, RowsNumbered, RowId
    <3>7. PointsTo(k)'
      BY <1>1, <2>1, <3>0, <3>1, <3>3, <3>4, <3>6 DEF PointsTo, RowsGrow, Request, RowId
    <3>8. QED
      BY <3>3, <3>5, <3>7 DEF Moves
  <2>2. QED
    BY <1>2, <1>6, <2>1 DEF validateBotTypeAndConfig, getSpecificGlobalVersion
<1>7. CASE InsertBot(k)
  <2>1. req[k].op = "deploy" => "publish" \in StepsOf(req[k].op)
    BY DEF StepsOf
  <2>2. QED
    BY <1>2, <1>3, <1>7, <2>1 DEF InsertBot
<1>8. CASE ReadBot(k)
  <2>1. ASSUME NEW d \in bots, d.id = req[k].bot, req[k].op = "upgrade",
               req' = [req EXCEPT ![k] =
                 [@ EXCEPT !.was = IF d.ver = req[k].ver THEN d.cb ELSE req[k].row,
                                                   !.pc = "store"]]
        PROVE  Moves(k)
    <3> DEFINE c == IF d.ver = req[k].ver THEN d.cb ELSE req[k].row
               r == [req[k] EXCEPT !.was = c, !.pc = "store"]
    <3>0. PICK w \in rows : w.id = d.cb /\ (w.ver = d.ver \/ d.id \in patched)
      BY DEF References, BotsReferToTheirVersion
    <3>1. d.cb \in RowId /\ d.cb <= inserted /\ \A x \in rows : x.id = d.cb => x = w
      BY <1>1, <3>0 DEF BotRow, RowsNumbered
    <3>2. /\ c \in RowId \cup {0}
          /\ c # 0 => c <= inserted /\ \A x \in rows : x.id = c => x.ver = req[k].ver
                                                                 \/ req[k].bot \in patched
      <4>1. CASE d.ver = req[k].ver
        <5>1. c = d.cb
          BY <4>1
        <5>2. w.ver = req[k].ver \/ req[k].bot \in patched
          BY <2>1, <3>0, <4>1
        <5>3. QED
          BY <3>1, <5>1, <5>2
      <4>2. CASE d.ver # req[k].ver
        <5>1. c = req[k].row
          BY <4>2
        <5>2. req[k] \in Request
          BY <1>1
        <5>3. req[k].row \in RowId \cup {0}
          BY <5>2 DEF Request
        <5>4. QED
          BY <1>1, <2>1, <5>1, <5>3 DEF PointsTo
      <4>3. QED
        BY <4>1, <4>2
    <3> HIDE DEF c
    <3>3. r \in Request /\ r.op = "upgrade" /\ r.by = req[k].by /\ r.ver = req[k].ver
          /\ r.bot = req[k].bot /\ r.row = req[k].row /\ r.was = c /\ r.pc = "store"
      <4>1. req[k] \in Request /\ req[k].op = "upgrade"
        BY <1>1, <2>1
      <4>2. c \in RowId \cup {0}
        BY <3>2
      <4>3. QED
        BY <4>1, <4>2 DEF Request
    <3>4. req' = [req EXCEPT ![k] = r]
      BY <2>1 DEF c
    <3> HIDE DEF r
    <3>5. req' \in [Req -> Request] /\ req'[k] = r /\ \A j \in Req \ {k} : req'[j] = req[j]
      BY <1>1, <3>3, <3>4
    <3>6. WellFormed(k)'
      BY <1>1, <2>1, <3>3, <3>5 DEF WellFormed, StepsOf, Publishing, Deploying
    <3>7. PointsTo(k)'
      BY <1>1, <3>2, <3>3, <3>5 DEF PointsTo, RowsGrow, Request, RowId
    <3>8. QED
      BY <3>5, <3>6, <3>7 DEF Moves
  <2>2. ASSUME NEW d \in bots, req[k].op = "remove",
               req' = [req EXCEPT ![k] = [@ EXCEPT !.ver = d.ver, !.pc = "lookup"]]
        PROVE  Moves(k)
    <3> DEFINE r == [req[k] EXCEPT !.ver = d.ver, !.pc = "lookup"]
    <3>1. r \in Request /\ r.op = "remove" /\ r.by = req[k].by /\ r.ver = d.ver
          /\ r.bot = req[k].bot /\ r.row = req[k].row /\ r.was = req[k].was /\ r.pc = "lookup"
      BY <1>1, <2>2 DEF Request, BotRow
    <3>2. req' = [req EXCEPT ![k] = r]
      BY <2>2
    <3> HIDE DEF r
    <3>3. req' \in [Req -> Request] /\ req'[k] = r /\ \A j \in Req \ {k} : req'[j] = req[j]
      BY <1>1, <3>1, <3>2
    <3>4. WellFormed(k)'
      BY <1>1, <2>2, <3>1, <3>3 DEF WellFormed, StepsOf, Publishing, Deploying
    <3>5. PointsTo(k)'
      BY <1>1, <2>2, <3>1, <3>3 DEF PointsTo
    <3>6. QED
      BY <3>3, <3>4, <3>5 DEF Moves
  <2>3. QED
    BY <1>2, <1>8, <2>1, <2>2 DEF ReadBot, Deployments
<1>9. CASE StoreBot(k)
  BY <1>2, <1>3, <1>9 DEF StoreBot, StepsOf
<1>10. CASE RereadBot(k)
  BY <1>2, <1>3, <1>5, <1>10 DEF RereadBot, At, StepsOf, Publishing, Deploying
<1>11. CASE getTopics(k)
  <2>1. ASSUME NEW f \in BOOLEAN, req[k].op = "remove",
               req' = [req EXCEPT ![k] = [@ EXCEPT !.flag = f, !.pc = "store"]]
        PROVE  Moves(k)
    <3> DEFINE r == [req[k] EXCEPT !.flag = f, !.pc = "store"]
    <3>1. r \in Request /\ r.op = "remove" /\ r.by = req[k].by /\ r.ver = req[k].ver
          /\ r.bot = req[k].bot /\ r.row = req[k].row /\ r.was = req[k].was /\ r.pc = "store"
      BY <1>1, <2>1 DEF Request
    <3>2. req' = [req EXCEPT ![k] = r]
      BY <2>1
    <3> HIDE DEF r
    <3>3. req' \in [Req -> Request] /\ req'[k] = r /\ \A j \in Req \ {k} : req'[j] = req[j]
      BY <1>1, <3>1, <3>2
    <3>4. WellFormed(k)'
      BY <1>1, <2>1, <3>1, <3>3 DEF WellFormed, StepsOf, Publishing, Deploying
    <3>5. PointsTo(k)'
      BY <1>1, <2>1, <3>1, <3>3 DEF PointsTo
    <3>6. QED
      BY <3>3, <3>4, <3>5 DEF Moves
  <2> DEFINE known == getSpecificUserVersion(req[k].by, req[k].ver) # {}
  <2>2. CASE req[k].op = "remove"
    <3>1. known \in BOOLEAN /\ req' = [req EXCEPT ![k] = [@ EXCEPT !.flag = known, !.pc = "store"]]
      BY <1>11, <2>2 DEF getTopics
    <3> HIDE DEF known
    <3>2. QED
      BY <2>1, <2>2, <3>1
  <2>3. CASE req[k].op # "remove"
    <3>1. "publish" \in StepsOf(req[k].op)
      BY <1>5, <1>11, <2>3 DEF getTopics, At, StepsOf, Publishing, Deploying
    <3>2. QED
      BY <1>2, <1>3, <1>11, <2>3, <3>1 DEF getTopics
  <2>4. QED
    BY <2>2, <2>3
<1>12. CASE RemoveBot(k)
  <2>1. "publish" \in StepsOf(req[k].op)
    BY <1>12 DEF RemoveBot, Doing, StepsOf
  <2>2. QED
    BY <1>2, <1>3, <1>12, <2>1 DEF RemoveBot
<1>13. CASE PublishEvent(k) \/ PublishFails(k)
  BY <1>2, <1>13 DEF PublishEvent, PublishFails
<1>14. QED
  BY <1>6, <1>7, <1>8, <1>9, <1>10, <1>11, <1>12, <1>13

\* The tables of custom bots and of bots.
Tables ==
  /\ rows \subseteq Row /\ inserted \in 0..MaxRow
  /\ bots \subseteq BotRow /\ IsFiniteSet(bots) /\ patched \subseteq Deployed
  /\ RowsNumbered
  /\ BotsReferToTheirVersion

\* A step that leaves the tables alone.
LEMMA TablesStay ==
  ASSUME Tables, UNCHANGED <<rows, inserted, bots, patched>>
  PROVE  Tables' /\ RowsGrow
<1>1. RowsGrow
  BY CatalogConstants DEF Tables, RowsGrow
<1>2. Tables'
  BY DEF Tables, RowsNumbered, BotsReferToTheirVersion
<1>3. QED
  BY <1>1, <1>2

\* What deleting a bot leaves.
LEMMA FewerBots ==
  ASSUME Tables, UNCHANGED <<rows, inserted>>, bots' \subseteq bots, patched' = patched
  PROVE  Tables' /\ RowsGrow
<1>1. RowsGrow
  BY CatalogConstants DEF Tables, RowsGrow
<1>2. IsFiniteSet(bots')
  BY FS_Subset DEF Tables
<1>3. Tables'
  BY <1>2 DEF Tables, RowsNumbered, BotsReferToTheirVersion
<1>4. QED
  BY <1>1, <1>3

\* A version is published, under an id of its own.
LEMMA PublishedTables ==
  ASSUME References, Tables, NEW k \in Req, createNewGlobalVersion(k)
  PROVE  Tables' /\ RowsGrow
<1> DEFINE r == [id |-> inserted + 1, by |-> req[k].by, ver |-> req[k].ver, front |-> req[k].flag]
<1>1. WellFormed(k) /\ req[k] \in Request /\ MaxRow \in Nat /\ inserted \in 0..MaxRow
  BY CatalogConstants DEF References, CatalogTypeOK
<1>2. /\ inserted < MaxRow /\ inserted' = inserted + 1 /\ rows' = rows \cup {r}
      /\ bots' = bots /\ patched' = patched
      /\ req[k].op \in Publishing /\ req[k].pc = "insert"
  BY DEF createNewGlobalVersion, history, At, Doing
<1>3. r \in Row /\ r.id = inserted + 1
  BY <1>1, <1>2 DEF Row, RowId, WellFormed, Publishing, StepsOf, Request
<1> HIDE DEF r
<1>4. \A x \in rows : x.id \in RowId /\ x.id <= inserted
  BY DEF Tables, RowsNumbered, Row
<1>5. RowsGrow
  BY <1>1, <1>2, <1>3 DEF RowsGrow
<1>6. RowsNumbered'
  BY <1>1, <1>2, <1>3, <1>4 DEF Tables, RowsNumbered, RowId
<1>7. BotsReferToTheirVersion'
  BY <1>2 DEF Tables, BotsReferToTheirVersion
<1>8. QED
  BY <1>1, <1>2, <1>3, <1>5, <1>6, <1>7 DEF Tables

\* Versions are deleted, and the bots that refer to them.
LEMMA ErasedTables ==
  ASSUME Tables, NEW S, S \subseteq rows, DeleteRows(S), UNCHANGED <<inserted, patched>>
  PROVE  Tables' /\ RowsGrow
<1>1. rows' = rows \ S /\ bots' = bots \ {d \in bots : \E r \in S : r.id = d.cb}
  BY DEF DeleteRows
<1>2. RowsGrow
  BY <1>1, CatalogConstants DEF RowsGrow, Tables
<1>3. BotsReferToTheirVersion'
  BY <1>1 DEF Tables, BotsReferToTheirVersion
<1>4. RowsNumbered'
  BY <1>1 DEF Tables, RowsNumbered
<1>5. IsFiniteSet(bots')
  BY <1>1, FS_Subset DEF Tables
<1>6. QED
  BY <1>1, <1>2, <1>3, <1>4, <1>5 DEF Tables

\* A bot is deployed from a version that is there.
LEMMA DeployedTables ==
  ASSUME References, Tables, NEW k \in Req, InsertBot(k)
  PROVE  Tables' /\ RowsGrow
<1> DEFINE q == req[k]
           d == [id |-> q.bot, by |-> q.by, cb |-> q.row, ver |-> q.ver]
<1>1. WellFormed(k) /\ PointsTo(k) /\ q \in Request
  BY DEF References, CatalogTypeOK
<1>2. UNCHANGED <<rows, inserted, patched>> /\ q.op \in Deploying /\ q.pc = "insert"
  BY DEF InsertBot, At, Doing
<1>3. CASE ~\E r \in rows : r.id = q.row
  BY <1>2, <1>3, TablesStay DEF InsertBot
<1>4. ASSUME NEW r \in rows, r.id = q.row PROVE Tables' /\ RowsGrow
  <2>1. bots' = bots \cup {d}
    BY <1>4 DEF InsertBot
  <2>2. r \in Row /\ r.id \in RowId
    BY DEF Tables, Row
  <2>3. q.op \in {"deploy", "mcpDeploy"} /\ q.bot \in Deployed /\ q.by \in Publisher
          /\ q.ver \in Ver
    BY <1>1, <1>2 DEF WellFormed, StepsOf, Deploying
  <2>4. d \in BotRow
    BY <1>4, <2>2, <2>3 DEF BotRow
  <2>5. r.ver = q.ver
    BY <1>1, <1>4, <2>2 DEF PointsTo, RowId
  <2>6. d.cb = r.id /\ d.ver = r.ver
    BY <1>4, <2>5
  <2> HIDE DEF d, q
  <2>7. BotsReferToTheirVersion'
    BY <1>2, <2>1, <2>6 DEF Tables, BotsReferToTheirVersion
  <2>8. IsFiniteSet(bots')
    BY <2>1, FS_AddElement DEF Tables
  <2>9. RowsGrow
    BY <1>2, CatalogConstants DEF Tables, RowsGrow
  <2>10. QED
    BY <1>2, <2>1, <2>4, <2>7, <2>8, <2>9 DEF Tables, RowsNumbered
<1>5. QED
  BY <1>3, <1>4

\* The rows of some bots change, each into a row of the table's type.
LEMMA ChangedTables ==
  ASSUME Tables, NEW f \in [bots -> BotRow], bots' = {f[d] : d \in bots},
         UNCHANGED <<rows, inserted>>, patched \subseteq patched', patched' \subseteq Deployed,
         \A d \in bots : \/ f[d] = d
                         \/ \E r \in rows : /\ r.id = f[d].cb
                                            /\ r.ver = f[d].ver \/ f[d].id \in patched'
  PROVE  Tables' /\ RowsGrow
<1>1. IsFiniteSet(bots')
  <2>1. bots' = {f[d] : d \in bots}
    OBVIOUS
  <2>2. f \in Surjection(bots, bots')
    BY <2>1 DEF Surjection
  <2>3. QED
    BY <2>2, FS_Surjection DEF Tables
<1>2. BotsReferToTheirVersion'
  BY DEF Tables, BotsReferToTheirVersion
<1>3. RowsGrow
  BY CatalogConstants DEF Tables, RowsGrow
<1>4. QED
  BY <1>1, <1>2, <1>3 DEF Tables, RowsNumbered

\* An upgrade is stored.
LEMMA StoredTables ==
  ASSUME References, Tables, NEW k \in Req, StoreBot(k)
  PROVE  Tables' /\ RowsGrow
<1> DEFINE q == req[k]
           f == [d \in bots |-> IF d.id = q.bot THEN [d EXCEPT !.ver = q.ver, !.cb = q.was] ELSE d]
<1>1. WellFormed(k) /\ PointsTo(k) /\ q \in Request
  BY DEF References, CatalogTypeOK
<1>2. UNCHANGED <<rows, inserted, patched>> /\ q.op = "upgrade"
  BY DEF StoreBot
<1>3. CASE bots' = bots
  BY <1>2, <1>3, TablesStay
<1>4. ASSUME NEW r \in rows, r.id = q.was,
             bots' = {IF d.id = q.bot THEN [d EXCEPT !.ver = q.ver, !.cb = q.was]
               ELSE d : d \in bots}
      PROVE  Tables' /\ RowsGrow
  <2>1. bots' = {f[d] : d \in bots}
    BY <1>4
  <2>2. r \in Row /\ r.id \in RowId
    BY DEF Tables, Row
  <2>3. q.ver \in Ver
    BY <1>1, <1>2 DEF WellFormed
  <2>4. r.ver = q.ver \/ q.bot \in patched
    <3> HIDE DEF f
    <3>0. r.id = q.was /\ r.id \in 1..MaxRow
      BY <1>4, <2>2 DEF RowId
    <3>1. q.was # 0
      BY <3>0, CatalogConstants
    <3>2. q.was # 0 => \A x \in rows : x.id = q.was => x.ver = q.ver \/ q.bot \in patched
      BY <1>1 DEF PointsTo
    <3> HIDE DEF q
    <3>3. QED
      BY <1>4, <3>1, <3>2
  <2>5. ASSUME NEW d \in bots
        PROVE  /\ f[d] \in BotRow
               /\ f[d] = d \/ (f[d].cb = r.id /\ f[d].ver = q.ver /\ f[d].id = q.bot)
    <3>1. d \in BotRow
      BY DEF Tables
    <3>2. [d EXCEPT !.ver = q.ver, !.cb = q.was] \in BotRow
          /\ [d EXCEPT !.ver = q.ver, !.cb = q.was].cb = r.id
          /\ [d EXCEPT !.ver = q.ver, !.cb = q.was].ver = q.ver
          /\ [d EXCEPT !.ver = q.ver, !.cb = q.was].id = d.id
      BY <1>4, <2>2, <2>3, <3>1 DEF BotRow
    <3>3. f[d] = IF d.id = q.bot THEN [d EXCEPT !.ver = q.ver, !.cb = q.was] ELSE d
      OBVIOUS
    <3> HIDE DEF f, q
    <3>4. QED
      BY <3>1, <3>2, <3>3
  <2>6. f \in [bots -> BotRow]
    BY <2>5
  <2> HIDE DEF f
  <2>7. \A d \in bots : \/ f[d] = d
                        \/ \E x \in rows : /\ x.id = f[d].cb
                                           /\ x.ver = f[d].ver \/ f[d].id \in patched'
    BY <1>2, <2>4, <2>5
  <2>8. patched \subseteq patched' /\ patched' \subseteq Deployed
    BY <1>2 DEF Tables
  <2>9. QED
    BY <1>2, <2>1, <2>6, <2>7, <2>8, ChangedTables
<1>5. QED
  BY <1>3, <1>4 DEF StoreBot

\* An MCP tool replaces the config of a bot.
LEMMA PatchedTables ==
  ASSUME Tables, NEW u \in Publisher, NEW b \in Deployed, NEW v \in Ver, handleBotUpdate(u, b, v)
  PROVE  Tables' /\ RowsGrow
<1> DEFINE f == [d \in bots |-> IF d.id = b /\ d.by = u THEN [d EXCEPT !.ver = v] ELSE d]
<1>1. UNCHANGED <<rows, inserted>> /\ patched' = patched \cup {b} /\ bots' = {f[d] : d \in bots}
  BY DEF handleBotUpdate
<1>2. ASSUME NEW d \in bots
      PROVE  f[d] \in BotRow /\ (f[d] = d \/ (f[d].id = b /\ f[d].cb = d.cb))
  <2>1. d \in BotRow
    BY DEF Tables
  <2>2. [d EXCEPT !.ver = v] \in BotRow /\ [d EXCEPT !.ver = v].id = d.id
        /\ [d EXCEPT !.ver = v].cb = d.cb
    BY <2>1 DEF BotRow
  <2>3. QED
    BY <2>1, <2>2
<1>3. f \in [bots -> BotRow]
  BY <1>2
<1> HIDE DEF f
<1>4. \A d \in bots : \E r \in rows : r.id = d.cb
  BY DEF Tables, BotsReferToTheirVersion
<1>5. \A d \in bots : \/ f[d] = d
                      \/ \E r \in rows : /\ r.id = f[d].cb
                                         /\ r.ver = f[d].ver \/ f[d].id \in patched'
  BY <1>1, <1>2, <1>4
<1>6. patched \subseteq patched' /\ patched' \subseteq Deployed
  BY <1>1 DEF Tables
<1>7. QED
  BY <1>1, <1>3, <1>5, <1>6, ChangedTables

\* The tables after any step.
LEMMA TablesStep ==
  ASSUME References, CatalogNext
  PROVE  Tables' /\ RowsGrow
<1>1. Tables
  BY DEF References, Tables, CatalogTypeOK
<1>2. ASSUME NEW k \in Req, CatalogStep(k) PROVE Tables' /\ RowsGrow
  <2>1. CASE createNewGlobalVersion(k)
    BY <1>1, <2>1, PublishedTables
  <2>2. CASE EraseRows(k)
    <3> DEFINE S == {r \in rows : /\ r.by = req[k].by
                                  /\ req[k].op = "deleteVersion" => r.id \in req[k].ids}
    <3>1. S \subseteq rows /\ DeleteRows(S) /\ UNCHANGED <<inserted, patched>>
      BY <2>2 DEF EraseRows
    <3> HIDE DEF S
    <3>2. QED
      BY <1>1, <3>1, ErasedTables
  <2>3. CASE InsertBot(k)
    BY <1>1, <2>3, DeployedTables
  <2>4. CASE StoreBot(k)
    BY <1>1, <2>4, StoredTables
  <2>5. CASE RemoveBot(k)
    BY <1>1, <2>5, FewerBots DEF RemoveBot, history
  <2>6. ASSUME ~createNewGlobalVersion(k), ~EraseRows(k), ~InsertBot(k), ~StoreBot(k), ~RemoveBot(k)
        PROVE  UNCHANGED <<rows, inserted, bots, patched>>
    BY <1>2, <2>6
    DEF CatalogStep, globalBotExists, CheckOwner, isVersionNewer, globalVersionExists,
        validateZipStructure, extractAndStoreFrontend, FindVersion, ListVersions, RefuseInUse,
        listObjects, WipeObjects, validateBotTypeAndConfig, ReadBot, RereadBot, getTopics,
        PublishEvent, PublishFails, Unread, tables, history
  <2>7. QED
    BY <1>1, <2>1, <2>2, <2>3, <2>4, <2>5, <2>6, TablesStay
<1>3. ASSUME NEW u \in Publisher, CatalogCall(u) PROVE Tables' /\ RowsGrow
  <2>1. ASSUME NEW b \in Deployed, NEW v \in Ver, handleBotUpdate(u, b, v)
        PROVE  Tables' /\ RowsGrow
    BY <1>1, <2>1, PatchedTables
  <2>2. ASSUME NEW b \in Deployed, handleBotDelete(u, b) PROVE Tables' /\ RowsGrow
    BY <1>1, <2>2, FewerBots DEF handleBotDelete
  <2>3. CASE ~\E b \in Deployed : \/ \E v \in Ver : handleBotUpdate(u, b, v)
                                  \/ handleBotDelete(u, b)
    <3>1. UNCHANGED <<rows, inserted, bots, patched>>
      BY <1>3, <2>3
      DEF CatalogCall, uploadFile, createCustomBot, updateCustomBot, deleteVersion,
          deleteAllVersions, create, update, handleBotDeploy, remove, Publish, Unpublish,
          BeginBot, tables, history
    <3>2. QED
      BY <1>1, <3>1, TablesStay
  <2>4. QED
    BY <2>1, <2>2, <2>3
<1>4. QED
  BY <1>2, <1>3 DEF CatalogNext

\* The rest of the types.
LEMMA RestTyped ==
  ASSUME References, CatalogNext
  PROVE  /\ objects' \subseteq Object /\ told' \in [Deployed -> Ver \cup {0}]
         /\ served' \in 0..MaxReq /\ missed' \in 0..MaxMiss /\ overlap' \in BOOLEAN
         /\ foreign' \subseteq Deployed /\ adrift' \subseteq Deployed
<1>1. /\ CatalogTypeOK /\ \A k \in Req : WellFormed(k) /\ req[k] \in Request
      /\ MaxReq \in Nat /\ MaxMiss \in Nat
  BY CatalogConstants DEF References, CatalogTypeOK
<1> DEFINE Rest == /\ objects' \subseteq Object /\ told' \in [Deployed -> Ver \cup {0}]
                   /\ served' \in 0..MaxReq /\ missed' \in 0..MaxMiss /\ overlap' \in BOOLEAN
                   /\ foreign' \subseteq Deployed /\ adrift' \subseteq Deployed
<1>2. ASSUME NEW k \in Req, CatalogStep(k) PROVE Rest
  <2>1. req[k].op \in Deploying => req[k].bot \in Deployed
    BY <1>1 DEF WellFormed
  <2>2. req[k].op \in Publishing \cup Deploying => req[k].by \in Publisher
    BY <1>1 DEF WellFormed, Publishing, Deploying
  <2>3. req[k].pc \in StepsOf(req[k].op) /\ req[k].op \in Publishing \cup Deploying \cup {"none"}
    BY <1>1 DEF WellFormed, Request
  <2>4. req[k].pc = "frontend" => req[k].by \in Publisher /\ req[k].ver \in Ver
    BY <1>1, <2>2, <2>3 DEF StepsOf, Publishing, Deploying, WellFormed
  <2>5. req[k].pc = "publish" => req[k].bot \in Deployed /\ req[k].ver \in Ver \cup {0}
    BY <1>1, <2>1, <2>3 DEF StepsOf, Publishing, Deploying, Request
  <2>6. CASE extractAndStoreFrontend(k)
    <3>1. req[k].by \in Publisher /\ req[k].ver \in Ver
      BY <2>4, <2>6 DEF extractAndStoreFrontend, At
    <3>2. Frontend(req[k].by, req[k].ver) \in Object
      BY <3>1 DEF Frontend, Object
    <3>3. QED
      BY <1>1, <2>6, <3>2 DEF extractAndStoreFrontend, CatalogTypeOK, tables, history
  <2>7. CASE WipeObjects(k)
    BY <1>1, <2>7 DEF WipeObjects, CatalogTypeOK, tables, history, Miss
  <2>8. CASE EraseRows(k)
    <3>1. adrift' \subseteq Deployed
      BY <1>1, <2>8 DEF EraseRows, DeleteRows, CatalogTypeOK, BotRow
    <3>2. QED
      BY <1>1, <2>8, <3>1 DEF EraseRows, CatalogTypeOK
  <2>9. CASE InsertBot(k)
    <3>1. req[k].bot \in Deployed
      BY <2>1, <2>9 DEF InsertBot, Doing
    <3>2. QED
      BY <1>1, <2>9, <3>1 DEF InsertBot, CatalogTypeOK, Excuse
  <2>10. CASE StoreBot(k)
    <3>1. req[k].bot \in Deployed
      BY <2>1, <2>10 DEF StoreBot, Deploying
    <3>2. QED
      BY <1>1, <2>10, <3>1 DEF StoreBot, CatalogTypeOK
  <2>11. CASE PublishEvent(k)
    BY <1>1, <2>5, <2>11 DEF PublishEvent, CatalogTypeOK, tables, history, At
  <2>12. CASE PublishFails(k)
    BY <1>1, <2>5, <2>12 DEF PublishFails, CatalogTypeOK, tables, Excuse, At, Miss
  <2>13. CASE ~(\/ extractAndStoreFrontend(k) \/ WipeObjects(k) \/ EraseRows(k) \/ InsertBot(k)
                \/ StoreBot(k) \/ PublishEvent(k) \/ PublishFails(k))
    <3>1. UNCHANGED <<objects, told, served, missed, overlap, foreign, adrift>>
      BY <1>2, <2>13
      DEF CatalogStep, globalBotExists, CheckOwner, isVersionNewer, globalVersionExists,
          validateZipStructure, createNewGlobalVersion, FindVersion, ListVersions, RefuseInUse,
          listObjects, validateBotTypeAndConfig, ReadBot, RereadBot, getTopics, RemoveBot,
          Unread, tables, history
    <3>2. QED
      BY <1>1, <3>1 DEF CatalogTypeOK
  <2>14. QED
    BY <2>6, <2>7, <2>8, <2>9, <2>10, <2>11, <2>12, <2>13
<1>3. ASSUME NEW u \in Publisher, CatalogCall(u) PROVE Rest
  <2>1. ASSUME NEW v \in Ver, uploadFile(u, v) PROVE Rest
    <3>1. Code(u, v) \in Object
      BY DEF Code, Object
    <3>2. QED
      BY <1>1, <2>1, <3>1 DEF uploadFile, CatalogTypeOK, tables, history
  <2>2. ASSUME NEW k \in Req, NEW op, NEW v, NEW pc,
               Publish(k, op, u, v, pc) \/ Unpublish(k, op, u, v) PROVE Rest
    <3>1. overlap' \in BOOLEAN
      BY <2>2, Zenon DEF Publish, Unpublish
    <3>2. QED
      BY <1>1, <2>2, <3>1 DEF Publish, Unpublish, Start, CatalogTypeOK, tables
  <2>3. ASSUME NEW k \in Req, NEW op, NEW b \in Deployed, NEW v, NEW pc,
               BeginBot(k, op, u, b, v, pc) PROVE Rest
    BY <1>1, <2>3 DEF BeginBot, Start, CatalogTypeOK, tables
  <2>4. ASSUME NEW b \in Deployed, NEW v \in Ver, handleBotUpdate(u, b, v) PROVE Rest
    BY <1>1, <2>4 DEF handleBotUpdate, CatalogTypeOK
  <2>5. ASSUME NEW b \in Deployed, handleBotDelete(u, b) PROVE Rest
    BY <1>1, <2>5 DEF handleBotDelete, CatalogTypeOK, Excuse
  <2>6. QED
    BY <1>3, <2>1, <2>2, <2>3, <2>4, <2>5
    DEF CatalogCall, createCustomBot, updateCustomBot, deleteVersion, deleteAllVersions,
        create, update, handleBotDeploy, remove
<1>4. QED
  BY <1>2, <1>3 DEF CatalogNext

\* A request begins.
LEMMA BeginnerMoves ==
  ASSUME References, NEW u \in Publisher, NEW k \in Req,
         \/ \E v \in Ver : \/ createCustomBot(k, u, v) \/ updateCustomBot(k, u, v)
                           \/ deleteVersion(k, u, v)
         \/ deleteAllVersions(k, u)
         \/ \E b \in Deployed, v \in Ver : create(k, u, b, v) \/ update(k, u, b, v)
                                           \/ handleBotDeploy(k, u, b, v)
         \/ \E b \in Deployed : remove(k, u, b)
  PROVE  Moves(k)
<1>1. CatalogTypeOK
  BY DEF References
<1>2. ASSUME NEW op \in Publishing, NEW v \in Ver \cup {0}, NEW pc \in StepsOf(op),
             op # "deleteAll" => v \in Ver,
             Start(k, [Idle EXCEPT !.op = op, !.by = u, !.ver = v, !.pc = pc])
      PROVE  Moves(k)
  <2> DEFINE r == [Idle EXCEPT !.op = op, !.by = u, !.ver = v, !.pc = pc]
  <2>1. /\ r \in Request /\ r.op = op /\ r.by = u /\ r.ver = v /\ r.pc = pc
        /\ r.bot = Nobody /\ r.row = 0 /\ r.was = 0
    BY DEF Idle, Request, StepsOf, Publishing
  <2>2. op \notin Deploying
    BY DEF Publishing, Deploying
  <2>3. Start(k, r)
    BY <1>2
  <2> HIDE DEF r
  <2>4. QED
    BY <1>1, <1>2, <2>1, <2>2, <2>3, StartKeeps DEF Moves
<1>3. ASSUME NEW op \in Deploying, NEW b \in Deployed, NEW v \in Ver \cup {0},
             NEW pc \in StepsOf(op), op # "remove" => v \in Ver, BeginBot(k, op, u, b, v, pc)
      PROVE  Moves(k)
  <2> DEFINE r == [Idle EXCEPT !.op = op, !.by = u, !.bot = b, !.ver = v, !.pc = pc]
  <2>1. /\ r \in Request /\ r.op = op /\ r.by = u /\ r.ver = v /\ r.pc = pc
        /\ r.bot = b /\ r.row = 0 /\ r.was = 0
    BY DEF Idle, Request, StepsOf, Deploying
  <2>2. op \notin Publishing
    BY DEF Publishing, Deploying
  <2>3. Start(k, r)
    BY <1>3 DEF BeginBot
  <2> HIDE DEF r
  <2>4. QED
    BY <1>1, <1>3, <2>1, <2>2, <2>3, StartKeeps DEF Moves
<1>4. ASSUME NEW v \in Ver, \/ createCustomBot(k, u, v) \/ updateCustomBot(k, u, v)
                            \/ deleteVersion(k, u, v)
      PROVE  Moves(k)
  <2>1. CASE createCustomBot(k, u, v)
    BY <1>2, <2>1 DEF createCustomBot, Publish, Publishing, StepsOf
  <2>2. CASE updateCustomBot(k, u, v)
    BY <1>2, <2>2 DEF updateCustomBot, Publish, Publishing, StepsOf
  <2>3. CASE deleteVersion(k, u, v)
    BY <1>2, <2>3 DEF deleteVersion, Unpublish, Publishing, StepsOf
  <2>4. QED
    BY <1>4, <2>1, <2>2, <2>3
<1>5. CASE deleteAllVersions(k, u)
  BY <1>2, <1>5 DEF deleteAllVersions, Unpublish, Publishing, StepsOf
<1>6. ASSUME NEW b \in Deployed, NEW v \in Ver,
             create(k, u, b, v) \/ update(k, u, b, v) \/ handleBotDeploy(k, u, b, v)
      PROVE  Moves(k)
  BY <1>3, <1>6 DEF create, update, handleBotDeploy, Deploying, StepsOf
<1>7. ASSUME NEW b \in Deployed, remove(k, u, b) PROVE Moves(k)
  BY <1>3, <1>7 DEF remove, Deploying, StepsOf
<1>8. QED
  BY <1>4, <1>5, <1>6, <1>7

\* Every step keeps the invariant.
LEMMA ReferencesStep == References /\ [CatalogNext]_catalogVars => References'
<1> SUFFICES ASSUME References, CatalogNext PROVE References'
  <2>1. ASSUME References, UNCHANGED catalogVars PROVE References'
    BY <2>1 DEF References, catalogVars, CatalogTypeOK, RowsNumbered, WellFormed, PointsTo,
                BotsReferToTheirVersion
  <2>2. QED
    BY <2>1
<1>1. Tables' /\ RowsGrow
  BY TablesStep
<1>2. /\ objects' \subseteq Object /\ told' \in [Deployed -> Ver \cup {0}]
      /\ served' \in 0..MaxReq /\ missed' \in 0..MaxMiss /\ overlap' \in BOOLEAN
      /\ foreign' \subseteq Deployed /\ adrift' \subseteq Deployed
  BY RestTyped
<1>3. req' \in [Req -> Request] /\ \A j \in Req : WellFormed(j)' /\ PointsTo(j)'
  <2>1. CatalogTypeOK /\ \A j \in Req : WellFormed(j) /\ PointsTo(j)
    BY DEF References
  <2>2. ASSUME NEW k \in Req, Moves(k)
        PROVE  req' \in [Req -> Request] /\ \A j \in Req : WellFormed(j)' /\ PointsTo(j)'
    BY <1>1, <2>1, <2>2, OthersKeep DEF Moves
  <2>3. CASE UNCHANGED req
    BY <1>1, <2>1, <2>3, OthersKeep DEF CatalogTypeOK
  <2>4. ASSUME NEW k \in Req, CatalogStep(k) PROVE Moves(k)
    BY <1>1, <2>4, PublisherMoves, DeployerMoves DEF CatalogStep
  <2>5. ASSUME NEW u \in Publisher, CatalogCall(u) PROVE UNCHANGED req \/ \E k \in Req : Moves(k)
    <3>1. CASE \/ \E v \in Ver : uploadFile(u, v)
               \/ \E b \in Deployed : handleBotDelete(u, b)
                    \/ \E v \in Ver : handleBotUpdate(u, b, v)
      BY <3>1 DEF uploadFile, handleBotDelete, handleBotUpdate
    <3>2. QED
      BY <2>5, <3>1, BeginnerMoves DEF CatalogCall
  <2>6. QED
    BY <2>2, <2>3, <2>4, <2>5 DEF CatalogNext
<1>4. QED
  BY <1>1, <1>2, <1>3 DEF References, Tables, CatalogTypeOK

\* The invariant holds at the start.
LEMMA ReferencesInit == CatalogInit => References
<1> SUFFICES ASSUME CatalogInit PROVE References
  OBVIOUS
<1>1. CatalogTypeOK
  <2>1. overlap \in BOOLEAN
    BY DEF CatalogInit
  <2>2. inserted \in 0..MaxRow /\ served \in 0..MaxReq /\ missed \in 0..MaxMiss
    BY CatalogConstants DEF CatalogInit
  <2>3. req \in [Req -> Request] /\ told \in [Deployed -> Ver \cup {0}]
    BY IdleTyped DEF CatalogInit
  <2>4. rows = {} /\ objects = {} /\ bots = {} /\ foreign = {} /\ patched = {} /\ adrift = {}
    BY DEF CatalogInit
  <2>5. QED
    BY <2>1, <2>2, <2>3, <2>4 DEF CatalogTypeOK
<1>2. RowsNumbered /\ BotsReferToTheirVersion /\ IsFiniteSet(bots)
  BY FS_EmptySet DEF CatalogInit, RowsNumbered, BotsReferToTheirVersion
<1>3. \A k \in Req : WellFormed(k) /\ PointsTo(k)
  BY DEF CatalogInit, WellFormed, PointsTo, Idle, StepsOf, Publishing, Deploying
<1>4. QED
  BY <1>1, <1>2, <1>3 DEF References

\* Every variable of the catalogue has its type.
THEOREM CatalogTypeCorrect == CatalogSpec => []CatalogTypeOK
<1>1. References => CatalogTypeOK
  BY DEF References
<1>2. QED
  BY <1>1, ReferencesInit, ReferencesStep, PTL DEF CatalogSpec

\* Whatever deployments, upgrades and deletions of versions overlap, the version in a
\* bot's config is the one it refers to, unless an MCP tool has replaced the config.
THEOREM BotsKeepTheirVersion == CatalogSpec => []BotsReferToTheirVersion
<1>1. References => BotsReferToTheirVersion
  BY DEF References
<1>2. QED
  BY <1>1, ReferencesInit, ReferencesStep, PTL DEF CatalogSpec

-----------------------------------------------------------------------------
(* The catalogue: publishing requests, one after the other.                  *)

\* The version's text begins with another's.
Begun(v) == \E w \in Ver : <<w, v>> \in Longer

\* The rows are of one publisher, and the later of greater versions.
InOrder == \A r, q \in rows : r.id < q.id => r.by = q.by /\ r.ver < q.ver

\* The objects of a version are stored.
HasFiles(r) ==
  /\ Code(r.by, r.ver) \in objects
  /\ r.front => Frontend(r.by, r.ver) \in objects

\* What a request that publishes or deletes versions knows at each of its steps: whose the
\* rows are, that its version comes after them all, that its files are stored; which rows
\* go and whose objects, that no bot it has counted refers to them, and after that that
\* they are gone.
Stage(k) ==
  LET q == req[k] IN
  q.op \in Publishing =>
    /\ q.op = "create" /\ q.pc # "exists" => rows = {}
    /\ q.op # "create" /\ q.pc # "own" => \A r \in rows : r.by = q.by
    /\ q.op = "update" /\ q.pc \in {"fresh", "zip", "frontend", "insert"} =>
         \A r \in rows : r.ver < q.ver
    /\ q.pc \in {"frontend", "insert"} => Code(q.by, q.ver) \in objects
    /\ q.flag => q.pc = "insert" /\ Frontend(q.by, q.ver) \in objects
    /\ q.pc \in {"inUse", "erase", "list", "wipe"} => q.from = q.by
    /\ q.pc \in {"inUse", "erase"} =>
         \A r \in rows : q.op = "deleteAll" \/ r.ver = q.ver => r.id \in q.ids
    /\ q.pc = "erase" => \A d \in q.bots : d.cb \notin q.ids
    /\ q.pc \in {"list", "wipe"} => \A r \in rows : q.op = "deleteVersion" /\ r.ver # q.ver
    /\ q.pc = "wipe" => \A o \in q.list : Under(k, o)

\* Unless requests overlapped there is one that publishes or deletes versions at a time.
OneByOne == \A j, k \in Req : Doing(j, Publishing) /\ Doing(k, Publishing) => j = k

\* With one at a time, what each request knows stays true until its next step.
InTurn ==
  /\ OneByOne
  /\ InOrder
  /\ \A r \in rows : Begun(r.ver) \/ HasFiles(r)
  /\ \A k \in Req : Stage(k)

\* The inductive invariant of publishing.
PublishingInv == overlap \/ InTurn

-----------------------------------------------------------------------------
\* The latest version is there: of finitely many ids one is the greatest.
LEMMA NewestIsThere ==
  ASSUME CatalogTypeOK, rows # {}
  PROVE  Newest(rows) \in rows /\ \A q \in rows : q.id <= Newest(rows).id
<1> DEFINE T == {MaxRow - r.id : r \in rows}
           R == {p \in Nat \X Nat : p[1] < p[2]}
<1>1. MaxRow \in Nat /\ \A r \in rows : r.id \in 1..MaxRow
  BY CatalogConstants DEF CatalogTypeOK, Row, RowId
<1>2. T \subseteq Nat /\ T # {} /\ \A r \in rows : MaxRow - r.id \in T
  BY <1>1
<1>3. \A n \in T : \E r \in rows : n = MaxRow - r.id
  OBVIOUS
<1>4. IsWellFoundedOn(R, Nat)
  BY NatLessThanWellFounded DEF OpToRel
<1> HIDE DEF T
<1>5. PICK m \in T : \A n \in T : m <= n
  <2> HIDE DEF R
  <2>1. PICK m \in T : \A n \in T : ~(<<n, m>> \in R)
    BY <1>2, <1>4, WFMin
  <2>2. \A n \in T : ~(n < m)
    BY <1>2, <2>1 DEF R
  <2>3. QED
    BY <1>2, <2>2
<1>8. PICK r \in rows : m = MaxRow - r.id
  BY <1>3
<1>6. \A q \in rows : q.id <= r.id
  BY <1>1, <1>2, <1>5, <1>8
<1>7. QED
  BY <1>6 DEF Newest

\* In their order, all versions belong to the owner of the latest one, which is greatest.
LEMMA NewestIsGreatest ==
  ASSUME CatalogTypeOK, RowsNumbered, InOrder, rows # {}, NEW r \in rows
  PROVE  r.by = Newest(rows).by /\ r.ver <= Newest(rows).ver
<1> DEFINE n == Newest(rows)
<1>1. n \in rows /\ r.id <= n.id
  BY NewestIsThere
<1> HIDE DEF n
<1>2. n.id \in Nat /\ r.id \in Nat /\ n.ver \in Nat /\ r.ver \in Nat
  <2>1. n \in Row /\ r \in Row
    BY <1>1 DEF CatalogTypeOK
  <2>2. n.ver \in Ver /\ r.ver \in Ver /\ n.id \in 1..MaxRow /\ r.id \in 1..MaxRow
    BY <2>1 DEF Row, RowId
  <2>3. Ver \subseteq Nat /\ 1..MaxRow \subseteq Nat
    BY CatalogConstants
  <2>4. QED
    BY <2>2, <2>3
<1>3. r.id < n.id \/ r = n
  BY <1>1, <1>2 DEF RowsNumbered
<1>4. QED
  BY <1>1, <1>2, <1>3 DEF InOrder, n

\* A step of another kind of request leaves everything in turn.
LEMMA QuietTurn ==
  ASSUME InTurn, CatalogTypeOK, rows' = rows, objects \subseteq objects',
         \A j \in Req : \/ req'[j] = req[j]
                        \/ ~Doing(j, Publishing) /\ ~Doing(j, Publishing)'
  PROVE  InTurn'
<1>1. OneByOne' /\ InOrder'
  BY DEF InTurn, OneByOne, InOrder, Doing
<1>2. \A r \in rows' : Begun(r.ver) \/ HasFiles(r)'
  BY DEF InTurn, HasFiles
<1>3. ASSUME NEW k \in Req PROVE Stage(k)'
  <2>1. CASE req'[k] = req[k]
    BY <2>1 DEF InTurn, Stage, Under
  <2>2. CASE ~Doing(k, Publishing)'
    BY <2>2 DEF Stage, Doing
  <2>3. QED
    BY <2>1, <2>2
<1>4. QED
  BY <1>1, <1>2, <1>3 DEF InTurn, Begun, HasFiles

\* A publishing request begins, when there is no other.
LEMMA BegunTurn ==
  ASSUME InTurn, CatalogTypeOK, UNCHANGED <<rows, objects>>, NEW k \in Req, NEW u, NEW v,
    NEW op, NEW pc,
         pc \in {"exists", "own"}, op = "create" <=> pc = "exists",
         Start(k, [Idle EXCEPT !.op = op, !.by = u, !.ver = v, !.pc = pc]),
         \A j \in Req : ~Doing(j, Publishing)
  PROVE  InTurn'
<1> DEFINE r == [Idle EXCEPT !.op = op, !.by = u, !.ver = v, !.pc = pc]
<1>1. r.op = op /\ r.pc = pc /\ r.flag = FALSE
  BY DEF Idle
<1>2. req' = [req EXCEPT ![k] = r]
  BY DEF Start
<1> HIDE DEF r
<1>3. req'[k] = r /\ \A j \in Req \ {k} : req'[j] = req[j]
  BY <1>2 DEF CatalogTypeOK
<1>4. OneByOne' /\ InOrder'
  BY <1>3 DEF InTurn, OneByOne, InOrder, Doing
<1>5. \A x \in rows' : Begun(x.ver) \/ HasFiles(x)'
  BY DEF InTurn, HasFiles
<1>6. Stage(k)'
  BY <1>1, <1>3 DEF Stage
<1>7. \A j \in Req \ {k} : Stage(j)'
  BY <1>3 DEF Stage, Doing
<1>8. QED
  BY <1>4, <1>5, <1>6, <1>7 DEF InTurn, Begun, HasFiles

\* The publishing request takes a step: the others are none of this kind.
LEMMA OwnTurn ==
  ASSUME InTurn, CatalogTypeOK, NEW k \in Req, Doing(k, Publishing),
         \A j \in Req \ {k} : req'[j] = req[j],
         InOrder', \A r \in rows' : Begun(r.ver) \/ HasFiles(r)', Stage(k)'
  PROVE  InTurn'
<1>1. \A j \in Req \ {k} : ~Doing(j, Publishing) /\ ~Doing(j, Publishing)'
  BY DEF InTurn, OneByOne, Doing
<1>2. OneByOne'
  BY <1>1 DEF OneByOne
<1>3. \A j \in Req \ {k} : Stage(j)'
  BY <1>1 DEF Stage, Doing
<1>4. QED
  BY <1>2, <1>3 DEF InTurn, Begun, HasFiles

\* The publishing request ends.
LEMMA EndTurn ==
  ASSUME InTurn, CatalogTypeOK, NEW k \in Req, Doing(k, Publishing), End(k),
         InOrder', \A r \in rows' : Begun(r.ver) \/ HasFiles(r)'
  PROVE  InTurn'
<1>1. req'[k].op = "none" /\ \A j \in Req \ {k} : req'[j] = req[j]
  BY EndKeeps DEF Idle
<1>2. Stage(k)'
  BY <1>1 DEF Stage, Publishing
<1>3. QED
  BY <1>1, <1>2, OwnTurn

\* It reads, and takes what it has read along.
LEMMA ReadTurn ==
  ASSUME InTurn, CatalogTypeOK, NEW k \in Req, Doing(k, Publishing), NEW r \in Request,
         req' = [req EXCEPT ![k] = r], rows' = rows, objects \subseteq objects', Stage(k)'
  PROVE  InTurn' /\ req'[k] = r
<1>1. req'[k] = r /\ \A j \in Req \ {k} : req'[j] = req[j]
  BY DEF CatalogTypeOK
<1>2. InOrder'
  BY DEF InTurn, InOrder
<1>3. \A x \in rows' : Begun(x.ver) \/ HasFiles(x)'
  BY DEF InTurn, HasFiles
<1>4. QED
  BY <1>1, <1>2, <1>3, OwnTurn

\* The steps of publishing a version.
LEMMA PublishTurn ==
  ASSUME References, InTurn, NEW k \in Req,
         \/ globalBotExists(k) \/ CheckOwner(k) \/ isVersionNewer(k) \/ globalVersionExists(k)
         \/ validateZipStructure(k) \/ extractAndStoreFrontend(k) \/ createNewGlobalVersion(k)
  PROVE  InTurn'
<1> DEFINE q == req[k]
<1>1. /\ CatalogTypeOK /\ RowsNumbered /\ InOrder /\ Stage(k) /\ WellFormed(k) /\ q \in Request
      /\ \A r \in rows : Begun(r.ver) \/ HasFiles(r)
  BY DEF References, CatalogTypeOK, InTurn
<1>2. q.pc \in StepsOf(q.op) /\ (q.op \in Publishing \cup Deploying \/ q.op = "none")
  BY <1>1 DEF WellFormed, Request
<1>3. ASSUME NEW pc, Step(k, pc)
      PROVE  /\ req'[k].pc = pc /\ req'[k].op = q.op /\ req'[k].by = q.by /\ req'[k].ver = q.ver
             /\ req'[k].flag = q.flag /\ \A j \in Req \ {k} : req'[j] = req[j]
  BY <1>1, <1>3 DEF Step, CatalogTypeOK, Request
<1>4. ASSUME rows' = rows, objects \subseteq objects'
      PROVE  InOrder' /\ \A r \in rows' : Begun(r.ver) \/ HasFiles(r)'
  BY <1>1, <1>4 DEF InOrder, HasFiles
<1>5. \A r \in rows : \A b : rows # {} /\ Newest(rows).by = b => r.by = b
  BY <1>1, NewestIsGreatest
<1>6. ASSUME rows # {}, q.ver > Newest(rows).ver PROVE \A r \in rows : r.ver < q.ver
  <2>1. Ver \subseteq Nat /\ 0 \in Nat
    BY CatalogConstants
  <2>2. q.ver \in Ver \cup {0} /\ \A r \in rows : r.ver \in Ver
    BY <1>1 DEF Request, CatalogTypeOK, Row
  <2>3. q.ver \in Nat /\ \A r \in rows : r.ver \in Nat
    BY <2>1, <2>2
  <2>4. Newest(rows) \in rows
    BY <1>1, <1>6, NewestIsThere
  <2>5. \A r \in rows : r.ver <= Newest(rows).ver
    BY <1>1, <1>6, NewestIsGreatest
  <2> HIDE DEF q
  <2>6. QED
    BY <1>6, <2>3, <2>4, <2>5
<1>7. CASE globalBotExists(k)
  <2>1. q.op = "create" /\ Doing(k, Publishing) /\ UNCHANGED <<rows, objects>> /\ q.pc = "exists"
    BY <1>2, <1>7 DEF globalBotExists, At, StepsOf, Publishing, Deploying, Doing, Unread
  <2>2. CASE Step(k, "zip") /\ rows = {}
    <3>1. Stage(k)'
      BY <1>1, <1>3, <2>1, <2>2 DEF Stage
    <3>2. QED
      BY <1>1, <1>3, <1>4, <2>1, <2>2, <3>1, OwnTurn
  <2>3. CASE End(k)
    BY <1>1, <1>4, <2>1, <2>3, EndTurn
  <2>4. QED
    BY <1>7, <2>2, <2>3 DEF globalBotExists
<1>8. CASE CheckOwner(k)
  <2>1. /\ q.op \in {"update", "deleteVersion", "deleteAll"} /\ Doing(k, Publishing)
        /\ UNCHANGED <<rows, objects>> /\ q.pc = "own"
    BY <1>2, <1>8 DEF CheckOwner, At, StepsOf, Publishing, Deploying, Doing, Unread
  <2>2. ASSUME NEW pc \in {"newer", "find", "all"}, Step(k, pc), checkUserOwnership(q.by)
          PROVE InTurn'
    <3>1. \A r \in rows : r.by = q.by
      BY <1>5, <2>2 DEF checkUserOwnership, getGlobalLatestVersion
    <3>2. Stage(k)'
      BY <1>1, <1>3, <2>1, <2>2, <3>1 DEF Stage
    <3>3. QED
      BY <1>1, <1>3, <1>4, <2>1, <2>2, <3>2, OwnTurn
  <2>3. CASE End(k)
    BY <1>1, <1>4, <2>1, <2>3, EndTurn
  <2>4. QED
    BY <1>8, <2>1, <2>2, <2>3 DEF CheckOwner
<1>9. CASE isVersionNewer(k)
  <2>1. /\ q.op = "update" /\ Doing(k, Publishing)
        /\ UNCHANGED <<rows, objects>> /\ q.pc = "newer"
    BY <1>2, <1>9 DEF isVersionNewer, At, StepsOf, Publishing, Deploying, Doing, Unread
  <2>2. CASE Step(k, "fresh") /\ rows # {} /\ q.ver > Newest(rows).ver
    <3>1. \A r \in rows : r.ver < q.ver
      BY <1>6, <2>2
    <3>2. Stage(k)'
      BY <1>1, <1>3, <2>1, <2>2, <3>1 DEF Stage
    <3>3. QED
      BY <1>1, <1>3, <1>4, <2>1, <2>2, <3>2, OwnTurn
  <2>3. CASE End(k)
    BY <1>1, <1>4, <2>1, <2>3, EndTurn
  <2>4. QED
    BY <1>9, <2>2, <2>3 DEF isVersionNewer, getGlobalLatestVersion
<1>10. CASE globalVersionExists(k)
  <2>1. /\ q.op = "update" /\ Doing(k, Publishing)
        /\ UNCHANGED <<rows, objects>> /\ q.pc = "fresh"
    BY <1>2, <1>10 DEF globalVersionExists, At, StepsOf, Publishing, Deploying, Doing, Unread
  <2>2. CASE Step(k, "zip")
    <3>1. Stage(k)'
      BY <1>1, <1>3, <2>1, <2>2 DEF Stage
    <3>2. QED
      BY <1>1, <1>3, <1>4, <2>1, <2>2, <3>1, OwnTurn
  <2>3. CASE End(k)
    BY <1>1, <1>4, <2>1, <2>3, EndTurn
  <2>4. QED
    BY <1>10, <2>2, <2>3 DEF globalVersionExists
<1>11. CASE validateZipStructure(k)
  <2>1. /\ q.op \in {"create", "update"} /\ Doing(k, Publishing)
        /\ UNCHANGED <<rows, objects>> /\ q.pc = "zip"
    BY <1>2, <1>11 DEF validateZipStructure, At, StepsOf, Publishing, Deploying, Doing, Unread
  <2>2. CASE Step(k, "frontend") /\ Code(q.by, q.ver) \in objects
    <3>1. Stage(k)'
      BY <1>1, <1>3, <2>1, <2>2 DEF Stage
    <3>2. QED
      BY <1>1, <1>3, <1>4, <2>1, <2>2, <3>1, OwnTurn
  <2>3. CASE End(k)
    BY <1>1, <1>4, <2>1, <2>3, EndTurn
  <2>4. QED
    BY <1>11, <2>2, <2>3 DEF validateZipStructure
<1>12. CASE extractAndStoreFrontend(k)
  <2>1. /\ q.op \in {"create", "update"} /\ Doing(k, Publishing)
        /\ rows' = rows /\ q.pc = "frontend"
    BY <1>2, <1>12 DEF extractAndStoreFrontend, At, StepsOf, Publishing, Deploying, Doing, tables
  <2>2. CASE Step(k, "insert") /\ UNCHANGED objects
    <3>1. Stage(k)'
      BY <1>1, <1>3, <2>1, <2>2 DEF Stage
    <3>2. QED
      BY <1>1, <1>3, <1>4, <2>1, <2>2, <3>1, OwnTurn
  <2>3. CASE /\ objects' = objects \cup {Frontend(q.by, q.ver)}
             /\ req' = [req EXCEPT ![k] = [@ EXCEPT !.flag = TRUE, !.pc = "insert"]]
    <3>1. /\ req'[k].pc = "insert" /\ req'[k].op = q.op /\ req'[k].by = q.by
          /\ req'[k].ver = q.ver /\ \A j \in Req \ {k} : req'[j] = req[j]
      BY <1>1, <2>3 DEF CatalogTypeOK, Request
    <3>2. Stage(k)'
      BY <1>1, <2>1, <2>3, <3>1 DEF Stage
    <3>3. QED
      BY <1>1, <1>4, <2>1, <2>3, <3>1, <3>2, OwnTurn
  <2>4. QED
    BY <1>12, <2>2, <2>3 DEF extractAndStoreFrontend
<1>13. CASE createNewGlobalVersion(k)
  <2> DEFINE n == [id |-> inserted + 1, by |-> q.by, ver |-> q.ver, front |-> q.flag]
  <2>1. /\ q.op \in {"create", "update"} /\ Doing(k, Publishing) /\ End(k)
        /\ objects' = objects /\ q.pc = "insert" /\ rows' = rows \cup {n}
    BY <1>2, <1>13
    DEF createNewGlobalVersion, At, StepsOf, Publishing, Deploying, Doing
  <2>2. n.id = inserted + 1 /\ n.by = q.by /\ n.ver = q.ver /\ n.front = q.flag
    OBVIOUS
  <2>3. inserted \in Nat /\ \A r \in rows : r.id \in Nat /\ r.id <= inserted
    <3>1. MaxRow \in Nat
      BY CatalogConstants
    <3>2. QED
      BY <1>1, <3>1 DEF RowsNumbered, CatalogTypeOK, Row, RowId
  <2> HIDE DEF n
  <2>4. \A r \in rows : r.by = n.by /\ r.ver < n.ver
    BY <1>1, <2>1, <2>2 DEF Stage, Doing
  <2>5. InOrder'
    BY <1>1, <2>1, <2>2, <2>3, <2>4 DEF InOrder
  <2>6. HasFiles(n)
    BY <1>1, <2>1, <2>2 DEF HasFiles, Stage, Doing
  <2>7. \A r \in rows' : Begun(r.ver) \/ HasFiles(r)'
    BY <1>1, <2>1, <2>6 DEF HasFiles
  <2>8. QED
    BY <1>1, <2>1, <2>5, <2>7, EndTurn
<1>14. QED
  BY <1>7, <1>8, <1>9, <1>10, <1>11, <1>12, <1>13

\* No row refers to what is counted as none.
LEMMA NoneCounted ==
  ASSUME CatalogTypeOK, IsFiniteSet(bots), NEW ids, ~(countInstancesByCustomBotIds(ids) > 0)
  PROVE  \A d \in bots : d.cb \notin ids
<1> DEFINE B == {b \in bots : b.cb \in ids}
<1>1. IsFiniteSet(B)
  BY FS_Subset
<1>2. Cardinality(B) \in Nat /\ (Cardinality(B) = 0 <=> B = {})
  <2> HIDE DEF B
  <2>1. QED
    BY <1>1, FS_CardinalityType, FS_EmptySet
<1>3. ~(Cardinality(B) > 0)
  BY DEF countInstancesByCustomBotIds
<1>4. B = {}
  <2> HIDE DEF B
  <2>1. QED
    BY <1>2, <1>3
<1>5. QED
  BY <1>4

\* The steps of deleting versions.
LEMMA DeleteTurn ==
  ASSUME References, InTurn, NEW k \in Req,
         \/ FindVersion(k) \/ ListVersions(k) \/ RefuseInUse(k) \/ EraseRows(k)
         \/ listObjects(k) \/ WipeObjects(k)
  PROVE  InTurn'
<1> DEFINE q == req[k]
<1>1. /\ CatalogTypeOK /\ RowsNumbered /\ InOrder /\ Stage(k) /\ WellFormed(k) /\ q \in Request
      /\ (\A r \in rows : Begun(r.ver) \/ HasFiles(r))
      /\ rows \subseteq Row /\ objects \subseteq Object /\ bots \subseteq BotRow
      /\ IsFiniteSet(bots)
  BY DEF References, CatalogTypeOK, InTurn
<1>2. q.pc \in StepsOf(q.op) /\ (q.op \in Publishing \cup Deploying \/ q.op = "none")
  BY <1>1 DEF WellFormed, Request
<1>3. ASSUME rows' = rows, objects \subseteq objects'
      PROVE  InOrder' /\ \A r \in rows' : Begun(r.ver) \/ HasFiles(r)'
  BY <1>1, <1>3 DEF InOrder, HasFiles
<1>4. ASSUME UNCHANGED <<rows, objects>>, Doing(k, Publishing), End(k) PROVE InTurn'
  BY <1>1, <1>3, <1>4, EndTurn
<1>5. CASE FindVersion(k)
  <2>1. q.op = "deleteVersion" /\ Doing(k, Publishing) /\ UNCHANGED <<rows, objects>>
          /\ q.pc = "find"
    BY <1>2, <1>5 DEF FindVersion, At, StepsOf, Publishing, Deploying, Doing, Unread, tables
  <2>2. ASSUME NEW w \in rows, w.ver = q.ver,
               req' = [req EXCEPT ![k] = [@ EXCEPT !.ids = {w.id}, !.from = w.by, !.pc = "inUse"]]
        PROVE  InTurn'
    <3> DEFINE r == [q EXCEPT !.ids = {w.id}, !.from = w.by, !.pc = "inUse"]
    <3>1. w \in Row
      BY <1>1
    <3>2. /\ r \in Request /\ r.op = q.op /\ r.by = q.by /\ r.ver = q.ver /\ r.flag = q.flag
          /\ r.ids = {w.id} /\ r.from = w.by /\ r.pc = "inUse"
      BY <1>1, <3>1 DEF Request, Row
    <3>3. req' = [req EXCEPT ![k] = r]
      BY <2>2
    <3> HIDE DEF r
    <3>4. w.by = q.by
      BY <1>1, <2>1 DEF Stage, Doing
    <3>5. \A x \in rows : x.ver = q.ver => x.id = w.id
      <4>1. Ver \subseteq Nat /\ 1..MaxRow \subseteq Nat
        BY CatalogConstants
      <4>2. \A x \in rows : x.id \in 1..MaxRow /\ x.ver \in Ver
        BY <1>1 DEF Row, RowId
      <4>3. \A x \in rows : x.id \in Nat /\ x.ver \in Nat
        BY <4>1, <4>2
      <4> HIDE DEF q
      <4>4. QED
        BY <1>1, <2>2, <4>3 DEF InOrder
    <3>6. req'[k] = r
      BY <1>1, <3>3 DEF CatalogTypeOK
    <3>7. Stage(k)'
      BY <1>1, <2>1, <3>2, <3>4, <3>5, <3>6 DEF Stage, Doing
    <3>8. QED
      BY <1>1, <2>1, <3>2, <3>3, <3>7, ReadTurn
  <2>3. QED
    BY <1>4, <1>5, <2>1, <2>2 DEF FindVersion, getSpecificGlobalVersion
<1>6. CASE ListVersions(k)
  <2>1. q.op = "deleteAll" /\ Doing(k, Publishing) /\ UNCHANGED <<rows, objects>> /\ q.pc = "all"
    BY <1>2, <1>6 DEF ListVersions, At, StepsOf, Publishing, Deploying, Doing, Unread, tables
  <2>2. CASE req' = [req EXCEPT ![k] = [@ EXCEPT !.ids = {r.id : r \in rows},
                                                 !.from = q.by, !.pc = "inUse"]]
    <3> DEFINE I == {x.id : x \in rows}
               r == [q EXCEPT !.ids = I, !.from = q.by, !.pc = "inUse"]
    <3>1. I \subseteq RowId /\ \A x \in rows : x.id \in I
      BY <1>1 DEF Row
    <3>2. req' = [req EXCEPT ![k] = r]
      BY <2>2
    <3> HIDE DEF I
    <3>3. /\ r \in Request /\ r.op = q.op /\ r.by = q.by /\ r.ver = q.ver /\ r.flag = q.flag
          /\ r.ids = I /\ r.from = q.by /\ r.pc = "inUse"
      BY <1>1, <3>1 DEF Request
    <3> HIDE DEF r
    <3>4. req'[k] = r
      BY <1>1, <3>2 DEF CatalogTypeOK
    <3>5. Stage(k)'
      BY <1>1, <2>1, <3>1, <3>3, <3>4 DEF Stage, Doing
    <3>6. QED
      BY <1>1, <2>1, <3>2, <3>3, <3>5, ReadTurn
  <2>3. QED
    BY <1>4, <1>6, <2>1, <2>2 DEF ListVersions, getAllGlobalVersions
<1>7. CASE RefuseInUse(k)
  <2>1. /\ q.op \in {"deleteVersion", "deleteAll"} /\ Doing(k, Publishing)
        /\ UNCHANGED <<rows, objects>> /\ q.pc = "inUse"
    BY <1>2, <1>7 DEF RefuseInUse, At, StepsOf, Publishing, Deploying, Doing, Unread, tables
  <2>2. CASE /\ ~(countInstancesByCustomBotIds(q.ids) > 0)
             /\ req' = [req EXCEPT ![k] = [@ EXCEPT !.bots = bots, !.pc = "erase"]]
    <3> DEFINE r == [q EXCEPT !.bots = bots, !.pc = "erase"]
    <3>1. /\ r \in Request /\ r.op = q.op /\ r.by = q.by /\ r.ver = q.ver /\ r.flag = q.flag
          /\ r.ids = q.ids /\ r.from = q.from /\ r.bots = bots /\ r.pc = "erase"
      BY <1>1 DEF Request
    <3>2. req' = [req EXCEPT ![k] = r]
      BY <2>2
    <3> HIDE DEF r
    <3>3. req'[k] = r
      BY <1>1, <3>2 DEF CatalogTypeOK
    <3>4. \A d \in bots : d.cb \notin q.ids
      BY <1>1, <2>2, NoneCounted
    <3>5. Stage(k)'
      BY <1>1, <2>1, <3>1, <3>3, <3>4 DEF Stage, Doing
    <3>6. QED
      BY <1>1, <2>1, <3>1, <3>2, <3>5, ReadTurn
  <2>3. QED
    BY <1>4, <1>7, <2>1, <2>2 DEF RefuseInUse
<1>8. CASE EraseRows(k)
  <2>1. /\ q.op \in {"deleteVersion", "deleteAll"} /\ Doing(k, Publishing)
        /\ objects' = objects /\ q.pc = "erase" /\ Step(k, "list")
    BY <1>2, <1>8 DEF EraseRows, At, StepsOf, Publishing, Deploying, Doing
  <2>2. rows' = {r \in rows : ~(r.by = q.by /\ (q.op = "deleteVersion" => r.id \in q.ids))}
    BY <1>8 DEF EraseRows, DeleteRows
  <2>3. /\ req'[k].pc = "list" /\ req'[k].op = q.op /\ req'[k].by = q.by /\ req'[k].ver = q.ver
        /\ req'[k].flag = q.flag /\ req'[k].from = q.from /\ \A j \in Req \ {k} : req'[j] = req[j]
    BY <1>1, <2>1 DEF Step, CatalogTypeOK, Request
  <2>4. InOrder' /\ \A r \in rows' : Begun(r.ver) \/ HasFiles(r)'
    BY <1>1, <2>1, <2>2 DEF InOrder, HasFiles
  <2>5. Stage(k)'
    BY <1>1, <2>1, <2>2, <2>3 DEF Stage, Doing
  <2>6. QED
    BY <1>1, <2>1, <2>3, <2>4, <2>5, OwnTurn
<1>9. CASE listObjects(k)
  <2>1. /\ q.op \in {"deleteVersion", "deleteAll"} /\ Doing(k, Publishing)
        /\ UNCHANGED <<rows, objects>> /\ q.pc = "list"
    BY <1>2, <1>9 DEF listObjects, At, StepsOf, Publishing, Deploying, Doing, Unread, tables
  <2> DEFINE L == {o \in objects : Under(k, o)}
             r == [q EXCEPT !.list = L, !.pc = "wipe"]
  <2>2. L \subseteq Object /\ \A o \in L : Under(k, o)
    BY <1>1
  <2>3. req' = [req EXCEPT ![k] = r]
    BY <1>9 DEF listObjects
  <2> HIDE DEF L
  <2>4. /\ r \in Request /\ r.op = q.op /\ r.by = q.by /\ r.ver = q.ver /\ r.flag = q.flag
        /\ r.from = q.from /\ r.list = L /\ r.pc = "wipe"
    BY <1>1, <2>2 DEF Request
  <2> HIDE DEF r
  <2>5. req'[k] = r
    BY <1>1, <2>3 DEF CatalogTypeOK
  <2>6. \A o \in L : Under(k, o)'
    BY <2>2, <2>4, <2>5 DEF Under
  <2>7. Stage(k)'
    BY <1>1, <2>1, <2>4, <2>5, <2>6 DEF Stage, Doing, Under
  <2>8. QED
    BY <1>1, <2>1, <2>3, <2>4, <2>7, ReadTurn
<1>10. CASE WipeObjects(k)
  <2>1. /\ q.op \in {"deleteVersion", "deleteAll"} /\ Doing(k, Publishing)
        /\ rows' = rows /\ q.pc = "wipe" /\ End(k) /\ objects \ q.list \subseteq objects'
    BY <1>2, <1>10 DEF WipeObjects, At, StepsOf, Publishing, Deploying, Doing, tables
  <2>2. ASSUME NEW r \in rows, ~Begun(r.ver), NEW o \in objects, o.by = r.by, o.ver = r.ver
        PROVE  o \notin q.list
    <3>1. SUFFICES ASSUME o \in q.list PROVE FALSE
      OBVIOUS
    <3>2. Under(k, o) /\ q.op = "deleteVersion" /\ r.ver # q.ver
      BY <1>1, <2>1, <2>2, <3>1 DEF Stage, Doing
    <3>3. <<q.ver, r.ver>> \in Longer
      BY <2>2, <3>2 DEF Under
    <3>4. q.ver \in Ver
      BY <3>3, CatalogConstants
    <3>5. QED
      BY <2>2, <3>3, <3>4 DEF Begun
  <2>3. \A r \in rows' : Begun(r.ver) \/ HasFiles(r)'
    <3>1. ASSUME NEW r \in rows, ~Begun(r.ver) PROVE HasFiles(r)'
      <4>1. HasFiles(r)
        BY <1>1, <3>1
      <4>2. /\ Code(r.by, r.ver).by = r.by /\ Code(r.by, r.ver).ver = r.ver
            /\ Frontend(r.by, r.ver).by = r.by /\ Frontend(r.by, r.ver).ver = r.ver
        BY DEF Code, Frontend
      <4>3. Code(r.by, r.ver) \in objects'
        BY <2>1, <2>2, <3>1, <4>1, <4>2 DEF HasFiles
      <4>4. r.front => Frontend(r.by, r.ver) \in objects'
        BY <2>1, <2>2, <3>1, <4>1, <4>2 DEF HasFiles
      <4>5. QED
        BY <4>3, <4>4 DEF HasFiles
    <3>2. QED
      BY <2>1, <3>1
  <2>4. InOrder'
    BY <1>1, <2>1 DEF InOrder
  <2>5. QED
    BY <1>1, <2>1, <2>3, <2>4, EndTurn
<1>11. QED
  BY <1>5, <1>6, <1>7, <1>8, <1>9, <1>10

\* Requests for bots publish nothing.
LEMMA DeployersAreQuiet ==
  ASSUME References, NEW k \in Req,
         \/ validateBotTypeAndConfig(k) \/ InsertBot(k) \/ ReadBot(k) \/ StoreBot(k)
         \/ RereadBot(k) \/ getTopics(k) \/ RemoveBot(k) \/ PublishEvent(k) \/ PublishFails(k)
  PROVE  /\ ~Doing(k, Publishing) /\ ~Doing(k, Publishing)' /\ UNCHANGED <<rows, objects, overlap>>
         /\ \A j \in Req \ {k} : req'[j] = req[j]
<1> DEFINE q == req[k]
<1>1. /\ req \in [Req -> Request] /\ q \in Request /\ WellFormed(k)
  BY DEF References, CatalogTypeOK
<1>2. q.pc \in StepsOf(q.op) /\ (q.op \in Publishing \cup Deploying \/ q.op = "none")
  BY <1>1 DEF WellFormed, Request
<1>3. q.op \in Deploying /\ UNCHANGED <<rows, objects, overlap>>
  BY <1>2
  DEF validateBotTypeAndConfig, InsertBot, ReadBot, StoreBot, RereadBot, getTopics, RemoveBot,
      PublishEvent, PublishFails, At, Doing, StepsOf, Publishing, Deploying, Unread, tables, history
<1> DEFINE Same == /\ req'[k].op = q.op \/ req'[k].op = "none"
                   /\ \A j \in Req \ {k} : req'[j] = req[j]
<1>4. Same
  <2>1. ASSUME NEW pc, Step(k, pc) PROVE Same
    BY <1>1, <2>1 DEF Step, Request
  <2>8. ASSUME End(k) PROVE Same
    BY <1>1, <2>8 DEF End, Idle
  <2>2. CASE validateBotTypeAndConfig(k)
    <3>1. ASSUME NEW w, NEW pc, req' = [req EXCEPT ![k] = [@ EXCEPT !.row = w, !.pc = pc]]
          PROVE  Same
      BY <1>1, <3>1 DEF Request
    <3> HIDE DEF Same
    <3>2. QED
      BY <2>2, <2>8, <3>1 DEF validateBotTypeAndConfig
  <2>3. CASE ReadBot(k)
    <3>1. ASSUME NEW w, req' = [req EXCEPT ![k] = [@ EXCEPT !.was = w, !.pc = "store"]]
          PROVE  Same
      BY <1>1, <3>1 DEF Request
    <3>2. ASSUME NEW v, req' = [req EXCEPT ![k] = [@ EXCEPT !.ver = v, !.pc = "lookup"]]
          PROVE  Same
      BY <1>1, <3>2 DEF Request
    <3> HIDE DEF Same
    <3>3. QED
      BY <2>3, <2>8, <3>1, <3>2 DEF ReadBot
  <2>4. CASE getTopics(k)
    <3>1. CASE q.op = "remove"
      BY <1>1, <2>4, <3>1 DEF getTopics, Request
    <3>2. CASE q.op # "remove"
      BY <2>1, <2>4, <2>8, <3>2 DEF getTopics
    <3>3. QED
      BY <3>1, <3>2
  <2>5. CASE InsertBot(k) \/ StoreBot(k) \/ RereadBot(k) \/ RemoveBot(k)
    BY <2>1, <2>5, <2>8 DEF InsertBot, StoreBot, RereadBot, RemoveBot
  <2>6. CASE PublishEvent(k) \/ PublishFails(k)
    BY <2>6, <2>8 DEF PublishEvent, PublishFails
  <2>7. QED
    BY <2>2, <2>3, <2>4, <2>5, <2>6
<1>5. QED
  BY <1>3, <1>4 DEF Doing, Publishing, Deploying

\* Every step keeps the invariant.
LEMMA PublishingInvStep ==
  References /\ PublishingInv /\ [CatalogNext]_catalogVars => PublishingInv'
<1> SUFFICES ASSUME References, PublishingInv, [CatalogNext]_catalogVars, ~overlap'
             PROVE  InTurn'
  BY DEF PublishingInv
<1>1. CatalogTypeOK
  BY DEF References
<1>2. ASSUME UNCHANGED catalogVars PROVE InTurn'
  <2>1. InTurn
    BY <1>2 DEF PublishingInv, catalogVars
  <2>2. QED
    BY <1>1, <1>2, <2>1, QuietTurn DEF catalogVars
<1>3. ASSUME NEW k \in Req, CatalogStep(k) PROVE InTurn'
  <2>1. CASE \/ globalBotExists(k) \/ CheckOwner(k) \/ isVersionNewer(k) \/ globalVersionExists(k)
             \/ validateZipStructure(k) \/ extractAndStoreFrontend(k) \/ createNewGlobalVersion(k)
    <3>1. overlap' = overlap
      BY <2>1 DEF globalBotExists, CheckOwner, isVersionNewer, globalVersionExists,
          validateZipStructure, extractAndStoreFrontend, createNewGlobalVersion, Unread, history
    <3>2. QED
      BY <2>1, <3>1, PublishTurn DEF PublishingInv
  <2>2. CASE \/ FindVersion(k) \/ ListVersions(k) \/ RefuseInUse(k) \/ EraseRows(k)
             \/ listObjects(k) \/ WipeObjects(k)
    <3>1. overlap' = overlap
      BY <2>2 DEF FindVersion, ListVersions, RefuseInUse, EraseRows, listObjects, WipeObjects,
          Unread, history
    <3>2. QED
      BY <2>2, <3>1, DeleteTurn DEF PublishingInv
  <2>3. CASE \/ validateBotTypeAndConfig(k) \/ InsertBot(k) \/ ReadBot(k) \/ StoreBot(k)
             \/ RereadBot(k) \/ getTopics(k) \/ RemoveBot(k) \/ PublishEvent(k) \/ PublishFails(k)
    <3>1. /\ ~Doing(k, Publishing) /\ ~Doing(k, Publishing)' /\ UNCHANGED <<rows, objects, overlap>>
          /\ \A j \in Req \ {k} : req'[j] = req[j]
      BY <2>3, DeployersAreQuiet
    <3>2. InTurn
      BY <3>1 DEF PublishingInv
    <3>3. QED
      BY <1>1, <3>1, <3>2, QuietTurn
  <2>4. QED
    BY <1>3, <2>1, <2>2, <2>3 DEF CatalogStep
<1>4. ASSUME NEW u \in Publisher, CatalogCall(u) PROVE InTurn'
  <2>1. ASSUME NEW k \in Req, NEW v, NEW op, NEW pc, op = "create" <=> pc = "exists",
               \/ Publish(k, op, u, v, pc) /\ pc \in {"exists", "own"}
               \/ Unpublish(k, op, u, v) /\ pc = "own"
        PROVE  InTurn'
    <3>1. /\ Start(k, [Idle EXCEPT !.op = op, !.by = u, !.ver = v, !.pc = pc])
          /\ overlap' = (overlap \/ \E j \in Req : Doing(j, Publishing))
          /\ UNCHANGED <<rows, objects>> /\ pc \in {"exists", "own"}
      BY <2>1 DEF Publish, Unpublish, tables
    <3>2. ~overlap /\ \A j \in Req : ~Doing(j, Publishing)
      BY <3>1
    <3>3. QED
      BY <1>1, <2>1, <3>1, <3>2, BegunTurn DEF PublishingInv
  <2>2. ASSUME NEW k \in Req, NEW v \in Ver, \/ createCustomBot(k, u, v) \/ updateCustomBot(k, u, v)
                                             \/ deleteVersion(k, u, v)
        PROVE  InTurn'
    BY <2>1, <2>2 DEF createCustomBot, updateCustomBot, deleteVersion
  <2>3. ASSUME NEW k \in Req, deleteAllVersions(k, u) PROVE InTurn'
    BY <2>1, <2>3 DEF deleteAllVersions
  <2>4. ASSUME NEW k \in Req, NEW op \in Deploying, NEW b \in Deployed, NEW v, NEW pc,
               BeginBot(k, op, u, b, v, pc)
        PROVE  InTurn'
    <3> DEFINE r == [Idle EXCEPT !.op = op, !.by = u, !.bot = b, !.ver = v, !.pc = pc]
    <3>1. /\ UNCHANGED <<rows, objects, overlap>> /\ req' = [req EXCEPT ![k] = r] /\ req[k] = Idle
      BY <2>4 DEF BeginBot, Start, tables
    <3>2. r.op = op /\ Idle.op = "none"
      BY DEF Idle
    <3> HIDE DEF r
    <3>3. ~Doing(k, Publishing) /\ ~Doing(k, Publishing)' /\ \A j \in Req \ {k} : req'[j] = req[j]
      BY <1>1, <3>1, <3>2 DEF Doing, Publishing, Deploying, CatalogTypeOK
    <3>4. InTurn
      BY <3>1 DEF PublishingInv
    <3>5. QED
      BY <1>1, <3>1, <3>3, <3>4, QuietTurn
  <2>5. ASSUME NEW k \in Req, NEW b \in Deployed,
               \/ \E v \in Ver : create(k, u, b, v) \/ update(k, u, b, v)
                    \/ handleBotDeploy(k, u, b, v)
               \/ remove(k, u, b)
        PROVE  InTurn'
    BY <2>4, <2>5 DEF create, update, handleBotDeploy, remove, Deploying
  <2>6. ASSUME UNCHANGED <<rows, req, overlap>>, objects \subseteq objects' PROVE InTurn'
    <3>1. InTurn
      BY <2>6 DEF PublishingInv
    <3>2. QED
      BY <1>1, <2>6, <3>1, QuietTurn
  <2>7. ASSUME \/ \E v \in Ver : uploadFile(u, v)
               \/ \E b \in Deployed : handleBotDelete(u, b)
                    \/ \E v \in Ver : handleBotUpdate(u, b, v)
        PROVE  InTurn'
    BY <2>6, <2>7 DEF uploadFile, handleBotDelete, handleBotUpdate, tables, history
  <2>8. QED
    BY <1>4, <2>2, <2>3, <2>5, <2>7 DEF CatalogCall
<1>5. QED
  BY <1>2, <1>3, <1>4 DEF CatalogNext

\* The invariant holds at the start.
LEMMA PublishingInvInit == CatalogInit => PublishingInv
<1> SUFFICES ASSUME CatalogInit PROVE InTurn
  BY DEF PublishingInv
<1>1. \A k \in Req : req[k].op = "none"
  BY DEF CatalogInit, Idle
<1>2. OneByOne /\ \A k \in Req : Stage(k)
  BY <1>1 DEF OneByOne, Doing, Stage, Publishing
<1>3. rows = {}
  BY DEF CatalogInit
<1>4. QED
  BY <1>2, <1>3 DEF InTurn, InOrder

\* A name belongs to one user and its versions are published in their order, once each,
\* if publishing requests for it do not overlap.
THEOREM VersionsStayInOrder == CatalogSpec => []VersionsInOrder
<1>1. PublishingInv => VersionsInOrder
  BY DEF PublishingInv, InTurn, InOrder, VersionsInOrder
<1>2. QED
  BY <1>1, ReferencesInit, ReferencesStep, PublishingInvInit, PublishingInvStep, PTL
  DEF CatalogSpec

\* Files are deleted by the text of a version and what begins with it.  A published version
\* whose text begins with no other version's has its code, and its frontend if it has one.
THEOREM FilesOutliveTheirRows ==
  CatalogSpec => [](overlap \/ \A r \in rows : Begun(r.ver) \/ HasFiles(r))
<1>1. PublishingInv => overlap \/ \A r \in rows : Begun(r.ver) \/ HasFiles(r)
  BY DEF PublishingInv, InTurn
<1>2. QED
  BY <1>1, ReferencesInit, ReferencesStep, PublishingInvInit, PublishingInvStep, PTL
  DEF CatalogSpec

\* If no version's text begins with another's, every published version has its files.
THEOREM VersionsKeepTheirFiles ==
  ASSUME Longer = {}
  PROVE  CatalogSpec => []VersionsHaveTheirFiles
<1>1. PublishingInv => VersionsHaveTheirFiles
  BY DEF PublishingInv, InTurn, Begun, HasFiles, VersionsHaveTheirFiles
<1>2. QED
  BY <1>1, ReferencesInit, ReferencesStep, PublishingInvInit, PublishingInvStep, PTL
  DEF CatalogSpec

\* Deleting versions never takes with it a bot that was there, as it is, when the bots
\* deployed from them were counted (if publishing requests do not overlap).
THEOREM DeletionsSpareBots == CatalogSpec => DeletionSparesBots
<1> DEFINE Spares == \A k \in Req : At(k, "erase") /\ req'[k] # req[k] /\ ~overlap
                                      => req[k].bots \cap bots \subseteq bots'
<1>1. References /\ PublishingInv /\ [CatalogNext]_catalogVars => [Spares]_catalogVars
  <2> SUFFICES ASSUME References, PublishingInv, CatalogNext, NEW k \in Req,
                      At(k, "erase"), req'[k] # req[k], ~overlap
               PROVE  req[k].bots \cap bots \subseteq bots'
    OBVIOUS
  <2>1. CatalogTypeOK /\ WellFormed(k) /\ Stage(k) /\ RowsGrow
    BY TablesStep DEF References, PublishingInv, InTurn
  <2>2. req[k].op \in {"deleteVersion", "deleteAll"}
    <3>1. req[k] \in Request
      BY <2>1 DEF CatalogTypeOK
    <3>2. QED
      BY <2>1, <3>1 DEF WellFormed, At, StepsOf, Request, Publishing, Deploying
  <2>3. ASSUME NEW j \in Req, CatalogStep(j), j # k PROVE FALSE
    BY <2>1, <2>3, PublisherMoves, DeployerMoves DEF CatalogStep, Moves
  <2>4. ASSUME NEW u \in Publisher, CatalogCall(u) PROVE FALSE
    <3>1. ASSUME NEW j \in Req, NEW r, Start(j, r) PROVE FALSE
      <4>1. j # k
        BY <2>2, <3>1 DEF Start, Idle
      <4>2. QED
        BY <2>1, <3>1, <4>1 DEF Start, CatalogTypeOK
    <3>2. QED
      BY <2>4, <3>1
      DEF CatalogCall, uploadFile, createCustomBot, updateCustomBot, deleteVersion,
          deleteAllVersions, create, update, handleBotDeploy, remove, Publish, Unpublish,
          BeginBot, handleBotUpdate, handleBotDelete
  <2>5. CatalogStep(k)
    BY <2>3, <2>4 DEF CatalogNext
  <2>6. EraseRows(k)
    BY <2>2, <2>5
    DEF CatalogStep, At, Doing, globalBotExists, CheckOwner, isVersionNewer, globalVersionExists,
        validateZipStructure, extractAndStoreFrontend, createNewGlobalVersion, FindVersion,
        ListVersions, RefuseInUse, listObjects, WipeObjects, validateBotTypeAndConfig, InsertBot,
        ReadBot, StoreBot, RereadBot, getTopics, RemoveBot, PublishEvent, PublishFails
  <2>7. bots' = bots \ {d \in bots : \E r \in rows : /\ r.by = req[k].by
                                                     /\ req[k].op = "deleteVersion" =>
                                                          r.id \in req[k].ids
                                                     /\ r.id = d.cb}
    BY <2>6 DEF EraseRows, DeleteRows
  <2>8. \A d \in req[k].bots : d.cb \notin req[k].ids
    BY <2>1, <2>2 DEF Stage, At, Publishing
  <2>9. req[k].op = "deleteAll" => \A r \in rows : r.id \in req[k].ids
    BY <2>1, <2>2 DEF Stage, At, Publishing
  <2>10. QED
    BY <2>2, <2>7, <2>8, <2>9
<1> HIDE DEF Spares
<1>2. CatalogSpec => [][Spares]_catalogVars
  BY <1>1, ReferencesInit, ReferencesStep, PublishingInvInit, PublishingInvStep, PTL
  DEF CatalogSpec
<1>3. QED
  BY <1>2 DEF DeletionSparesBots, Spares

-----------------------------------------------------------------------------
(* The catalogue: what the runtime is told of a bot.                         *)

\* Bots that the runtime may not have been told of as they are: of another user's version, with
\* a config that an MCP tool replaced, or where a step failed or requests overlapped.
Excused(b) == b \in foreign \cup patched \cup adrift

\* The runtime has been told of the bot as it is in the table.
Matches(b) ==
  IF Deployments(b) = {} THEN told[b] = 0 ELSE \A d \in Deployments(b) : told[b] = d.ver

\* The request has not changed the table yet; it knows the row that is there.
Untouched(q) == \/ q.pc \in {"validate", "insert", "read", "store"}
                \/ q.op = "remove" /\ q.pc = "lookup"
Known(q) == \/ q.pc \in {"reread", "lookup"}
            \/ q.op \in {"deploy", "upgrade"} /\ q.pc = "publish"

\* What the only request for a bot knows of it at each of its steps.
Handles(k, b) ==
  LET q == req[k] IN
  /\ Untouched(q) => Matches(b)
  /\ Known(q) => /\ Deployments(b) # {}
                 /\ \A d \in Deployments(b) : d.by = q.by /\ d.ver = q.ver
  /\ q.op \in {"deploy", "mcpDeploy"} /\ q.pc # "publish" => Deployments(b) = {}
  /\ q.op = "upgrade" /\ q.pc = "store" => \A d \in Deployments(b) : d.by = q.by
  /\ q.op = "remove" /\ q.pc = "store" => q.flag
  /\ q.op = "remove" /\ q.pc = "publish" => Deployments(b) = {}

\* The bot's row, if there is one, is the only one, and is of a version that its user has
\* published.
Sound(b) ==
  /\ \A d, e \in Deployments(b) : d = e
  /\ \A d \in Deployments(b) : \E r \in rows : r.id = d.cb /\ r.by = d.by /\ r.ver = d.ver

\* One request at a time is about the bot, and when there is none the runtime has been
\* told of the bot as it is.
Followed(b) ==
  /\ Sound(b)
  /\ \A j, k \in Req : req[j].bot = b /\ req[k].bot = b => j = k
  /\ ~Busy(b) => Matches(b)
  /\ \A k \in Req : req[k].bot = b => Handles(k, b)

\* The inductive invariant of what the runtime is told.
ToldInv == \A b \in Deployed : Excused(b) \/ Followed(b)

-----------------------------------------------------------------------------
\* A step that is not about the bot.
LEMMA StillFollowed ==
  ASSUME NEW b \in Deployed, Followed(b), told'[b] = told[b], Deployments(b)' = Deployments(b),
         \A d \in Deployments(b), r \in rows : r.id = d.cb => r \in rows',
         \A k \in Req : req'[k] = req[k] \/ (req[k].bot # b /\ req'[k].bot # b)
  PROVE  Followed(b)'
<1>1. Sound(b)'
  BY DEF Followed, Sound
<1>2. Matches(b)' <=> Matches(b)
  BY DEF Matches
<1>3. \A k \in Req : req'[k].bot = b <=> req[k].bot = b
  OBVIOUS
<1>4. Busy(b)' <=> Busy(b)
  BY <1>3 DEF Busy
<1>5. ASSUME NEW k \in Req, req'[k].bot = b PROVE Handles(k, b)'
  <2>1. req'[k] = req[k] /\ Handles(k, b)
    BY <1>3, <1>5 DEF Followed
  <2>2. QED
    BY <1>2, <2>1 DEF Handles, Untouched, Known
<1>6. QED
  BY <1>1, <1>2, <1>3, <1>4, <1>5 DEF Followed

\* A step of the bot's only request.
LEMMA OwnFollowed ==
  ASSUME NEW b \in Deployed, Followed(b), NEW k \in Req, req[k].bot = b,
         \A j \in Req \ {k} : req'[j] = req[j], Sound(b)',
         req'[k].bot = b => Handles(k, b)', req'[k].bot # b => Matches(b)'
  PROVE  Followed(b)'
<1>1. \A j \in Req \ {k} : req[j].bot # b
  BY DEF Followed
<1>2. \A j \in Req : req'[j].bot = b => j = k
  BY <1>1
<1>3. ~Busy(b)' => req'[k].bot # b
  BY DEF Busy
<1>4. QED
  BY <1>2, <1>3 DEF Followed

\* The bot's only request ends, and has changed nothing.
LEMMA EndFollowed ==
  ASSUME References, NEW b \in Deployed, Followed(b), NEW k \in Req, req[k].bot = b,
         End(k), UNCHANGED <<rows, bots, told>>, Untouched(req[k])
  PROVE  Followed(b)'
<1>1. req'[k].bot # b /\ \A j \in Req \ {k} : req'[j] = req[j]
  BY EndKeeps, CatalogConstants DEF References, Idle
<1>2. Deployments(b)' = Deployments(b)
  BY DEF Deployments
<1>3. Sound(b)' /\ Matches(b)'
  BY <1>2 DEF Followed, Handles, Sound, Matches
<1>4. QED
  BY <1>1, <1>3, OwnFollowed

\* The bot's only request reads.
LEMMA ReadFollowed ==
  ASSUME References, NEW b \in Deployed, Followed(b), NEW k \in Req, req[k].bot = b,
         NEW r \in Request, req' = [req EXCEPT ![k] = r], r.bot = b,
         UNCHANGED <<rows, bots, told>>,
         Untouched(r) => Matches(b),
         Known(r) => /\ Deployments(b) # {}
                     /\ \A d \in Deployments(b) : d.by = r.by /\ d.ver = r.ver,
         r.op \in {"deploy", "mcpDeploy"} /\ r.pc # "publish" => Deployments(b) = {},
         r.op = "upgrade" /\ r.pc = "store" => \A d \in Deployments(b) : d.by = r.by,
         r.op = "remove" /\ r.pc = "store" => r.flag,
         r.op = "remove" => r.pc # "publish"
  PROVE  Followed(b)'
<1>1. req'[k] = r /\ \A j \in Req \ {k} : req'[j] = req[j]
  BY DEF References, CatalogTypeOK
<1>2. Deployments(b)' = Deployments(b)
  BY DEF Deployments
<1>3. Sound(b)' /\ (Matches(b)' <=> Matches(b))
  BY <1>2 DEF Followed, Sound, Matches
<1>4. Handles(k, b)'
  BY <1>1, <1>2, <1>3 DEF Handles, Untouched, Known
<1>5. QED
  BY <1>1, <1>3, <1>4, OwnFollowed

\* What is known of the request whose step it is.
LEMMA RequestKnown ==
  ASSUME References, NEW k \in Req, req[k].bot \in Deployed
  PROVE  /\ req[k] \in Request /\ req[k].op \in Deploying /\ req[k].pc \in StepsOf(req[k].op)
         /\ PointsTo(k) /\ req[k].by \in Publisher
<1>1. req[k] \in Request /\ WellFormed(k) /\ PointsTo(k)
  BY DEF References, CatalogTypeOK
<1>2. req[k].op \notin Publishing \cup {"none"}
  BY <1>1, CatalogConstants DEF WellFormed
<1>3. QED
  BY <1>1, <1>2 DEF WellFormed, Request

\* The version is looked up.
LEMMA ValidateFollowed ==
  ASSUME References, NEW k \in Req, NEW b \in Deployed, req[k].bot = b, Followed(b),
         validateBotTypeAndConfig(k)
  PROVE  Followed(b)'
<1> DEFINE q == req[k]
<1>1. q \in Request /\ q.op \in Deploying /\ q.pc \in StepsOf(q.op) /\ q.pc = "validate"
  BY RequestKnown DEF validateBotTypeAndConfig, At
<1>2. UNCHANGED <<rows, bots, told>> /\ Untouched(q) /\ Handles(k, b)
  BY <1>1 DEF validateBotTypeAndConfig, Unread, Untouched, Followed
<1>3. CASE End(k)
  BY <1>2, <1>3, EndFollowed
<1>4. ASSUME NEW w \in rows,
             req' = [req EXCEPT ![k] = [@ EXCEPT !.row = w.id,
                                          !.pc = IF req[k].op = "upgrade" THEN "read"
                                            ELSE "insert"]]
      PROVE  Followed(b)'
  <2> DEFINE pc == IF req[k].op = "upgrade" THEN "read" ELSE "insert"
             r == [q EXCEPT !.row = w.id, !.pc = pc]
  <2>1. pc \in {"read", "insert"} /\ req' = [req EXCEPT ![k] = r]
    BY <1>4
  <2> HIDE DEF pc
  <2>2. w.id \in RowId
    BY DEF References, CatalogTypeOK, Row
  <2>3. r \in Request /\ r.op = q.op /\ r.by = q.by /\ r.ver = q.ver /\ r.bot = b /\ r.pc = pc
    BY <1>1, <2>1, <2>2 DEF Request
  <2> HIDE DEF r
  <2>4. Untouched(r) /\ ~Known(r) /\ Matches(b)
    BY <1>1, <1>2, <2>1, <2>3 DEF Untouched, Known, Handles
  <2>5. r.op \in {"deploy", "mcpDeploy"} => Deployments(b) = {}
    BY <1>1, <1>2, <2>3 DEF Handles
  <2>6. QED
    BY <1>2, <2>1, <2>3, <2>4, <2>5, ReadFollowed
<1>5. QED
  BY <1>3, <1>4 DEF validateBotTypeAndConfig, getSpecificGlobalVersion

\* The bot is inserted.
LEMMA InsertFollowed ==
  ASSUME References, NEW k \in Req, NEW b \in Deployed, req[k].bot = b, Followed(b),
         InsertBot(k), ~Excused(b)'
  PROVE  Followed(b)'
<1> DEFINE q == req[k]
           d == [id |-> q.bot, by |-> q.by, cb |-> q.row, ver |-> q.ver]
<1>1. /\ q \in Request /\ q.op \in Deploying /\ q.pc \in StepsOf(q.op) /\ q.pc = "insert"
      /\ PointsTo(k)
  BY RequestKnown DEF InsertBot, At
<1>2. /\ UNCHANGED <<rows, told>> /\ Untouched(q) /\ Handles(k, b)
      /\ q.op \in {"deploy", "mcpDeploy"}
  BY <1>1 DEF InsertBot, Untouched, Followed, StepsOf, Deploying
<1>3. CASE ~\E r \in rows : r.id = q.row
  BY <1>2, <1>3, EndFollowed DEF InsertBot
<1>4. ASSUME NEW r \in rows, r.id = q.row PROVE Followed(b)'
  <2>1. bots' = bots \cup {d} /\ Deployments(b) = {}
    BY <1>1, <1>2, <1>4 DEF InsertBot, Handles
  <2>2. q.op = "deploy" /\ Step(k, "publish")
    BY <1>2, <1>4 DEF InsertBot, Excuse, Excused
  <2>3. r.by = q.by
    BY <1>4 DEF InsertBot, Excused
  <2>4. r.ver = q.ver
    <3>1. q.row # 0
      <4>1. r.id \in 1..MaxRow
        BY DEF References, CatalogTypeOK, Row, RowId
      <4>2. QED
        BY <1>4, <4>1, CatalogConstants
    <3>2. QED
      BY <1>1, <1>4, <3>1 DEF PointsTo
  <2>5. d.id = b /\ d.by = q.by /\ d.cb = r.id /\ d.ver = q.ver
    BY <1>4
  <2>6. /\ req'[k].bot = b /\ req'[k].op = "deploy" /\ req'[k].pc = "publish"
        /\ req'[k].by = q.by /\ req'[k].ver = q.ver /\ \A j \in Req \ {k} : req'[j] = req[j]
    BY <1>1, <2>2 DEF Step, References, CatalogTypeOK, Request
  <2> HIDE DEF d, q
  <2>7. Deployments(b)' = {d}
    BY <2>1, <2>5 DEF Deployments
  <2>8. Sound(b)'
    BY <1>2, <2>3, <2>4, <2>5, <2>7 DEF Sound
  <2>9. Handles(k, b)'
    BY <2>5, <2>6, <2>7 DEF Handles, Untouched, Known
  <2>10. QED
    BY <2>6, <2>8, <2>9, OwnFollowed
<1>5. QED
  BY <1>3, <1>4

\* The bot is read.
LEMMA LookFollowed ==
  ASSUME References, NEW k \in Req, NEW b \in Deployed, req[k].bot = b, Followed(b), ReadBot(k)
  PROVE  Followed(b)'
<1> DEFINE q == req[k]
<1>1. q \in Request /\ q.op \in Deploying /\ q.pc \in StepsOf(q.op) /\ q.pc = "read"
  BY RequestKnown DEF ReadBot, At
<1>2. UNCHANGED <<rows, bots, told>> /\ Untouched(q) /\ Handles(k, b) /\ Sound(b)
  BY <1>1 DEF ReadBot, Unread, Untouched, Followed, tables
<1>3. CASE End(k)
  BY <1>2, <1>3, EndFollowed
<1>4. ASSUME NEW d \in Deployments(b), d.by = q.by, q.op = "upgrade", NEW c \in RowId \cup {0},
             req' = [req EXCEPT ![k] = [@ EXCEPT !.was = c, !.pc = "store"]]
      PROVE  Followed(b)'
  <2> DEFINE r == [q EXCEPT !.was = c, !.pc = "store"]
  <2>1. req' = [req EXCEPT ![k] = r]
    BY <1>4
  <2>2. r \in Request /\ r.op = "upgrade" /\ r.by = q.by /\ r.ver = q.ver /\ r.bot = b
          /\ r.pc = "store"
    BY <1>1, <1>4 DEF Request
  <2> HIDE DEF r
  <2>3. Untouched(r) /\ ~Known(r) /\ Matches(b)
    BY <1>2, <2>2 DEF Untouched, Known, Handles
  <2>4. \A e \in Deployments(b) : e.by = q.by
    BY <1>2, <1>4 DEF Sound
  <2>5. QED
    BY <1>2, <2>1, <2>2, <2>3, <2>4, ReadFollowed
<1>5. ASSUME NEW d \in Deployments(b), d.by = q.by, q.op = "remove",
             req' = [req EXCEPT ![k] = [@ EXCEPT !.ver = d.ver, !.pc = "lookup"]]
      PROVE  Followed(b)'
  <2> DEFINE r == [q EXCEPT !.ver = d.ver, !.pc = "lookup"]
  <2>1. req' = [req EXCEPT ![k] = r]
    BY <1>5
  <2>2. d.ver \in Ver
    BY DEF Deployments, References, CatalogTypeOK, BotRow
  <2>3. r \in Request /\ r.op = "remove" /\ r.by = q.by /\ r.ver = d.ver /\ r.bot = b
          /\ r.pc = "lookup"
    BY <1>1, <1>5, <2>2 DEF Request
  <2> HIDE DEF r
  <2>4. Untouched(r) /\ Matches(b)
    BY <1>2, <2>3 DEF Untouched, Handles
  <2>5. \A e \in Deployments(b) : e.by = r.by /\ e.ver = r.ver
    BY <1>2, <1>5, <2>3 DEF Sound
  <2>6. QED
    BY <1>2, <2>1, <2>3, <2>4, <2>5, ReadFollowed
<1>6. ASSUME NEW d \in Deployments(b) PROVE d.cb \in RowId \cup {0} /\ q.row \in RowId \cup {0}
  BY <1>1 DEF Deployments, References, CatalogTypeOK, BotRow, Request
<1>7. QED
  BY <1>3, <1>4, <1>5, <1>6 DEF ReadBot

\* The upgrade is stored.
LEMMA StoreFollowed ==
  ASSUME References, NEW k \in Req, NEW b \in Deployed, req[k].bot = b, Followed(b),
         StoreBot(k), ~Excused(b)'
  PROVE  Followed(b)'
<1> DEFINE q == req[k]
           f == [d \in bots |-> IF d.id = q.bot THEN [d EXCEPT !.ver = q.ver, !.cb = q.was] ELSE d]
<1>1. /\ q \in Request /\ q.op = "upgrade" /\ q.pc = "store" /\ PointsTo(k)
      /\ bots \subseteq BotRow
  BY RequestKnown DEF StoreBot, At, References, CatalogTypeOK
<1>2. UNCHANGED <<rows, told>> /\ Untouched(q) /\ Handles(k, b) /\ Sound(b) /\ patched' = patched
  BY <1>1 DEF StoreBot, Untouched, Followed
<1>3. CASE End(k) /\ UNCHANGED bots
  BY <1>2, <1>3, EndFollowed
<1>4. ASSUME NEW r \in rows, r.id = q.was, Deployments(b) # {}, Step(k, "reread"),
             bots' = {IF d.id = q.bot THEN [d EXCEPT !.ver = q.ver, !.cb = q.was]
               ELSE d : d \in bots},
             foreign' = IF \E x \in rows : x.id = q.was /\ x.by # q.by
                        THEN foreign \cup {q.bot} ELSE foreign
      PROVE  Followed(b)'
  <2>1. r.by = q.by
    BY <1>4 DEF Excused
  <2>2. r.ver = q.ver
    <3>1. r.id \in 1..MaxRow
      BY DEF References, CatalogTypeOK, Row, RowId
    <3>5. r.id # 0
      BY <3>1, CatalogConstants
    <3> HIDE DEF f
    <3>2. q.was # 0
      BY <1>4, <3>5
    <3>3. q.bot \notin patched
      BY <1>2 DEF Excused
    <3>4. QED
      BY <1>1, <1>4, <3>2, <3>3 DEF PointsTo
  <2>3. bots' = {f[d] : d \in bots}
    BY <1>4
  <2>4. ASSUME NEW d \in bots
        PROVE  /\ d.id = b => f[d].id = b /\ f[d].by = d.by /\ f[d].cb = q.was /\ f[d].ver = q.ver
               /\ d.id # b => f[d] = d
    <3>1. d \in BotRow
      BY <1>1
    <3>2. QED
      BY <3>1 DEF BotRow
  <2> HIDE DEF f
  <2>5. PICK d \in bots : d.id = b /\ \A e \in bots : e.id = b => e = d
    BY <1>2, <1>4 DEF Deployments, Sound
  <2>6. Deployments(b)' = {f[d]}
    BY <2>3, <2>4, <2>5 DEF Deployments
  <2>7. d.by = q.by
    BY <1>1, <1>2, <2>5 DEF Handles, Deployments
  <2>8. /\ req'[k].bot = b /\ req'[k].op = "upgrade" /\ req'[k].pc = "reread"
        /\ req'[k].by = q.by /\ req'[k].ver = q.ver /\ \A j \in Req \ {k} : req'[j] = req[j]
    BY <1>1, <1>4 DEF Step, References, CatalogTypeOK, Request
  <2>9. f[d].by = q.by /\ f[d].cb = r.id /\ f[d].ver = q.ver
    BY <1>4, <2>4, <2>5, <2>7
  <2> HIDE DEF q
  <2>10. Sound(b)'
    BY <1>2, <2>1, <2>2, <2>6, <2>9 DEF Sound
  <2>11. Handles(k, b)'
    BY <2>6, <2>8, <2>9 DEF Handles, Untouched, Known
  <2>12. QED
    BY <2>8, <2>10, <2>11, OwnFollowed
<1>5. QED
  BY <1>3, <1>4 DEF StoreBot

\* The bot's only request takes its next step, and has changed nothing.
LEMMA StepFollowed ==
  ASSUME References, NEW b \in Deployed, Followed(b), NEW k \in Req, req[k].bot = b,
         req[k].op = "upgrade", NEW pc \in {"lookup", "publish"}, Step(k, pc),
         UNCHANGED <<rows, bots, told>>, Known(req[k])
  PROVE  Followed(b)'
<1> DEFINE q == req[k]
           r == [q EXCEPT !.pc = pc]
<1>1. q \in Request /\ Handles(k, b)
  BY DEF References, CatalogTypeOK, Followed
<1>2. req' = [req EXCEPT ![k] = r]
  BY DEF Step
<1>3. r \in Request /\ r.op = "upgrade" /\ r.by = q.by /\ r.ver = q.ver /\ r.bot = b /\ r.pc = pc
  BY <1>1 DEF Request
<1> HIDE DEF r
<1>4. ~Untouched(r) /\ \A d \in Deployments(b) : d.by = r.by /\ d.ver = r.ver
  BY <1>1, <1>3 DEF Untouched, Handles
<1>5. Deployments(b) # {}
  BY <1>1 DEF Handles
<1>6. QED
  BY <1>2, <1>3, <1>4, <1>5, ReadFollowed

\* The topic is looked up: the user of a bot that is followed has published its version.
LEMMA TopicFollowed ==
  ASSUME References, NEW k \in Req, NEW b \in Deployed, req[k].bot = b, Followed(b), getTopics(k)
  PROVE  Followed(b)'
<1> DEFINE q == req[k]
           known == getSpecificUserVersion(q.by, q.ver) # {}
<1>1. q \in Request /\ q.op \in {"upgrade", "remove"} /\ q.pc = "lookup"
  BY RequestKnown DEF getTopics, At, StepsOf, Deploying
<1>2. UNCHANGED <<rows, bots, told>> /\ Known(q) /\ Handles(k, b) /\ Sound(b)
  BY <1>1 DEF getTopics, Unread, Known, Followed, tables
<1>3. PICK d \in Deployments(b) : d.by = q.by /\ d.ver = q.ver
  BY <1>2 DEF Handles
<1>4. known
  BY <1>2, <1>3 DEF Sound, getSpecificUserVersion
<1>5. CASE q.op = "remove"
  <2> DEFINE r == [q EXCEPT !.flag = TRUE, !.pc = "store"]
  <2>1. req' = [req EXCEPT ![k] = [@ EXCEPT !.flag = known, !.pc = "store"]]
    BY <1>5, <1>1 DEF getTopics
  <2>2. known = TRUE
    BY <1>4
  <2> HIDE DEF known
  <2>3. req' = [req EXCEPT ![k] = r]
    BY <2>1, <2>2
  <2>4. r \in Request /\ r.op = "remove" /\ r.bot = b /\ r.pc = "store" /\ r.flag = TRUE
    BY <1>1, <1>5 DEF Request
  <2> HIDE DEF r
  <2>5. Matches(b) /\ ~Known(r)
    BY <1>1, <1>2, <1>5, <2>4 DEF Handles, Untouched, Known
  <2>6. QED
    BY <1>2, <2>3, <2>4, <2>5, ReadFollowed
<1>6. CASE q.op = "upgrade"
  <2>1. Step(k, "publish")
    BY <1>1, <1>4, <1>6 DEF getTopics
  <2>2. QED
    BY <1>2, <1>6, <2>1, StepFollowed
<1>7. QED
  BY <1>1, <1>5, <1>6

\* The bot is deleted.
LEMMA RemoveFollowed ==
  ASSUME References, NEW k \in Req, NEW b \in Deployed, req[k].bot = b, Followed(b), RemoveBot(k)
  PROVE  Followed(b)'
<1> DEFINE q == req[k]
<1>1. q \in Request /\ q.op = "remove" /\ q.pc = "store" /\ Handles(k, b)
  BY RequestKnown DEF RemoveBot, At, Doing, Followed
<1>2. UNCHANGED <<rows, told>> /\ bots' = bots \ Deployments(b) /\ Step(k, "publish")
  BY <1>1 DEF RemoveBot, Handles
<1>3. Deployments(b)' = {}
  BY <1>2 DEF Deployments
<1>4. /\ req'[k].bot = b /\ req'[k].op = "remove" /\ req'[k].pc = "publish"
      /\ \A j \in Req \ {k} : req'[j] = req[j]
  BY <1>1, <1>2 DEF Step, References, CatalogTypeOK, Request
<1>5. Sound(b)' /\ Handles(k, b)'
  BY <1>3, <1>4 DEF Sound, Handles, Untouched, Known
<1>6. QED
  BY <1>4, <1>5, OwnFollowed

\* The runtime is told.
LEMMA EventFollowed ==
  ASSUME References, NEW k \in Req, NEW b \in Deployed, req[k].bot = b, Followed(b), PublishEvent(k)
  PROVE  Followed(b)'
<1> DEFINE q == req[k]
<1>1. /\ q \in Request /\ q.op \in {"deploy", "upgrade", "remove"} /\ q.pc = "publish"
      /\ Handles(k, b) /\ Sound(b)
  BY RequestKnown DEF PublishEvent, At, StepsOf, Deploying, Followed
<1>2. /\ UNCHANGED <<rows, bots>> /\ End(k)
      /\ told'[b] = IF q.op = "remove" THEN 0 ELSE q.ver
  BY DEF PublishEvent, tables, References, CatalogTypeOK
<1>3. Deployments(b)' = Deployments(b)
  BY <1>2 DEF Deployments
<1>4. req'[k].bot # b /\ \A j \in Req \ {k} : req'[j] = req[j]
  BY <1>2, EndKeeps, CatalogConstants DEF References, Idle
<1>5. Sound(b)'
  BY <1>1, <1>2, <1>3 DEF Sound
<1>6. Matches(b)'
  BY <1>1, <1>2, <1>3 DEF Handles, Known, Matches
<1>7. QED
  BY <1>4, <1>5, <1>6, OwnFollowed

\* Any step of the bot's only request.
LEMMA OwnStepFollowed ==
  ASSUME References, NEW k \in Req, NEW b \in Deployed, req[k].bot = b, Followed(b),
         CatalogStep(k), ~Excused(b)'
  PROVE  Followed(b)'
<1>1. req[k].op \in Deploying /\ req[k].pc \in StepsOf(req[k].op)
  BY RequestKnown
<1>2. ~(\/ globalBotExists(k) \/ CheckOwner(k) \/ isVersionNewer(k) \/ globalVersionExists(k)
        \/ validateZipStructure(k) \/ extractAndStoreFrontend(k) \/ createNewGlobalVersion(k)
        \/ FindVersion(k) \/ ListVersions(k) \/ RefuseInUse(k) \/ EraseRows(k)
        \/ listObjects(k) \/ WipeObjects(k))
  BY <1>1
  DEF globalBotExists, CheckOwner, isVersionNewer, globalVersionExists, validateZipStructure,
      extractAndStoreFrontend, createNewGlobalVersion, FindVersion, ListVersions, RefuseInUse,
      EraseRows, listObjects, WipeObjects, At, Doing, StepsOf, Publishing, Deploying
<1>3. CASE RereadBot(k)
  <2>1. /\ req[k].op = "upgrade" /\ req[k].pc = "reread" /\ UNCHANGED <<rows, bots, told>>
        /\ Handles(k, b)
    BY <1>1, <1>3 DEF RereadBot, At, StepsOf, Deploying, Followed, Unread
  <2>2. Known(req[k]) /\ Deployments(b) # {}
    BY <2>1 DEF Known, Handles
  <2>3. Step(k, "lookup")
    BY <1>3, <2>2 DEF RereadBot
  <2>4. QED
    BY <2>1, <2>2, <2>3, StepFollowed
<1>4. ~PublishFails(k)
  BY DEF PublishFails, Excuse, Excused
<1>5. QED
  BY <1>2, <1>3, <1>4, ValidateFollowed, InsertFollowed, LookFollowed, StoreFollowed, TopicFollowed,
     RemoveFollowed, EventFollowed DEF CatalogStep

\* A request is about one bot, or none, from beginning to end.
LEMMA SameBot ==
  ASSUME References, NEW k \in Req, CatalogStep(k)
  PROVE  /\ req'[k].bot = req[k].bot \/ req'[k].bot = Nobody
         /\ \A j \in Req \ {k} : req'[j] = req[j]
<1> DEFINE Same == /\ req'[k].bot = req[k].bot \/ req'[k].bot = Nobody
                   /\ \A j \in Req \ {k} : req'[j] = req[j]
<1>1. req \in [Req -> Request] /\ req[k] \in Request
  BY DEF References, CatalogTypeOK
<1>2. ASSUME NEW pc, Step(k, pc) PROVE Same
  BY <1>1, <1>2 DEF Step, Request
<1>3. ASSUME End(k) PROVE Same
  BY <1>1, <1>3 DEF End, Idle
<1>4. ASSUME NEW f, req' = [req EXCEPT ![k] = [@ EXCEPT !.flag = f, !.pc = "store"]] PROVE Same
  BY <1>1, <1>4 DEF Request
<1>5. ASSUME req' = [req EXCEPT ![k] = [@ EXCEPT !.flag = TRUE, !.pc = "insert"]] PROVE Same
  BY <1>1, <1>5 DEF Request
<1>6. ASSUME NEW i,
        NEW u, req' = [req EXCEPT ![k] = [@ EXCEPT !.ids = i, !.from = u, !.pc = "inUse"]]
      PROVE  Same
  BY <1>1, <1>6 DEF Request
<1>7. ASSUME NEW w, NEW pc, req' = [req EXCEPT ![k] = [@ EXCEPT !.row = w, !.pc = pc]] PROVE Same
  BY <1>1, <1>7 DEF Request
<1>8. ASSUME NEW w, req' = [req EXCEPT ![k] = [@ EXCEPT !.was = w, !.pc = "store"]] PROVE Same
  BY <1>1, <1>8 DEF Request
<1>9. ASSUME NEW v, req' = [req EXCEPT ![k] = [@ EXCEPT !.ver = v, !.pc = "lookup"]] PROVE Same
  BY <1>1, <1>9 DEF Request
<1>10. ASSUME NEW B, req' = [req EXCEPT ![k] = [@ EXCEPT !.bots = B, !.pc = "erase"]] PROVE Same
  BY <1>1, <1>10 DEF Request
<1>11. ASSUME NEW L, req' = [req EXCEPT ![k] = [@ EXCEPT !.list = L, !.pc = "wipe"]] PROVE Same
  BY <1>1, <1>11 DEF Request
<1> SUFFICES Same
  OBVIOUS
<1> HIDE DEF Same
<1>12. CASE \/ globalBotExists(k) \/ CheckOwner(k) \/ isVersionNewer(k) \/ globalVersionExists(k)
            \/ validateZipStructure(k) \/ createNewGlobalVersion(k) \/ EraseRows(k)
                 \/ WipeObjects(k)
            \/ InsertBot(k) \/ StoreBot(k) \/ RereadBot(k) \/ RemoveBot(k)
            \/ PublishEvent(k) \/ PublishFails(k)
  BY <1>2, <1>3, <1>12
  DEF globalBotExists, CheckOwner, isVersionNewer, globalVersionExists, validateZipStructure,
      createNewGlobalVersion, EraseRows, WipeObjects, InsertBot, StoreBot, RereadBot, RemoveBot,
      PublishEvent, PublishFails
<1>13. CASE extractAndStoreFrontend(k)
  BY <1>2, <1>5, <1>13 DEF extractAndStoreFrontend
<1>14. CASE FindVersion(k)
  BY <1>3, <1>6, <1>14 DEF FindVersion
<1>15. CASE ListVersions(k)
  BY <1>3, <1>6, <1>15 DEF ListVersions
<1>16. CASE RefuseInUse(k)
  BY <1>3, <1>10, <1>16 DEF RefuseInUse
<1>17. CASE listObjects(k)
  BY <1>11, <1>17 DEF listObjects
<1>18. CASE validateBotTypeAndConfig(k)
  BY <1>3, <1>7, <1>18 DEF validateBotTypeAndConfig
<1>19. CASE ReadBot(k)
  BY <1>3, <1>8, <1>9, <1>19 DEF ReadBot
<1>20. CASE getTopics(k)
  <2>1. CASE req[k].op = "remove"
    BY <1>4, <1>20, <2>1 DEF getTopics
  <2>2. CASE req[k].op # "remove"
    BY <1>2, <1>3, <1>20, <2>2 DEF getTopics
  <2>3. QED
    BY <2>1, <2>2
<1>21. QED
  BY <1>12, <1>13, <1>14, <1>15, <1>16, <1>17, <1>18, <1>19, <1>20 DEF CatalogStep

\* A step of a request that is not about the bot.
LEMMA OtherStepFollowed ==
  ASSUME References, NEW k \in Req, NEW b \in Deployed, req[k].bot # b, Followed(b),
         CatalogStep(k), ~Excused(b)'
  PROVE  Followed(b)'
<1> DEFINE q == req[k]
<1>1. \A j \in Req : req'[j] = req[j] \/ (req[j].bot # b /\ req'[j].bot # b)
  BY SameBot, CatalogConstants
<1>2. ASSUME told'[b] = told[b], Deployments(b)' = Deployments(b), rows \subseteq rows'
      PROVE  Followed(b)'
  BY <1>1, <1>2, StillFollowed
<1>3. CASE createNewGlobalVersion(k)
  BY <1>2, <1>3 DEF createNewGlobalVersion, Deployments
<1>4. CASE EraseRows(k)
  <2>1. PICK S \in SUBSET rows : DeleteRows(S) /\ told' = told
    <3> DEFINE S == {r \in rows : /\ r.by = q.by /\ q.op = "deleteVersion" => r.id \in q.ids}
    <3>1. S \in SUBSET rows
      OBVIOUS
    <3>2. DeleteRows({r \in rows : /\ r.by = req[k].by
                                   /\ req[k].op = "deleteVersion" => r.id \in req[k].ids})
                                        /\ told' = told
      BY <1>4 DEF EraseRows
    <3>3. QED
      BY <3>2
  <2>2. \A d \in Deployments(b) : ~\E r \in S : r.id = d.cb
    BY <2>1 DEF DeleteRows, Deployments, Excused
  <2>3. Deployments(b)' = Deployments(b)
    BY <2>1, <2>2 DEF DeleteRows, Deployments
  <2>4. \A d \in Deployments(b), r \in rows : r.id = d.cb => r \in rows'
    BY <2>1, <2>2 DEF DeleteRows
  <2>5. QED
    BY <1>1, <2>1, <2>3, <2>4, StillFollowed
<1>5. CASE InsertBot(k)
  <2>1. UNCHANGED <<rows, told>> /\ Deployments(b)' = Deployments(b)
    BY <1>5 DEF InsertBot, Deployments
  <2>2. QED
    BY <1>2, <2>1
<1>6. CASE StoreBot(k)
  <2>1. \A d \in bots : d \in BotRow
    BY DEF References, CatalogTypeOK
  <2>2. \A d \in bots : [d EXCEPT !.ver = q.ver, !.cb = q.was].id = d.id
    BY <2>1 DEF BotRow
  <2>3. UNCHANGED <<rows, told>> /\ Deployments(b)' = Deployments(b)
    BY <1>6, <2>2 DEF StoreBot, Deployments
  <2>4. QED
    BY <1>2, <2>3
<1>7. CASE RemoveBot(k)
  <2>1. UNCHANGED <<rows, told>> /\ Deployments(b)' = Deployments(b)
    BY <1>7 DEF RemoveBot, Deployments
  <2>2. QED
    BY <1>2, <2>1
<1>8. CASE PublishEvent(k)
  <2>1. UNCHANGED <<rows, bots>> /\ told'[b] = told[b]
    BY <1>8 DEF PublishEvent, tables, References, CatalogTypeOK
  <2>2. QED
    BY <1>2, <2>1 DEF Deployments
<1>9. CASE ~(\/ createNewGlobalVersion(k) \/ EraseRows(k) \/ InsertBot(k) \/ StoreBot(k)
             \/ RemoveBot(k) \/ PublishEvent(k))
  <2>1. UNCHANGED <<rows, bots, told>>
    BY <1>9
    DEF CatalogStep, globalBotExists, CheckOwner, isVersionNewer, globalVersionExists,
        validateZipStructure, extractAndStoreFrontend, FindVersion, ListVersions, RefuseInUse,
        listObjects, WipeObjects, validateBotTypeAndConfig, ReadBot, RereadBot, getTopics,
        PublishFails, Unread, tables
  <2>2. QED
    BY <1>2, <2>1 DEF Deployments
<1>10. QED
  BY <1>3, <1>4, <1>5, <1>6, <1>7, <1>8, <1>9

\* A request about the bot begins.
LEMMA BeginFollowed ==
  ASSUME References, NEW k \in Req, NEW u \in Publisher, NEW b \in Deployed, NEW v \in Ver \cup {0},
         NEW op \in Deploying, NEW pc, BeginBot(k, op, u, b, v, pc), Followed(b), ~Excused(b)',
         pc = IF op = "remove" THEN "read" ELSE "validate",
         op \in {"deploy", "mcpDeploy"} => Deployments(b) = {}
  PROVE  Followed(b)'
<1> DEFINE r == [Idle EXCEPT !.op = op, !.by = u, !.bot = b, !.ver = v, !.pc = pc]
<1>1. /\ UNCHANGED <<rows, bots, told>> /\ req' = [req EXCEPT ![k] = r] /\ ~Busy(b)
  BY DEF BeginBot, Start, tables, Excused
<1>2. r.op = op /\ r.bot = b /\ r.pc = pc
  BY DEF Idle
<1> HIDE DEF r
<1>3. req'[k] = r /\ \A j \in Req \ {k} : req'[j] = req[j] /\ req[j].bot # b
  BY <1>1 DEF References, CatalogTypeOK, Busy
<1>4. Deployments(b)' = Deployments(b)
  BY <1>1 DEF Deployments
<1>5. Sound(b)' /\ Matches(b)'
  BY <1>1, <1>4 DEF Followed, Sound, Matches
<1>6. ~Known(r)
  BY <1>2 DEF Known
<1>7. Handles(k, b)'
  BY <1>2, <1>3, <1>4, <1>5, <1>6 DEF Handles
<1>8. Busy(b)'
  BY <1>2, <1>3 DEF Busy
<1>9. QED
  BY <1>3, <1>5, <1>7, <1>8 DEF Followed

\* Every step keeps the invariant.
LEMMA ToldInvStep == References /\ ToldInv /\ [CatalogNext]_catalogVars => ToldInv'
<1> SUFFICES ASSUME References, ToldInv, [CatalogNext]_catalogVars, NEW b \in Deployed, ~Excused(b)'
             PROVE  Followed(b)'
  BY DEF ToldInv
<1>1. ASSUME ~Excused(b) PROVE Followed(b)
  BY <1>1 DEF ToldInv
<1>2. ASSUME UNCHANGED catalogVars PROVE Followed(b)'
  <2>1. Followed(b)
    BY <1>1, <1>2 DEF catalogVars, Excused
  <2>2. UNCHANGED <<rows, bots, told, req>>
    BY <1>2 DEF catalogVars
  <2>3. QED
    BY <2>1, <2>2, StillFollowed DEF Deployments
<1>3. ASSUME NEW k \in Req, CatalogStep(k) PROVE Followed(b)'
  <2>1. foreign \subseteq foreign' /\ patched \subseteq patched' /\ adrift \subseteq adrift'
    BY <1>3
    DEF CatalogStep, globalBotExists, CheckOwner, isVersionNewer, globalVersionExists,
        validateZipStructure, extractAndStoreFrontend, createNewGlobalVersion, FindVersion,
        ListVersions, RefuseInUse, EraseRows, DeleteRows, listObjects, WipeObjects,
        validateBotTypeAndConfig, InsertBot, ReadBot, StoreBot, RereadBot, getTopics, RemoveBot,
        PublishEvent, PublishFails, Excuse, Unread, history
  <2>2. Followed(b)
    BY <1>1, <2>1 DEF Excused
  <2>3. QED
    BY <1>3, <2>2, OwnStepFollowed, OtherStepFollowed
<1>4. ASSUME NEW u \in Publisher, CatalogCall(u) PROVE Followed(b)'
  <2>1. foreign \subseteq foreign' /\ patched \subseteq patched' /\ adrift \subseteq adrift'
    BY <1>4
    DEF CatalogCall, uploadFile, createCustomBot, updateCustomBot, deleteVersion,
        deleteAllVersions, create, update, handleBotDeploy, remove, Publish, Unpublish,
        BeginBot, handleBotUpdate, handleBotDelete, Excuse, history
  <2>2. Followed(b)
    BY <1>1, <2>1 DEF Excused
  <2>3. ASSUME UNCHANGED <<rows, bots, told>>, NEW k \in Req, req[k] = Idle,
               NEW r, r.bot # b, req' = [req EXCEPT ![k] = r]
        PROVE  Followed(b)'
    <3>1. req[k].bot # b /\ req'[k].bot # b /\ \A j \in Req \ {k} : req'[j] = req[j]
      BY <2>3, CatalogConstants DEF References, CatalogTypeOK, Idle
    <3>2. \A j \in Req : req'[j] = req[j] \/ (req[j].bot # b /\ req'[j].bot # b)
      BY <3>1
    <3>3. QED
      BY <2>2, <2>3, <3>2, StillFollowed DEF Deployments
  <2>4. ASSUME NEW k \in Req, NEW op, NEW v,
          NEW pc, Publish(k, op, u, v, pc) \/ Unpublish(k, op, u, v)
        PROVE  Followed(b)'
    <3>1. PICK p : Start(k, [Idle EXCEPT !.op = op, !.by = u, !.ver = v, !.pc = p])
      BY <2>4 DEF Publish, Unpublish
    <3> DEFINE r == [Idle EXCEPT !.op = op, !.by = u, !.ver = v, !.pc = p]
    <3>2. r.bot # b
      BY CatalogConstants DEF Idle
    <3>3. req[k] = Idle /\ req' = [req EXCEPT ![k] = r]
      BY <3>1 DEF Start
    <3>4. UNCHANGED <<rows, bots, told>>
      BY <2>4 DEF Publish, Unpublish, tables
    <3> HIDE DEF r
    <3>5. QED
      BY <2>3, <3>2, <3>3, <3>4
  <2>5. ASSUME NEW k \in Req, NEW c \in Deployed, NEW v \in Ver \cup {0},
          NEW op \in Deploying, NEW pc,
               BeginBot(k, op, u, c, v, pc), pc = IF op = "remove" THEN "read" ELSE "validate",
               op \in {"deploy", "mcpDeploy"} => Deployments(c) = {}
        PROVE  Followed(b)'
    <3>1. CASE c = b
      BY <2>2, <2>5, <3>1, BeginFollowed
    <3>2. CASE c # b
      <4> DEFINE r == [Idle EXCEPT !.op = op, !.by = u, !.bot = c, !.ver = v, !.pc = pc]
      <4>1. r.bot # b
        BY <3>2 DEF Idle
      <4>2. req[k] = Idle /\ req' = [req EXCEPT ![k] = r] /\ UNCHANGED <<rows, bots, told>>
        BY <2>5 DEF BeginBot, Start, tables
      <4> HIDE DEF r
      <4>3. QED
        BY <2>3, <4>1, <4>2
    <3>3. QED
      BY <3>1, <3>2
  <2>6. ASSUME NEW k \in Req, NEW c \in Deployed, NEW v \in Ver,
               create(k, u, c, v) \/ update(k, u, c, v) \/ handleBotDeploy(k, u, c, v)
        PROVE  Followed(b)'
    BY <2>5, <2>6 DEF create, update, handleBotDeploy, Unused, Deploying
  <2>7. ASSUME NEW k \in Req, NEW c \in Deployed, remove(k, u, c) PROVE Followed(b)'
    BY <2>5, <2>7 DEF remove, Deploying
  <2>8. ASSUME UNCHANGED <<rows, told, req>>, Deployments(b)' = Deployments(b) PROVE Followed(b)'
    BY <2>2, <2>8, StillFollowed
  <2>9. ASSUME NEW v \in Ver, uploadFile(u, v) PROVE Followed(b)'
    BY <2>8, <2>9 DEF uploadFile, tables, Deployments
  <2>10. ASSUME NEW c \in Deployed, handleBotDelete(u, c) PROVE Followed(b)'
    <3>1. c # b
      BY <2>10 DEF handleBotDelete, Excuse, Excused
    <3>2. QED
      BY <2>8, <2>10, <3>1 DEF handleBotDelete, Deployments
  <2>11. ASSUME NEW c \in Deployed, NEW v \in Ver, handleBotUpdate(u, c, v) PROVE Followed(b)'
    <3>1. c # b
      BY <2>11 DEF handleBotUpdate, Excused
    <3>2. \A d \in bots : [d EXCEPT !.ver = v].id = d.id
      BY DEF References, CatalogTypeOK, BotRow
    <3>3. Deployments(b)' = Deployments(b)
      BY <2>11, <3>1, <3>2 DEF handleBotUpdate, Deployments
    <3>4. QED
      BY <2>8, <2>11, <3>3 DEF handleBotUpdate
  <2>12. ASSUME NEW k \in Req,
           NEW v \in Ver, \/ createCustomBot(k, u, v) \/ updateCustomBot(k, u, v)
                                              \/ deleteVersion(k, u, v)
         PROVE  Followed(b)'
    BY <2>4, <2>12 DEF createCustomBot, updateCustomBot, deleteVersion
  <2>13. ASSUME NEW k \in Req, deleteAllVersions(k, u) PROVE Followed(b)'
    BY <2>4, <2>13 DEF deleteAllVersions
  <2>14. QED
    BY <1>4, <2>6, <2>7, <2>9, <2>10, <2>11, <2>12, <2>13 DEF CatalogCall
<1>5. QED
  BY <1>2, <1>3, <1>4 DEF CatalogNext

\* The invariant holds at the start.
LEMMA ToldInvInit == CatalogInit => ToldInv
<1> SUFFICES ASSUME CatalogInit, NEW b \in Deployed PROVE Followed(b)
  BY DEF ToldInv
<1>1. ~Busy(b) /\ \A k \in Req : req[k].bot # b
  BY CatalogConstants DEF CatalogInit, Busy, Idle
<1>2. Deployments(b) = {} /\ told[b] = 0
  BY DEF CatalogInit, Deployments
<1>3. QED
  BY <1>1, <1>2 DEF Followed, Sound, Matches

\* Between requests the runtime has been told to run exactly the bots of the table, each at
\* its version, whatever requests for other bots and other versions overlap, unless one of the
\* excuses of the model has happened to the bot.
THEOREM TheRuntimeIsTold == CatalogSpec => []RuntimeIsTold
<1>1. ToldInv => RuntimeIsTold
  BY DEF ToldInv, Followed, Excused, Matches, RuntimeIsTold
<1>2. QED
  BY <1>1, ReferencesInit, ReferencesStep, ToldInvInit, ToldInvStep, PTL DEF CatalogSpec

-----------------------------------------------------------------------------
(* The catalogue: the refinement of Follower.                                *)

Loose == foreign \cup patched \cup adrift

\* The rows' versions and what the runtime was told are what Follower is about.
LEMMA WantedIs ==
  ASSUME References
  PROVE  /\ Wanted \in Runtime!States /\ told \in Runtime!States
         /\ Loose \subseteq Deployed
         /\ \A b \in Deployed : Deployments(b) = {} => Wanted[b] = 0
         /\ \A b \in Deployed, d \in bots :
              d.id = b /\ (\A e \in Deployments(b) : d = e) => Wanted[b] = d.ver
<1>1. bots \subseteq BotRow /\ told \in [Deployed -> Ver \cup {0}] /\ Loose \subseteq Deployed
  BY DEF References, CatalogTypeOK, Loose
<1>2. ASSUME NEW b \in Deployed, Deployments(b) # {}
      PROVE  /\ (CHOOSE d \in Deployments(b) : TRUE) \in Deployments(b)
             /\ (CHOOSE d \in Deployments(b) : TRUE).ver \in Ver
  <2>1. (CHOOSE d \in Deployments(b) : TRUE) \in Deployments(b)
    BY <1>2
  <2>2. \A d \in Deployments(b) : d.ver \in Ver
    BY <1>1 DEF Deployments, BotRow
  <2>3. QED
    BY <2>1, <2>2
<1>3. \A b \in Deployed : Wanted[b] \in Ver \cup {0}
  BY <1>2 DEF Wanted
<1>4. Wanted \in Runtime!States
  BY <1>3 DEF Wanted, Runtime!States
<1>5. \A b \in Deployed : Deployments(b) = {} => Wanted[b] = 0
  BY DEF Wanted
<1>6. ASSUME NEW b \in Deployed, NEW d \in bots, d.id = b, \A e \in Deployments(b) : d = e
      PROVE  Wanted[b] = d.ver
  <2>1. d \in Deployments(b)
    BY <1>6 DEF Deployments
  <2>2. (CHOOSE e \in Deployments(b) : TRUE) = d
    BY <1>2, <1>6, <2>1
  <2>3. QED
    BY <2>1, <2>2 DEF Wanted
<1>7. QED
  BY <1>1, <1>4, <1>5, <1>6 DEF Runtime!States

\* Of a bot with one row the runtime has been told what is wanted if it matches.
LEMMA MatchedIsWanted ==
  ASSUME References, NEW b \in Deployed, Followed(b), Matches(b)
  PROVE  told[b] = Wanted[b]
<1>1. CASE Deployments(b) = {}
  BY <1>1, WantedIs DEF Matches
<1>2. ASSUME NEW d \in Deployments(b) PROVE told[b] = Wanted[b]
  <2>1. d \in bots /\ d.id = b /\ \A e \in Deployments(b) : d = e
    BY <1>2 DEF Deployments, Followed, Sound
  <2>2. QED
    BY <1>2, <2>1, WantedIs DEF Matches
<1>3. QED
  BY <1>1, <1>2

\* A step after which every bot that follows has its version and what was told of it as before.
LEMMA NothingIsTold ==
  ASSUME References, References', Loose \subseteq Loose',
         \A b \in Deployed \ Loose' : Wanted'[b] = Wanted[b] /\ told'[b] = told[b]
  PROVE  [Runtime!Next]_(Runtime!followerVars)
<1>1. /\ Wanted \in Runtime!States /\ told \in Runtime!States
      /\ Wanted' \in Runtime!States /\ told' \in Runtime!States /\ Loose' \subseteq Deployed
  <2>1. (Wanted \in Runtime!States /\ told \in Runtime!States /\ Loose \subseteq Deployed)'
    BY WantedIs, PTL
  <2>2. QED
    BY <2>1, WantedIs DEF Runtime!States
<1>2. CASE Loose' = {}
  <2>1. Wanted' = Wanted /\ told' = told
    BY <1>1, <1>2 DEF Runtime!States
  <2>2. QED
    BY <1>2, <2>1 DEF Runtime!followerVars, Loose
<1>3. ASSUME NEW i \in Loose' PROVE Runtime!Next
  <2>1. \A j \in Deployed \ (Loose' \cup {i}) : Runtime!Stays(j)
    BY DEF Runtime!Stays
  <2>2. i \in Deployed
    BY <1>1
  <2>3. QED
    BY <1>1, <1>3, <2>1, <2>2 DEF Runtime!Next, Loose
<1>4. QED
  BY <1>2, <1>3

\* A step about one bot.
LEMMA OneIsTold ==
  ASSUME References, References', Loose \subseteq Loose', NEW i \in Deployed,
         \A b \in Deployed \ (Loose' \cup {i}) : Wanted'[b] = Wanted[b] /\ told'[b] = told[b],
         \/ i \in Loose'
         \/ told[i] = Wanted[i] /\ told'[i] = told[i]
         \/ Wanted'[i] = Wanted[i] /\ told'[i] = Wanted[i]
  PROVE  [Runtime!Next]_(Runtime!followerVars)
<1>1. /\ Wanted' \in Runtime!States /\ told' \in Runtime!States /\ Loose' \subseteq Deployed
  <2>1. (Wanted \in Runtime!States /\ told \in Runtime!States /\ Loose \subseteq Deployed)'
    BY WantedIs, PTL
  <2>2. QED
    BY <2>1 DEF Runtime!States
<1>2. \A j \in Deployed \ (Loose' \cup {i}) : Runtime!Stays(j)
  BY DEF Runtime!Stays
<1>3. i \in Loose' \/ Runtime!Changes(i) \/ Runtime!Follows(i)
  BY DEF Runtime!Changes, Runtime!Follows
<1>4. QED
  BY <1>1, <1>2, <1>3 DEF Runtime!Next, Loose

\* A bot whose rows a step leaves alone.
LEMMA WantedStays ==
  ASSUME NEW b \in Deployed, Deployments(b)' = Deployments(b)
  PROVE  Wanted'[b] = Wanted[b]
  BY DEF Wanted

\* Which steps of a request are about a bot, and what they leave alone.
LEMMA StepsTell ==
  ASSUME References, NEW k \in Req, CatalogStep(k)
  PROVE  /\ Loose \subseteq Loose'
         /\ \A b \in Deployed : ~Excused(b)' /\ req[k].bot # b =>
              told'[b] = told[b] /\ Deployments(b)' = Deployments(b)
         /\ InsertBot(k) \/ StoreBot(k) \/ RemoveBot(k) => UNCHANGED told
         /\ PublishEvent(k) => UNCHANGED bots
         /\ \/ InsertBot(k) \/ StoreBot(k) \/ RemoveBot(k) \/ PublishEvent(k) \/ EraseRows(k)
            \/ UNCHANGED <<bots, told>>
<1>1. Loose \subseteq Loose'
  BY DEF CatalogStep, globalBotExists, CheckOwner, isVersionNewer, globalVersionExists,
        validateZipStructure, extractAndStoreFrontend, createNewGlobalVersion, FindVersion,
        ListVersions, RefuseInUse, EraseRows, DeleteRows, listObjects, WipeObjects,
        validateBotTypeAndConfig, InsertBot, ReadBot, StoreBot, RereadBot, getTopics, RemoveBot,
        PublishEvent, PublishFails, Excuse, Unread, history, Loose
<1>2. \/ InsertBot(k) \/ StoreBot(k) \/ RemoveBot(k) \/ PublishEvent(k) \/ EraseRows(k)
      \/ UNCHANGED <<bots, told>>
  BY DEF CatalogStep, globalBotExists, CheckOwner, isVersionNewer, globalVersionExists,
        validateZipStructure, extractAndStoreFrontend, createNewGlobalVersion, FindVersion,
        ListVersions, RefuseInUse, listObjects, WipeObjects,
        validateBotTypeAndConfig, ReadBot, RereadBot, getTopics, PublishFails, Unread, tables
<1>3. InsertBot(k) \/ StoreBot(k) \/ RemoveBot(k) => UNCHANGED told
  BY DEF InsertBot, StoreBot, RemoveBot
<1>4. PublishEvent(k) => UNCHANGED bots
  BY DEF PublishEvent, tables
<1>5. ASSUME NEW b \in Deployed, ~Excused(b)', req[k].bot # b
      PROVE  told'[b] = told[b] /\ Deployments(b)' = Deployments(b)
  <2>1. CASE InsertBot(k)
    BY <1>3, <1>5, <2>1 DEF InsertBot, Deployments
  <2>2. CASE StoreBot(k)
    <3>1. \A d \in bots : [d EXCEPT !.ver = req[k].ver, !.cb = req[k].was].id = d.id
      BY DEF References, CatalogTypeOK, BotRow
    <3>2. QED
      BY <1>3, <1>5, <2>2, <3>1 DEF StoreBot, Deployments
  <2>3. CASE RemoveBot(k)
    BY <1>3, <1>5, <2>3 DEF RemoveBot, Deployments
  <2>4. CASE PublishEvent(k)
    BY <1>4, <1>5, <2>4 DEF PublishEvent, References, CatalogTypeOK, Deployments
  <2>5. CASE EraseRows(k)
    BY <1>5, <2>5 DEF EraseRows, DeleteRows, Deployments, Excused
  <2>6. CASE UNCHANGED <<bots, told>>
    BY <2>6 DEF Deployments
  <2>7. QED
    BY <1>2, <2>1, <2>2, <2>3, <2>4, <2>5, <2>6
<1>6. QED
  BY <1>1, <1>2, <1>3, <1>4, <1>5

\* The bot's only request changes its row while the runtime runs the one before, or tells of it.
LEMMA OwnStepTells ==
  ASSUME References, NEW k \in Req, NEW b \in Deployed, req[k].bot = b, Followed(b),
         CatalogStep(k)
  PROVE  \/ told[b] = Wanted[b] /\ told'[b] = told[b]
         \/ Wanted'[b] = Wanted[b] /\ told'[b] = Wanted[b]
         \/ Wanted'[b] = Wanted[b] /\ told'[b] = told[b]
<1> DEFINE q == req[k]
<1>1. /\ q \in Request /\ q.op \in Deploying /\ q.pc \in StepsOf(q.op) /\ Handles(k, b)
  BY RequestKnown DEF Followed
<1>2. CASE InsertBot(k) \/ StoreBot(k) \/ RemoveBot(k)
  <2>1. Untouched(q)
    BY <1>2 DEF InsertBot, StoreBot, RemoveBot, At, Untouched
  <2>2. Matches(b) /\ told'[b] = told[b]
    BY <1>1, <1>2, <2>1, StepsTell DEF Handles
  <2>3. QED
    BY <2>2, MatchedIsWanted
<1>3. CASE PublishEvent(k)
  <2>1. Wanted'[b] = Wanted[b]
    BY <1>3, StepsTell, WantedStays DEF Deployments
  <2>2. told'[b] = (IF q.op = "remove" THEN 0 ELSE q.ver) /\ q.pc = "publish"
    BY <1>3 DEF PublishEvent, At, References, CatalogTypeOK
  <2>3. CASE q.op = "remove"
    <3>1. Deployments(b) = {}
      BY <1>1, <2>2, <2>3 DEF Handles
    <3>2. QED
      BY <2>1, <2>2, <2>3, <3>1, WantedIs
  <2>4. CASE q.op # "remove"
    <3>1. q.op \in {"deploy", "upgrade"}
      BY <1>1, <2>2, <2>4 DEF StepsOf, Deploying
    <3>2. PICK d \in Deployments(b) : d.ver = q.ver
      BY <1>1, <2>2, <3>1 DEF Handles, Known
    <3>3. d \in bots /\ d.id = b /\ \A e \in Deployments(b) : d = e
      BY <3>2 DEF Deployments, Followed, Sound
    <3>4. Wanted[b] = q.ver
      BY <3>2, <3>3, WantedIs
    <3>5. QED
      BY <2>1, <2>2, <2>4, <3>4
  <2>5. QED
    BY <2>3, <2>4
<1>4. CASE UNCHANGED <<bots, told>>
  BY <1>4, WantedStays DEF Deployments
<1>5. ~EraseRows(k)
  BY <1>1 DEF EraseRows, At, StepsOf, Deploying
<1>6. QED
  BY <1>2, <1>3, <1>4, <1>5, StepsTell

\* What a call of the API, or of an MCP tool, does at once.
LEMMA CallsTell ==
  ASSUME References, NEW u \in Publisher, CatalogCall(u)
  PROVE  /\ Loose \subseteq Loose'
         /\ \A b \in Deployed \ Loose' : told'[b] = told[b] /\ Deployments(b)' = Deployments(b)
<1>1. Loose \subseteq Loose' /\ UNCHANGED told
  BY DEF CatalogCall, uploadFile, createCustomBot, updateCustomBot, deleteVersion,
         deleteAllVersions, create, update, handleBotDeploy, remove, Publish, Unpublish,
         BeginBot, handleBotUpdate, handleBotDelete, Excuse, history, Loose
<1>2. ASSUME NEW c \in Deployed, NEW v \in Ver, handleBotUpdate(u, c, v),
             NEW b \in Deployed \ Loose'
      PROVE  Deployments(b)' = Deployments(b)
  <2>1. c # b
    BY <1>2 DEF handleBotUpdate, Loose
  <2>2. \A d \in bots : [d EXCEPT !.ver = v].id = d.id
    BY DEF References, CatalogTypeOK, BotRow
  <2>3. QED
    BY <1>2, <2>1, <2>2 DEF handleBotUpdate, Deployments
<1>3. ASSUME NEW c \in Deployed, handleBotDelete(u, c), NEW b \in Deployed \ Loose'
      PROVE  Deployments(b)' = Deployments(b)
  BY <1>3 DEF handleBotDelete, Excuse, Loose, Deployments
<1>4. \/ UNCHANGED bots
      \/ \E c \in Deployed, v \in Ver : handleBotUpdate(u, c, v)
      \/ \E c \in Deployed : handleBotDelete(u, c)
  BY DEF CatalogCall, uploadFile, createCustomBot, updateCustomBot, deleteVersion,
         deleteAllVersions, create, update, handleBotDeploy, remove, Publish, Unpublish,
         BeginBot, tables
<1>5. QED
  BY <1>1, <1>2, <1>3, <1>4 DEF Deployments

LEMMA RuntimeStep ==
  References /\ ToldInv /\ [CatalogNext]_catalogVars => [Runtime!Next]_(Runtime!followerVars)
<1> SUFFICES ASSUME References, ToldInv, [CatalogNext]_catalogVars
             PROVE  [Runtime!Next]_(Runtime!followerVars)
  OBVIOUS
<1>0. References'
  BY ReferencesStep
<1>1. CASE UNCHANGED catalogVars
  <2>1. Wanted' = Wanted /\ told' = told /\ Loose' = Loose
    BY <1>1 DEF catalogVars, Wanted, Deployments, Loose
  <2>2. QED
    BY <2>1 DEF Runtime!followerVars, Loose
<1>2. ASSUME NEW k \in Req, CatalogStep(k) PROVE [Runtime!Next]_(Runtime!followerVars)
  <2>1. \A b \in Deployed \ Loose' : req[k].bot # b =>
          Wanted'[b] = Wanted[b] /\ told'[b] = told[b]
    BY <1>2, StepsTell, WantedStays DEF Excused, Loose
  <2>2. Loose \subseteq Loose'
    BY <1>2, StepsTell
  <2>3. ASSUME NEW i \in Deployed \ Loose', req[k].bot = i
        PROVE  [Runtime!Next]_(Runtime!followerVars)
    <3>1. Followed(i)
      BY <2>2, <2>3 DEF ToldInv, Excused, Loose
    <3>2. CASE Wanted'[i] = Wanted[i] /\ told'[i] = told[i]
      BY <1>0, <2>1, <2>2, <2>3, <3>2, NothingIsTold
    <3>3. CASE ~(Wanted'[i] = Wanted[i] /\ told'[i] = told[i])
      BY <1>0, <1>2, <2>1, <2>2, <2>3, <3>1, <3>3, OwnStepTells, OneIsTold
    <3>4. QED
      BY <3>2, <3>3
  <2>4. CASE req[k].bot \notin Deployed \ Loose'
    BY <1>0, <2>1, <2>2, <2>4, NothingIsTold
  <2>5. QED
    BY <2>3, <2>4
<1>3. ASSUME NEW u \in Publisher, CatalogCall(u) PROVE [Runtime!Next]_(Runtime!followerVars)
  BY <1>0, <1>3, CallsTell, WantedStays, NothingIsTold
<1>4. QED
  BY <1>1, <1>2, <1>3 DEF CatalogNext

\* The API's deployments do what Follower allows: however publications, upgrades, deletions and
\* the tools' changes of other bots come in between, the runtime is told of a change of a bot
\* before its row changes again, and of nothing but its row, unless one of the excuses of the
\* model has happened to the bot.
THEOREM CatalogImplementsFollower == CatalogSpec => RuntimeFollows
<1>1. CatalogInit => Runtime!Init
  BY DEF CatalogInit, Runtime!Init, Wanted, Deployments
<1>2. QED
  BY <1>1, RuntimeStep, ReferencesInit, ReferencesStep, ToldInvInit, ToldInvStep, PTL
  DEF CatalogSpec, RuntimeFollows, Runtime!Spec

================================================================================
