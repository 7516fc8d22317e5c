----------------------------- MODULE BotStateApi -----------------------------
(***************************************************************************)
(* The API's view of a bot's state (api/src/bot-state): the archive        *)
(* state.tar.gz of the bot in MinIO, from which a user reads, deletes and  *)
(* clears keys while the bot's container keeps uploading it.               *)
(*                                                                         *)
(* The locking is optimistic, and MinIO is asked only to stat, get, put    *)
(* and remove: no write is conditional.                                    *)
(***************************************************************************)
EXTENDS Integers, FiniteSets

CONSTANTS
  StateKey,       \* files of .quantflow-state
  Access,         \* requests in progress at once
  MaxEtag         \* bound: times the archive is written

ASSUME BotStateConstants == MaxEtag \in Nat /\ StateKey # {}

VARIABLES
  archive,        \* its etag and its files; etag 0: there is none
  etags,          \* how much of MaxEtag is used up
  access,         \* the requests in progress
  slipped         \* history: requests whose archive was written after their last check

botStateVars == <<archive, etags, access, slipped>>

Archive == [etag : 0..MaxEtag, files : SUBSET StateKey]
NoArchive == [etag |-> 0, files |-> {}]

AccessState ==
  [op    : {"none", "deleteKey", "clearState", "getKey"},
   key   : StateKey,
   etag  : 0..MaxEtag,                \* of the archive found
   files : SUBSET StateKey,           \* the directory extracted, as edited
   pc    : {"none", "stat", "get", "check", "put", "remove"}]

NoAccess == [op |-> "none", key |-> CHOOSE k \in StateKey : TRUE, etag |-> 0, files |-> {},
             pc |-> "none"]

\* Every variable has its type; an archive without files is written by bots only.
BotStateTypeOK ==
  /\ archive \in Archive
  /\ etags \in 0..MaxEtag
  /\ access \in [Access -> AccessState]
  /\ slipped \subseteq Access

BotStateInit ==
  /\ archive = NoArchive /\ etags = 0
  /\ access = [a \in Access |-> NoAccess]
  /\ slipped = {}

Pc(a, pc) == access[a].pc = pc

Answer(a) == access' = [access EXCEPT ![a] = NoAccess] /\ slipped' = slipped \ {a}

\* Whoever writes the archive slips in between the check and the write of the others.
Write(new, by) ==
  /\ archive' = new
  /\ slipped' = (slipped \cup {a \in Access : access[a].pc \in {"put", "remove"}}) \ by

\* The runtime's sync uploads the files of the container, whatever they are.
UploadArchive(files) ==
  /\ etags < MaxEtag
  /\ etags' = etags + 1
  /\ Write([etag |-> etags + 1, files |-> files], {})
  /\ UNCHANGED access

Ask(a, op, key) ==
  /\ Pc(a, "none")
  /\ access' = [access EXCEPT ![a] = [NoAccess EXCEPT !.op = op, !.key = key, !.pc = "stat"]]
  /\ UNCHANGED <<archive, etags, slipped>>

\* Nothing to read, delete or clear without an archive.  One too large is refused.
downloadAndExtractStateWithEtag(a) ==
  /\ Pc(a, "stat")
  /\ \/ Answer(a)
     \/ /\ archive # NoArchive
        /\ access' = [access EXCEPT ![a].etag = archive.etag,
                        ![a].pc = IF access[a].op = "clearState" THEN "remove" ELSE "get"]
        /\ UNCHANGED slipped
  /\ UNCHANGED <<archive, etags>>

\* The archive downloaded may be another one than was asked about.  The key must be
\* there to be read or deleted.
deleteKey(a) ==
  /\ Pc(a, "get")
  /\ IF access[a].op = "getKey" \/ access[a].key \notin archive.files
     THEN Answer(a)
     ELSE /\ access' = [access EXCEPT ![a].files = archive.files \ {access[a].key}, ![a].pc = "check"]
          /\ UNCHANGED slipped
  /\ UNCHANGED <<archive, etags>>

\* Mutation: the archive is uploaded without looking at the one there is.
uploadStateWithLocking_Unchecked(a) ==
  /\ Pc(a, "check")
  /\ access' = [access EXCEPT ![a].pc = IF access[a].files = {} THEN "remove" ELSE "put"]
  /\ UNCHANGED <<archive, etags, slipped>>

\* The etag must still be the one found first.  With no file left, an archive that
\* is gone is as good as removed; otherwise it is a conflict.
uploadStateWithLocking(a) ==
  /\ Pc(a, "check")
  /\ IF archive.etag = access[a].etag \/ (archive = NoArchive /\ access[a].files = {})
     THEN /\ access' = [access EXCEPT ![a].pc = IF access[a].files = {} THEN "remove" ELSE "put"]
          /\ UNCHANGED slipped
     ELSE Answer(a)
  /\ UNCHANGED <<archive, etags>>

PutArchive(a) ==
  /\ Pc(a, "put") /\ etags < MaxEtag
  /\ etags' = etags + 1
  /\ Write([etag |-> etags + 1, files |-> access[a].files], {a})
  /\ access' = [access EXCEPT ![a] = NoAccess]

RemoveArchive(a) ==
  /\ Pc(a, "remove")
  /\ Write(NoArchive, {a})
  /\ access' = [access EXCEPT ![a] = NoAccess]
  /\ UNCHANGED etags

\* MinIO does not answer: the request fails.
AccessFails(a) ==
  /\ ~Pc(a, "none")
  /\ Answer(a)
  /\ UNCHANGED <<archive, etags>>

BotStateNext ==
  \/ \E files \in SUBSET StateKey : UploadArchive(files)
  \/ \E a \in Access :
       \/ \E key \in StateKey, op \in {"deleteKey", "clearState", "getKey"} : Ask(a, op, key)
       \/ downloadAndExtractStateWithEtag(a) \/ deleteKey(a) \/ uploadStateWithLocking(a)
       \/ PutArchive(a) \/ RemoveArchive(a) \/ AccessFails(a)

BotStateSpec == BotStateInit /\ [][BotStateNext]_botStateVars

\* "Optimistic locking to prevent race conditions that could cause data loss": deleting a
\* key takes that key out of the archive as it is, and nothing else, whatever the bot
\* uploads and other requests delete - unless the archive is written after the
\* request's last look at it, which nothing prevents.
DeletingTakesOneKey ==
  [][\A a \in Access \ slipped :
       access[a].op = "deleteKey" /\ archive' # archive /\ access'[a] # access[a]
         => archive'.files = archive.files \ {access[a].key}]_botStateVars
=============================================================================
