-------------------------------- MODULE Admins --------------------------------
(***************************************************************************)
(* Who administers the API: the roles of users (api/src/user), changed by  *)
(* administrators under a lock in the database, and the administrator that *)
(* the deployment configures (api/src/auth/admin-bootstrap.service.ts),    *)
(* whom every instance puts in place under the same lock before it takes   *)
(* requests.                                                               *)
(*                                                                         *)
(* Instances of the API share the database.  Within one, changes queue up  *)
(* in a chain of promises; between them, the lock is a row that carries    *)
(* the time it was taken.  An instance that dies leaves the row behind,    *)
(* and a row older than staleMs may be taken away by whoever waits for it. *)
(***************************************************************************)
EXTENDS Integers, Sequences, FiniteSets

CONSTANTS
  Account,
  Root,           \* the account with the configured email
  Legacy,         \* accounts of an older database whose metadata makes them admins
  Instance,
  Nowhere,
  Change,         \* requests in progress at once, bootstraps among them
  Edit,           \* what updateUser is asked for, role and isActive: a set of them
  MaxStamp,       \* bound: times the lock is taken
  MaxStart        \* bound: starts of instances

ASSUME AdminConstants ==
  /\ Root \in Account
  /\ Legacy \subseteq Account
  /\ Nowhere \notin Instance
  /\ Edit \subseteq [role : {"same", "user", "admin"}, active : {"same", "on", "off"}]
  /\ MaxStamp \in Nat /\ MaxStart \in Nat

VARIABLES
  users,          \* the users table: role and isActive
  lock,           \* the stamp of the lock's row; 0: no row
  aged,           \* it is older than staleMs
  stamps,         \* how often the lock has been taken
  instances,
  starts,
  queue,          \* localLock of each instance: the changes that chained on to it
  change,         \* the changes in progress
  outlived        \* history: a lock grew old while the change that took it went on

adminVars == <<users, lock, aged, stamps, instances, starts, queue, change, outlived>>
lockRow   == <<lock, aged, stamps>>

-----------------------------------------------------------------------------
UserRow == [role : {"none", "user", "admin"}, active : BOOLEAN]
NoUser  == [role |-> "none", active |-> FALSE]
Admin   == [role |-> "admin", active |-> TRUE]

ChangeState ==
  [op     : {"none", "updateUser", "deleteAccount", "bootstrap"},
   at     : Instance \cup {Nowhere},
   self   : BOOLEAN,                  \* the actor is the target
   target : Account,
   role   : {"same", "user", "admin"},
   active : {"same", "on", "off"},
   stamp  : 0..MaxStamp,              \* lockedAt, when it holds the lock
   seen   : 0..MaxStamp,              \* lockedAt of the row it found
   todo   : SUBSET Account,           \* bootstrap: users to promote
   known  : BOOLEAN,                  \* bootstrap: the configured user was found
   done   : BOOLEAN,                  \* bootstrap: no error
   pc     : {"none", "acquire", "busy", "find", "count", "write",
             "users", "promote", "root", "sync", "release"}]

NoChange ==
  [op |-> "none", at |-> Nowhere, self |-> FALSE, target |-> Root,
   role |-> "same", active |-> "same", stamp |-> 0, seen |-> 0, todo |-> {},
   known |-> FALSE, done |-> FALSE, pc |-> "none"]

\* Every variable has its type.
AdminsTypeOK ==
  /\ users \in [Account -> UserRow]
  /\ lock \in 0..MaxStamp
  /\ aged \in BOOLEAN
  /\ stamps \in 0..MaxStamp
  /\ instances \in [Instance -> {"down", "starting", "listening"}]
  /\ starts \in 0..MaxStart
  /\ queue \in [Instance -> Seq(Change)]
  /\ change \in [Change -> ChangeState]
  /\ outlived \in BOOLEAN

\* A new database, or one of an older release, which has no roles but those in the
\* metadata.
AdminsInit ==
  /\ users \in [Account -> {NoUser} \cup [role : {"user"}, active : BOOLEAN]]
  /\ lock = 0 /\ aged = FALSE /\ stamps = 0
  /\ instances = [i \in Instance |-> "down"]
  /\ starts = 0
  /\ queue = [i \in Instance |-> <<>>]
  /\ change = [c \in Change |-> NoChange]
  /\ outlived = FALSE

ActiveAdmins == {u \in Account : users[u] = Admin}
countActiveAdmins == Cardinality(ActiveAdmins)

InFlight(c) == change[c].op # "none"
Holding(c)  == change[c].pc \in {"find", "count", "write", "users", "promote", "root", "sync",
                                 "release"}
Goto(c, pc) == change' = [change EXCEPT ![c].pc = pc]
UnchangedAround == UNCHANGED <<lockRow, instances, starts, queue, outlived>>

-----------------------------------------------------------------------------
(* The lock. *)

\* The local chain: a change waits for those before it on its instance.
withLocalLock(c, r) ==
  /\ ~InFlight(c)
  /\ change' = [change EXCEPT ![c] = r]
  /\ queue' = [queue EXCEPT ![r.at] = Append(@, c)]

First(c) ==
  InFlight(c) /\ queue[change[c].at] # <<>> /\ Head(queue[change[c].at]) = c

\* The change is over, whatever its outcome; an instance whose bootstrap failed
\* does not start.
Leaves(c) ==
  LET i == change[c].at IN
  /\ change' = [change EXCEPT ![c] = NoChange]
  /\ queue' = [queue EXCEPT ![i] = Tail(@)]
  /\ instances' = IF change[c].op # "bootstrap" THEN instances
                  ELSE [instances EXCEPT ![i] = IF change[c].done THEN "listening" ELSE "down"]

\* The primary key lets one INSERT succeed; otherwise the row is read.
tryAcquire(c) ==
  /\ First(c) /\ change[c].pc = "acquire"
  /\ IF lock = 0
     THEN /\ stamps < MaxStamp
          /\ stamps' = stamps + 1 /\ lock' = stamps + 1 /\ aged' = FALSE
          /\ change' = [change EXCEPT ![c].stamp = stamps + 1,
                          ![c].pc = IF change[c].op = "bootstrap" THEN "users" ELSE "find"]
     ELSE /\ IF aged THEN change' = [change EXCEPT ![c].seen = lock, ![c].pc = "busy"]
             ELSE UNCHANGED change
          /\ UNCHANGED lockRow
  /\ UNCHANGED <<users, instances, starts, queue, outlived>>

\* Mutation: the row is deleted whatever its stamp.
releaseIfMatches_Any(stamp) ==
  lock' = 0 /\ aged' = FALSE

releaseIfMatches(stamp) ==
  IF lock = stamp THEN lock' = 0 /\ aged' = FALSE ELSE UNCHANGED <<lock, aged>>

\* A stale row is deleted if it is still the one that was read.
StealLock(c) ==
  /\ First(c) /\ change[c].pc = "busy"
  /\ releaseIfMatches(change[c].seen)
  /\ change' = [change EXCEPT ![c].seen = 0, ![c].pc = "acquire"]
  /\ UNCHANGED <<users, stamps, instances, starts, queue, outlived>>

\* After fifty attempts, or an error of the database.
GiveUp(c) ==
  /\ First(c) /\ change[c].pc \in {"acquire", "busy"}
  /\ Leaves(c)
  /\ UNCHANGED <<users, lockRow, starts, outlived>>

\* The lock is released however the callback ended; failing to is an error, and
\* the row stays.
runWithRelease(c) ==
  /\ First(c) /\ change[c].pc = "release"
  /\ \/ releaseIfMatches(change[c].stamp) /\ Leaves(c)
     \/ /\ change[c].op # "bootstrap"
        /\ Leaves(c) /\ UNCHANGED <<lock, aged>>
  /\ UNCHANGED <<users, stamps, starts, outlived>>

\* The callback fails: a refusal, or an error of the database.
CallbackFails(c) ==
  /\ First(c) /\ Holding(c) /\ change[c].pc # "release"
  /\ change' = [change EXCEPT ![c].done = FALSE, ![c].pc = "release"]
  /\ UNCHANGED users /\ UnchangedAround

\* Five minutes pass.
LockAges ==
  /\ lock # 0 /\ ~aged
  /\ aged' = TRUE
  /\ outlived' = (outlived \/ \E c \in Change : InFlight(c) /\ change[c].stamp = lock)
  /\ UNCHANGED <<users, lock, stamps, instances, starts, queue, change>>

-----------------------------------------------------------------------------
(* Users.  The guards read the actor before the request waits for the lock: *)
(* what it is allowed to do is not looked at again.                         *)

updateUser(c, i, actor, target, edit) ==
  /\ instances[i] = "listening"
  /\ actor \in ActiveAdmins                       \* AdminJwtGuard
  /\ withLocalLock(c, [NoChange EXCEPT !.op = "updateUser", !.at = i, !.self = (actor = target),
                         !.target = target, !.role = edit.role, !.active = edit.active,
                         !.pc = "acquire"])
  /\ UNCHANGED <<users, lockRow, instances, starts, outlived>>

deleteAccount(c, i, actor) ==
  /\ instances[i] = "listening"
  /\ users[actor].active                          \* JwtAuthGuard
  /\ withLocalLock(c, [NoChange EXCEPT !.op = "deleteAccount", !.at = i, !.self = TRUE,
                         !.target = actor, !.active = "off", !.pc = "acquire"])
  /\ UNCHANGED <<users, lockRow, instances, starts, outlived>>

\* Actors are refused to demote or deactivate themselves, except by deleting their
\* account; a wrong password is a CallbackFails.
RefusesSelf(q) ==
  q.op = "updateUser" /\ q.self /\ (q.role = "user" \/ q.active = "off")

\* requireUser; then the count is asked for only if an active admin would go.
FindUser(c) ==
  LET q == change[c] IN
  /\ First(c) /\ q.pc = "find"
  /\ Goto(c, IF users[q.target] = NoUser \/ RefusesSelf(q) THEN "release"
             ELSE IF users[q.target] = Admin /\ (q.role = "user" \/ q.active = "off")
             THEN "count" ELSE "write")
  /\ UNCHANGED users /\ UnchangedAround

\* Mutation: the last admin is counted as one too many.
assertAdminWillRemain_OffByOne(c) ==
  /\ First(c) /\ change[c].pc = "count"
  /\ Goto(c, IF countActiveAdmins < 1 THEN "release" ELSE "write")
  /\ UNCHANGED users /\ UnchangedAround

assertAdminWillRemain(c) ==
  /\ First(c) /\ change[c].pc = "count"
  /\ Goto(c, IF countActiveAdmins <= 1 THEN "release" ELSE "write")
  /\ UNCHANGED users /\ UnchangedAround

\* One UPDATE of what the input names; deactivate for an account deleted.
UpdateUserRow(c) ==
  LET q == change[c] IN
  /\ First(c) /\ q.pc = "write"
  /\ users' = [users EXCEPT ![q.target] =
                 [role   |-> IF q.role = "same" THEN @.role ELSE q.role,
                  active |-> IF q.active = "same" THEN @.active ELSE q.active = "on"]]
  /\ Goto(c, "release")
  /\ UnchangedAround

\* Not under the lock.  The email and the username are unique in the table.
createUser(actor, target, role, active) ==
  /\ \E i \in Instance : instances[i] = "listening"
  /\ actor \in ActiveAdmins
  /\ users[target] = NoUser
  /\ users' = [users EXCEPT ![target] = [role |-> role, active |-> active]]
  /\ UNCHANGED <<lockRow, instances, starts, queue, change, outlived>>

-----------------------------------------------------------------------------
(* Instances, and the configured administrator. *)

bootstrapConfiguredRootAdmin(c, i) ==
  /\ instances[i] = "down" /\ starts < MaxStart
  /\ starts' = starts + 1
  /\ instances' = [instances EXCEPT ![i] = "starting"]
  /\ withLocalLock(c, [NoChange EXCEPT !.op = "bootstrap", !.at = i, !.pc = "acquire"])
  /\ UNCHANGED <<users, lockRow, outlived>>

\* An empty table gets its first admin.
createConfiguredFirstAdmin(c) ==
  /\ First(c) /\ change[c].pc = "users"
  /\ users = [u \in Account |-> NoUser]
  /\ users' = [users EXCEPT ![Root] = Admin]
  /\ change' = [change EXCEPT ![c].done = TRUE, ![c].pc = "release"]
  /\ UnchangedAround

\* Otherwise the users whose metadata makes them admins are promoted.
syncConfiguredRootAdminWithLock(c) ==
  /\ First(c) /\ change[c].pc = "users"
  /\ users # [u \in Account |-> NoUser]
  /\ change' = [change EXCEPT ![c].pc = "promote",
                  ![c].todo = {u \in Legacy : users[u].role = "user"}]
  /\ UNCHANGED users /\ UnchangedAround

promoteToAdmin(c) ==
  /\ First(c) /\ change[c].pc = "promote"
  /\ \E u \in change[c].todo :
       /\ users' = [users EXCEPT ![u].role = "admin"]
       /\ change' = [change EXCEPT ![c].todo = @ \ {u}]
  /\ UnchangedAround

FindConfiguredUser(c) ==
  /\ First(c) /\ change[c].pc = "promote" /\ change[c].todo = {}
  /\ change' = [change EXCEPT ![c].known = (users[Root] # NoUser), ![c].pc = "sync"]
  /\ UNCHANGED users /\ UnchangedAround

\* An admin who created the account meanwhile makes the INSERT fail.
createConfiguredRootAdmin(c) ==
  /\ First(c) /\ change[c].pc = "sync" /\ ~change[c].known
  /\ users[Root] = NoUser
  /\ users' = [users EXCEPT ![Root] = Admin]
  /\ change' = [change EXCEPT ![c].done = TRUE, ![c].pc = "release"]
  /\ UnchangedAround

\* Mutation: an account whose password is the configured one is left as it is.
syncConfiguredRootAdmin_PasswordOnly(c) ==
  /\ First(c) /\ change[c].pc = "sync" /\ change[c].known
  /\ change' = [change EXCEPT ![c].done = TRUE, ![c].pc = "release"]
  /\ UNCHANGED users /\ UnchangedAround

\* Whether its password has to be set or not, it ends up an active admin.
syncConfiguredRootAdmin(c) ==
  /\ First(c) /\ change[c].pc = "sync" /\ change[c].known
  /\ users' = [users EXCEPT ![Root] = Admin]
  /\ change' = [change EXCEPT ![c].done = TRUE, ![c].pc = "release"]
  /\ UnchangedAround

\* Its changes die with an instance; the row of the lock does not.
InstanceCrashes(i) ==
  /\ instances[i] # "down"
  /\ instances' = [instances EXCEPT ![i] = "down"]
  /\ queue' = [queue EXCEPT ![i] = <<>>]
  /\ change' = [c \in Change |-> IF InFlight(c) /\ change[c].at = i THEN NoChange ELSE change[c]]
  /\ UNCHANGED <<users, lockRow, starts, outlived>>

-----------------------------------------------------------------------------
AdminStep(c) ==
  \/ tryAcquire(c) \/ StealLock(c) \/ GiveUp(c) \/ runWithRelease(c) \/ CallbackFails(c)
  \/ FindUser(c) \/ assertAdminWillRemain(c) \/ UpdateUserRow(c)
  \/ createConfiguredFirstAdmin(c) \/ syncConfiguredRootAdminWithLock(c) \/ promoteToAdmin(c)
  \/ FindConfiguredUser(c) \/ createConfiguredRootAdmin(c) \/ syncConfiguredRootAdmin(c)

AdminCall(c, i) ==
  \/ bootstrapConfiguredRootAdmin(c, i)
  \/ \E actor, target \in Account, edit \in Edit : updateUser(c, i, actor, target, edit)
  \/ \E actor \in Account : deleteAccount(c, i, actor)

AdminsNext ==
  \/ \E c \in Change : AdminStep(c) \/ \E i \in Instance : AdminCall(c, i)
  \/ \E actor, target \in Account, role \in {"user", "admin"}, active \in BOOLEAN :
       createUser(actor, target, role, active)
  \/ LockAges
  \/ \E i \in Instance : InstanceCrashes(i)

AdminsSpec == AdminsInit /\ [][AdminsNext]_adminVars

-----------------------------------------------------------------------------
(* Properties *)

\* The lock keeps changes apart across instances, deaths and stolen locks: one
\* change at a time is between acquiring and releasing, and the row is its own -
\* until a lock has grown old under a change that went on.
OneChangeAtATime ==
  outlived \/ \A c \in Change : Holding(c) =>
                /\ change[c].stamp = lock
                /\ \A d \in Change : Holding(d) => d = c

\* "At least one active admin is required": as soon as an instance takes requests
\* there is one, whatever concurrent demotions, deactivations, deletions of
\* accounts, restarts and crashes do - as long as no change outlives its lock.
AnAdminRemains ==
  (\E i \in Instance : instances[i] = "listening") /\ ~outlived => ActiveAdmins # {}

\* The API keeps what AdminRoster promises.
Roster == INSTANCE AdminRoster
            WITH admins <- ActiveAdmins,
                 open <- (\E i \in Instance : instances[i] = "listening"),
                 sure <- ~outlived
ImplementsRoster == Roster!Spec
=============================================================================
