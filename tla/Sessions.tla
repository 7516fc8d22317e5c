------------------------------- MODULE Sessions -------------------------------
(***************************************************************************)
(* How the API knows who calls it (api/src/auth, api/src/api-key): tokens  *)
(* that carry the sessionVersion their user had, and API keys.             *)
(*                                                                         *)
(* Tokens are signed, not stored, so the only way to take one back is to   *)
(* increment sessionVersion in the row of its user.  Logging in, changing  *)
(* a password and creating a key read the database, compare and write in   *)
(* separate steps, between which other requests run.                       *)
(***************************************************************************)
EXTENDS Integers, FiniteSets

CONSTANTS
  Member,         \* users; rows are never deleted
  Password,
  KeyName,
  Visit,          \* logins, password changes and key requests in progress at once
  MaxVersion,     \* bound: sessionVersion
  MaxKey          \* bound: keys ever created

ASSUME SessionConstants ==
  /\ MaxVersion \in Nat /\ MaxKey \in Nat
  /\ Member # {} /\ Password # {} /\ KeyName # {}

VARIABLES
  members,        \* isActive, the password (hashed) and sessionVersion
  tokens,         \* the tokens given out
  keys,           \* api_keys
  keyed,          \* how much of MaxKey is used up
  visit,          \* the requests in progress
  epoch,          \* history: password changes and deletions of each account
  doubled         \* history: requests for keys of one user overlapped

sessionVars == <<members, tokens, keys, keyed, visit, epoch, doubled>>

-----------------------------------------------------------------------------
MemberRow == [active : BOOLEAN, password : Password, version : 0..MaxVersion]
Token     == [sub : Member, version : 0..MaxVersion, epoch : 0..MaxVersion]
Key       == [id : 1..MaxKey, userId : Member, name : KeyName]

\* The user as read at the start of the request, and what it asks for.
VisitState ==
  [op    : {"none", "login", "changePassword", "createApiKey"},
   user  : Member,
   row   : MemberRow,
   epoch : 0..MaxVersion,
   new   : Password,
   name  : KeyName]

Absent == CHOOSE r \in VisitState : r.op = "none"

\* Every variable has its type.
SessionsTypeOK ==
  /\ members \in [Member -> MemberRow]
  /\ tokens \subseteq Token
  /\ keys \subseteq Key
  /\ keyed \in 0..MaxKey
  /\ visit \in [Visit -> VisitState]
  /\ epoch \in [Member -> 0..MaxVersion]
  /\ doubled \in BOOLEAN

SessionsInit ==
  /\ members \in [Member -> {[active |-> TRUE, password |-> p, version |-> 0] : p \in Password}]
  /\ tokens = {} /\ keys = {} /\ keyed = 0
  /\ visit = [v \in Visit |-> Absent]
  /\ epoch = [m \in Member |-> 0]
  /\ doubled = FALSE

Free(v)      == visit[v].op = "none"
In(v, op)    == visit[v].op = op
Leave(v)     == visit' = [visit EXCEPT ![v] = Absent]
Arrive(v, op, m) ==
  [Absent EXCEPT !.op = op, !.user = m, !.row = members[m], !.epoch = epoch[m]]

-----------------------------------------------------------------------------
(* Tokens. *)

\* validateToken, for the guards, jwt.strategy and auth/validate: one read of the user.
validateToken(t) ==
  /\ members[t.sub].active
  /\ t.version = members[t.sub].version

\* The user is read by email and must be active ...
login(v, m) ==
  /\ Free(v)
  /\ members[m].active
  /\ visit' = [visit EXCEPT ![v] = Arrive(v, "login", m)]
  /\ UNCHANGED <<members, tokens, keys, keyed, epoch, doubled>>

\* Mutation: the session version is read again when the token is signed.
signUser_Reread(v) ==
  /\ In(v, "login")
  /\ tokens' = tokens \cup {[sub |-> visit[v].user, version |-> members[visit[v].user].version,
                             epoch |-> visit[v].epoch]}
  /\ Leave(v)
  /\ UNCHANGED <<members, keys, keyed, epoch, doubled>>

\* ... and once its password has been compared and lastLoginAt written, the token is
\* signed with the session version that was read with it.
signUser(v) ==
  /\ In(v, "login")
  /\ \/ tokens' = tokens \cup {[sub |-> visit[v].user, version |-> visit[v].row.version,
                                epoch |-> visit[v].epoch]}
     \/ UNCHANGED tokens                                          \* wrong password
  /\ Leave(v)
  /\ UNCHANGED <<members, keys, keyed, epoch, doubled>>

-----------------------------------------------------------------------------
(* Passwords.  The history variable counts with sessionVersion, on its own. *)

Counted(m) == epoch' = [epoch EXCEPT ![m] = IF @ < MaxVersion THEN @ + 1 ELSE @]

updatePassword(m, p) ==
  /\ members[m].version < MaxVersion
  /\ members' = [members EXCEPT ![m].password = p, ![m].version = @ + 1]

\* By an administrator; or by the bootstrap, which activates the account as well.
resetPassword(m, p) ==
  /\ updatePassword(m, p)
  /\ Counted(m)
  /\ UNCHANGED <<tokens, keys, keyed, visit, doubled>>

promoteToAdminAndSetPassword(m, p) ==
  /\ members[m].version < MaxVersion
  /\ members' = [members EXCEPT ![m] = [active |-> TRUE, password |-> p, version |-> @.version + 1]]
  /\ Counted(m)
  /\ UNCHANGED <<tokens, keys, keyed, visit, doubled>>

changePassword(v, t, p) ==
  /\ Free(v)
  /\ validateToken(t)
  /\ visit' = [visit EXCEPT ![v] = [Arrive(v, "changePassword", t.sub) EXCEPT !.new = p]]
  /\ UNCHANGED <<members, tokens, keys, keyed, epoch, doubled>>

\* The current password was compared with the hash read before; the UPDATE does not
\* look at it again.
ChangePasswordRow(v) ==
  /\ In(v, "changePassword")
  /\ \/ updatePassword(visit[v].user, visit[v].new) /\ Counted(visit[v].user)
     \/ UNCHANGED <<members, epoch>>                              \* wrong password
  /\ Leave(v)
  /\ UNCHANGED <<tokens, keys, keyed, doubled>>

\* deleteAccount keeps the row, inactive.
deactivate(t) ==
  /\ validateToken(t)
  /\ members[t.sub].version < MaxVersion
  /\ members' = [members EXCEPT ![t.sub].active = FALSE, ![t.sub].version = @ + 1]
  /\ Counted(t.sub)
  /\ UNCHANGED <<tokens, keys, keyed, visit, doubled>>

\* updateUser by an administrator: the session version stays, so that the tokens of
\* an account deactivated and activated again are accepted again.
SetActive(m, active) ==
  /\ members[m].active # active
  /\ members' = [members EXCEPT ![m].active = active]
  /\ UNCHANGED <<tokens, keys, keyed, visit, epoch, doubled>>

-----------------------------------------------------------------------------
(* API keys. *)

validateApiKey(k) == k \in keys /\ members[k.userId].active

\* The name must not be in use; the table has no constraint that says so.
createApiKey(v, t, n) ==
  /\ Free(v) /\ validateToken(t)
  /\ ~\E k \in keys : k.userId = t.sub /\ k.name = n
  /\ visit' = [visit EXCEPT ![v] = [Arrive(v, "createApiKey", t.sub) EXCEPT !.name = n]]
  /\ doubled' = (doubled \/ \E w \in Visit : In(w, "createApiKey") /\ visit[w].user = t.sub)
  /\ UNCHANGED <<members, tokens, keys, keyed, epoch>>

InsertKey(v) ==
  /\ In(v, "createApiKey") /\ keyed < MaxKey
  /\ keyed' = keyed + 1
  /\ keys' = keys \cup {[id |-> keyed + 1, userId |-> visit[v].user, name |-> visit[v].name]}
  /\ Leave(v)
  /\ UNCHANGED <<members, tokens, epoch, doubled>>

\* A user's own key, with a token or with another key.
deleteApiKey(k) ==
  /\ validateApiKey(k) \/ \E t \in tokens : t.sub = k.userId /\ validateToken(t)
  /\ keys' = keys \ {k}
  /\ UNCHANGED <<members, tokens, keyed, visit, epoch, doubled>>

-----------------------------------------------------------------------------
SessionsNext ==
  \/ \E m \in Member :
       \/ \E v \in Visit : login(v, m)
       \/ \E p \in Password : resetPassword(m, p) \/ promoteToAdminAndSetPassword(m, p)
       \/ \E active \in BOOLEAN : SetActive(m, active)
  \/ \E v \in Visit : signUser(v) \/ ChangePasswordRow(v) \/ InsertKey(v)
  \/ \E t \in tokens :
       \/ deactivate(t)
       \/ \E v \in Visit, p \in Password : changePassword(v, t, p)
       \/ \E v \in Visit, n \in KeyName : createApiKey(v, t, n)
  \/ \E k \in keys : deleteApiKey(k)

SessionsSpec == SessionsInit /\ [][SessionsNext]_sessionVars

-----------------------------------------------------------------------------
(* Properties *)

\* A token is accepted only if it was given for the password the account has now,
\* since the account was last deleted: changing or resetting a password, or deleting
\* the account, takes back all tokens, those of logins in progress included.
AcceptedTokensAreCurrent ==
  \A t \in tokens : validateToken(t) => t.epoch = epoch[t.sub]

\* A user's keys have distinct names, unless requests to create them overlapped.
KeyNamesAreDistinct ==
  doubled \/ \A j, k \in keys : j.userId = k.userId /\ j.name = k.name => j = k
=============================================================================
