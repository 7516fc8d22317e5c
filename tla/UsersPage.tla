------------------------------- MODULE UsersPage -------------------------------
(***************************************************************************)
(* The page on which an administrator manages the users (frontend:         *)
(* UserManagementPage, UsersTable, CreateUserDialog, lib/api/admin-users   *)
(* and the routes that pass requests on to the API's UserController).      *)
(*                                                                         *)
(* A user is a number, which stands for the id, the email and the name; 1  *)
(* is the administrator who uses the page, the only one that changes       *)
(* users.  What the API does when several do is in module Admins.  The     *)
(* controls of the configured administrator are disabled; it is left out.  *)
(* What is entered, an email or a password, is chosen when it is sent.     *)
(***************************************************************************)
EXTENDS Integers, Sequences, SequencesExt

CONSTANTS
  MaxUser,   \* bound: users there may be
  MaxJob     \* bound: requests under way at once

ASSUME UsersPageConstants == MaxUser >= 1 /\ {MaxUser, MaxJob} \subseteq Nat

Me == 1
User == 1..MaxUser
Role == {"admin", "user"}
Row == [id : User, role : Role, isActive : BOOLEAN]
Change == [role : Role] \cup [isActive : BOOLEAN]

\* `entangled' is history: users about whom something else was under way meanwhile.
Job == [op : {"list", "update", "reset", "create"}, id : 0..MaxUser, input : Change \cup {<<>>},
        pc : {"asked", "done", "refused"}, rows : SUBSET Row, entangled : SUBSET User]
NoJob == [op |-> "none", id |-> 0]

VARIABLES
  accounts,                    \* the API's users: rows
  managed, usersFetching,      \* UserManagementPage: users and isFetching
  formOpen, isSubmitting,      \* CreateUserDialog
  jobs,
  tangled                      \* history: users whose last answers overlapped or were lost

tableVars == <<managed, usersFetching>>
formVars == <<formOpen, isSubmitting>>
usersPageVars == <<accounts, tableVars, formVars, jobs, tangled>>

\* Every variable has its type.
UsersPageTypeOK ==
  /\ accounts \subseteq Row /\ ToSet(managed) \subseteq Row
  /\ {usersFetching, formOpen, isSubmitting} \subseteq BOOLEAN
  /\ \A i \in 1..MaxJob : jobs[i] = NoJob \/ jobs[i] \in Job
  /\ tangled \subseteq User

-----------------------------------------------------------------------------
(* Requests *)

\* The users that a request is about: a list is about all.
About(j) == IF j.op = "list" THEN User ELSE {j.id} \cap User

Sent(op, id, input) ==
  [op |-> op, id |-> id, input |-> input, pc |-> "asked", rows |-> {}, entangled |-> {}]

Vacancy == \E i \in 1..MaxJob : jobs[i] = NoJob

\* The page sends j.
AddJob(js, j) ==
  LET free == CHOOSE i \in 1..MaxJob : js[i] = NoJob
      Meets(k) == About(js[k]) \cap About(j)
  IN [i \in 1..MaxJob |->
        IF i = free
        THEN [j EXCEPT !.entangled = UNION {Meets(k) : k \in 1..MaxJob}]
        ELSE IF js[i] = NoJob THEN NoJob ELSE [js[i] EXCEPT !.entangled = @ \cup Meets(i)]]

loadUsers == AddJob(jobs, Sent("list", 0, <<>>))

UsersPageInit ==
  /\ \E others \in SUBSET (User \ {Me}) :
       accounts = {[id |-> u, role |-> IF u = Me THEN "admin" ELSE "user", isActive |-> TRUE] :
                     u \in {Me} \cup others}
  /\ managed = <<>> /\ usersFetching = TRUE
  /\ formOpen = FALSE /\ isSubmitting = FALSE
  /\ jobs = AddJob([i \in 1..MaxJob |-> NoJob], Sent("list", 0, <<>>))
  /\ tangled = User

-----------------------------------------------------------------------------
(* The administrator *)

\* The session's user is set anew: the page loads its users again.
UserEffect ==
  /\ Vacancy /\ jobs' = loadUsers /\ usersFetching' = TRUE
  /\ UNCHANGED <<accounts, managed, formVars, tangled>>

\* The table has its rows, and no dialog covers it.
Clickable == ~usersFetching /\ ~formOpen

\* A click asks for the role or the status that the row does not show.
ClickedChange(r) ==
  {[role |-> IF r.role = "admin" THEN "user" ELSE "admin"], [isActive |-> ~r.isActive]}

\* Mutation: the table shows at once what is asked for.
handleUpdateUser_Optimistic(k) ==
  /\ Clickable /\ Vacancy /\ k \in DOMAIN managed
  /\ \E c \in ClickedChange(managed[k]) :
       /\ jobs' = AddJob(jobs, Sent("update", managed[k].id, c))
       /\ managed' = [managed EXCEPT ![k] =
            [f \in DOMAIN @ |-> IF f \in DOMAIN c THEN c[f] ELSE @[f]]]
  /\ UNCHANGED <<accounts, usersFetching, formVars, tangled>>

handleUpdateUser(k) ==
  /\ Clickable /\ Vacancy /\ k \in DOMAIN managed
  /\ \E c \in ClickedChange(managed[k]) :
       jobs' = AddJob(jobs, Sent("update", managed[k].id, c))
  /\ UNCHANGED <<accounts, tableVars, formVars, tangled>>

handleResetPassword(k) ==
  /\ Clickable /\ Vacancy /\ k \in DOMAIN managed
  /\ jobs' = AddJob(jobs, Sent("reset", managed[k].id, <<>>))
  /\ UNCHANGED <<accounts, tableVars, formVars, tangled>>

onOpenChange ==
  /\ formOpen' = ~formOpen
  /\ UNCHANGED <<accounts, tableVars, isSubmitting, jobs, tangled>>

\* The dialog may have been closed and opened since it was sent.
SubmitUser(e) ==
  /\ formOpen /\ ~isSubmitting /\ Vacancy
  /\ isSubmitting' = TRUE
  /\ jobs' = AddJob(jobs, Sent("create", e, <<>>))
  /\ UNCHANGED <<accounts, tableVars, formOpen, tangled>>

-----------------------------------------------------------------------------
(* The API *)

Account(id) == CHOOSE r \in accounts : r.id = id

Replies(i, rows) ==
  jobs' = [jobs EXCEPT ![i] =
             [@ EXCEPT !.pc = IF rows = {} THEN "refused" ELSE "done", !.rows = rows]]

listUsers(i) ==
  /\ jobs[i].op = "list" /\ jobs[i].pc = "asked"
  /\ Replies(i, accounts)
  /\ UNCHANGED <<accounts, tableVars, formVars, tangled>>

\* Refused is an administrator's own demotion or deactivation; the rest of the row stays.
PATCHUser(i) ==
  LET j == jobs[i]
      row == Account(j.id)
      new == [f \in DOMAIN row |-> IF f \in DOMAIN j.input THEN j.input[f] ELSE row[f]]
  IN /\ j.op = "update" /\ j.pc = "asked"
     /\ IF j.id = Me /\ (new.role # "admin" \/ ~new.isActive)
        THEN Replies(i, {}) /\ UNCHANGED accounts
        ELSE Replies(i, {new}) /\ accounts' = (accounts \ {row}) \cup {new}
     /\ UNCHANGED <<tableVars, formVars, tangled>>

\* The administrator's own password is changed elsewhere.
resetUserPassword(i) ==
  /\ jobs[i].op = "reset" /\ jobs[i].pc = "asked"
  /\ Replies(i, IF jobs[i].id = Me THEN {} ELSE {Account(jobs[i].id)})
  /\ UNCHANGED <<accounts, tableVars, formVars, tangled>>

\* Refused is an email that is in use.
POSTUser(i) ==
  LET new == [id |-> jobs[i].id, role |-> "user", isActive |-> TRUE]
  IN /\ jobs[i].op = "create" /\ jobs[i].pc = "asked"
     /\ IF \E r \in accounts : r.id = new.id
        THEN Replies(i, {}) /\ UNCHANGED accounts
        ELSE Replies(i, {new}) /\ accounts' = accounts \cup {new}
     /\ UNCHANGED <<tableVars, formVars, tangled>>

-----------------------------------------------------------------------------
(* Answers *)

\* A list replaces the table, the row of an update its rows, and a new one is appended.
Merged(j) ==
  CASE j.op = "list"   -> SetToSeq(j.rows)
    [] j.op = "update" -> [k \in DOMAIN managed |->
                             IF managed[k].id = j.id THEN CHOOSE r \in j.rows : TRUE ELSE managed[k]]
    [] j.op = "create" -> managed \o SetToSeq(j.rows)
    [] OTHER           -> managed

\* A creation closes the dialog, which may be open anew; a refused one leaves it open.
FormAfter(j, ok) ==
  IF j.op = "create"
  THEN isSubmitting' = FALSE /\ formOpen' = (formOpen /\ ~ok)
  ELSE UNCHANGED formVars

AnswerArrives(i) ==
  LET j == jobs[i]
      ok == j.pc = "done"
  IN /\ j # NoJob /\ j.pc # "asked"
     /\ managed' = IF ok THEN Merged(j) ELSE managed
     /\ usersFetching' = (usersFetching /\ j.op # "list")
     /\ FormAfter(j, ok)
     /\ tangled' = IF j.op = "list" THEN j.entangled ELSE tangled \cup j.entangled
     /\ jobs' = [jobs EXCEPT ![i] = NoJob]
     /\ UNCHANGED accounts

\* An error, or no answer in eight seconds: the API may have done what it was asked.
AnswerIsLost(i) ==
  LET j == jobs[i]
  IN /\ j # NoJob
     /\ usersFetching' = (usersFetching /\ j.op # "list")
     /\ FormAfter(j, FALSE)
     /\ tangled' = tangled \cup j.entangled \cup (IF j.pc = "done" THEN About(j) ELSE {})
     /\ jobs' = [jobs EXCEPT ![i] = NoJob]
     /\ UNCHANGED <<accounts, managed>>

UsersPageNext ==
  \/ UserEffect \/ onOpenChange
  \/ \E e \in User : SubmitUser(e)
  \/ \E k \in 1..(MaxUser + MaxJob) : handleUpdateUser(k) \/ handleResetPassword(k)
  \/ \E i \in 1..MaxJob :
       \/ listUsers(i) \/ PATCHUser(i) \/ resetUserPassword(i) \/ POSTUser(i)
       \/ AnswerArrives(i) \/ AnswerIsLost(i)

UsersPageSpec == UsersPageInit /\ [][UsersPageNext]_usersPageVars

-----------------------------------------------------------------------------
(* Properties *)

\* The table has user u just when the API has, with the same row, and only once.
ShowsUser(u) ==
  /\ {r \in ToSet(managed) : r.id = u} = {r \in accounts : r.id = u}
  /\ \A k, l \in DOMAIN managed : managed[k].id = u /\ managed[l].id = u => k = l

\* With everything answered the table has each user once, as the API has it, and no
\* other, but for the users whose last answers overlapped or were lost; and the creation
\* of a user that is over leaves the form usable.
TableIsTrue ==
  (\A i \in 1..MaxJob : jobs[i] = NoJob) =>
    ~isSubmitting /\ \A u \in User \ tangled : ShowsUser(u)
=============================================================================
