---------------------------- MODULE AccountsProofs ---------------------------
(* Theorems about the accounts: Admins (the lock keeps changes apart, an        *)
(* administrator remains, and the API implements AdminRoster) and Sessions      *)
(* (which tokens are accepted, and the names of keys).                          *)
EXTENDS Admins, Sessions, FiniteSetTheorems, TLAPS

-----------------------------------------------------------------------------
(* Administrators: the inductive invariant.                                    *)

Demotes(q) == q.role = "user" \/ q.active = "off"
Open       == \E i \in Instance : instances[i] = "listening"

\* A change holds a stamp exactly while it is between acquiring and releasing.
Shape(c) ==
  /\ change[c].op = "none" <=> change[c].pc = "none"
  /\ change[c].op # "none" => change[c].at \in Instance
  /\ change[c].stamp # 0 <=> Holding(c)
  /\ change[c].stamp <= stamps
  /\ change[c].pc = "busy" =>
       change[c].seen # 0 /\ change[c].seen <= stamps /\ (change[c].seen = lock => aged)
  /\ change[c].done => change[c].pc = "release"

\* Stamps are given out once.  A lock found stale is nobody's: whose it was, died.
LockInv ==
  /\ lock <= stamps
  /\ \A c \in Change : Shape(c)
  /\ \A c, d \in Change : Holding(c) /\ change[c].stamp = change[d].stamp => c = d
  /\ ~outlived => \A c \in Change : Holding(c) => change[c].stamp = lock /\ ~aged

\* What the holder of the lock has read is still so when it writes.
AdminsKept ==
  ~outlived =>
    /\ Open => ActiveAdmins # {}
    /\ \A c \in Change :
         /\ change[c].done => ActiveAdmins # {}
         /\ change[c].pc \in {"count", "write"} => users[change[c].target] # NoUser
         /\ change[c].pc = "write" /\ Demotes(change[c]) /\ users[change[c].target] = Admin
              => ActiveAdmins # {change[c].target}

AdminInv == AdminsTypeOK /\ LockInv /\ AdminsKept

-----------------------------------------------------------------------------
LEMMA NoChangeTyped ==
  /\ NoChange \in ChangeState /\ NoChange.op = "none" /\ NoChange.pc = "none"
  /\ NoChange.stamp = 0 /\ NoChange.done = FALSE
<1>1. 0 \in 0..MaxStamp
  BY AdminConstants
<1> QED BY <1>1, AdminConstants DEF NoChange, ChangeState

LEMMA RowsTyped == NoUser \in UserRow /\ Admin \in UserRow /\ NoUser # Admin
  BY DEF NoUser, Admin, UserRow

LEMMA AdminInvInit == AdminsInit => AdminInv
<1> SUFFICES ASSUME AdminsInit PROVE AdminInv
  OBVIOUS
<1> USE AdminConstants
<1>1. AdminsTypeOK
  <2>1. users \in [Account -> UserRow]
    BY RowsTyped DEF AdminsInit, UserRow
  <2>2. 0 \in 0..MaxStamp /\ 0 \in 0..MaxStart
    OBVIOUS
  <2>3. \A i \in Instance : <<>> \in Seq(Change)
    OBVIOUS
  <2>4. /\ queue \in [Instance -> Seq(Change)] /\ change \in [Change -> ChangeState]
        /\ instances \in [Instance -> {"down", "starting", "listening"}]
    BY <2>3, NoChangeTyped DEF AdminsInit
  <2> QED BY <2>1, <2>2, <2>4 DEF AdminsInit, AdminsTypeOK
<1>2. LockInv
  BY NoChangeTyped DEF AdminsInit, LockInv, Shape, Holding
<1>3. AdminsKept
  BY NoChangeTyped DEF AdminsInit, AdminsKept, Open
<1> QED BY <1>1, <1>2, <1>3 DEF AdminInv

-----------------------------------------------------------------------------
(* The lock. *)

\* A change moves on, or begins, or is over, and the row of the lock is left alone.
LEMMA LockUntouched ==
  ASSUME AdminsTypeOK, LockInv, UNCHANGED <<lock, aged, stamps, outlived>>,
         NEW c \in Change, \A d \in Change : d # c => change'[d] = change[d],
         change' \in [Change -> ChangeState], Shape(c)',
         change'[c].stamp \in {0, change[c].stamp}
  PROVE  LockInv'
<1>1. \A d \in Change : Holding(d)' => Holding(d) /\ change'[d].stamp = change[d].stamp
  BY DEF LockInv, Shape, Holding
<1>2. lock' <= stamps'
  BY DEF LockInv
<1>3. \A d \in Change : Shape(d)'
  BY DEF LockInv, Shape, Holding
<1>4. \A d, e \in Change : Holding(d)' /\ change'[d].stamp = change'[e].stamp => d = e
  <2> SUFFICES ASSUME NEW d \in Change, NEW e \in Change, Holding(d)',
                      change'[d].stamp = change'[e].stamp
               PROVE  d = e
    OBVIOUS
  <2>1. change'[d].stamp # 0
    BY <1>3 DEF Shape
  <2>2. change'[e].stamp = change[e].stamp
    BY <2>1
  <2> QED BY <1>1, <2>2 DEF LockInv
<1>5. ~outlived' => \A d \in Change : Holding(d)' => change'[d].stamp = lock' /\ ~aged'
  BY <1>1 DEF LockInv
<1> QED BY <1>2, <1>3, <1>4, <1>5 DEF LockInv

\* The row of the lock goes, which is that of the change c, or nobody's.
LEMMA LockReleased ==
  ASSUME AdminsTypeOK, LockInv, UNCHANGED <<stamps, outlived>>,
         NEW c \in Change, \A d \in Change : d # c => change'[d] = change[d],
         change' \in [Change -> ChangeState], Shape(c)', change'[c].stamp = 0,
         NEW stamp \in Nat, releaseIfMatches(stamp),
         stamp # 0,
         ~outlived /\ stamp = lock => \A d \in Change : d # c => ~Holding(d)
  PROVE  LockInv'
<1> USE AdminConstants
<1>1. CASE lock = stamp
  <2>1. lock' = 0 /\ aged' = FALSE /\ 0 <= stamps' /\ stamps' \in Nat
    BY <1>1 DEF releaseIfMatches, AdminsTypeOK
  <2>2. ~Holding(c)'
    BY DEF Shape
  <2>3. \A d \in Change : Shape(d)'
    <3> SUFFICES ASSUME NEW d \in Change, d # c PROVE Shape(d)'
      OBVIOUS
    <3> QED BY <2>1, <1>1 DEF LockInv, Shape, Holding
  <2>4. \A d \in Change : Holding(d)' => d # c /\ Holding(d) /\ change'[d] = change[d]
    BY <2>2 DEF Holding
  <2>5. \A d, e \in Change : Holding(d)' /\ change'[d].stamp = change'[e].stamp => d = e
    <3> SUFFICES ASSUME NEW d \in Change, NEW e \in Change, Holding(d)',
                        change'[d].stamp = change'[e].stamp
                 PROVE  d = e
      OBVIOUS
    <3>1. change'[d].stamp # 0 /\ change'[e].stamp # 0
      BY <2>3 DEF Shape
    <3> QED BY <3>1, <2>4 DEF LockInv
  <2>6. ~outlived' => \A d \in Change : ~Holding(d)'
    BY <1>1, <2>4
  <2> QED BY <2>1, <2>3, <2>5, <2>6 DEF LockInv
<1>2. CASE lock # stamp
  <2>1. UNCHANGED <<lock, aged, stamps, outlived>> /\ change'[c].stamp \in {0, change[c].stamp}
    BY <1>2 DEF releaseIfMatches
  <2> QED BY <2>1, LockUntouched
<1> QED BY <1>1, <1>2

\* What every change in progress that is at the head of its queue has.
LEMMA FirstIs ==
  ASSUME AdminInv, NEW c \in Change, First(c)
  PROVE  /\ change[c] \in ChangeState /\ change[c].op # "none" /\ change[c].at \in Instance
         /\ queue[change[c].at] # <<>> /\ Tail(queue[change[c].at]) \in Seq(Change)
<1>1. change[c] \in ChangeState /\ change[c].op # "none" /\ change[c].at \in Instance
  BY DEF First, InFlight, AdminInv, AdminsTypeOK, LockInv, Shape
<1>2. queue[change[c].at] \in Seq(Change) /\ queue[change[c].at] # <<>>
  BY <1>1 DEF First, AdminInv, AdminsTypeOK
<1> QED BY <1>1, <1>2

-----------------------------------------------------------------------------
(* The steps between acquiring and releasing.                                *)

\* The change c has the lock and goes on to another step that has it.
Inside(c) ==
  /\ Holding(c) /\ Holding(c)'
  /\ change' \in [Change -> ChangeState]
  /\ \A d \in Change : d # c => change'[d] = change[d]
  /\ change'[c].op = change[c].op /\ change'[c].at = change[c].at
  /\ change'[c].target = change[c].target /\ change'[c].role = change[c].role
  /\ change'[c].active = change[c].active /\ change'[c].stamp = change[c].stamp
  /\ change'[c].done => change'[c].pc = "release"

Callback(c) ==
  \/ CallbackFails(c) \/ FindUser(c) \/ assertAdminWillRemain(c) \/ UpdateUserRow(c)
  \/ createConfiguredFirstAdmin(c) \/ syncConfiguredRootAdminWithLock(c) \/ promoteToAdmin(c)
  \/ FindConfiguredUser(c) \/ createConfiguredRootAdmin(c) \/ syncConfiguredRootAdmin(c)

LEMMA GotoIsInside ==
  ASSUME AdminInv, NEW c \in Change, Holding(c), change[c].pc # "release",
         NEW pc \in {"count", "write", "release"}, Goto(c, pc)
  PROVE  Inside(c)
<1>1. change \in [Change -> ChangeState] /\ change[c] \in ChangeState /\ ~change[c].done
  BY DEF AdminInv, AdminsTypeOK, LockInv, Shape
<1>2. change' = [change EXCEPT ![c] = [change[c] EXCEPT !.pc = pc]]
  BY DEF Goto
<1>3. [change[c] EXCEPT !.pc = pc] \in ChangeState
  BY <1>1 DEF ChangeState
<1>4. /\ change' \in [Change -> ChangeState] /\ change'[c] = [change[c] EXCEPT !.pc = pc]
      /\ \A d \in Change : d # c => change'[d] = change[d]
  BY <1>1, <1>2, <1>3
<1>5. /\ change'[c].op = change[c].op /\ change'[c].at = change[c].at
      /\ change'[c].target = change[c].target /\ change'[c].role = change[c].role
      /\ change'[c].active = change[c].active /\ change'[c].stamp = change[c].stamp
      /\ change'[c].done = change[c].done /\ change'[c].pc = pc
  BY <1>1, <1>4 DEF ChangeState
<1> QED BY <1>1, <1>4, <1>5 DEF Inside, Holding

LEMMA CallbackIsInside ==
  ASSUME AdminInv, NEW c \in Change, Callback(c)
  PROVE  Inside(c) /\ UNCHANGED <<lock, aged, stamps, instances, starts, queue, outlived>>
<1> USE AdminConstants
<1>1. change \in [Change -> ChangeState] /\ change[c] \in ChangeState
  BY DEF AdminInv, AdminsTypeOK
<1>2. ~change[c].done \/ change[c].pc = "release"
  BY DEF AdminInv, LockInv, Shape
<1>3. UNCHANGED <<lock, aged, stamps, instances, starts, queue, outlived>>
  BY DEF Callback, CallbackFails, FindUser, assertAdminWillRemain, UpdateUserRow,
     createConfiguredFirstAdmin, syncConfiguredRootAdminWithLock, promoteToAdmin,
     FindConfiguredUser, createConfiguredRootAdmin, syncConfiguredRootAdmin, UnchangedAround,
     lockRow
<1> SUFFICES Inside(c)
  BY <1>3
<1>4. CASE CallbackFails(c)
  BY <1>1, <1>2, <1>4 DEF CallbackFails, Inside, Holding, ChangeState
<1>5. CASE FindUser(c)
  <2>1. PICK pc \in {"count", "write", "release"} : Goto(c, pc)
    BY <1>5 DEF FindUser
  <2>2. Holding(c) /\ change[c].pc # "release"
    BY <1>5 DEF FindUser, Holding
  <2> QED BY <2>1, <2>2, GotoIsInside
<1>6. CASE assertAdminWillRemain(c)
  <2>1. PICK pc \in {"count", "write", "release"} : Goto(c, pc)
    BY <1>6 DEF assertAdminWillRemain
  <2>2. Holding(c) /\ change[c].pc # "release"
    BY <1>6 DEF assertAdminWillRemain, Holding
  <2> QED BY <2>1, <2>2, GotoIsInside
<1>7. CASE UpdateUserRow(c)
  <2>1. Holding(c) /\ change[c].pc # "release" /\ Goto(c, "release")
    BY <1>7 DEF UpdateUserRow, Holding
  <2> QED BY <2>1, GotoIsInside
<1>8. CASE createConfiguredFirstAdmin(c)
  BY <1>1, <1>2, <1>8 DEF createConfiguredFirstAdmin, Inside, Holding, ChangeState
<1>9. CASE syncConfiguredRootAdminWithLock(c)
  <2>1. {u \in Legacy : users[u].role = "user"} \in SUBSET Account
    OBVIOUS
  <2> DEFINE todo == {u \in Legacy : users[u].role = "user"}
             r    == [change[c] EXCEPT !.pc = "promote", !.todo = todo]
  <2>2. change' = [change EXCEPT ![c] = r]
    BY <1>9 DEF syncConfiguredRootAdminWithLock
  <2> HIDE DEF todo
  <2>3. /\ r \in ChangeState /\ r.op = change[c].op /\ r.at = change[c].at
             /\ r.target = change[c].target
        /\ r.role = change[c].role /\ r.active = change[c].active /\ r.stamp = change[c].stamp
        /\ r.done = change[c].done /\ r.pc = "promote"
    BY <2>1, <1>1 DEF ChangeState, todo
  <2> HIDE DEF r
  <2>4. change' \in [Change -> ChangeState] /\ change'[c] = r
          /\ \A d \in Change : d # c => change'[d] = change[d]
    BY <1>1, <2>2, <2>3
  <2>5. change[c].pc = "users" /\ change'[c].pc = "promote"
    BY <1>9, <2>3, <2>4 DEF syncConfiguredRootAdminWithLock
  <2>6. Holding(c) /\ Holding(c)'
    BY <2>5 DEF Holding
  <2> QED BY <1>2, <2>3, <2>4, <2>5, <2>6 DEF Inside
<1>10. CASE promoteToAdmin(c)
  <2>1. PICK u \in change[c].todo : change' = [change EXCEPT ![c].todo = @ \ {u}]
    BY <1>10 DEF promoteToAdmin
  <2>2. change[c].todo \ {u} \in SUBSET Account
    BY <1>1 DEF ChangeState
  <2> DEFINE left == change[c].todo \ {u}
             r    == [change[c] EXCEPT !.todo = left]
  <2>3. change' = [change EXCEPT ![c] = r] /\ left \in SUBSET Account
    BY <2>1, <2>2
  <2> HIDE DEF left
  <2>4. /\ r \in ChangeState /\ r.op = change[c].op /\ r.at = change[c].at
             /\ r.target = change[c].target
        /\ r.role = change[c].role /\ r.active = change[c].active /\ r.stamp = change[c].stamp
        /\ r.done = change[c].done /\ r.pc = change[c].pc
    BY <2>3, <1>1 DEF ChangeState
  <2> HIDE DEF r
  <2>5. change' \in [Change -> ChangeState] /\ change'[c] = r
          /\ \A d \in Change : d # c => change'[d] = change[d]
    BY <1>1, <2>3, <2>4
  <2>6. change[c].pc = "promote"
    BY <1>10 DEF promoteToAdmin
  <2>7. Holding(c) /\ Holding(c)'
    BY <2>4, <2>5, <2>6 DEF Holding
  <2> QED BY <1>2, <2>4, <2>5, <2>6, <2>7 DEF Inside
<1>11. CASE FindConfiguredUser(c)
  BY <1>1, <1>2, <1>11 DEF FindConfiguredUser, Inside, Holding, ChangeState
<1>12. CASE createConfiguredRootAdmin(c)
  BY <1>1, <1>2, <1>12 DEF createConfiguredRootAdmin, Inside, Holding, ChangeState
<1>13. CASE syncConfiguredRootAdmin(c)
  BY <1>1, <1>2, <1>13 DEF syncConfiguredRootAdmin, Inside, Holding, ChangeState
<1> QED BY <1>4, <1>5, <1>6, <1>7, <1>8, <1>9, <1>10, <1>11, <1>12, <1>13 DEF Callback

LEMMA InsideKeepsLock ==
  ASSUME AdminInv, NEW c \in Change, Inside(c), UNCHANGED <<lock, aged, stamps, outlived>>
  PROVE  LockInv'
<1>1. Shape(c)
  BY DEF AdminInv, LockInv
<1>2. Shape(c)'
  <2>1. change'[c].pc \notin {"none", "busy"} /\ change[c].pc \notin {"none", "busy"}
    BY DEF Inside, Holding
  <2> QED BY <1>1, <2>1 DEF Shape, Inside
<1> QED BY <1>2, LockUntouched DEF AdminInv, Inside

\* Only the holder of the lock is between acquiring and releasing.
LEMMA OnlyHolder ==
  ASSUME LockInv, ~outlived, NEW c \in Change, Holding(c), NEW d \in Change, Holding(d)
  PROVE  c = d
  BY DEF LockInv

-----------------------------------------------------------------------------
(* What the steps do to the administrators.                                  *)

\* They stay, or one joins, or one who is not the last leaves.
OneAtATime ==
  \/ ActiveAdmins' = ActiveAdmins
  \/ \E u \in Account : u \notin ActiveAdmins /\ ActiveAdmins' = ActiveAdmins \cup {u}
  \/ \E u \in Account : /\ u \in ActiveAdmins /\ ActiveAdmins # {u}
                        /\ ActiveAdmins' = ActiveAdmins \ {u}

LEMMA OneAtATimeLeavesOne ==
  ASSUME OneAtATime, ActiveAdmins # {} PROVE ActiveAdmins' # {}
  BY DEF OneAtATime

LEMMA JoinIsOne ==
  ASSUME users \in [Account -> UserRow], NEW u \in Account, NEW row \in UserRow,
         users' = [users EXCEPT ![u] = row], users[u] = Admin => row = Admin
  PROVE  /\ users' \in [Account -> UserRow] /\ OneAtATime /\ ActiveAdmins \subseteq ActiveAdmins'
         /\ row = Admin => u \in ActiveAdmins'
<1>1. users' \in [Account -> UserRow] /\ users'[u] = row
        /\ \A w \in Account : w # u => users'[w] = users[w]
  OBVIOUS
<1>2. CASE row = Admin /\ users[u] # Admin
  BY <1>1, <1>2 DEF ActiveAdmins, OneAtATime
<1>3. CASE ~(row = Admin /\ users[u] # Admin)
  BY <1>1, <1>3 DEF ActiveAdmins, OneAtATime
<1> QED BY <1>1, <1>2, <1>3

\* One UPDATE of one user, after the count if an administrator goes.
LEMMA UpdateIsOne ==
  ASSUME AdminInv, NEW c \in Change, UpdateUserRow(c), ~outlived
  PROVE  OneAtATime
<1> DEFINE q == change[c]
           t == q.target
<1>1. q \in ChangeState /\ t \in Account /\ q.pc = "write" /\ users \in [Account -> UserRow]
  BY DEF UpdateUserRow, AdminInv, AdminsTypeOK, ChangeState
<1>2. Demotes(q) /\ users[t] = Admin => ActiveAdmins # {t}
  BY <1>1 DEF AdminInv, AdminsKept
<1>3. /\ \A w \in Account : w # t => users'[w] = users[w]
      /\ users'[t] = [role   |-> IF q.role = "same" THEN users[t].role ELSE q.role,
                      active |-> IF q.active = "same" THEN users[t].active ELSE q.active = "on"]
  BY <1>1 DEF UpdateUserRow
<1>4. users[t] = Admin /\ ~Demotes(q) => users'[t] = Admin
  <2> SUFFICES ASSUME users[t] = Admin, ~Demotes(q) PROVE users'[t] = Admin
    OBVIOUS
  <2>1. (IF q.role = "same" THEN users[t].role ELSE q.role) = "admin"
    BY <1>1 DEF Demotes, ChangeState, Admin
  <2>2. q.active \in {"same", "on"} /\ users[t].active = TRUE
    BY <1>1 DEF Demotes, ChangeState, Admin
  <2>3. (IF q.active = "same" THEN users[t].active ELSE q.active = "on") = TRUE
    BY <2>2, Zenon
  <2> QED BY <1>3, <2>1, <2>3 DEF Admin
<1>5. CASE users'[t] = Admin <=> users[t] = Admin
  BY <1>1, <1>3, <1>5 DEF ActiveAdmins, OneAtATime
<1>6. CASE users'[t] = Admin /\ users[t] # Admin
  <2>1. t \notin ActiveAdmins /\ ActiveAdmins' = ActiveAdmins \cup {t}
    BY <1>1, <1>3, <1>6 DEF ActiveAdmins
  <2> QED BY <2>1, <1>1 DEF OneAtATime
<1>7. CASE users'[t] # Admin /\ users[t] = Admin
  <2>1. t \in ActiveAdmins /\ ActiveAdmins # {t} /\ ActiveAdmins' = ActiveAdmins \ {t}
    BY <1>1, <1>2, <1>3, <1>4, <1>7 DEF ActiveAdmins
  <2> QED BY <2>1, <1>1 DEF OneAtATime
<1> QED BY <1>5, <1>6, <1>7

\* With two administrators counted, no one of them is the last.
LEMMA CountedIsNotLast ==
  ASSUME NEW u, ~(countActiveAdmins <= 1) PROVE ActiveAdmins # {u}
<1>1. ActiveAdmins = {u} => countActiveAdmins = 1
  BY FS_Singleton DEF countActiveAdmins
<1> QED BY <1>1

\* The rows stay well typed.
LEMMA UpdatedRowsTyped ==
  ASSUME AdminInv, NEW c \in Change, UpdateUserRow(c) PROVE users' \in [Account -> UserRow]
<1> DEFINE q == change[c]
           t == q.target
<1>1. q \in ChangeState /\ t \in Account /\ users \in [Account -> UserRow] /\ users[t] \in UserRow
  BY DEF AdminInv, AdminsTypeOK, ChangeState
<1>2. (IF q.role = "same" THEN users[t].role ELSE q.role) \in {"none", "user", "admin"}
  BY <1>1 DEF ChangeState, UserRow
<1>3. (IF q.active = "same" THEN users[t].active ELSE q.active = "on") \in BOOLEAN
  <2>1. users[t].active \in BOOLEAN
    BY <1>1 DEF UserRow
  <2> QED BY <2>1, Zenon
<1>4. users' = [users EXCEPT ![t] =
         [role   |-> IF q.role = "same" THEN users[t].role ELSE q.role,
          active |-> IF q.active = "same" THEN users[t].active ELSE q.active = "on"]]
  BY DEF UpdateUserRow
<1>5. [role   |-> IF q.role = "same" THEN users[t].role ELSE q.role,
       active |-> IF q.active = "same" THEN users[t].active ELSE q.active = "on"] \in UserRow
  BY <1>2, <1>3, Zenon DEF UserRow
<1> QED BY <1>1, <1>4, <1>5

\* The bootstrap only adds administrators, and ends well only with the configured one.
LEMMA BootstrapAdds ==
  ASSUME AdminInv, NEW c \in Change, Callback(c), ~UpdateUserRow(c)
  PROVE  /\ users' \in [Account -> UserRow] /\ OneAtATime /\ ActiveAdmins \subseteq ActiveAdmins'
         /\ change'[c].done => ActiveAdmins' # {}
<1> USE AdminConstants, RowsTyped
<1>1. users \in [Account -> UserRow] /\ change \in [Change -> ChangeState] /\ Inside(c)
  BY CallbackIsInside DEF AdminInv, AdminsTypeOK
<1>2. ~change[c].done \/ change[c].pc = "release"
  BY DEF AdminInv, LockInv, Shape
<1>3. CASE CallbackFails(c) \/ FindUser(c) \/ assertAdminWillRemain(c)
           \/ syncConfiguredRootAdminWithLock(c) \/ FindConfiguredUser(c)
  <2>1. users' = users
    BY <1>3 DEF CallbackFails, FindUser, assertAdminWillRemain, syncConfiguredRootAdminWithLock,
                FindConfiguredUser
  <2>2. ~change'[c].done
    <3>1. CASE CallbackFails(c)
      BY <3>1, <1>1 DEF CallbackFails, ChangeState
    <3>2. CASE ~CallbackFails(c)
      <4>1. change'[c].done = change[c].done /\ change[c].pc # "release"
        BY <1>1, <1>3, <3>2 DEF FindUser, Goto, assertAdminWillRemain,
           syncConfiguredRootAdminWithLock, FindConfiguredUser, ChangeState
      <4> QED BY <4>1, <1>2
    <3> QED BY <3>1, <3>2
  <2> QED BY <1>1, <2>1, <2>2 DEF OneAtATime, ActiveAdmins
<1>4. CASE createConfiguredFirstAdmin(c) \/ createConfiguredRootAdmin(c)
        \/ syncConfiguredRootAdmin(c)
  <2>1. users' = [users EXCEPT ![Root] = Admin]
    BY <1>4 DEF createConfiguredFirstAdmin, createConfiguredRootAdmin, syncConfiguredRootAdmin
  <2> QED BY <1>1, <2>1, JoinIsOne
<1>5. CASE promoteToAdmin(c)
  <2>1. PICK u \in change[c].todo : users' = [users EXCEPT ![u].role = "admin"]
                                    /\ change' = [change EXCEPT ![c].todo = @ \ {u}]
    BY <1>5 DEF promoteToAdmin
  <2>2. u \in Account
    BY <1>1 DEF ChangeState
  <2>3. users' = [users EXCEPT ![u] = [role |-> "admin", active |-> users[u].active]]
    <3>1. users' = [users EXCEPT ![u] = [users[u] EXCEPT !.role = "admin"]]
      BY <2>1
    <3>2. [users[u] EXCEPT !.role = "admin"] = [role |-> "admin", active |-> users[u].active]
      <4>1. users[u] \in [role : {"none", "user", "admin"}, active : BOOLEAN]
        BY <1>1, <2>2 DEF UserRow
      <4> HIDE AdminConstants, RowsTyped
      <4> QED BY <4>1
    <3> QED BY <3>1, <3>2
  <2>4. /\ [role |-> "admin", active |-> users[u].active] \in UserRow
        /\ users[u] = Admin => [role |-> "admin", active |-> users[u].active] = Admin
    BY <1>1, <2>2 DEF UserRow, Admin
  <2>5. users' \in [Account -> UserRow] /\ OneAtATime /\ ActiveAdmins \subseteq ActiveAdmins'
    BY <1>1, <2>2, <2>3, <2>4, JoinIsOne
  <2>6. change[c].pc = "promote" /\ change'[c].done = change[c].done
    BY <1>1, <1>5, <2>1 DEF promoteToAdmin, ChangeState
  <2> QED BY <2>5, <2>6, <1>2
<1> QED BY <1>3, <1>4, <1>5 DEF Callback

\* A change writes only to a user it has found, and never demotes the last admin.
LEMMA FoundIsKept ==
  ASSUME AdminInv, NEW c \in Change, FindUser(c) \/ assertAdminWillRemain(c), ~outlived
  PROVE  /\ change'[c].pc \in {"count", "write"} => users[change[c].target] # NoUser
         /\ change'[c].pc = "write" /\ Demotes(change[c]) /\ users[change[c].target] = Admin
              => ActiveAdmins # {change[c].target}
<1>1. change \in [Change -> ChangeState]
  BY DEF AdminInv, AdminsTypeOK
<1>2. CASE FindUser(c)
  <2>1. change'[c].pc = IF users[change[c].target] = NoUser \/ RefusesSelf(change[c]) THEN "release"
             ELSE IF users[change[c].target] = Admin
               /\ (change[c].role = "user" \/ change[c].active = "off")
             THEN "count" ELSE "write"
    BY <1>1, <1>2 DEF FindUser, Goto, ChangeState
  <2> HIDE DEF RefusesSelf
  <2> QED BY <2>1 DEF Demotes
<1>3. CASE assertAdminWillRemain(c)
  <2>1. change[c].pc = "count" /\ change'[c].pc = IF countActiveAdmins <= 1 THEN "release"
          ELSE "write"
    BY <1>1, <1>3 DEF assertAdminWillRemain, Goto, ChangeState
  <2>2. users[change[c].target] # NoUser
    BY <2>1 DEF AdminInv, AdminsKept
  <2> QED BY <2>1, <2>2, CountedIsNotLast
<1> QED BY <1>2, <1>3

LEMMA CallbackKeeps ==
  ASSUME AdminInv, NEW c \in Change, Callback(c)
  PROVE  AdminInv' /\ (~outlived => OneAtATime)
<1>1. Inside(c) /\ UNCHANGED <<lock, aged, stamps, instances, starts, queue, outlived>>
  BY CallbackIsInside
<1>2. users' \in [Account -> UserRow]
  BY BootstrapAdds, UpdatedRowsTyped
<1>3. AdminsTypeOK'
  BY <1>1, <1>2 DEF Inside, AdminInv, AdminsTypeOK
<1>4. LockInv'
  BY <1>1, InsideKeepsLock
<1>5. ~outlived => OneAtATime
  BY BootstrapAdds, UpdateIsOne
<1>6. AdminsKept'
  <2> SUFFICES ASSUME ~outlived PROVE AdminsKept'
    BY <1>1 DEF AdminsKept
  <2>1. \A d \in Change : d # c => ~change'[d].done /\ change'[d].pc \notin {"count", "write"}
    <3> SUFFICES ASSUME NEW d \in Change, d # c
          PROVE ~change[d].done /\ change[d].pc \notin {"count", "write"}
      BY <1>1 DEF Inside
    <3>1. ~Holding(d) /\ (change[d].done => change[d].pc = "release")
      BY <1>1, OnlyHolder DEF Inside, AdminInv, LockInv, Shape
    <3> QED BY <3>1 DEF Holding
  <2>2. Open' => ActiveAdmins' # {}
    BY <1>1, <1>5, OneAtATimeLeavesOne DEF AdminInv, AdminsKept, Open
  <2>3. change'[c].target = change[c].target /\ (Demotes(change'[c]) <=> Demotes(change[c]))
    BY <1>1 DEF Inside, Demotes
  <2>4. CASE UpdateUserRow(c)
    <3>1. change'[c].pc = "release" /\ change'[c].done = change[c].done /\ change[c].pc # "release"
      BY <2>4 DEF UpdateUserRow, Goto, AdminInv, AdminsTypeOK, ChangeState
    <3>2. ~change'[c].done
      BY <3>1 DEF AdminInv, LockInv, Shape
    <3> QED BY <1>1, <2>1, <2>2, <3>1, <3>2 DEF AdminsKept
  <2>5. CASE ~UpdateUserRow(c)
    <3>1. change'[c].done => ActiveAdmins' # {}
      BY <2>5, BootstrapAdds
    <3>2. change'[c].pc \in {"count", "write"} => FindUser(c) \/ assertAdminWillRemain(c)
      BY <2>5
      DEF Callback, CallbackFails, createConfiguredFirstAdmin, syncConfiguredRootAdminWithLock,
          promoteToAdmin, FindConfiguredUser, createConfiguredRootAdmin, syncConfiguredRootAdmin,
          AdminInv, AdminsTypeOK, ChangeState
    <3>3. /\ change'[c].pc \in {"count", "write"} => users'[change'[c].target] # NoUser
          /\ change'[c].pc = "write" /\ Demotes(change'[c]) /\ users'[change'[c].target] = Admin
               => ActiveAdmins' # {change'[c].target}
      <4> SUFFICES ASSUME change'[c].pc \in {"count", "write"}
                   PROVE  /\ users'[change'[c].target] # NoUser
                          /\ change'[c].pc = "write" /\ Demotes(change'[c])
                               /\ users'[change'[c].target] = Admin
                               => ActiveAdmins' # {change'[c].target}
        OBVIOUS
      <4>1. FindUser(c) \/ assertAdminWillRemain(c)
        BY <3>2
      <4>2. users' = users
        BY <4>1 DEF FindUser, assertAdminWillRemain
      <4>3. ActiveAdmins' = ActiveAdmins
        BY <4>2 DEF ActiveAdmins
      <4> QED BY <2>3, <4>1, <4>2, <4>3, FoundIsKept
    <3> QED BY <1>1, <2>1, <2>2, <3>1, <3>3 DEF AdminsKept
  <2> QED BY <2>4, <2>5
<1> QED BY <1>3, <1>4, <1>5, <1>6 DEF AdminInv

-----------------------------------------------------------------------------
(* Taking and giving up the lock; changes begin and end.                     *)

\* A change that is not about to write, and is not done, disturbs nothing.
LEMMA QuietKeepsAdmins ==
  ASSUME AdminsKept, UNCHANGED <<users, outlived>>, NEW c \in Change,
         \A d \in Change : d # c => change'[d] = change[d],
         ~change'[c].done, change'[c].pc \notin {"count", "write"},
         Open' => Open \/ change[c].done
  PROVE  AdminsKept'
<1> SUFFICES ASSUME ~outlived PROVE AdminsKept'
  BY DEF AdminsKept
<1>1. ActiveAdmins' = ActiveAdmins
  BY DEF ActiveAdmins
<1>2. Open' => ActiveAdmins' # {}
  BY <1>1 DEF AdminsKept
<1>3. \A d \in Change :
        /\ change'[d].done => ActiveAdmins' # {}
        /\ change'[d].pc \in {"count", "write"} => users'[change'[d].target] # NoUser
        /\ change'[d].pc = "write" /\ Demotes(change'[d]) /\ users'[change'[d].target] = Admin
             => ActiveAdmins' # {change'[d].target}
  <2> SUFFICES ASSUME NEW d \in Change, d # c
               PROVE  /\ change'[d].done => ActiveAdmins' # {}
                      /\ change'[d].pc \in {"count", "write"} => users'[change'[d].target] # NoUser
                      /\ change'[d].pc = "write" /\ Demotes(change'[d])
                           /\ users'[change'[d].target] = Admin
                           => ActiveAdmins' # {change'[d].target}
    OBVIOUS
  <2> QED BY <1>1 DEF AdminsKept
<1> QED BY <1>2, <1>3 DEF AdminsKept

LEMMA AcquireKeeps == ASSUME AdminInv, NEW c \in Change, tryAcquire(c) PROVE AdminInv'
<1> USE AdminConstants
<1>1. change \in [Change -> ChangeState] /\ change[c] \in ChangeState /\ change[c].pc = "acquire"
      /\ UNCHANGED <<users, instances, starts, queue, outlived>>
  BY DEF tryAcquire, AdminInv, AdminsTypeOK
<1>2. Shape(c) /\ change[c].stamp = 0 /\ ~change[c].done /\ change[c].op # "none"
  BY <1>1 DEF AdminInv, LockInv, Shape, Holding
<1>3. CASE lock = 0
  <2> DEFINE s == stamps + 1
             p == IF change[c].op = "bootstrap" THEN "users" ELSE "find"
             r == [change[c] EXCEPT !.stamp = s, !.pc = p]
  <2>1. /\ s \in 1..MaxStamp /\ stamps' = s /\ lock' = s /\ aged' = FALSE
        /\ s = stamps + 1 /\ stamps \in Nat /\ 0..MaxStamp \subseteq Nat
    BY <1>3 DEF tryAcquire, AdminInv, AdminsTypeOK
  <2>2. p \in {"users", "find"}
    OBVIOUS
  <2>0. change' = [change EXCEPT ![c] = r]
    BY <1>3 DEF tryAcquire
  <2> HIDE DEF s, p
  <2>3. /\ r \in ChangeState /\ r.stamp = s /\ r.pc \in {"users", "find"} /\ r.done = change[c].done
        /\ r.op = change[c].op /\ r.at = change[c].at
    <3>1. s \in 0..MaxStamp
      BY <2>1
    <3> HIDE AdminConstants
    <3>2. r \in ChangeState
      BY <1>1, <3>1, <2>2 DEF ChangeState
    <3> QED BY <1>1, <2>2, <3>2 DEF ChangeState
  <2> HIDE DEF r
  <2>4. change' \in [Change -> ChangeState] /\ change'[c] = r
          /\ \A d \in Change : d # c => change'[d] = change[d]
    BY <1>1, <2>0, <2>3
  <2>5. AdminsTypeOK'
    <3>1. stamps' \in 0..MaxStamp /\ lock' \in 0..MaxStamp
      BY <2>1
    <3>2. aged' \in BOOLEAN
      BY <2>1, Zenon
    <3> HIDE AdminConstants
    <3> QED BY <1>1, <2>4, <3>1, <3>2 DEF AdminInv, AdminsTypeOK
  <2>6. \A d \in Change : Shape(d)'
    <3>1. Shape(c)'
      <4>1. Holding(c)'
        BY <2>3, <2>4 DEF Holding
      <4>2. change'[c].op # "none" /\ change'[c].at \in Instance
              /\ change'[c].pc \notin {"none", "busy"}
        BY <1>2, <2>3, <2>4 DEF Shape
      <4>3. change'[c].stamp = stamps + 1 /\ ~change'[c].done /\ stamps + 1 # 0
        BY <1>2, <2>1, <2>3, <2>4
      <4> QED BY <2>1, <4>1, <4>2, <4>3 DEF Shape
    <3>2. ASSUME NEW d \in Change, d # c PROVE Shape(d)'
      <4>1. change[d] \in ChangeState /\ change'[d] = change[d] /\ Shape(d) /\ stamps \in Nat
        BY <1>1, <2>4, <3>2 DEF AdminInv, AdminsTypeOK, LockInv
      <4> QED BY <2>1, <4>1 DEF Shape, Holding, ChangeState
    <3> QED BY <3>1, <3>2
  <2>7. ~outlived => \A d \in Change : Holding(d)' => d = c
    <3> SUFFICES ASSUME ~outlived, NEW d \in Change, d # c PROVE ~Holding(d)'
      OBVIOUS
    <3>1. Holding(d) => change[d].stamp = 0 /\ change[d].stamp # 0
      BY <1>3 DEF AdminInv, LockInv, Shape
    <3> QED BY <3>1, <2>4 DEF Holding
  <2>8. \A d, e \in Change : Holding(d)' /\ change'[d].stamp = change'[e].stamp => d = e
    <3>1. \A d \in Change : d # c => change'[d].stamp # stamps + 1
      <4> SUFFICES ASSUME NEW d \in Change, d # c PROVE change[d].stamp # stamps + 1
        BY <2>4
      <4>1. change[d].stamp <= stamps /\ change[d].stamp \in Nat /\ stamps \in Nat
        BY <1>1 DEF AdminInv, AdminsTypeOK, LockInv, Shape, ChangeState
      <4> QED BY <4>1
    <3>2. \A d \in Change : d # c =>
            (Holding(d)' <=> Holding(d)) /\ change'[d].stamp = change[d].stamp
      BY <2>4 DEF Holding
    <3> SUFFICES ASSUME NEW d \in Change, NEW e \in Change, Holding(d)',
                        change'[d].stamp = change'[e].stamp
                 PROVE  d = e
      OBVIOUS
    <3>3. CASE d = c \/ e = c
      BY <2>1, <2>3, <2>4, <3>1, <3>3
    <3>4. CASE d # c /\ e # c
      BY <3>2, <3>4 DEF AdminInv, LockInv
    <3> QED BY <3>3, <3>4
  <2>9. LockInv'
    BY <1>1, <2>1, <2>3, <2>4, <2>6, <2>7, <2>8 DEF LockInv, AdminInv, AdminsTypeOK
  <2>10. AdminsKept'
    <3>1. ~change'[c].done /\ change'[c].pc \notin {"count", "write"} /\ Open' = Open
      BY <1>1, <1>2, <2>3, <2>4 DEF Open
    <3> QED BY <1>1, <2>4, <3>1, QuietKeepsAdmins DEF AdminInv
  <2> QED BY <2>5, <2>9, <2>10 DEF AdminInv
<1>4. CASE lock # 0 /\ aged
  <2> DEFINE r == [change[c] EXCEPT !.seen = lock, !.pc = "busy"]
  <2>0. lock \in 1..MaxStamp /\ lock \in 0..MaxStamp
    BY <1>4 DEF AdminInv, AdminsTypeOK
  <2>1. change' = [change EXCEPT ![c] = r] /\ UNCHANGED <<lock, aged, stamps>>
    BY <1>4 DEF tryAcquire, lockRow
  <2>2. /\ r \in ChangeState /\ r.stamp = change[c].stamp /\ r.pc = "busy"
             /\ r.done = change[c].done
        /\ r.op = change[c].op /\ r.at = change[c].at /\ r.seen = lock
    <3> HIDE AdminConstants
    <3> QED BY <1>1, <2>0 DEF ChangeState
  <2> HIDE DEF r
  <2>3. change' \in [Change -> ChangeState] /\ change'[c] = r
          /\ \A d \in Change : d # c => change'[d] = change[d]
    BY <1>1, <2>1, <2>2
  <2>4. Shape(c)'
    BY <1>2, <1>4, <2>1, <2>2, <2>3 DEF Shape, Holding, AdminInv, LockInv
  <2>5. LockInv'
    BY <1>1, <2>1, <2>2, <2>3, <2>4, LockUntouched DEF AdminInv
  <2>6. AdminsTypeOK'
    BY <1>1, <2>1, <2>3 DEF AdminInv, AdminsTypeOK
  <2>7. AdminsKept'
    <3>1. ~change'[c].done /\ change'[c].pc \notin {"count", "write"} /\ Open' = Open
      BY <1>1, <1>2, <2>2, <2>3 DEF Open
    <3> QED BY <1>1, <2>3, <3>1, QuietKeepsAdmins DEF AdminInv
  <2> QED BY <2>5, <2>6, <2>7 DEF AdminInv
<1>5. CASE lock # 0 /\ ~aged
  <2>1. UNCHANGED <<users, lock, aged, stamps, instances, starts, queue, change, outlived>>
    BY <1>5 DEF tryAcquire, lockRow
  <2> QED BY <2>1
        DEF AdminInv, AdminsTypeOK, LockInv, AdminsKept, Shape, Holding, Open, ActiveAdmins, Demotes
<1> QED BY <1>3, <1>4, <1>5

LEMMA ReleasedTyped ==
  ASSUME AdminsTypeOK, NEW stamp, releaseIfMatches(stamp)
  PROVE  lock' \in 0..MaxStamp /\ aged' \in BOOLEAN
<1>1. lock \in 0..MaxStamp /\ 0 \in 0..MaxStamp
  BY AdminConstants DEF AdminsTypeOK
<1>2. aged \in BOOLEAN /\ FALSE \in BOOLEAN
  BY DEF AdminsTypeOK
<1>3. (lock' = 0 /\ aged' = FALSE) \/ (lock' = lock /\ aged' = aged)
  BY DEF releaseIfMatches
<1> QED BY <1>1, <1>2, <1>3, Zenon

LEMMA StealKeeps == ASSUME AdminInv, NEW c \in Change, StealLock(c) PROVE AdminInv'
<1>1. change \in [Change -> ChangeState] /\ change[c] \in ChangeState /\ change[c].pc = "busy"
      /\ UNCHANGED <<users, stamps, instances, starts, queue, outlived>>
  BY DEF StealLock, AdminInv, AdminsTypeOK
<1>2. /\ Shape(c) /\ change[c].stamp = 0 /\ ~change[c].done /\ change[c].op # "none"
      /\ change[c].seen # 0 /\ change[c].seen \in Nat /\ (change[c].seen = lock => aged)
  BY <1>1, AdminConstants DEF AdminInv, LockInv, Shape, Holding, ChangeState
<1> DEFINE r == [change[c] EXCEPT !.seen = 0, !.pc = "acquire"]
<1>3. change' = [change EXCEPT ![c] = r] /\ releaseIfMatches(change[c].seen)
  BY DEF StealLock
<1>4. /\ r \in ChangeState /\ r.stamp = change[c].stamp /\ r.pc = "acquire"
           /\ r.done = change[c].done
      /\ r.op = change[c].op /\ r.at = change[c].at
  <2>1. 0 \in 0..MaxStamp
    BY AdminConstants
  <2> QED BY <1>1, <2>1 DEF ChangeState
<1> HIDE DEF r
<1>5. change' \in [Change -> ChangeState] /\ change'[c] = r
        /\ \A d \in Change : d # c => change'[d] = change[d]
  BY <1>1, <1>3, <1>4
<1>6. AdminsTypeOK'
  <2>1. lock' \in 0..MaxStamp /\ aged' \in BOOLEAN
    BY <1>3, ReleasedTyped DEF AdminInv
  <2> QED BY <1>1, <1>5, <2>1 DEF AdminInv, AdminsTypeOK
<1>7. Shape(c)'
  <2>1. ~Holding(c)' /\ change'[c].pc \notin {"none", "busy"}
    BY <1>4, <1>5 DEF Holding
  <2>2. change'[c].stamp = 0 /\ 0 <= stamps'
    BY <1>1, <1>2, <1>4, <1>5 DEF AdminInv, AdminsTypeOK
  <2> QED BY <1>2, <1>4, <1>5, <2>1, <2>2 DEF Shape
<1>8. LockInv'
  <2>1. ~outlived /\ change[c].seen = lock => \A d \in Change : d # c => ~Holding(d)
    BY <1>2 DEF AdminInv, LockInv
  <2>2. change'[c].stamp = 0
    BY <1>2, <1>4, <1>5
  <2> QED BY <1>1, <1>2, <1>3, <1>5, <1>7, <2>1, <2>2, LockReleased DEF AdminInv
<1>9. AdminsKept'
  <2>1. ~change'[c].done /\ change'[c].pc \notin {"count", "write"} /\ Open' = Open
    BY <1>1, <1>2, <1>4, <1>5 DEF Open
  <2> QED BY <1>1, <1>5, <2>1, QuietKeepsAdmins DEF AdminInv
<1> QED BY <1>6, <1>8, <1>9 DEF AdminInv

\* A change that is over: the API opens only after a bootstrap that was done.
LEMMA LeavesIs ==
  ASSUME AdminInv, NEW c \in Change, First(c), Leaves(c), UNCHANGED <<users, outlived>>
  PROVE  /\ change' \in [Change -> ChangeState] /\ change'[c] = NoChange
         /\ \A d \in Change : d # c => change'[d] = change[d]
         /\ queue' \in [Instance -> Seq(Change)]
         /\ instances' \in [Instance -> {"down", "starting", "listening"}]
         /\ Open' => Open \/ change[c].done
         /\ AdminsKept'
         /\ (stamps' = stamps => Shape(c)')
<1>1. change \in [Change -> ChangeState]
        /\ instances \in [Instance -> {"down", "starting", "listening"}]
      /\ queue \in [Instance -> Seq(Change)] /\ change[c].at \in Instance
      /\ Tail(queue[change[c].at]) \in Seq(Change)
  BY FirstIs DEF AdminInv, AdminsTypeOK
<1>2. /\ change' \in [Change -> ChangeState] /\ change'[c] = NoChange
      /\ \A d \in Change : d # c => change'[d] = change[d]
  BY <1>1, NoChangeTyped DEF Leaves
<1>3. queue' \in [Instance -> Seq(Change)]
  BY <1>1 DEF Leaves
<1>4. instances' \in [Instance -> {"down", "starting", "listening"}]
        /\ (Open' => Open \/ change[c].done)
  <2>1. CASE change[c].op # "bootstrap"
    BY <1>1, <2>1 DEF Leaves, Open
  <2>2. CASE change[c].op = "bootstrap" /\ change[c].done
    BY <1>1, <2>2 DEF Leaves
  <2>3. CASE change[c].op = "bootstrap" /\ ~change[c].done
    BY <1>1, <2>3 DEF Leaves, Open
  <2> QED BY <2>1, <2>2, <2>3
<1>5. AdminsKept'
  BY <1>2, <1>4, NoChangeTyped, QuietKeepsAdmins DEF AdminInv
<1>6. stamps' = stamps => Shape(c)'
  <2>1. stamps \in Nat /\ ~Holding(c)'
    BY <1>2, NoChangeTyped, AdminConstants DEF AdminInv, AdminsTypeOK, Holding
  <2> QED BY <1>2, <2>1, NoChangeTyped DEF Shape
<1> QED BY <1>2, <1>3, <1>4, <1>5, <1>6

LEMMA GiveUpKeeps == ASSUME AdminInv, NEW c \in Change, GiveUp(c) PROVE AdminInv'
<1>1. First(c) /\ Leaves(c) /\ UNCHANGED <<users, lock, aged, stamps, starts, outlived>>
  BY DEF GiveUp, lockRow
<1>2. LockInv'
  BY <1>1, LeavesIs, NoChangeTyped, LockUntouched DEF AdminInv
<1>3. AdminsTypeOK'
  BY <1>1, LeavesIs DEF AdminInv, AdminsTypeOK
<1> QED BY <1>1, <1>2, <1>3, LeavesIs DEF AdminInv

LEMMA ReleaseKeeps == ASSUME AdminInv, NEW c \in Change, runWithRelease(c) PROVE AdminInv'
<1>1. First(c) /\ Leaves(c) /\ UNCHANGED <<users, stamps, starts, outlived>>
        /\ change[c].pc = "release"
  BY DEF runWithRelease
<1>2. \/ releaseIfMatches(change[c].stamp)
      \/ UNCHANGED <<lock, aged>>
  BY DEF runWithRelease
<1>3. change[c].stamp \in Nat /\ change[c].stamp # 0 /\ Holding(c)
  BY <1>1, AdminConstants DEF AdminInv, AdminsTypeOK, LockInv, Shape, Holding, ChangeState
<1>4. /\ change' \in [Change -> ChangeState] /\ change'[c] = NoChange /\ change'[c].stamp = 0
      /\ \A d \in Change : d # c => change'[d] = change[d]
      /\ Shape(c)'
  BY <1>1, LeavesIs, NoChangeTyped
<1>5. LockInv'
  <2>1. CASE releaseIfMatches(change[c].stamp)
    <3>1. ~outlived /\ change[c].stamp = lock => \A d \in Change : d # c => ~Holding(d)
      BY <1>3, OnlyHolder DEF AdminInv
    <3> QED BY <1>1, <1>3, <1>4, <2>1, <3>1, LockReleased DEF AdminInv
  <2>2. CASE UNCHANGED <<lock, aged>>
    BY <1>1, <1>4, <2>2, LockUntouched DEF AdminInv
  <2> QED BY <1>2, <2>1, <2>2
<1>6. AdminsTypeOK'
  <2>1. lock' \in 0..MaxStamp /\ aged' \in BOOLEAN
    <3>1. CASE releaseIfMatches(change[c].stamp)
      BY <3>1, ReleasedTyped DEF AdminInv
    <3>2. CASE UNCHANGED <<lock, aged>>
      BY <3>2 DEF AdminInv, AdminsTypeOK
    <3> QED BY <1>2, <3>1, <3>2
  <2> QED BY <1>1, <2>1, LeavesIs DEF AdminInv, AdminsTypeOK
<1> QED BY <1>1, <1>5, <1>6, LeavesIs DEF AdminInv

\* A change that begins waits for those before it.
LEMMA BeginKeeps ==
  ASSUME AdminInv, NEW c \in Change, NEW r \in ChangeState, withLocalLock(c, r),
         r.op # "none", r.pc = "acquire", r.stamp = 0, ~r.done, r.at \in Instance,
         UNCHANGED <<users, lock, aged, stamps, outlived>>, starts' \in 0..MaxStart,
         instances' \in [Instance -> {"down", "starting", "listening"}], Open' => Open
  PROVE  AdminInv'
<1>1. change \in [Change -> ChangeState] /\ queue \in [Instance -> Seq(Change)]
  BY DEF AdminInv, AdminsTypeOK
<1>2. /\ change' \in [Change -> ChangeState] /\ change'[c] = r
      /\ \A d \in Change : d # c => change'[d] = change[d]
  BY <1>1 DEF withLocalLock
<1>3. queue' \in [Instance -> Seq(Change)]
  <2>1. Append(queue[r.at], c) \in Seq(Change)
    BY <1>1
  <2> QED BY <1>1, <2>1 DEF withLocalLock
<1>4. Shape(c)'
  <2>1. ~Holding(c)' /\ stamps \in Nat
    BY <1>2, AdminConstants DEF AdminInv, AdminsTypeOK, Holding
  <2> QED BY <1>2, <2>1 DEF Shape
<1>5. LockInv'
  BY <1>2, <1>4, LockUntouched DEF AdminInv
<1>6. AdminsKept'
  BY <1>2, QuietKeepsAdmins DEF AdminInv
<1>7. AdminsTypeOK'
  BY <1>2, <1>3 DEF AdminInv, AdminsTypeOK
<1> QED BY <1>5, <1>6, <1>7 DEF AdminInv

LEMMA CallKeeps ==
  ASSUME AdminInv, NEW c \in Change, NEW i \in Instance, AdminCall(c, i) PROVE AdminInv'
<1> USE AdminConstants
<1>1. NoChange \in ChangeState /\ NoChange.stamp = 0 /\ NoChange.done = FALSE
  BY NoChangeTyped
<1>2. starts \in 0..MaxStart /\ instances \in [Instance -> {"down", "starting", "listening"}]
  BY DEF AdminInv, AdminsTypeOK
<1>3. CASE bootstrapConfiguredRootAdmin(c, i)
  <2> DEFINE r == [NoChange EXCEPT !.op = "bootstrap", !.at = i, !.pc = "acquire"]
  <2>1. withLocalLock(c, r) /\ UNCHANGED <<users, lock, aged, stamps, outlived>>
    BY <1>3 DEF bootstrapConfiguredRootAdmin, lockRow
  <2>2. r \in ChangeState /\ r.op = "bootstrap" /\ r.pc = "acquire" /\ r.stamp = 0 /\ ~r.done
          /\ r.at = i
    BY <1>1 DEF ChangeState
  <2> HIDE DEF r
  <2>3. starts' \in 0..MaxStart
    BY <1>2, <1>3 DEF bootstrapConfiguredRootAdmin
  <2>4. instances' \in [Instance -> {"down", "starting", "listening"}] /\ (Open' => Open)
    BY <1>2, <1>3 DEF bootstrapConfiguredRootAdmin, Open
  <2> QED BY <2>1, <2>2, <2>3, <2>4, BeginKeeps
<1>4. ASSUME NEW actor \in Account, NEW target \in Account, NEW edit \in Edit,
             updateUser(c, i, actor, target, edit)
      PROVE  AdminInv'
  <2> DEFINE self == (actor = target)
             r == [NoChange EXCEPT !.op = "updateUser", !.at = i, !.self = self, !.target = target,
                     !.role = edit.role, !.active = edit.active, !.pc = "acquire"]
  <2>1. withLocalLock(c, r) /\ UNCHANGED <<users, lock, aged, stamps, instances, starts, outlived>>
    BY <1>4 DEF updateUser, lockRow
  <2>2. edit.role \in {"same", "user", "admin"} /\ edit.active \in {"same", "on", "off"}
    OBVIOUS
  <2>3. self \in BOOLEAN
    OBVIOUS
  <2> HIDE DEF self
  <2>4. r \in ChangeState /\ r.op = "updateUser" /\ r.pc = "acquire" /\ r.stamp = 0 /\ ~r.done
          /\ r.at = i
    BY <1>1, <2>2, <2>3 DEF ChangeState
  <2> HIDE DEF r
  <2>5. Open' => Open
    BY <2>1 DEF Open
  <2> QED BY <1>2, <2>1, <2>4, <2>5, BeginKeeps
<1>5. ASSUME NEW actor \in Account, deleteAccount(c, i, actor) PROVE AdminInv'
  <2> DEFINE r == [NoChange EXCEPT !.op = "deleteAccount", !.at = i, !.self = TRUE,
                     !.target = actor, !.active = "off", !.pc = "acquire"]
  <2>1. withLocalLock(c, r) /\ UNCHANGED <<users, lock, aged, stamps, instances, starts, outlived>>
    BY <1>5 DEF deleteAccount, lockRow
  <2>2. r \in ChangeState /\ r.op = "deleteAccount" /\ r.pc = "acquire" /\ r.stamp = 0
          /\ ~r.done /\ r.at = i
    BY <1>1 DEF ChangeState
  <2> HIDE DEF r
  <2>3. Open' => Open
    BY <2>1 DEF Open
  <2> QED BY <1>2, <2>1, <2>2, <2>3, BeginKeeps
<1> QED BY <1>3, <1>4, <1>5 DEF AdminCall

\* A new account is not that of any change: it was not there.
LEMMA CreateKeeps ==
  ASSUME AdminInv, NEW actor \in Account, NEW target \in Account, NEW role \in {"user", "admin"},
         NEW active \in BOOLEAN, createUser(actor, target, role, active)
  PROVE  AdminInv' /\ OneAtATime
<1> DEFINE row == [role |-> role, active |-> active]
<1>1. /\ users \in [Account -> UserRow] /\ users[target] = NoUser /\ row \in UserRow
      /\ users' = [users EXCEPT ![target] = row]
      /\ UNCHANGED <<lock, aged, stamps, instances, starts, queue, change, outlived>>
  BY DEF createUser, lockRow, AdminInv, AdminsTypeOK, UserRow
<1> HIDE DEF row
<1>2. users' \in [Account -> UserRow] /\ OneAtATime /\ ActiveAdmins \subseteq ActiveAdmins'
  BY <1>1, RowsTyped, JoinIsOne
<1>3. \A u \in Account : u # target => users'[u] = users[u]
  BY <1>1
<1>4. AdminsTypeOK'
  BY <1>1, <1>2 DEF AdminInv, AdminsTypeOK
<1>5. LockInv'
  BY <1>1 DEF AdminInv, LockInv, Shape, Holding
<1>6. AdminsKept'
  <2> SUFFICES ASSUME ~outlived PROVE AdminsKept'
    BY <1>1 DEF AdminsKept
  <2>1. Open' => ActiveAdmins' # {}
    BY <1>1, <1>2 DEF AdminInv, AdminsKept, Open
  <2>2. ASSUME NEW d \in Change
        PROVE  /\ change'[d].done => ActiveAdmins' # {}
               /\ change'[d].pc \in {"count", "write"} => users'[change'[d].target] # NoUser
               /\ change'[d].pc = "write" /\ Demotes(change'[d])
                    /\ users'[change'[d].target] = Admin
                    => ActiveAdmins' # {change'[d].target}
    <3> DEFINE t == change[d].target
    <3>1. change'[d] = change[d] /\ t \in Account
      BY <1>1 DEF AdminInv, AdminsTypeOK, ChangeState
    <3>2. change[d].done => ActiveAdmins' # {}
      BY <1>2 DEF AdminInv, AdminsKept
    <3>3. change[d].pc \in {"count", "write"} => users[t] # NoUser /\ t # target
      BY <1>1 DEF AdminInv, AdminsKept
    <3>4. change[d].pc = "write" /\ Demotes(change[d]) /\ users'[t] = Admin => ActiveAdmins' # {t}
      <4> SUFFICES ASSUME change[d].pc = "write", Demotes(change[d]), users'[t] = Admin
                   PROVE  ActiveAdmins' # {t}
        OBVIOUS
      <4>1. users[t] = Admin /\ t \in ActiveAdmins
        BY <1>3, <3>1, <3>3 DEF ActiveAdmins
      <4>2. ActiveAdmins # {t}
        BY <4>1 DEF AdminInv, AdminsKept
      <4> QED BY <1>2, <4>1, <4>2
    <3> QED BY <1>3, <3>1, <3>2, <3>3, <3>4
  <2> QED BY <2>1, <2>2 DEF AdminsKept
<1> QED BY <1>2, <1>4, <1>5, <1>6 DEF AdminInv

-----------------------------------------------------------------------------
(* Time, crashes, and every step. *)

LEMMA AgeKeeps == ASSUME AdminInv, LockAges PROVE AdminInv'
<1>1. UNCHANGED <<users, lock, stamps, instances, starts, queue, change>> /\ aged' = TRUE
  BY DEF LockAges
<1>2. outlived' <=> outlived \/ \E c \in Change : InFlight(c) /\ change[c].stamp = lock
  BY DEF LockAges
<1>3. AdminsTypeOK'
  <2>1. aged' \in BOOLEAN /\ outlived' \in BOOLEAN
    BY Zenon DEF LockAges
  <2> QED BY <1>1, <2>1 DEF AdminInv, AdminsTypeOK
<1>4. LockInv'
  <2>1. \A c \in Change : Shape(c)'
    BY <1>1 DEF AdminInv, LockInv, Shape, Holding
  <2>2. ~outlived' => \A c \in Change : ~Holding(c)
    BY <1>2 DEF AdminInv, LockInv, Shape, Holding, InFlight
  <2> QED BY <1>1, <2>1, <2>2 DEF AdminInv, LockInv, Holding
<1>5. AdminsKept'
  <2>1. ~outlived' => ~outlived
    BY <1>2
  <2> QED BY <1>1, <2>1 DEF AdminInv, AdminsKept, Open, ActiveAdmins, Demotes
<1> QED BY <1>3, <1>4, <1>5 DEF AdminInv

LEMMA CrashKeeps == ASSUME AdminInv, NEW i \in Instance, InstanceCrashes(i) PROVE AdminInv'
<1>1. /\ change \in [Change -> ChangeState] /\ queue \in [Instance -> Seq(Change)]
      /\ instances \in [Instance -> {"down", "starting", "listening"}]
      /\ UNCHANGED <<users, lock, aged, stamps, starts, outlived>>
  BY DEF InstanceCrashes, lockRow, AdminInv, AdminsTypeOK
<1>2. \A c \in Change : change'[c] = change[c] \/ change'[c] = NoChange
  BY DEF InstanceCrashes
<1>3. change' \in [Change -> ChangeState]
  BY <1>1, NoChangeTyped DEF InstanceCrashes
<1>4. queue' \in [Instance -> Seq(Change)]
      /\ instances' \in [Instance -> {"down", "starting", "listening"}] /\ (Open' => Open)
  <2>1. <<>> \in Seq(Change)
    OBVIOUS
  <2> QED BY <1>1, <2>1 DEF InstanceCrashes, Open
<1>5. AdminsTypeOK'
  BY <1>1, <1>3, <1>4 DEF AdminInv, AdminsTypeOK
<1>6. stamps \in Nat /\ 0 <= stamps
  BY AdminConstants DEF AdminInv, AdminsTypeOK
<1>7. \A c \in Change : Shape(c)' /\ (Holding(c)' => Holding(c) /\ change'[c] = change[c])
  <2> SUFFICES ASSUME NEW c \in Change
               PROVE  Shape(c)' /\ (Holding(c)' => Holding(c) /\ change'[c] = change[c])
    OBVIOUS
  <2>1. CASE change'[c] = change[c]
    BY <1>1, <2>1 DEF AdminInv, LockInv, Shape, Holding
  <2>2. CASE change'[c] = NoChange
    <3>1. ~Holding(c)'
      BY <2>2, NoChangeTyped DEF Holding
    <3> QED BY <1>1, <1>6, <2>2, <3>1, NoChangeTyped DEF Shape
  <2> QED BY <1>2, <2>1, <2>2
<1>8. LockInv'
  <2>1. \A c, d \in Change : Holding(c)' /\ change'[c].stamp = change'[d].stamp => c = d
    <3> SUFFICES ASSUME NEW c \in Change, NEW d \in Change, Holding(c)',
                        change'[c].stamp = change'[d].stamp
                 PROVE  c = d
      OBVIOUS
    <3>1. change'[c].stamp # 0
      BY <1>7 DEF Shape
    <3>2. change'[d] = change[d] /\ change'[c] = change[c] /\ Holding(c)
      BY <1>2, <1>7, <3>1, NoChangeTyped
    <3> QED BY <3>2 DEF AdminInv, LockInv
  <2> QED BY <1>1, <1>7, <2>1 DEF AdminInv, LockInv
<1>9. AdminsKept'
  <2> SUFFICES ASSUME ~outlived PROVE AdminsKept'
    BY <1>1 DEF AdminsKept
  <2>1. ActiveAdmins' = ActiveAdmins
    BY <1>1 DEF ActiveAdmins
  <2>2. ASSUME NEW d \in Change
        PROVE  /\ change'[d].done => ActiveAdmins' # {}
               /\ change'[d].pc \in {"count", "write"} => users'[change'[d].target] # NoUser
               /\ change'[d].pc = "write" /\ Demotes(change'[d])
                    /\ users'[change'[d].target] = Admin
                    => ActiveAdmins' # {change'[d].target}
    <3>1. CASE change'[d] = change[d]
      BY <1>1, <2>1, <3>1 DEF AdminInv, AdminsKept
    <3>2. CASE change'[d] = NoChange
      BY <3>2, NoChangeTyped
    <3> QED BY <1>2, <3>1, <3>2
  <2>3. Open' => ActiveAdmins' # {}
    BY <1>4, <2>1 DEF AdminInv, AdminsKept
  <2> QED BY <2>2, <2>3 DEF AdminsKept
<1> QED BY <1>5, <1>8, <1>9 DEF AdminInv

LEMMA StutterKeeps == ASSUME AdminInv, UNCHANGED adminVars PROVE AdminInv'
<1>1. UNCHANGED <<users, lock, aged, stamps, instances, starts, queue, change, outlived>>
  BY DEF adminVars
<1>2. AdminsTypeOK' /\ LockInv'
  BY <1>1 DEF AdminInv, AdminsTypeOK, LockInv, Shape, Holding
<1>3. AdminsKept'
  BY <1>1 DEF AdminInv, AdminsKept, Open, ActiveAdmins, Demotes
<1> QED BY <1>2, <1>3 DEF AdminInv

LEMMA AdminInvStep == AdminInv /\ [AdminsNext]_adminVars => AdminInv'
<1> SUFFICES ASSUME AdminInv, [AdminsNext]_adminVars PROVE AdminInv'
  OBVIOUS
<1>1. ASSUME NEW c \in Change, AdminStep(c) PROVE AdminInv'
  BY <1>1, AcquireKeeps, StealKeeps, GiveUpKeeps, ReleaseKeeps, CallbackKeeps
    DEF AdminStep, Callback
<1>2. ASSUME NEW c \in Change, NEW i \in Instance, AdminCall(c, i) PROVE AdminInv'
  BY <1>2, CallKeeps
<1>3. ASSUME NEW actor \in Account, NEW target \in Account, NEW role \in {"user", "admin"},
             NEW active \in BOOLEAN, createUser(actor, target, role, active)
      PROVE  AdminInv'
  BY <1>3, CreateKeeps
<1>4. ASSUME NEW i \in Instance, InstanceCrashes(i) PROVE AdminInv'
  BY <1>4, CrashKeeps
<1> QED BY <1>1, <1>2, <1>3, <1>4, AgeKeeps, StutterKeeps DEF AdminsNext

LEMMA AdminInvAlways == AdminsSpec => []AdminInv
BY AdminInvInit, AdminInvStep, PTL DEF AdminsSpec

-----------------------------------------------------------------------------
(* The theorems. *)

\* Every variable keeps its type.
THEOREM AdminsTypeCorrect == AdminsSpec => []AdminsTypeOK
<1>1. AdminInv => AdminsTypeOK
  BY DEF AdminInv
<1> QED BY <1>1, AdminInvAlways, PTL

\* The lock in the database keeps the changes of all instances apart, across stolen
\* locks and dead instances, until one outlives its lock
\* (admin-mutation-lock.repository.ts, lock.repository.ts).
THEOREM LockKeepsApart == AdminsSpec => []OneChangeAtATime
<1>1. AdminInv => OneChangeAtATime
  BY DEF AdminInv, LockInv, OneChangeAtATime
<1> QED BY <1>1, AdminInvAlways, PTL

\* An open API has an active administrator (user.service.ts, admin-bootstrap.service.ts).
THEOREM SomeAdminRemains == AdminsSpec => []AnAdminRemains
<1>1. AdminInv => AnAdminRemains
  BY DEF AdminInv, AdminsKept, AnAdminRemains, Open
<1> QED BY <1>1, AdminInvAlways, PTL

-----------------------------------------------------------------------------
(* The refinement. *)

\* A step under a lock that can be relied on.
LEMMA SureStep ==
  ASSUME OneAtATime, UNCHANGED outlived,
         \/ Open' = Open
         \/ ActiveAdmins' = ActiveAdmins /\ (Open' => Open \/ ActiveAdmins # {})
  PROVE  [Roster!Next]_(Roster!rosterVars)
<1>1. CASE ActiveAdmins' = ActiveAdmins /\ Open' = Open
  BY <1>1 DEF Roster!rosterVars, Open
<1>2. CASE ActiveAdmins' # ActiveAdmins /\ Open' = Open
  <2>1. PICK u \in Account :
          \/ u \notin ActiveAdmins /\ ActiveAdmins' = ActiveAdmins \cup {u}
          \/ u \in ActiveAdmins /\ ActiveAdmins # {u} /\ ActiveAdmins' = ActiveAdmins \ {u}
    BY <1>2 DEF OneAtATime
  <2>2. Roster!Join(u) \/ Roster!Leave(u)
    BY <1>2, <2>1 DEF Roster!Join, Roster!Leave, Open
  <2> QED BY <2>2 DEF Roster!Next
<1>3. CASE ActiveAdmins' = ActiveAdmins /\ Open' # Open /\ Open'
  <2>1. Roster!Open
    BY <1>3 DEF Roster!Open, Open
  <2> QED BY <2>1 DEF Roster!Next
<1>4. CASE ActiveAdmins' = ActiveAdmins /\ Open' # Open /\ ~Open'
  <2>1. Roster!Close
    BY <1>4 DEF Roster!Close, Open
  <2> QED BY <2>1 DEF Roster!Next
<1> QED BY <1>1, <1>2, <1>3, <1>4

\* Without such a lock the roster promises nothing.
LEMMA UnsureStep == ASSUME outlived' = TRUE, outlived PROVE Roster!Unsure
<1>1. ActiveAdmins' \in SUBSET Account
  BY DEF ActiveAdmins
<1>2. (\E i \in Instance : instances[i] = "listening")' \in BOOLEAN
  OBVIOUS
<1> QED BY <1>1, <1>2 DEF Roster!Unsure

LEMMA RosterStep ==
  ASSUME AdminInv, [AdminsNext]_adminVars PROVE [Roster!Next]_(Roster!rosterVars)
<1>1. UNCHANGED users => OneAtATime
  BY DEF OneAtATime, ActiveAdmins
<1>2. UNCHANGED instances => Open' = Open
  BY DEF Open
<1>3. outlived \in BOOLEAN
  BY DEF AdminInv, AdminsTypeOK
<1>4. CASE outlived
  <2>1. outlived' = TRUE
    <3>1. CASE LockAges
      BY <1>4, <3>1 DEF LockAges
    <3>2. CASE \E c \in Change : AdminStep(c)
      BY <1>3, <1>4, <3>2, CallbackIsInside
        DEF AdminStep, Callback, tryAcquire, StealLock, GiveUp, runWithRelease
    <3>3. CASE \E c \in Change, i \in Instance : AdminCall(c, i)
      BY <1>4, <3>3 DEF AdminCall, bootstrapConfiguredRootAdmin, updateUser, deleteAccount
    <3>4. CASE UNCHANGED outlived
      BY <1>4, <3>4
    <3> QED BY <3>1, <3>2, <3>3, <3>4 DEF AdminsNext, createUser, InstanceCrashes, adminVars
  <2> QED BY <1>4, <2>1, UnsureStep DEF Roster!Next
<1>5. CASE ~outlived
  <2>1. ASSUME NEW c \in Change, Callback(c) PROVE [Roster!Next]_(Roster!rosterVars)
    BY <1>2, <1>5, <2>1, CallbackIsInside, CallbackKeeps, SureStep
  <2>2. ASSUME NEW c \in Change, GiveUp(c) \/ runWithRelease(c)
        PROVE  [Roster!Next]_(Roster!rosterVars)
    <3>1. First(c) /\ Leaves(c) /\ UNCHANGED <<users, outlived>>
      BY <2>2 DEF GiveUp, runWithRelease
    <3>2. Open' => Open \/ ActiveAdmins # {}
      BY <1>5, <3>1, LeavesIs DEF AdminInv, AdminsKept
    <3>3. ActiveAdmins' = ActiveAdmins
      BY <3>1 DEF ActiveAdmins
    <3> QED BY <1>1, <3>1, <3>2, <3>3, SureStep
  <2>3. ASSUME NEW c \in Change, tryAcquire(c) \/ StealLock(c)
        PROVE  [Roster!Next]_(Roster!rosterVars)
    <3>1. UNCHANGED <<users, instances, outlived>>
      BY <2>3 DEF tryAcquire, StealLock
    <3> QED BY <1>1, <1>2, <3>1, SureStep
  <2>4. ASSUME NEW c \in Change, NEW i \in Instance, AdminCall(c, i)
        PROVE  [Roster!Next]_(Roster!rosterVars)
    <3>1. UNCHANGED <<users, outlived>>
      BY <2>4 DEF AdminCall, bootstrapConfiguredRootAdmin, updateUser, deleteAccount
    <3>2. Open' => Open
      BY <2>4 DEF AdminCall, bootstrapConfiguredRootAdmin, updateUser, deleteAccount, Open,
         AdminInv, AdminsTypeOK
    <3>3. ActiveAdmins' = ActiveAdmins
      BY <3>1 DEF ActiveAdmins
    <3> QED BY <1>1, <3>1, <3>2, <3>3, SureStep
  <2>5. ASSUME NEW actor \in Account, NEW target \in Account, NEW role \in {"user", "admin"},
               NEW active \in BOOLEAN, createUser(actor, target, role, active)
        PROVE  [Roster!Next]_(Roster!rosterVars)
    <3>1. UNCHANGED <<instances, outlived>>
      BY <2>5 DEF createUser
    <3> QED BY <1>2, <2>5, <3>1, CreateKeeps, SureStep
  <2>6. ASSUME LockAges PROVE [Roster!Next]_(Roster!rosterVars)
    <3>1. UNCHANGED <<users, instances>>
      BY <2>6 DEF LockAges
    <3>2. outlived' \in BOOLEAN
      BY <2>6, AgeKeeps DEF AdminInv, AdminsTypeOK
    <3>3. ActiveAdmins' = ActiveAdmins /\ Open' = Open
      BY <3>1 DEF ActiveAdmins, Open
    <3>4. CASE outlived' = FALSE
      BY <1>1, <1>3, <1>5, <3>1, <3>3, <3>4, SureStep
    <3>5. CASE outlived' = TRUE
      BY <3>3, <3>5 DEF Roster!Next, Roster!Doubt, Open
    <3> QED BY <3>2, <3>4, <3>5
  <2>7. ASSUME NEW i \in Instance, InstanceCrashes(i) PROVE [Roster!Next]_(Roster!rosterVars)
    <3>1. UNCHANGED <<users, outlived>>
      BY <2>7 DEF InstanceCrashes
    <3>2. Open' => Open
      BY <2>7 DEF InstanceCrashes, Open, AdminInv, AdminsTypeOK
    <3>3. ActiveAdmins' = ActiveAdmins
      BY <3>1 DEF ActiveAdmins
    <3> QED BY <1>1, <3>1, <3>2, <3>3, SureStep
  <2>8. CASE UNCHANGED adminVars
    <3>1. UNCHANGED <<users, instances, outlived>>
      BY <2>8 DEF adminVars
    <3> QED BY <1>1, <1>2, <3>1, SureStep
  <2> QED BY <2>1, <2>2, <2>3, <2>4, <2>5, <2>6, <2>7, <2>8 DEF AdminsNext, AdminStep, Callback
<1> QED BY <1>3, <1>4, <1>5

LEMMA RosterInit == AdminsInit => Roster!Init
BY DEF AdminsInit, Roster!Init, ActiveAdmins

\* What the API does to its administrators is what AdminRoster allows: they leave one
\* at a time and never the last, and the API opens only when there is one.
THEOREM AdminsImplementRoster == AdminsSpec => ImplementsRoster
<1>1. AdminInv /\ [AdminsNext]_adminVars => [Roster!Next]_(Roster!rosterVars)
  BY RosterStep
<1> QED BY <1>1, RosterInit, AdminInvAlways, PTL DEF AdminsSpec, ImplementsRoster, Roster!Spec

\* What AdminRoster promises is enough: an open API whose lock can be relied on has an
\* active administrator.
THEOREM RosterKeepsAnAdmin == Roster!Spec => []Roster!AlwaysAnAdmin
<1>1. Roster!Init => Roster!AlwaysAnAdmin
  BY DEF Roster!Init, Roster!AlwaysAnAdmin
<1>2. Roster!AlwaysAnAdmin /\ [Roster!Next]_(Roster!rosterVars) => Roster!AlwaysAnAdmin'
  BY DEF Roster!AlwaysAnAdmin, Roster!Next, Roster!rosterVars, Roster!Open, Roster!Close,
     Roster!Doubt, Roster!Unsure, Roster!Join, Roster!Leave
<1> QED BY <1>1, <1>2, PTL DEF Roster!Spec

-----------------------------------------------------------------------------
(* Sessions and API keys: the inductive invariant.                             *)

\* A session version of the past, or the present one and then the account as it is.
AsOf(m, version, e) ==
  /\ version <= members[m].version
  /\ version = members[m].version => e = epoch[m]

TokensAsOf ==
  /\ \A t \in tokens : AsOf(t.sub, t.version, t.epoch)
  /\ \A v \in Visit : In(v, "login") => AsOf(visit[v].user, visit[v].row.version, visit[v].epoch)

\* A request for a key whose name was free has it free until it inserts it.
NamesKept ==
  /\ \A k \in keys : k.id <= keyed
  /\ \A j, k \in keys : j.id = k.id => j = k
  /\ ~doubled =>
       /\ \A v, w \in Visit :
            In(v, "createApiKey") /\ In(w, "createApiKey") /\ visit[v].user = visit[w].user => v = w
       /\ \A v \in Visit, k \in keys :
            In(v, "createApiKey") => ~(k.userId = visit[v].user /\ k.name = visit[v].name)
       /\ KeyNamesAreDistinct

SessionInv == SessionsTypeOK /\ TokensAsOf /\ NamesKept

-----------------------------------------------------------------------------
LEMMA AbsentTyped == Absent \in VisitState /\ Absent.op = "none"
<1>1. PICK m \in Member, p \in Password, n \in KeyName : TRUE
  BY SessionConstants
<1> DEFINE row == [active |-> TRUE, password |-> p, version |-> 0]
           r   == [op |-> "none", user |-> m, row |-> row, epoch |-> 0, new |-> p, name |-> n]
<1>2. 0 \in 0..MaxVersion
  BY SessionConstants
<1>3. row \in MemberRow
  BY <1>1, <1>2 DEF MemberRow
<1> HIDE DEF row
<1>4. r \in VisitState /\ r.op = "none"
  BY <1>1, <1>2, <1>3 DEF VisitState
<1> HIDE DEF r
<1>5. \E q \in VisitState : q.op = "none"
  BY <1>4
<1> QED BY <1>5 DEF Absent

LEMMA SessionInvInit == SessionsInit => SessionInv
<1> SUFFICES ASSUME SessionsInit PROVE SessionInv
  OBVIOUS
<1>1. 0 \in 0..MaxVersion /\ 0 \in 0..MaxKey
  BY SessionConstants
<1>2. members \in [Member -> MemberRow]
  <2> DEFINE Fresh == {[active |-> TRUE, password |-> p, version |-> 0] : p \in Password}
  <2>1. members \in [Member -> Fresh]
    BY DEF SessionsInit
  <2>2. Fresh \subseteq MemberRow
    <3> SUFFICES ASSUME NEW p \in Password
                 PROVE  [active |-> TRUE, password |-> p, version |-> 0] \in MemberRow
      OBVIOUS
    <3> QED BY <1>1 DEF MemberRow
  <2> HIDE DEF Fresh
  <2> QED BY <2>1, <2>2
<1>3. visit \in [Visit -> VisitState] /\ \A v \in Visit : visit[v].op = "none"
  BY AbsentTyped DEF SessionsInit
<1>4. SessionsTypeOK
  BY <1>1, <1>2, <1>3 DEF SessionsInit, SessionsTypeOK
<1>5. \A v \in Visit : ~In(v, "login") /\ ~In(v, "createApiKey")
  BY <1>3 DEF In
<1>6. tokens = {} /\ keys = {}
  BY DEF SessionsInit
<1>7. TokensAsOf
  BY <1>5, <1>6 DEF TokensAsOf
<1>8. NamesKept
  BY <1>5, <1>6 DEF NamesKept, KeyNamesAreDistinct
<1> QED BY <1>4, <1>7, <1>8 DEF SessionInv

-----------------------------------------------------------------------------
(* Kinds of steps. *)

\* A request begins: it has what the row of its user says.
LEMMA ArriveTyped ==
  ASSUME SessionsTypeOK, NEW v \in Visit, NEW m \in Member,
         NEW op \in {"login", "changePassword", "createApiKey"}
  PROVE  LET r == Arrive(v, op, m) IN
         /\ r \in VisitState /\ r.op = op /\ r.user = m /\ r.row = members[m] /\ r.epoch = epoch[m]
<1>1. members[m] \in MemberRow /\ epoch[m] \in 0..MaxVersion
  BY DEF SessionsTypeOK
<1> QED BY <1>1, AbsentTyped DEF Arrive, VisitState

LEMMA VisitChanges ==
  ASSUME SessionsTypeOK, NEW v \in Visit, NEW r \in VisitState, visit' = [visit EXCEPT ![v] = r]
  PROVE  /\ visit' \in [Visit -> VisitState] /\ visit'[v] = r
         /\ \A w \in Visit : w # v => visit'[w] = visit[w]
BY DEF SessionsTypeOK

\* The accounts move on; what was read of them is of the past.
LEMMA AccountsMoveOn ==
  ASSUME SessionInv, NEW m \in Member, UNCHANGED tokens,
         \A v \in Visit : In(v, "login")' => visit'[v] = visit[v],
         members' \in [Member -> MemberRow],
         \A n \in Member : n # m => members'[n] = members[n] /\ epoch'[n] = epoch[n],
         \/ members'[m].version = members[m].version + 1
         \/ members'[m].version = members[m].version /\ epoch'[m] = epoch[m]
  PROVE  TokensAsOf'
<1>1. \A t \in tokens : t.sub \in Member /\ t.version \in Nat
  BY SessionConstants DEF SessionInv, SessionsTypeOK, Token
<1>2. \A v \in Visit : visit[v].user \in Member /\ visit[v].row.version \in Nat
  BY SessionConstants DEF SessionInv, SessionsTypeOK, VisitState, MemberRow
<1>3. \A n \in Member : members[n].version \in Nat
  BY SessionConstants DEF SessionInv, SessionsTypeOK, MemberRow
<1>4. ASSUME NEW n \in Member, NEW version \in Nat, NEW e, AsOf(n, version, e)
        PROVE AsOf(n, version, e)'
  <2>1. CASE n # m
    BY <1>4, <2>1 DEF AsOf
  <2>2. CASE n = m
    BY <1>3, <1>4, <2>2 DEF AsOf
  <2> QED BY <2>1, <2>2
<1>5. \A t \in tokens' : AsOf(t.sub, t.version, t.epoch)'
  BY <1>1, <1>4 DEF SessionInv, TokensAsOf
<1>6. \A v \in Visit : In(v, "login")' => AsOf(visit[v].user, visit[v].row.version, visit[v].epoch)'
  BY <1>2, <1>4 DEF SessionInv, TokensAsOf, In
<1> QED BY <1>5, <1>6 DEF TokensAsOf

\* A request ends, or one that is not for a key goes on: the names are what they were.
LEMMA NamesUntouched ==
  ASSUME SessionInv, UNCHANGED <<keyed, doubled>>, keys' \subseteq keys,
         \A w \in Visit : In(w, "createApiKey")' => visit'[w] = visit[w]
  PROVE  NamesKept'
<1>1. \A w \in Visit : In(w, "createApiKey")' => In(w, "createApiKey") /\ visit'[w] = visit[w]
  BY DEF In
<1>2. keys' \subseteq keys /\ keyed' = keyed /\ doubled' = doubled /\ NamesKept
  BY DEF SessionInv
<1>3. /\ \A k \in keys' : k.id <= keyed'
      /\ \A j, k \in keys' : j.id = k.id => j = k
  BY <1>2 DEF NamesKept
<1>4. CASE ~doubled
  <2>1. \A v, w \in Visit :
          In(v, "createApiKey")' /\ In(w, "createApiKey")' /\ visit'[v].user = visit'[w].user =>
            v = w
    BY <1>1, <1>2, <1>4 DEF NamesKept
  <2>2. \A v \in Visit, k \in keys' :
          In(v, "createApiKey")' => ~(k.userId = visit'[v].user /\ k.name = visit'[v].name)
    BY <1>1, <1>2, <1>4 DEF NamesKept
  <2>3. KeyNamesAreDistinct'
    BY <1>2, <1>4 DEF NamesKept, KeyNamesAreDistinct
  <2> QED BY <1>3, <2>1, <2>2, <2>3 DEF NamesKept
<1>5. CASE doubled
  BY <1>2, <1>3, <1>5 DEF NamesKept
<1> QED BY <1>4, <1>5

\* A row of the users table changes, its session version with it and the history too.
LEMMA RowMovesOn ==
  ASSUME SessionInv, NEW m \in Member, NEW r \in MemberRow, r.version = members[m].version + 1,
         members' = [members EXCEPT ![m] = r], Counted(m), UNCHANGED tokens,
         \A v \in Visit : In(v, "login")' => visit'[v] = visit[v]
  PROVE  members' \in [Member -> MemberRow] /\ epoch' \in [Member -> 0..MaxVersion] /\ TokensAsOf'
<1>1. members \in [Member -> MemberRow] /\ epoch \in [Member -> 0..MaxVersion]
  BY DEF SessionInv, SessionsTypeOK
<1>2. members' \in [Member -> MemberRow] /\ members'[m] = r
      /\ \A n \in Member : n # m => members'[n] = members[n]
  BY <1>1
<1>3. epoch' \in [Member -> 0..MaxVersion] /\ \A n \in Member : n # m => epoch'[n] = epoch[n]
  BY <1>1, SessionConstants DEF Counted
<1>4. \A n \in Member : n # m => members'[n] = members[n] /\ epoch'[n] = epoch[n]
  BY <1>2, <1>3
<1>5. members'[m].version = members[m].version + 1
  BY <1>2
<1>6. TokensAsOf'
  BY <1>2, <1>4, <1>5, AccountsMoveOn
<1> QED BY <1>2, <1>3, <1>6

\* A request ends.
LEMMA LeaveIs ==
  ASSUME SessionsTypeOK, NEW v \in Visit, Leave(v)
  PROVE  /\ visit' \in [Visit -> VisitState]
         /\ \A w \in Visit : In(w, "createApiKey")' \/ In(w, "login")' =>
              w # v /\ visit'[w] = visit[w]
<1>1. /\ visit' \in [Visit -> VisitState] /\ visit'[v] = Absent
      /\ \A w \in Visit : w # v => visit'[w] = visit[w]
  BY AbsentTyped, VisitChanges DEF Leave
<1> QED BY <1>1, AbsentTyped DEF In

-----------------------------------------------------------------------------
(* Every step. *)

LEMMA LoginKeeps == ASSUME SessionInv, NEW v \in Visit, NEW m \in Member, login(v, m)
  PROVE SessionInv'
<1> DEFINE r == Arrive(v, "login", m)
<1>1. visit' = [visit EXCEPT ![v] = r] /\ UNCHANGED <<members, tokens, keys, keyed, epoch, doubled>>
  BY DEF login
<1>2. r \in VisitState /\ r.op = "login" /\ r.user = m /\ r.row = members[m] /\ r.epoch = epoch[m]
  BY ArriveTyped DEF SessionInv
<1> HIDE DEF r
<1>3. /\ visit' \in [Visit -> VisitState] /\ visit'[v] = r
      /\ \A w \in Visit : w # v => visit'[w] = visit[w]
  BY <1>1, <1>2, VisitChanges DEF SessionInv
<1>4. SessionsTypeOK'
  BY <1>1, <1>3 DEF SessionInv, SessionsTypeOK
<1>5. TokensAsOf'
  <2>1. members[m].version \in Nat
    BY SessionConstants DEF SessionInv, SessionsTypeOK, MemberRow
  <2>2. AsOf(m, members[m].version, epoch[m])
    BY <2>1 DEF AsOf
  <2>3. AsOf(visit[v].user, visit[v].row.version, visit[v].epoch)'
    BY <1>1, <1>2, <1>3, <2>2 DEF AsOf
  <2>4. \A w \in Visit : w # v /\ In(w, "login")' =>
          AsOf(visit[w].user, visit[w].row.version, visit[w].epoch)'
    BY <1>1, <1>3 DEF SessionInv, TokensAsOf, AsOf, In
  <2> QED BY <1>1, <2>3, <2>4 DEF SessionInv, TokensAsOf, AsOf
<1>6. NamesKept'
  <2>1. \A w \in Visit : In(w, "createApiKey")' => visit'[w] = visit[w]
    BY <1>2, <1>3 DEF In
  <2> QED BY <1>1, <2>1, NamesUntouched
<1> QED BY <1>4, <1>5, <1>6 DEF SessionInv

LEMMA SignKeeps == ASSUME SessionInv, NEW v \in Visit, signUser(v) PROVE SessionInv'
<1> DEFINE q == visit[v]
           t == [sub |-> q.user, version |-> q.row.version, epoch |-> q.epoch]
<1>1. /\ tokens' \in {tokens \cup {t}, tokens} /\ Leave(v) /\ In(v, "login")
      /\ UNCHANGED <<members, keys, keyed, epoch, doubled>>
  BY DEF signUser
<1>2. q \in VisitState
  BY DEF SessionInv, SessionsTypeOK
<1>3. t \in Token /\ AsOf(t.sub, t.version, t.epoch)
  BY <1>1, <1>2 DEF VisitState, MemberRow, Token, SessionInv, TokensAsOf
<1> HIDE DEF t
<1>4. SessionsTypeOK'
  BY <1>1, <1>3, LeaveIs DEF SessionInv, SessionsTypeOK
<1>5. TokensAsOf'
  <2>1. \A u \in tokens' : AsOf(u.sub, u.version, u.epoch)
    BY <1>1, <1>3 DEF SessionInv, TokensAsOf
  <2>2. \A w \in Visit : In(w, "login")' =>
          AsOf(visit'[w].user, visit'[w].row.version, visit'[w].epoch)
    BY <1>1, LeaveIs DEF SessionInv, TokensAsOf, In
  <2> QED BY <1>1, <2>1, <2>2 DEF TokensAsOf, AsOf
<1>6. NamesKept'
  BY <1>1, LeaveIs, NamesUntouched DEF SessionInv
<1> QED BY <1>4, <1>5, <1>6 DEF SessionInv

\* Passwords set by others, and deleting an account.
LEMMA AccountKeeps ==
  ASSUME SessionInv, NEW m \in Member, NEW r \in MemberRow, r.version = members[m].version + 1,
         members' = [members EXCEPT ![m] = r], Counted(m),
         UNCHANGED <<tokens, keys, keyed, visit, doubled>>
  PROVE  SessionInv'
<1>1. members' \in [Member -> MemberRow] /\ epoch' \in [Member -> 0..MaxVersion] /\ TokensAsOf'
  BY RowMovesOn
<1>2. SessionsTypeOK'
  BY <1>1 DEF SessionInv, SessionsTypeOK
<1>3. NamesKept'
  BY NamesUntouched
<1> QED BY <1>1, <1>2, <1>3 DEF SessionInv

LEMMA PasswordRow ==
  ASSUME SessionsTypeOK, NEW m \in Member, NEW p \in Password, updatePassword(m, p)
  PROVE  \E r \in MemberRow : r.version = members[m].version + 1
    /\ members' = [members EXCEPT ![m] = r]
<1>1. members[m] \in MemberRow /\ members[m].version < MaxVersion
  BY DEF SessionsTypeOK, updatePassword
<1> DEFINE n == members[m].version + 1
           r == [members[m] EXCEPT !.password = p, !.version = n]
<1>2. n \in 0..MaxVersion
  BY <1>1, SessionConstants DEF MemberRow
<1>3. members' = [members EXCEPT ![m] = r]
  BY DEF updatePassword
<1> HIDE DEF n
<1>4. r \in MemberRow /\ r.version = n
  BY <1>1, <1>2 DEF MemberRow
<1> HIDE DEF r
<1> QED BY <1>3, <1>4 DEF n

LEMMA ResetKeeps ==
  ASSUME SessionInv, NEW m \in Member, NEW p \in Password,
         resetPassword(m, p) \/ promoteToAdminAndSetPassword(m, p)
  PROVE  SessionInv'
<1>1. CASE resetPassword(m, p)
  <2>1. PICK r \in MemberRow : r.version = members[m].version + 1
          /\ members' = [members EXCEPT ![m] = r]
    BY <1>1, PasswordRow DEF resetPassword, SessionInv
  <2> QED BY <1>1, <2>1, AccountKeeps DEF resetPassword
<1>2. CASE promoteToAdminAndSetPassword(m, p)
  <2> DEFINE n == members[m].version + 1
             r == [active |-> TRUE, password |-> p, version |-> n]
  <2>1. n \in 0..MaxVersion /\ members' = [members EXCEPT ![m] = r]
    BY <1>2, SessionConstants
      DEF promoteToAdminAndSetPassword, SessionInv, SessionsTypeOK, MemberRow
  <2> HIDE DEF n
  <2>2. r \in MemberRow /\ r.version = n
    BY <2>1 DEF MemberRow
  <2> HIDE DEF r
  <2> QED BY <1>2, <2>1, <2>2, AccountKeeps DEF promoteToAdminAndSetPassword, n
<1> QED BY <1>1, <1>2

LEMMA DeactivateKeeps == ASSUME SessionInv, NEW t \in tokens, deactivate(t) PROVE SessionInv'
<1>1. t.sub \in Member
  BY DEF SessionInv, SessionsTypeOK, Token
<1> DEFINE row == members[t.sub]
           n   == row.version + 1
           r   == [row EXCEPT !.active = FALSE, !.version = n]
<1>2. members' = [members EXCEPT ![t.sub] = r] /\ row.version < MaxVersion /\ row \in MemberRow
  BY <1>1 DEF deactivate, SessionInv, SessionsTypeOK
<1>3. n \in 0..MaxVersion
  BY <1>2, SessionConstants DEF MemberRow
<1> HIDE DEF row, n
<1>4. r \in MemberRow /\ r.version = n
  BY <1>2, <1>3 DEF MemberRow
<1> HIDE DEF r
<1> QED BY <1>1, <1>2, <1>4, AccountKeeps DEF deactivate, row, n

LEMMA SetActiveKeeps ==
  ASSUME SessionInv, NEW m \in Member, NEW active \in BOOLEAN, SetActive(m, active)
    PROVE SessionInv'
<1>1. members \in [Member -> MemberRow] /\ members[m] \in MemberRow
  BY DEF SessionInv, SessionsTypeOK
<1> DEFINE r == [members[m] EXCEPT !.active = active]
<1>2. members' = [members EXCEPT ![m] = r]
        /\ UNCHANGED <<tokens, keys, keyed, visit, epoch, doubled>>
  BY DEF SetActive
<1>3. r \in MemberRow /\ r.version = members[m].version
  BY <1>1 DEF MemberRow
<1> HIDE DEF r
<1>4. members' \in [Member -> MemberRow] /\ members'[m] = r
      /\ \A n \in Member : n # m => members'[n] = members[n]
  BY <1>1, <1>2, <1>3
<1>5. TokensAsOf'
  BY <1>2, <1>3, <1>4, AccountsMoveOn
<1>6. SessionsTypeOK'
  BY <1>2, <1>4 DEF SessionInv, SessionsTypeOK
<1>7. NamesKept'
  BY <1>2, NamesUntouched
<1> QED BY <1>5, <1>6, <1>7 DEF SessionInv

\* A request that is neither a login nor one for a key.
LEMMA ChangeKeeps ==
  ASSUME SessionInv, NEW v \in Visit, NEW t \in tokens, NEW p \in Password, changePassword(v, t, p)
  PROVE  SessionInv'
<1>1. t.sub \in Member
  BY DEF SessionInv, SessionsTypeOK, Token
<1> DEFINE q == Arrive(v, "changePassword", t.sub)
           r == [q EXCEPT !.new = p]
<1>2. visit' = [visit EXCEPT ![v] = r] /\ UNCHANGED <<members, tokens, keys, keyed, epoch, doubled>>
  BY DEF changePassword
<1>3. q \in VisitState /\ q.op = "changePassword"
  BY <1>1, ArriveTyped DEF SessionInv
<1> HIDE DEF q
<1>4. r \in VisitState /\ r.op = "changePassword"
  BY <1>3 DEF VisitState
<1> HIDE DEF r
<1>5. /\ visit' \in [Visit -> VisitState] /\ visit'[v] = r
      /\ \A w \in Visit : w # v => visit'[w] = visit[w]
  BY <1>2, <1>4, VisitChanges DEF SessionInv
<1>6. \A w \in Visit : In(w, "createApiKey")' \/ In(w, "login")' => visit'[w] = visit[w]
  BY <1>4, <1>5 DEF In
<1>7. SessionsTypeOK'
  BY <1>2, <1>5 DEF SessionInv, SessionsTypeOK
<1>8. TokensAsOf'
  BY <1>2, <1>6 DEF SessionInv, TokensAsOf, AsOf, In
<1>9. NamesKept'
  BY <1>2, <1>6, NamesUntouched
<1> QED BY <1>7, <1>8, <1>9 DEF SessionInv

LEMMA ChangeRowKeeps == ASSUME SessionInv, NEW v \in Visit, ChangePasswordRow(v) PROVE SessionInv'
<1>1. /\ Leave(v) /\ UNCHANGED <<tokens, keys, keyed, doubled>>
      /\ visit[v].user \in Member /\ visit[v].new \in Password
  BY DEF ChangePasswordRow, SessionInv, SessionsTypeOK, VisitState
<1>2. /\ visit' \in [Visit -> VisitState]
      /\ \A w \in Visit : In(w, "createApiKey")' \/ In(w, "login")' => visit'[w] = visit[w]
  BY <1>1, LeaveIs DEF SessionInv
<1>3. NamesKept'
  BY <1>1, <1>2, NamesUntouched
<1>4. CASE updatePassword(visit[v].user, visit[v].new) /\ Counted(visit[v].user)
  <2>1. PICK r \in MemberRow : /\ r.version = members[visit[v].user].version + 1
                               /\ members' = [members EXCEPT ![visit[v].user] = r]
    BY <1>1, <1>4, PasswordRow DEF SessionInv
  <2>2. members' \in [Member -> MemberRow] /\ epoch' \in [Member -> 0..MaxVersion] /\ TokensAsOf'
    BY <1>1, <1>2, <1>4, <2>1, RowMovesOn
  <2>3. SessionsTypeOK'
    BY <1>1, <1>2, <2>2 DEF SessionInv, SessionsTypeOK
  <2> QED BY <1>3, <2>2, <2>3 DEF SessionInv
<1>5. CASE UNCHANGED <<members, epoch>>
  <2>1. SessionsTypeOK'
    BY <1>1, <1>2, <1>5 DEF SessionInv, SessionsTypeOK
  <2>2. TokensAsOf'
    BY <1>1, <1>2, <1>5 DEF SessionInv, TokensAsOf, AsOf, In
  <2> QED BY <1>3, <2>1, <2>2 DEF SessionInv
<1> QED BY <1>4, <1>5 DEF ChangePasswordRow

LEMMA CreateKeyKeeps ==
  ASSUME SessionInv, NEW v \in Visit, NEW t \in tokens, NEW n \in KeyName, createApiKey(v, t, n)
  PROVE  SessionInv'
<1>1. t.sub \in Member
  BY DEF SessionInv, SessionsTypeOK, Token
<1> DEFINE q == Arrive(v, "createApiKey", t.sub)
           r == [q EXCEPT !.name = n]
           twice == \E w \in Visit : In(w, "createApiKey") /\ visit[w].user = t.sub
<1>2. /\ visit' = [visit EXCEPT ![v] = r] /\ UNCHANGED <<members, tokens, keys, keyed, epoch>>
      /\ ~\E k \in keys : k.userId = t.sub /\ k.name = n
  BY DEF createApiKey
<1>3. doubled' = (doubled \/ twice)
  BY DEF createApiKey
<1> HIDE DEF twice
<1>4. q \in VisitState /\ q.op = "createApiKey" /\ q.user = t.sub
  BY <1>1, ArriveTyped DEF SessionInv
<1> HIDE DEF q
<1>5. r \in VisitState /\ r.op = "createApiKey" /\ r.user = t.sub /\ r.name = n
  BY <1>4 DEF VisitState
<1> HIDE DEF r
<1>6. /\ visit' \in [Visit -> VisitState] /\ visit'[v] = r
      /\ \A w \in Visit : w # v => visit'[w] = visit[w]
  BY <1>2, <1>5, VisitChanges DEF SessionInv
<1>7. SessionsTypeOK'
  <2>1. doubled' \in BOOLEAN
    BY <1>3, Zenon
  <2> QED BY <1>2, <1>6, <2>1 DEF SessionInv, SessionsTypeOK
<1>8. TokensAsOf'
  BY <1>2, <1>5, <1>6 DEF SessionInv, TokensAsOf, AsOf, In
<1>9. NamesKept'
  <2>1. \A k \in keys : k.id <= keyed
    BY DEF SessionInv, NamesKept
  <2>2. CASE ~doubled'
    <3>1. ~doubled /\ \A w \in Visit : In(w, "createApiKey") => visit[w].user # t.sub
      BY <1>3, <2>2 DEF twice
    <3>2. \A w \in Visit : In(w, "createApiKey")' =>
            w = v \/ (In(w, "createApiKey") /\ visit'[w] = visit[w] /\ visit'[w].user # t.sub)
      BY <1>6, <3>1 DEF In
    <3>3. \A u, w \in Visit :
            In(u, "createApiKey")' /\ In(w, "createApiKey")' /\ visit'[u].user = visit'[w].user =>
              u = w
      BY <1>5, <1>6, <3>1, <3>2 DEF SessionInv, NamesKept
    <3>4. \A w \in Visit, k \in keys' :
            In(w, "createApiKey")' => ~(k.userId = visit'[w].user /\ k.name = visit'[w].name)
      BY <1>2, <1>5, <1>6, <3>1, <3>2 DEF SessionInv, NamesKept
    <3>5. KeyNamesAreDistinct'
      BY <1>2, <3>1 DEF SessionInv, NamesKept, KeyNamesAreDistinct
    <3> QED BY <1>2, <3>3, <3>4, <3>5 DEF SessionInv, NamesKept
  <2>3. CASE doubled'
    BY <1>2, <2>3 DEF SessionInv, NamesKept
  <2> QED BY <2>2, <2>3
<1> QED BY <1>7, <1>8, <1>9 DEF SessionInv

LEMMA InsertKeeps == ASSUME SessionInv, NEW v \in Visit, InsertKey(v) PROVE SessionInv'
<1> DEFINE n == keyed + 1
           k == [id |-> n, userId |-> visit[v].user, name |-> visit[v].name]
<1>1. /\ In(v, "createApiKey") /\ Leave(v) /\ UNCHANGED <<members, tokens, epoch, doubled>>
      /\ keyed' = n /\ keys' = keys \cup {k} /\ n \in 1..MaxKey /\ n = keyed + 1 /\ keyed \in Nat
      /\ n \in 0..MaxKey
  BY SessionConstants DEF InsertKey, SessionInv, SessionsTypeOK
<1>2. k \in Key /\ k.id = n /\ k.userId = visit[v].user /\ k.name = visit[v].name
  <2>1. visit[v] \in VisitState
    BY DEF SessionInv, SessionsTypeOK
  <2> QED BY <1>1, <2>1 DEF VisitState, Key
<1>3. \A j \in keys : j.id \in Nat /\ j.id <= keyed
  BY SessionConstants DEF SessionInv, SessionsTypeOK, Key, NamesKept
<1> HIDE DEF n, k
<1>4. /\ visit' \in [Visit -> VisitState]
      /\ \A w \in Visit : In(w, "createApiKey")' \/ In(w, "login")' => w # v /\ visit'[w] = visit[w]
  BY <1>1, LeaveIs DEF SessionInv
<1>5. SessionsTypeOK'
  BY <1>1, <1>2, <1>4 DEF SessionInv, SessionsTypeOK
<1>6. TokensAsOf'
  BY <1>1, <1>4 DEF SessionInv, TokensAsOf, AsOf, In
<1>7. NamesKept'
  <2>1. \A j \in keys' : j.id <= keyed'
    BY <1>1, <1>2, <1>3
  <2>2. \A i, j \in keys' : i.id = j.id => i = j
    BY <1>1, <1>2, <1>3 DEF SessionInv, NamesKept
  <2>3. CASE ~doubled
    <3>1. \A w \in Visit : In(w, "createApiKey")' =>
            In(w, "createApiKey") /\ w # v /\ visit'[w] = visit[w]
      BY <1>4 DEF In
    <3>2. \A u, w \in Visit :
            In(u, "createApiKey")' /\ In(w, "createApiKey")' /\ visit'[u].user = visit'[w].user =>
              u = w
      BY <2>3, <3>1 DEF SessionInv, NamesKept
    <3>3. \A w \in Visit, j \in keys' :
            In(w, "createApiKey")' => ~(j.userId = visit'[w].user /\ j.name = visit'[w].name)
      BY <1>1, <1>2, <2>3, <3>1 DEF SessionInv, NamesKept
    <3>4. KeyNamesAreDistinct'
      BY <1>1, <1>2, <2>3 DEF SessionInv, NamesKept, KeyNamesAreDistinct
    <3> QED BY <2>1, <2>2, <3>2, <3>3, <3>4 DEF NamesKept
  <2>4. CASE doubled
    BY <1>1, <2>1, <2>2, <2>4 DEF NamesKept
  <2> QED BY <2>3, <2>4
<1> QED BY <1>5, <1>6, <1>7 DEF SessionInv

LEMMA DeleteKeyKeeps == ASSUME SessionInv, NEW k \in keys, deleteApiKey(k) PROVE SessionInv'
<1>1. UNCHANGED <<members, tokens, keyed, visit, epoch, doubled>> /\ keys' \subseteq keys
  BY DEF deleteApiKey
<1>2. NamesKept'
  BY <1>1, NamesUntouched
<1>3. SessionsTypeOK'
  BY <1>1 DEF SessionInv, SessionsTypeOK
<1>4. TokensAsOf'
  BY <1>1 DEF SessionInv, TokensAsOf, AsOf, In
<1> QED BY <1>2, <1>3, <1>4 DEF SessionInv

LEMMA SessionStutter == ASSUME SessionInv, UNCHANGED sessionVars PROVE SessionInv'
<1>1. UNCHANGED <<members, tokens, keys, keyed, visit, epoch, doubled>>
  BY DEF sessionVars
<1>2. NamesKept'
  BY <1>1, NamesUntouched
<1> QED BY <1>1, <1>2 DEF SessionInv, SessionsTypeOK, TokensAsOf, AsOf, In

LEMMA SessionInvStep == SessionInv /\ [SessionsNext]_sessionVars => SessionInv'
<1> SUFFICES ASSUME SessionInv, [SessionsNext]_sessionVars PROVE SessionInv'
  OBVIOUS
<1>1. ASSUME NEW m \in Member, NEW v \in Visit, login(v, m) PROVE SessionInv'
  BY <1>1, LoginKeeps
<1>2. ASSUME NEW m \in Member, NEW p \in Password,
             resetPassword(m, p) \/ promoteToAdminAndSetPassword(m, p)
      PROVE  SessionInv'
  BY <1>2, ResetKeeps
<1>3. ASSUME NEW m \in Member, NEW active \in BOOLEAN, SetActive(m, active) PROVE SessionInv'
  BY <1>3, SetActiveKeeps
<1>4. ASSUME NEW v \in Visit, signUser(v) \/ ChangePasswordRow(v) \/ InsertKey(v) PROVE SessionInv'
  BY <1>4, SignKeeps, ChangeRowKeeps, InsertKeeps
<1>5. ASSUME NEW t \in tokens, deactivate(t) PROVE SessionInv'
  BY <1>5, DeactivateKeeps
<1>6. ASSUME NEW t \in tokens, NEW v \in Visit, NEW p \in Password, changePassword(v, t, p)
      PROVE  SessionInv'
  BY <1>6, ChangeKeeps
<1>7. ASSUME NEW t \in tokens, NEW v \in Visit, NEW n \in KeyName, createApiKey(v, t, n)
      PROVE  SessionInv'
  BY <1>7, CreateKeyKeeps
<1>8. ASSUME NEW k \in keys, deleteApiKey(k) PROVE SessionInv'
  BY <1>8, DeleteKeyKeeps
<1> QED BY <1>1, <1>2, <1>3, <1>4, <1>5, <1>6, <1>7, <1>8, SessionStutter DEF SessionsNext

LEMMA SessionInvAlways == SessionsSpec => []SessionInv
BY SessionInvInit, SessionInvStep, PTL DEF SessionsSpec

-----------------------------------------------------------------------------
(* The theorems. *)

\* Every variable keeps its type.
THEOREM SessionsTypeCorrect == SessionsSpec => []SessionsTypeOK
<1>1. SessionInv => SessionsTypeOK
  BY DEF SessionInv
<1> QED BY <1>1, SessionInvAlways, PTL

\* A token that is accepted was given for the account as it is: the logins that were in
\* progress when a password changed give tokens that are refused
\* (login and validateToken of auth.service.ts).
THEOREM StaleTokensAreRefused == SessionsSpec => []AcceptedTokensAreCurrent
<1>1. SessionInv => AcceptedTokensAreCurrent
  BY DEF SessionInv, TokensAsOf, AsOf, AcceptedTokensAreCurrent, validateToken
<1> QED BY <1>1, SessionInvAlways, PTL

\* A user's API keys have distinct names as long as requests for them do not overlap
\* (createApiKey of api-key.service.ts).
THEOREM KeysHaveDistinctNames == SessionsSpec => []KeyNamesAreDistinct
<1>1. SessionInv => KeyNamesAreDistinct
  BY DEF SessionInv, NamesKept, KeyNamesAreDistinct
<1> QED BY <1>1, SessionInvAlways, PTL
=============================================================================
