------------------------------ MODULE AdminRoster ------------------------------
(***************************************************************************)
(* What the API promises about its administrators: once it is open there   *)
(* is always one, and they leave one at a time - as long as it can be sure *)
(* that the lock they are changed under keeps changes apart.               *)
(***************************************************************************)
CONSTANT Account

VARIABLES
  admins,         \* the active administrators
  open,           \* some instance of the API takes requests
  sure            \* no change has outlived its lock

rosterVars == <<admins, open, sure>>

Init == admins \in SUBSET Account /\ open = FALSE /\ sure = TRUE

Join(u)  == u \notin admins /\ admins' = admins \cup {u} /\ UNCHANGED <<open, sure>>
Leave(u) == u \in admins /\ admins # {u} /\ admins' = admins \ {u} /\ UNCHANGED <<open, sure>>
Open     == admins # {} /\ open' = TRUE /\ UNCHANGED <<admins, sure>>
Close    == open' = FALSE /\ UNCHANGED <<admins, sure>>

\* Without the lock nothing is promised any more.
Doubt    == sure' = FALSE /\ UNCHANGED <<admins, open>>
Unsure   == ~sure /\ admins' \in SUBSET Account /\ open' \in BOOLEAN /\ sure' = FALSE

Next == Open \/ Close \/ Doubt \/ Unsure \/ \E u \in Account : Join(u) \/ Leave(u)

Spec == Init /\ [][Next]_rosterVars

\* What the promise amounts to: an open API whose lock can be relied on has an
\* active administrator.
AlwaysAnAdmin == open /\ sure => admins # {}
=============================================================================
