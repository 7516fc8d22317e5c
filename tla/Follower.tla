-------------------------------- MODULE Follower --------------------------------
(***************************************************************************)
(* What the runtime's copy of the bots promises: it takes over a change of *)
(* the original before the next one is made, and never has anything else   *)
(* than the original has or had last - but for items that came loose, of   *)
(* which nothing is promised any more.  What the runtime has stored        *)
(* (BotSubscriber) and what it is told (Catalog) both implement it.        *)
(***************************************************************************)
CONSTANTS
  Item,
  Value,
  Absent          \* no such item

VARIABLES
  original,       \* the value of each item
  copy,           \* what the copy has
  loose           \* the items that no longer follow

followerVars == <<original, copy, loose>>

States == [Item -> Value \cup {Absent}]

Init == original = [i \in Item |-> Absent] /\ copy = original /\ loose = {}

\* Only what has been taken over changes again.
Changes(i) == copy[i] = original[i] /\ copy'[i] = copy[i]
Follows(i) == original'[i] = original[i] /\ copy'[i] = original[i]
Stays(i)   == original'[i] = original[i] /\ copy'[i] = copy[i]

\* One item changes or follows at a time; those that come loose do as they like.
Next ==
  /\ original' \in States /\ copy' \in States
  /\ loose' \in SUBSET Item /\ loose \subseteq loose'
  /\ \E i \in Item :
       /\ i \in loose' \/ Changes(i) \/ Follows(i)
       /\ \A j \in Item \ (loose' \cup {i}) : Stays(j)

Spec == Init /\ [][Next]_followerVars
=============================================================================
