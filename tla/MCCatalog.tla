------------------------------- MODULE MCCatalog -------------------------------
(* Instances of Catalog for TLC. *)
EXTENDS Catalog

\* Version 3 would be the first of major version 2.
MajorOf == [v \in Ver |-> IF v < 3 THEN 1 ELSE 2]

NoPair  == {}
\* 1.0.1 and 1.0.10
OnePair == {<<1, 2>>}
=============================================================================
