---------------------------- MODULE MCBotService ----------------------------
(* Instances of BotService for TLC. *)
EXTENDS BotService, TLC

\* Container ids and bots are interchangeable, in safety runs only.
Symmetry == Permutations(Container) \cup Permutations(Bot)
=============================================================================
