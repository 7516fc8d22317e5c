---------------------------- MODULE MCBotSubscriber ----------------------------
(* Instances of BotSubscriber for TLC. *)
EXTENDS BotSubscriber, TLC

\* Requests and versions are interchangeable, and so are bots.
Symmetry == Permutations(Call) \cup Permutations(Version) \cup Permutations(Bot)
=============================================================================
