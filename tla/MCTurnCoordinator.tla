---- MODULE MCTurnCoordinator ----
(* Instances of TurnCoordinator for TLC. *)
EXTENDS TurnCoordinator

CONSTANTS c1, c2, s1, s2

\* Every connection uses every session: requests race.
Shared == Clients \X Sessions

\* Two connections race for one session, one of them has another of its own.
Mixed == {<<c1, s1>>, <<c2, s1>>, <<c1, s2>>}
====
