---- MODULE MCContinuation ----
(* Instances of Continuation for TLC. *)
EXTENDS Continuation

CONSTANTS c1, c2, s1, s2

\* Every connection uses every session.
Shared == Clients \X Sessions

\* Each connection keeps to its own session.
Separate == {<<c1, s1>>, <<c2, s2>>}
====
