---- MODULE MCToolRecovery ----
(* Instances of ToolRecovery for TLC. *)
EXTENDS ToolRecovery, TLC

CONSTANTS k1, k2

Interchangeable == Permutations(Keys)

\* The operation id is a digest of the call's key.
KeyItself == [k \in Keys |-> k]

\* Ids are what the actions make of them.
SomeIds == {UserId(1)}
====
