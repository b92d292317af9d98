---- MODULE MCSessionCatalog ----
(* Instances of SessionCatalog for TLC. *)
EXTENDS SessionCatalog, TLC

CONSTANTS c1, c2, s1

Interchangeable == Permutations(Clients)
====
