---- MODULE MCConnection ----
(* Instances of Connection for TLC. *)
EXTENDS Connection

CONSTANTS k1, k2, q1, q2
====
