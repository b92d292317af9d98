---- MODULE MCHostElection ----
(* Instances of HostElection for TLC. *)
EXTENDS HostElection

CONSTANTS h1, h2, h3, c1, c2
====
