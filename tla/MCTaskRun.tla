---- MODULE MCTaskRun ----
(* Instances of TaskRun for TLC. *)
EXTENDS TaskRun

CONSTANTS p1, p2
====
