---- MODULE MCAgentLoop ----
(* Instances of AgentLoop for TLC. *)
EXTENDS AgentLoop, TLC

CONSTANTS t1, t2, p1, p2, c1, c2, s1, s2

\* One turn that makes one call, or two.
OneCall == t1 :> <<p1>>
TwoCalls == t1 :> <<p1, p2>>

\* All calls are of one session.
OneSession == [p \in Calls |-> s1]
====
