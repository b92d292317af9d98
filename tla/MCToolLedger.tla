---- MODULE MCToolLedger ----
(* Instances of ToolLedger for TLC. *)
EXTENDS ToolLedger, TLC

CONSTANTS k1, k2, o1, o2, a, b

Interchangeable == Permutations({k1, k2}) \cup Permutations({o1, o2})

\* Event ids come in order, or repeat the first; what the scanner does not look
\* at is the same in all events: the content of a repeated event, the tool a
\* dispatch names, the kind of an ordinary event.
Representative(e) ==
    /\ e.id = 1 + Len(events) \/ (events # <<>> /\ e.id = 1)
    /\ e.id \in seen => e.kind = "text"
    /\ e.kind = "dispatch" => e.name = a
    /\ e.kind = "text" => e.id \in seen /\ ~e.marker
    /\ e.kind # "terminal"

MCNext ==
    /\ Len(events) < MaxEvents
    /\ \E e \in Events : Representative(e) /\ ScanEvent(e)

MCSpec == LedgerInit /\ [][MCNext]_ledgerVars
====
