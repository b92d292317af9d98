---- MODULE TaskRun ----
(***************************************************************************)
(* Durable headless tasks.  `meepo headless` drives a task to completion   *)
(* in a loop of attempts and appends every transition to the task run's    *)
(* ledger; what it reports, and what any later process knows of the run,   *)
(* is the fold of that ledger.                                             *)
(*                                                                         *)
(* A task run is named after the session (headless-{session}), so every    *)
(* process started for one session on one database writes the same ledger. *)
(* A process numbers its events from 0 whatever the ledger holds, and a    *)
(* row at a number that is taken is replaced.  Processes run one after the *)
(* other or at the same time, and may be killed anywhere.                  *)
(***************************************************************************)
EXTENDS Integers, FiniteSets, FiniteSetsExt

CONSTANTS
    Processes,  \* invocations of the program for the task run
    MaxLimit,   \* bound: the largest value of --max-attempts
    Limits,     \* values of --max-attempts
    Overlap,    \* whether two invocations may run at the same time
    MaxErrors   \* bound: appends to the ledger that fail

ASSUME TaskRunAssumption ==
    /\ MaxLimit \in Nat
    /\ Limits \subseteq 0..MaxLimit
    /\ Overlap \in BOOLEAN
    /\ MaxErrors \in Nat

\* How a turn ends, as an attempt's status.
Outcomes == {"completed", "aborted", "failed"}

Kinds == {"created", "started", "ended", "run_completed", "run_failed"}

\* A row of the ledger: "by" is the process that wrote it, "status" an ended
\* attempt's.  Nothing writes the Queued event.
Row == [kind : Kinds, status : Outcomes \cup {"none"}, by : Processes]
NoRow == [kind |-> "none"]

\* The rows a process can come to write: Created, two for each attempt, and
\* the terminal event.
Sequences == 0..(2 * MaxLimit + 1)

VARIABLES
    rows,    \* [Sequences -> Row \cup {NoRow}]: the ledger, by sequence number
    process, \* [Processes -> Process]: run_task of each invocation
    errors   \* how many appends have failed

vars == <<rows, process, errors>>

\* What a fold of the ledger, or run_task's caller, is told of the run; a run
\* nobody created has status "none".
View == [status : Outcomes \cup {"none", "created", "running"},
         attempts : Nat, finished : BOOLEAN]

Nothing == [status |-> "none", attempts |-> 0, finished |-> FALSE]

\* "attempts" counts the attempts started; "last" is the last one's status;
\* "lost" says an append of this process failed (nothing in the program knows).
Process ==
    [pc : {"unborn", "attempt", "turn", "gate", "report", "done"}, alive : BOOLEAN,
     limit : Limits, seq : Nat, attempts : Nat, last : Outcomes \cup {"none"},
     succeeded : BOOLEAN, lost : BOOLEAN, reported : View]

TypeOK ==
    /\ rows \in [Sequences -> Row \cup {NoRow}]
    /\ process \in [Processes -> Process]
    /\ errors \in 0..MaxErrors

-----------------------------------------------------------------------------
(* The fold *)

Having(kinds) == {i \in Sequences : rows[i].kind \in kinds}

\* Mutant: an attempt's end leaves the run as it was.
StatusUnlessEnded(row) ==
    CASE row.kind = "created" -> "created"
      [] row.kind \in {"started", "ended"} -> "running"
      [] row.kind = "run_completed" -> "completed"
      [] row.kind = "run_failed" -> "failed"

\* What the run's status becomes with an event.
StatusAfter(row) ==
    CASE row.kind = "created" -> "created"
      [] row.kind = "started" -> "running"
      [] row.kind = "ended" -> row.status
      [] row.kind = "run_completed" -> "completed"
      [] row.kind = "run_failed" -> "failed"

\* The fold, in sequence order: the last Created event begins the run anew, but
\* for the fold's own count of attempts; events before any are of no run.
Projection ==
    LET created == Having({"created"})
        Since(kinds) == {i \in Having(kinds) : i > Max(created)}
    IN  IF created = {} THEN Nothing
        ELSE [status |-> StatusAfter(rows[Max(Having(Kinds))]),
              attempts |-> IF Since({"started"}) = {} THEN 0
                           ELSE Cardinality(Having({"started"})),
              finished |-> Since({"run_completed", "run_failed"}) # {}]

-----------------------------------------------------------------------------
(* The loop *)

Init ==
    /\ rows = [i \in Sequences |-> NoRow]
    /\ process \in [Processes ->
         {[pc |-> "unborn", alive |-> TRUE, limit |-> limit, seq |-> 0,
           attempts |-> 0, last |-> "none", succeeded |-> FALSE, lost |-> FALSE,
           reported |-> Nothing] : limit \in Limits}]
    /\ errors = 0

Running(p) == process[p].alive /\ process[p].pc \notin {"unborn", "done"}

\* Append a row under the process's next number, in the place of one that is
\* there: or fail to, unnoticed.  The process goes on as "next".
Write(p, kind, status, next) ==
    LET n == next.seq
    IN  \/ /\ rows' = [rows EXCEPT ![n] = [kind |-> kind, status |-> status, by |-> p]]
           /\ process' = [process EXCEPT ![p] = [next EXCEPT !.seq = n + 1]]
           /\ UNCHANGED errors
        \/ /\ errors < MaxErrors
           /\ errors' = errors + 1
           /\ process' = [process EXCEPT ![p] = [next EXCEPT !.seq = n + 1, !.lost = TRUE]]
           /\ UNCHANGED rows

Launch(p) ==
    /\ process[p].pc = "unborn"
    /\ Overlap \/ \A q \in Processes : ~Running(q)
    /\ Write(p, "created", "none", [process[p] EXCEPT !.pc = "attempt"])

\* Mutant: an attempt's start takes the number before its own.
StartAttemptEarly(p) ==
    /\ process[p].alive /\ process[p].pc = "attempt"
    /\ process[p].attempts < process[p].limit
    /\ Write(p, "started", "none",
              [process[p] EXCEPT !.pc = "turn", !.attempts = @ + 1, !.seq = @ - 1])

StartAttempt(p) ==
    /\ process[p].alive /\ process[p].pc = "attempt"
    /\ process[p].attempts < process[p].limit
    /\ Write(p, "started", "none",
              [process[p] EXCEPT !.pc = "turn", !.attempts = @ + 1])

\* The turn of a fresh session ends; only a completed one is shown to the gate.
EndAttempt(p, status) ==
    /\ process[p].alive /\ process[p].pc = "turn"
    /\ Write(p, "ended", status,
              [process[p] EXCEPT !.pc = IF status = "completed" THEN "gate" ELSE "attempt",
                                 !.last = status])

\* The gate accepts the attempt: the default gate does so always, the
\* self-check when the model it asks says yes.
Accept(p) ==
    /\ process[p].alive /\ process[p].pc = "gate"
    /\ Write(p, "run_completed", "none",
              [process[p] EXCEPT !.pc = "report", !.succeeded = TRUE])

\* Mutant: a repair has the gate asked again about the same attempt.
RepairInPlace(p) ==
    /\ process[p].alive /\ process[p].pc = "gate"
    /\ process' = [process EXCEPT ![p].last = IF @ = "none" THEN "completed" ELSE "none"]
    /\ UNCHANGED <<rows, errors>>

\* The gate is not satisfied: the next attempt is told its feedback, in a
\* session of its own.
Repair(p) ==
    /\ process[p].alive /\ process[p].pc = "gate"
    /\ process' = [process EXCEPT ![p].pc = "attempt"]
    /\ UNCHANGED <<rows, errors>>

Exhaust(p) ==
    /\ process[p].alive /\ process[p].pc = "attempt"
    /\ process[p].attempts = process[p].limit
    /\ Write(p, "run_failed", "none", [process[p] EXCEPT !.pc = "report"])

\* The ledger is read back: its fold is the result, or a failed run when there
\* is none.
Report(p) ==
    /\ process[p].alive /\ process[p].pc = "report"
    /\ process' = [process EXCEPT ![p].pc = "done",
         ![p].reported = IF Projection.status = "none"
                         THEN [Nothing EXCEPT !.status = "failed"] ELSE Projection]
    /\ UNCHANGED <<rows, errors>>

Crash(p) ==
    /\ Running(p)
    /\ process' = [process EXCEPT ![p].alive = FALSE]
    /\ UNCHANGED <<rows, errors>>

Step(p) ==
    \/ StartAttempt(p)
    \/ \E status \in Outcomes : EndAttempt(p, status)
    \/ Accept(p)
    \/ Repair(p)
    \/ Exhaust(p)
    \/ Report(p)

Next == \E p \in Processes : Launch(p) \/ Step(p) \/ Crash(p)

\* A process that runs takes its next step.
Spec == Init /\ [][Next]_vars /\ \A p \in Processes : WF_vars(Step(p))

-----------------------------------------------------------------------------
(* Properties *)

\* The run as its process knows it.
Own(p) ==
    [status |-> IF process[p].pc = "turn" THEN "running"
                ELSE IF process[p].pc \in {"report", "done"}
                THEN IF process[p].succeeded THEN "completed" ELSE "failed"
                ELSE IF process[p].attempts = 0 THEN "created" ELSE process[p].last,
     attempts |-> process[p].attempts,
     finished |-> process[p].pc \in {"report", "done"}]

\* When every row is one process's and none of its appends failed, the fold
\* of the ledger is that process's run exactly, at every moment of it: so a
\* process killed anywhere leaves what it had done, and one that writes over
\* the whole ledger of an earlier run is not mistaken for it.
LedgerTellsRun ==
    \A p \in Processes :
        (/\ process[p].pc # "unborn"
         /\ ~process[p].lost
         /\ \A i \in Sequences : rows[i] # NoRow => rows[i].by = p)
        => Projection = Own(p)

\* The kinds of row that belong at a number.
KindsAt(i) ==
    IF i = 0 THEN {"created"}
    ELSE IF i % 2 = 0 THEN {"ended"}
    ELSE {"started", "run_completed", "run_failed"}

\* The row at each number is of the kind its parity says, whoever wrote it
\* and whatever it replaced: runs that overlap or leave a longer one's tail
\* behind interleave into a ledger of attempts that start and end in turn,
\* without a hole if no append failed.
LedgerIsWellFormed ==
    /\ \A i \in Sequences : rows[i] # NoRow =>
         rows[i].kind \in KindsAt(i)
    /\ errors = 0 =>
         \A i \in Sequences \ {0} : rows[i] # NoRow => rows[i - 1] # NoRow

\* An invocation that is not killed reports and ends.
RunReports ==
    \A p \in Processes :
        process[p].pc = "attempt" ~> (process[p].pc = "done" \/ ~process[p].alive)

\* run_task returns what the run it drove came to: the fold is said to be the
\* run's state.
\* The code does not keep it: README, Findings.
ReportIsOutcome ==
    \A p \in Processes :
        process[p].pc = "done" /\ ~process[p].lost => process[p].reported = Own(p)

-----------------------------------------------------------------------------
(* The inductive invariant behind LedgerIsWellFormed and LedgerTellsRun.    *)

\* Where process q stands in the loop gives its next number.
PlaceOf(q) ==
    /\ q.attempts <= q.limit
    /\ q.pc = "unborn" => q.seq = 0 /\ q.attempts = 0
    /\ q.pc \notin {"report", "done"} => ~q.succeeded
    /\ q.pc \in {"attempt", "gate"} => q.seq = 2 * q.attempts + 1
    /\ q.pc = "turn" => q.seq = 2 * q.attempts
    /\ q.pc \in {"turn", "gate"} => q.attempts > 0
    /\ q.pc \in {"report", "done"} => q.seq = 2 * q.attempts + 2

PlaceIsNumber == \A p \in Processes : PlaceOf(process[p])

\* Without failing appends no row is missing below a process's next number.
NothingMissing ==
    errors = 0 =>
        \A p \in Processes, i \in Sequences : i < process[p].seq => rows[i] # NoRow

\* The kind of row that process q, whose next number is past i, wrote there.
OwnKind(q, i) ==
    IF i = 0 THEN "created"
    ELSE IF i = 2 * q.attempts + 1
    THEN IF q.succeeded THEN "run_completed" ELSE "run_failed"
    ELSE IF i % 2 = 0 THEN "ended" ELSE "started"

\* The rows of a process are below its next number; unless an append of it
\* failed there is a row at each of those, and those that are its own tell
\* the attempts it made and how the last one ended.
RowsAreOwn ==
    \A p \in Processes, i \in Sequences :
        LET q == process[p] IN
        /\ rows[i] # NoRow /\ rows[i].by = p => i < q.seq
        /\ ~q.lost /\ i < q.seq =>
             /\ rows[i] # NoRow
             /\ rows[i].by = p =>
                  /\ rows[i].kind = OwnKind(q, i)
                  /\ i = 2 * q.attempts /\ i > 0 => rows[i].status = q.last
====
