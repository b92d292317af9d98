---- MODULE ToolRecovery ----
(***************************************************************************)
(* What a session's ledger holds of the tool calls of its turns, and what  *)
(* a host that starts on that ledger makes of it.                          *)
(*                                                                         *)
(* Turns of one session run one after another.  A turn's events - the user *)
(* event, and what the backend yields: text, and a call, a dispatch fact   *)
(* and a result for each tool - stay in memory until the run has ended;    *)
(* then they are appended one by one, and an append whose event id is      *)
(* taken fails without a trace.  The host may die at any point.  The scan  *)
(* of the ledger and its resolution are those of ToolLedger.               *)
(***************************************************************************)
EXTENDS ToolLedger

CONSTANTS
    OperationOf, \* [Keys -> Operations]: the id a call's dispatch fact carries
    MaxTurns,    \* bound: turns of the session
    MaxTexts,    \* bound: pieces of text in one turn
    MaxForeign,  \* bound: backend events of a turn of another session
    KeepRecent,  \* how many messages survive a compaction
    MaxCrashes   \* bound: host processes that die

ASSUME ToolRecoveryAssumption ==
    /\ OperationOf \in [Keys -> Operations]
    /\ \A j, k \in Keys : OperationOf[j] = OperationOf[k] => j = k
    /\ MaxTurns \in Nat \ {0}
    /\ MaxTexts \in Nat
    /\ MaxForeign \in Nat
    /\ KeepRecent \in Nat \ {0}
    /\ MaxCrashes \in Nat

\* The user event is named by its invocation, which is numbered after the
\* conversation; a call by the provider's call id; the rest by a counter that
\* every turn starts from zero.
UserId(n) == [source |-> "user", number |-> n]
CallId(k) == [source |-> "call", key |-> k]
BackendId(n) == [source |-> "backend", number |-> n]
ErrorId(n) == [source |-> "error", number |-> n]
AbortId(n) == [source |-> "abort", number |-> n]

VARIABLES
    foreign,   \* ids that another session's turn put into the table
    stage,     \* where the turn is: "idle" between turns
    call,      \* the call it is at
    buffer,    \* Seq(Events): its events that are not saved yet
    counter,   \* how far the backend has counted
    texts,     \* how many pieces of text it has yielded
    pending,   \* is there text that is no message yet
    length,    \* how many messages the session manager holds
    loaded,    \* has this host resumed the session
    turns,     \* turns so far
    issued,    \* calls the provider has made
    ran,       \* calls whose tool was started
    answered,  \* calls whose result the model was given
    crashes    \* how many times the host died

turnVars == <<stage, call, buffer, counter, texts, pending, length, loaded>>
worldVars == <<foreign, turns, issued, ran, answered, crashes>>
vars == <<ledgerVars, turnVars, worldVars>>

Stages == {"idle", "loop", "called", "dispatched", "executed", "saving"}

\* Another session's first turn may be in the table already: its user event and
\* its first backend events have the ids this session's will have.
ForeignIds(n) == {UserId(1)} \cup {BackendId(i) : i \in 1 .. n}

Init ==
    /\ LedgerInit
    /\ foreign \in {{}} \cup {ForeignIds(n) : n \in 0 .. MaxForeign}
    /\ stage = "idle"
    /\ call = NoKey
    /\ buffer = <<>>
    /\ counter = 0
    /\ texts = 0
    /\ pending = FALSE
    /\ length = 0
    /\ loaded = FALSE
    /\ turns = 0
    /\ issued = {}
    /\ ran = {}
    /\ answered = {}
    /\ crashes = 0

-----------------------------------------------------------------------------
(* The conversation that a resumed session starts from.                    *)

\* Mutant: every call is answered.
AllCalls(es) == Keys

\* Pass 1: calls that have a response somewhere in the ledger.
Responded(es) == {es[i].key : i \in {j \in DOMAIN es : es[j].kind = "response"}}

Flush(c) ==
    IF c.text \/ c.calls # {}
      THEN [out |-> Append(c.out, [role |-> "assistant", calls |-> c.calls]),
            text |-> FALSE, calls |-> {}]
      ELSE c

Say(c, role, calls) == [Flush(c) EXCEPT !.out = Append(@, [role |-> role, calls |-> calls])]

\* Pass 2: text and answered calls gather in one assistant message until a
\* user event or a response ends it.
TakeIn(c, e, responded) ==
    CASE e.kind = "user" -> Say(c, "user", {})
      [] e.kind = "text" -> [c EXCEPT !.text = TRUE]
      [] e.kind = "call" -> [c EXCEPT !.calls = @ \cup ({e.key} \cap responded)]
      [] e.kind = "response" -> Say(c, "tool", {e.key})
      [] OTHER -> c

Passes(es) ==
    LET pass[i \in 0 .. Len(es)] ==
          IF i = 0 THEN [out |-> <<>>, text |-> FALSE, calls |-> {}]
          ELSE TakeIn(pass[i - 1], es[i], Responded(es))
    IN  pass

Project(es) == Flush(Passes(es)[Len(es)]).out

-----------------------------------------------------------------------------
(* A turn.                                                                 *)

AnyName == CHOOSE n \in Names : TRUE
Emit(e) == buffer' = Append(buffer, e)

\* Resume the session if this host has not, push the user message and number
\* the invocation after it.  The run may then compact its copy to a summary and at
\* most KeepRecent messages: fewer when those would begin with a tool's answer.
StartTurn ==
    LET m == (IF loaded THEN length ELSE Len(Project(events))) + 1 IN
    /\ stage = "idle" /\ turns < MaxTurns
    /\ stage' = "loop"
    /\ loaded' = TRUE
    /\ turns' = turns + 1
    /\ Emit([kind |-> "user", id |-> UserId(m), marker |-> TRUE])
    /\ length' \in {m} \cup {n \in 2 .. 1 + KeepRecent : m > KeepRecent}
    /\ counter' = 0
    /\ texts' = 0
    /\ UNCHANGED <<ledgerVars, call, pending, foreign, issued, ran, answered, crashes>>

Text ==
    /\ stage = "loop" /\ texts < MaxTexts
    /\ counter' = counter + 1
    /\ texts' = texts + 1
    /\ pending' = TRUE
    /\ Emit([kind |-> "text", id |-> BackendId(counter + 1), marker |-> FALSE])
    /\ UNCHANGED <<ledgerVars, stage, call, length, loaded, worldVars>>

\* Mutant: a call is named by the counter, like the rest.
CallByCounter(k) ==
    /\ stage = "loop" /\ k \notin issued
    /\ stage' = "called"
    /\ call' = k
    /\ issued' = issued \cup {k}
    /\ counter' = counter + 1
    /\ pending' = FALSE
    /\ length' = length + 1
    /\ Emit([kind |-> "call", id |-> BackendId(counter + 1), key |-> k, name |-> AnyName])
    /\ UNCHANGED <<ledgerVars, texts, loaded, foreign, turns, ran, answered, crashes>>

\* The provider asked for a tool; the counter moves, though the call has its own id.
Call(k) ==
    /\ stage = "loop" /\ k \notin issued
    /\ stage' = "called"
    /\ call' = k
    /\ issued' = issued \cup {k}
    /\ counter' = counter + 1
    /\ pending' = FALSE
    /\ length' = length + 1
    /\ Emit([kind |-> "call", id |-> CallId(k), key |-> k, name |-> AnyName])
    /\ UNCHANGED <<ledgerVars, texts, loaded, foreign, turns, ran, answered, crashes>>

\* The dispatch fact is yielded before the tool is started.
Dispatch ==
    /\ stage = "called"
    /\ stage' = "dispatched"
    /\ counter' = counter + 1
    /\ Emit([kind |-> "dispatch", id |-> BackendId(counter + 1), key |-> call,
             name |-> AnyName, op |-> OperationOf[call]])
    /\ UNCHANGED <<ledgerVars, call, texts, pending, length, loaded, worldVars>>

\* The tool runs, unless the gate denies it.
Execute ==
    /\ stage = "dispatched"
    /\ stage' = "executed"
    /\ ran' \in {ran, ran \cup {call}}
    /\ UNCHANGED <<ledgerVars, call, buffer, counter, texts, pending, length, loaded,
                   foreign, turns, issued, answered, crashes>>

Answer ==
    /\ stage = "executed"
    /\ stage' = "loop"
    /\ call' = NoKey
    /\ counter' = counter + 1
    /\ length' = length + 1
    /\ answered' = answered \cup {call}
    /\ Emit([kind |-> "response", id |-> BackendId(counter + 1), key |-> call,
             name |-> AnyName])
    /\ UNCHANGED <<ledgerVars, texts, pending, loaded, foreign, turns, issued, ran, crashes>>

\* Mutant: an error ends the run while a tool is at work.
EndRunAnywhere ==
    /\ stage \in {"loop", "dispatched", "executed"}
    /\ stage' = "saving"
    /\ pending' = FALSE
    /\ length' = IF pending THEN length + 1 ELSE length
    /\ \E id \in {BackendId(counter + 1), ErrorId(counter + 1), AbortId(counter + 1)} :
          Emit([kind |-> "terminal", id |-> id, marker |-> FALSE])
    /\ UNCHANGED <<ledgerVars, call, counter, texts, loaded, worldVars>>

\* The stream ends with a terminal: completed, failed or aborted.
EndRun ==
    /\ stage = "loop"
    /\ stage' = "saving"
    /\ pending' = FALSE
    /\ length' = IF pending THEN length + 1 ELSE length
    /\ \E id \in {BackendId(counter + 1), ErrorId(counter + 1), AbortId(counter + 1)} :
          Emit([kind |-> "terminal", id |-> id, marker |-> FALSE])
    /\ UNCHANGED <<ledgerVars, call, counter, texts, loaded, worldVars>>

\* finalize_turn appends the run's next event; one whose id is taken is lost.
\* (To ensure the terminal is to append the same event once more.)
Save ==
    LET e == Head(buffer) IN
    /\ stage = "saving" /\ buffer # <<>>
    /\ IF e.id \in seen \cup foreign THEN UNCHANGED ledgerVars ELSE ScanEvent(e)
    /\ buffer' = Tail(buffer)
    /\ stage' = IF Len(buffer) = 1 THEN "idle" ELSE "saving"
    /\ UNCHANGED <<call, counter, texts, pending, length, loaded, worldVars>>

\* The host dies; what was not saved is gone, what a tool did is not.
Crash ==
    /\ crashes < MaxCrashes
    /\ crashes' = crashes + 1
    /\ stage' = "idle"
    /\ call' = NoKey
    /\ buffer' = <<>>
    /\ counter' = 0
    /\ texts' = 0
    /\ pending' = FALSE
    /\ length' = 0
    /\ loaded' = FALSE
    /\ UNCHANGED <<ledgerVars, foreign, turns, issued, ran, answered>>

Next ==
    \/ StartTurn
    \/ Text
    \/ \E k \in Keys : Call(k)
    \/ Dispatch
    \/ Execute
    \/ Answer
    \/ EndRun
    \/ Save
    \/ Crash

Spec == Init /\ [][Next]_vars

-----------------------------------------------------------------------------
(* What a host that starts on the ledger can rely on, wherever the one     *)
(* before it died and whatever appends were lost.                          *)

TypeOK ==
    /\ \A i \in DOMAIN events : events[i].kind \in
         {"user", "text", "call", "dispatch", "response", "terminal"}
    /\ seen = {events[i].id : i \in DOMAIN events}
    /\ ops \in [Keys -> Op]
    /\ stage \in Stages
    /\ call \in Keys \cup {NoKey}
    /\ ran \cup answered \subseteq issued
    /\ turns \in 0 .. MaxTurns /\ crashes \in 0 .. MaxCrashes
    /\ length \in Nat /\ counter \in Nat /\ texts \in 0 .. MaxTexts
    /\ pending \in BOOLEAN /\ loaded \in BOOLEAN

\* Rows are lost in the middle of turns, yet the scanner never finds an issue:
\* what remains of a call is its call row first, then a part of the rest.  A
\* blocked resume always means an open call, never a ledger the host broke.
LedgerIsSound == ~corrupt

\* The resumed conversation can be sent to a provider: after an assistant
\* message come the answers to its calls, all of them and nothing else, and no
\* answer stands anywhere else.
Answers(ms, i) ==
    {ms[j].calls : j \in {n \in i + 1 .. i + Cardinality(ms[i].calls) :
                            n \in DOMAIN ms /\ ms[n].role = "tool"}}
ResumedConversationIsValid ==
    LET ms == Project(events) IN
    /\ \A i \in DOMAIN ms : ms[i].role = "assistant" =>
         Answers(ms, i) = {{k} : k \in ms[i].calls}
    /\ \A j \in DOMAIN ms : ms[j].role = "tool" =>
         \E i \in 1 .. j - 1 : ms[j].calls \subseteq ms[i].calls
                               /\ j - i <= Cardinality(ms[i].calls)

\* Rows of a call - its call, its dispatch fact, its result - wait for the end of the
\* turn, and by then the result was given.  So what a resumed host finds open is a call
\* whose result row was lost, never one that a crash cut short: of that one there is no
\* row at all.  This is the contrary of StartedCallsAreMarked, which the code's comment says.
DurableCallsAreOver ==
    \A k \in Keys : ops[k].known \/ ops[k].dispatch \/ ops[k].response => k \in answered

\* The dispatch fact is "emitted before dispatch so a crash between here and the result
\* leaves a durable "may have started" marker for recovery" (aimux_backend.rs:268): after
\* a crash, a call whose tool was started and that was not answered has its dispatch
\* fact in the ledger.  The code does not keep it: README, Findings.
StartedCallsAreMarked ==
    stage = "idle" => \A k \in ran \ answered : ops[k].dispatch

\* "Under the T1 protocol, a call with no dispatch fact - provably never
\* executed": between turns, the tool of such a call has not run.
\* The code does not keep it: README, Findings.
NotDispatchedNeverRan ==
    stage = "idle" =>
        \A k \in Keys : ops[k].known /\ Status(k) = "not_dispatched" => k \notin ran

-----------------------------------------------------------------------------
(* The inductive invariant behind LedgerIsSound and DurableCallsAreOver.   *)

ToolLanes == {"call", "dispatch", "response"}
AtCall == {"called", "dispatched", "executed"}

\* Row i of the buffer is of a lane of call k.
Buffered(lane, k, i) == buffer[i].kind = lane /\ buffer[i].key = k

\* Only a call row has the call's id.
RowIsNamed(e) ==
    /\ e.kind \in ToolLanes \cup {"user", "text", "terminal"}
    /\ e.kind \in ToolLanes => e.key \in issued /\ e.name = AnyName
    /\ IF e.kind = "call" THEN e.id = CallId(e.key) ELSE e.id.source # "call"

\* A call is buffered before the rest of it, each of them once, and not before it
\* is saved; its result is in the buffer too unless the turn is still at the call.
RowIsInOrder(i) ==
    LET e == buffer[i] IN
    e.kind \in ToolLanes =>
        /\ \A j \in DOMAIN buffer : Buffered(e.kind, e.key, j) => j = i
        /\ e.kind = "call" => ~ops[e.key].known
        /\ e.kind = "dispatch" => ~ops[e.key].dispatch
        /\ e.kind = "response" => ~ops[e.key].response
        /\ e.kind = "call" \/ ops[e.key].known
             \/ \E j \in DOMAIN buffer : j < i /\ Buffered("call", e.key, j)
        /\ e.key \in answered \/ (stage \in AtCall /\ e.key = call)

BufferIsInOrder ==
    /\ buffer \in Seq({buffer[i] : i \in DOMAIN buffer})
    /\ \A i \in DOMAIN buffer : RowIsNamed(buffer[i]) /\ RowIsInOrder(i)

\* The call the turn is at: made, and not answered.
CallIsOpen ==
    stage \in AtCall =>
        /\ call \in issued
        /\ ~ops[call].known /\ ~ops[call].dispatch /\ ~ops[call].response
        /\ \E i \in DOMAIN buffer : Buffered("call", call, i)
        /\ \A i \in DOMAIN buffer :
             ~Buffered("response", call, i) /\ (stage = "called" => ~Buffered("dispatch", call, i))

\* An operation the scanner knows has its call row, and was answered in its turn.
KnownIsSaved ==
    \A k \in Keys :
        /\ ops[k].known <=> CallId(k) \in seen
        /\ ops[k].known => k \in answered /\ ops[k].name = AnyName
        /\ ~ops[k].known => ~ops[k].dispatch /\ ~ops[k].response

RecoveryInv ==
    /\ ops \in [Keys -> Op] /\ issued \subseteq Keys /\ answered \subseteq issued
    /\ \A id \in foreign : id.source # "call"
    /\ BufferIsInOrder /\ CallIsOpen /\ KnownIsSaved
    /\ LedgerIsSound

-----------------------------------------------------------------------------
(* The inductive invariant behind ResumedConversationIsValid.              *)

OnlyDispatches(es, a, b) == \A m \in a .. b : es[m].kind = "dispatch"
IsCallRow(es, i, k) == es[i].kind = "call" /\ es[i].key = k

\* A result comes right after its call, but for the dispatch fact.
FollowsItsCall(es, j) ==
    \E i \in 1 .. j - 1 : IsCallRow(es, i, es[j].key) /\ OnlyDispatches(es, i + 1, j - 1)

\* The call is the last there is, but for its dispatch fact.
EndsAtCall(es, k) ==
    \E i \in DOMAIN es : IsCallRow(es, i, k) /\ OnlyDispatches(es, i + 1, Len(es))

\* The calls of the ledger are there once, and no result without its call.
LedgerIsInPairs ==
    /\ events \in Seq({events[i] : i \in DOMAIN events})
    /\ seen = {events[i].id : i \in DOMAIN events}
    /\ \A i \in DOMAIN events : RowIsNamed(events[i])
    /\ \A i, j \in DOMAIN events :
         events[i].kind = "call" /\ events[j].kind = "call" /\ events[i].key = events[j].key => i = j
    /\ \A j \in DOMAIN events : events[j].kind = "response" => FollowsItsCall(events, j)

\* A result in the buffer has its call there too, or the ledger ends at it.
BufferIsInPairs ==
    /\ \A j \in DOMAIN buffer : buffer[j].kind = "response" =>
         \/ FollowsItsCall(buffer, j)
         \/ EndsAtCall(events, buffer[j].key) /\ OnlyDispatches(buffer, 1, j - 1)
    /\ stage \in AtCall => EndsAtCall(buffer, call)

PairsInv == RecoveryInv /\ LedgerIsInPairs /\ BufferIsInPairs
====
