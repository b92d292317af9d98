---- MODULE InteractionHub ----
(***************************************************************************)
(* Permission prompts over the wire.  A turn that needs permission for a   *)
(* tool call enters a prompt in the hub's pending table, publishes the     *)
(* session's list of prompts, and waits; a client takes the prompt out of  *)
(* the table, persists the request with its outcome, sends the answer and  *)
(* publishes the list again.                                               *)
(*                                                                         *)
(* Every lock acquisition is a step: the list is read under the hub's lock *)
(* and set under the continuity coordinator's, so publishers overtake one  *)
(* another.  A prompt is named by the tool call it is about.               *)
(***************************************************************************)
EXTENDS Naturals, Sequences

CONSTANTS
    Calls,      \* tool calls: each is asked about at most once
    Sessions,   \* session ids
    SessionOf,  \* the session a call belongs to
    Clients,    \* connections that answer prompts
    MaxErrors   \* bound: writes to the store that fail

ASSUME HubAssumption ==
    /\ SessionOf \in [Calls -> Sessions]
    /\ MaxErrors \in Nat

Decisions == {"allow", "deny"}

\* A permission record: its request row and its outcome row (a request row
\* alone, what a failed second insert leaves, tells as little as none).
Record == {"none"} \cup Decisions

VARIABLES
    pending,   \* SUBSET Calls: the hub's pending table
    ask,       \* [Calls -> Asking]: the turn's side of each prompt
    answerer,  \* [Clients -> Answering]: each connection's interaction.answer
    resolved,  \* [Calls -> Seq(Decisions)]: the answers that took the prompt
    outcome,   \* [Calls -> Record]: the hub's durable records
    present,   \* [Sessions -> BOOLEAN]: the session has continuity state
    shown,     \* [Sessions -> SUBSET Calls]: interactionsPending of its snapshot
    errors,    \* how many writes have failed
    up         \* BOOLEAN: the runtime is not shutting down

hubVars == <<pending, ask, answerer, resolved, outcome, present, shown, errors, up>>

\* "answer" is the one-shot channel: "dropped" when its sender is gone.
Asking ==
    [pc : {"unasked", "read", "set", "wait", "done", "gone"},
     views : SUBSET Calls, answer : {"none", "dropped"} \cup Decisions]

Answering ==
    [pc : {"idle", "record", "send", "read", "set"}, of : Calls \cup {"none"},
     decision : Decisions, views : SUBSET Calls]

Idle == [pc |-> "idle", of |-> "none", decision |-> "deny", views |-> {}]
Unasked == [pc |-> "unasked", views |-> {}, answer |-> "none"]

HubInit ==
    /\ pending = {}
    /\ ask = [p \in Calls |-> Unasked]
    /\ answerer = [c \in Clients |-> Idle]
    /\ resolved = [p \in Calls |-> <<>>]
    /\ outcome = [p \in Calls |-> "none"]
    /\ present = [s \in Sessions |-> FALSE]
    /\ shown = [s \in Sessions |-> {}]
    /\ errors = 0
    /\ up = TRUE

\* pending_for_session, also the answer to interaction.query.
PendingOf(s) == {p \in pending : SessionOf[p] = s}

\* set_pending_interactions: nothing happens for a session nobody opened.
SetPending(s, views) == shown' = IF present[s] THEN [shown EXCEPT ![s] = views] ELSE shown

\* What record_permission leaves of a record nobody wrote before (its id is
\* fresh): either insert may fail, unnoticed.
Written(decision) ==
    IF errors < MaxErrors THEN {decision, "none"} ELSE {decision}

Failures(row, decision) == IF row = decision THEN 0 ELSE 1

-----------------------------------------------------------------------------
(* The turn's side: ask.                                                   *)

\* The prompt enters the table.
Insert(p) ==
    /\ ask[p].pc = "unasked"
    /\ pending' = pending \cup {p}
    /\ ask' = [ask EXCEPT ![p].pc = "read"]
    /\ UNCHANGED <<answerer, resolved, outcome, present, shown, errors, up>>

AskRead(p) ==
    /\ ask[p].pc = "read"
    /\ ask' = [ask EXCEPT ![p] = [@ EXCEPT !.pc = "set", !.views = PendingOf(SessionOf[p])]]
    /\ UNCHANGED <<pending, answerer, resolved, outcome, present, shown, errors, up>>

AskSet(p) ==
    /\ ask[p].pc = "set"
    /\ SetPending(SessionOf[p], ask[p].views)
    /\ ask' = [ask EXCEPT ![p] = [@ EXCEPT !.pc = "wait", !.views = {}]]
    /\ UNCHANGED <<pending, answerer, resolved, outcome, present, errors, up>>

\* The answer arrived, or its sender is gone.
AskReturn(p) ==
    /\ ask[p].pc = "wait" /\ ask[p].answer # "none"
    /\ ask' = [ask EXCEPT ![p].pc = "done"]
    /\ UNCHANGED <<pending, answerer, resolved, outcome, present, shown, errors, up>>

\* Mutant: a prompt whose answerer vanished is not denied.
GrantedUnlessDenied(p) == ask[p].answer # "deny"

\* What a prompt came to: no answer is a denial.
Granted(p) == ask[p].answer = "allow"

-----------------------------------------------------------------------------
(* The client's side: interaction.answer.                                  *)

\* Mutant: the entry is looked up but stays in the table.
TakeNothing(c, p, d) ==
    /\ answerer[c].pc = "idle" /\ p \in pending /\ Len(resolved[p]) < 2
    /\ answerer' = [answerer EXCEPT ![c] = [Idle EXCEPT !.pc = "record", !.of = p, !.decision = d]]
    /\ resolved' = [resolved EXCEPT ![p] = Append(@, d)]
    /\ UNCHANGED <<pending, ask, outcome, present, shown, errors, up>>

\* Take the prompt out of the table: this answer will be "resolved".  Without an
\* entry the answer is already_resolved and nothing happens.
Take(c, p, d) ==
    /\ answerer[c].pc = "idle" /\ p \in pending
    /\ pending' = pending \ {p}
    /\ answerer' = [answerer EXCEPT ![c] = [Idle EXCEPT !.pc = "record", !.of = p, !.decision = d]]
    /\ resolved' = [resolved EXCEPT ![p] = Append(@, d)]
    /\ UNCHANGED <<ask, outcome, present, shown, errors, up>>

RecordOutcome(c) ==
    LET k == answerer[c] IN
    /\ k.pc = "record"
    /\ \E row \in Written(k.decision) :
          /\ outcome' = [outcome EXCEPT ![k.of] = row]
          /\ errors' = errors + Failures(row, k.decision)
    /\ answerer' = [answerer EXCEPT ![c].pc = "send"]
    /\ UNCHANGED <<pending, ask, resolved, present, shown, up>>

\* Mutant: an answer that comes before the turn waits is lost.
SendToWaiting(c) ==
    /\ answerer[c].pc = "send"
    /\ ask' = [ask EXCEPT ![answerer[c].of].answer =
                 IF ask[answerer[c].of].pc = "wait" THEN answerer[c].decision ELSE @]
    /\ answerer' = [answerer EXCEPT ![c].pc = "read"]
    /\ UNCHANGED <<pending, resolved, outcome, present, shown, errors, up>>

Send(c) ==
    /\ answerer[c].pc = "send"
    /\ ask' = [ask EXCEPT ![answerer[c].of].answer = answerer[c].decision]
    /\ answerer' = [answerer EXCEPT ![c].pc = "read"]
    /\ UNCHANGED <<pending, resolved, outcome, present, shown, errors, up>>

AnswerRead(c) ==
    /\ answerer[c].pc = "read"
    /\ answerer' = [answerer EXCEPT ![c] = [@ EXCEPT !.pc = "set",
                                             !.views = PendingOf(SessionOf[answerer[c].of])]]
    /\ UNCHANGED <<pending, ask, resolved, outcome, present, shown, errors, up>>

AnswerSet(c) ==
    /\ answerer[c].pc = "set"
    /\ SetPending(SessionOf[answerer[c].of], answerer[c].views)
    /\ answerer' = [answerer EXCEPT ![c] = Idle]
    /\ UNCHANGED <<pending, ask, resolved, outcome, present, errors, up>>

-----------------------------------------------------------------------------
(* The environment.                                                        *)

\* The first subscription.open of a session makes its continuity state.
Open(s) ==
    /\ up /\ ~present[s]
    /\ present' = [present EXCEPT ![s] = TRUE]
    /\ UNCHANGED <<pending, ask, answerer, resolved, outcome, shown, errors, up>>

\* The host ends: from here on any task may be dropped where it waits.
Shutdown ==
    /\ up' = FALSE
    /\ UNCHANGED <<pending, ask, answerer, resolved, outcome, present, shown, errors>>

\* The handler of an answer is dropped, and with it the sender it still holds.
DropAnswer(c) ==
    /\ ~up /\ answerer[c].pc # "idle"
    /\ ask' = IF answerer[c].pc \in {"record", "send"}
                THEN [ask EXCEPT ![answerer[c].of].answer = "dropped"] ELSE ask
    /\ answerer' = [answerer EXCEPT ![c] = Idle]
    /\ UNCHANGED <<pending, resolved, outcome, present, shown, errors, up>>

AskStep(p) == AskRead(p) \/ AskSet(p) \/ AskReturn(p)
AnswerStep(c) == RecordOutcome(c) \/ Send(c) \/ AnswerRead(c) \/ AnswerSet(c)

-----------------------------------------------------------------------------
(* What the hub promises.                                                  *)

HubType ==
    /\ pending \subseteq Calls
    /\ ask \in [Calls -> Asking]
    /\ answerer \in [Clients -> Answering]
    /\ resolved \in [Calls -> Seq(Decisions)]
    /\ outcome \in [Calls -> Record]
    /\ present \in [Sessions -> BOOLEAN]
    /\ shown \in [Sessions -> SUBSET Calls]
    /\ errors \in 0 .. MaxErrors
    /\ up \in BOOLEAN

\* A prompt in the table is one a turn waits for, and a turn that waits can
\* still be answered, or its answer is on the way: no prompt outlives its turn,
\* and no turn waits for a prompt that nobody can see.
PromptIsLive ==
    up => \A p \in Calls :
        /\ p \in pending => ask[p].pc \in {"read", "set", "wait"} /\ ask[p].answer = "none"
        /\ ask[p].pc \in {"read", "set", "wait"} /\ p \notin pending =>
             \/ ask[p].answer \in Decisions
             \/ \E c \in Clients : answerer[c].of = p /\ answerer[c].pc \in {"record", "send"}

\* An answer that was accepted reaches the turn, also when it overtakes the
\* turn's own publication of the prompt.
AnswerReaches == \A p \in Calls : resolved[p] # <<>> ~> ask[p].pc \in {"done", "gone"}

\* "The request becomes a pending interaction (visible via interaction.query and
\* the continuity snapshot's interactionsPending)": when nobody is publishing, the
\* snapshot of a session shows the prompts that are pending, and no others.
\* The code does not keep it: README, Findings.
SnapshotShowsPrompts ==
    \A s \in Sessions :
        /\ present[s] /\ up
        /\ \A p \in Calls : SessionOf[p] = s => ask[p].pc \notin {"read", "set"}
        /\ \A c \in Clients : answerer[c].pc # "idle" => SessionOf[answerer[c].of] # s
        => shown[s] = PendingOf(s)

-----------------------------------------------------------------------------
(* The inductive invariant behind PromptIsLive and OneDecision.            *)

\* A prompt in the table has no answer; a prompt that was entered is there or was
\* taken; one that was not entered has no answer.
TableIsOpenPrompts ==
    \A p \in Calls :
        /\ p \in pending => resolved[p] = <<>>
        /\ ask[p].pc = "unasked" <=> p \notin pending /\ resolved[p] = <<>>

\* Who took a prompt took it alone: his is the answer that resolved it.
TakersAgree ==
    /\ \A c \in Clients : answerer[c].pc # "idle" =>
         answerer[c].of \in Calls /\ resolved[answerer[c].of] = <<answerer[c].decision>>
    /\ \A c, d \in Clients :
         answerer[c].pc # "idle" /\ answerer[d].pc # "idle" /\ answerer[c].of = answerer[d].of
         => c = d

Holds(c, p) == answerer[c].of = p /\ answerer[c].pc \in {"record", "send"}

\* The channel of a prompt is empty exactly until the one who took it sent or
\* vanished; what arrives is the answer that resolved the prompt.
ChannelIsAnswer ==
    \A p \in Calls :
        /\ ask[p].answer = "none" <=> resolved[p] = <<>> \/ \E c \in Clients : Holds(c, p)
        /\ ask[p].answer \in Decisions => resolved[p] = <<ask[p].answer>>

\* A turn goes on with an answer; only a shutdown leaves a prompt without its
\* turn, or a turn without its answerer.
WaitsAreOver ==
    \A p \in Calls :
        /\ ask[p].pc = "done" => ask[p].answer # "none"
        /\ ask[p].pc = "gone" \/ ask[p].answer = "dropped" => ~up

\* A prompt is answered once, and its record is of that answer.
OneAnswer ==
    \A p \in Calls :
        /\ Len(resolved[p]) <= 1
        /\ outcome[p] \in Decisions => resolved[p] = <<outcome[p]>>

HubFacts ==
    TableIsOpenPrompts /\ TakersAgree /\ ChannelIsAnswer /\ WaitsAreOver /\ OneAnswer
====
