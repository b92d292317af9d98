---- MODULE TurnCoordinator ----
(***************************************************************************)
(* The key path of the host: a connection's turn.start is admitted to a    *)
(* session, runs on a detached drain task and is finalized into the store. *)
(*                                                                         *)
(* Two kinds of process take steps.  A client is one connection: it has at *)
(* most one request in flight and walks through begin_turn, whose every    *)
(* lock acquisition is a step of its own.  A turn is one drain task: it    *)
(* runs the backend's stream, persists the run's events one by one under   *)
(* the session's lock, and releases the session.                           *)
(*                                                                         *)
(* In memory: active, the table of running turns; loaded and msgs, the     *)
(* session managers and their conversations; holder, who holds a session   *)
(* manager's lock across awaits; the requests and the turns.  On disk:     *)
(* catalog (is the session there and not archived), chain (the admission   *)
(* rows), ledger and terminals (the runtime_events table: the rows that    *)
(* carry conversation, per session in rowid order, and the terminal rows). *)
(***************************************************************************)
EXTENDS Integers, Sequences, FiniteSets

CONSTANTS
    Sessions,    \* session ids
    Clients,     \* connections to the host
    MayUse,      \* which connection starts turns on which session
    MaxTurns,    \* bound: turns admitted in a behaviour
    MaxReplies,  \* bound: conversation entries one run emits after its user event
    KeepRecent,  \* how many messages survive a compaction
    MaxClock,    \* bound: seconds that pass
    MaxCrashes   \* bound: host processes that die

ASSUME CoordinatorAssumption ==
    /\ Sessions # {}
    /\ MayUse \subseteq Clients \X Sessions
    /\ MaxTurns \in Nat \ {0}
    /\ MaxReplies \in Nat
    /\ KeepRecent \in Nat \ {0}
    /\ MaxClock \in Nat \ {0}
    /\ MaxCrashes \in Nat

TurnIds == 1 .. MaxTurns
NoTurn == 0

\* Messages of a conversation: which turn's user said it, which turn's run
\* replied, or the summary that a compaction leaves in place of a prefix.  A
\* reply is one step of the backend: an event that is one message.
Message == [role : {"user", "reply", "summary"}, turn : TurnIds \cup {NoTurn}]

\* A runtime event's primary key: the user event's id names the invocation,
\* which is numbered per session; a backend numbers its events from 1 again
\* in each turn, and marks the terminals of a failed and of a stopped run; the
\* runner invents a terminal for a stream without one.
EventId ==
    [source : {"user", "backend", "error", "abort", "missing"}, number : Nat]

ConversationRow == [id : EventId, run : Nat, role : {"user", "reply"}, turn : TurnIds]
TerminalRow == [id : EventId, session : Sessions, run : Nat, turn : TurnIds]

\* One row of root_admission_chain.  "turn" is the N of turn-N and run-N,
\* "prev" the N of previous_root_turn_id (0: none), "by" the admission that
\* wrote the row: later admissions insert later rows, so it orders rowids.
AdmissionRow ==
    [session : Sessions, turn : Nat, prev : Nat, at : 1 .. MaxClock, by : TurnIds]

VARIABLES
    catalog,    \* [Sessions -> {"open", "closed"}]: closed is archived or absent
    active,     \* [Sessions -> TurnIds \cup {NoTurn}]: the coordinator's active table
    loaded,     \* the sessions whose manager is in memory
    msgs,       \* [Sessions -> Seq(Message)]: the session managers' conversations
    holder,     \* [Sessions -> TurnIds \cup {NoTurn}]: who is inside finalize_turn
    chain,      \* set of AdmissionRow: the durable admission chain
    ledger,     \* [Sessions -> Seq(ConversationRow)]: durable conversation events
    terminals,  \* set of TerminalRow: durable terminal events
    req,        \* [Clients -> Request]: each connection's request in flight
    turn,       \* [TurnIds -> Turn]: each drain task
    admitted,   \* how many turns were admitted so far
    clock,      \* the wall clock, in seconds
    crashes     \* how many times the host died

store == <<catalog, chain, ledger, terminals>>
managers == <<loaded, msgs, holder>>
vars == <<catalog, active, loaded, msgs, holder, chain, ledger, terminals,
          req, turn, admitted, clock, crashes>>

Request ==
    [pc : {"idle", "active", "catalog", "resolve", "tip", "admit", "spawn"},
     session : Sessions, n : Nat, prev : Nat, since : 1 .. MaxClock,
     turn : TurnIds \cup {NoTurn}]

Phases == {"unused", "admitted", "spawned", "running", "ended", "saving",
           "committed", "finished", "killed"}

\* How a backend's stream ends: with one of its terminals, or without one, in
\* which case the text that is still pending may be cut from the conversation.
Outcomes == {"completed", "failed", "aborted", "missing", "cut"}

\* "told" is the N the client was answered, "run" the N the session manager
\* gave the run, "input" the session's messages the run started from.
Turn ==
    [phase : Phases, session : Sessions, told : Nat, run : Nat,
     input : Seq(Message), compacted : BOOLEAN, replies : Nat, saved : Nat,
     stop : BOOLEAN, outcome : Outcomes \cup {"none"}]

LivePhases == {"spawned", "running", "ended", "saving", "committed"}
Live(t) == turn[t].phase \in LivePhases

AnySession == CHOOSE s \in Sessions : TRUE
Idle == [pc |-> "idle", session |-> AnySession, n |-> 0, prev |-> 0,
         since |-> 1, turn |-> NoTurn]
UnusedTurn == [phase |-> "unused", session |-> AnySession, told |-> 0, run |-> 0,
               input |-> <<>>, compacted |-> FALSE, replies |-> 0, saved |-> 0,
               stop |-> FALSE, outcome |-> "none"]

Init ==
    /\ catalog = [s \in Sessions |-> "open"]
    /\ active = [s \in Sessions |-> NoTurn]
    /\ loaded = {}
    /\ msgs = [s \in Sessions |-> <<>>]
    /\ holder = [s \in Sessions |-> NoTurn]
    /\ chain = {}
    /\ ledger = [s \in Sessions |-> <<>>]
    /\ terminals = {}
    /\ req = [c \in Clients |-> Idle]
    /\ turn = [t \in TurnIds |-> UnusedTurn]
    /\ admitted = 0
    /\ clock = 1
    /\ crashes = 0

-----------------------------------------------------------------------------
(* The store.                                                              *)

Rows(s) == {r \in chain : r.session = s}

\* The row ORDER BY admitted_at DESC LIMIT 1 returns.  The index lists rows of
\* one second in rowid order, so the oldest of them comes first.
Tip(s) == CHOOSE r \in Rows(s) :
            \A q \in Rows(s) : r.at > q.at \/ (r.at = q.at /\ r.by <= q.by)

\* Mutant: a missing tip is not told from a row.
TipTurnUnset(s) == IF Rows(s) = {} THEN -1 ELSE Tip(s).turn

TipTurn(s) == IF Rows(s) = {} THEN 0 ELSE Tip(s).turn

\* Mutant: the primary key is the session alone.
ExtendOnePerSession(row) == {r \in chain : r.session # row.session} \cup {row}

\* INSERT OR REPLACE under PRIMARY KEY (session_id, turn_id).
Extend(row) ==
    {r \in chain : r.session # row.session \/ r.turn # row.turn} \cup {row}

\* event_id is the primary key of runtime_events, across sessions and runs.
IdTaken(id) ==
    \/ \E s \in Sessions : \E i \in DOMAIN ledger[s] : ledger[s][i].id = id
    \/ \E r \in terminals : r.id = id

HasTerminal(s, run) == \E r \in terminals : r.session = s /\ r.run = run

\* The conversation a resumed session manager rebuilds from the ledger (replies
\* that a lost user event leaves adjacent stay two here; the code joins texts).
Projection(s) ==
    [i \in DOMAIN ledger[s] |-> [role |-> ledger[s][i].role, turn |-> ledger[s][i].turn]]

Summary == [role |-> "summary", turn |-> NoTurn]

-----------------------------------------------------------------------------
(* The client: one turn.start, from the request to the answer.             *)

InFlight == Cardinality({c \in Clients : req[c].pc # "idle"})

StartRequest(c, s) ==
    /\ req[c].pc = "idle"
    /\ <<c, s>> \in MayUse
    /\ admitted + InFlight < MaxTurns
    /\ req' = [req EXCEPT ![c] = [Idle EXCEPT !.pc = "active", !.session = s]]
    /\ UNCHANGED <<catalog, active, managers, chain, ledger, terminals, turn,
                   admitted, clock, crashes>>

Refuse(c) == req' = [req EXCEPT ![c] = Idle]

\* Mutant: the busy check is gone.
CheckNothing(c) ==
    /\ req[c].pc = "active"
    /\ req' = [req EXCEPT ![c].pc = "catalog"]
    /\ UNCHANGED <<catalog, active, managers, chain, ledger, terminals, turn,
                   admitted, clock, crashes>>

\* session_busy when the table has an entry, or on to the catalog.
CheckActive(c) ==
    /\ req[c].pc = "active"
    /\ IF active[req[c].session] # NoTurn
         THEN Refuse(c)
         ELSE req' = [req EXCEPT ![c].pc = "catalog"]
    /\ UNCHANGED <<catalog, active, managers, chain, ledger, terminals, turn,
                   admitted, clock, crashes>>

\* not_found and session_archived, or on to the session manager.
CheckCatalog(c) ==
    /\ req[c].pc = "catalog"
    /\ IF catalog[req[c].session] # "open"
         THEN Refuse(c)
         ELSE req' = [req EXCEPT ![c].pc = "resolve"]
    /\ UNCHANGED <<catalog, active, managers, chain, ledger, terminals, turn,
                   admitted, clock, crashes>>

\* Mutant: the turn is numbered after the messages it follows, not after its own.
ResolveOffByOne(c) ==
    LET s == req[c].session IN
    /\ req[c].pc = "resolve"
    /\ holder[s] = NoTurn
    /\ loaded' = loaded \cup {s}
    /\ msgs' = IF s \in loaded THEN msgs ELSE [msgs EXCEPT ![s] = Projection(s)]
    /\ req' = [req EXCEPT ![c] = [@ EXCEPT !.pc = "tip", !.n = Len(msgs'[s])]]
    /\ UNCHANGED <<catalog, active, holder, chain, ledger, terminals, turn,
                   admitted, clock, crashes>>

\* Get or resume the session manager, and number the turn after its messages.
ResolveIdentity(c) ==
    LET s == req[c].session IN
    /\ req[c].pc = "resolve"
    /\ holder[s] = NoTurn
    /\ loaded' = loaded \cup {s}
    /\ msgs' = IF s \in loaded THEN msgs ELSE [msgs EXCEPT ![s] = Projection(s)]
    /\ req' = [req EXCEPT ![c] = [@ EXCEPT !.pc = "tip", !.n = Len(msgs'[s]) + 1]]
    /\ UNCHANGED <<catalog, active, holder, chain, ledger, terminals, turn,
                   admitted, clock, crashes>>

\* The tip the new admission will name as its predecessor.
ReadTip(c) ==
    /\ req[c].pc = "tip"
    /\ req' = [req EXCEPT ![c] = [@ EXCEPT !.pc = "admit", !.since = clock,
                                          !.prev = TipTurn(req[c].session)]]
    /\ UNCHANGED <<catalog, active, managers, chain, ledger, terminals, turn,
                   admitted, clock, crashes>>

\* The admission row becomes durable, stamped with a second read since the tip.
Admit(c) ==
    LET s == req[c].session
        t == admitted + 1
    IN
    /\ req[c].pc = "admit"
    /\ t \in TurnIds
    /\ \E at \in req[c].since .. clock :
          chain' = Extend([session |-> s, turn |-> req[c].n, prev |-> req[c].prev,
                           at |-> at, by |-> t])
    /\ admitted' = t
    /\ turn' = [turn EXCEPT ![t] = [UnusedTurn EXCEPT !.phase = "admitted",
                                       !.session = s, !.told = req[c].n]]
    /\ req' = [req EXCEPT ![c] = [@ EXCEPT !.pc = "spawn", !.turn = t]]
    /\ UNCHANGED <<catalog, active, managers, ledger, terminals, clock, crashes>>

\* Enter the turn in the table, spawn its drain task and answer the client.
\* An entry that is already there is replaced, not cancelled.
Spawn(c) ==
    LET t == req[c].turn
        s == req[c].session
    IN
    /\ req[c].pc = "spawn"
    /\ active' = [active EXCEPT ![s] = t]
    /\ turn' = [turn EXCEPT ![t].phase = "spawned"]
    /\ req' = [req EXCEPT ![c] = Idle]
    /\ UNCHANGED <<catalog, managers, chain, ledger, terminals, admitted, clock, crashes>>

\* turn.stop: cancel the token of the turn in the table, if there is one.
StopTurn(c, s) ==
    /\ req[c].pc = "idle"
    /\ active[s] # NoTurn
    /\ turn' = [turn EXCEPT ![active[s]].stop = TRUE]
    /\ UNCHANGED <<catalog, active, managers, chain, ledger, terminals, req,
                   admitted, clock, crashes>>

\* A lifecycle request opens or closes (archives, removes) a session.
SetLifecycle(s) ==
    /\ catalog' = [catalog EXCEPT ![s] = IF @ = "open" THEN "closed" ELSE "open"]
    /\ UNCHANGED <<active, managers, chain, ledger, terminals, req, turn,
                   admitted, clock, crashes>>

-----------------------------------------------------------------------------
(* The turn: the drain task, from its first poll to the release.           *)

Become(t, phase) == [turn[t] EXCEPT !.phase = phase]

\* Mutant: the user message goes to the run but not to the session.
StartWithoutPush(t) ==
    LET s == turn[t].session
        m == Append(msgs[s], [role |-> "user", turn |-> t])
    IN
    /\ turn[t].phase = "spawned"
    /\ holder[s] = NoTurn
    /\ turn' = [turn EXCEPT ![t] = [Become(t, "running") EXCEPT !.run = Len(m), !.input = m]]
    /\ UNCHANGED <<catalog, active, managers, chain, ledger, terminals, req,
                   admitted, clock, crashes>>

\* Push the user message and number the run after the messages, under the
\* session's lock; the stream then compacts its own copy if it is too long.
StartRun(t) ==
    LET s == turn[t].session
        m == Append(msgs[s], [role |-> "user", turn |-> t])
    IN
    /\ turn[t].phase = "spawned"
    /\ holder[s] = NoTurn
    /\ msgs' = [msgs EXCEPT ![s] = m]
    /\ \E compact \in {b \in BOOLEAN : b => Len(m) > KeepRecent} :
          turn' = [turn EXCEPT ![t] = [Become(t, "running") EXCEPT
                     !.run = Len(m), !.input = m, !.compacted = compact]]
    /\ UNCHANGED <<catalog, active, loaded, holder, chain, ledger, terminals, req,
                   admitted, clock, crashes>>

\* The backend streams one more entry of the conversation.
Reply(t) ==
    /\ turn[t].phase = "running"
    /\ turn[t].replies < MaxReplies
    /\ turn' = [turn EXCEPT ![t].replies = @ + 1]
    /\ UNCHANGED <<catalog, active, managers, chain, ledger, terminals, req,
                   admitted, clock, crashes>>

\* The stream ends: by itself, with a terminal or without, or because the
\* backend saw the cancelled token (it looks only between steps, so a stopped
\* run may still end in another way).
EndRun(t) ==
    /\ turn[t].phase = "running"
    /\ \E o \in Outcomes :
          /\ o = "aborted" => turn[t].stop
          /\ o = "cut" => turn[t].replies > 0
          /\ turn' = [turn EXCEPT ![t] = [Become(t, "ended") EXCEPT !.outcome = o]]
    /\ UNCHANGED <<catalog, active, managers, chain, ledger, terminals, req,
                   admitted, clock, crashes>>

\* finalize_turn takes the session's lock and keeps it until it commits.
BeginFinalize(t) ==
    LET s == turn[t].session IN
    /\ turn[t].phase = "ended"
    /\ holder[s] = NoTurn
    /\ holder' = [holder EXCEPT ![s] = t]
    /\ turn' = [turn EXCEPT ![t].phase = "saving"]
    /\ UNCHANGED <<catalog, active, loaded, msgs, chain, ledger, terminals, req,
                   admitted, clock, crashes>>

\* The i-th conversation event of a run: the user event, then the replies.
Event(t, i) ==
    [id |-> IF i = 1 THEN [source |-> "user", number |-> turn[t].run]
                     ELSE [source |-> "backend", number |-> i - 1],
     run |-> turn[t].run,
     role |-> IF i = 1 THEN "user" ELSE "reply",
     turn |-> t]

\* An INSERT whose id is taken fails, and finalize_turn ignores the failure.
SaveEvent(t) ==
    LET s == turn[t].session
        e == Event(t, turn[t].saved + 1)
    IN
    /\ turn[t].phase = "saving"
    /\ turn[t].saved <= turn[t].replies
    /\ ledger' = IF IdTaken(e.id) THEN ledger ELSE [ledger EXCEPT ![s] = Append(@, e)]
    /\ turn' = [turn EXCEPT ![t].saved = @ + 1]
    /\ UNCHANGED <<catalog, active, managers, chain, terminals, req, admitted,
                   clock, crashes>>

HasNoTerminal(t) == turn[t].outcome \in {"missing", "cut"}

TerminalId(t) ==
    CASE turn[t].outcome = "completed" -> [source |-> "backend", number |-> turn[t].replies + 1]
      [] turn[t].outcome = "failed" -> [source |-> "error", number |-> turn[t].replies + 1]
      [] turn[t].outcome = "aborted" -> [source |-> "abort", number |-> turn[t].replies + 1]
      [] OTHER -> [source |-> "missing", number |-> turn[t].run]

Terminal(t) ==
    [id |-> TerminalId(t), session |-> turn[t].session, run |-> turn[t].run, turn |-> t]

\* Compaction keeps a summary and the most recent messages.
Split(m) == IF Len(m) > KeepRecent THEN Len(m) - KeepRecent ELSE 0
Compact(m) == <<Summary>> \o SubSeq(m, Split(m) + 1, Len(m))

Base(t) == IF turn[t].compacted THEN Compact(turn[t].input) ELSE turn[t].input

\* The replies of a run that its conversation keeps.
Kept(t) == IF turn[t].outcome = "cut" THEN turn[t].replies - 1 ELSE turn[t].replies

\* The conversation a run hands back with its Done event.
Conversation(t) ==
    Base(t) \o [i \in 1 .. Kept(t) |-> [role |-> "reply", turn |-> t]]

\* Mutant: only a terminal that the backend emitted is saved, and it can be
\* told apart by the conversation it carries: nothing is ensured.
FinalizeWithoutEnsure(t) ==
    LET s == turn[t].session
        x == Terminal(t)
    IN
    /\ turn[t].phase = "saving"
    /\ turn[t].saved = turn[t].replies + 1
    /\ terminals' = IF IdTaken(x.id) \/ HasNoTerminal(t)
                      THEN terminals
                      ELSE terminals \cup {x}
    /\ msgs' = [msgs EXCEPT ![s] = Conversation(t)]
    /\ holder' = [holder EXCEPT ![s] = NoTurn]
    /\ turn' = [turn EXCEPT ![t].phase = "committed"]
    /\ UNCHANGED <<catalog, active, loaded, chain, ledger, req, admitted, clock, crashes>>

\* Mutant: the conversation is saved but not carried into the session.
FinalizeForgets(t) ==
    /\ turn[t].phase = "saving"
    /\ turn[t].saved = turn[t].replies + 1
    /\ terminals' = terminals \cup {Terminal(t)}
    /\ holder' = [holder EXCEPT ![turn[t].session] = NoTurn]
    /\ turn' = [turn EXCEPT ![t].phase = "committed"]
    /\ UNCHANGED <<catalog, active, loaded, msgs, chain, ledger, req, admitted, clock, crashes>>

\* Mutant: the session's lock is never freed.
FinalizeKeepsLock(t) ==
    /\ turn[t].phase = "saving"
    /\ turn[t].saved = turn[t].replies + 1
    /\ terminals' = terminals \cup {Terminal(t)}
    /\ msgs' = [msgs EXCEPT ![turn[t].session] = Conversation(t)]
    /\ turn' = [turn EXCEPT ![t].phase = "committed"]
    /\ UNCHANGED <<catalog, active, loaded, holder, chain, ledger, req, admitted, clock,
                   crashes>>

\* The terminal is appended with the run's events when the backend emitted it,
\* and ensured when the run has none; an id that is taken fails both, silently.
\* Then the run's conversation replaces the session's, and the lock is freed.
Finalize(t) ==
    LET s == turn[t].session
        x == Terminal(t)
    IN
    /\ turn[t].phase = "saving"
    /\ turn[t].saved = turn[t].replies + 1
    /\ terminals' = IF \/ IdTaken(x.id)
                       \/ HasNoTerminal(t) /\ HasTerminal(s, turn[t].run)
                      THEN terminals
                      ELSE terminals \cup {x}
    /\ msgs' = [msgs EXCEPT ![s] = Conversation(t)]
    /\ holder' = [holder EXCEPT ![s] = NoTurn]
    /\ turn' = [turn EXCEPT ![t].phase = "committed"]
    /\ UNCHANGED <<catalog, active, loaded, chain, ledger, req, admitted, clock, crashes>>

\* What a drain task leaves behind: its inputs and its token are dropped.
Remains(t, phase) ==
    [Become(t, phase) EXCEPT !.input = <<>>, !.stop = FALSE, !.saved = 0]

\* Mutant: the drain task ends without removing the entry.
ReleaseNothing(t) ==
    /\ turn[t].phase = "committed"
    /\ turn' = [turn EXCEPT ![t] = Remains(t, "finished")]
    /\ UNCHANGED <<catalog, active, managers, chain, ledger, terminals, req, admitted,
                   clock, crashes>>

\* The drain task's last statement removes the session's entry, whosever it is.
Release(t) ==
    /\ turn[t].phase = "committed"
    /\ active' = [active EXCEPT ![turn[t].session] = NoTurn]
    /\ turn' = [turn EXCEPT ![t] = Remains(t, "finished")]
    /\ UNCHANGED <<catalog, managers, chain, ledger, terminals, req, admitted,
                   clock, crashes>>

-----------------------------------------------------------------------------
(* The environment: time, and the death of the host process.               *)

Tick ==
    /\ clock < MaxClock
    /\ clock' = clock + 1
    /\ UNCHANGED <<catalog, active, managers, chain, ledger, terminals, req, turn,
                   admitted, crashes>>

\* A new host process starts with the database and nothing else.
Crash ==
    /\ crashes < MaxCrashes
    /\ crashes' = crashes + 1
    /\ active' = [s \in Sessions |-> NoTurn]
    /\ loaded' = {}
    /\ msgs' = [s \in Sessions |-> <<>>]
    /\ holder' = [s \in Sessions |-> NoTurn]
    /\ req' = [c \in Clients |-> Idle]
    /\ turn' = [t \in TurnIds |->
                  IF Live(t) \/ turn[t].phase = "admitted"
                    THEN Remains(t, "killed") ELSE turn[t]]
    /\ UNCHANGED <<store, admitted, clock>>

RequestStep(c) ==
    \/ CheckActive(c)
    \/ CheckCatalog(c)
    \/ ResolveIdentity(c)
    \/ ReadTip(c)
    \/ Admit(c)
    \/ Spawn(c)

DrainStep(t) ==
    \/ StartRun(t)
    \/ Reply(t)
    \/ EndRun(t)
    \/ BeginFinalize(t)
    \/ SaveEvent(t)
    \/ Finalize(t)
    \/ Release(t)

\* What happens in a host that is not killed, within a second.
SteadyNext ==
    \/ \E c \in Clients, s \in Sessions : StartRequest(c, s) \/ StopTurn(c, s)
    \/ \E c \in Clients : RequestStep(c)
    \/ \E t \in TurnIds : DrainStep(t)
    \/ \E s \in Sessions : SetLifecycle(s)

Next == SteadyNext \/ Tick \/ Crash

Spec == Init /\ [][Next]_vars

\* The runtime of a host that is not killed polls every spawned task and every
\* request to its end.
FairSpec ==
    /\ Init /\ [][SteadyNext]_vars
    /\ \A c \in Clients : WF_vars(RequestStep(c))
    /\ \A t \in TurnIds : WF_vars(DrainStep(t))

-----------------------------------------------------------------------------
(* What the coordinator promises.                                          *)

TypeOK ==
    /\ catalog \in [Sessions -> {"open", "closed"}]
    /\ active \in [Sessions -> TurnIds \cup {NoTurn}]
    /\ loaded \subseteq Sessions
    /\ msgs \in [Sessions -> Seq(Message)]
    /\ holder \in [Sessions -> TurnIds \cup {NoTurn}]
    /\ chain \subseteq AdmissionRow
    /\ ledger \in [Sessions -> Seq(ConversationRow)]
    /\ terminals \subseteq TerminalRow
    /\ req \in [Clients -> Request]
    /\ turn \in [TurnIds -> Turn]
    /\ admitted \in 0 .. MaxTurns
    /\ clock \in 1 .. MaxClock
    /\ crashes \in 0 .. MaxCrashes

\* Turns of different requests overlap in one session when two connections
\* pass the busy check together, and a finishing turn removes an entry that may
\* not be its own.  Even so the table never names a turn that has ended: a
\* turn.stop that is answered request_stop reaches a turn that still runs.
EntryIsLive ==
    \A s \in Sessions : active[s] # NoTurn =>
        Live(active[s]) /\ turn[active[s]].session = s

\* A turn runs only after its admission is durable, and its row outlives every
\* later admission and every crash (it may be replaced, never lost): recovery
\* finds the turn that ran.
RunIsAdmitted ==
    \A t \in TurnIds : turn[t].phase # "unused" =>
        \E r \in chain : r.session = turn[t].session /\ r.turn = turn[t].told

\* The admission chain has no dangling link: a row's predecessor is a row of
\* the same session, whatever was replaced and whoever raced in between.
ChainClosed ==
    \A r \in chain : r.prev # 0 =>
        \E q \in chain : q.session = r.session /\ q.turn = r.prev

\* A finalized run has a durable terminal, unless the terminal's event id was
\* taken by another run's event, the one way the append can be lost.
TerminalAccounted ==
    \A t \in TurnIds : turn[t].phase \in {"committed", "finished"} =>
        \/ HasTerminal(turn[t].session, turn[t].run)
        \/ IdTaken(Terminal(t).id)

\* A session one connection uses: no two connections start turns on it.
Owned(s) == \A c, d \in Clients : <<c, s>> \in MayUse /\ <<d, s>> \in MayUse => c = d

\* "One turn per session at a time", as the coordinator's header has it.
OneTurnPerSession ==
    \A t, u \in TurnIds :
        Live(t) /\ Live(u) /\ turn[t].session = turn[u].session => t = u

\* The same where one connection uses the session: its requests are served one
\* after another, so the check and the entry cannot be separated by a rival's.
OneTurnPerOwnedSession ==
    \A t, u \in TurnIds :
        /\ Live(t) /\ Live(u) /\ turn[t].session = turn[u].session
        /\ Owned(turn[t].session)
        => t = u

\* ... and the run the client was told about is the run that is recorded.
ToldIsRun ==
    \A t \in TurnIds :
        Owned(turn[t].session) /\ turn[t].run # 0 => turn[t].run = turn[t].told

\* ... and no message is lost: what a run will replace when it commits is what
\* it started from.
NoLostUpdate ==
    \A t \in TurnIds :
        /\ Owned(turn[t].session)
        /\ turn[t].phase \in {"running", "ended", "saving"}
        => msgs[turn[t].session] = turn[t].input

Subsequence(a, b) ==
    \E f \in [DOMAIN a -> DOMAIN b] :
        /\ \A i, j \in DOMAIN a : i < j => f[i] < f[j]
        /\ \A i \in DOMAIN a : a[i] = b[f[i]]

\* ... and the ledger says nothing the live conversation does not: between
\* turns, as long as nothing was compacted or cut, a host that died now would
\* resume a part of the conversation, in its order.
ResumeIsPartOfConversation ==
    \A s \in loaded :
        /\ Owned(s)
        /\ \A t \in TurnIds : turn[t].session = s =>
             /\ turn[t].phase \notin {"running", "ended", "saving"}
             /\ ~turn[t].compacted
             /\ turn[t].outcome # "cut"
        => Subsequence(Projection(s), msgs[s])

\* Every request is answered.
RequestAnswered == \A c \in Clients : req[c].pc # "idle" ~> req[c].pc = "idle"

-----------------------------------------------------------------------------
(* The inductive invariant behind EntryIsLive, RunIsAdmitted, ChainClosed, *)
(* OneTurnPerOwnedSession, ToldIsRun, NoLostUpdate and                     *)
(* ResumeIsPartOfConversation.                                             *)

\* Turns are numbered as they are admitted.
Fresh == \A t \in TurnIds : t > admitted => turn[t].phase = "unused"

\* A request that is about to spawn owns an admitted turn nobody else owns.
RequestOwnsAdmission ==
    /\ \A c \in Clients : req[c].pc = "spawn" =>
         /\ req[c].turn \in TurnIds
         /\ turn[req[c].turn].phase = "admitted"
         /\ turn[req[c].turn].session = req[c].session
    /\ \A c, d \in Clients :
         req[c].pc = "spawn" /\ req[d].pc = "spawn" /\ req[c].turn = req[d].turn => c = d

\* The predecessor a request read is still a row when the request admits.
RequestPredecessor ==
    \A c \in Clients : req[c].pc = "admit" /\ req[c].prev # 0 =>
        \E q \in chain : q.session = req[c].session /\ q.turn = req[c].prev

\* Requests keep to the sessions their connection uses.
RequestsAllowed ==
    \A c \in Clients : req[c].pc # "idle" => <<c, req[c].session>> \in MayUse

\* In an owned session the table is exact, and empty while a request that
\* passed the busy check is on its way.
OwnedTableExact ==
    \A s \in Sessions : Owned(s) =>
        /\ \A t \in TurnIds : Live(t) /\ turn[t].session = s => active[s] = t
        /\ \A c \in Clients :
             req[c].session = s /\ req[c].pc \notin {"idle", "active"} => active[s] = NoTurn

\* An admitted turn is about to be spawned by the request that admitted it.
AdmittedIsRequested ==
    \A t \in TurnIds : turn[t].phase = "admitted" =>
        \E c \in Clients : req[c].pc = "spawn" /\ req[c].turn = t

\* In an owned session the number a request was given, and the one its turn was
\* told, is that of the message the turn will push.
OwnedIsNumbered ==
    \A s \in Sessions : Owned(s) =>
        /\ \A c \in Clients :
             req[c].session = s /\ req[c].pc \in {"tip", "admit"} => req[c].n = Len(msgs[s]) + 1
        /\ \A t \in TurnIds :
             turn[t].session = s /\ turn[t].phase \in {"admitted", "spawned"}
             => turn[t].told = Len(msgs[s]) + 1

\* The places of a turn that runs: what it started from is what is there.
InRun == {"running", "ended", "saving"}

\* A turn's fields are set when their step comes, not before.
TurnFields(t) ==
    LET k == turn[t] IN
    /\ k.phase = "unused" => k = UnusedTurn
    /\ k.phase \in {"admitted", "spawned"} => ~k.compacted /\ k.replies = 0
    /\ k.phase \in {"admitted", "spawned", "running"} => k.outcome = "none"
    /\ k.phase \in {"admitted", "spawned", "running", "ended"} => k.saved = 0
    /\ k.phase = "saving" => k.saved <= k.replies + 1
    /\ k.phase \in InRun =>
         k.input # <<>> /\ k.input[Len(k.input)] = [role |-> "user", turn |-> t]

\* a is a subsequence of the first n messages of b.
PartOf(a, b, n) ==
    \E f \in [DOMAIN a -> 1 .. n] :
        /\ \A i, j \in DOMAIN a : i < j => f[i] < f[j]
        /\ \A i \in DOMAIN a : a[i] = b[f[i]]

\* What the run of a turn has said, and the session before it.
Speech(t) == turn[t].input \o [i \in 1 .. turn[t].replies |-> [role |-> "reply", turn |-> t]]

Pristine(s) ==
    \A t \in TurnIds : turn[t].session = s => ~turn[t].compacted /\ turn[t].outcome # "cut"

\* The ledger of an owned session is a part of its conversation; while a run of it
\* is saved, of what the run has saved so far.
ResumesPart(s) ==
    /\ (\A t \in TurnIds : turn[t].session = s => turn[t].phase \notin InRun) =>
         PartOf(Projection(s), msgs[s], Len(msgs[s]))
    /\ \A t \in TurnIds : turn[t].session = s /\ turn[t].phase \in InRun =>
         PartOf(Projection(s), Speech(t), Len(turn[t].input) + turn[t].saved - 1)

ResumeFacts ==
    /\ \A t \in TurnIds : TurnFields(t)
    /\ \A s \in loaded : Owned(s) /\ Pristine(s) => ResumesPart(s)

EntryFacts == EntryIsLive /\ Fresh /\ RequestOwnsAdmission
ChainFacts == ChainClosed /\ RequestPredecessor /\ RunIsAdmitted
OwnedFacts == RequestsAllowed /\ OwnedTableExact
ConversationFacts == AdmittedIsRequested /\ OwnedIsNumbered /\ ToldIsRun /\ NoLostUpdate
CoordinatorInv ==
    TypeOK /\ EntryFacts /\ ChainFacts /\ OwnedFacts /\ ConversationFacts /\ ResumeFacts
====
