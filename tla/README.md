# A verification model of meepo

meepo is an agent runtime: a host daemon (`meepo-host`) owns a storage root, clients connect
to it over a Unix socket, start turns of conversations, watch them and answer permission
prompts; a turn runs a language model and its tools and leaves its events in SQLite. This
directory holds TLA+ models of the parts of it that carry state and concurrency, the TLC
configurations that check them on small instances, and TLAPS proofs of what holds for every
instance. Paths below are relative to `src/crates/`.

Contents: [inventory](#inventory), [modules](#modules), [runs](#runs),
[bounds](#bounds), [fairness](#fairness), [proofs](#proofs), [findings](#findings),
[abstractions](#abstractions), [not modelled](#not-modelled), [plan](#plan).

## Inventory

| part | state it keeps | operations | talks to |
|---|---|---|---|
| Turn coordinator, `meepo-host/src/server/turn/coordinator.rs` | `active`: session to running turn | `turn.start` (`begin_turn` and a detached drain task), `turn.stop`, `turn.resume.query`, `turn.resume.start` | composition (session managers), storage, continuity, the backend |
| Session manager, runner, projection, compaction, `meepo-runtime/src` | the conversation of a session, its compaction summary, its status | `resume`, `start_turn_streaming`, `finalize_turn`, `run_stream`, `compact` | backend, storage |
| Storage, `meepo-storage/src/lib.rs` | SQLite tables: sessions, admissions, runtime events, permissions, operations, claims, task runs | inserts with `OR IGNORE`, `OR REPLACE` or plain; revision-checked updates | everybody |
| Continuity coordinator, `meepo-host/src/continuity` | per session: a snapshot with its revision, the subscribers and their channels | `open_subscription`, `close_subscription`, `accept_runtime_event`, `set_pending_interactions` | drain task, hub, forward tasks |
| Connection loop, `server/connection.rs` | the request being served, a forward task per subscription | hello, dispatch, `subscription.open` and `close` | dispatcher, continuity, outbound writer |
| Outbound writer, `transport/outbound.rs` | a queue with a frame and a byte limit, the closed flag, a drain task | `enqueue`, `close` | the socket |
| Interaction hub, `server/interaction.rs` | `pending`: prompts that wait | `ask`, `answer`, `pending_for_session`, `publish_pending` | gate, storage, continuity |
| Agent loop, `meepo-providers/src/aimux_backend.rs` | the step, the step's calls, the conversation of the run | `send_cancellable`, `dispatch_tool_call` | provider, gate, tools, storage |
| Permission policy and gate, `meepo-core/src/{permission,interaction}.rs` | none | `policy_decision`, `classify_tool_use`, `check` | agent loop, hub |
| Host process, `bin/host.rs`, `server/kernel.rs`, `server/registration.rs` | lifecycle, connection count, the root's lock, the registration record, the socket file | bind, `try_acquire`, `write_registration`, accept, idle shutdown, signals, drain, `remove_registration` | the file system, clients |
| Client, `meepo-host/src/client` | one connection attempt | `connect_or_spawn`, `HostClient::connect`, `request` | registration record, host |
| Session catalog, `handlers/session.rs` | session rows with a revision | create, patch, `read_marker.set`, `lifecycle.set`, remove | storage |
| Recovery and tool ledger, `meepo-runtime/src/recovery.rs`, `meepo-core/src/tool_ledger_scanner.rs` | none (folds over events) | `scan`, `resolve_recovery`, `classify_operation` | `SessionManager::resume` |
| Headless runs, `meepo-headless/src/lib.rs` | a task's event ledger | `run_task`, `self_check`, `project_task_run` | storage, session manager |
| Tools, `meepo-tools/src` | none; the files of the workspace | read, write, edit, `multi_edit`, `bash`, searches, web, questions | file system, sandbox |
| Sandbox, `meepo-sandbox/src` | the registered backends | `transform`, `build_seatbelt_policy` | the shell tool, the operating system |
| Command line, `meepo-cli/src/main.rs` | the line that is being followed | chat, headless, a single prompt | the host, or a session manager of its own |
| Wire codec, core types | none | encode, decode | |

What is hard in it, and what would make each part correct:

- *Turns.* `begin_turn` looks at `active`, then crosses five awaits before it enters the turn
  there; the session's messages give the turn its identity; `finalize_turn` runs under the
  session's lock, writes event by event, ignores errors, and replaces the conversation; the host
  may die in between, and the next one resumes from what was written. Correct means: the table is
  right about what runs, a session runs one turn, nothing said is lost, the admission chain and
  the ledger survive a crash.
- *Connections.* Three bounded queues in a row (channel, outbound queue, socket), a drop policy,
  and a wake-up protocol whose looks at the queue and at the flag are not one look. Correct means:
  FIFO, no gap a client cannot notice, no lost wake-up, no task left behind.
- *Prompts.* An answer is atomic only in its removal of the prompt; records, delivery and the
  snapshot follow under other locks. Correct means: no tool runs unapproved, one answer
  counts, nobody waits for what cannot come.
- *Hosts.* Candidates share a socket path, and bind it before they know whether they own the root.
  Correct means: one owner, a record that is the owner's, clients that get through or give up,
  hosts that leave.
- *Continuations.* `resume_start` reads the latest admission twice, records a claim for a turn that
  does not exist yet, and then takes the path of `turn.start`, which may refuse it or number it
  otherwise. Correct means: the claim names the turn that runs and counts events that are durable.
- *Catalog rows and task ledgers.* Both are read and then written under another acquisition of the
  store's lock, by clients and processes that do not know of each other. Correct means: nothing that
  its author had not seen is undone; the fold of a ledger is what a run did.
- *Tools.* Calls of several turns read, compute and write back without a lock, a write may fail half
  way, and the shell needs a sandbox that the platform may not have.
- *The chat.* It follows one stream of frames with the snapshots of a session in them, while
  responses come between them and a timer runs. Correct means: the user is asked for the next line,
  and the end he is shown is that of his line.

The hazards, each at its line and with the properties about it, are the `hazards` of
`PROJECT.json`.

## Modules

| module | models | extends |
|---|---|---|
| `TurnCoordinator` | `turn.start` from request to release, `turn.stop`, session managers, the admission chain and the event ledger, crashes | |
| `Continuation` | `turn.resume.query`, `turn.resume.start` and the claims, next to `turn.start` | `TurnCoordinator` |
| `SessionCatalog` | the rows of the catalog, revision-checked patches, the requests that read the revision first, creation and removal | |
| `TaskRun` | headless task runs: processes, attempts, the event ledger they share and its fold, kills | |
| `FrameChannel` | abstract: a FIFO channel that can be closed | |
| `OutboundWriter` | the outbound writer: senders, notifications, drain task, sink errors | |
| `Connection` | the request loop, one session's continuity, subscriptions and their forward tasks | `OutboundWriter` |
| `InteractionHub` | prompts: ask and answer, lock by lock, their records, the snapshot's list | |
| `AgentLoop` | the backend's tool loop, the gate, operation rows, stop, shutdown | `InteractionHub` |
| `ToolLedger` | the ledger's scanner, one action per iteration of its loop, the recovery resolver over its result, and their rules read over the whole ledger at once | |
| `ToolRecovery` | a session's turns as far as their tool calls leave rows, lost appends, crashes, and what a resumed host makes of the ledger | `ToolLedger` |
| `HostElection` | clients in `connect_or_spawn`, host processes from launch to exit, lock, record, socket | |
| `Sandbox` | permission profiles, the sandbox manager, the Seatbelt policy as grants on parameters (operators only) | |
| `Tools` | calls of the file tools and of the shell, step by step, on one file system | `Sandbox` |
| `Chat` | the chat command with its connection, and of the host the turns, the snapshot and the two ways to a client | |
| `MC...` | model values and small definitions for the instances | the module it is named after |
| `...Proofs` | theorems and their proofs | the module it is named after; `ContinuationProofs` is about `TurnCoordinator` too, `ToolLedgerProofs` about `ToolRecovery`, `AgentLoopProofs` about `InteractionHub`, `ConnectionProofs` about `OutboundWriter`; `CommandLineProofs` is about `TaskRun` and `Chat`, the programs of the command line |

How state and steps correspond to the code:

- An action is what happens between two awaits at which another task may see the difference: an
  acquisition of a lock, a statement to SQLite, a message to a channel. `begin_turn` is
  `CheckActive`, `CheckCatalog`, `ResolveIdentity`, `ReadTip`, `Admit`, `Spawn`; the last two
  are separate because another request may come between the admission row and the table entry.
  A drain task is `StartRun`, `Reply`, `EndRun`, `BeginFinalize`, `SaveEvent` for each event,
  `Finalize`, `Release`. `holder` is the session manager's lock over `finalize_turn`, the one
  place where it is held across awaits.
- `chain`, `ledger`, `terminals` are the tables `root_admission_chain` and `runtime_events` with
  the keys that make their inserts replace or fail: the event ids a run uses are numbered per
  turn, and the primary key is global.
- `OutboundWriter` has one action per acquisition of the queue's lock (`Pop`, `FindEmpty`, `Look`,
  `Enqueue`, `Close`) and keeps tokio's `Notify` as a permit; `owed` counts the calls of
  `notify_one` that are due, because they come after the lock is released.
- `Connection` holds the continuity lock over `Publish` and the `DropSlow` steps that follow
  (`dropping` is not empty meanwhile): a forward task may take a frame between the two, which is
  when a closed notice fits into a channel that was full.
- `InteractionHub` separates `AskRead` from `AskSet` and `AnswerRead` from `AnswerSet`:
  `publish_pending` reads under the hub's lock and sets under the continuity coordinator's.
- `AgentLoop` has one action per step of the loop that is visible outside: the request to the
  provider, the stream, and for each call the yield of call and dispatch fact, the operation row,
  the gate, the gate's record, the tool, the result with the row's second version.
- `ToolLedger` keeps the scanner's maps as functions over the call keys: `ops` is `operations` with
  `by_call`, `byOperation` is `by_operation`. After any step they are what `scan_tool_ledger` returns
  for `events`, so an invariant over them is a statement about every ledger.
- `ToolRecovery` has one action per event the backend yields (`Text`, `Call`, `Dispatch`, `Answer`,
  `EndRun`), `Execute` for the tool between dispatch fact and result, and `Save` for each append of
  `finalize_turn`: it scans the event, or loses it when its id is taken. `counter` starts from zero
  in every turn, because the host builds a backend per turn.
- `HostElection` splits bind into unlink and bind, and `remove_registration` into its look and
  its removal; the operating system's part is that a dead process frees its lock and keeps its
  files.

- `Continuation` has one action per read or write of `resume_start`: `RequestResume`, `ReadSource`,
  `CountEvents`, `ReadContent`, `NumberTarget`, `ReadPrefix`, `RecordClaim`; then the request goes on
  as a request of `TurnCoordinator`. `source` remembers, for the properties, which claim a turn
  was admitted under. `RecordClaim` removes the claims that share a unique column with it, as
  `INSERT OR REPLACE` does.
- `SessionCatalog` has the patches that carry a revision as one step (`Update`), those that do not
  (`ReadMarkerSet`, `LifecycleSet`) as two (`Rebase`, `ApplyRebased`), and a creation as two (`Create`, `CreateReadsBack`). `born` and
  `overtaken` are not in the code: they tell the lives of a row apart, and whether a row changed
  since a client saw it.
- `TaskRun` has one action per append to the ledger (`Launch`, `StartAttempt`, `EndAttempt`, `Accept`,
  `Exhaust`) and one for the self-check that asks for a repair; a process numbers its rows by itself.
- `Tools` has a read as one step and a write as two (`Open`, `Fill`), because `tokio::fs::write`
  truncates first. A text is a sequence of words and an edit replaces one word, so "occurs once" and
  "the first occurrence" mean what they mean in the code.
- `Chat` has the frames of the subscription in `channel` and what the client's socket holds in `wire`;
  `LayAside` is `HostClient::request` putting a frame into `streamed` while it waits for its response.

Operators whose comment says *Mutant* are not part of a specification: each is a definition as a
plausible mistake would have it, and `PROJECT.json` says which property it breaks.

## Runs

Passing runs:

| run | instance | what it shows |
|---|---|---|
| `turn_race` | two connections race for one session, one of them has another of its own; two turns | Runs may overlap; even so the active table names only live turns (`EntryIsLive`), a terminal is there or its id was taken (`TerminalAccounted`), and requests are answered (`RequestAnswered`). In the session of its own a connection is told the run's identity (`ToldIsRun`) and loses no message (`NoLostUpdate`), and what a host that died now would resume is part of the conversation (`ResumeIsPartOfConversation`). |
| `continuation` | one connection, three turns and continuations, a crash, two seconds | Where one connection uses a session: one turn at a time, continuations included (`OneTurnPerOwnedSession`); a continuation of a quiet session is the turn its claim names and repeats the claimed run (`ClaimIsExact`); always: what a claim counts is durable (`BoundaryIsDurable`), the admission chain has no dangling link (`ChainClosed`), `TypeOK`. |
| `connection` | one subscription, one other request, three events | A client can rebuild the session from what it gets, whatever is full, dropped or closed (`ClientReconstructs`); the queue keeps to its limits and its byte count is right (`QueueBounded`); the drain task never waits while a frame or a close is unannounced (`NoLostWakeup`); the writer implements `FrameChannel` (`IsFifoChannel`). |
| `tool_loop` | one turn with two calls, two answering clients, three modes, one failing write | No tool runs unapproved (`OnlyApprovedToolsRun`), one answer decides and all records agree with it (`OneDecision`), no prompt outlives its turn and no turn waits for nothing (`PromptIsLive`, `AnswerReaches`), no run ends with an open call, wherever a stop falls (`LanesClosed`). |
| `ledger_scan` | every ledger of up to five events over two calls, two operation ids, two tools | The one-pass scan and the resolver find the operations, damage and statuses that the rules give for the whole ledger, damaged ledgers included (`ScanFollowsRules`); a blocked prefix is unblocked only by a response or a recovery fact (`OnlyAnswersUnblock`). |
| `tool_recovery` | three turns with two tool calls, rows of another session, a crash | Whatever rows are lost, the ledger of a restarted host has no structural damage (`LedgerIsSound`), projects to a conversation a provider accepts (`ResumedConversationIsValid`), and holds rows of answered calls only: nothing of a call that a crash cut short (`DurableCallsAreOver`). |
| `election` | two hosts, two clients that come and go | One host works on a root (`OneHostWorks`), a serving host is registered and a record is its owner's (`ServingIsRegistered`, `RecordIsOwners`), `connect_or_spawn` returns (`ConnectReturns`), an owner nobody can reach leaves (`UnreachableOwnerLeaves`). |
| `task_run` | two processes for one task run, apart or overlapping, one or two attempts, a failing append, kills | The fold of a ledger that one process wrote is that process's run, at every moment (`LedgerTellsRun`); whoever writes over whom, each number holds a row of the right kind and there is no hole (`LedgerIsWellFormed`); a process that is not killed reports (`RunReports`). |
| `catalog` | two clients, one session id, created up to three times | A revision names one content in the life of a row (`RevisionNamesContent`); a patch that commits was not overtaken, and one that is refused was, re-creation aside (`RefusedIfOvertaken`). |
| `tools` | two calls of every tool, two files with any text of up to two words, a failing write, three platforms | A call that meets no other on its files does all it is meant to or nothing (`LoneCallIsAtomic`); a refused call touched nothing (`RefusedCallTouchesNothing`); the sandboxed shell changes the working directory only, and nothing where no backend is available (`ShellStaysInside`). |
| `chat` | one chat, three turns with two pieces of text and two questions each, a channel of two frames | The user is asked for the next line in the end, whatever frame is lost (`ChatReturns`); without questions, lost patience and rivals the end that is shown is the line's own (`PlainEndIsOwn`). |

The run that ends in a counterexample, `turns_overlap`, is the first of the [findings](#findings).

`TypeOK` of `TurnCoordinator` is checked in `continuation` and proved. `connection`, `tool_loop`,
`ledger_scan`, `tool_recovery`, `task_run`, `catalog`, `tools` and `chat` set `CHECK_DEADLOCK FALSE`:
a connection that was closed, a host whose turns have ended, a ledger as long as the bound, processes
that have reported, a row at its last revision, calls that have returned and a session out of turns have
nothing left to do. In `turn_race`, `continuation` and `election` something can always happen, and
deadlock is checked.

## Bounds

Bounds are constants of the modules, named and used in guards.

- `MaxTurns`, `MaxReplies`: two turns are what a race needs, three are what a predecessor of a
  predecessor needs, or a continuation of a continuation; one reply makes a run of user event, reply
  and terminal, enough for event ids to collide and for a compaction (`KeepRecent = 2`) to cut.
  `continuation` has no replies: its properties are about admissions, claims and counts, and a run of
  two events already has counts below, at and above what is durable. `MaxCrashes = 1`,
  `MaxClock = 2`: a turn before and a turn after, in the same second or not.
- `SubQueue = 1`, `MaxQueuedFrames = 2`, `MaxQueuedBytes = 3`, a projection weighs 2: each limit
  is reached without the other. Three events fill the channel, the hand of the forward task and the
  queue behind it, and leave one that a dropped subscriber must not get.
- Two hosts and two clients: a winner and a loser, one waiting while the other launches. `MaxPolls
  = 2` is the election's deadline. With three hosts the liveness check takes too long.
- Two calls, two clients: a second prompt while the answer to the first is still being published,
  and two answers to one prompt. `MaxErrors = 1` write fails, anywhere. `MaxSteps = 2`.

- `ledger_scan`: `MaxEvents = 5` fits a call with its dispatch, response and whole bundle, or two
  calls that fight over one operation id and a fact that follows. `Representative` leaves out
  events that differ only in what the scanner does not look at; calls and operation ids are symmetric.
- `tool_recovery`: three turns, so that a compaction can shorten the conversation and the third turn
  reuses the number of the second; two calls in one turn or in two; `MaxTexts = 1` shifts the counter so
  that any kind of backend row can lose its id; `MaxForeign = 1`, `MaxCrashes = 1`. `KeepRecent = 1`
  stands for the code's larger number: what matters is that numbers come again.

- `task_run`: two processes with limits up to `MaxLimit = 2`, so that the later ledger may be longer or shorter
  than the earlier; `MaxErrors = 1` append fails, anywhere.
- `catalog`: `MaxBirths = 3`, `MaxRevision = 4`: a client can hold a record of a row that was removed
  and created again, at a revision the new row reaches. The two clients are symmetric.
- `tools`: the calls of `ToolCalls` cover every tool, one file and two, edits on one file that are
  independent and that feed each other; every initial text of up to two words, or none, and one of the three words is
  the one that `multi_edit` checks with.
- `chat`: with two frames the channel fills; three turns are one more than it takes to see an end
  that is two turns old. With a second chat the liveness check does not end, so rivals are left
  to `turn_race`; `Lone` keeps `PlainEndIsOwn` honest for more chats.

## Fairness

Weak fairness is assumed of what the tokio runtime does by itself: a request or a spawned task that
can take its next step takes it. It is not assumed of anything outside: that a client sends, stops,
answers or leaves, that a process is killed or signalled, that a turn of another host ends, that a
provider or a tool comes back (`AgentLoop`). `TurnCoordinator` does take for granted that a backend's
stream ends: `RequestAnswered` is about the host's part, and a
provider that hangs holds its session. `FairSpec` of `TurnCoordinator` is of a host that is not killed
(`SteadyNext`): its requests end with it, and crashes and the clock are in `continuation`.
In `HostElection` waiting for the lock's outcome, polls and deadlines are steps of the processes and
fair; `Drained` is enabled from the start, as half a second passes whoever stays.

In `Chat` the user answers what he is asked and the chat's timer fires; a turn may take any time, or for
ever. In `TaskRun` a process that is not killed goes on, and an attempt ends: the drive of an attempt
is one call of the session manager.

## Proofs

TLAPS checks these for every value of the constants that satisfies the modules' assumptions.

- `ContinuationProofs`, first of `TurnCoordinator` (`CoordinatorAssumption`: the numbers are naturals,
  `MayUse` relates connections to sessions). `TypeCorrect`, `EntryAlwaysLive`, `ChainAlwaysClosed`,
  `OwnedSessionsRunOneTurn`, `OwnedConversationsKept`, `OwnedRunsToldRight`, `TerminalsAlwaysAccounted`,
  `ResumeAlwaysPart`. None is inductive alone. `CoordinatorInv` adds to the type invariant
  `EntryFacts` (turn numbers above `admitted` are unused; a request about to spawn owns an
  admitted turn that no other request owns, else its `Spawn` could revive a dead turn),
  `ChainFacts` (the predecessor a request read is still a row when it admits, as rows are replaced
  but never lost), `OwnedFacts` (in a session one connection uses, the table is exact and
  empty while a request is past the busy check), `ConversationFacts` (there, the number a request or an
  admitted turn was given is still that of the message it will push) and `ResumeFacts` (what the ledger
  projects is a subsequence of the conversation, or of what the run that is being saved has said up to
  the event it is at). One lemma per group of facts shows that each action keeps it. `TerminalAccounted` needs
  only that the store grows: a terminal, or the row that took its id, stays.
  Then of `Continuation`, under the same assumption. Every step of `Continuation` is one of `TurnCoordinator`, loads a
  session, or records a claim, so `CoordinatorHoldsUnderResumes` carries the coordinator's invariants over.
  `BoundariesAlwaysDurable`: a claim's prefix was read from a store that only grows, and its high-water
  mark is a count taken of a smaller store of the same run (the counts are finite cardinalities).
  `ClaimsAlwaysExact` from `ContinuationInv`: while a client resumes a session that it alone uses and that was quiet
  when it asked, no step of anybody changes the session's conversation, chain or events (`CalmStep`), so that the reads,
  which are steps apart, agree; `ClaimFacts` says of each place in the resume what was read so far.
- `AgentLoopProofs` (`LoopAssumption`, `HubAssumption`). `OnlyApprovedToolsEverRun`, `OneDecisionAlways`,
  `PromptsAlwaysLive`, `LanesAlwaysClosed` from `LoopInv`. `HubFacts` ties each prompt to its asker and to its answerer
  (one at a time, which is why there is one decision); `LoopFacts` ties a turn's place in the loop to its call: the
  calls before the next one have their results, those after it are untouched, the verdict a turn carries is
  the policy's or its own prompt's.
- `ConnectionProofs` (`WriterAssumption`; for the connection also `ConnectionAssumption`, and
  `FramesAssumption`: its writer carries its frames). First the writer alone. `WriterIsFifoChannel`: it implements
  `FrameChannel`, by the mapping `sent <- accepted, got <- written, open <- ~closed`. The
  invariant `NothingSkipped` says that what was accepted is what was written, then what is in
  flight, then the queue, and that exactly the states `send` and `failed` have a frame in flight.
  `WakeupNeverLost`, from `MissedIsAnnounced`: it extends what is wanted of the waiting drain task to
  the moment between its two looks. `QueueAlwaysBounded`, from `QueueIsCounted`: there is a sum of the sizes up to each
  place of the queue, and the last is the byte count; the sums are stated as a function, as a sum by recursion is out of
  the prover's reach, and grow along the queue, so that what is popped is in the count.
  Then `ClientAlwaysReconstructs`. Its induction is not over the frames but over the steps: `StreamsFlow` says that what
  a forward task has in hand, followed by its channel, goes on where the accepted frames stop, number by number and
  revision by revision (`Runs`), and that the subscriber's next number and the session's revision come right after
  the last of it, unless the subscriber was found full; `Stands` says who may hold what, so that the answer to the open
  is the first frame or never comes, and `EndsOnce` that a closed notice is the last. What was written is a beginning
  of what was accepted, by the writer's invariant. `ConnectionKeepsWriter`: each step of the connection is one of the writer's
  or none to it, so that the writer's theorems hold of `Connection` as the run checks them.
- `HostElectionProofs` (`ElectionAssumption`). `ServingStaysRegistered`, `RecordAlwaysOwners`,
  `OneHostAlwaysWorks` from `ElectionInv`: the lock is held exactly from the election to the
  release (`LockIsPhase`), the record is the owner's from its writing to its removal and gone at
  the release (`RecordIsPhase`), clients and turns are at hosts that serve or have served
  (`WorkIsPhase`). `ElectionType` is `TypeOK` without the counter, whose range needs cardinalities.

- `ToolLedgerProofs` (`ToolLedgerAssumption`, `ToolRecoveryAssumption`). `ScanIsTyped`, and `OnlyAnswersEverUnblock` from
  `LedgerInv`: types, and that an empty ledger has no operations (`NothingFromNothing`). The second part
  is what the argument turns on: the first event decides the protocol, and no status existed before it.
  `ScanAlwaysFollowsRules`: each of the scanner's indices is compared with the rules (`ScanFacts`), which look at the
  whole ledger and so could judge an earlier event anew when one is added; the lemmas show that they do not: which ids
  were seen, which event is a call's first, and with it whether the call's record has an issue for good. The three
  clauses of the resolver then need which fact came last (`GaveLast`, `IndexIsLast`) and how many reconcile facts
  there are (`BundlesAreCounted`, a finite cardinality).
  `LedgerAlwaysSound` and `DurableCallsAlwaysOver` are about the ledgers a host writes, from `RecoveryInv`:
  in the buffer a call's row comes before the rest of it, each once and none that the scanner has already
  (`BufferIsInOrder`), a call is in the buffer while its turn is at it (`CallIsOpen`), and only a call row can have taken
  a call row's id (`KnownIsSaved`). So a lost append may cost a dispatch or a result, never the call before them.
  `ResumedConversationAlwaysValid`: `PairsInv` adds that in the ledger a result stands right behind its call, with
  nothing but the dispatch fact between them (`LedgerIsInPairs`), and that a result which is still in the buffer has its
  call there or the ledger ends at it (`BufferIsInPairs`). That is enough of a ledger, whoever wrote it:
  `ConversationIsPaired` goes through the projection row by row and shows that a call which is answered is the one call
  of its message, that its answer is the next message, and that a call without a row for its answer is left out.
- `ToolsProofs` (`ToolsAssumption`: finitely many files, calls of the tools' forms). `ToolsInvHolds`, and from it `LoneCallActsAtOnce`, `RefusedCallTouchesNoFile`,
  `ShellIsKeptInside` and `ToolsTypesHold`, for any number of calls of any edits on any files. Two lemmas are about the edits
  alone: where `multi_edit` looks at a text with placeholders in it, it finds the places it would find in the text its
  earlier edits leave, as long as no edit looks for what another brings in or for the placeholder, which may well be a word
  of the text (`PlaceholderHides`); and edits of several files,
  applied in turn to the file system, are each file's own edits applied to its text (`FilesApart`). `ToolsInv` then says
  of each call what its stage leaves it (`StageFacts`: a call that may still be refused has written nothing, and what a
  shell wrote it could write), that calls which meet on a file know it (`MeetingFacts`), and of a call that met none that its
  files are as it found them but for the texts it has put there itself (`AloneFacts`).
- `CommandLineProofs`, first of `TaskRun` (`TaskRunAssumption`: attempts have a limit). `TypeCorrect`, `LedgerStaysWellFormed`,
  `LedgerAlwaysTellsRun`, for any number of processes. `RunInv` says that a process's place in the loop
  gives its next number (`PlaceIsNumber`), that without failing appends there is a row below every
  process's next number (`NothingMissing`), and that of a process none of whose appends failed the rows
  that are still its own are the ones its attempts call for (`RowsAreOwn`), which others' rows may
  replace. `FoldIsRun` then counts: such a ledger has as many odd rows as attempts, and its last row is
  the one before the process's next number.
  Then of `Chat` (`ChatAssumption`). `PlainEndIsAlwaysOwn`, from `ChatTypeCorrect` and `ChatInv`: of a chat that is alone
  and was never asked, at most one end is on its way, through channel and wire together, and it is the end of its line's
  turn; at most one reply, and only to a line that waits for it (`Underway`); and while the line was not taken, or there is
  none, no end is on its way and no turn runs (`NotTaken`). So an end cannot outlive the line it belongs to: a chat that has
  shown one has shown the last.
- `SessionCatalogProofs` (`CatalogAssumption`). `RevisionAlwaysNames` and `RefusalsAreJust`, for any
  clients, sessions and re-creations. `CatalogInv` looks at all records that are held of a session,
  the answers under way included: none is ahead of the row in the row's own life (`NoneIsAhead`), those of
  one life and revision are one (`HeldAgree`), a row's life is its id's last (`RowIsLastBorn`); and a
  client that was not overtaken holds the row (`OvertakenIsChanged`).

The theorems are about the specifications without fairness; the runs `turn_race`, `tool_loop` and `chat` check
the same invariants under `FairSpec`, which implies it.

A recursive function is unfolded by `RecursionExists`, which shows by the least number where it could fail that a function
with the given steps exists; what it computes is then proved by the least number for which the claim fails
(`LeastNatural`). The models have no recursive operators.

Only model-checked: all liveness (`RequestAnswered`, `AnswerReaches`, `ConnectReturns`, `UnreachableOwnerLeaves`, `RunReports`,
`ChatReturns`), which rests on fairness and `ENABLED`, out of TLAPS's reach. Each safety property of a passing run is a theorem.

## Findings

The run `turns_overlap` violates `OneTurnPerSession`, against "One turn per session at a time" of the
coordinator: two connections pass the busy check before either enters the table, and two turns of one session
run. `continuation` and a theorem show the part that does hold, for sessions one connection uses.

The following formulas are of the same kind, what a comment or a description of the repository
says, and the models have behaviours without them. They are no run of their own; to see one, name it
in the configuration of the module's run.

| formula | add it to | what happens |
|---|---|---|
| `HostElection!OwnerReachable` | `Election.cfg` | `main` binds the endpoint (`bin/host.rs:89`), and bind unlinks the socket that is there (`framed.rs:38`, "any stale socket file"), before it tries the lock: a candidate that will lose has already unlinked the owner's socket. `UnreachableOwnerLeaves` is what holds. |
| `InteractionHub!SnapshotShowsPrompts` | `ToolLoop.cfg` | A prompt published before anybody subscribed is missing from a later subscription's snapshot (`continuity/coordinator.rs:107`, against `interaction.rs:3`); with subscribers, two publishers may overtake each other. |
| `ToolRecovery!NotDispatchedNeverRan` | `ToolRecovery.cfg` | A second turn numbers its events from `aimux-1` again, so its dispatch fact and its result can find their ids taken and are lost; the call is resolved as "provably never executed" (`recovery.rs:31`) though its tool ran. `LedgerIsSound` is what holds. |
| `ToolRecovery!StartedCallsAreMarked` | `ToolRecovery.cfg` | The backend says of the dispatch fact that it is "emitted before dispatch so a crash between here and the result leaves a durable "may have started" marker for recovery" (`aimux_backend.rs:267`). It is only yielded there: the drain task keeps it in memory (`turn/coordinator.rs:222`) until `finalize_turn` writes the whole turn (`session.rs:249`). A host that dies while a tool is at work (`StartTurn`, `Call`, `Dispatch`, `Execute`, `Crash`) leaves neither the marker nor the call, and the next host finds a ledger that is safe to replay. The operation row is written at that point (`aimux_backend.rs:286`), but `resolve_recovery` reads events only, and nothing but tests and examples reads the rows, which `tool_operation.rs:6` says a recovery continuation does. `DurableCallsAreOver` is what holds, and the contrary: an indeterminate call is one whose result row was lost, never one that a crash cut short. |
| `TaskRun!ReportIsOutcome` | `TaskRun.cfg` | `run_task` numbers its events from 0 whatever the ledger holds, and rows replace rows (`meepo-storage/src/lib.rs:691`): a second, shorter invocation leaves the tail of the first one and is reported as the first one's outcome, though the fold is said to be the run's state (`meepo-headless/src/lib.rs:3`). |
| `Continuation!CarriesSourceContent` | `Continuation.cfg`, two clients | `resume_start` takes the source run from one read of the tip and the content from a second one (`turn/coordinator.rs:317`): an admission in between makes the continuation of one run repeat the other's content (against `:290`). |
| `Tools!SeveralEditsActInTurn` | `Tools.cfg` | `multi_edit` checks its edits with a placeholder for each place (`extra.rs:186`) and applies them to the text: on the words `a b` the edits `a` to `b`, then `b` to `a` report success and leave the file as it was, where edits applied in turn would be refused ("applied sequentially", `extra.rs:120`). |
| `Chat!ShownEndIsOwn` | `Chat.cfg` | The root turn of a snapshot changes at terminal events only (`continuity/coordinator.rs:141`): in the second turn, the frame that clears an answered question still shows the first turn's end, and the chat takes it for the end of the turn that goes on (`main.rs:277`, "until a terminal projection"). |
| `Chat!QuestionIsAnswered` | `Chat.cfg` with `ModelAnswersSpec` | A frame with a question that comes while the chat waits for a response is laid aside (`client/connection.rs:119`) and never read: the turn waits, and the chat gives up. |

Some properties of passing runs hold on a condition, and what their hazards fear lies in part beyond it:
`LedgerTellsRun` is of a ledger that one process wrote whole, and `LedgerIsWellFormed` of kinds and numbers,
not of the fold (`ReportIsOutcome` is what fails); `ClaimIsExact` is of an owned, quiet session
(`CarriesSourceContent`); `ChainClosed` says that a predecessor is a row, not that it is the right one;
`LoneCallIsAtomic` is of a call that met no other and of independent edits: two calls that meet on a file can lose
one's update, as the tools take no lock (`builtin.rs:148`); `RefusedCallTouchesNothing` is of
refusals, not of a second write that fails; `PlainEndIsOwn` is of a chat that is not asked (`ShownEndIsOwn`).

Other divergences follow from the models or were met while reading:

- After a crash between admission and finalization the next turn gets the same turn id and replaces
  the admission row, against "immutable once written" (`meepo-storage/src/lib.rs:148`).
- A terminal's append can be lost to a taken id like any other, which `TerminalAccounted` allows for.
- A frame accepted between the drain task's empty look and its look at the closed flag stays in the
  queue, against "finishes what is queued" (`outbound.rs:147`).
- A reconcile fact without its decision has the status corruption but does not block the plan, as
  `has_corruption` counts the scanner's issues only (`recovery.rs:122`, against `recovery.rs:9`).
- A claim is kept when `begin_turn` then refuses the continuation as busy; claims and tool rows
  of one session can remove another's through ids that are numbered per session.
- A creation can answer with a record that was never the stored one (`handlers/session.rs:80`), and the
  revisions of a session that was removed begin again at 1; a `read_marker.set` that names no revision can
  come back as a conflict.
- A write of `multi_edit` that fails leaves the earlier files changed, against "atomically"
  (`extra.rs:116`). Its check may find the word `PLACEHOLDER` that it has put there itself (`extra.rs:186`), which is
  why `Independent` excludes an edit that looks for it. The temporary directory is readable and not writable in the sandbox.
- A repair of a headless run is sent into a fresh session, whose conversation does not have the task's
  instruction. A session's working directory is not used by the tools.

## Abstractions

- *Conversations.* A message is who said it in which turn; a reply is one event and one
  message. Replies that a lost user event leaves adjacent stay two messages in `Projection`, the
  code would join their texts.
- *Admissions.* The poison flag is left out: only tests call `mark_admission_poisoned`.
- *Errors of the store.* In `TurnCoordinator` inserts fail by their keys, in `InteractionHub` and
  `AgentLoop` any write may fail. Errors of reads are not modelled.
- *Identifiers.* Call ids come from the provider and are taken to be fresh; prompt ids are uuids.
- *Tool calls.* `ToolRecovery` lets a turn make one call after another: the calls of one step are
  yielded and executed in turn by the code too. Thinking deltas move the counter like text. Arguments
  and results are left out; a denied call is one whose tool does not start. The length after a
  compaction is any the code's rule for tool messages at the cut can give.
- *Operations' records* hold what the resolver reads: whether there is a call, dispatch, response or
  issue, how many reconcile facts, and the decisions in order.
- *Locks.* A lock is held over one action, except where the code keeps it across awaits.
- *The handshake* of a connection is left out of `Connection` and merged with accept in `HostElection`.
- *The record's state* is never written as draining by the code, so the model has no such state.
- *`OneHostWorks`* is stated up to the release of the lock: turns go on until the process exits, a
  moment later (hazard at `kernel.rs:176`).
- *Lifecycle changes* of a session are one step in `TurnCoordinator`; `SessionCatalog` has their revision check.
- *Catalog contents.* A field holds its first value or the name of the client that patched it.
- *Attempts* of a headless run are one step with one of three outcomes, and the self-check any verdict.
- *Texts* of `Tools` are words; parameters of a policy stand for paths, and a path is the root it lies in.
  Of two definitions of one policy parameter `sandbox-exec` is taken to use either.
  A path is the file: two spellings of one path in one `multi_edit`, which the code takes for two files as it
  groups edits by the string (`extra.rs:166`), are not represented. An edit replaces a word: a match that forms
  where new text joins old text is not either. `LoneCallIsAtomic`, checked and proved, says nothing of these two cases.
- *Publication* in `Chat` is one step for table and frame: the overtaking publishers are in `InteractionHub`.
- *Shutdown* in `InteractionHub` lets every task be dropped where it waits, in any order, and
  the others go on: what the runtime does between the drop of the first task and of the last.

## Not modelled

- The categorisation of shell commands (regular expressions over text), the wire codec and the version
  negotiation (serialisation, two comparisons), the conversions between event types.
- Checkpoints (`checkpoint.rs`): pure, and called by tests only.
- The searches, the web tools and `ask_user_question`: they read the outside world and change nothing.
- The fixed text of the sandbox policy and the enforcement by the operating system; the single-prompt
  command, argument parsing and printing.

`PROJECT.json` lists every component with its status.

## Plan

What could come next:

1. The publishers that overtake one another (`InteractionHub`) under the frames that the chat follows, which `Chat` takes
   as one step.
2. The theorems hold for any number of chats and hosts; the runs of `Chat` and `HostElection` would need a coarser
   model to check liveness for more of them.
3. Process exit after the release of the lock, as a phase in which the host's turns still run (hazard at `kernel.rs:176`).
