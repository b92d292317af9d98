---- MODULE Continuation ----
(***************************************************************************)
(* Continuations over the turn coordinator.  turn.resume.query tells how   *)
(* many events of a session's latest run are durable (its high water);     *)
(* turn.resume.start compares the caller's count with the store's, records *)
(* a claim that names the source run and the turn that will continue it,   *)
(* and sends the source's content down the path of turn.start.             *)
(*                                                                         *)
(* The claim is durable before that path's own checks, which may refuse    *)
(* the turn; the path numbers the turn itself; and the latest run is read  *)
(* twice.  Each read of the store or of the session is a step.             *)
(***************************************************************************)
EXTENDS TurnCoordinator

VARIABLES
    resume,  \* [Clients -> Resume]: each connection's resume request
    claims,  \* the table of claims
    source   \* [TurnIds -> Continued \cup {NotContinued}]: what a turn continues

resumeVars == <<resume, claims, source>>
allVars == <<vars, resumeVars>>

\* The durable events of a run, as the prefix digest tells them apart.
EventsOf(s, run) ==
    {e.id : e \in {ledger[s][i] : i \in {j \in DOMAIN ledger[s] : ledger[s][j].run = run}}}
    \cup {e.id : e \in {r \in terminals : r.session = s /\ r.run = run}}

\* "run" and "target" are the N of the source's and of the target's ids,
\* "invocation" the N of the source's invocation id.
Claim ==
    [session : Sessions, run : Nat, invocation : Nat, highWater : Nat,
     prefix : SUBSET EventId, target : Nat]

\* "highWater" is the caller's count, "by" the admission whose content will be
\* repeated; "quiet" says the session had no turn when the request began.
Resume ==
    [pc : {"idle", "tip", "count", "content", "target", "prefix", "claim", "begin"},
     highWater : Nat, by : TurnIds \cup {NoTurn}, quiet : BOOLEAN, claim : Claim]

NoClaim == [session |-> AnySession, run |-> 0, invocation |-> 0, highWater |-> 0,
            prefix |-> {}, target |-> 0]
NoResume == [pc |-> "idle", highWater |-> 0, by |-> NoTurn, quiet |-> FALSE,
             claim |-> NoClaim]
NotContinued == [by |-> NoTurn, quiet |-> FALSE, claim |-> NoClaim]

ContinuationInit ==
    /\ Init
    /\ resume = [c \in Clients |-> NoResume]
    /\ claims = {}
    /\ source = [t \in TurnIds |-> NotContinued]

-----------------------------------------------------------------------------
(* turn.resume.start, up to the claim                                      *)

Busy(c) == req[c].pc # "idle" \/ resume[c].pc # "idle"
MayBegin(c) == ~Busy(c) /\ admitted + Cardinality({d \in Clients : Busy(d)}) < MaxTurns

\* What a caller can have been told by turn.resume.query.
Counts == 1 .. (MaxReplies + 2)

RequestResume(c, s, highWater) ==
    /\ MayBegin(c)
    /\ <<c, s>> \in MayUse
    /\ resume' = [resume EXCEPT ![c] =
         [NoResume EXCEPT !.pc = "tip", !.highWater = highWater,
                          !.quiet = active[s] = NoTurn, !.claim.session = s]]
    /\ UNCHANGED <<vars, claims, source>>

Park(c) == resume' = [resume EXCEPT ![c] = NoResume]

\* The latest run (resume_candidate_missing when the session has no admission).
ReadSource(c) ==
    LET s == resume[c].claim.session IN
    /\ resume[c].pc = "tip"
    /\ IF Rows(s) = {}
         THEN Park(c)
         ELSE resume' = [resume EXCEPT ![c].pc = "count", ![c].claim.run = Tip(s).turn]
    /\ UNCHANGED <<vars, claims, source>>

\* Mutant: the caller's count is not compared.
CountOnly(c) ==
    LET n == Cardinality(EventsOf(resume[c].claim.session, resume[c].claim.run)) IN
    /\ resume[c].pc = "count"
    /\ IF n = 0
         THEN Park(c)
         ELSE resume' = [resume EXCEPT ![c].pc = "content",
                                       ![c].claim.highWater = resume[c].highWater]
    /\ UNCHANGED <<vars, claims, source>>

\* source_run_unreadable when nothing of the run is durable, source_run_changed
\* when it is not what the caller was told.
CountEvents(c) ==
    LET n == Cardinality(EventsOf(resume[c].claim.session, resume[c].claim.run)) IN
    /\ resume[c].pc = "count"
    /\ IF n = 0 \/ n # resume[c].highWater
         THEN Park(c)
         ELSE resume' = [resume EXCEPT ![c].pc = "content", ![c].claim.highWater = n]
    /\ UNCHANGED <<vars, claims, source>>

\* The tip again: its content is repeated, its invocation named as the source's.
ReadContent(c) ==
    LET tip == Tip(resume[c].claim.session) IN
    /\ resume[c].pc = "content"
    /\ resume' = [resume EXCEPT ![c].pc = "target", ![c].by = tip.by,
                                ![c].claim.invocation = tip.turn]
    /\ UNCHANGED <<vars, claims, source>>

\* Mutant: only a session that is in memory is asked.
NumberLoadedTarget(c) ==
    LET s == resume[c].claim.session IN
    /\ resume[c].pc = "target"
    /\ holder[s] = NoTurn
    /\ resume' = [resume EXCEPT ![c].pc = "prefix", ![c].claim.target = Len(msgs[s]) + 1]
    /\ UNCHANGED <<vars, claims, source>>

\* The target is numbered after the session's messages, as begin_turn will do.
NumberTarget(c) ==
    LET s == resume[c].claim.session IN
    /\ resume[c].pc = "target"
    /\ holder[s] = NoTurn
    /\ loaded' = loaded \cup {s}
    /\ msgs' = IF s \in loaded THEN msgs ELSE [msgs EXCEPT ![s] = Projection(s)]
    /\ resume' = [resume EXCEPT ![c].pc = "prefix", ![c].claim.target = Len(msgs'[s]) + 1]
    /\ UNCHANGED <<catalog, active, holder, chain, ledger, terminals, req, turn,
                   admitted, clock, crashes, claims, source>>

\* The source's events are read, for their digest.
ReadPrefix(c) ==
    /\ resume[c].pc = "prefix"
    /\ resume' = [resume EXCEPT ![c].pc = "claim", ![c].claim.prefix =
                    EventsOf(resume[c].claim.session, resume[c].claim.run)]
    /\ UNCHANGED <<vars, claims, source>>

\* The table's unique keys: the target's run and invocation, whatever the
\* session; and the boundary of the source.  (The boundary's digest and the
\* session's target turn agree only where the target does.)
Collide(a, b) ==
    \/ a.target = b.target
    \/ /\ a.session = b.session /\ a.run = b.run
       /\ a.highWater = b.highWater /\ a.prefix = b.prefix

\* INSERT OR REPLACE: the claim takes the place of every row it collides with;
\* then the turn begins as turn.start's does.
RecordClaim(c) ==
    LET claim == resume[c].claim IN
    /\ resume[c].pc = "claim"
    /\ claims' = {k \in claims : ~Collide(k, claim)} \cup {claim}
    /\ resume' = [resume EXCEPT ![c].pc = "begin"]
    /\ req' = [req EXCEPT ![c] = [Idle EXCEPT !.pc = "active", !.session = claim.session]]
    /\ UNCHANGED <<catalog, active, managers, chain, ledger, terminals, turn,
                   admitted, clock, crashes, source>>

ResumeStep(c) ==
    \/ ReadSource(c)
    \/ CountEvents(c)
    \/ ReadContent(c)
    \/ NumberTarget(c)
    \/ ReadPrefix(c)
    \/ RecordClaim(c)

-----------------------------------------------------------------------------
(* The turn coordinator's steps, for turn.start and for continuations      *)

\* A step of begin_turn: an answer ends a resume request as well (parked as
\* session_busy, an error, or started), and a turn it spawns is the continuation.
BeginStep(c) ==
    /\ RequestStep(c)
    /\ resume' = [resume EXCEPT ![c] = IF req'[c].pc = "idle" THEN NoResume ELSE @]
    /\ source' = IF req[c].pc = "spawn" /\ resume[c].pc = "begin"
                   THEN [source EXCEPT ![req[c].turn] =
                          [by |-> resume[c].by, quiet |-> resume[c].quiet,
                           claim |-> resume[c].claim]]
                   ELSE source
    /\ UNCHANGED claims

StartFresh(c, s) == MayBegin(c) /\ StartRequest(c, s) /\ UNCHANGED resumeVars
StopRunning(c, s) == ~Busy(c) /\ StopTurn(c, s) /\ UNCHANGED resumeVars
Drain(t) == DrainStep(t) /\ UNCHANGED resumeVars
Environment == (Tick \/ \E s \in Sessions : SetLifecycle(s)) /\ UNCHANGED resumeVars
Die == Crash /\ resume' = [c \in Clients |-> NoResume] /\ UNCHANGED <<claims, source>>

ContinuationNext ==
    \/ \E c \in Clients, s \in Sessions :
         \/ StartFresh(c, s)
         \/ StopRunning(c, s)
         \/ \E n \in Counts : RequestResume(c, s, n)
    \/ \E c \in Clients : ResumeStep(c) \/ BeginStep(c)
    \/ \E t \in TurnIds : Drain(t)
    \/ Environment
    \/ Die

ContinuationSpec == ContinuationInit /\ [][ContinuationNext]_allVars

-----------------------------------------------------------------------------
(* Properties *)

\* A continuation of a session that one connection uses, asked for while the
\* session had no turn, is the turn its claim names, repeats the content of
\* the run the claim names, and the claim's count and prefix are that run's
\* durable events: in spite of the two reads of the tip, of two numberings of
\* the turn, and of the reads' being steps apart.
ClaimIsExact ==
    \A t \in TurnIds :
        LET claim == source[t].claim IN
        source[t].by # NoTurn /\ source[t].quiet /\ Owned(claim.session) =>
            /\ claim.target = turn[t].told
            /\ claim.run = turn[source[t].by].told
            /\ claim.invocation = claim.run
            /\ claim.highWater = Cardinality(claim.prefix)

\* The boundary a claim records is a durable one, whoever recorded it and
\* whatever raced with it: at all times the store holds the events the claim
\* counted and digested, so a continuation can be replayed from them.
BoundaryIsDurable ==
    \A k \in claims :
        LET events == EventsOf(k.session, k.run) IN
        /\ k.prefix \subseteq events
        /\ k.highWater \in 1 .. Cardinality(k.prefix)

\* resume_start will "start a continuation turn carrying the source admission's
\* original content": the content it reads is the source run's.
\* The code does not keep it: README, Findings.
CarriesSourceContent ==
    \A t \in TurnIds : source[t].by # NoTurn =>
        source[t].claim.invocation = source[t].claim.run

-----------------------------------------------------------------------------
(* The inductive invariant behind ClaimIsExact and BoundaryIsDurable.      *)

ResumeTypeOK ==
    /\ resume \in [Clients -> Resume]
    /\ claims \subseteq Claim
    /\ source \in [TurnIds -> [by : TurnIds \cup {NoTurn}, quiet : BOOLEAN, claim : Claim]]

\* A connection's turn request waits for the claim, and is then the claim's.
OneRequest ==
    \A c \in Clients : resume[c].pc # "idle" =>
        /\ <<c, resume[c].claim.session>> \in MayUse
        /\ resume[c].pc # "begin" => req[c].pc = "idle"
        /\ resume[c].pc = "begin" =>
             req[c].pc # "idle" /\ req[c].session = resume[c].claim.session

\* A session with a numbered request or a turn is in memory.
UsedIsLoaded ==
    /\ \A c \in Clients : req[c].pc \in {"tip", "admit", "spawn"} => req[c].session \in loaded
    /\ \A t \in TurnIds : turn[t].phase = "admitted" \/ Live(t) => turn[t].session \in loaded

\* An admission row is of a turn, and names it by the number its client was told.
RowIsTold == \A r \in chain : turn[r.by].phase # "unused" /\ turn[r.by].told = r.turn

\* A request that has read a source has one.
SourceIsThere ==
    \A c \in Clients : resume[c].pc \notin {"idle", "tip"} => Rows(resume[c].claim.session) # {}

\* What the store holds of a source can only grow between the reads of it.
BoundaryFacts ==
    /\ IsFiniteSet(terminals)
    /\ \A c \in Clients :
         LET k == resume[c].claim IN
         /\ resume[c].pc \in {"content", "target", "prefix"} =>
              k.highWater \in 1 .. Cardinality(EventsOf(k.session, k.run))
         /\ resume[c].pc = "claim" =>
              /\ k.prefix \subseteq EventsOf(k.session, k.run)
              /\ k.highWater \in 1 .. Cardinality(k.prefix)
    /\ BoundaryIsDurable

\* A turn that a resume request repeats.
Repeats(by, k) ==
    by \in TurnIds /\ turn[by].phase # "unused" /\ turn[by].told = k.run /\ k.invocation = k.run

\* In an owned session that was quiet when the request began, each read finds what
\* the reads before it found.
ReadsAgree(c) ==
    LET k == resume[c].claim
        s == k.session
        pc == resume[c].pc
    IN
    pc # "idle" /\ resume[c].quiet /\ Owned(s) =>
        /\ pc # "begin" \/ req[c].pc # "spawn" => active[s] = NoTurn
        /\ pc \in {"count", "content", "target", "prefix", "claim"} => k.run = Tip(s).turn
        /\ pc \in {"content", "target", "prefix"} =>
             k.highWater = Cardinality(EventsOf(s, k.run))
        /\ pc \in {"target", "prefix", "claim", "begin"} => Repeats(resume[c].by, k)
        /\ pc \in {"claim", "begin"} => k.highWater = Cardinality(k.prefix)
        /\ \/ pc \in {"prefix", "claim"}
           \/ pc = "begin" /\ req[c].pc \in {"active", "catalog", "resolve"}
           => s \in loaded /\ k.target = Len(msgs[s]) + 1
        /\ pc = "begin" /\ req[c].pc \in {"tip", "admit"} => req[c].n = k.target
        /\ pc = "begin" /\ req[c].pc = "spawn" => turn[req[c].turn].told = k.target

\* A continuation keeps what its request agreed on.
ContinuedFacts ==
    \A t \in TurnIds : source[t].by # NoTurn =>
        /\ turn[t].phase # "unused"
        /\ source[t].quiet /\ Owned(source[t].claim.session) =>
             /\ Repeats(source[t].by, source[t].claim)
             /\ source[t].claim.target = turn[t].told
             /\ source[t].claim.highWater = Cardinality(source[t].claim.prefix)

ClaimFacts == (\A c \in Clients : ReadsAgree(c)) /\ ContinuedFacts

ContinuationInv ==
    /\ TypeOK /\ EntryFacts /\ ChainFacts /\ OwnedFacts /\ ConversationFacts
    /\ ResumeTypeOK /\ OneRequest /\ UsedIsLoaded /\ RowIsTold /\ SourceIsThere
    /\ BoundaryFacts /\ ClaimFacts
====
