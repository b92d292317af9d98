---- MODULE ToolLedger ----
(***************************************************************************)
(* The scanner of the tool ledger and the recovery resolver that reads its *)
(* result.  The scanner is one loop over a sequence of runtime events; each *)
(* action here is one iteration of it, so that after any step the          *)
(* variables are what a scan of the events so far returns.  The resolver   *)
(* is a function of them: Status of an operation, Blocked of the prefix.   *)
(*                                                                         *)
(* The events are any a ledger may hold: the scanner is the single         *)
(* authority for damaged ledgers too.                                      *)
(***************************************************************************)
EXTENDS Integers, Sequences, FiniteSets

CONSTANTS
    Keys,        \* tool calls: a provider's call id within an invocation
    Names,       \* tool names
    Operations,  \* operation ids, which dispatch facts give to calls
    Ids,         \* event ids
    NoKey,       \* no tool call
    MaxEvents    \* bound: events in a ledger

ASSUME ToolLedgerAssumption ==
    /\ NoKey \notin Keys
    /\ Names # {}
    /\ MaxEvents \in Nat

Dispositions == {"completed", "parked"}

\* The lanes of a ledger, and the events that are in none of them.
CallEvent == [kind : {"call"}, id : Ids, key : Keys, name : Names]
DispatchEvent ==
    [kind : {"dispatch"}, id : Ids, key : Keys, name : Names, op : Operations]
ResponseEvent == [kind : {"response"}, id : Ids, key : Keys, name : Names]
ReconcileEvent == [kind : {"reconcile"}, id : Ids, op : Operations]
DecisionEvent ==
    [kind : {"decision"}, id : Ids, op : Operations, disposition : Dispositions]
OrdinaryEvent ==
    [kind : {"user", "text", "terminal"}, id : Ids, marker : BOOLEAN]
Events == CallEvent \cup DispatchEvent \cup ResponseEvent \cup ReconcileEvent
            \cup DecisionEvent \cup OrdinaryEvent

\* What the scanner knows of one call.  "flawed": it has an issue.
Op == [known : BOOLEAN, name : Names, call : BOOLEAN, dispatch : BOOLEAN,
       response : BOOLEAN, flawed : BOOLEAN, reconciles : Nat,
       decisions : Seq(Dispositions)]

VARIABLES
    events,       \* Seq(Events): the events scanned so far
    seen,         \* their ids
    ops,          \* [Keys -> Op]: the operations, by their call key
    byOperation,  \* [Operations -> Keys \cup {NoKey}]: whose operation id it is
    corrupt       \* has there been an issue

ledgerVars == <<events, seen, ops, byOperation, corrupt>>

Unknown == [known |-> FALSE, name |-> CHOOSE n \in Names : TRUE, call |-> FALSE,
            dispatch |-> FALSE, response |-> FALSE, flawed |-> FALSE,
            reconciles |-> 0, decisions |-> <<>>]

LedgerInit ==
    /\ events = <<>>
    /\ seen = {}
    /\ ops = [k \in Keys |-> Unknown]
    /\ byOperation = [o \in Operations |-> NoKey]
    /\ corrupt = FALSE

-----------------------------------------------------------------------------
(* One iteration of the loop, by lane and by what is known of the call.    *)

Note(e) == events' = Append(events, e) /\ seen' = seen \cup {e.id}
New(e) == e.id \notin seen
Opened(e) == [Unknown EXCEPT !.known = TRUE, !.name = e.name]
Flawed(o) == [o EXCEPT !.flawed = TRUE]

\* DuplicateEventId: the event is not looked at.
Duplicate(e) ==
    /\ e.id \in seen
    /\ Note(e)
    /\ corrupt' = TRUE
    /\ UNCHANGED <<ops, byOperation>>

FirstCall(e) ==
    /\ New(e) /\ e.kind = "call" /\ ~ops[e.key].known
    /\ Note(e)
    /\ ops' = [ops EXCEPT ![e.key] = [Opened(e) EXCEPT !.call = TRUE]]
    /\ UNCHANGED <<byOperation, corrupt>>

\* DuplicateCall, or IdentityConflict when the operation had no call yet.
LaterCall(e) ==
    /\ New(e) /\ e.kind = "call" /\ ops[e.key].known
    /\ Note(e)
    /\ ops' = [ops EXCEPT ![e.key] = [Flawed(@) EXCEPT !.call = TRUE]]
    /\ corrupt' = TRUE
    /\ UNCHANGED byOperation

\* Mutant: a second dispatch of a call is taken for its first.
DispatchAgain(e) ==
    /\ New(e) /\ e.kind = "dispatch" /\ ops[e.key].known
    /\ Note(e)
    /\ ops' = [ops EXCEPT ![e.key].dispatch = TRUE]
    /\ byOperation' = [byOperation EXCEPT ![e.op] = e.key]
    /\ UNCHANGED corrupt

FirstDispatch(e) ==
    /\ New(e) /\ e.kind = "dispatch" /\ ops[e.key].known /\ ~ops[e.key].dispatch
    /\ Note(e)
    /\ ops' = [ops EXCEPT ![e.key].dispatch = TRUE]
    /\ byOperation' = [byOperation EXCEPT ![e.op] = e.key]
    /\ UNCHANGED corrupt

\* DuplicateDispatch: the operation keeps its first dispatch.
LaterDispatch(e) ==
    /\ New(e) /\ e.kind = "dispatch" /\ ops[e.key].dispatch
    /\ Note(e)
    /\ ops' = [ops EXCEPT ![e.key] = Flawed(@)]
    /\ corrupt' = TRUE
    /\ UNCHANGED byOperation

OrphanDispatch(e) ==
    /\ New(e) /\ e.kind = "dispatch" /\ ~ops[e.key].known
    /\ Note(e)
    /\ ops' = [ops EXCEPT ![e.key] = [Flawed(Opened(e)) EXCEPT !.dispatch = TRUE]]
    /\ byOperation' = [byOperation EXCEPT ![e.op] = e.key]
    /\ corrupt' = TRUE

\* IdentityConflict when another tool answers; the response counts all the same.
FirstResponse(e) ==
    LET o == ops[e.key]
        conflict == o.name # e.name
    IN
    /\ New(e) /\ e.kind = "response" /\ o.known /\ ~o.response
    /\ Note(e)
    /\ ops' = [ops EXCEPT ![e.key] =
                 [o EXCEPT !.response = TRUE, !.flawed = o.flawed \/ conflict]]
    /\ corrupt' = (corrupt \/ conflict)
    /\ UNCHANGED byOperation

\* DuplicateResponse: the operation keeps its first response.
LaterResponse(e) ==
    /\ New(e) /\ e.kind = "response" /\ ops[e.key].response
    /\ Note(e)
    /\ ops' = [ops EXCEPT ![e.key] = Flawed(@)]
    /\ corrupt' = TRUE
    /\ UNCHANGED byOperation

OrphanResponse(e) ==
    /\ New(e) /\ e.kind = "response" /\ ~ops[e.key].known
    /\ Note(e)
    /\ ops' = [ops EXCEPT ![e.key] = [Flawed(Opened(e)) EXCEPT !.response = TRUE]]
    /\ corrupt' = TRUE
    /\ UNCHANGED byOperation

\* A recovery fact joins the operation its operation id names at this point.
Reconcile(e) ==
    /\ New(e) /\ e.kind = "reconcile" /\ byOperation[e.op] # NoKey
    /\ Note(e)
    /\ ops' = [ops EXCEPT ![byOperation[e.op]].reconciles = @ + 1]
    /\ UNCHANGED <<byOperation, corrupt>>

Decide(e) ==
    /\ New(e) /\ e.kind = "decision" /\ byOperation[e.op] # NoKey
    /\ Note(e)
    /\ ops' = [ops EXCEPT ![byOperation[e.op]].decisions = Append(@, e.disposition)]
    /\ UNCHANGED <<byOperation, corrupt>>

\* RecoveryFactWithoutOperation.
StrayFact(e) ==
    /\ New(e) /\ e.kind \in {"reconcile", "decision"} /\ byOperation[e.op] = NoKey
    /\ Note(e)
    /\ corrupt' = TRUE
    /\ UNCHANGED <<ops, byOperation>>

Ordinary(e) ==
    /\ New(e) /\ e.kind \in {"user", "text", "terminal"}
    /\ Note(e)
    /\ UNCHANGED <<ops, byOperation, corrupt>>

ScanEvent(e) ==
    \/ Duplicate(e)
    \/ FirstCall(e) \/ LaterCall(e)
    \/ FirstDispatch(e) \/ LaterDispatch(e) \/ OrphanDispatch(e)
    \/ FirstResponse(e) \/ LaterResponse(e) \/ OrphanResponse(e)
    \/ Reconcile(e) \/ Decide(e) \/ StrayFact(e)
    \/ Ordinary(e)

LedgerNext == Len(events) < MaxEvents /\ \E e \in Events : ScanEvent(e)

LedgerSpec == LedgerInit /\ [][LedgerNext]_ledgerVars

-----------------------------------------------------------------------------
(* The resolver.                                                           *)

Marked(e) == e.kind \in {"user", "text", "terminal"} /\ e.marker

\* Mutant: any event of the ledger may carry the marker.
NewProtocolAnywhere == \E i \in DOMAIN events : Marked(events[i])

\* The first event carries the marker of the tool-boundary protocol.
NewProtocol == events # <<>> /\ Marked(events[1])

HasBundle(o) == o.reconciles > 0 \/ o.decisions # <<>>
Canonical(o) == o.reconciles = 1 /\ Len(o.decisions) = 1

\* classify_operation: issues first, then the bundle, then the lanes.
StatusOf(o) ==
    IF o.flawed \/ ~o.call \/ (HasBundle(o) /\ ~Canonical(o)) THEN "corruption"
    ELSE IF HasBundle(o) THEN o.decisions[1]
    ELSE IF o.response THEN "completed"
    ELSE IF o.dispatch \/ ~NewProtocol THEN "indeterminate"
    ELSE "not_dispatched"

Status(k) == StatusOf(ops[k])

\* The plan: replay is safe, or the prefix is blocked.
Blocked ==
    \/ corrupt
    \/ \E k \in Keys : ops[k].known /\ Status(k) \in {"indeterminate", "parked"}

-----------------------------------------------------------------------------
(* A declarative reading of the rules, over the whole ledger at once.      *)

\* Only the first event of an id counts.
Counts(i) == \A j \in 1 .. i - 1 : events[j].id # events[i].id

Lane(kind, k) ==
    {i \in DOMAIN events : events[i].kind = kind /\ Counts(i) /\ events[i].key = k}

Mentioned(k) == \E kind \in {"call", "dispatch", "response"} : Lane(kind, k) # {}

\* One call, then at most one dispatch and at most one response of its tool.
Wellformed(k) ==
    \E c \in Lane("call", k) :
        /\ Lane("call", k) = {c}
        /\ Cardinality(Lane("dispatch", k)) <= 1
        /\ Cardinality(Lane("response", k)) <= 1
        /\ \A i \in Lane("dispatch", k) \cup Lane("response", k) : c < i
        /\ \A i \in Lane("response", k) : events[i].name = events[c].name

\* The first dispatch of a call gives the call its operation id ...
Assigns(i) ==
    /\ events[i].kind = "dispatch" /\ Counts(i)
    /\ \A j \in Lane("dispatch", events[i].key) : i <= j

\* ... and a recovery fact is about the call that was given its id last.
About(i, j) ==
    /\ j < i /\ Assigns(j) /\ events[j].op = events[i].op
    /\ \A m \in j + 1 .. i - 1 : Assigns(m) => events[m].op # events[i].op

Facts(kind, k) ==
    {i \in DOMAIN events : events[i].kind = kind /\ Counts(i)
        /\ \E j \in DOMAIN events : About(i, j) /\ events[j].key = k}

Stray(i) ==
    /\ events[i].kind \in {"reconcile", "decision"} /\ Counts(i)
    /\ \A j \in DOMAIN events : ~About(i, j)

RuleCorrupt ==
    \/ \E i \in DOMAIN events : ~Counts(i) \/ Stray(i)
    \/ \E k \in Keys : Mentioned(k) /\ ~Wellformed(k)

RuleStatus(k) ==
    LET bundle == Facts("reconcile", k) \cup Facts("decision", k) IN
    CASE ~Wellformed(k) -> "corruption"
      [] Wellformed(k) /\ bundle = {} ->
           IF Lane("response", k) # {} THEN "completed"
           ELSE IF Lane("dispatch", k) = {} /\ NewProtocol THEN "not_dispatched"
           ELSE "indeterminate"
      [] Wellformed(k) /\ bundle # {} ->
           IF /\ Cardinality(Facts("reconcile", k)) = 1
              /\ Cardinality(Facts("decision", k)) = 1
             THEN events[CHOOSE i \in Facts("decision", k) : TRUE].disposition
             ELSE "corruption"

-----------------------------------------------------------------------------
(* What the scanner and the resolver promise.                              *)

\* The scan is one pass with three indices that are updated as it goes; for
\* every ledger, damaged ones included, it finds exactly the operations, the
\* damage and the statuses that the rules give when they are read over the
\* whole ledger at once.
ScanFollowsRules ==
    /\ corrupt = RuleCorrupt
    /\ \A k \in Keys : ops[k].known = Mentioned(k)
    /\ \A k \in Keys : ops[k].known => Status(k) = RuleStatus(k)

\* A blocked ledger becomes safe to replay only by an answer: a response or a
\* recovery fact.  No call, dispatch, marker or repeated event unblocks it.
OnlyAnswersUnblock ==
    [][Blocked /\ ~Blocked' =>
         events'[Len(events')].kind \in {"response", "reconcile", "decision"}]_ledgerVars

-----------------------------------------------------------------------------
(* The inductive invariant behind ScanFollowsRules: each index of the scan *)
(* against the rules it stands for.                                        *)

IdsAreSeen == seen = {events[i].id : i \in DOMAIN events}

\* A record has the lanes of its call, and nothing before the first of them.
LanesAreKept ==
    \A k \in Keys :
        /\ ops[k].call = (Lane("call", k) # {})
        /\ ops[k].dispatch = (Lane("dispatch", k) # {})
        /\ ops[k].response = (Lane("response", k) # {})
        /\ ops[k].known = (ops[k].call \/ ops[k].dispatch \/ ops[k].response)
        /\ ~ops[k].known => ops[k] = Unknown

\* A record has an issue if its call breaks the rules; if not, it has its name.
FlawsAreBreaches ==
    \A k \in Keys :
        /\ ops[k].flawed => ops[k].known
        /\ ops[k].known => ops[k].flawed = ~Wellformed(k)
        /\ ~ops[k].flawed => \A c \in Lane("call", k) : ops[k].name = events[c].name

\* Event j gave the operation id, and no later event gave it again.
GaveLast(j, o) ==
    /\ Assigns(j) /\ events[j].op = o
    /\ \A m \in j + 1 .. Len(events) : Assigns(m) => events[m].op # o

IndexIsLast ==
    \A o \in Operations :
        /\ byOperation[o] = NoKey => \A j \in DOMAIN events : ~GaveLast(j, o)
        /\ byOperation[o] # NoKey =>
             /\ \E j \in DOMAIN events : GaveLast(j, o) /\ events[j].key = byOperation[o]
             /\ ops[byOperation[o]].dispatch

\* A record has as many facts as the ledger has about its call.
BundlesAreCounted ==
    \A k \in Keys :
        /\ ops[k].reconciles = Cardinality(Facts("reconcile", k))
        /\ Len(ops[k].decisions) = Cardinality(Facts("decision", k))
        /\ Len(ops[k].decisions) = 1 =>
             \A i \in Facts("decision", k) : ops[k].decisions[1] = events[i].disposition

DamageIsNoted ==
    corrupt = \/ \E i \in DOMAIN events : ~Counts(i) \/ Stray(i)
              \/ \E k \in Keys : ops[k].flawed

ScanFacts ==
    /\ IdsAreSeen /\ LanesAreKept /\ FlawsAreBreaches
    /\ IndexIsLast /\ BundlesAreCounted /\ DamageIsNoted
====
