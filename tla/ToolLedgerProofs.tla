---- MODULE ToolLedgerProofs ----
(***************************************************************************)
(* Proofs about the tool ledger.  Of the scan of any ledger, for any calls,*)
(* operation ids and tools: it is well typed, only an answer unblocks a    *)
(* prefix, and it finds what the rules give.  Of the ledger that a host    *)
(* writes: the scan finds no issue in it, every call in it was answered,   *)
(* and the conversation that a host resumes from it is valid.              *)
(***************************************************************************)
EXTENDS ToolRecovery, SequenceTheorems, FiniteSetTheorems, WellFoundedInduction, TLAPS

LedgerType ==
    /\ events \in Seq(Events)
    /\ ops \in [Keys -> Op]
    /\ byOperation \in [Operations -> Keys \cup {NoKey}]
    /\ corrupt \in BOOLEAN

\* An empty ledger has no operations: the first event decides on the protocol
\* before there is a status that could depend on it.
NothingFromNothing == events = <<>> => \A k \in Keys : ~ops[k].known

LedgerInv == LedgerType /\ NothingFromNothing

\* The record of an operation that was opened by one event.
LEMMA UnknownType == Unknown \in Op
<1>1. (CHOOSE n \in Names : TRUE) \in Names
  BY ToolLedgerAssumption
<1>2. <<>> \in Seq(Dispositions)
  OBVIOUS
<1> QED
  BY <1>1, <1>2 DEF Unknown, Op

\* Every event of a lane has the fields of its lane.
LEMMA EventFields ==
    ASSUME NEW e \in Events
    PROVE /\ e.kind \in {"call", "dispatch", "response"} => e.key \in Keys /\ e.name \in Names
          /\ e.kind \in {"dispatch", "reconcile", "decision"} => e.op \in Operations
          /\ e.kind = "decision" => e.disposition \in Dispositions
  BY DEF Events, CallEvent, DispatchEvent, ResponseEvent, ReconcileEvent,
         DecisionEvent, OrdinaryEvent

LEMMA LedgerInvInit == LedgerInit => LedgerInv
<1> SUFFICES ASSUME LedgerInit PROVE LedgerInv
  OBVIOUS
<1>1. ops \in [Keys -> Op]
  BY UnknownType DEF LedgerInit
<1>2. \A k \in Keys : ~ops[k].known
  BY DEF LedgerInit, Unknown
<1>3. events \in Seq(Events)
  BY DEF LedgerInit
<1>4. byOperation \in [Operations -> Keys \cup {NoKey}] /\ corrupt \in BOOLEAN
  BY DEF LedgerInit
<1> QED
  BY <1>1, <1>2, <1>3, <1>4 DEF LedgerInv, LedgerType, NothingFromNothing

\* One iteration of the scan keeps the types, and leaves a ledger that is not
\* empty.
LEMMA LedgerInvStep == LedgerInv /\ [LedgerNext]_ledgerVars => LedgerInv'
<1> SUFFICES ASSUME LedgerInv, [LedgerNext]_ledgerVars PROVE LedgerInv'
  OBVIOUS
<1> USE DEF LedgerInv
<1>1. CASE UNCHANGED ledgerVars
  BY <1>1 DEF ledgerVars, LedgerType, NothingFromNothing
<1>2. CASE LedgerNext
  <2>1. PICK e \in Events : ScanEvent(e)
    BY <1>2 DEF LedgerNext
  <2>2. events' = Append(events, e)
    BY <2>1 DEF ScanEvent, Note, Duplicate, FirstCall, LaterCall, FirstDispatch,
       LaterDispatch, OrphanDispatch, FirstResponse, LaterResponse, OrphanResponse,
       Reconcile, Decide, StrayFact, Ordinary
  <2>3. events' \in Seq(Events) /\ events' # <<>>
    BY <2>2 DEF LedgerType
  <2>4. /\ ops' \in [Keys -> Op]
        /\ byOperation' \in [Operations -> Keys \cup {NoKey}]
        /\ corrupt' \in BOOLEAN
    <3> USE DEF LedgerType
    <3>1. CASE Duplicate(e) \/ StrayFact(e) \/ Ordinary(e)
      BY <3>1 DEF Duplicate, StrayFact, Ordinary
    <3>2. CASE FirstCall(e)
      <4>1. [Opened(e) EXCEPT !.call = TRUE] \in Op
        BY <3>2, UnknownType, EventFields DEF FirstCall, Opened, Op
      <4> QED
        BY <3>2, <4>1, EventFields DEF FirstCall
    <3>3. CASE LaterCall(e)
      <4>1. e.key \in Keys
        BY <3>3, EventFields DEF LaterCall
      <4>2. [Flawed(ops[e.key]) EXCEPT !.call = TRUE] \in Op
        BY <4>1 DEF Flawed, Op
      <4> QED
        BY <3>3, <4>1, <4>2 DEF LaterCall
    <3>4. CASE FirstDispatch(e)
      <4>1. e.key \in Keys /\ e.op \in Operations
        BY <3>4, EventFields DEF FirstDispatch
      <4>2. [ops[e.key] EXCEPT !.dispatch = TRUE] \in Op
        BY <4>1 DEF Op
      <4> QED
        BY <3>4, <4>1, <4>2 DEF FirstDispatch
    <3>5. CASE LaterDispatch(e) \/ LaterResponse(e)
      <4>1. e.key \in Keys
        BY <3>5, EventFields DEF LaterDispatch, LaterResponse
      <4>2. Flawed(ops[e.key]) \in Op
        BY <4>1 DEF Flawed, Op
      <4> QED
        BY <3>5, <4>1, <4>2 DEF LaterDispatch, LaterResponse
    <3>6. CASE OrphanDispatch(e)
      <4>1. e.key \in Keys /\ e.op \in Operations /\ e.name \in Names
        BY <3>6, EventFields DEF OrphanDispatch
      <4>2. [Flawed(Opened(e)) EXCEPT !.dispatch = TRUE] \in Op
        BY <4>1, UnknownType DEF Opened, Flawed, Op
      <4> QED
        BY <3>6, <4>1, <4>2 DEF OrphanDispatch
    <3>7. CASE FirstResponse(e)
      <4>1. e.key \in Keys
        BY <3>7, EventFields DEF FirstResponse
      <4> DEFINE o == ops[e.key]  conflict == o.name # e.name
      <4>2. o \in Op /\ conflict \in BOOLEAN
        BY <4>1
      <4> HIDE DEF conflict
      <4>3. (o.flawed \/ conflict) \in BOOLEAN
        BY <4>2 DEF Op
      <4>4. [o EXCEPT !.response = TRUE, !.flawed = o.flawed \/ conflict] \in Op
        BY <4>2, <4>3 DEF Op
      <4> QED
        BY <3>7, <4>1, <4>4 DEF FirstResponse, conflict
    <3>8. CASE OrphanResponse(e)
      <4>1. e.key \in Keys /\ e.name \in Names
        BY <3>8, EventFields DEF OrphanResponse
      <4>2. [Flawed(Opened(e)) EXCEPT !.response = TRUE] \in Op
        BY <4>1, UnknownType DEF Opened, Flawed, Op
      <4> QED
        BY <3>8, <4>1, <4>2 DEF OrphanResponse
    <3>9. CASE Reconcile(e)
      <4> DEFINE k == byOperation[e.op]
      <4>1. k \in Keys
        BY <3>9, EventFields DEF Reconcile
      <4> DEFINE n == ops[k].reconciles + 1
      <4>2. n \in Nat
        BY <4>1 DEF Op
      <4> HIDE DEF n
      <4>3. [ops[k] EXCEPT !.reconciles = n] \in Op
        BY <4>1, <4>2 DEF Op
      <4> QED
        BY <3>9, <4>1, <4>3 DEF Reconcile, n
    <3>10. CASE Decide(e)
      <4> DEFINE k == byOperation[e.op]
      <4>1. k \in Keys /\ e.disposition \in Dispositions
        BY <3>10, EventFields DEF Decide
      <4>2. Append(ops[k].decisions, e.disposition) \in Seq(Dispositions)
        BY <4>1 DEF Op
      <4>3. [ops[k] EXCEPT !.decisions = Append(@, e.disposition)] \in Op
        BY <4>1, <4>2 DEF Op
      <4> QED
        BY <3>10, <4>1, <4>3 DEF Decide
    <3> QED
      BY <2>1, <3>1, <3>2, <3>3, <3>4, <3>5, <3>6, <3>7, <3>8, <3>9, <3>10 DEF ScanEvent
  <2> QED
    BY <2>3, <2>4 DEF LedgerType, NothingFromNothing
<1> QED
  BY <1>1, <1>2

\* The indices of the scan are well typed, whatever the ledger.
THEOREM ScanIsTyped == LedgerSpec => []LedgerType
<1>1. LedgerInv => LedgerType
  BY DEF LedgerInv
<1> QED
  BY LedgerInvInit, LedgerInvStep, <1>1, PTL DEF LedgerSpec

-----------------------------------------------------------------------------

\* The protocol is decided by the first event, for good.
LEMMA ProtocolIsFirst ==
    ASSUME LedgerType, NEW e \in Events, Note(e), events # <<>>
    PROVE NewProtocol' = NewProtocol
<1>1. events' = Append(events, e) /\ events' # <<>> /\ events'[1] = events[1]
  BY DEF Note, LedgerType
<1> QED
  BY <1>1 DEF NewProtocol, Marked

\* A blocked prefix has an event: it is corrupt, or an operation blocks it.
\* An event that is no answer leaves what blocks it in place.
LEMMA StaysBlocked ==
    ASSUME LedgerInv, NEW e \in Events, ScanEvent(e), Blocked,
           e.kind \notin {"response", "reconcile", "decision"}
    PROVE Blocked'
<1> USE DEF LedgerInv
<1>1. CASE corrupt'
  BY <1>1 DEF Blocked
<1>2. CASE ~corrupt'
  <2>1. /\ ~corrupt
        /\ FirstCall(e) \/ FirstDispatch(e) \/ Ordinary(e)
    BY <1>2 DEF ScanEvent, Duplicate, FirstCall, LaterCall, FirstDispatch, LaterDispatch,
       OrphanDispatch, FirstResponse, LaterResponse, OrphanResponse, Reconcile, Decide,
       StrayFact, Ordinary
  <2>2. PICK k \in Keys : ops[k].known /\ Status(k) \in {"indeterminate", "parked"}
    BY <2>1 DEF Blocked
  <2>3. NewProtocol' = NewProtocol
    BY <2>1, <2>2, ProtocolIsFirst
       DEF FirstCall, FirstDispatch, Ordinary, LedgerType, NothingFromNothing
  <2>4. ops'[k].known /\ Status(k)' \in {"indeterminate", "parked"}
    <3>1. CASE ops'[k] = ops[k]
      BY <2>2, <2>3, <3>1 DEF Status, StatusOf
    <3>2. CASE ops'[k] # ops[k]
      <4>1. FirstDispatch(e) /\ e.key = k
        BY <2>1, <2>2, <3>2 DEF FirstCall, FirstDispatch, Ordinary, LedgerType
      <4>2. ops'[k] = [ops[k] EXCEPT !.dispatch = TRUE]
        BY <4>1 DEF FirstDispatch, LedgerType
      <4>3. ops[k] \in Op
        BY DEF LedgerType
      <4>4. /\ ops'[k].known = ops[k].known
            /\ ops'[k].flawed = ops[k].flawed
            /\ ops'[k].call = ops[k].call
            /\ ops'[k].response = ops[k].response
            /\ ops'[k].reconciles = ops[k].reconciles
            /\ ops'[k].decisions = ops[k].decisions
            /\ ops'[k].dispatch
        BY <4>2, <4>3 DEF Op
      <4> QED
        BY <2>2, <4>4 DEF Status, StatusOf, HasBundle, Canonical
    <3> QED
      BY <3>1, <3>2
  <2> QED
    BY <2>4 DEF Blocked
<1> QED
  BY <1>1, <1>2

\* OnlyAnswersUnblock, for every ledger: neither a call, a dispatch, a marker nor
\* a repeated event makes a blocked prefix safe to replay.
THEOREM OnlyAnswersEverUnblock == LedgerSpec => OnlyAnswersUnblock
<1> DEFINE Step == Blocked /\ ~Blocked' =>
                     events'[Len(events')].kind \in {"response", "reconcile", "decision"}
<1>1. LedgerInv /\ [LedgerNext]_ledgerVars => [Step]_ledgerVars
  <2> SUFFICES ASSUME LedgerInv, LedgerNext PROVE Step
    OBVIOUS
  <2>1. PICK e \in Events : ScanEvent(e)
    BY DEF LedgerNext
  <2>2. events' = Append(events, e)
    BY <2>1 DEF ScanEvent, Note, Duplicate, FirstCall, LaterCall, FirstDispatch,
       LaterDispatch, OrphanDispatch, FirstResponse, LaterResponse, OrphanResponse,
       Reconcile, Decide, StrayFact, Ordinary
  <2>3. events'[Len(events')] = e
    BY <2>2 DEF LedgerInv, LedgerType
  <2> QED
    BY <2>1, <2>3, StaysBlocked
<1> QED
  BY LedgerInvInit, LedgerInvStep, <1>1, PTL DEF LedgerSpec, OnlyAnswersUnblock

-----------------------------------------------------------------------------
(* The ledger of a host that may die: each call row is saved before the    *)
(* rest of its call, so what is lost leaves no damage.                     *)

\* A sequence is one of its own elements.
LEMMA SeqOfOwn ==
  ASSUME NEW X, NEW a \in Seq(X)
  PROVE  a \in Seq({a[i] : i \in DOMAIN a})
<1>1. PICK n \in Nat : n = Len(a) /\ DOMAIN a = 1 .. n /\ a \in [1 .. n -> X]
  BY LenProperties
<1> DEFINE R == {a[i] : i \in 1 .. n}
<1>2. a \in [1 .. n -> R]
  BY <1>1
<1>3. a \in Seq(R)
  BY <1>2, SeqDef
<1> QED BY <1>1, <1>3

\* A row is emitted: it goes after the others.
LEMMA RowAppended ==
  ASSUME BufferIsInOrder, NEW e, Emit(e)
  PROVE  /\ buffer' \in Seq({buffer'[i] : i \in DOMAIN buffer'})
         /\ Len(buffer) \in Nat /\ DOMAIN buffer = 1 .. Len(buffer)
         /\ DOMAIN buffer' = 1 .. Len(buffer) + 1
         /\ buffer'[Len(buffer) + 1] = e
         /\ \A i \in DOMAIN buffer : buffer'[i] = buffer[i]
<1> DEFINE X == {buffer[i] : i \in DOMAIN buffer} \cup {e}
<1>1. buffer \in Seq(X)
  <2>1. {buffer[i] : i \in DOMAIN buffer} \subseteq X
    OBVIOUS
  <2>2. buffer \in Seq({buffer[i] : i \in DOMAIN buffer})
    BY DEF BufferIsInOrder
  <2> HIDE DEF X
  <2> QED BY <2>1, <2>2, SeqMonotonic
<1>2. e \in X
  OBVIOUS
<1> HIDE DEF X
<1>3. buffer' = Append(buffer, e)
  BY DEF Emit
<1>4. /\ buffer' \in Seq(X) /\ Len(buffer') = Len(buffer) + 1 /\ buffer'[Len(buffer) + 1] = e
      /\ \A i \in 1 .. Len(buffer) : buffer'[i] = buffer[i]
  BY <1>1, <1>2, <1>3, AppendProperties
<1>5. Len(buffer) \in Nat /\ DOMAIN buffer = 1 .. Len(buffer) /\ DOMAIN buffer' = 1 .. Len(buffer')
  BY <1>1, <1>4, LenProperties
<1> QED BY <1>4, <1>5, SeqOfOwn

\* What a row of a lane must find when it is emitted.
RowFits(e) ==
    e.kind \in ToolLanes =>
        /\ \A j \in DOMAIN buffer : ~Buffered(e.kind, e.key, j)
        /\ e.kind = "call" => ~ops[e.key].known
        /\ e.kind = "dispatch" => ~ops[e.key].dispatch
        /\ e.kind = "response" => ~ops[e.key].response
        /\ e.kind = "call" \/ ops[e.key].known
             \/ \E j \in DOMAIN buffer : Buffered("call", e.key, j)
        /\ e.key \in answered' \/ (stage' \in AtCall /\ e.key = call')

\* A row that fits keeps the buffer in order.
LEMMA RowEmitted ==
  ASSUME BufferIsInOrder, NEW e, Emit(e), RowFits(e), RowIsNamed(e)', ops' = ops,
         issued \subseteq issued', answered \subseteq answered',
         stage \in AtCall => call \in answered' \/ (stage' \in AtCall /\ call' = call)
  PROVE  BufferIsInOrder'
<1>1. PICK n \in Nat : /\ DOMAIN buffer = 1 .. n /\ DOMAIN buffer' = 1 .. n + 1
                       /\ buffer'[n + 1] = e /\ \A i \in 1 .. n : buffer'[i] = buffer[i]
  BY RowAppended
<1>2. ASSUME NEW i \in 1 .. n PROVE RowIsNamed(buffer[i])' /\ RowIsInOrder(i)'
  <2>1. buffer'[i] = buffer[i] /\ RowIsNamed(buffer[i]) /\ RowIsInOrder(i) /\ i \in DOMAIN buffer'
    BY <1>1 DEF BufferIsInOrder
  <2>2. RowIsNamed(buffer[i])'
    BY <2>1 DEF RowIsNamed
  <2>3. PICK b : b = buffer[i]
    OBVIOUS
  <2>4. ASSUME b.kind \in ToolLanes, NEW j \in 1 .. n + 1, buffer'[j].kind = b.kind, buffer'[j].key = b.key
        PROVE  j = i
    <3>1. CASE j = n + 1
      <4>1. Buffered(e.kind, e.key, i) /\ e.kind \in ToolLanes
        BY <1>1, <2>3, <2>4, <3>1 DEF Buffered
      <4> QED BY <1>1, <4>1 DEF RowFits
    <3>2. CASE j # n + 1
      <4>1. j \in 1 .. n
        BY <3>2
      <4>2. Buffered(b.kind, b.key, j)
        BY <1>1, <2>4, <4>1 DEF Buffered
      <4> QED BY <1>1, <2>1, <2>3, <2>4, <4>1, <4>2 DEF RowIsInOrder
    <3> QED BY <3>1, <3>2
  <2>5. ASSUME NEW j \in DOMAIN buffer, Buffered("call", b.key, j)
        PROVE  j \in DOMAIN buffer' /\ Buffered("call", b.key, j)'
    BY <1>1, <2>5 DEF Buffered
  <2>6. RowIsInOrder(i)'
    BY <1>1, <2>1, <2>3, <2>4, <2>5 DEF RowIsInOrder, Buffered
  <2> QED BY <2>2, <2>6
<1>3. RowIsNamed(buffer[n + 1])'
  BY <1>1
<1>4. RowIsInOrder(n + 1)'
  <2>1. ASSUME NEW j \in 1 .. n + 1, e.kind \in ToolLanes, buffer'[j].kind = e.kind, buffer'[j].key = e.key
        PROVE  j = n + 1
    <3>1. CASE j \in 1 .. n
      BY <1>1, <2>1, <3>1 DEF RowFits, Buffered
    <3> QED BY <3>1
  <2>2. ASSUME NEW j \in DOMAIN buffer, Buffered("call", e.key, j)
        PROVE  j \in DOMAIN buffer' /\ j < n + 1 /\ Buffered("call", e.key, j)'
    BY <1>1, <2>2 DEF Buffered
  <2> QED BY <1>1, <2>1, <2>2 DEF RowIsInOrder, RowFits, Buffered
<1>5. \A i \in DOMAIN buffer' : RowIsNamed(buffer[i])' /\ RowIsInOrder(i)'
  <2>1. ASSUME NEW i \in 1 .. n + 1 PROVE RowIsNamed(buffer[i])' /\ RowIsInOrder(i)'
    <3>1. CASE i = n + 1 BY <1>3, <1>4, <3>1
    <3>2. CASE i # n + 1
      <4>1. i \in 1 .. n BY <3>2
      <4> QED BY <1>2, <4>1
    <3> QED BY <3>1, <3>2
  <2> QED BY <1>1, <2>1
<1> QED BY <1>5, RowAppended DEF BufferIsInOrder

\* The rows rest while the turn moves on.
LEMMA BufferRests ==
  ASSUME BufferIsInOrder, UNCHANGED <<buffer, ops>>,
         issued \subseteq issued', answered \subseteq answered',
         stage \in AtCall => call \in answered' \/ (stage' \in AtCall /\ call' = call)
  PROVE  BufferIsInOrder'
<1>1. \A i \in DOMAIN buffer : RowIsNamed(buffer[i])' /\ RowIsInOrder(i)'
  BY DEF BufferIsInOrder, RowIsNamed, RowIsInOrder, Buffered
<1> QED BY <1>1 DEF BufferIsInOrder

\* What the scanner knows rests.
LEMMA KnownRests ==
  ASSUME KnownIsSaved, UNCHANGED ledgerVars, answered \subseteq answered'
  PROVE  KnownIsSaved'
  BY DEF KnownIsSaved, ledgerVars

\* The invariant but for the rows and the call the turn is at, in a step that leaves
\* the ledger alone.
LEMMA LedgerRests ==
  ASSUME RecoveryInv, UNCHANGED <<ledgerVars, foreign>>, issued' \subseteq Keys,
         answered' \subseteq issued', answered \subseteq answered', BufferIsInOrder', CallIsOpen'
  PROVE  RecoveryInv'
<1>1. KnownIsSaved'
  BY KnownRests DEF RecoveryInv
<1> QED BY <1>1 DEF RecoveryInv, LedgerIsSound, ledgerVars

\* Every step of a turn that only emits keeps the invariant.
LEMMA EmittingKeeps ==
  ASSUME RecoveryInv, StartTurn \/ Text \/ EndRun
  PROVE  RecoveryInv'
<1>1. PICK e : Emit(e) /\ e.kind \in {"user", "text", "terminal"} /\ e.id.source # "call"
  <2>1. CASE StartTurn
    <3>1. PICK m : Emit([kind |-> "user", id |-> UserId(m), marker |-> TRUE])
      BY <2>1 DEF StartTurn
    <3> QED BY <3>1 DEF UserId
  <2>2. CASE Text
    <3>1. PICK m : Emit([kind |-> "text", id |-> BackendId(m), marker |-> FALSE])
      BY <2>2 DEF Text
    <3> QED BY <3>1 DEF BackendId
  <2>3. CASE EndRun
    <3>1. PICK id : /\ id \in {BackendId(counter + 1), ErrorId(counter + 1), AbortId(counter + 1)}
                    /\ Emit([kind |-> "terminal", id |-> id, marker |-> FALSE])
      BY <2>3 DEF EndRun
    <3>2. id.source # "call"
      BY <3>1 DEF BackendId, ErrorId, AbortId
    <3> QED BY <3>1, <3>2
  <2> QED BY <2>1, <2>2, <2>3
<1>2. /\ UNCHANGED <<ledgerVars, foreign, issued, answered>>
      /\ stage \notin AtCall /\ stage' \notin AtCall
  BY DEF StartTurn, Text, EndRun, worldVars, AtCall
<1>3. RowIsNamed(e)' /\ RowFits(e)
  BY <1>1 DEF RowIsNamed, RowFits, ToolLanes
<1>4. BufferIsInOrder'
  BY <1>1, <1>2, <1>3, RowEmitted DEF RecoveryInv, ledgerVars
<1>5. CallIsOpen'
  BY <1>2 DEF CallIsOpen
<1> QED BY <1>2, <1>4, <1>5, LedgerRests DEF RecoveryInv

\* The provider makes a call: nothing of it is in the buffer or in the ledger.
LEMMA CallKeeps ==
  ASSUME RecoveryInv, NEW k \in Keys, Call(k)
  PROVE  RecoveryInv'
<1>1. PICK e : e = [kind |-> "call", id |-> CallId(k), key |-> k, name |-> AnyName]
  OBVIOUS
<1>2. /\ Emit(e) /\ UNCHANGED <<ledgerVars, foreign, answered>> /\ k \notin issued
      /\ issued' = issued \cup {k} /\ stage = "loop" /\ stage' = "called" /\ call' = k
  BY <1>1 DEF Call
<1>3. e.kind = "call" /\ e.key = k /\ e.name = AnyName /\ e.id = CallId(k)
  BY <1>1
<1>4. \A j \in DOMAIN buffer : buffer[j].kind \in ToolLanes => buffer[j].key # k
  BY <1>2 DEF RecoveryInv, BufferIsInOrder, RowIsNamed
<1>5. ~ops[k].known /\ ~ops[k].dispatch /\ ~ops[k].response
  BY <1>2 DEF RecoveryInv, KnownIsSaved
<1>6. RowIsNamed(e)'
  BY <1>2, <1>3 DEF RowIsNamed, ToolLanes
<1>7. RowFits(e)
  BY <1>2, <1>3, <1>4, <1>5 DEF RowFits, ToolLanes, Buffered, AtCall
<1>8. BufferIsInOrder'
  BY <1>2, <1>6, <1>7, RowEmitted DEF RecoveryInv, ledgerVars, AtCall
<1>9. CallIsOpen'
  <2>1. PICK n \in Nat : /\ DOMAIN buffer = 1 .. n /\ DOMAIN buffer' = 1 .. n + 1
                         /\ buffer'[n + 1] = e /\ \A i \in 1 .. n : buffer'[i] = buffer[i]
    BY <1>2, RowAppended DEF RecoveryInv
  <2>2. ASSUME NEW i \in DOMAIN buffer', buffer'[i].kind \in {"dispatch", "response"}
        PROVE  buffer'[i].key # k
    <3>1. i # n + 1
      BY <1>3, <2>1, <2>2
    <3>2. i \in 1 .. n
      BY <2>1, <3>1
    <3> QED BY <1>4, <2>1, <2>2, <3>2 DEF ToolLanes
  <2>3. \E i \in DOMAIN buffer' : buffer'[i].kind = "call" /\ buffer'[i].key = k
    BY <1>3, <2>1
  <2>4. ops' = ops
    BY <1>2 DEF ledgerVars
  <2> QED BY <1>2, <1>5, <2>2, <2>3, <2>4 DEF CallIsOpen, Buffered
<1> QED BY <1>2, <1>8, <1>9, LedgerRests DEF RecoveryInv

\* The turn dispatches the call it is at.
LEMMA DispatchKeeps ==
  ASSUME RecoveryInv, Dispatch
  PROVE  RecoveryInv'
<1>1. PICK k, e : /\ k = call /\ e.kind = "dispatch" /\ e.key = k /\ e.name = AnyName
                  /\ e.id.source = "backend" /\ Emit(e)
  <2>1. PICK m, k : k = call /\ Emit([kind |-> "dispatch", id |-> BackendId(m), key |-> k,
                                      name |-> AnyName, op |-> OperationOf[k]])
    BY DEF Dispatch
  <2> QED BY <2>1 DEF BackendId
<1>2. /\ UNCHANGED <<ledgerVars, foreign, answered, issued, call>>
      /\ stage = "called" /\ stage' = "dispatched"
  BY DEF Dispatch, worldVars
<1>3. /\ k \in issued /\ ~ops[k].known /\ ~ops[k].dispatch /\ ~ops[k].response
      /\ \E i \in DOMAIN buffer : Buffered("call", k, i)
      /\ \A i \in DOMAIN buffer : ~Buffered("response", k, i) /\ ~Buffered("dispatch", k, i)
  BY <1>1, <1>2 DEF RecoveryInv, CallIsOpen, AtCall
<1>4. RowIsNamed(e)'
  BY <1>1, <1>2, <1>3 DEF RowIsNamed, ToolLanes
<1>5. RowFits(e)
  BY <1>1, <1>2, <1>3 DEF RowFits, ToolLanes, AtCall
<1>6. BufferIsInOrder'
  BY <1>1, <1>2, <1>4, <1>5, RowEmitted DEF RecoveryInv, ledgerVars, AtCall
<1>7. CallIsOpen'
  <2>1. PICK n \in Nat : /\ DOMAIN buffer = 1 .. n /\ DOMAIN buffer' = 1 .. n + 1
                         /\ buffer'[n + 1] = e /\ \A i \in 1 .. n : buffer'[i] = buffer[i]
    BY <1>1, RowAppended DEF RecoveryInv
  <2>2. ASSUME NEW i \in DOMAIN buffer', buffer'[i].kind = "response"
        PROVE  buffer'[i].key # k
    <3>1. i # n + 1
      BY <1>1, <2>1, <2>2
    <3>2. i \in 1 .. n
      BY <2>1, <3>1
    <3> QED BY <1>3, <2>1, <2>2, <3>2 DEF Buffered
  <2>3. \E i \in DOMAIN buffer' : buffer'[i].kind = "call" /\ buffer'[i].key = k
    BY <1>3, <2>1 DEF Buffered
  <2>4. ops' = ops /\ call' = k
    BY <1>1, <1>2 DEF ledgerVars
  <2> QED BY <1>2, <1>3, <2>2, <2>3, <2>4 DEF CallIsOpen, Buffered
<1> QED BY <1>2, <1>6, <1>7, LedgerRests DEF RecoveryInv

\* The tool runs.
LEMMA ExecuteKeeps ==
  ASSUME RecoveryInv, Execute
  PROVE  RecoveryInv'
<1>1. /\ UNCHANGED <<ledgerVars, foreign, answered, issued, call, buffer>>
      /\ stage = "dispatched" /\ stage' = "executed"
  BY DEF Execute
<1>2. BufferIsInOrder'
  BY <1>1, BufferRests DEF RecoveryInv, ledgerVars, AtCall
<1>3. CallIsOpen'
  BY <1>1 DEF RecoveryInv, CallIsOpen, AtCall, Buffered, ledgerVars
<1> QED BY <1>1, <1>2, <1>3, LedgerRests DEF RecoveryInv

\* The model is given the result of the call the turn is at.
LEMMA AnswerKeeps ==
  ASSUME RecoveryInv, Answer
  PROVE  RecoveryInv'
<1>1. PICK k, e : /\ k = call /\ e.kind = "response" /\ e.key = k /\ e.name = AnyName
                  /\ e.id.source = "backend" /\ Emit(e)
  <2>1. PICK m, k : k = call /\ Emit([kind |-> "response", id |-> BackendId(m), key |-> k,
                                      name |-> AnyName])
    BY DEF Answer
  <2> QED BY <2>1 DEF BackendId
<1>2. /\ UNCHANGED <<ledgerVars, foreign, issued>> /\ answered' = answered \cup {k}
      /\ stage = "executed" /\ stage' = "loop"
  BY <1>1 DEF Answer
<1>3. /\ k \in issued /\ ~ops[k].known /\ ~ops[k].dispatch /\ ~ops[k].response
      /\ \E i \in DOMAIN buffer : Buffered("call", k, i)
      /\ \A i \in DOMAIN buffer : ~Buffered("response", k, i)
  BY <1>1, <1>2 DEF RecoveryInv, CallIsOpen, AtCall
<1>4. RowIsNamed(e)'
  BY <1>1, <1>2, <1>3 DEF RowIsNamed, ToolLanes
<1>5. RowFits(e)
  BY <1>1, <1>2, <1>3 DEF RowFits, ToolLanes
<1>6. BufferIsInOrder'
  BY <1>1, <1>2, <1>4, <1>5, RowEmitted DEF RecoveryInv, ledgerVars
<1>7. CallIsOpen'
  BY <1>2 DEF CallIsOpen, AtCall
<1> QED BY <1>2, <1>3, <1>6, <1>7, LedgerRests DEF RecoveryInv

\* The host dies: nothing is buffered, and the ledger is what it was.
LEMMA CrashKeeps ==
  ASSUME RecoveryInv, Crash
  PROVE  RecoveryInv'
<1>1. /\ UNCHANGED <<ledgerVars, foreign, answered, issued>> /\ buffer' = <<>> /\ stage' = "idle"
  BY DEF Crash
<1>2. BufferIsInOrder'
  <2>1. DOMAIN buffer' = {}
    BY <1>1
  <2>2. buffer' \in Seq({buffer'[i] : i \in DOMAIN buffer'})
    BY <1>1, EmptySeq
  <2> QED BY <2>1, <2>2 DEF BufferIsInOrder
<1>3. CallIsOpen'
  BY <1>1 DEF CallIsOpen, AtCall
<1> QED BY <1>1, <1>2, <1>3, LedgerRests DEF RecoveryInv

\* The row that is appended next, and those behind it.
LEMMA RowTaken ==
  ASSUME RecoveryInv, Save
  PROVE  \E n \in Nat :
           /\ DOMAIN buffer = 1 .. n + 1 /\ DOMAIN buffer' = 1 .. n /\ Head(buffer) = buffer[1]
           /\ \A i \in 1 .. n : buffer'[i] = buffer[i + 1]
           /\ buffer' \in Seq({buffer'[i] : i \in DOMAIN buffer'})
<1>1. PICK X : buffer \in Seq(X) /\ buffer # <<>> /\ buffer' = Tail(buffer)
  BY DEF RecoveryInv, BufferIsInOrder, Save
<1>2. /\ Tail(buffer) \in Seq(X) /\ Len(Tail(buffer)) = Len(buffer) - 1
      /\ \A i \in 1 .. Len(Tail(buffer)) : Tail(buffer)[i] = buffer[i + 1]
  BY <1>1, HeadTailProperties
<1>3. Len(buffer) \in Nat \ {0} /\ DOMAIN buffer = 1 .. Len(buffer)
  BY <1>1, EmptySeq, LenProperties
<1>4. DOMAIN buffer' = 1 .. Len(Tail(buffer))
  BY <1>1, <1>2, LenProperties
<1>5. Head(buffer) = buffer[1]
  BY <1>1
<1>6. PICK n \in Nat : n = Len(buffer) - 1 /\ Len(buffer) = n + 1
  <2>1. PICK k \in Nat \ {0} : k = Len(buffer)
    BY <1>3
  <2>2. k - 1 \in Nat /\ k = (k - 1) + 1
    OBVIOUS
  <2> QED BY <2>1, <2>2
<1>7. buffer' \in Seq({buffer'[i] : i \in DOMAIN buffer'})
  <2>1. buffer' \in Seq(X)
    BY <1>1, <1>2
  <2> QED BY <2>1, SeqOfOwn
<1> QED BY <1>1, <1>2, <1>3, <1>4, <1>5, <1>6, <1>7

\* What a row does to the ledger: the scanner finds its call as it should be.
RowLands(e) ==
    /\ ops' \in [Keys -> Op] /\ ~corrupt'
    /\ \A k \in Keys :
         \/ ops'[k] = ops[k]
         \/ /\ e.kind \in ToolLanes /\ e.key = k /\ ops'[k].known /\ ops'[k].name = AnyName
            /\ ops'[k].dispatch = (ops[k].dispatch \/ e.kind = "dispatch")
            /\ ops'[k].response = (ops[k].response \/ e.kind = "response")
    /\ e.kind = "call" => ops'[e.key].known
    /\ \A k \in Keys : CallId(k) \in seen' <=> CallId(k) \in seen \/ (e.kind = "call" /\ e.key = k)

\* A call's id is its own.
LEMMA NamesOfCalls ==
  ASSUME NEW j, NEW k, CallId(j) = CallId(k)
  PROVE  j = k
  BY DEF CallId

\* Every row of the buffer lands so, or is lost and was no call.
LEMMA SaveLands ==
  ASSUME RecoveryInv, Save, NEW e, e = Head(buffer)
  PROVE  RowLands(e)
<1>1. PICK n \in Nat : /\ DOMAIN buffer = 1 .. n + 1 /\ e = buffer[1]
  BY RowTaken
<1>2. RowIsNamed(e) /\ RowIsInOrder(1)
  BY <1>1 DEF RecoveryInv, BufferIsInOrder
<1>3. \A j \in DOMAIN buffer : ~(j < 1)
  BY <1>1
<1>4. /\ e.kind = "call" => ~ops[e.key].known
      /\ e.kind = "dispatch" => ops[e.key].known /\ ~ops[e.key].dispatch
      /\ e.kind = "response" => ops[e.key].known /\ ~ops[e.key].response
  BY <1>1, <1>2, <1>3 DEF RowIsInOrder, ToolLanes
<1>5. e.kind \in ToolLanes => e.key \in Keys
  BY <1>2 DEF RowIsNamed, RecoveryInv
<1>6. ops \in [Keys -> Op] /\ ~corrupt
  BY DEF RecoveryInv, LedgerIsSound
<1>7. CASE UNCHANGED ledgerVars /\ e.id \in seen \cup foreign
  <2>1. e.kind # "call"
    <3> SUFFICES ASSUME e.kind = "call" PROVE FALSE
      OBVIOUS
    <3>1. e.id = CallId(e.key) /\ e.key \in Keys /\ ~ops[e.key].known
      BY <1>2, <1>4, <1>5 DEF RowIsNamed, ToolLanes
    <3>2. e.id \notin seen
      BY <3>1 DEF RecoveryInv, KnownIsSaved
    <3>3. e.id \notin foreign
      BY <3>1 DEF RecoveryInv, CallId
    <3> QED BY <1>7, <3>2, <3>3
  <2> QED BY <1>6, <1>7, <2>1 DEF RowLands, ledgerVars
<1>8. CASE ScanEvent(e) /\ e.id \notin seen
  <2>1. seen' = seen \cup {e.id}
    BY <1>8 DEF ScanEvent, Duplicate, FirstCall, LaterCall, FirstDispatch, LaterDispatch, OrphanDispatch,
       FirstResponse, LaterResponse, OrphanResponse, Reconcile, Decide, StrayFact, Ordinary, Note
  <2>2. ASSUME NEW k \in Keys
        PROVE  CallId(k) \in seen' <=> CallId(k) \in seen \/ (e.kind = "call" /\ e.key = k)
    <3>1. CASE e.kind = "call"
      BY <1>2, <2>1, <3>1, NamesOfCalls DEF RowIsNamed
    <3>2. CASE e.kind # "call"
      <4>1. e.id # CallId(k)
        BY <1>2, <3>2 DEF RowIsNamed, CallId
      <4> QED BY <2>1, <3>2, <4>1
    <3> QED BY <3>1, <3>2
  <2>3. CASE e.kind = "call"
    <3>1. FirstCall(e)
      BY <1>4, <1>8, <2>3 DEF ScanEvent, Duplicate, LaterCall, FirstDispatch, LaterDispatch, OrphanDispatch,
         FirstResponse, LaterResponse, OrphanResponse, Reconcile, Decide, StrayFact, Ordinary
    <3>2. PICK o : o = [Opened(e) EXCEPT !.call = TRUE]
      OBVIOUS
    <3>3. ops' = [ops EXCEPT ![e.key] = o] /\ ~corrupt'
      BY <1>6, <3>1, <3>2 DEF FirstCall
    <3>4. Unknown \in Op /\ e.name \in Names /\ e.name = AnyName /\ Unknown.dispatch = FALSE /\ Unknown.response = FALSE
      BY <1>2, <2>3, UnknownType, ToolLedgerAssumption DEF RowIsNamed, AnyName, ToolLanes, Unknown
    <3>5. o \in Op /\ o.known /\ o.name = AnyName /\ o.dispatch = FALSE /\ o.response = FALSE
      BY <3>2, <3>4 DEF Opened, Op
    <3>6. ~ops[e.key].dispatch /\ ~ops[e.key].response
      BY <1>4, <1>5, <2>3 DEF RecoveryInv, KnownIsSaved, ToolLanes
    <3>7. e.key \in Keys
      BY <1>5, <2>3 DEF ToolLanes
    <3>8. ops' \in [Keys -> Op] /\ ops'[e.key] = o /\ \A k \in Keys : k # e.key => ops'[k] = ops[k]
      BY <1>6, <3>3, <3>5, <3>7
    <3>9. ops'[e.key].dispatch = (ops[e.key].dispatch \/ e.kind = "dispatch")
          /\ ops'[e.key].response = (ops[e.key].response \/ e.kind = "response")
      BY <2>3, <3>5, <3>6, <3>8
    <3> QED BY <2>2, <2>3, <3>3, <3>5, <3>8, <3>9 DEF RowLands, ToolLanes
  <2>4. CASE e.kind = "dispatch"
    <3>1. FirstDispatch(e)
      BY <1>4, <1>8, <2>4 DEF ScanEvent, Duplicate, FirstCall, LaterCall, LaterDispatch, OrphanDispatch,
         FirstResponse, LaterResponse, OrphanResponse, Reconcile, Decide, StrayFact, Ordinary
    <3>2. e.key \in Keys /\ ops[e.key].known /\ ops[e.key].name = AnyName
      BY <1>4, <1>5, <2>4 DEF RecoveryInv, KnownIsSaved, ToolLanes
    <3>3. PICK o : o = [ops[e.key] EXCEPT !.dispatch = TRUE]
      OBVIOUS
    <3>4. ops' = [ops EXCEPT ![e.key] = o] /\ ~corrupt'
      BY <1>6, <3>1, <3>3 DEF FirstDispatch
    <3>5. o \in Op /\ o.known /\ o.name = AnyName /\ o.dispatch /\ o.response = ops[e.key].response
      BY <1>6, <3>2, <3>3 DEF Op
    <3>6. ops' \in [Keys -> Op] /\ ops'[e.key] = o /\ \A k \in Keys : k # e.key => ops'[k] = ops[k]
      BY <1>6, <3>2, <3>4, <3>5
    <3>7. ops'[e.key].dispatch = (ops[e.key].dispatch \/ e.kind = "dispatch")
          /\ ops'[e.key].response = (ops[e.key].response \/ e.kind = "response")
      BY <1>6, <2>4, <3>2, <3>5, <3>6 DEF Op
    <3> QED BY <2>2, <2>4, <3>4, <3>5, <3>6, <3>7 DEF RowLands, ToolLanes
  <2>5. CASE e.kind = "response"
    <3>1. FirstResponse(e)
      BY <1>4, <1>8, <2>5 DEF ScanEvent, Duplicate, FirstCall, LaterCall, FirstDispatch, LaterDispatch,
         OrphanDispatch, LaterResponse, OrphanResponse, Reconcile, Decide, StrayFact, Ordinary
    <3>2. e.key \in Keys /\ ops[e.key].known /\ ops[e.key].name = AnyName /\ e.name = AnyName
      BY <1>2, <1>4, <1>5, <2>5 DEF RecoveryInv, KnownIsSaved, ToolLanes, RowIsNamed
    <3>3. PICK f \in BOOLEAN : \E o : /\ o = [ops[e.key] EXCEPT !.response = TRUE, !.flawed = f]
                                       /\ ops' = [ops EXCEPT ![e.key] = o]
      BY <1>6, <3>1, <3>2 DEF FirstResponse, Op
    <3>4. PICK o : /\ o = [ops[e.key] EXCEPT !.response = TRUE, !.flawed = f]
                   /\ ops' = [ops EXCEPT ![e.key] = o]
      BY <3>3
    <3>5. ~corrupt'
      BY <3>1, <3>2 DEF FirstResponse, RecoveryInv, LedgerIsSound
    <3>6. o \in Op /\ o.known /\ o.name = AnyName /\ o.response /\ o.dispatch = ops[e.key].dispatch
      BY <1>6, <3>2, <3>4 DEF Op
    <3>7. ops' \in [Keys -> Op] /\ ops'[e.key] = o /\ \A k \in Keys : k # e.key => ops'[k] = ops[k]
      BY <1>6, <3>2, <3>4, <3>6
    <3>8. ops'[e.key].dispatch = (ops[e.key].dispatch \/ e.kind = "dispatch")
          /\ ops'[e.key].response = (ops[e.key].response \/ e.kind = "response")
      BY <1>6, <2>5, <3>2, <3>6, <3>7 DEF Op
    <3> QED BY <2>2, <2>5, <3>5, <3>6, <3>7, <3>8 DEF RowLands, ToolLanes
  <2>6. CASE e.kind \notin ToolLanes
    <3>1. Ordinary(e)
      BY <1>2, <1>8, <2>6 DEF ScanEvent, Duplicate, FirstCall, LaterCall, FirstDispatch, LaterDispatch,
         OrphanDispatch, FirstResponse, LaterResponse, OrphanResponse, Reconcile, Decide, StrayFact,
         RowIsNamed, ToolLanes
    <3> QED BY <1>6, <2>2, <2>6, <3>1 DEF Ordinary, RowLands, ToolLanes
  <2> QED BY <2>3, <2>4, <2>5, <2>6 DEF ToolLanes
<1> QED BY <1>7, <1>8 DEF Save

\* A row is appended, or lost: the rows behind it and what is known of the calls stay
\* in order.
LEMMA SaveKeeps ==
  ASSUME RecoveryInv, Save
  PROVE  RecoveryInv'
<1>1. PICK e : e = Head(buffer)
  OBVIOUS
<1>2. PICK n \in Nat : /\ DOMAIN buffer = 1 .. n + 1 /\ DOMAIN buffer' = 1 .. n /\ e = buffer[1]
                       /\ \A i \in 1 .. n : buffer'[i] = buffer[i + 1]
                       /\ buffer' \in Seq({buffer'[i] : i \in DOMAIN buffer'})
  BY <1>1, RowTaken
<1>3. RowLands(e)
  BY <1>1, SaveLands
<1>4. /\ UNCHANGED <<call, foreign, issued, answered>> /\ stage = "saving" /\ stage' \in {"idle", "saving"}
  BY DEF Save, worldVars
<1>5. RowIsNamed(e) /\ RowIsInOrder(1) /\ 1 \in DOMAIN buffer
  <2>1. 1 \in DOMAIN buffer
    BY <1>2
  <2> QED BY <1>2, <2>1 DEF RecoveryInv, BufferIsInOrder
<1>6. e.kind \in ToolLanes => e.key \in answered /\ e.key \in Keys
  BY <1>2, <1>4, <1>5 DEF RowIsInOrder, RowIsNamed, RecoveryInv, AtCall
<1>7. \A k \in Keys : ops[k].known => ops'[k].known
  BY <1>3 DEF RowLands
<1>8. KnownIsSaved'
  <2>1. ASSUME NEW k \in Keys
        PROVE  /\ ops'[k].known <=> CallId(k) \in seen'
               /\ ops'[k].known => k \in answered /\ ops'[k].name = AnyName
               /\ ~ops'[k].known => ~ops'[k].dispatch /\ ~ops'[k].response
    <3>1. /\ ops[k].known <=> CallId(k) \in seen
          /\ ops[k].known => k \in answered /\ ops[k].name = AnyName
          /\ ~ops[k].known => ~ops[k].dispatch /\ ~ops[k].response
      BY DEF RecoveryInv, KnownIsSaved
    <3>2. CallId(k) \in seen' <=> CallId(k) \in seen \/ (e.kind = "call" /\ e.key = k)
      BY <1>3 DEF RowLands
    <3>3. e.kind \in {"dispatch", "response"} => ops[e.key].known
      BY <1>2, <1>5 DEF RowIsInOrder, ToolLanes
    <3>4. CASE ops'[k] = ops[k]
      BY <1>3, <3>1, <3>2, <3>4 DEF RowLands
    <3>5. CASE e.kind \in ToolLanes /\ e.key = k /\ ops'[k].known /\ ops'[k].name = AnyName
      <4>1. CallId(k) \in seen'
        BY <3>1, <3>2, <3>3, <3>5 DEF ToolLanes
      <4> QED BY <1>6, <3>5, <4>1
    <3> QED BY <1>3, <3>4, <3>5 DEF RowLands
  <2> QED BY <1>4, <2>1 DEF KnownIsSaved
<1>9. ASSUME NEW i \in 1 .. n PROVE RowIsNamed(buffer[i])' /\ RowIsInOrder(i)'
  <2>1. PICK m \in 2 .. n + 1, f \in {buffer'[i]} :
          m = i + 1 /\ f = buffer[m] /\ f = buffer'[i] /\ m \in DOMAIN buffer
    BY <1>2
  <2>2. RowIsNamed(f) /\ RowIsInOrder(m)
    BY <2>1 DEF RecoveryInv, BufferIsInOrder
  <2>3. RowIsNamed(buffer[i])'
    BY <1>4, <2>1, <2>2 DEF RowIsNamed
  <2>4. ASSUME f.kind \in ToolLanes, NEW j \in 1 .. n, buffer'[j].kind = f.kind, buffer'[j].key = f.key
        PROVE  j = i
    <3>1. j + 1 \in DOMAIN buffer /\ Buffered(f.kind, f.key, j + 1)
      BY <1>2, <2>4 DEF Buffered
    <3>2. j + 1 = m
      BY <2>1, <2>2, <2>4, <3>1 DEF RowIsInOrder
    <3> QED BY <2>1, <3>2
  <2>5. ASSUME f.kind \in ToolLanes
        PROVE  /\ f.kind = "call" => ~ops'[f.key].known
               /\ f.kind = "dispatch" => ~ops'[f.key].dispatch
               /\ f.kind = "response" => ~ops'[f.key].response
    <3>1. f.key \in Keys
      BY <2>2, <2>5 DEF RowIsNamed, RecoveryInv
    <3>2. /\ f.kind = "call" => ~ops[f.key].known
          /\ f.kind = "dispatch" => ~ops[f.key].dispatch
          /\ f.kind = "response" => ~ops[f.key].response
      BY <2>1, <2>2, <2>5 DEF RowIsInOrder
    <3>3. ~(e.kind = f.kind /\ e.key = f.key)
      <4>1. e.kind = f.kind /\ e.key = f.key => Buffered(f.kind, f.key, 1)
        BY <1>2 DEF Buffered
      <4>2. Buffered(f.kind, f.key, 1) => 1 = m
        BY <1>5, <2>1, <2>2, <2>5 DEF RowIsInOrder
      <4> QED BY <2>1, <4>1, <4>2
    <3>4. CASE ops'[f.key] = ops[f.key]
      BY <3>2, <3>4
    <3>5. CASE ops'[f.key] # ops[f.key]
      <4>1. /\ e.kind \in ToolLanes /\ e.key = f.key
            /\ ops'[f.key].dispatch = (ops[f.key].dispatch \/ e.kind = "dispatch")
            /\ ops'[f.key].response = (ops[f.key].response \/ e.kind = "response")
        BY <1>3, <3>1, <3>5 DEF RowLands
      <4>2. f.kind # "call"
        <5>1. e.kind \in {"dispatch", "response"} => ops[e.key].known
          BY <1>2, <1>5 DEF RowIsInOrder, ToolLanes
        <5> QED BY <3>2, <3>3, <4>1, <5>1 DEF ToolLanes
      <4> QED BY <3>2, <3>3, <4>1, <4>2
    <3> QED BY <3>4, <3>5
  <2>6. ASSUME f.kind \in ToolLanes, f.kind # "call", ~ops'[f.key].known
        PROVE  \E j \in DOMAIN buffer' : j < i /\ buffer'[j].kind = "call" /\ buffer'[j].key = f.key
    <3>1. f.key \in Keys
      BY <2>2, <2>6 DEF RowIsNamed, RecoveryInv
    <3>2. PICK j \in DOMAIN buffer : j < m /\ Buffered("call", f.key, j)
      BY <1>7, <2>1, <2>2, <2>6, <3>1 DEF RowIsInOrder
    <3>3. j # 1
      BY <1>2, <1>3, <2>6, <3>2 DEF Buffered, RowLands
    <3>4. PICK h \in 1 .. n : j = h + 1
      <4>1. j - 1 \in 1 .. n /\ j = (j - 1) + 1
        BY <1>2, <3>3
      <4> QED BY <4>1
    <3>5. h < i
      BY <2>1, <3>2, <3>4
    <3>6. h \in DOMAIN buffer' /\ buffer'[h] = buffer[j]
      BY <1>2, <3>4
    <3> QED BY <3>2, <3>5, <3>6 DEF Buffered
  <2>7. f.kind \in ToolLanes => f.key \in answered'
    BY <1>4, <2>1, <2>2 DEF RowIsInOrder, AtCall
  <2>8. RowIsInOrder(i)'
    BY <1>2, <2>1, <2>4, <2>5, <2>6, <2>7 DEF RowIsInOrder, Buffered
  <2> QED BY <2>3, <2>8
<1>10. BufferIsInOrder'
  BY <1>2, <1>9 DEF BufferIsInOrder
<1>11. CallIsOpen'
  BY <1>4 DEF CallIsOpen, AtCall
<1> QED BY <1>3, <1>4, <1>8, <1>10, <1>11 DEF RecoveryInv, RowLands, LedgerIsSound

\* Nothing is buffered or known at first.
LEMMA RecoveryInit == Init => RecoveryInv
<1> SUFFICES ASSUME Init PROVE RecoveryInv
  OBVIOUS
<1>1. /\ buffer = <<>> /\ stage = "idle" /\ issued = {} /\ answered = {} /\ corrupt = FALSE /\ seen = {}
      /\ \A k \in Keys : ops[k] = Unknown
  BY DEF Init, LedgerInit
<1>2. ops \in [Keys -> Op]
  BY UnknownType DEF Init, LedgerInit
<1>3. BufferIsInOrder
  <2>1. DOMAIN buffer = {}
    BY <1>1
  <2>2. buffer \in Seq({buffer[i] : i \in DOMAIN buffer})
    BY <1>1, EmptySeq
  <2> QED BY <2>1, <2>2 DEF BufferIsInOrder
<1>4. KnownIsSaved
  <2>1. ~Unknown.known /\ ~Unknown.dispatch /\ ~Unknown.response
    BY DEF Unknown
  <2> QED BY <1>1, <2>1 DEF KnownIsSaved
<1>5. CallIsOpen
  BY <1>1 DEF CallIsOpen, AtCall
<1>6. \A id \in foreign : id.source # "call"
  <2>1. CASE foreign = {}
    BY <2>1
  <2>2. ASSUME NEW n \in Nat, foreign = ForeignIds(n) PROVE \A id \in foreign : id.source # "call"
    <3>1. ASSUME NEW id \in foreign PROVE id.source # "call"
      <4>1. \E m : id = UserId(m) \/ id = BackendId(m)
        BY <2>2 DEF ForeignIds
      <4> QED BY <4>1 DEF UserId, BackendId
    <3> QED BY <3>1
  <2>3. foreign = {} \/ \E n \in Nat : foreign = ForeignIds(n)
    BY ToolRecoveryAssumption DEF Init
  <2> QED BY <2>1, <2>2, <2>3
<1> QED BY <1>1, <1>2, <1>3, <1>4, <1>5, <1>6 DEF RecoveryInv, LedgerIsSound

\* Every step keeps the invariant.
LEMMA RecoveryNext == RecoveryInv /\ [Next]_vars => RecoveryInv'
<1> SUFFICES ASSUME RecoveryInv, [Next]_vars PROVE RecoveryInv'
  OBVIOUS
<1>1. CASE UNCHANGED vars
  <2>1. UNCHANGED <<ledgerVars, foreign, issued, answered, buffer, stage, call>>
    BY <1>1 DEF vars, turnVars, worldVars
  <2>2. BufferIsInOrder'
    BY <2>1, BufferRests DEF RecoveryInv, ledgerVars
  <2>3. CallIsOpen'
    BY <2>1 DEF RecoveryInv, CallIsOpen, Buffered, ledgerVars
  <2> QED BY <2>1, <2>2, <2>3, LedgerRests DEF RecoveryInv
<1> QED BY <1>1, EmittingKeeps, CallKeeps, DispatchKeeps, ExecuteKeeps, AnswerKeeps, SaveKeeps, CrashKeeps
        DEF Next

\* Whatever appends are lost and wherever the host dies, the scanner finds no issue in
\* the ledger: a blocked resume always means an open call.
THEOREM LedgerAlwaysSound == Spec => []LedgerIsSound
<1>1. RecoveryInv => LedgerIsSound
  BY DEF RecoveryInv
<1> QED BY <1>1, RecoveryInit, RecoveryNext, PTL DEF Spec

\* A call of which a resumed host finds any row was answered before its turn ended: of a
\* call that a crash cut short there is none, not the dispatch fact either.
THEOREM DurableCallsAlwaysOver == Spec => []DurableCallsAreOver
<1>1. RecoveryInv => DurableCallsAreOver
  BY DEF RecoveryInv, KnownIsSaved, DurableCallsAreOver
<1> QED BY <1>1, RecoveryInit, RecoveryNext, PTL DEF Spec
-----------------------------------------------------------------------------
(* The scan, which updates three indices as it goes, against the rules,     *)
(* which read the whole ledger at once.                                    *)

\* An event more: what was said of the events before it still holds of them.
LEMMA EventsGrow ==
    ASSUME LedgerType, IdsAreSeen, NEW e \in Events, events' = Append(events, e),
           NEW n \in Nat, n = Len(events)
    PROVE /\ Len(events') = n + 1
          /\ DOMAIN events = 1 .. n /\ DOMAIN events' = 1 .. n + 1
          /\ \A i \in 1 .. n : events'[i] = events[i]
          /\ events'[n + 1] = e
          /\ \A i \in 1 .. n : Counts(i)' <=> Counts(i)
          /\ Counts(n + 1)' <=> New(e)
<1>1. events \in Seq(Events)
  BY DEF LedgerType
<1>2. n \in Nat /\ Len(events') = n + 1 /\ DOMAIN events = 1 .. n /\ DOMAIN events' = 1 .. n + 1
  BY <1>1
<1>3. (\A i \in 1 .. n : events'[i] = events[i]) /\ events'[n + 1] = e
  BY <1>1
<1>4. \A i \in 1 .. n : Counts(i)' <=> Counts(i)
  BY <1>2, <1>3 DEF Counts
<1>5. Counts(n + 1)' <=> New(e)
  <2>1. Counts(n + 1)' <=> \A j \in 1 .. n : events[j].id # e.id
    BY <1>2, <1>3 DEF Counts
  <2> QED BY <2>1, <1>2 DEF New, IdsAreSeen
<1> QED BY <1>2, <1>3, <1>4, <1>5

\* A lane grows by the new event, if it is of the lane.
LEMMA LanesGrow ==
    ASSUME LedgerType, IdsAreSeen, NEW e \in Events, events' = Append(events, e),
           NEW n \in Nat, n = Len(events)
    PROVE \A kind, k : Lane(kind, k)' =
            Lane(kind, k) \cup
              IF New(e) /\ e.kind = kind /\ e.key = k THEN {n + 1} ELSE {}
<1>1. DOMAIN events = 1 .. n /\ DOMAIN events' = 1 .. n + 1
  BY EventsGrow
<1>2. (\A i \in 1 .. n : events'[i] = events[i]) /\ events'[n + 1] = e
  BY EventsGrow
<1>3. (\A i \in 1 .. n : Counts(i)' <=> Counts(i)) /\ (Counts(n + 1)' <=> New(e))
  BY EventsGrow
<1>4. ASSUME NEW kind, NEW k
      PROVE  Lane(kind, k)' = Lane(kind, k) \cup
               IF New(e) /\ e.kind = kind /\ e.key = k THEN {n + 1} ELSE {}
  <2>1. ASSUME NEW i
        PROVE  i \in Lane(kind, k)' <=>
                 i \in Lane(kind, k) \/ (i = n + 1 /\ New(e) /\ e.kind = kind /\ e.key = k)
    <3>1. CASE i \in 1 .. n
      BY <1>1, <1>2, <1>3, <3>1 DEF Lane
    <3>2. CASE i = n + 1
      BY <1>1, <1>2, <1>3, <3>2 DEF Lane
    <3>3. CASE i \notin 1 .. n + 1
      BY <1>1, <3>3 DEF Lane
    <3> QED BY <1>1, <3>1, <3>2, <3>3
  <2> QED BY <2>1
<1> QED BY <1>4

\* A lane's numbers are numbers of events.
LEMMA LaneIsBelow ==
    ASSUME NEW kind, NEW k
    PROVE  Lane(kind, k) \subseteq DOMAIN events
  BY DEF Lane

\* The first dispatch of a call stays the first.
LEMMA AssignsGrow ==
    ASSUME LedgerType, IdsAreSeen, NEW e \in Events, events' = Append(events, e),
           NEW n \in Nat, n = Len(events)
    PROVE /\ \A i \in 1 .. n : Assigns(i)' <=> Assigns(i)
          /\ Assigns(n + 1)' <=>
               New(e) /\ e.kind = "dispatch" /\ Lane("dispatch", e.key) = {}
<1>1. DOMAIN events = 1 .. n
  BY EventsGrow
<1>2. (\A i \in 1 .. n : events'[i] = events[i]) /\ events'[n + 1] = e
  BY EventsGrow
<1>3. (\A i \in 1 .. n : Counts(i)' <=> Counts(i)) /\ (Counts(n + 1)' <=> New(e))
  BY EventsGrow
<1>4. \A k : Lane("dispatch", k)' = Lane("dispatch", k) \cup
               IF New(e) /\ e.kind = "dispatch" /\ e.key = k THEN {n + 1} ELSE {}
  BY LanesGrow
<1>5. \A k : Lane("dispatch", k) \subseteq 1 .. n
  BY <1>1, LaneIsBelow
<1>6. ASSUME NEW i \in 1 .. n PROVE Assigns(i)' <=> Assigns(i)
  <2>1. (\A j \in Lane("dispatch", events[i].key)' : i <= j)
          <=> \A j \in Lane("dispatch", events[i].key) : i <= j
    BY <1>1, <1>4, <1>5
  <2> QED BY <1>2, <1>3, <2>1 DEF Assigns
<1>7. Assigns(n + 1)' <=> New(e) /\ e.kind = "dispatch" /\ Lane("dispatch", e.key) = {}
  <2>1. (\A j \in Lane("dispatch", e.key)' : n + 1 <= j) <=> Lane("dispatch", e.key) = {}
    BY <1>1, <1>4, <1>5
  <2> QED BY <1>2, <1>3, <2>1 DEF Assigns
<1> QED BY <1>6, <1>7

\* What a recovery fact is about was settled when it was written.
LEMMA AboutGrows ==
    ASSUME LedgerType, IdsAreSeen, NEW e \in Events, events' = Append(events, e),
           NEW n \in Nat, n = Len(events)
    PROVE /\ \A i, j \in 1 .. n : About(i, j)' <=> About(i, j)
          /\ \A j \in 1 .. n : About(n + 1, j)' <=> GaveLast(j, e.op)
          /\ \A i \in 1 .. n + 1 : ~About(i, n + 1)'
<1>1. (\A i \in 1 .. n : events'[i] = events[i]) /\ events'[n + 1] = e
  BY EventsGrow
<1>2. \A i \in 1 .. n : Assigns(i)' <=> Assigns(i)
  BY AssignsGrow
<1>3. ASSUME NEW i \in 1 .. n, NEW j \in 1 .. n PROVE About(i, j)' <=> About(i, j)
  <2>1. \A m \in j + 1 .. i - 1 : m \in 1 .. n
    OBVIOUS
  <2> QED BY <1>1, <1>2, <2>1 DEF About
<1>4. ASSUME NEW j \in 1 .. n PROVE About(n + 1, j)' <=> GaveLast(j, e.op)
  <2>1. (\A m \in j + 1 .. n : m \in 1 .. n) /\ (n + 1) - 1 = n /\ j < n + 1
    OBVIOUS
  <2> QED BY <1>1, <1>2, <2>1 DEF About, GaveLast
<1>5. ASSUME NEW i \in 1 .. n + 1 PROVE ~About(i, n + 1)'
  BY DEF About
<1> QED BY <1>3, <1>4, <1>5

\* An operation id was given last by one event at most.
LEMMA OneGaveLast ==
    ASSUME LedgerType, NEW o, NEW i \in DOMAIN events, NEW j \in DOMAIN events,
           GaveLast(i, o), GaveLast(j, o)
    PROVE  i = j
<1>1. DOMAIN events = 1 .. Len(events) /\ Len(events) \in Nat
  BY DEF LedgerType
<1>2. ~(i < j) /\ ~(j < i)
  BY <1>1 DEF GaveLast
<1> QED BY <1>1, <1>2

\* The recovery facts about a call grow by one that names its operation id.
LEMMA FactsGrow ==
    ASSUME LedgerType, IdsAreSeen, IndexIsLast, NEW e \in Events, events' = Append(events, e),
           NEW n \in Nat, n = Len(events),
           NEW kind \in {"reconcile", "decision"}, NEW k \in Keys
    PROVE  Facts(kind, k)' = Facts(kind, k) \cup
             IF New(e) /\ e.kind = kind /\ byOperation[e.op] = k THEN {n + 1} ELSE {}
<1> DEFINE Joins == New(e) /\ e.kind = kind /\ byOperation[e.op] = k
<1>1. DOMAIN events = 1 .. n /\ DOMAIN events' = 1 .. n + 1
  BY EventsGrow
<1>2. (\A i \in 1 .. n : events'[i] = events[i]) /\ events'[n + 1] = e
  BY EventsGrow
<1>3. (\A i \in 1 .. n : Counts(i)' <=> Counts(i)) /\ (Counts(n + 1)' <=> New(e))
  BY EventsGrow
<1>4. /\ \A i, j \in 1 .. n : About(i, j)' <=> About(i, j)
      /\ \A j \in 1 .. n : About(n + 1, j)' <=> GaveLast(j, e.op)
      /\ \A i \in 1 .. n + 1 : ~About(i, n + 1)'
  BY AboutGrows
<1>5. ASSUME NEW i \in 1 .. n PROVE i \in Facts(kind, k)' <=> i \in Facts(kind, k)
  <2>1. (\E j \in DOMAIN events' : About(i, j)' /\ events'[j].key = k)
          <=> \E j \in DOMAIN events : About(i, j) /\ events[j].key = k
    BY <1>1, <1>2, <1>4
  <2> QED BY <1>1, <1>2, <1>3, <2>1 DEF Facts
<1>6. n + 1 \in Facts(kind, k)' <=> Joins
  <2>1. (\E j \in DOMAIN events' : About(n + 1, j)' /\ events'[j].key = k)
          <=> \E j \in DOMAIN events : GaveLast(j, e.op) /\ events[j].key = k
    BY <1>1, <1>2, <1>4
  <2>2. ASSUME e.kind = kind
        PROVE  (\E j \in DOMAIN events : GaveLast(j, e.op) /\ events[j].key = k)
                 <=> byOperation[e.op] = k
    <3>1. e.op \in Operations
      BY <2>2, EventFields
    <3>2. k # NoKey
      BY ToolLedgerAssumption
    <3>3. CASE byOperation[e.op] = NoKey
      BY <3>1, <3>2, <3>3 DEF IndexIsLast
    <3>4. CASE byOperation[e.op] # NoKey
      <4>1. PICK j \in DOMAIN events : GaveLast(j, e.op) /\ events[j].key = byOperation[e.op]
        BY <3>1, <3>4 DEF IndexIsLast
      <4>2. \A i \in DOMAIN events : GaveLast(i, e.op) => i = j
        BY <4>1, OneGaveLast
      <4> QED BY <4>1, <4>2
    <3> QED BY <3>3, <3>4
  <2> QED BY <1>1, <1>2, <1>3, <2>1, <2>2 DEF Facts
<1>7. \A i : i \in Facts(kind, k) => i \in 1 .. n
  BY <1>1 DEF Facts
<1>8. \A i : i \in Facts(kind, k)' => i \in 1 .. n + 1
  BY <1>1 DEF Facts
<1> HIDE DEF Joins
<1>9. ASSUME NEW i
      PROVE  i \in Facts(kind, k)' <=> i \in Facts(kind, k) \/ (i = n + 1 /\ Joins)
  BY <1>1, <1>5, <1>6, <1>7, <1>8
<1>10. Facts(kind, k)' = Facts(kind, k) \cup IF Joins THEN {n + 1} ELSE {}
  BY <1>9
<1> QED BY <1>10 DEF Joins

\* A fact that is about nothing stays so.
LEMMA StraysGrow ==
    ASSUME LedgerType, IdsAreSeen, IndexIsLast, NEW e \in Events, events' = Append(events, e),
           NEW n \in Nat, n = Len(events)
    PROVE /\ \A i \in 1 .. n : Stray(i)' <=> Stray(i)
          /\ Stray(n + 1)' <=>
               New(e) /\ e.kind \in {"reconcile", "decision"} /\ byOperation[e.op] = NoKey
<1>1. DOMAIN events = 1 .. n /\ DOMAIN events' = 1 .. n + 1
  BY EventsGrow
<1>2. (\A i \in 1 .. n : events'[i] = events[i]) /\ events'[n + 1] = e
  BY EventsGrow
<1>3. (\A i \in 1 .. n : Counts(i)' <=> Counts(i)) /\ (Counts(n + 1)' <=> New(e))
  BY EventsGrow
<1>4. /\ \A i, j \in 1 .. n : About(i, j)' <=> About(i, j)
      /\ \A j \in 1 .. n : About(n + 1, j)' <=> GaveLast(j, e.op)
      /\ \A i \in 1 .. n + 1 : ~About(i, n + 1)'
  BY AboutGrows
<1>5. ASSUME NEW i \in 1 .. n PROVE Stray(i)' <=> Stray(i)
  <2>1. (\A j \in DOMAIN events' : ~About(i, j)') <=> \A j \in DOMAIN events : ~About(i, j)
    BY <1>1, <1>4
  <2> QED BY <1>2, <1>3, <2>1 DEF Stray
<1>6. Stray(n + 1)' <=>
        New(e) /\ e.kind \in {"reconcile", "decision"} /\ byOperation[e.op] = NoKey
  <2>1. (\A j \in DOMAIN events' : ~About(n + 1, j)')
          <=> \A j \in DOMAIN events : ~GaveLast(j, e.op)
    BY <1>1, <1>4
  <2>2. ASSUME e.kind \in {"reconcile", "decision"}
        PROVE  (\A j \in DOMAIN events : ~GaveLast(j, e.op)) <=> byOperation[e.op] = NoKey
    BY <2>2, EventFields DEF IndexIsLast
  <2> QED BY <1>2, <1>3, <2>1, <2>2 DEF Stray
<1> QED BY <1>5, <1>6

\* Event e is an issue of call k.
Hurts(e, k) ==
    /\ e.kind \in ToolLanes /\ e.key = k
    /\ e.kind = "call" => ops[k].known
    /\ e.kind = "dispatch" => ~ops[k].known \/ ops[k].dispatch
    /\ e.kind = "response" => ~ops[k].known \/ ops[k].response \/ ops[k].name # e.name

\* What an event does to the record of a call, by field.
Alters(e, k) ==
    LET o == ops[k]
        p == ops'[k]
        Of(kind) == e.kind = kind /\ e.key = k
        Joins(kind) == e.kind = kind /\ byOperation[e.op] = k
    IN
    /\ p.call = (o.call \/ Of("call"))
    /\ p.dispatch = (o.dispatch \/ Of("dispatch"))
    /\ p.response = (o.response \/ Of("response"))
    /\ p.known = (o.known \/ (e.kind \in ToolLanes /\ e.key = k))
    /\ p.flawed = (o.flawed \/ Hurts(e, k))
    /\ o.known => p.name = o.name
    /\ ~o.known /\ e.kind \in ToolLanes /\ e.key = k => p.name = e.name
    /\ p.reconciles = IF Joins("reconcile") THEN o.reconciles + 1 ELSE o.reconciles
    /\ p.decisions = IF Joins("decision") THEN Append(o.decisions, e.disposition) ELSE o.decisions
    /\ ~p.known => p = o

\* Records that one event leaves alone.
LEMMA Untouched ==
    ASSUME ops \in [Keys -> Op], NEW e \in Events, NEW k \in Keys, ops'[k] = ops[k],
           e.kind \in ToolLanes => e.key # k,
           e.kind \in {"reconcile", "decision"} => byOperation[e.op] # k
    PROVE  Alters(e, k)
<1>1. ops[k] \in Op
  OBVIOUS
<1> QED BY <1>1 DEF Alters, Hurts, ToolLanes, Op

\* The record of the call that an event of a lane is about.
LEMMA LaneAlters ==
    ASSUME ops \in [Keys -> Op], NEW e \in Events, NEW k \in Keys, e.key = k, e.kind \in ToolLanes,
           NEW p, p = ops'[k],
           p.call = (ops[k].call \/ e.kind = "call"),
           p.dispatch = (ops[k].dispatch \/ e.kind = "dispatch"),
           p.response = (ops[k].response \/ e.kind = "response"),
           p.flawed = (ops[k].flawed \/ Hurts(e, k)),
           p.name = IF ops[k].known THEN ops[k].name ELSE e.name,
           p.known = TRUE, p.reconciles = ops[k].reconciles, p.decisions = ops[k].decisions
    PROVE  Alters(e, k)
  BY DEF Alters, ToolLanes

\* The actions of the scan, field by field.
LEMMA AlterationsOf ==
    ASSUME LedgerType, LanesAreKept, IndexIsLast, NEW e \in Events, ScanEvent(e), New(e)
    PROVE  \A k \in Keys : Alters(e, k)
<1>1. ops \in [Keys -> Op] /\ byOperation \in [Operations -> Keys \cup {NoKey}]
  BY DEF LedgerType
<1>2. \A k \in Keys : ops[k] \in Op
  BY <1>1
<1>3. \A k \in Keys : ops[k].known = (ops[k].call \/ ops[k].dispatch \/ ops[k].response)
  BY DEF LanesAreKept
<1>4. \A k \in Keys : ~ops[k].known => ops[k] = Unknown
  BY DEF LanesAreKept
<1>5. Unknown \in Op
  BY UnknownType
<1>6. ASSUME e.kind \in ToolLanes, e.key \in Keys, Alters(e, e.key),
             \A k \in Keys : k # e.key => ops'[k] = ops[k]
      PROVE  \A k \in Keys : Alters(e, k)
  BY <1>1, <1>6, Untouched DEF ToolLanes
<1>7. CASE FirstCall(e) \/ OrphanDispatch(e) \/ OrphanResponse(e)
  <2>1. e.key \in Keys /\ e.name \in Names /\ e.kind \in ToolLanes /\ ~ops[e.key].known
    BY <1>7, EventFields DEF FirstCall, OrphanDispatch, OrphanResponse, ToolLanes
  <2>2. Opened(e) \in Op
    BY <1>5, <2>1 DEF Opened, Op
  <2>3. ops[e.key] = Unknown
    BY <1>4, <2>1
  <2>4. \A k \in Keys : k # e.key => ops'[k] = ops[k]
    BY <1>1, <1>7 DEF FirstCall, OrphanDispatch, OrphanResponse
  <2>5. Alters(e, e.key)
    <3> DEFINE p == ops'[e.key]
    <3>1. /\ ~Unknown.call /\ ~Unknown.dispatch /\ ~Unknown.response /\ ~Unknown.flawed
          /\ ~Unknown.known /\ Unknown.reconciles = 0 /\ Unknown.decisions = <<>>
      BY DEF Unknown
    <3>2. /\ Opened(e).known = TRUE /\ Opened(e).name = e.name
          /\ Opened(e).call = FALSE /\ Opened(e).dispatch = FALSE /\ Opened(e).response = FALSE
          /\ Opened(e).flawed = FALSE /\ Opened(e).reconciles = 0 /\ Opened(e).decisions = <<>>
      BY <1>5 DEF Opened, Unknown
    <3>3. Flawed(Opened(e)) = [Opened(e) EXCEPT !.flawed = TRUE] /\ Flawed(Opened(e)) \in Op
      BY <2>2 DEF Flawed, Op
    <3>4. CASE FirstCall(e)
      <4>1. p = [Opened(e) EXCEPT !.call = TRUE]
        BY <1>1, <2>1, <3>4 DEF FirstCall
      <4>2. /\ p.known = TRUE /\ p.call = TRUE /\ p.dispatch = FALSE
            /\ p.response = FALSE /\ p.flawed = FALSE /\ p.name = e.name
            /\ p.reconciles = 0 /\ p.decisions = <<>>
        BY <2>2, <3>2, <4>1 DEF Op
      <4>3. e.kind = "call" /\ ~Hurts(e, e.key)
        BY <3>4 DEF FirstCall, Hurts
      <4> HIDE DEF p
      <4> QED BY <1>1, <2>1, <2>3, <3>1, <4>2, <4>3, LaneAlters DEF p
    <3>5. CASE OrphanDispatch(e)
      <4>1. p = [Flawed(Opened(e)) EXCEPT !.dispatch = TRUE]
        BY <1>1, <2>1, <3>5 DEF OrphanDispatch
      <4>2. /\ p.known = TRUE /\ p.call = FALSE /\ p.dispatch = TRUE
            /\ p.response = FALSE /\ p.flawed = TRUE /\ p.name = e.name
            /\ p.reconciles = 0 /\ p.decisions = <<>>
        BY <2>2, <3>2, <3>3, <4>1 DEF Op
      <4>3. e.kind = "dispatch" /\ Hurts(e, e.key)
        BY <3>5 DEF OrphanDispatch, Hurts, ToolLanes
      <4> HIDE DEF p
      <4> QED BY <1>1, <2>1, <2>3, <3>1, <4>2, <4>3, LaneAlters DEF p
    <3>6. CASE OrphanResponse(e)
      <4>1. p = [Flawed(Opened(e)) EXCEPT !.response = TRUE]
        BY <1>1, <2>1, <3>6 DEF OrphanResponse
      <4>2. /\ p.known = TRUE /\ p.call = FALSE /\ p.dispatch = FALSE
            /\ p.response = TRUE /\ p.flawed = TRUE /\ p.name = e.name
            /\ p.reconciles = 0 /\ p.decisions = <<>>
        BY <2>2, <3>2, <3>3, <4>1 DEF Op
      <4>3. e.kind = "response" /\ Hurts(e, e.key)
        BY <3>6 DEF OrphanResponse, Hurts, ToolLanes
      <4> HIDE DEF p
      <4> QED BY <1>1, <2>1, <2>3, <3>1, <4>2, <4>3, LaneAlters DEF p
    <3> QED BY <1>7, <3>4, <3>5, <3>6
  <2> QED BY <1>6, <2>1, <2>4, <2>5
<1>8. CASE LaterCall(e)
  <2>1. e.key \in Keys /\ e.kind \in ToolLanes
    BY <1>8, EventFields DEF LaterCall, ToolLanes
  <2>2. \A k \in Keys : k # e.key => ops'[k] = ops[k]
    BY <1>1, <1>8 DEF LaterCall
  <2> DEFINE p == ops'[e.key]
  <2>3. p = [Flawed(ops[e.key]) EXCEPT !.call = TRUE]
    BY <1>1, <1>8, <2>1 DEF LaterCall
  <2>4. /\ ops[e.key] \in Op /\ ops[e.key].known = TRUE
        /\ {ops[e.key].call, ops[e.key].dispatch, ops[e.key].response, ops[e.key].flawed} \subseteq BOOLEAN
    BY <1>2, <1>3, <1>8, <2>1 DEF LaterCall, Op
  <2>5. /\ p.known = TRUE /\ p.call = TRUE /\ p.dispatch = ops[e.key].dispatch
        /\ p.response = ops[e.key].response /\ p.flawed = TRUE /\ p.name = ops[e.key].name
        /\ p.reconciles = ops[e.key].reconciles /\ p.decisions = ops[e.key].decisions
    BY <2>3, <2>4 DEF Op, Flawed
  <2>6. e.kind = "call" /\ Hurts(e, e.key)
    BY <1>8, <2>1, <2>4 DEF LaterCall, Hurts, ToolLanes
  <2> HIDE DEF p
  <2>7. Alters(e, e.key)
    BY <1>1, <2>1, <2>4, <2>5, <2>6, LaneAlters DEF p
  <2> QED BY <1>6, <2>1, <2>2, <2>7
<1>9. CASE FirstDispatch(e)
  <2>1. e.key \in Keys /\ e.kind \in ToolLanes
    BY <1>9, EventFields DEF FirstDispatch, ToolLanes
  <2>2. \A k \in Keys : k # e.key => ops'[k] = ops[k]
    BY <1>1, <1>9 DEF FirstDispatch
  <2> DEFINE p == ops'[e.key]
  <2>3. p = [ops[e.key] EXCEPT !.dispatch = TRUE]
    BY <1>1, <1>9, <2>1 DEF FirstDispatch
  <2>4. /\ ops[e.key] \in Op /\ ops[e.key].known = TRUE
        /\ {ops[e.key].call, ops[e.key].dispatch, ops[e.key].response, ops[e.key].flawed} \subseteq BOOLEAN
    BY <1>2, <1>3, <1>9, <2>1 DEF FirstDispatch, Op
  <2>5. /\ p.known = TRUE /\ p.call = ops[e.key].call /\ p.dispatch = TRUE
        /\ p.response = ops[e.key].response /\ p.flawed = ops[e.key].flawed /\ p.name = ops[e.key].name
        /\ p.reconciles = ops[e.key].reconciles /\ p.decisions = ops[e.key].decisions
    BY <2>3, <2>4 DEF Op, Flawed
  <2>6. e.kind = "dispatch" /\ ~Hurts(e, e.key)
    BY <1>9, <2>1, <2>4 DEF FirstDispatch, Hurts, ToolLanes
  <2> HIDE DEF p
  <2>7. Alters(e, e.key)
    BY <1>1, <2>1, <2>4, <2>5, <2>6, LaneAlters DEF p
  <2> QED BY <1>6, <2>1, <2>2, <2>7
<1>10. CASE LaterDispatch(e) \/ LaterResponse(e)
  <2>1. e.key \in Keys /\ e.kind \in ToolLanes
    BY <1>10, EventFields DEF LaterDispatch, LaterResponse, ToolLanes
  <2>2. \A k \in Keys : k # e.key => ops'[k] = ops[k]
    BY <1>1, <1>10 DEF LaterDispatch, LaterResponse
  <2>3. ops'[e.key] = Flawed(ops[e.key])
    BY <1>1, <1>10, <2>1 DEF LaterDispatch, LaterResponse
  <2>4. Alters(e, e.key)
    BY <1>2, <1>3, <1>10, <2>1, <2>3
       DEF Alters, Hurts, LaterDispatch, LaterResponse, Flawed, ToolLanes, Op
  <2> QED BY <1>6, <2>1, <2>2, <2>4
<1>11. CASE FirstResponse(e)
  <2>1. e.key \in Keys /\ e.kind \in ToolLanes
    BY <1>11, EventFields DEF FirstResponse, ToolLanes
  <2>2. \A k \in Keys : k # e.key => ops'[k] = ops[k]
    BY <1>1, <1>11 DEF FirstResponse
  <2> DEFINE conflict == ops[e.key].name # e.name
             flawed == ops[e.key].flawed \/ conflict
  <2>3. ops'[e.key] = [ops[e.key] EXCEPT !.response = TRUE, !.flawed = flawed]
    BY <1>1, <1>11, <2>1 DEF FirstResponse
  <2>4. Hurts(e, e.key) = conflict
    BY <1>2, <1>11, <2>1 DEF Hurts, FirstResponse, Op
  <2>5. flawed \in BOOLEAN
    BY <1>2, <2>1 DEF Op
  <2>6. flawed = (ops[e.key].flawed \/ Hurts(e, e.key))
    BY <2>4
  <2> HIDE DEF flawed, conflict
  <2>7. /\ ops[e.key] \in Op /\ ops[e.key].known = TRUE /\ e.kind = "response"
        /\ {ops[e.key].call, ops[e.key].dispatch, ops[e.key].response, ops[e.key].flawed} \subseteq BOOLEAN
    BY <1>2, <1>11, <2>1 DEF FirstResponse, Op
  <2> DEFINE p == ops'[e.key]
  <2>8. /\ p.known = TRUE /\ p.call = ops[e.key].call /\ p.dispatch = ops[e.key].dispatch
        /\ p.response = TRUE /\ p.flawed = flawed /\ p.name = ops[e.key].name
        /\ p.reconciles = ops[e.key].reconciles /\ p.decisions = ops[e.key].decisions
    BY <2>3, <2>5, <2>7 DEF Op
  <2> HIDE DEF p
  <2>9. Alters(e, e.key)
    BY <1>1, <2>1, <2>6, <2>7, <2>8, LaneAlters DEF p
  <2> QED BY <1>6, <2>1, <2>2, <2>9
<1>12. CASE Reconcile(e) \/ Decide(e)
  <2> DEFINE b == byOperation[e.op]
  <2>1. e.op \in Operations /\ e.kind \in {"reconcile", "decision"} /\ b \in Keys /\ b # NoKey
    BY <1>1, <1>12, EventFields DEF Reconcile, Decide
  <2>2. ops[b].known
    BY <1>3, <2>1 DEF IndexIsLast
  <2>3. \A k \in Keys : k # b => ops'[k] = ops[k]
    BY <1>1, <1>12 DEF Reconcile, Decide
  <2>4. \A k \in Keys : k # b => Alters(e, k)
    BY <1>1, <2>1, <2>3, Untouched DEF ToolLanes
  <2>5. Alters(e, b)
    <3>1. CASE Reconcile(e)
      <4>1. ops'[b] = [ops[b] EXCEPT !.reconciles = ops[b].reconciles + 1]
        BY <1>1, <2>1, <3>1 DEF Reconcile
      <4>2. e.kind = "reconcile" /\ ops[b] \in Op
        BY <1>2, <2>1, <3>1 DEF Reconcile
      <4> QED BY <2>2, <4>1, <4>2 DEF Alters, Hurts, ToolLanes, Op
    <3>2. CASE Decide(e)
      <4>1. ops'[b] = [ops[b] EXCEPT !.decisions = Append(ops[b].decisions, e.disposition)]
        BY <1>1, <2>1, <3>2 DEF Decide
      <4>2. e.kind = "decision" /\ ops[b] \in Op
        BY <1>2, <2>1, <3>2 DEF Decide
      <4> QED BY <2>2, <4>1, <4>2 DEF Alters, Hurts, ToolLanes, Op
    <3> QED BY <1>12, <3>1, <3>2
  <2> QED BY <2>4, <2>5
<1>13. CASE StrayFact(e) \/ Ordinary(e)
  <2>1. ops' = ops /\ e.kind \notin ToolLanes
    BY <1>13 DEF StrayFact, Ordinary, ToolLanes
  <2>2. e.kind \in {"reconcile", "decision"} => byOperation[e.op] = NoKey
    BY <1>13 DEF StrayFact, Ordinary
  <2>3. \A k \in Keys : k # NoKey
    BY ToolLedgerAssumption
  <2> QED BY <1>1, <2>1, <2>2, <2>3, Untouched
<1> QED BY <1>7, <1>8, <1>9, <1>10, <1>11, <1>12, <1>13 DEF ScanEvent, Duplicate, New

\* The scan of one event: the ids, the index of operation ids, the damage.
LEMMA EffectsOf ==
    ASSUME LedgerType, LanesAreKept, NEW e \in Events, ScanEvent(e)
    PROVE /\ events' = Append(events, e) /\ seen' = seen \cup {e.id}
          /\ ~New(e) => ops' = ops /\ byOperation' = byOperation /\ corrupt' = TRUE
          /\ New(e) =>
               /\ byOperation' = IF e.kind = "dispatch" /\ ~ops[e.key].dispatch
                                   THEN [byOperation EXCEPT ![e.op] = e.key] ELSE byOperation
               /\ corrupt' = \/ corrupt
                             \/ \E k \in Keys : Hurts(e, k)
                             \/ e.kind \in {"reconcile", "decision"} /\ byOperation[e.op] = NoKey
<1>1. \A k \in Keys : ops[k] \in Op
  BY DEF LedgerType
<1>2. \A k \in Keys : ops[k].known = (ops[k].call \/ ops[k].dispatch \/ ops[k].response)
  BY DEF LanesAreKept
<1>3. events' = Append(events, e) /\ seen' = seen \cup {e.id}
  BY DEF ScanEvent, Note, Duplicate, FirstCall, LaterCall, FirstDispatch,
     LaterDispatch, OrphanDispatch, FirstResponse, LaterResponse, OrphanResponse,
     Reconcile, Decide, StrayFact, Ordinary
<1>4. ASSUME ~New(e) PROVE ops' = ops /\ byOperation' = byOperation /\ corrupt' = TRUE
  BY <1>4 DEF ScanEvent, Duplicate, FirstCall, LaterCall, FirstDispatch,
     LaterDispatch, OrphanDispatch, FirstResponse, LaterResponse, OrphanResponse,
     Reconcile, Decide, StrayFact, Ordinary
<1>5. ASSUME New(e)
      PROVE  byOperation' = IF e.kind = "dispatch" /\ ~ops[e.key].dispatch
                              THEN [byOperation EXCEPT ![e.op] = e.key] ELSE byOperation
  <2>1. e.kind = "dispatch" => e.key \in Keys
    BY EventFields
  <2>2. e.kind = "dispatch" /\ ~ops[e.key].known => ~ops[e.key].dispatch
    BY <1>1, <1>2, <2>1 DEF Op
  <2> QED BY <1>5, <2>2 DEF ScanEvent, New, Duplicate, FirstCall, LaterCall, FirstDispatch,
     LaterDispatch, OrphanDispatch, FirstResponse, LaterResponse, OrphanResponse,
     Reconcile, Decide, StrayFact, Ordinary
<1>6. ASSUME New(e)
      PROVE  corrupt' = \/ corrupt
                        \/ \E k \in Keys : Hurts(e, k)
                        \/ e.kind \in {"reconcile", "decision"} /\ byOperation[e.op] = NoKey
  <2>1. e.kind \in ToolLanes => e.key \in Keys
    BY EventFields DEF ToolLanes
  <2>2. (\E k \in Keys : Hurts(e, k)) <=> e.kind \in ToolLanes /\ Hurts(e, e.key)
    BY <2>1 DEF Hurts
  <2>3. corrupt \in BOOLEAN
    BY DEF LedgerType
  <2>4. e.key \in Keys => /\ ops[e.key].dispatch \in BOOLEAN /\ ops[e.key].response \in BOOLEAN
                          /\ ops[e.key].known \in BOOLEAN
                          /\ ops[e.key].dispatch \/ ops[e.key].response => ops[e.key].known
    BY <1>1, <1>2 DEF Op
  <2>5. CASE FirstCall(e) \/ LaterCall(e)
    BY <2>1, <2>2, <2>3, <2>5 DEF FirstCall, LaterCall, Hurts, ToolLanes
  <2>6. CASE FirstDispatch(e) \/ LaterDispatch(e) \/ OrphanDispatch(e)
    BY <2>1, <2>2, <2>3, <2>4, <2>6 DEF FirstDispatch, LaterDispatch, OrphanDispatch, Hurts, ToolLanes
  <2>7. CASE FirstResponse(e) \/ LaterResponse(e) \/ OrphanResponse(e)
    BY <2>1, <2>2, <2>3, <2>4, <2>7 DEF FirstResponse, LaterResponse, OrphanResponse, Hurts, ToolLanes
  <2>8. CASE Reconcile(e) \/ Decide(e) \/ StrayFact(e) \/ Ordinary(e)
    BY <2>2, <2>3, <2>8 DEF Reconcile, Decide, StrayFact, Ordinary, ToolLanes
  <2> QED BY <1>6, <2>5, <2>6, <2>7, <2>8 DEF ScanEvent, Duplicate, New
<1> QED BY <1>3, <1>4, <1>5, <1>6

\* A finite set of one member at most, without counting.
LEMMA AtMostOne ==
    ASSUME NEW S, IsFiniteSet(S)
    PROVE  Cardinality(S) <= 1 <=> \A i, j \in S : i = j
<1>1. Cardinality(S) \in Nat
  BY FS_CardinalityType
<1>2. Cardinality(S) = 0 <=> S = {}
  BY FS_EmptySet
<1>3. Cardinality(S) = 1 <=> \E x : S = {x}
  BY FS_Singleton
<1>4. Cardinality(S) <= 1 <=> Cardinality(S) = 0 \/ Cardinality(S) = 1
  BY <1>1
<1>5. (\A i, j \in S : i = j) <=> S = {} \/ \E x : S = {x}
  OBVIOUS
<1> QED BY <1>2, <1>3, <1>4, <1>5

\* The part of Wellformed that is about the call with number c, without counting.
Clean(k, c) ==
    /\ Lane("call", k) = {c}
    /\ \A i, j \in Lane("dispatch", k) : i = j
    /\ \A i, j \in Lane("response", k) : i = j
    /\ \A i \in Lane("dispatch", k) \cup Lane("response", k) : c < i
    /\ \A i \in Lane("response", k) : events[i].name = events[c].name

LEMMA WellformedIsClean ==
    ASSUME LedgerType, LedgerType', NEW k
    PROVE /\ Wellformed(k) <=> \E c : Clean(k, c)
          /\ Wellformed(k)' <=> \E c : Clean(k, c)'
<1>1. /\ events \in Seq(Events) /\ events' \in Seq(Events)
  BY DEF LedgerType
<1>2. IsFiniteSet(DOMAIN events) /\ IsFiniteSet(DOMAIN events')
  BY <1>1, FS_Interval
<1>3. \A kind : IsFiniteSet(Lane(kind, k)) /\ IsFiniteSet(Lane(kind, k)')
  <2>1. \A kind : Lane(kind, k) \subseteq DOMAIN events /\ Lane(kind, k)' \subseteq DOMAIN events'
    BY DEF Lane
  <2> QED BY <1>2, <2>1, FS_Subset
<1>4. \A kind : /\ Cardinality(Lane(kind, k)) <= 1 <=> \A i, j \in Lane(kind, k) : i = j
                /\ Cardinality(Lane(kind, k)') <= 1 <=> \A i, j \in Lane(kind, k)' : i = j
  BY <1>3, AtMostOne
<1>5. Wellformed(k) <=> \E c : Clean(k, c)
  BY <1>4 DEF Wellformed, Clean
<1>6. Wellformed(k)' <=> \E c : Clean(k, c)'
  BY <1>4 DEF Wellformed, Clean
<1> QED BY <1>5, <1>6

\* One event more: each part of the invariant.
LEMMA IdsKept ==
    ASSUME LedgerType, ScanFacts, NEW e \in Events, ScanEvent(e)
    PROVE  IdsAreSeen'
<1> DEFINE n == Len(events)
<1>1. IdsAreSeen /\ LanesAreKept
  BY DEF ScanFacts
<1>2. events' = Append(events, e) /\ seen' = seen \cup {e.id}
  BY <1>1, EffectsOf
<1>3. n \in Nat
  BY DEF LedgerType
<1>4. PICK m \in Nat : m = n
  BY <1>3
<1>5. /\ DOMAIN events = 1 .. m /\ DOMAIN events' = 1 .. m + 1
      /\ \A i \in 1 .. m : events'[i] = events[i]
      /\ events'[m + 1] = e
  BY <1>1, <1>2, <1>4, EventsGrow
<1> QED BY <1>1, <1>2, <1>5 DEF IdsAreSeen

LEMMA LanesKept ==
    ASSUME LedgerType, LedgerType', ScanFacts, NEW e \in Events, ScanEvent(e)
    PROVE  LanesAreKept'
<1>1. IdsAreSeen /\ LanesAreKept /\ IndexIsLast
  BY DEF ScanFacts
<1>2. events' = Append(events, e) /\ (~New(e) => ops' = ops)
  BY <1>1, EffectsOf
<1>3. PICK n \in Nat : n = Len(events)
  BY DEF LedgerType
<1>4. \A kind, k : Lane(kind, k)' = Lane(kind, k) \cup
                     IF New(e) /\ e.kind = kind /\ e.key = k THEN {n + 1} ELSE {}
  BY <1>1, <1>2, <1>3, LanesGrow
<1>5. SUFFICES ASSUME NEW k \in Keys
               PROVE  /\ ops'[k].call = (Lane("call", k)' # {})
                      /\ ops'[k].dispatch = (Lane("dispatch", k)' # {})
                      /\ ops'[k].response = (Lane("response", k)' # {})
                      /\ ops'[k].known = (ops'[k].call \/ ops'[k].dispatch \/ ops'[k].response)
                      /\ ~ops'[k].known => ops'[k] = Unknown
  BY DEF LanesAreKept
<1>6. /\ ops[k].call = (Lane("call", k) # {})
      /\ ops[k].dispatch = (Lane("dispatch", k) # {})
      /\ ops[k].response = (Lane("response", k) # {})
      /\ ops[k].known = (ops[k].call \/ ops[k].dispatch \/ ops[k].response)
      /\ ~ops[k].known => ops[k] = Unknown
  BY <1>1 DEF LanesAreKept
<1>7. CASE ~New(e)
  BY <1>2, <1>4, <1>6, <1>7
<1>8. CASE New(e)
  <2>1. Alters(e, k)
    BY <1>1, <1>8, AlterationsOf
  <2>2. \A kind : Lane(kind, k)' # {} <=> Lane(kind, k) # {} \/ (e.kind = kind /\ e.key = k)
    BY <1>4, <1>8
  <2>3. /\ ops'[k].call = (Lane("call", k)' # {})
        /\ ops'[k].dispatch = (Lane("dispatch", k)' # {})
        /\ ops'[k].response = (Lane("response", k)' # {})
    BY <1>6, <2>1, <2>2 DEF Alters
  <2>4. /\ ops'[k].known = (ops'[k].call \/ ops'[k].dispatch \/ ops'[k].response)
        /\ ~ops'[k].known => ops'[k] = Unknown
    BY <1>6, <2>1 DEF Alters, ToolLanes
  <2> QED BY <2>3, <2>4
<1> QED BY <1>7, <1>8

\* The first event of a call is its call row, or its record has an issue for good.
LEMMA FlawsKept ==
    ASSUME LedgerType, LedgerType', ScanFacts, NEW e \in Events, ScanEvent(e)
    PROVE  FlawsAreBreaches'
<1>1. IdsAreSeen /\ LanesAreKept /\ IndexIsLast /\ FlawsAreBreaches
  BY DEF ScanFacts
<1>2. events' = Append(events, e) /\ (~New(e) => ops' = ops)
  BY <1>1, EffectsOf
<1>3. PICK n \in Nat : n = Len(events)
  BY DEF LedgerType
<1>4. \A kind, k : Lane(kind, k)' = Lane(kind, k) \cup
                     IF New(e) /\ e.kind = kind /\ e.key = k THEN {n + 1} ELSE {}
  BY <1>1, <1>2, <1>3, LanesGrow
<1>5. \A i \in 1 .. n : events'[i] = events[i]
  BY <1>1, <1>2, <1>3, EventsGrow
<1>6. events'[n + 1] = e
  BY <1>1, <1>2, <1>3, EventsGrow
<1>7. \A kind, k : Lane(kind, k) \subseteq 1 .. n
  BY <1>1, <1>2, <1>3, EventsGrow, LaneIsBelow
<1>8. SUFFICES ASSUME NEW k \in Keys
               PROVE  /\ ops'[k].flawed => ops'[k].known
                      /\ ops'[k].known => ops'[k].flawed = ~Wellformed(k)'
                      /\ ~ops'[k].flawed =>
                           \A c \in Lane("call", k)' : ops'[k].name = events'[c].name
  BY DEF FlawsAreBreaches
<1>9. /\ ops[k].flawed => ops[k].known
      /\ ops[k].known => ops[k].flawed = ~Wellformed(k)
      /\ ~ops[k].flawed => \A c \in Lane("call", k) : ops[k].name = events[c].name
  BY <1>1 DEF FlawsAreBreaches
<1>10. /\ Wellformed(k) <=> \E c : Clean(k, c)
       /\ Wellformed(k)' <=> \E c : Clean(k, c)'
  BY WellformedIsClean
<1>11. /\ ops[k].call = (Lane("call", k) # {})
       /\ ops[k].dispatch = (Lane("dispatch", k) # {})
       /\ ops[k].response = (Lane("response", k) # {})
       /\ ops[k].known = (ops[k].call \/ ops[k].dispatch \/ ops[k].response)
  BY <1>1 DEF LanesAreKept
<1>12. /\ ops[k] \in Op /\ ops'[k] \in Op
  BY DEF LedgerType
<1>13. CASE ~New(e) \/ e.kind \notin ToolLanes \/ e.key # k
  <2>1. \A kind \in ToolLanes : Lane(kind, k)' = Lane(kind, k)
    BY <1>4, <1>13
  <2>2. \A c \in Lane("call", k) \cup Lane("response", k) : events'[c] = events[c]
    BY <1>5, <1>7
  <2>3. /\ Lane("call", k)' = Lane("call", k) /\ Lane("dispatch", k)' = Lane("dispatch", k)
        /\ Lane("response", k)' = Lane("response", k)
    BY <2>1 DEF ToolLanes
  <2>4. \A c : Clean(k, c)' <=> Clean(k, c)
    BY <2>2, <2>3 DEF Clean
  <2>5. /\ ops'[k].known = ops[k].known /\ ops'[k].flawed = ops[k].flawed
        /\ ops'[k].known \/ ops'[k].name = ops[k].name
        /\ ops[k].known => ops'[k].name = ops[k].name
    <3>1. CASE ~New(e)
      BY <1>2, <3>1
    <3>2. CASE New(e)
      <4>1. Alters(e, k)
        BY <1>1, <3>2, AlterationsOf
      <4>2. ~Hurts(e, k) /\ ~(e.kind \in ToolLanes /\ e.key = k)
        BY <1>13, <3>2 DEF Hurts
      <4> QED BY <1>12, <4>1, <4>2 DEF Alters, Op
    <3> QED BY <3>1, <3>2
  <2>6. ops'[k].known => ops'[k].flawed = ~Wellformed(k)'
    BY <1>9, <1>10, <2>4, <2>5
  <2>7. ~ops'[k].flawed => \A c \in Lane("call", k)' : ops'[k].name = events'[c].name
    BY <1>9, <1>11, <2>2, <2>3, <2>5
  <2> QED BY <1>9, <2>5, <2>6, <2>7
<1>14. CASE New(e) /\ e.kind \in ToolLanes /\ e.key = k
  <2>1. Alters(e, k)
    BY <1>1, <1>14, AlterationsOf
  <2>2. /\ ops'[k].known = TRUE /\ ops'[k].flawed = (ops[k].flawed \/ Hurts(e, k))
        /\ ops[k].known => ops'[k].name = ops[k].name
        /\ ~ops[k].known => ops'[k].name = e.name
    BY <1>14, <2>1 DEF Alters
  <2> DEFINE C == Lane("call", k)
             D == Lane("dispatch", k)
             R == Lane("response", k)
  <2>3. C \subseteq 1 .. n /\ D \subseteq 1 .. n /\ R \subseteq 1 .. n
    BY <1>7
  <2>4. \A c \in 1 .. n : c < n + 1 /\ c # n + 1 /\ ~(n + 1 < c)
    BY <1>3
  <2>5. CASE e.kind = "call"
    <3>1. C' = C \cup {n + 1} /\ D' = D /\ R' = R
      BY <1>4, <1>14, <2>5
    <3>2. Hurts(e, k) <=> ops[k].known
      BY <1>14, <2>5 DEF Hurts, ToolLanes
    <3>3. CASE ops[k].known
      <4>1. C # {} \/ D # {} \/ R # {}
        BY <1>11, <3>3
      <4>2. ASSUME NEW c, Clean(k, c)' PROVE FALSE
        <5>1. C' = {c} /\ \A i \in D' \cup R' : c < i
          BY <4>2 DEF Clean
        <5>2. c = n + 1 /\ C = {}
          BY <2>3, <2>4, <3>1, <5>1
        <5> QED BY <2>3, <2>4, <3>1, <4>1, <5>1, <5>2
      <4> QED BY <1>10, <2>2, <3>2, <3>3, <4>2
    <3>4. CASE ~ops[k].known
      <4>1. C = {} /\ D = {} /\ R = {}
        BY <1>11, <3>4
      <4>2. C' = {n + 1} /\ D' = {} /\ R' = {}
        BY <3>1, <4>1
      <4>3. Clean(k, n + 1)'
        BY <4>2 DEF Clean
      <4>4. ~ops'[k].flawed
        BY <1>9, <2>2, <3>2, <3>4
      <4> QED BY <1>6, <1>10, <1>12, <2>2, <3>4, <4>2, <4>3, <4>4 DEF Op
    <3> QED BY <3>3, <3>4
  <2>6. CASE e.kind = "dispatch" \/ e.kind = "response"
    <3>1. C' = C
      BY <1>4, <1>14, <2>6
    <3>2. /\ e.kind = "dispatch" => D' = D \cup {n + 1} /\ R' = R
          /\ e.kind = "response" => R' = R \cup {n + 1} /\ D' = D
      BY <1>4, <1>14
    <3>3. ASSUME NEW c
          PROVE  Clean(k, c)' <=>
                   /\ Clean(k, c)
                   /\ e.kind = "dispatch" => D = {}
                   /\ e.kind = "response" => R = {} /\ e.name = events[c].name
      <4>1. c \in C => events'[c] = events[c] /\ c < n + 1
        BY <1>5, <2>3, <2>4
      <4>2. \A i \in R : events'[i] = events[i]
        BY <1>5, <2>3
      <4>3. Clean(k, c)' <=> /\ C = {c}
                             /\ \A i, j \in D' : i = j
                             /\ \A i, j \in R' : i = j
                             /\ \A i \in D' \cup R' : c < i
                             /\ \A i \in R' : events'[i].name = events'[c].name
        BY <3>1 DEF Clean
      <4>4. Clean(k, c) <=> /\ C = {c}
                            /\ \A i, j \in D : i = j
                            /\ \A i, j \in R : i = j
                            /\ \A i \in D \cup R : c < i
                            /\ \A i \in R : events[i].name = events[c].name
        BY DEF Clean
      <4> HIDE DEF C, D, R
      <4>5. CASE e.kind = "dispatch"
        <5>1. (\A i, j \in D' : i = j) <=> D = {}
          BY <2>3, <2>4, <3>2, <4>5
        <5>2. C = {c} => ((\A i \in D' \cup R' : c < i) <=> \A i \in D \cup R : c < i)
          BY <3>2, <4>1, <4>5
        <5>3. R' = R /\ e.kind # "response"
          BY <3>2, <4>5
        <5>4. C = {c} => ((\A i \in R' : events'[i].name = events'[c].name)
                            <=> \A i \in R : events[i].name = events[c].name)
          BY <4>1, <4>2, <5>3
        <5> QED BY <4>3, <4>4, <4>5, <5>1, <5>2, <5>3, <5>4
      <4>6. CASE e.kind = "response"
        <5>1. (\A i, j \in R' : i = j) <=> R = {}
          BY <2>3, <2>4, <3>2, <4>6
        <5>2. C = {c} => ((\A i \in D' \cup R' : c < i) <=> \A i \in D \cup R : c < i)
          BY <3>2, <4>1, <4>6
        <5>3. D' = D /\ R' = R \cup {n + 1} /\ e.kind # "dispatch"
          BY <3>2, <4>6
        <5>4. C = {c} => ((\A i \in R' : events'[i].name = events'[c].name)
                            <=> /\ \A i \in R : events[i].name = events[c].name
                                /\ e.name = events[c].name)
          BY <1>6, <4>1, <4>2, <5>3
        <5> QED BY <4>3, <4>4, <4>6, <5>1, <5>2, <5>3, <5>4
      <4> QED BY <2>6, <4>5, <4>6
    <3>4. CASE ~ops[k].known
      <4>1. Hurts(e, k)
        BY <1>14, <2>6, <3>4 DEF Hurts, ToolLanes
      <4>2. C = {}
        BY <1>11, <3>4
      <4>3. \A c : ~Clean(k, c)
        BY <4>2 DEF Clean
      <4> QED BY <1>10, <2>2, <3>3, <4>1, <4>3
    <3>5. CASE ops[k].known
      <4>1. Hurts(e, k) <=> \/ e.kind = "dispatch" /\ ops[k].dispatch
                            \/ e.kind = "response" /\ (ops[k].response \/ ops[k].name # e.name)
        BY <1>14, <2>6, <3>5 DEF Hurts, ToolLanes
      <4>2. \A c : Clean(k, c) => c \in C
        BY DEF Clean
      <4>3. ~ops[k].flawed => \A c \in C : ops[k].name = events[c].name
        BY <1>9
      <4>4. ops[k].flawed <=> ~ \E c : Clean(k, c)
        BY <1>9, <1>10, <3>5
      <4>5. (ops[k].dispatch <=> D # {}) /\ (ops[k].response <=> R # {})
        BY <1>11
      <4> HIDE DEF C, D, R
      <4>6. ops'[k].flawed <=> ~ \E c : Clean(k, c)'
        BY <2>2, <2>6, <3>3, <4>1, <4>2, <4>3, <4>4, <4>5
      <4>7. ~ops'[k].flawed => \A c \in C' : ops'[k].name = events'[c].name
        BY <1>5, <2>2, <2>3, <3>1, <3>5, <4>3
      <4> QED BY <1>10, <1>12, <2>2, <4>6, <4>7 DEF C, Op
    <3> QED BY <3>4, <3>5
  <2> QED BY <1>14, <2>5, <2>6 DEF ToolLanes
<1> QED BY <1>13, <1>14

\* The index goes by the last dispatch that gave the operation id.
LEMMA IndexKept ==
    ASSUME LedgerType, LedgerType', ScanFacts, NEW e \in Events, ScanEvent(e)
    PROVE  IndexIsLast'
<1>1. IdsAreSeen /\ LanesAreKept /\ IndexIsLast
  BY DEF ScanFacts
<1>2. /\ events' = Append(events, e)
      /\ ~New(e) => ops' = ops /\ byOperation' = byOperation
      /\ New(e) => byOperation' = IF e.kind = "dispatch" /\ ~ops[e.key].dispatch
                                    THEN [byOperation EXCEPT ![e.op] = e.key] ELSE byOperation
  BY <1>1, EffectsOf
<1>3. PICK n \in Nat : n = Len(events)
  BY DEF LedgerType
<1>4. /\ DOMAIN events = 1 .. n /\ DOMAIN events' = 1 .. n + 1 /\ Len(events') = n + 1
      /\ \A i \in 1 .. n : events'[i] = events[i]
      /\ events'[n + 1] = e
  BY <1>1, <1>2, <1>3, EventsGrow
<1> DEFINE Gives == New(e) /\ e.kind = "dispatch" /\ ~ops[e.key].dispatch
<1>5. /\ \A i \in 1 .. n : Assigns(i)' <=> Assigns(i)
      /\ Assigns(n + 1)' <=> Gives
  <2>1. /\ \A i \in 1 .. n : Assigns(i)' <=> Assigns(i)
        /\ Assigns(n + 1)' <=> New(e) /\ e.kind = "dispatch" /\ Lane("dispatch", e.key) = {}
    BY <1>1, <1>2, <1>3, AssignsGrow
  <2>2. e.kind = "dispatch" => e.key \in Keys
    BY EventFields
  <2> QED BY <1>1, <2>1, <2>2 DEF LanesAreKept
<1>6. Gives => e.key \in Keys /\ e.op \in Operations /\ e.key # NoKey
  BY EventFields, ToolLedgerAssumption
<1>7. byOperation' = IF Gives THEN [byOperation EXCEPT ![e.op] = e.key] ELSE byOperation
  BY <1>2
<1> HIDE DEF Gives
<1>8. ASSUME NEW o, NEW j \in 1 .. n
      PROVE  GaveLast(j, o)' <=> GaveLast(j, o) /\ ~(Gives /\ e.op = o)
  <2>1. \A m \in j + 1 .. n : m \in 1 .. n
    OBVIOUS
  <2>2. \A m : m \in j + 1 .. n + 1 <=> m \in j + 1 .. n \/ m = n + 1
    OBVIOUS
  <2>3. (\A m \in j + 1 .. n + 1 : Assigns(m)' => events'[m].op # o)
          <=> /\ \A m \in j + 1 .. n : Assigns(m) => events[m].op # o
              /\ Gives => e.op # o
    BY <1>4, <1>5, <2>1, <2>2
  <2> QED BY <1>3, <1>4, <1>5, <2>3 DEF GaveLast
<1>9. ASSUME NEW o
      PROVE  GaveLast(n + 1, o)' <=> Gives /\ e.op = o
  <2>1. \A m : m \notin (n + 1) + 1 .. n + 1
    OBVIOUS
  <2> QED BY <1>4, <1>5, <2>1 DEF GaveLast
<1>10. SUFFICES ASSUME NEW o \in Operations
                PROVE  /\ byOperation'[o] = NoKey => \A j \in DOMAIN events' : ~GaveLast(j, o)'
                       /\ byOperation'[o] # NoKey =>
                            /\ \E j \in DOMAIN events' : GaveLast(j, o)' /\ events'[j].key = byOperation'[o]
                            /\ ops'[byOperation'[o]].dispatch
  BY DEF IndexIsLast
<1>11. byOperation \in [Operations -> Keys \cup {NoKey}]
  BY DEF LedgerType
<1>12. CASE Gives /\ e.op = o
  <2>1. byOperation'[o] = e.key
    BY <1>6, <1>7, <1>11, <1>12
  <2>2. GaveLast(n + 1, o)' /\ events'[n + 1].key = e.key /\ n + 1 \in DOMAIN events'
    BY <1>4, <1>9, <1>12
  <2>3. Alters(e, e.key)
    BY <1>1, <1>6, <1>12, AlterationsOf DEF Gives
  <2>4. ops'[e.key].dispatch
    BY <1>12, <2>3 DEF Alters, Gives
  <2> QED BY <1>6, <1>12, <2>1, <2>2, <2>4
<1>13. CASE ~(Gives /\ e.op = o)
  <2>1. byOperation'[o] = byOperation[o]
    BY <1>7, <1>11, <1>13
  <2>2. /\ byOperation[o] = NoKey => \A j \in DOMAIN events : ~GaveLast(j, o)
        /\ byOperation[o] # NoKey =>
             /\ \E j \in DOMAIN events : GaveLast(j, o) /\ events[j].key = byOperation[o]
             /\ ops[byOperation[o]].dispatch
    BY <1>1 DEF IndexIsLast
  <2>3. ASSUME byOperation[o] # NoKey PROVE ops'[byOperation[o]].dispatch
    <3>1. CASE ~New(e)
      BY <1>2, <2>2, <2>3, <3>1
    <3>2. CASE New(e)
      <4>1. Alters(e, byOperation[o])
        BY <1>1, <1>11, <2>3, <3>2, AlterationsOf
      <4> QED BY <2>2, <2>3, <4>1 DEF Alters
    <3> QED BY <3>1, <3>2
  <2>4. byOperation[o] = NoKey => \A j \in DOMAIN events' : ~GaveLast(j, o)'
    BY <1>4, <1>8, <1>9, <1>13, <2>2
  <2>5. ASSUME byOperation[o] # NoKey
        PROVE  \E j \in DOMAIN events' : GaveLast(j, o)' /\ events'[j].key = byOperation[o]
    <3>1. PICK j \in DOMAIN events : GaveLast(j, o) /\ events[j].key = byOperation[o]
      BY <2>2, <2>5
    <3> QED BY <1>4, <1>8, <1>13, <3>1
  <2> QED BY <2>1, <2>3, <2>4, <2>5
<1> QED BY <1>12, <1>13

\* The facts about a call are finitely many.
LEMMA FactsAreFinite ==
    ASSUME LedgerType, NEW kind, NEW k
    PROVE /\ IsFiniteSet(Facts(kind, k))
          /\ Len(events) + 1 \notin Facts(kind, k)
<1>1. IsFiniteSet(DOMAIN events) /\ Len(events) + 1 \notin DOMAIN events
  BY FS_Interval DEF LedgerType
<1>2. Facts(kind, k) \subseteq DOMAIN events
  BY DEF Facts
<1> QED BY <1>1, <1>2, FS_Subset

LEMMA BundlesKept ==
    ASSUME LedgerType, LedgerType', ScanFacts, NEW e \in Events, ScanEvent(e)
    PROVE  BundlesAreCounted'
<1>1. IdsAreSeen /\ LanesAreKept /\ IndexIsLast /\ BundlesAreCounted
  BY DEF ScanFacts
<1>2. events' = Append(events, e) /\ (~New(e) => ops' = ops)
  BY <1>1, EffectsOf
<1>3. PICK n \in Nat : n = Len(events)
  BY DEF LedgerType
<1>4. /\ DOMAIN events = 1 .. n
      /\ \A i \in 1 .. n : events'[i] = events[i]
      /\ events'[n + 1] = e
  BY <1>1, <1>2, <1>3, EventsGrow
<1>5. SUFFICES ASSUME NEW k \in Keys
               PROVE  /\ ops'[k].reconciles = Cardinality(Facts("reconcile", k)')
                      /\ Len(ops'[k].decisions) = Cardinality(Facts("decision", k)')
                      /\ Len(ops'[k].decisions) = 1 =>
                           \A i \in Facts("decision", k)' : ops'[k].decisions[1] = events'[i].disposition
  BY DEF BundlesAreCounted
<1> DEFINE R == Facts("reconcile", k)
           D == Facts("decision", k)
           Joins(kind) == New(e) /\ e.kind = kind /\ byOperation[e.op] = k
<1>6. /\ R' = R \cup IF Joins("reconcile") THEN {n + 1} ELSE {}
      /\ D' = D \cup IF Joins("decision") THEN {n + 1} ELSE {}
  BY <1>1, <1>2, <1>3, FactsGrow
<1>7. IsFiniteSet(R) /\ IsFiniteSet(D) /\ n + 1 \notin R /\ n + 1 \notin D
  BY <1>3, FactsAreFinite
<1>8. /\ ops[k].reconciles = Cardinality(R)
      /\ Len(ops[k].decisions) = Cardinality(D)
      /\ Len(ops[k].decisions) = 1 =>
           \A i \in D : ops[k].decisions[1] = events[i].disposition
  BY <1>1 DEF BundlesAreCounted
<1>9. \A i \in D : events'[i] = events[i]
  BY <1>4 DEF Facts
<1>10. ops[k].decisions \in Seq(Dispositions)
  BY DEF LedgerType, Op
<1>11. /\ ops'[k].reconciles = IF Joins("reconcile") THEN ops[k].reconciles + 1 ELSE ops[k].reconciles
       /\ ops'[k].decisions = IF Joins("decision") THEN Append(ops[k].decisions, e.disposition)
                                ELSE ops[k].decisions
  <2>1. CASE ~New(e)
    BY <1>2, <2>1
  <2>2. CASE New(e)
    <3>1. Alters(e, k)
      BY <1>1, <2>2, AlterationsOf
    <3> QED BY <2>2, <3>1 DEF Alters
  <2> QED BY <2>1, <2>2
<1> HIDE DEF R, D, Joins
<1>12. ops'[k].reconciles = Cardinality(R')
  <2>1. CASE Joins("reconcile")
    <3>1. R' = R \cup {n + 1}
      BY <1>6, <2>1
    <3>2. Cardinality(R \cup {n + 1}) = Cardinality(R) + 1
      BY <1>7, FS_AddElement
    <3>3. ops'[k].reconciles = ops[k].reconciles + 1
      BY <1>11, <2>1
    <3> QED BY <1>8, <3>1, <3>2, <3>3
  <2>2. CASE ~Joins("reconcile")
    BY <1>6, <1>8, <1>11, <2>2
  <2> QED BY <2>1, <2>2
<1>13. /\ Len(ops'[k].decisions) = Cardinality(D')
       /\ Len(ops'[k].decisions) = 1 =>
            \A i \in D' : ops'[k].decisions[1] = events'[i].disposition
  <2>1. CASE Joins("decision")
    <3>1. e.disposition \in Dispositions
      BY <2>1, EventFields DEF Joins
    <3>2. Len(ops'[k].decisions) = Len(ops[k].decisions) + 1 /\ Len(ops[k].decisions) \in Nat
      BY <1>10, <1>11, <2>1, <3>1
    <3>3. Cardinality(D') = Cardinality(D) + 1 /\ D' = D \cup {n + 1}
      BY <1>6, <1>7, <2>1, FS_AddElement
    <3>4. ASSUME Len(ops'[k].decisions) = 1
          PROVE  \A i \in D' : ops'[k].decisions[1] = events'[i].disposition
      <4>1. Len(ops[k].decisions) = 0 /\ Cardinality(D) = 0
        <5>1. \A a \in Nat : a + 1 = 1 => a = 0
          OBVIOUS
        <5>2. Len(ops[k].decisions) = 0
          BY <3>2, <3>4, <5>1, Zenon
        <5> QED BY <1>8, <5>2
      <4>2. D' = {n + 1}
        BY <1>7, <3>3, <4>1, FS_EmptySet
      <4>3. ops'[k].decisions[1] = e.disposition
        BY <1>10, <1>11, <2>1, <3>1, <4>1
      <4> QED BY <1>4, <4>2, <4>3
    <3> QED BY <1>8, <3>2, <3>3, <3>4
  <2>2. CASE ~Joins("decision")
    <3>1. D' = D /\ ops'[k].decisions = ops[k].decisions
      BY <1>6, <1>11, <2>2
    <3> QED BY <1>8, <1>9, <3>1
  <2> QED BY <2>1, <2>2
<1> QED BY <1>12, <1>13 DEF R, D

LEMMA DamageKept ==
    ASSUME LedgerType, LedgerType', ScanFacts, NEW e \in Events, ScanEvent(e)
    PROVE  DamageIsNoted'
<1>1. IdsAreSeen /\ LanesAreKept /\ IndexIsLast /\ DamageIsNoted
  BY DEF ScanFacts
<1> DEFINE strays == e.kind \in {"reconcile", "decision"} /\ byOperation[e.op] = NoKey
<1>2. /\ events' = Append(events, e)
      /\ ~New(e) => ops' = ops /\ corrupt' = TRUE
      /\ New(e) => corrupt' = (corrupt \/ (\E k \in Keys : Hurts(e, k)) \/ strays)
  BY <1>1, EffectsOf
<1>3. PICK n \in Nat : n = Len(events)
  BY DEF LedgerType
<1>4. DOMAIN events = 1 .. n /\ DOMAIN events' = 1 .. n + 1
  BY <1>1, <1>2, <1>3, EventsGrow
<1>5. (\A i \in 1 .. n : Counts(i)' <=> Counts(i)) /\ (Counts(n + 1)' <=> New(e))
  BY <1>1, <1>2, <1>3, EventsGrow
<1>6. (\A i \in 1 .. n : Stray(i)' <=> Stray(i)) /\ (Stray(n + 1)' <=> New(e) /\ strays)
  BY <1>1, <1>2, <1>3, StraysGrow
<1> HIDE DEF strays
<1>7. (\E i \in DOMAIN events' : ~Counts(i)' \/ Stray(i)')
        <=> (\E i \in DOMAIN events : ~Counts(i) \/ Stray(i)) \/ ~New(e) \/ strays
  <2>1. \A i : i \in 1 .. n + 1 <=> i \in 1 .. n \/ i = n + 1
    OBVIOUS
  <2> QED BY <1>4, <1>5, <1>6, <2>1
<1>8. corrupt = \/ \E i \in DOMAIN events : ~Counts(i) \/ Stray(i)
                \/ \E k \in Keys : ops[k].flawed
  BY <1>1 DEF DamageIsNoted
<1>9. New(e) => ((\E k \in Keys : ops'[k].flawed)
                   <=> (\E k \in Keys : ops[k].flawed) \/ \E k \in Keys : Hurts(e, k))
  <2>1. New(e) => \A k \in Keys : ops'[k].flawed = (ops[k].flawed \/ Hurts(e, k))
    BY <1>1, AlterationsOf DEF Alters
  <2> QED BY <2>1
<1>10. corrupt' \in BOOLEAN
  BY DEF LedgerType
<1>11. corrupt' = \/ \E i \in DOMAIN events' : ~Counts(i)' \/ Stray(i)'
                  \/ \E k \in Keys : ops'[k].flawed
  BY <1>2, <1>7, <1>8, <1>9, <1>10
<1> QED BY <1>11 DEF DamageIsNoted

LEMMA ScanInit == LedgerInit => ScanFacts
<1> SUFFICES ASSUME LedgerInit PROVE ScanFacts
  OBVIOUS
<1>1. /\ DOMAIN events = {} /\ seen = {} /\ corrupt = FALSE
      /\ \A k \in Keys : ops[k] = Unknown
      /\ \A o \in Operations : byOperation[o] = NoKey
  BY DEF LedgerInit
<1>2. \A kind, k : Lane(kind, k) = {} /\ Facts(kind, k) = {}
  BY <1>1 DEF Lane, Facts
<1>3. /\ Unknown.known = FALSE /\ Unknown.call = FALSE /\ Unknown.dispatch = FALSE
      /\ Unknown.response = FALSE /\ Unknown.flawed = FALSE
      /\ Unknown.reconciles = 0 /\ Unknown.decisions = <<>>
  BY DEF Unknown
<1>4. IdsAreSeen
  BY <1>1 DEF IdsAreSeen
<1>5. LanesAreKept
  BY <1>1, <1>2, <1>3 DEF LanesAreKept
<1>6. FlawsAreBreaches
  BY <1>1, <1>2, <1>3 DEF FlawsAreBreaches
<1>7. IndexIsLast
  BY <1>1 DEF IndexIsLast
<1>8. BundlesAreCounted
  <2>1. Cardinality({}) = 0
    BY FS_EmptySet
  <2>2. ASSUME NEW k \in Keys
        PROVE  /\ ops[k].reconciles = Cardinality(Facts("reconcile", k))
               /\ Len(ops[k].decisions) = Cardinality(Facts("decision", k))
               /\ Facts("decision", k) = {}
    <3>1. ops[k].reconciles = 0 /\ ops[k].decisions = <<>>
      BY <1>1, <1>3
    <3>2. Len(<<>>) = 0
      OBVIOUS
    <3> QED BY <1>2, <2>1, <3>1, <3>2
  <2> QED BY <2>2 DEF BundlesAreCounted
<1>9. DamageIsNoted
  BY <1>1, <1>3 DEF DamageIsNoted
<1> QED BY <1>4, <1>5, <1>6, <1>7, <1>8, <1>9 DEF ScanFacts

LEMMA ScanNext == LedgerType /\ LedgerType' /\ ScanFacts /\ [LedgerNext]_ledgerVars => ScanFacts'
<1> SUFFICES ASSUME LedgerType, LedgerType', ScanFacts, [LedgerNext]_ledgerVars PROVE ScanFacts'
  OBVIOUS
<1>1. CASE UNCHANGED ledgerVars
  <2>1. /\ events' = events /\ seen' = seen /\ ops' = ops
        /\ byOperation' = byOperation /\ corrupt' = corrupt
    BY <1>1 DEF ledgerVars
  <2>2. \A i : Counts(i)' <=> Counts(i)
    BY <2>1 DEF Counts
  <2>3. \A kind, k : Lane(kind, k)' = Lane(kind, k)
    BY <2>1, <2>2 DEF Lane
  <2>4. \A k : Wellformed(k)' <=> Wellformed(k)
    BY <2>1, <2>3 DEF Wellformed
  <2>5. \A i : Assigns(i)' <=> Assigns(i)
    BY <2>1, <2>2, <2>3 DEF Assigns
  <2>6. \A i, j : About(i, j)' <=> About(i, j)
    BY <2>1, <2>5 DEF About
  <2>7. \A i, o : GaveLast(i, o)' <=> GaveLast(i, o)
    BY <2>1, <2>5 DEF GaveLast
  <2>8. \A kind, k : Facts(kind, k)' = Facts(kind, k)
    BY <2>1, <2>2, <2>6 DEF Facts
  <2>9. \A i : Stray(i)' <=> Stray(i)
    BY <2>1, <2>2, <2>6 DEF Stray
  <2>10. IdsAreSeen'
    BY <2>1 DEF ScanFacts, IdsAreSeen
  <2>11. LanesAreKept' /\ FlawsAreBreaches'
    BY <2>1, <2>3, <2>4 DEF ScanFacts, LanesAreKept, FlawsAreBreaches
  <2>12. IndexIsLast' /\ BundlesAreCounted'
    BY <2>1, <2>7, <2>8 DEF ScanFacts, IndexIsLast, BundlesAreCounted
  <2>13. DamageIsNoted'
    BY <2>1, <2>2, <2>9 DEF ScanFacts, DamageIsNoted
  <2> QED BY <2>10, <2>11, <2>12, <2>13 DEF ScanFacts
<1>2. CASE LedgerNext
  <2>1. PICK e \in Events : ScanEvent(e)
    BY <1>2 DEF LedgerNext
  <2> QED BY <2>1, IdsKept, LanesKept, FlawsKept, IndexKept, BundlesKept, DamageKept DEF ScanFacts
<1> QED BY <1>1, <1>2

\* The indices of the scan and the rules give one status, and one verdict on the ledger.
LEMMA FactsFollowRules ==
    ASSUME LedgerType, ScanFacts
    PROVE  ScanFollowsRules
<1>1. LanesAreKept /\ FlawsAreBreaches /\ BundlesAreCounted /\ DamageIsNoted
  BY DEF ScanFacts
<1>2. \A k \in Keys : ops[k] \in Op
  BY DEF LedgerType
<1>3. \A k \in Keys : ops[k].known = Mentioned(k)
  BY <1>1 DEF LanesAreKept, Mentioned
<1>4. corrupt = RuleCorrupt
  <2>1. (\E k \in Keys : ops[k].flawed) <=> \E k \in Keys : Mentioned(k) /\ ~Wellformed(k)
    BY <1>1, <1>2, <1>3 DEF FlawsAreBreaches, Op
  <2>2. corrupt \in BOOLEAN
    BY DEF LedgerType
  <2> QED BY <1>1, <2>1, <2>2 DEF DamageIsNoted, RuleCorrupt
<1>5. ASSUME NEW k \in Keys, ops[k].known PROVE Status(k) = RuleStatus(k)
  <2> DEFINE o == ops[k]
             R == Facts("reconcile", k)
             D == Facts("decision", k)
  <2>1. /\ o.flawed = ~Wellformed(k)
        /\ o.call = (Lane("call", k) # {})
        /\ o.dispatch = (Lane("dispatch", k) # {})
        /\ o.response = (Lane("response", k) # {})
    BY <1>1, <1>5 DEF FlawsAreBreaches, LanesAreKept
  <2>2. o.flawed \in BOOLEAN /\ o.reconciles \in Nat /\ o.decisions \in Seq(Dispositions)
    BY <1>2 DEF Op
  <2>3. Wellformed(k) => o.call
    BY <2>1 DEF Wellformed
  <2>4. o.reconciles = Cardinality(R) /\ Len(o.decisions) = Cardinality(D)
    BY <1>1 DEF BundlesAreCounted
  <2>5. (Cardinality(R) = 0 <=> R = {}) /\ (Cardinality(D) = 0 <=> D = {})
    BY FactsAreFinite, FS_EmptySet
  <2>6. o.reconciles > 0 <=> R # {}
    BY <2>2, <2>4, <2>5
  <2>7. o.decisions # <<>> <=> D # {}
    <3>1. o.decisions = <<>> <=> Len(o.decisions) = 0
      BY <2>2
    <3> QED BY <2>4, <2>5, <3>1
  <2>8. HasBundle(o) <=> R \cup D # {}
    BY <2>6, <2>7 DEF HasBundle
  <2>9. Canonical(o) <=> Cardinality(R) = 1 /\ Cardinality(D) = 1
    BY <2>4 DEF Canonical
  <2>10. Cardinality(D) = 1 => o.decisions[1] = events[CHOOSE i \in D : TRUE].disposition
    <3>1. ASSUME Cardinality(D) = 1
          PROVE  o.decisions[1] = events[CHOOSE i \in D : TRUE].disposition
      <4>1. (CHOOSE i \in D : TRUE) \in D
        BY <2>5, <3>1
      <4>2. \A i \in D : o.decisions[1] = events[i].disposition
        BY <1>1, <2>4, <3>1 DEF BundlesAreCounted
      <4> QED BY <4>1, <4>2
    <3> QED BY <3>1
  <2>11. Status(k) = StatusOf(o)
    BY DEF Status
  <2> HIDE DEF o, R, D
  <2>12. CASE ~Wellformed(k)
    <3>1. StatusOf(o) = "corruption"
      BY <2>1, <2>12 DEF StatusOf
    <3>2. RuleStatus(k) = "corruption"
      BY <2>12 DEF RuleStatus
    <3> QED BY <2>11, <3>1, <3>2
  <2>13. CASE Wellformed(k) /\ R \cup D = {}
    <3>1. StatusOf(o) = IF o.response THEN "completed"
                        ELSE IF o.dispatch \/ ~NewProtocol THEN "indeterminate" ELSE "not_dispatched"
      BY <2>1, <2>3, <2>8, <2>13 DEF StatusOf
    <3>2. RuleStatus(k) = IF Lane("response", k) # {} THEN "completed"
                          ELSE IF Lane("dispatch", k) = {} /\ NewProtocol THEN "not_dispatched"
                          ELSE "indeterminate"
      BY <2>13 DEF RuleStatus, R, D
    <3> QED BY <2>1, <2>11, <3>1, <3>2
  <2>14. CASE Wellformed(k) /\ R \cup D # {}
    <3>1. StatusOf(o) = IF ~Canonical(o) THEN "corruption" ELSE o.decisions[1]
      BY <2>1, <2>3, <2>8, <2>14 DEF StatusOf
    <3>2. RuleStatus(k) = IF Cardinality(R) = 1 /\ Cardinality(D) = 1
                            THEN events[CHOOSE i \in D : TRUE].disposition ELSE "corruption"
      BY <2>14 DEF RuleStatus, R, D
    <3> QED BY <2>9, <2>10, <2>11, <3>1, <3>2
  <2> QED BY <2>12, <2>13, <2>14
<1> QED BY <1>3, <1>4, <1>5 DEF ScanFollowsRules

\* For every ledger, damaged ones included, the scan and the resolver find the operations,
\* the damage and the statuses that the rules give when they are read over the whole ledger.
THEOREM ScanAlwaysFollowsRules == LedgerSpec => []ScanFollowsRules
<1>1. LedgerInit => LedgerInv /\ ScanFacts
  BY LedgerInvInit, ScanInit
<1>2. LedgerInv /\ ScanFacts /\ [LedgerNext]_ledgerVars => LedgerInv' /\ ScanFacts'
  <2>1. LedgerInv => LedgerType
    BY DEF LedgerInv
  <2>2. LedgerInv' => LedgerType'
    BY DEF LedgerInv
  <2> QED BY <2>1, <2>2, LedgerInvStep, ScanNext
<1>3. LedgerInv /\ ScanFacts => ScanFollowsRules
  BY FactsFollowRules DEF LedgerInv
<1> QED BY <1>1, <1>2, <1>3, PTL DEF LedgerSpec


-----------------------------------------------------------------------------
(* The conversation that a host resumes from the ledger it finds.          *)

\* A non-empty set of naturals has a least element (the library's minimum
\* under a well-founded relation, for <).
LEMMA LeastNatural ==
  ASSUME NEW T \in SUBSET Nat, T # {}
  PROVE  \E x \in T : \A y \in T : x <= y
<1> DEFINE R == {ss \in Nat \X Nat : ss[1] < ss[2]}
<1>1. IsWellFoundedOn(R, Nat)
  BY NatLessThanWellFounded DEF OpToRel
<1> HIDE DEF R
<1>2. PICK x \in T : \A y \in T : ~ (<<y, x>> \in R)
  BY <1>1, WFMin
<1>3. \A y \in T : ~ (y < x)
  BY <1>2 DEF R
<1>4. QED
  BY <1>3, SMT

\* From s on, t goes from each number to the next by F.
Follows(t, s, F, N) == t[0] = s /\ \A n \in 1..N : t[n] = F[n][t[n - 1]]

\* There is such a function.
LEMMA RecursionExists ==
  ASSUME NEW S, NEW N \in Nat, NEW s \in S, NEW F \in [1..N -> [S -> S]]
  PROVE  \E t \in [0..N -> S] : Follows(t, s, F, N)
<1> DEFINE Good(k) == \E t \in [0..k -> S] :
                        t[0] = s /\ \A n \in 1..k : t[n] = F[n][t[n - 1]]
           Bad == {k \in 0..N : ~Good(k)}
<1>0. Good(0)
  <2> DEFINE t == [n \in 0..0 |-> s]
  <2>1. t \in [0..0 -> S] /\ t[0] = s /\ \A n \in 1..0 : t[n] = F[n][t[n - 1]]
    OBVIOUS
  <2> QED BY <2>1
<1>1. Bad = {}
  <2>1. SUFFICES ASSUME Bad # {} PROVE FALSE
    OBVIOUS
  <2>2. PICK k \in Bad : \A j \in Bad : k <= j
    <3>1. Bad \in SUBSET Nat
      OBVIOUS
    <3> QED BY <3>1, <2>1, LeastNatural
  <2>4. k # 0 /\ k - 1 \in 0..N /\ k \in 1..N /\ k - 1 \notin Bad
    <3> HIDE DEF Good
    <3> QED BY <2>2, <1>0
  <2>5. Good(k - 1)
    <3> HIDE DEF Good
    <3> QED BY <2>4
  <2>6. PICK t \in [0..(k - 1) -> S] :
               t[0] = s /\ \A n \in 1..(k - 1) : t[n] = F[n][t[n - 1]]
    BY <2>5
  <2> DEFINE u == [n \in 0..k |-> IF n = k THEN F[k][t[k - 1]] ELSE t[n]]
  <2>7. F[k][t[k - 1]] \in S
    <3>1. t[k - 1] \in S /\ k \in 1..N
      BY <2>2, <2>4, <2>6
    <3> QED BY <3>1
  <2>8. u \in [0..k -> S]
    BY <2>2, <2>7, <2>4
  <2>9. u[0] = s
    BY <2>6, <2>4
  <2>10. \A n \in 1..k : u[n] = F[n][u[n - 1]]
    <3>1. SUFFICES ASSUME NEW n \in 1..k PROVE u[n] = F[n][u[n - 1]]
      OBVIOUS
    <3>2. u[n - 1] = t[n - 1]
      BY <2>4
    <3>3. CASE n = k
      <4>1. u[k] = F[k][t[k - 1]]
        BY <2>4
      <4> HIDE DEF u
      <4> QED BY <3>2, <3>3, <4>1
    <3>4. CASE n # k
      <4>1. n \in 1..(k - 1) /\ u[n] = t[n]
        BY <3>4, <2>4
      <4> QED BY <2>6, <3>2, <4>1
    <3> QED BY <3>3, <3>4
  <2>11. Good(k)
    BY <2>8, <2>9, <2>10
  <2> QED BY <2>2, <2>11
<1>2. Good(N)
  <2> HIDE DEF Good
  <2> QED BY <1>1
<1> QED BY <1>2 DEF Follows

\* What the passes gather.
Messages == [role : {"user", "assistant", "tool"}, calls : SUBSET Keys]
Gathered == [out : Seq(Messages), text : BOOLEAN, calls : SUBSET Keys]

\* What is gathered is put out as a message of the assistant.
LEMMA FlushSteps ==
  ASSUME NEW c \in Gathered
  PROVE  /\ Flush(c) \in Gathered /\ Flush(c).calls = {}
         /\ Flush(c).out = IF c.text \/ c.calls # {}
                           THEN Append(c.out, [role |-> "assistant", calls |-> c.calls]) ELSE c.out
<1> DEFINE m == [role |-> "assistant", calls |-> c.calls]
<1>1. c.out \in Seq(Messages) /\ c.text \in BOOLEAN /\ c.calls \in SUBSET Keys
  BY DEF Gathered
<1>2. m \in Messages
  BY <1>1 DEF Messages
<1>3. Append(c.out, m) \in Seq(Messages)
  BY <1>1, <1>2, AppendProperties
<1>4. CASE c.text \/ c.calls # {}
  <2>1. Flush(c) = [out |-> Append(c.out, m), text |-> FALSE, calls |-> {}]
    BY <1>4 DEF Flush
  <2> HIDE DEF m
  <2> QED BY <1>3, <1>4, <2>1 DEF Gathered, m
<1>5. CASE ~(c.text \/ c.calls # {})
  BY <1>5 DEF Flush
<1> QED BY <1>4, <1>5

\* And then a message of the user or of a tool.
LEMMA SaySteps ==
  ASSUME NEW c \in Gathered, NEW r \in {"user", "tool"}, NEW K \in SUBSET Keys
  PROVE  /\ Say(c, r, K) \in Gathered /\ Say(c, r, K).calls = {}
         /\ Say(c, r, K).out = Append(Flush(c).out, [role |-> r, calls |-> K])
<1> DEFINE m == [role |-> r, calls |-> K]
           f == Flush(c)
<1>1. f \in Gathered /\ f.calls = {}
  BY FlushSteps
<1>2. m \in Messages
  BY DEF Messages
<1>3. Say(c, r, K) = [f EXCEPT !.out = Append(f.out, m)]
  BY DEF Say
<1> HIDE DEF m, f
<1>4. f.out \in Seq(Messages)
  BY <1>1 DEF Gathered
<1>5. Append(f.out, m) \in Seq(Messages)
  BY <1>2, <1>4, AppendProperties
<1>6. /\ Say(c, r, K) \in Gathered /\ Say(c, r, K).calls = {}
      /\ Say(c, r, K).out = Append(f.out, m)
  BY <1>1, <1>3, <1>5 DEF Gathered
<1> QED BY <1>6 DEF f, m

\* Every row gathers something of the same form.
LEMMA TakeInType ==
  ASSUME NEW c \in Gathered, NEW e, e.kind \in {"call", "response"} => e.key \in Keys, NEW R
  PROVE  TakeIn(c, e, R) \in Gathered
<1>1. CASE e.kind = "user"
  BY <1>1, SaySteps DEF TakeIn
<1>2. CASE e.kind = "text"
  BY <1>2 DEF TakeIn, Gathered
<1>3. CASE e.kind = "call"
  BY <1>3 DEF TakeIn, Gathered
<1>4. CASE e.kind = "response"
  <2>1. {e.key} \in SUBSET Keys
    BY <1>4
  <2> QED BY <1>4, <2>1, SaySteps DEF TakeIn
<1>5. CASE e.kind \notin {"user", "text", "call", "response"}
  BY <1>5 DEF TakeIn
<1> QED BY <1>1, <1>2, <1>3, <1>4, <1>5

\* What is gathered by the number of rows gone through.
LEMMA PassesSteps ==
  ASSUME NEW X, NEW es \in Seq(X), \A e \in X : e.kind \in {"call", "response"} => e.key \in Keys
  PROVE  /\ Passes(es) \in [0 .. Len(es) -> Gathered]
         /\ Passes(es)[0] = [out |-> <<>>, text |-> FALSE, calls |-> {}]
         /\ \A n \in 1 .. Len(es) : Passes(es)[n] = TakeIn(Passes(es)[n - 1], es[n], Responded(es))
<1> DEFINE N == Len(es)
           none == [out |-> <<>>, text |-> FALSE, calls |-> {}]
           Next1(x, n) == TakeIn(x, es[n], Responded(es))
           F == [n \in 1 .. N |-> [x \in Gathered |-> Next1(x, n)]]
           Is(t) == t = [i \in 0 .. N |-> IF i = 0 THEN none ELSE Next1(t[i - 1], i)]
<1>1. N \in Nat /\ \A n \in 1 .. N : es[n] \in X
  OBVIOUS
<1>2. \A x \in Gathered, n \in 1 .. N : Next1(x, n) \in Gathered
  BY <1>1, TakeInType
<1>3. none \in Gathered
  BY EmptySeq DEF Gathered
<1>8. Passes(es) = CHOOSE g : Is(g)
  BY Zenon DEF Passes
<1> HIDE DEF Next1, N, none
<1>4. F \in [1 .. N -> [Gathered -> Gathered]]
  BY <1>2
<1>5. \A x \in Gathered, n \in 1 .. N : F[n][x] = Next1(x, n)
  OBVIOUS
<1> HIDE DEF F
<1>6. PICK t \in [0 .. N -> Gathered] : Follows(t, none, F, N)
  BY <1>1, <1>3, <1>4, RecursionExists
<1>7. Is(t)
  <2>1. \A n \in 1 .. N : t[n] = Next1(t[n - 1], n)
    <3>1. SUFFICES ASSUME NEW n \in 1 .. N PROVE t[n] = Next1(t[n - 1], n)
      OBVIOUS
    <3>2. n - 1 \in 0 .. N
      BY <1>1
    <3> QED BY <1>5, <1>6, <3>2 DEF Follows
  <2> DEFINE u == [n \in 0 .. N |-> IF n = 0 THEN none ELSE Next1(t[n - 1], n)]
  <2>2. \A n \in 0 .. N : t[n] = u[n]
    BY <1>1, <1>6, <2>1 DEF Follows
  <2> QED BY <2>2, <1>6
<1> DEFINE T == CHOOSE g : Is(g)
<1>9. Is(T)
  <2> HIDE DEF Is
  <2> QED BY <1>7, Zenon
<1> HIDE DEF T
<1>10. DOMAIN T = 0 .. N /\ T[0] = none /\ \A n \in 1 .. N : T[n] = Next1(T[n - 1], n)
  <2>1. DOMAIN T = 0 .. N
    BY <1>9
  <2>2. \A n \in 0 .. N : T[n] = IF n = 0 THEN none ELSE Next1(T[n - 1], n)
    BY <1>9, Zenon
  <2> QED BY <2>1, <2>2, <1>1
<1>11. \A n \in 0 .. N : T[n] \in Gathered
  <2> DEFINE Bad == {n \in 0 .. N : T[n] \notin Gathered}
  <2>1. SUFFICES ASSUME Bad # {} PROVE FALSE
    OBVIOUS
  <2>2. PICK k \in Bad : \A j \in Bad : k <= j
    <3>1. Bad \in SUBSET Nat
      OBVIOUS
    <3> QED BY <3>1, <2>1, LeastNatural
  <2>3. k \in 1 .. N /\ k - 1 \in 0 .. N /\ k - 1 \notin Bad
    BY <2>2, <1>1, <1>3, <1>10
  <2>4. T[k - 1] \in Gathered
    BY <2>3
  <2> QED BY <2>2, <2>3, <2>4, <1>2, <1>10
<1>12. T \in [0 .. N -> Gathered]
  <2>1. T = [n \in 0 .. N |-> T[n]]
    BY <1>9
  <2> QED BY <2>1, <1>11
<1>13. Passes(es) = T
  BY <1>8 DEF T
<1> QED BY <1>10, <1>12, <1>13 DEF Next1, N, none

\* A message of the assistant with a call is followed by the answer, and no answer
\* stands elsewhere.
PairAt(ms, i) ==
    /\ ms[i].role = "assistant" /\ ms[i].calls # {} =>
         \E k \in Keys : /\ ms[i].calls = {k} /\ i + 1 \in DOMAIN ms
                         /\ ms[i + 1].role = "tool" /\ ms[i + 1].calls = {k}
    /\ ms[i].role = "tool" =>
         \E k \in Keys : /\ ms[i].calls = {k} /\ i - 1 \in DOMAIN ms
                         /\ ms[i - 1].role = "assistant" /\ ms[i - 1].calls = {k}

Paired(ms) == \A i \in DOMAIN ms : PairAt(ms, i)

\* A pair depends on no message behind it.
LEMMA PairStays ==
  ASSUME NEW ms, NEW s, NEW i \in DOMAIN ms, PairAt(ms, i), DOMAIN ms \subseteq DOMAIN s,
         \A j \in DOMAIN ms : s[j] = ms[j]
  PROVE  PairAt(s, i)
<1>1. s[i] = ms[i]
  OBVIOUS
<1>2. ASSUME ms[i].role = "assistant", ms[i].calls # {}
      PROVE  \E k \in Keys : /\ ms[i].calls = {k} /\ i + 1 \in DOMAIN s
                             /\ s[i + 1].role = "tool" /\ s[i + 1].calls = {k}
  BY <1>2 DEF PairAt
<1>3. ASSUME ms[i].role = "tool"
      PROVE  \E k \in Keys : /\ ms[i].calls = {k} /\ i - 1 \in DOMAIN s
                             /\ s[i - 1].role = "assistant" /\ s[i - 1].calls = {k}
  BY <1>3 DEF PairAt
<1> QED BY <1>1, <1>2, <1>3 DEF PairAt

\* A paired conversation stays paired with a message that is neither a call nor an answer.
LEMMA PairedGrows ==
  ASSUME NEW ms \in Seq(Messages), Paired(ms), NEW m \in Messages, m.role # "tool",
         m.role = "assistant" => m.calls = {}
  PROVE  Append(ms, m) \in Seq(Messages) /\ Paired(Append(ms, m))
<1> DEFINE s == Append(ms, m)
<1>1. /\ s \in Seq(Messages) /\ Len(ms) \in Nat /\ DOMAIN ms = 1 .. Len(ms)
      /\ DOMAIN s = 1 .. (Len(ms) + 1) /\ s[Len(ms) + 1] = m
      /\ \A i \in 1 .. Len(ms) : s[i] = ms[i]
  BY AppendProperties, LenProperties
<1> HIDE DEF s
<1>2. \A i \in DOMAIN ms : PairAt(s, i)
  <2>1. DOMAIN ms \subseteq DOMAIN s
    BY <1>1
  <2> QED BY <1>1, <2>1, PairStays DEF Paired
<1>3. PairAt(s, Len(ms) + 1)
  BY <1>1 DEF PairAt
<1>4. Paired(s)
  BY <1>1, <1>2, <1>3 DEF Paired
<1> QED BY <1>1, <1>4 DEF s

\* A paired conversation stays paired with a call and its answer.
LEMMA PairedGrowsByTwo ==
  ASSUME NEW ms \in Seq(Messages), Paired(ms), NEW k \in Keys, NEW a, NEW b,
         a = [role |-> "assistant", calls |-> {k}], b = [role |-> "tool", calls |-> {k}]
  PROVE  Append(Append(ms, a), b) \in Seq(Messages) /\ Paired(Append(Append(ms, a), b))
<1> DEFINE s == Append(Append(ms, a), b)
<1>1. a \in Messages /\ b \in Messages /\ a.role = "assistant" /\ b.role = "tool" /\ a.calls = {k} /\ b.calls = {k}
  BY DEF Messages
<1>2. Append(ms, a) \in Seq(Messages)
  BY <1>1, AppendProperties
<1>3. PICK n \in Nat :
         /\ s \in Seq(Messages) /\ DOMAIN ms = 1 .. n
         /\ DOMAIN s = 1 .. (n + 2) /\ s[n + 1] = a /\ s[n + 2] = b
         /\ \A i \in 1 .. n : s[i] = ms[i]
  BY <1>1, <1>2, AppendProperties, LenProperties
<1> HIDE DEF s
<1>4. \A i \in DOMAIN ms : PairAt(s, i)
  <2>1. DOMAIN ms \subseteq DOMAIN s
    BY <1>3
  <2> QED BY <1>3, <2>1, PairStays DEF Paired
<1>5. PairAt(s, n + 1)
  <2>1. (n + 1) + 1 = n + 2 /\ n + 2 \in DOMAIN s
    BY <1>3
  <2> QED BY <1>1, <1>3, <2>1 DEF PairAt
<1>6. PairAt(s, n + 2)
  <2>1. (n + 2) - 1 = n + 1 /\ n + 1 \in DOMAIN s
    BY <1>3
  <2> QED BY <1>1, <1>3, <2>1 DEF PairAt
<1>7. \A i \in DOMAIN s : i \in DOMAIN ms \/ i = n + 1 \/ i = n + 2
  BY <1>3
<1>8. Paired(s)
  BY <1>4, <1>5, <1>6, <1>7 DEF Paired
<1> QED BY <1>3, <1>8 DEF s

\* Which is what a provider asks of a conversation.
LEMMA PairedIsValid ==
  ASSUME NEW ms \in Seq(Messages), Paired(ms)
  PROVE  /\ \A i \in DOMAIN ms : ms[i].role = "assistant" => Answers(ms, i) = {{k} : k \in ms[i].calls}
         /\ \A j \in DOMAIN ms : ms[j].role = "tool" =>
              \E i \in 1 .. j - 1 : ms[j].calls \subseteq ms[i].calls /\ j - i <= Cardinality(ms[i].calls)
<1>1. Len(ms) \in Nat /\ DOMAIN ms = 1 .. Len(ms)
  BY LenProperties
<1>2. \A k \in Keys : Cardinality({k}) = 1
  BY FS_Singleton
<1>3. Cardinality({}) = 0
  BY FS_EmptySet
<1>4. ASSUME NEW i \in DOMAIN ms, ms[i].role = "assistant"
      PROVE  Answers(ms, i) = {{k} : k \in ms[i].calls}
  <2>1. CASE ms[i].calls = {}
    <3>1. i + 1 .. i + Cardinality(ms[i].calls) = {}
      BY <1>1, <1>3, <2>1
    <3> QED BY <2>1, <3>1 DEF Answers
  <2>2. CASE ms[i].calls # {}
    <3>1. PICK k \in Keys : /\ ms[i].calls = {k} /\ i + 1 \in DOMAIN ms
                            /\ ms[i + 1].role = "tool" /\ ms[i + 1].calls = {k}
      BY <1>4, <2>2 DEF Paired, PairAt
    <3>2. i + 1 .. i + Cardinality(ms[i].calls) = {i + 1}
      BY <1>1, <1>2, <3>1
    <3>3. {n \in i + 1 .. i + Cardinality(ms[i].calls) : n \in DOMAIN ms /\ ms[n].role = "tool"} = {i + 1}
      BY <3>1, <3>2
    <3>4. Answers(ms, i) = {{k}}
      BY <3>1, <3>3 DEF Answers
    <3> QED BY <3>1, <3>4
  <2> QED BY <2>1, <2>2
<1>5. ASSUME NEW j \in DOMAIN ms, ms[j].role = "tool"
      PROVE  \E i \in 1 .. j - 1 : ms[j].calls \subseteq ms[i].calls /\ j - i <= Cardinality(ms[i].calls)
  <2>1. PICK k \in Keys : /\ ms[j].calls = {k} /\ j - 1 \in DOMAIN ms /\ ms[j - 1].calls = {k}
    BY <1>5 DEF Paired, PairAt
  <2>2. PICK i : i = j - 1 /\ i \in 1 .. j - 1 /\ j - i = 1
    BY <1>1, <2>1
  <2>3. Cardinality(ms[i].calls) = 1
    BY <1>2, <2>1, <2>2
  <2> QED BY <2>1, <2>2, <2>3
<1> QED BY <1>4, <1>5


\* A call that will be answered waits: it is the last row gone through, but for its
\* dispatch fact.
Waits(es, i, k) ==
    /\ k \in Responded(es)
    /\ \E p \in 1 .. i : IsCallRow(es, p, k) /\ OnlyDispatches(es, p + 1, i)

\* The answer is the next row, but for dispatch facts.
LEMMA AnswerIsNext ==
  ASSUME NEW X, NEW es \in Seq(X), NEW i \in 0 .. Len(es), NEW k, Waits(es, i, k),
         \A m, n \in DOMAIN es :
            es[m].kind = "call" /\ es[n].kind = "call" /\ es[m].key = es[n].key => m = n,
         \A j \in DOMAIN es : es[j].kind = "response" => FollowsItsCall(es, j)
  PROVE  \E j \in i + 1 .. Len(es) :
           es[j].kind = "response" /\ es[j].key = k /\ OnlyDispatches(es, i + 1, j - 1)
<1>1. Len(es) \in Nat /\ DOMAIN es = 1 .. Len(es)
  OBVIOUS
<1>2. PICK p \in 1 .. i : IsCallRow(es, p, k) /\ OnlyDispatches(es, p + 1, i)
  BY DEF Waits
<1>3. PICK j \in DOMAIN es : es[j].kind = "response" /\ es[j].key = k
  BY DEF Waits, Responded
<1>4. PICK q \in 1 .. j - 1 : IsCallRow(es, q, k) /\ OnlyDispatches(es, q + 1, j - 1)
  BY <1>3 DEF FollowsItsCall
<1>5. q = p
  BY <1>1, <1>2, <1>3, <1>4 DEF IsCallRow
<1>6. j \in i + 1 .. Len(es)
  <2>1. SUFFICES ASSUME j <= i PROVE FALSE
    BY <1>1, <1>3
  <2>2. j \in p + 1 .. i
    BY <1>1, <1>3, <1>4, <1>5, <2>1
  <2> QED BY <1>2, <1>3, <2>2 DEF OnlyDispatches
<1>7. OnlyDispatches(es, i + 1, j - 1)
  BY <1>1, <1>2, <1>4, <1>5, <1>6 DEF OnlyDispatches
<1> QED BY <1>3, <1>6, <1>7

\* One more row is gone through: who waits then.
LEMMA WaitsNext ==
  ASSUME NEW X, NEW es \in Seq(X), NEW n \in 1 .. Len(es), NEW k
  PROVE  /\ es[n].kind = "dispatch" => (Waits(es, n, k) <=> Waits(es, n - 1, k))
         /\ es[n].kind = "call" => (Waits(es, n, k) <=> es[n].key = k /\ k \in Responded(es))
         /\ es[n].kind \notin {"call", "dispatch"} => ~Waits(es, n, k)
<1>1. Len(es) \in Nat /\ n - 1 \in 0 .. Len(es)
  OBVIOUS
<1>2. ASSUME es[n].kind # "dispatch", Waits(es, n, k) PROVE IsCallRow(es, n, k)
  <2>1. PICK p \in 1 .. n : IsCallRow(es, p, k) /\ OnlyDispatches(es, p + 1, n)
    BY <1>2 DEF Waits
  <2>2. p = n
    <3>1. SUFFICES ASSUME p # n PROVE FALSE
      OBVIOUS
    <3>2. n \in p + 1 .. n
      BY <2>1, <3>1
    <3> QED BY <1>2, <2>1, <3>2 DEF OnlyDispatches
  <2> QED BY <2>1, <2>2
<1>3. ASSUME IsCallRow(es, n, k), k \in Responded(es) PROVE Waits(es, n, k)
  <2>1. n \in 1 .. n /\ OnlyDispatches(es, n + 1, n)
    BY DEF OnlyDispatches
  <2> QED BY <1>3, <2>1 DEF Waits
<1>4. ASSUME es[n].kind = "dispatch", Waits(es, n - 1, k) PROVE Waits(es, n, k)
  <2>1. PICK p \in 1 .. n - 1 : IsCallRow(es, p, k) /\ OnlyDispatches(es, p + 1, n - 1)
    BY <1>4 DEF Waits
  <2>2. p \in 1 .. n /\ OnlyDispatches(es, p + 1, n)
    <3>1. \A m \in p + 1 .. n : m \in p + 1 .. n - 1 \/ m = n
      BY <1>1, <2>1
    <3> QED BY <1>4, <2>1, <3>1 DEF OnlyDispatches
  <2> QED BY <1>4, <2>1, <2>2 DEF Waits
<1>5. ASSUME es[n].kind = "dispatch", Waits(es, n, k) PROVE Waits(es, n - 1, k)
  <2>1. PICK p \in 1 .. n : IsCallRow(es, p, k) /\ OnlyDispatches(es, p + 1, n)
    BY <1>5 DEF Waits
  <2>2. p # n
    BY <1>5, <2>1 DEF IsCallRow
  <2>3. p \in 1 .. n - 1 /\ OnlyDispatches(es, p + 1, n - 1)
    BY <2>1, <2>2 DEF OnlyDispatches
  <2> QED BY <1>5, <2>1, <2>3 DEF Waits
<1> QED BY <1>2, <1>3, <1>4, <1>5 DEF IsCallRow, Waits

\* From a ledger in pairs the two passes make a conversation in pairs: a call that is
\* gathered is the one that waits, and no text and no other call comes before its answer.
LEMMA ConversationIsPaired ==
  ASSUME NEW X, NEW es \in Seq(X), \A e \in X : e.kind \in {"call", "response"} => e.key \in Keys,
         \A m, n \in DOMAIN es :
            es[m].kind = "call" /\ es[n].kind = "call" /\ es[m].key = es[n].key => m = n,
         \A j \in DOMAIN es : es[j].kind = "response" => FollowsItsCall(es, j)
  PROVE  Project(es) \in Seq(Messages) /\ Paired(Project(es))
<1> DEFINE N == Len(es)
           R == Responded(es)
           T == Passes(es)
           Good(i) == /\ \A k : Waits(es, i, k) => T[i].calls = {k}
                      /\ (\A k : ~Waits(es, i, k)) => T[i].calls = {}
                      /\ Paired(T[i].out)
<1>1. N \in Nat /\ DOMAIN es = 1 .. N /\ \A n \in 1 .. N : es[n] \in X
  OBVIOUS
<1>2. /\ T \in [0 .. N -> Gathered]
      /\ T[0] = [out |-> <<>>, text |-> FALSE, calls |-> {}]
      /\ \A n \in 1 .. N : T[n] = TakeIn(T[n - 1], es[n], R)
  BY PassesSteps
<1>3. \A i \in 0 .. N : \A k : Waits(es, i, k) =>
         \E j \in i + 1 .. N :
           es[j].kind = "response" /\ es[j].key = k /\ OnlyDispatches(es, i + 1, j - 1)
  BY AnswerIsNext
<1>4. ASSUME NEW n \in 1 .. N, NEW k, Waits(es, n - 1, k)
      PROVE  es[n].kind = "dispatch" \/ (es[n].kind = "response" /\ es[n].key = k)
  <2>1. n - 1 \in 0 .. N /\ (n - 1) + 1 = n
    BY <1>1
  <2>2. PICK j \in n .. N :
          es[j].kind = "response" /\ es[j].key = k /\ OnlyDispatches(es, n, j - 1)
    BY <1>3, <1>4, <2>1
  <2>3. CASE j = n
    BY <2>2, <2>3
  <2>4. CASE j # n
    <3>1. n \in n .. j - 1
      BY <1>1, <2>2, <2>4
    <3> QED BY <2>2, <3>1 DEF OnlyDispatches
  <2> QED BY <2>3, <2>4
<1>5. \A k : ~Waits(es, N, k)
  <2>1. N \in 0 .. N /\ N + 1 .. N = {}
    BY <1>1
  <2> QED BY <1>3, <2>1
<1>6. Good(0)
  <2>1. \A k : ~Waits(es, 0, k)
    BY DEF Waits
  <2>2. Paired(<<>>)
    BY DEF Paired
  <2> QED BY <1>2, <2>1, <2>2
<1> HIDE DEF N, R, T
<1>7. ASSUME NEW n \in 1 .. N, Good(n - 1) PROVE Good(n)
  <2> DEFINE e == es[n]
             c == T[n - 1]
  <2>0. /\ c \in Gathered /\ T[n] = TakeIn(c, e, R) /\ c.out \in Seq(Messages)
        /\ e.kind \in {"call", "response"} => e.key \in Keys
    <3>1. n - 1 \in 0 .. N
      BY <1>1
    <3> QED BY <1>1, <1>2, <3>1 DEF Gathered
  <2>1. /\ \A k : Waits(es, n - 1, k) => c.calls = {k}
        /\ (\A k : ~Waits(es, n - 1, k)) => c.calls = {}
        /\ Paired(c.out)
    BY <1>7
  <2>2. \A k : /\ e.kind = "dispatch" => (Waits(es, n, k) <=> Waits(es, n - 1, k))
               /\ e.kind = "call" => (Waits(es, n, k) <=> e.key = k /\ k \in R)
               /\ e.kind \notin {"call", "dispatch"} => ~Waits(es, n, k)
    BY WaitsNext DEF N, R
  <2>3. \A k : Waits(es, n - 1, k) => e.kind = "dispatch" \/ (e.kind = "response" /\ e.key = k)
    BY <1>4
  <2> HIDE DEF e, c
  <2>4. e.kind \notin {"dispatch", "response"} => c.calls = {}
    BY <2>1, <2>3
  <2>5. CASE e.kind = "user"
    <3> DEFINE f == Flush(c)
    <3>1. f.out \in Seq(Messages) /\ Paired(f.out)
      <4>1. f \in Gathered /\ f.out = IF c.text \/ c.calls # {}
                       THEN Append(c.out, [role |-> "assistant", calls |-> c.calls]) ELSE c.out
        BY <2>0, FlushSteps
      <4>2. c.calls = {} /\ [role |-> "assistant", calls |-> {}] \in Messages
        BY <2>4, <2>5 DEF Messages
      <4>3. /\ Append(c.out, [role |-> "assistant", calls |-> {}]) \in Seq(Messages)
            /\ Paired(Append(c.out, [role |-> "assistant", calls |-> {}]))
        <5>1. PICK m : m = [role |-> "assistant", calls |-> {}]
          OBVIOUS
        <5>2. m.role = "assistant" /\ m.calls = {} /\ m \in Messages
          BY <4>2, <5>1
        <5>3. Append(c.out, m) \in Seq(Messages) /\ Paired(Append(c.out, m))
          BY <2>0, <2>1, <5>2, PairedGrows
        <5> QED BY <5>1, <5>3
      <4> QED BY <2>0, <2>1, <4>1, <4>2, <4>3
    <3>2. T[n] = Say(c, "user", {})
      BY <2>0, <2>5 DEF TakeIn
    <3>3. T[n].calls = {} /\ T[n].out = Append(f.out, [role |-> "user", calls |-> {}])
      <4>1. {} \in SUBSET Keys /\ "user" \in {"user", "tool"}
        OBVIOUS
      <4>2. /\ Say(c, "user", {}).calls = {}
            /\ Say(c, "user", {}).out = Append(Flush(c).out, [role |-> "user", calls |-> {}])
        BY <2>0, <4>1, SaySteps
      <4> QED BY <3>2, <4>2
    <3>4. Paired(Append(f.out, [role |-> "user", calls |-> {}]))
      <4>1. PICK m : m = [role |-> "user", calls |-> {}]
        OBVIOUS
      <4>2. m.role = "user" /\ m \in Messages
        BY <4>1 DEF Messages
      <4> HIDE DEF f
      <4>3. Paired(Append(f.out, m))
        BY <3>1, <4>2, PairedGrows
      <4> QED BY <4>1, <4>3
    <3> QED BY <2>2, <2>5, <3>3, <3>4
  <2>6. CASE e.kind = "text"
    <3>1. T[n] = [c EXCEPT !.text = TRUE]
      BY <2>0, <2>6 DEF TakeIn
    <3>2. T[n].calls = {} /\ T[n].out = c.out
      BY <2>0, <2>4, <2>6, <3>1 DEF Gathered
    <3> QED BY <2>1, <2>2, <2>6, <3>2
  <2>7. CASE e.kind = "call"
    <3>1. T[n] = [c EXCEPT !.calls = c.calls \cup ({e.key} \cap R)]
      BY <2>0, <2>7 DEF TakeIn
    <3>2. T[n].calls = {e.key} \cap R /\ T[n].out = c.out
      BY <2>0, <2>4, <2>7, <3>1 DEF Gathered
    <3> QED BY <2>1, <2>2, <2>7, <3>2
  <2>8. CASE e.kind = "response"
    <3>1. PICK k \in Keys : k = e.key
      BY <2>0, <2>8
    <3>2. Waits(es, n - 1, k)
      <4>1. n \in DOMAIN es /\ es[n].kind = "response" /\ es[n].key = k
        BY <1>1, <2>8, <3>1 DEF e
      <4>2. k \in R
        BY <4>1 DEF R, Responded
      <4>3. PICK q \in 1 .. n - 1 : IsCallRow(es, q, k) /\ OnlyDispatches(es, q + 1, n - 1)
        BY <4>1 DEF FollowsItsCall
      <4> QED BY <4>2, <4>3 DEF Waits, R
    <3>3. c.calls = {k}
      BY <2>1, <3>2
    <3>4. PICK a, b : a = [role |-> "assistant", calls |-> {k}] /\ b = [role |-> "tool", calls |-> {k}]
      OBVIOUS
    <3>5. Flush(c).out = Append(c.out, a)
      BY <2>0, <3>3, <3>4, FlushSteps
    <3>6. T[n] = Say(c, "tool", {k})
      BY <2>0, <2>8, <3>1 DEF TakeIn
    <3>7. T[n].calls = {} /\ T[n].out = Append(Append(c.out, a), b)
      <4>1. {k} \in SUBSET Keys /\ "tool" \in {"user", "tool"}
        OBVIOUS
      <4>2. /\ Say(c, "tool", {k}).calls = {}
            /\ Say(c, "tool", {k}).out = Append(Flush(c).out, [role |-> "tool", calls |-> {k}])
        BY <2>0, <4>1, SaySteps
      <4> QED BY <3>4, <3>5, <3>6, <4>2
    <3>8. Paired(T[n].out)
      <4>1. c.out \in Seq(Messages) /\ Paired(c.out)
        BY <2>0, <2>1
      <4>2. Paired(Append(Append(c.out, a), b))
        BY <3>4, <4>1, PairedGrowsByTwo
      <4> QED BY <3>7, <4>2
    <3> QED BY <2>2, <2>8, <3>7, <3>8
  <2>9. CASE e.kind \notin {"user", "text", "call", "response"}
    <3>1. T[n] = c
      BY <2>0, <2>9 DEF TakeIn
    <3> QED BY <2>1, <2>2, <2>4, <2>9, <3>1
  <2> QED BY <2>5, <2>6, <2>7, <2>8, <2>9
<1>8. Good(N)
  <2> DEFINE Bad == {i \in 0 .. N : ~Good(i)}
  <2> HIDE DEF Good
  <2>1. SUFFICES ASSUME Bad # {} PROVE FALSE
    BY <1>1
  <2>2. PICK i \in Bad : \A j \in Bad : i <= j
    <3>1. Bad \in SUBSET Nat
      OBVIOUS
    <3> QED BY <3>1, <2>1, LeastNatural
  <2>3. i \in 1 .. N /\ i - 1 \in 0 .. N /\ i - 1 \notin Bad
    BY <1>1, <1>6, <2>2
  <2> QED BY <1>7, <2>2, <2>3
<1>9. N \in 0 .. N /\ T[N] \in Gathered /\ T[N].out \in Seq(Messages) /\ T[N].calls = {} /\ Paired(T[N].out)
  <2>1. N \in 0 .. N
    BY <1>1
  <2> QED BY <1>2, <1>5, <1>8, <2>1 DEF Gathered
<1>10. Project(es) = Flush(T[N]).out
  BY DEF Project, T, N
<1>11. PICK m : m = [role |-> "assistant", calls |-> {}]
  OBVIOUS
<1>12. m \in Messages /\ m.role = "assistant" /\ m.calls = {}
  BY <1>11 DEF Messages
<1>13. Append(T[N].out, m) \in Seq(Messages) /\ Paired(Append(T[N].out, m))
  BY <1>9, <1>12, PairedGrows
<1>14. Flush(T[N]).out = Append(T[N].out, m) \/ Flush(T[N]).out = T[N].out
  BY <1>9, <1>11, FlushSteps
<1> QED BY <1>9, <1>10, <1>13, <1>14


\* A sequence and what it is with one element more.
LEMMA OneMore ==
  ASSUME NEW a, a \in Seq({a[i] : i \in DOMAIN a}), NEW e, NEW b, b = Append(a, e)
  PROVE  /\ b \in Seq({b[i] : i \in DOMAIN b})
         /\ Len(a) \in Nat /\ DOMAIN a = 1 .. Len(a)
         /\ Len(b) = Len(a) + 1 /\ DOMAIN b = 1 .. Len(a) + 1 /\ b[Len(a) + 1] = e
         /\ \A i \in DOMAIN a : b[i] = a[i]
<1> DEFINE X == {a[i] : i \in DOMAIN a} \cup {e}
<1>1. a \in Seq(X)
  <2>1. {a[i] : i \in DOMAIN a} \subseteq X
    OBVIOUS
  <2> HIDE DEF X
  <2> QED BY <2>1, SeqMonotonic
<1>2. e \in X
  OBVIOUS
<1> HIDE DEF X
<1>3. /\ b \in Seq(X) /\ Len(b) = Len(a) + 1 /\ b[Len(a) + 1] = e
      /\ \A i \in 1 .. Len(a) : b[i] = a[i]
  BY <1>1, <1>2, AppendProperties
<1>4. Len(a) \in Nat /\ DOMAIN a = 1 .. Len(a) /\ DOMAIN b = 1 .. Len(b)
  BY <1>1, <1>3, LenProperties
<1> QED BY <1>3, <1>4, SeqOfOwn

\* What was in front of a row stays in front of it when the sequence grows.
LEMMA FollowsStays ==
  ASSUME NEW a, NEW b, NEW n \in Nat, NEW j \in 1 .. n, \A i \in 1 .. n : b[i] = a[i],
         FollowsItsCall(a, j)
  PROVE  FollowsItsCall(b, j)
<1>1. PICK i \in 1 .. j - 1 : IsCallRow(a, i, a[j].key) /\ OnlyDispatches(a, i + 1, j - 1)
  BY DEF FollowsItsCall
<1>2. b[j] = a[j] /\ IsCallRow(b, i, a[j].key)
  BY <1>1 DEF IsCallRow
<1>3. OnlyDispatches(b, i + 1, j - 1)
  BY <1>1 DEF OnlyDispatches
<1> QED BY <1>1, <1>2, <1>3 DEF FollowsItsCall

\* A sequence that ended at a call: the next row is the call's answer or its dispatch.
LEMMA EndsNext ==
  ASSUME NEW a, NEW b, NEW e, NEW k, a \in Seq({a[i] : i \in DOMAIN a}), b = Append(a, e),
         EndsAtCall(a, k)
  PROVE  /\ e.key = k => FollowsItsCall(b, Len(a) + 1)
         /\ e.kind = "dispatch" => EndsAtCall(b, k)
<1>1. PICK n \in Nat : /\ n = Len(a) /\ DOMAIN a = 1 .. n /\ Len(b) = n + 1 /\ DOMAIN b = 1 .. n + 1
                       /\ b[n + 1] = e /\ \A i \in 1 .. n : b[i] = a[i]
  BY OneMore
<1>2. PICK i \in 1 .. n : IsCallRow(a, i, k) /\ OnlyDispatches(a, i + 1, n)
  BY <1>1 DEF EndsAtCall
<1>3. IsCallRow(b, i, k) /\ OnlyDispatches(b, i + 1, n)
  BY <1>1, <1>2 DEF IsCallRow, OnlyDispatches
<1>4. ASSUME e.key = k PROVE FollowsItsCall(b, n + 1)
  <2>1. i \in 1 .. (n + 1) - 1 /\ (n + 1) - 1 = n /\ b[n + 1].key = k
    BY <1>1, <1>4
  <2> QED BY <1>3, <2>1 DEF FollowsItsCall
<1>5. ASSUME e.kind = "dispatch" PROVE EndsAtCall(b, k)
  <2>1. OnlyDispatches(b, i + 1, n + 1)
    <3>1. \A m \in i + 1 .. n + 1 : m \in i + 1 .. n \/ m = n + 1
      OBVIOUS
    <3> QED BY <1>1, <1>3, <1>5, <3>1 DEF OnlyDispatches
  <2>2. i \in DOMAIN b
    BY <1>1
  <2> QED BY <1>1, <1>3, <2>1, <2>2 DEF EndsAtCall
<1> QED BY <1>1, <1>4, <1>5

\* A sequence that has just got a call ends at it.
LEMMA EndsAtNew ==
  ASSUME NEW a, NEW b, NEW e, NEW k, a \in Seq({a[i] : i \in DOMAIN a}), b = Append(a, e),
         e.kind = "call", e.key = k
  PROVE  EndsAtCall(b, k)
<1>1. PICK n \in Nat : Len(b) = n + 1 /\ DOMAIN b = 1 .. n + 1 /\ b[n + 1] = e
  BY OneMore
<1>2. n + 1 \in DOMAIN b /\ IsCallRow(b, n + 1, k) /\ OnlyDispatches(b, (n + 1) + 1, n + 1)
  BY <1>1 DEF IsCallRow, OnlyDispatches
<1> QED BY <1>1, <1>2 DEF EndsAtCall

\* The ledger rests.
LEMMA LedgerPairsRest ==
  ASSUME LedgerIsInPairs, UNCHANGED <<events, seen>>, issued \subseteq issued'
  PROVE  LedgerIsInPairs'
<1>1. \A i \in DOMAIN events : RowIsNamed(events[i])'
  BY DEF LedgerIsInPairs, RowIsNamed
<1> QED BY <1>1 DEF LedgerIsInPairs

\* A row is emitted: an answer after its call, and a turn at a call after that call.
LEMMA PairsEmitted ==
  ASSUME PairsInv, UNCHANGED ledgerVars, issued \subseteq issued', NEW e, Emit(e),
         e.kind = "response" => EndsAtCall(buffer, e.key),
         stage' \in AtCall => \/ e.kind = "call" /\ e.key = call'
                              \/ e.kind = "dispatch" /\ EndsAtCall(buffer, call')
  PROVE  LedgerIsInPairs' /\ BufferIsInPairs'
<1>1. events' = events /\ seen' = seen
  BY DEF ledgerVars
<1>2. LedgerIsInPairs'
  BY <1>1, LedgerPairsRest DEF PairsInv
<1>3. buffer \in Seq({buffer[i] : i \in DOMAIN buffer}) /\ buffer' = Append(buffer, e)
  BY DEF PairsInv, RecoveryInv, BufferIsInOrder, Emit
<1>4. PICK n \in Nat : /\ n = Len(buffer) /\ DOMAIN buffer = 1 .. n /\ DOMAIN buffer' = 1 .. n + 1
                       /\ buffer'[n + 1] = e /\ \A i \in 1 .. n : buffer'[i] = buffer[i]
  BY <1>3, OneMore
<1>5. ASSUME NEW j \in DOMAIN buffer', buffer'[j].kind = "response"
      PROVE  \/ FollowsItsCall(buffer', j)
             \/ EndsAtCall(events, buffer'[j].key) /\ OnlyDispatches(buffer', 1, j - 1)
  <2>1. CASE j \in 1 .. n
    <3>1. j \in DOMAIN buffer /\ buffer'[j] = buffer[j]
      BY <1>4, <2>1
    <3>2. CASE FollowsItsCall(buffer, j)
      BY <1>4, <2>1, <3>2, FollowsStays
    <3>3. CASE EndsAtCall(events, buffer[j].key) /\ OnlyDispatches(buffer, 1, j - 1)
      <4>1. OnlyDispatches(buffer', 1, j - 1)
        BY <1>4, <2>1, <3>3 DEF OnlyDispatches
      <4> QED BY <3>1, <3>3, <4>1
    <3> QED BY <1>5, <3>1, <3>2, <3>3 DEF PairsInv, BufferIsInPairs
  <2>2. CASE j = n + 1
    <3>1. EndsAtCall(buffer, e.key)
      BY <1>4, <1>5, <2>2
    <3>2. FollowsItsCall(buffer', n + 1)
      BY <1>3, <1>4, <3>1, EndsNext
    <3> QED BY <2>2, <3>2
  <2> QED BY <1>4, <2>1, <2>2
<1>6. stage' \in AtCall => EndsAtCall(buffer', call')
  BY <1>3, EndsNext, EndsAtNew
<1> QED BY <1>1, <1>2, <1>5, <1>6 DEF BufferIsInPairs

\* The user event, text and an error are rows that no pair depends on.
LEMMA TurnKeepsPairs ==
  ASSUME PairsInv, StartTurn \/ Text \/ EndRun
  PROVE  LedgerIsInPairs' /\ BufferIsInPairs'
<1>1. PICK e : Emit(e) /\ e.kind \in {"user", "text", "terminal"}
  <2>1. CASE StartTurn
    <3>1. PICK m : Emit([kind |-> "user", id |-> UserId(m), marker |-> TRUE])
      BY <2>1 DEF StartTurn
    <3> QED BY <3>1
  <2>2. CASE Text
    <3>1. PICK m : Emit([kind |-> "text", id |-> BackendId(m), marker |-> FALSE])
      BY <2>2 DEF Text
    <3> QED BY <3>1
  <2>3. CASE EndRun
    <3>1. PICK id : Emit([kind |-> "terminal", id |-> id, marker |-> FALSE])
      BY <2>3 DEF EndRun
    <3> QED BY <3>1
  <2> QED BY <2>1, <2>2, <2>3
<1>2. UNCHANGED ledgerVars /\ issued' = issued /\ stage' \notin AtCall
  BY DEF StartTurn, Text, EndRun, worldVars, AtCall
<1> QED BY <1>1, <1>2, PairsEmitted

\* A call that is made becomes the last row of the buffer.
LEMMA CallKeepsPairs ==
  ASSUME PairsInv, NEW k \in Keys, Call(k)
  PROVE  LedgerIsInPairs' /\ BufferIsInPairs'
<1>1. PICK e : e = [kind |-> "call", id |-> CallId(k), key |-> k, name |-> AnyName]
  OBVIOUS
<1>2. /\ Emit(e) /\ e.kind = "call" /\ e.key = k /\ UNCHANGED ledgerVars
      /\ issued' = issued \cup {k} /\ call' = k
  BY <1>1 DEF Call
<1> QED BY <1>2, PairsEmitted

\* The dispatch fact comes between a call and its answer.
LEMMA DispatchKeepsPairs ==
  ASSUME PairsInv, Dispatch
  PROVE  LedgerIsInPairs' /\ BufferIsInPairs'
<1>1. PICK e : e.kind = "dispatch" /\ Emit(e)
  <2>1. PICK m, k : Emit([kind |-> "dispatch", id |-> BackendId(m), key |-> k,
                          name |-> AnyName, op |-> OperationOf[k]])
    BY DEF Dispatch
  <2> QED BY <2>1
<1>2. UNCHANGED ledgerVars /\ issued' = issued /\ call' = call /\ stage = "called"
  BY DEF Dispatch, worldVars
<1>3. EndsAtCall(buffer, call)
  BY <1>2 DEF PairsInv, BufferIsInPairs, AtCall
<1> QED BY <1>1, <1>2, <1>3, PairsEmitted

\* The answer comes while the buffer still ends at its call.
LEMMA AnswerKeepsPairs ==
  ASSUME PairsInv, Answer
  PROVE  LedgerIsInPairs' /\ BufferIsInPairs'
<1>1. PICK e : e.kind = "response" /\ e.key = call /\ Emit(e)
  <2>1. PICK m : Emit([kind |-> "response", id |-> BackendId(m), key |-> call, name |-> AnyName])
    BY DEF Answer
  <2> QED BY <2>1
<1>2. UNCHANGED ledgerVars /\ issued' = issued /\ stage = "executed" /\ stage' = "loop"
  BY DEF Answer
<1>3. EndsAtCall(buffer, call)
  BY <1>2 DEF PairsInv, BufferIsInPairs, AtCall
<1> QED BY <1>1, <1>2, <1>3, PairsEmitted DEF AtCall

\* The tool's run touches no row.
LEMMA ExecuteKeepsPairs ==
  ASSUME PairsInv, Execute
  PROVE  LedgerIsInPairs' /\ BufferIsInPairs'
<1>1. /\ UNCHANGED <<ledgerVars, issued, call, buffer>>
      /\ stage = "dispatched" /\ stage' = "executed"
  BY DEF Execute
<1>2. LedgerIsInPairs'
  BY <1>1, LedgerPairsRest DEF PairsInv, ledgerVars
<1> QED BY <1>1, <1>2 DEF PairsInv, BufferIsInPairs, AtCall, ledgerVars

\* A crash takes the buffer with it.
LEMMA CrashKeepsPairs ==
  ASSUME PairsInv, Crash
  PROVE  LedgerIsInPairs' /\ BufferIsInPairs'
<1>1. UNCHANGED <<ledgerVars, issued>> /\ buffer' = <<>> /\ stage' = "idle"
  BY DEF Crash
<1>2. LedgerIsInPairs'
  BY <1>1, LedgerPairsRest DEF PairsInv, ledgerVars
<1> QED BY <1>1, <1>2 DEF BufferIsInPairs, AtCall

\* The next row is saved, or lost; a call is never lost, and the dispatch of a call at
\* which the ledger ends may be.
LEMMA SaveKeepsPairs ==
  ASSUME PairsInv, Save
  PROVE  LedgerIsInPairs' /\ BufferIsInPairs'
<1>1. PICK e : e = Head(buffer)
  OBVIOUS
<1>2. PICK n \in Nat : /\ DOMAIN buffer = 1 .. n + 1 /\ DOMAIN buffer' = 1 .. n /\ e = buffer[1]
                       /\ \A i \in 1 .. n : buffer'[i] = buffer[i + 1]
  BY <1>1, RowTaken DEF PairsInv
<1>3. issued' = issued /\ stage' \notin AtCall
  BY DEF Save, worldVars, AtCall
<1>4. 1 \in DOMAIN buffer /\ RowIsNamed(e) /\ RowIsInOrder(1)
  <2>1. 1 \in DOMAIN buffer
    BY <1>2
  <2> QED BY <1>2, <2>1 DEF PairsInv, RecoveryInv, BufferIsInOrder
<1>5. \/ UNCHANGED ledgerVars /\ e.kind # "call"
      \/ events' = Append(events, e) /\ seen' = seen \cup {e.id} /\ e.id \notin seen
  <2>1. CASE e.id \in seen \cup foreign
    <3>1. UNCHANGED ledgerVars
      BY <1>1, <2>1 DEF Save
    <3>2. e.kind # "call"
      <4> SUFFICES ASSUME e.kind = "call" PROVE FALSE
        OBVIOUS
      <4>1. e.id = CallId(e.key) /\ e.key \in Keys /\ ~ops[e.key].known
        BY <1>2, <1>4 DEF RowIsNamed, RowIsInOrder, ToolLanes, PairsInv, RecoveryInv
      <4>2. e.id \notin seen
        BY <4>1 DEF PairsInv, RecoveryInv, KnownIsSaved
      <4>3. e.id \notin foreign
        BY <4>1 DEF PairsInv, RecoveryInv, CallId
      <4> QED BY <2>1, <4>2, <4>3
    <3> QED BY <3>1, <3>2
  <2>2. CASE e.id \notin seen \cup foreign
    <3>1. ScanEvent(e)
      BY <1>1, <2>2 DEF Save
    <3>2. Note(e)
      BY <3>1 DEF ScanEvent, Duplicate, FirstCall, LaterCall, FirstDispatch, LaterDispatch, OrphanDispatch,
         FirstResponse, LaterResponse, OrphanResponse, Reconcile, Decide, StrayFact, Ordinary
    <3> QED BY <2>2, <3>2 DEF Note
  <2> QED BY <2>1, <2>2
<1>6. e.kind = "response" => EndsAtCall(events, e.key)
  <2>1. ~FollowsItsCall(buffer, 1)
    BY DEF FollowsItsCall
  <2> QED BY <1>2, <1>4, <2>1 DEF PairsInv, BufferIsInPairs
<1>7. /\ events \in Seq({events[i] : i \in DOMAIN events})
      /\ seen = {events[i].id : i \in DOMAIN events}
      /\ \A i \in DOMAIN events : RowIsNamed(events[i])
      /\ \A i, j \in DOMAIN events :
           events[i].kind = "call" /\ events[j].kind = "call" /\ events[i].key = events[j].key => i = j
      /\ \A j \in DOMAIN events : events[j].kind = "response" => FollowsItsCall(events, j)
  BY DEF PairsInv, LedgerIsInPairs
<1>8. LedgerIsInPairs'
  <2>1. CASE UNCHANGED ledgerVars
    BY <1>3, <2>1, LedgerPairsRest DEF PairsInv, ledgerVars
  <2>2. CASE events' = Append(events, e) /\ seen' = seen \cup {e.id} /\ e.id \notin seen
    <3>1. PICK m \in Nat : /\ events' \in Seq({events'[i] : i \in DOMAIN events'})
                           /\ m = Len(events) /\ DOMAIN events = 1 .. m /\ DOMAIN events' = 1 .. m + 1
                           /\ events'[m + 1] = e /\ \A i \in 1 .. m : events'[i] = events[i]
      <4>1. PICK b : b = events'
        OBVIOUS
      <4>2. b = Append(events, e)
        BY <2>2, <4>1
      <4>3. /\ b \in Seq({b[i] : i \in DOMAIN b})
            /\ Len(events) \in Nat /\ DOMAIN events = 1 .. Len(events)
            /\ DOMAIN b = 1 .. Len(events) + 1 /\ b[Len(events) + 1] = e
            /\ \A i \in DOMAIN events : b[i] = events[i]
        BY <1>7, <4>2, OneMore
      <4> QED BY <4>1, <4>3
    <3>2. \A i \in DOMAIN events' : i \in 1 .. m \/ i = m + 1
      BY <3>1
    <3>3. seen' = {events'[i].id : i \in DOMAIN events'}
      <4>1. \A x \in seen' : \E i \in DOMAIN events' : x = events'[i].id
        <5>1. m + 1 \in DOMAIN events' /\ \A i \in DOMAIN events : i \in DOMAIN events'
          BY <3>1
        <5> QED BY <1>7, <2>2, <3>1, <5>1
      <4>2. \A i \in DOMAIN events' : events'[i].id \in seen'
        BY <1>7, <2>2, <3>1, <3>2
      <4> QED BY <4>1, <4>2
    <3>4. \A i \in DOMAIN events' : RowIsNamed(events[i])'
      BY <1>3, <1>4, <1>7, <3>1, <3>2 DEF RowIsNamed
    <3>5. ASSUME e.kind = "call", NEW i \in 1 .. m, events[i].kind = "call" PROVE events[i].key # e.key
      <4>1. e.id = CallId(e.key)
        BY <1>4, <3>5 DEF RowIsNamed
      <4>2. events[i].id = CallId(events[i].key) /\ events[i].id \in seen
        BY <1>7, <3>1, <3>5 DEF RowIsNamed
      <4> QED BY <2>2, <4>1, <4>2
    <3>6. \A i, j \in DOMAIN events' :
            events'[i].kind = "call" /\ events'[j].kind = "call" /\ events'[i].key = events'[j].key => i = j
      <4> SUFFICES ASSUME NEW i \in DOMAIN events', NEW j \in DOMAIN events', events'[i].kind = "call",
                          events'[j].kind = "call", events'[i].key = events'[j].key
                   PROVE  i = j
        OBVIOUS
      <4>1. CASE i \in 1 .. m /\ j \in 1 .. m
        <5>1. events'[i] = events[i] /\ events'[j] = events[j] /\ i \in DOMAIN events /\ j \in DOMAIN events
          BY <3>1, <4>1
        <5> QED BY <1>7, <5>1
      <4>2. CASE i \in 1 .. m /\ j = m + 1
        <5>1. events'[i] = events[i] /\ events'[j] = e
          BY <3>1, <4>2
        <5> QED BY <3>5, <4>2, <5>1
      <4>3. CASE i = m + 1 /\ j \in 1 .. m
        <5>1. events'[i] = e /\ events'[j] = events[j]
          BY <3>1, <4>3
        <5> QED BY <3>5, <4>3, <5>1
      <4> QED BY <3>2, <4>1, <4>2, <4>3
    <3>7. ASSUME NEW j \in DOMAIN events', events'[j].kind = "response" PROVE FollowsItsCall(events', j)
      <4>1. CASE j \in 1 .. m
        <5>1. FollowsItsCall(events, j)
          BY <1>7, <3>1, <3>7, <4>1
        <5> QED BY <3>1, <4>1, <5>1, FollowsStays
      <4>2. CASE j = m + 1
        <5>1. EndsAtCall(events, e.key)
          BY <1>6, <3>1, <3>7, <4>2
        <5> QED BY <1>7, <2>2, <3>1, <4>2, <5>1, EndsNext
      <4> QED BY <3>2, <4>1, <4>2
    <3> QED BY <3>1, <3>3, <3>4, <3>6, <3>7 DEF LedgerIsInPairs
  <2> QED BY <1>5, <2>1, <2>2
<1>9. ASSUME NEW j \in DOMAIN buffer', buffer'[j].kind = "response"
      PROVE  \/ FollowsItsCall(buffer', j)
             \/ EndsAtCall(events', buffer'[j].key) /\ OnlyDispatches(buffer', 1, j - 1)
  <2>1. PICK q \in DOMAIN buffer : q = j + 1 /\ j \in 1 .. n /\ buffer'[j] = buffer[q]
    BY <1>2
  <2>2. PICK k : k = buffer[q].key
    OBVIOUS
  <2>5. \A h \in 1 .. j - 1 : buffer'[h] = buffer[h + 1]
    BY <1>2, <2>1
  <2>3. CASE FollowsItsCall(buffer, q)
    <3>1. PICK i \in 1 .. q - 1 : IsCallRow(buffer, i, k) /\ OnlyDispatches(buffer, i + 1, q - 1)
      BY <2>2, <2>3 DEF FollowsItsCall
    <3>2. CASE i = 1
      <4>1. e.kind = "call" /\ e.key = k
        BY <1>2, <3>1, <3>2 DEF IsCallRow
      <4>2. EndsAtCall(events', k)
        BY <1>5, <1>7, <4>1, EndsAtNew
      <4>3. \A h \in 1 .. j - 1 : h + 1 \in i + 1 .. q - 1
        BY <2>1, <3>2
      <4>4. \A h \in 1 .. j - 1 : buffer[h + 1].kind = "dispatch"
        BY <3>1, <4>3 DEF OnlyDispatches
      <4>5. OnlyDispatches(buffer', 1, j - 1)
        BY <2>1, <2>5, <4>4 DEF OnlyDispatches
      <4> QED BY <2>1, <2>2, <4>2, <4>5
    <3>3. CASE i # 1
      <4>1. PICK h \in 1 .. j - 1 : i = h + 1
        <5>1. i - 1 \in 1 .. j - 1 /\ i = (i - 1) + 1
          BY <2>1, <3>1, <3>3
        <5> QED BY <5>1
      <4>2. IsCallRow(buffer', h, k)
        BY <1>2, <2>1, <3>1, <4>1 DEF IsCallRow
      <4>3. OnlyDispatches(buffer', h + 1, j - 1)
        BY <1>2, <2>1, <3>1, <4>1 DEF OnlyDispatches
      <4> QED BY <2>1, <2>2, <4>1, <4>2, <4>3 DEF FollowsItsCall
    <3> QED BY <3>2, <3>3
  <2>4. CASE EndsAtCall(events, k) /\ OnlyDispatches(buffer, 1, q - 1)
    <3>1. e.kind = "dispatch"
      BY <1>2, <2>1, <2>4 DEF OnlyDispatches
    <3>2. EndsAtCall(events', k)
      <4>1. CASE UNCHANGED ledgerVars
        BY <2>4, <4>1 DEF ledgerVars
      <4>2. CASE events' = Append(events, e)
        BY <1>7, <2>4, <3>1, <4>2, EndsNext
      <4> QED BY <1>5, <4>1, <4>2
    <3>3. OnlyDispatches(buffer', 1, j - 1)
      <4>1. \A h \in 1 .. j - 1 : h + 1 \in 1 .. q - 1
        BY <2>1
      <4>2. \A h \in 1 .. j - 1 : buffer[h + 1].kind = "dispatch"
        BY <2>4, <4>1 DEF OnlyDispatches
      <4> QED BY <2>1, <2>5, <4>2 DEF OnlyDispatches
    <3> QED BY <2>1, <2>2, <3>2, <3>3
  <2> QED BY <1>9, <2>1, <2>2, <2>3, <2>4 DEF PairsInv, BufferIsInPairs
<1> QED BY <1>3, <1>8, <1>9 DEF BufferIsInPairs

\* An empty ledger is in pairs.
LEMMA PairsInit == Init => PairsInv
<1> SUFFICES ASSUME Init PROVE PairsInv
  OBVIOUS
<1>1. events = <<>> /\ seen = {} /\ buffer = <<>> /\ stage = "idle"
  BY DEF Init, LedgerInit
<1>2. LedgerIsInPairs
  <2>1. DOMAIN events = {}
    BY <1>1
  <2>2. events \in Seq({events[i] : i \in DOMAIN events})
    BY <1>1, EmptySeq
  <2> QED BY <1>1, <2>1, <2>2 DEF LedgerIsInPairs
<1>3. BufferIsInPairs
  BY <1>1 DEF BufferIsInPairs, AtCall
<1> QED BY <1>2, <1>3, RecoveryInit DEF PairsInv

\* Every step keeps the pairs.
LEMMA PairsNext == PairsInv /\ [Next]_vars => PairsInv'
<1> SUFFICES ASSUME PairsInv, [Next]_vars PROVE PairsInv'
  OBVIOUS
<1>1. RecoveryInv'
  BY RecoveryNext DEF PairsInv
<1>2. CASE UNCHANGED vars
  <2>1. UNCHANGED <<events, seen, issued, buffer, stage, call>>
    BY <1>2 DEF vars, ledgerVars, turnVars, worldVars
  <2>2. LedgerIsInPairs'
    BY <2>1, LedgerPairsRest DEF PairsInv
  <2>3. BufferIsInPairs'
    BY <2>1 DEF PairsInv, BufferIsInPairs
  <2> QED BY <1>1, <2>2, <2>3 DEF PairsInv
<1>3. CASE Next
  <2>1. LedgerIsInPairs' /\ BufferIsInPairs'
    BY <1>3, TurnKeepsPairs, CallKeepsPairs, DispatchKeepsPairs, ExecuteKeepsPairs, AnswerKeepsPairs,
       SaveKeepsPairs, CrashKeepsPairs DEF Next
  <2> QED BY <1>1, <2>1 DEF PairsInv
<1> QED BY <1>2, <1>3

\* Whatever appends were lost and wherever the host died, the conversation that a host
\* resumes from the ledger can be sent to a provider: each call in it has its answer
\* right behind it, and no answer stands elsewhere
\* (meepo-runtime/src/projection.rs, messages_from_runtime_events).
THEOREM ResumedConversationAlwaysValid == Spec => []ResumedConversationIsValid
<1>1. PairsInv => ResumedConversationIsValid
  <2> SUFFICES ASSUME PairsInv PROVE ResumedConversationIsValid
    OBVIOUS
  <2>1. PICK X : X = {events[i] : i \in DOMAIN events}
    OBVIOUS
  <2>2. /\ events \in Seq(X) /\ issued \subseteq Keys
        /\ \A i \in DOMAIN events : RowIsNamed(events[i])
        /\ \A i, j \in DOMAIN events :
             events[i].kind = "call" /\ events[j].kind = "call" /\ events[i].key = events[j].key => i = j
        /\ \A j \in DOMAIN events : events[j].kind = "response" => FollowsItsCall(events, j)
    BY <2>1 DEF PairsInv, LedgerIsInPairs, RecoveryInv
  <2>3. \A e \in X : e.kind \in {"call", "response"} => e.key \in Keys
    BY <2>1, <2>2 DEF RowIsNamed, ToolLanes
  <2>4. PICK ms : ms = Project(events)
    OBVIOUS
  <2>5. ms \in Seq(Messages) /\ Paired(ms)
    BY <2>2, <2>3, <2>4, ConversationIsPaired
  <2>6. /\ \A i \in DOMAIN ms : ms[i].role = "assistant" => Answers(ms, i) = {{k} : k \in ms[i].calls}
        /\ \A j \in DOMAIN ms : ms[j].role = "tool" =>
             \E i \in 1 .. j - 1 : ms[j].calls \subseteq ms[i].calls /\ j - i <= Cardinality(ms[i].calls)
    BY <2>5, PairedIsValid
  <2> QED BY <2>4, <2>6 DEF ResumedConversationIsValid
<1> QED BY <1>1, PairsInit, PairsNext, PTL DEF Spec
====
