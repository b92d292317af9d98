---- MODULE ContinuationProofs ----
(***************************************************************************)
(* Theorems about TurnCoordinator and about Continuation, for every value  *)
(* of their constants.  What is proved of the turn coordinator is carried  *)
(* over to its composition with resume requests, which add two steps to    *)
(* it: one that loads a session outside of a turn request, and one that    *)
(* makes a turn request of a claim.                                        *)
(***************************************************************************)
EXTENDS Continuation, SequenceTheorems, FiniteSetTheorems, WellFoundedInduction, TLAPS

(* THE TURN COORDINATOR *)

\* A non-empty set of naturals has a least element (the library's minimum
\* under a well-founded relation, for <).
LEMMA LeastNatural ==
  ASSUME NEW T \in SUBSET Nat, T # {}
  PROVE  \E x \in T : \A y \in T : x <= y
<1> DEFINE R == {ss \in Nat \X Nat : ss[1] < ss[2]}
<1>1. IsWellFoundedOn(R, Nat)
  BY NatLessThanWellFounded DEF OpToRel
<1> HIDE DEF R
<1>2. PICK x \in T : \A y \in T : ~ (<<y, x>> \in R)
  BY <1>1, WFMin
<1>3. \A y \in T : ~ (y < x)
  BY <1>2 DEF R
<1>4. QED
  BY <1>3, SMT

\* A session with admission rows has a tip, and the tip is one of its rows:
\* the newest second that admitted has an oldest row.
LEMMA TipIsRow ==
  ASSUME chain \subseteq AdmissionRow, NEW s \in Sessions, Rows(s) # {}
  PROVE  Tip(s) \in Rows(s)
<1> DEFINE Ages == {MaxClock - r.at : r \in Rows(s)}
<1>1. \A r \in Rows(s) : r.at \in 1 .. MaxClock /\ r.by \in Nat
  BY DEF Rows, AdmissionRow, TurnIds
<1>2. MaxClock \in Nat
  BY CoordinatorAssumption
<1>3. Ages \in SUBSET Nat /\ Ages # {}
  BY <1>1, <1>2
<1>4. PICK a \in Ages : \A y \in Ages : a <= y
  BY <1>3, LeastNatural
<1>5. PICK newest \in Rows(s) : a = MaxClock - newest.at
  BY <1>4
<1>6. \A q \in Rows(s) : newest.at >= q.at
  <2>1. SUFFICES ASSUME NEW q \in Rows(s) PROVE newest.at >= q.at
    OBVIOUS
  <2>2. a <= MaxClock - q.at
    BY <1>4
  <2>3. QED
    BY <1>1, <1>2, <1>5, <2>2
<1> DEFINE Bys == {r.by : r \in {q \in Rows(s) : q.at = newest.at}}
<1>7. Bys \in SUBSET Nat /\ Bys # {}
  BY <1>1
<1>8. PICK b \in Bys : \A y \in Bys : b <= y
  BY <1>7, LeastNatural
<1>9. PICK r \in Rows(s) : r.at = newest.at /\ r.by = b
  BY <1>8
<1>10. \A q \in Rows(s) : r.at > q.at \/ (r.at = q.at /\ r.by <= q.by)
  BY <1>1, <1>6, <1>8, <1>9
<1>11. QED
  BY <1>10 DEF Tip

LEMMA TipTurnType ==
  ASSUME chain \subseteq AdmissionRow, NEW s \in Sessions
  PROVE  TipTurn(s) \in Nat
BY TipIsRow DEF TipTurn, Rows, AdmissionRow

\* What a run hands back is a conversation, compacted or not.
LEMMA ConversationType ==
  ASSUME TypeOK, NEW t \in TurnIds
  PROVE  Conversation(t) \in Seq(Message)
<1>1. turn[t].input \in Seq(Message) /\ turn[t].replies \in Nat
  BY CoordinatorAssumption DEF TypeOK, Turn
<1> DEFINE m == turn[t].input
<1>2. KeepRecent \in Nat /\ Len(m) \in Nat
  BY <1>1, CoordinatorAssumption
<1>3. Split(m) \in Nat /\ Split(m) <= Len(m)
  BY <1>2 DEF Split
<1>4. SubSeq(m, Split(m) + 1, Len(m)) \in Seq(Message)
  <2>1. \A i \in Split(m) + 1 .. Len(m) : m[i] \in Message
    BY <1>1, <1>2, <1>3, ElementOfSeq
  <2>2. QED
    BY <2>1, <1>2, <1>3, SubSeqProperties
<1>5. <<Summary>> \in Seq(Message)
  BY DEF Summary, Message
<1>6. Base(t) \in Seq(Message)
  BY <1>1, <1>4, <1>5, ConcatProperties DEF Base, Compact
<1>7. [i \in 1 .. Kept(t) |-> [role |-> "reply", turn |-> t]] \in Seq(Message)
  <2> DEFINE said == [i \in 1 .. Kept(t) |-> [role |-> "reply", turn |-> t]]
  <2>1. said \in [1 .. Kept(t) -> Message]
    BY DEF Message
  <2>2. \E k \in Nat : 1 .. Kept(t) = 1 .. k
    <3>1. CASE Kept(t) \in Nat
      BY <3>1
    <3>2. CASE Kept(t) \notin Nat
      <4>1. Kept(t) = -1
        BY <1>1, <3>2 DEF Kept
      <4>2. 1 .. Kept(t) = 1 .. 0
        BY <4>1
      <4>3. QED
        BY <4>2
    <3>3. QED
      BY <3>1, <3>2
  <2>3. QED
    <3> HIDE DEF said
    <3>1. PICK k \in Nat : said \in [1 .. k -> Message]
      BY <2>1, <2>2
    <3>2. said \in Seq(Message)
      BY <3>1, SeqDef
    <3>3. QED
      BY <3>2 DEF said
<1>8. QED
  BY <1>6, <1>7, ConcatProperties DEF Conversation

-----------------------------------------------------------------------------
(* Type correctness.                                                       *)

LEMMA AnySessionType == AnySession \in Sessions
BY CoordinatorAssumption DEF AnySession

LEMMA IdleType == Idle \in Request
BY AnySessionType, CoordinatorAssumption DEF Idle, Request

LEMMA UnusedTurnType == UnusedTurn \in Turn
BY AnySessionType, CoordinatorAssumption DEF UnusedTurn, Turn, Phases

LEMMA TypeInit == Init => TypeOK
BY IdleType, UnusedTurnType, CoordinatorAssumption DEF Init, TypeOK

\* A turn, and a request, keep their type under each update a step makes.
LEMMA TurnUpdates ==
  ASSUME NEW r \in Turn
  PROVE  /\ \A p \in Phases : [r EXCEPT !.phase = p] \in Turn
         /\ [r EXCEPT !.stop = TRUE] \in Turn
         /\ [r EXCEPT !.replies = @ + 1] \in Turn
         /\ [r EXCEPT !.saved = @ + 1] \in Turn
         /\ \A o \in Outcomes : [r EXCEPT !.outcome = o] \in Turn
         /\ [r EXCEPT !.input = <<>>, !.stop = FALSE, !.saved = 0] \in Turn
         /\ \A m \in Seq(Message), b \in BOOLEAN :
              [r EXCEPT !.run = Len(m), !.input = m, !.compacted = b] \in Turn
<1>1. \A p \in Phases : [r EXCEPT !.phase = p] \in Turn
  BY DEF Turn
<1>2. [r EXCEPT !.stop = TRUE] \in Turn
  BY DEF Turn
<1>3. [r EXCEPT !.replies = @ + 1] \in Turn
  BY DEF Turn
<1>4. [r EXCEPT !.saved = @ + 1] \in Turn
  BY DEF Turn
<1>5. \A o \in Outcomes : [r EXCEPT !.outcome = o] \in Turn
  BY DEF Turn
<1>6. [r EXCEPT !.input = <<>>, !.stop = FALSE, !.saved = 0] \in Turn
  <2>1. <<>> \in Seq(Message)
    OBVIOUS
  <2>2. QED
    BY <2>1 DEF Turn
<1>7. ASSUME NEW m \in Seq(Message), NEW b \in BOOLEAN
      PROVE  [r EXCEPT !.run = Len(m), !.input = m, !.compacted = b] \in Turn
  <2>1. Len(m) \in Nat
    OBVIOUS
  <2>2. QED
    BY <2>1 DEF Turn
<1>8. QED
  BY <1>1, <1>2, <1>3, <1>4, <1>5, <1>6, <1>7

LEMMA RequestUpdates ==
  ASSUME NEW r \in Request
  PROVE  /\ [r EXCEPT !.pc = "catalog"] \in Request
         /\ [r EXCEPT !.pc = "resolve"] \in Request
         /\ \A n \in Nat : [r EXCEPT !.pc = "tip", !.n = n] \in Request
         /\ \A n \in Nat, now \in 1 .. MaxClock :
              [r EXCEPT !.pc = "admit", !.since = now, !.prev = n] \in Request
         /\ \A t \in TurnIds : [r EXCEPT !.pc = "spawn", !.turn = t] \in Request
<1>1. [r EXCEPT !.pc = "catalog"] \in Request /\ [r EXCEPT !.pc = "resolve"] \in Request
  BY DEF Request
<1>2. \A n \in Nat : [r EXCEPT !.pc = "tip", !.n = n] \in Request
  BY DEF Request
<1>3. \A n \in Nat, now \in 1 .. MaxClock :
        [r EXCEPT !.pc = "admit", !.since = now, !.prev = n] \in Request
  BY DEF Request
<1>4. \A t \in TurnIds : [r EXCEPT !.pc = "spawn", !.turn = t] \in Request
  BY DEF Request
<1>5. QED
  BY <1>1, <1>2, <1>3, <1>4

LEMMA PhaseType ==
  ASSUME TypeOK, NEW t \in TurnIds, NEW phase \in Phases
  PROVE  Become(t, phase) \in Turn /\ Remains(t, phase) \in Turn
<1>1. Become(t, phase) \in Turn
  BY TurnUpdates DEF TypeOK, Become
<1>2. QED
  BY <1>1, TurnUpdates DEF Remains

\* A resumed manager's conversation is a conversation.
LEMMA ProjectionType ==
  ASSUME TypeOK, NEW s \in Sessions
  PROVE  Projection(s) \in Seq(Message)
<1> DEFINE l == ledger[s]
<1>1. l \in Seq(ConversationRow)
  BY DEF TypeOK
<1>2. Len(l) \in Nat /\ DOMAIN l = 1 .. Len(l)
  BY <1>1, LenProperties
<1>3. \A i \in 1 .. Len(l) : l[i] \in ConversationRow
  BY <1>1, ElementOfSeq
<1>4. \A i \in 1 .. Len(l) : [role |-> l[i].role, turn |-> l[i].turn] \in Message
  BY <1>3 DEF ConversationRow, Message
<1>5. Projection(s) \in [1 .. Len(l) -> Message]
  BY <1>2, <1>4 DEF Projection
<1>6. QED
  BY <1>2, <1>5, SeqDef

LEMMA TypeNext ==
  ASSUME TypeOK, [Next]_vars
  PROVE  TypeOK'
<1> USE DEF managers, store
<1>1. ASSUME NEW c \in Clients, NEW s \in Sessions, StartRequest(c, s)
      PROVE  TypeOK'
  BY <1>1, IdleType DEF TypeOK, StartRequest, Request, Idle
<1>2. ASSUME NEW c \in Clients, NEW s \in Sessions, StopTurn(c, s)
      PROVE  TypeOK'
  <2>1. active[s] \in TurnIds
    BY <1>2 DEF TypeOK, StopTurn
  <2>2. turn' \in [TurnIds -> Turn]
    BY <1>2, <2>1, TurnUpdates DEF TypeOK, StopTurn
  <2>3. QED
    BY <1>2, <2>2 DEF TypeOK, StopTurn
<1>3. ASSUME NEW c \in Clients, CheckActive(c)
      PROVE  TypeOK'
  <2>1. req' \in [Clients -> Request]
    <3>1. CASE Refuse(c)
      BY <3>1, IdleType DEF TypeOK, Refuse
    <3>2. CASE req' = [req EXCEPT ![c].pc = "catalog"]
      BY <3>2, RequestUpdates DEF TypeOK
    <3>3. QED
      BY <1>3, <3>1, <3>2 DEF CheckActive
  <2>2. QED
    BY <1>3, <2>1 DEF TypeOK, CheckActive
<1>4. ASSUME NEW c \in Clients, CheckCatalog(c)
      PROVE  TypeOK'
  <2>1. req' \in [Clients -> Request]
    <3>1. CASE Refuse(c)
      BY <3>1, IdleType DEF TypeOK, Refuse
    <3>2. CASE req' = [req EXCEPT ![c].pc = "resolve"]
      BY <3>2, RequestUpdates DEF TypeOK
    <3>3. QED
      BY <1>4, <3>1, <3>2 DEF CheckCatalog
  <2>2. QED
    BY <1>4, <2>1 DEF TypeOK, CheckCatalog
<1>5. ASSUME NEW c \in Clients, ResolveIdentity(c)
      PROVE  TypeOK'
  <2> DEFINE s == req[c].session
  <2>1. s \in Sessions
    BY DEF TypeOK, Request
  <2>2. Projection(s) \in Seq(Message)
    BY <2>1, ProjectionType
  <2>3. msgs' \in [Sessions -> Seq(Message)] /\ Len(msgs'[s]) \in Nat
    BY <1>5, <2>1, <2>2 DEF TypeOK, ResolveIdentity
  <2>4. QED
    <3> DEFINE n == Len(msgs'[s]) + 1
    <3>1. n \in Nat
      BY <2>3
    <3>2. req' = [req EXCEPT ![c] = [req[c] EXCEPT !.pc = "tip", !.n = n]]
      BY <1>5 DEF ResolveIdentity
    <3> HIDE DEF n
    <3>3. [req[c] EXCEPT !.pc = "tip", !.n = n] \in Request
      BY <3>1, RequestUpdates DEF TypeOK
    <3>4. req' \in [Clients -> Request]
      BY <3>2, <3>3 DEF TypeOK
    <3>5. QED
      BY <1>5, <2>1, <2>3, <3>4 DEF TypeOK, ResolveIdentity
<1>6. ASSUME NEW c \in Clients, ReadTip(c)
      PROVE  TypeOK'
  <2>1. TipTurn(req[c].session) \in Nat
    BY TipTurnType DEF TypeOK, Request
  <2>2. QED
    <3>1. [req[c] EXCEPT !.pc = "admit", !.since = clock,
                        !.prev = TipTurn(req[c].session)] \in Request
      BY <2>1, RequestUpdates DEF TypeOK
    <3>2. req' \in [Clients -> Request]
      BY <1>6, <3>1 DEF TypeOK, ReadTip
    <3>3. QED
      BY <1>6, <3>2 DEF TypeOK, ReadTip
<1>7. ASSUME NEW c \in Clients, Admit(c)
      PROVE  TypeOK'
  <2> DEFINE s == req[c].session
             t == admitted + 1
  <2>1. PICK at \in req[c].since .. clock :
           chain' = Extend([session |-> s, turn |-> req[c].n, prev |-> req[c].prev,
                            at |-> at, by |-> t])
    BY <1>7 DEF Admit
  <2>2. at \in 1 .. MaxClock /\ t \in TurnIds
    <3>1. req[c].since \in 1 .. MaxClock /\ clock \in 1 .. MaxClock
      BY DEF TypeOK, Request
    <3>2. at \in 1 .. MaxClock
      BY <3>1, CoordinatorAssumption
    <3>3. QED
      BY <1>7, <3>2 DEF Admit
  <2>3. chain' \subseteq AdmissionRow
    BY <2>1, <2>2 DEF TypeOK, Extend, AdmissionRow, Request
  <2>4. turn' \in [TurnIds -> Turn]
    <3>1. s \in Sessions /\ req[c].n \in Nat
      BY DEF TypeOK, Request
    <3>2. [UnusedTurn EXCEPT !.phase = "admitted", !.session = s, !.told = req[c].n] \in Turn
      BY <3>1, UnusedTurnType DEF Turn, Phases
    <3>3. QED
      BY <1>7, <3>2 DEF TypeOK, Admit
  <2>5. req' \in [Clients -> Request]
    BY <1>7, <2>2, RequestUpdates DEF TypeOK, Admit
  <2>6. QED
    BY <1>7, <2>2, <2>3, <2>4, <2>5, CoordinatorAssumption DEF TypeOK, Admit, TurnIds
<1>8. ASSUME NEW c \in Clients, Spawn(c)
      PROVE  TypeOK'
  <2>1. req[c].session \in Sessions /\ req[c].turn \in TurnIds \cup {NoTurn}
    BY DEF TypeOK, Request
  <2>2. turn' \in [TurnIds -> Turn]
    BY <1>8, <2>1, TurnUpdates DEF TypeOK, Spawn, Phases
  <2>3. req' \in [Clients -> Request]
    BY <1>8, IdleType DEF TypeOK, Spawn
  <2>4. active' \in [Sessions -> TurnIds \cup {NoTurn}]
    BY <1>8, <2>1 DEF TypeOK, Spawn
  <2>5. QED
    BY <1>8, <2>2, <2>3, <2>4 DEF TypeOK, Spawn
<1>9. ASSUME NEW t \in TurnIds, StartRun(t)
      PROVE  TypeOK'
  <2> DEFINE s == turn[t].session
             m == Append(msgs[s], [role |-> "user", turn |-> t])
  <2>1. s \in Sessions
    BY DEF TypeOK, Turn
  <2>2. m \in Seq(Message)
    <3>1. msgs[s] \in Seq(Message) /\ [role |-> "user", turn |-> t] \in Message
      BY <2>1 DEF TypeOK, Message
    <3>2. QED
      BY <3>1, AppendProperties
  <2>3. Become(t, "running") \in Turn
    BY PhaseType DEF Phases
  <2>4. turn' \in [TurnIds -> Turn]
    <3>1. PICK b \in BOOLEAN :
             turn' = [turn EXCEPT ![t] = [Become(t, "running") EXCEPT
                        !.run = Len(m), !.input = m, !.compacted = b]]
      BY <1>9 DEF StartRun
    <3>2. [Become(t, "running") EXCEPT !.run = Len(m), !.input = m, !.compacted = b] \in Turn
      BY <2>2, <2>3, TurnUpdates
    <3>3. QED
      BY <3>1, <3>2 DEF TypeOK
  <2>5. QED
    BY <1>9, <2>2, <2>4 DEF TypeOK, StartRun
<1>10. ASSUME NEW t \in TurnIds, Reply(t)
       PROVE  TypeOK'
  <2>1. turn' \in [TurnIds -> Turn]
    BY <1>10, TurnUpdates DEF TypeOK, Reply
  <2>2. QED
    BY <1>10, <2>1 DEF TypeOK, Reply
<1>11. ASSUME NEW t \in TurnIds, EndRun(t)
       PROVE  TypeOK'
  <2>1. Become(t, "ended") \in Turn
    BY PhaseType DEF Phases
  <2>2. turn' \in [TurnIds -> Turn]
    BY <1>11, <2>1, TurnUpdates DEF TypeOK, EndRun
  <2>3. QED
    BY <1>11, <2>2 DEF TypeOK, EndRun
<1>12. ASSUME NEW t \in TurnIds, BeginFinalize(t)
       PROVE  TypeOK'
  <2>1. turn' \in [TurnIds -> Turn]
    BY <1>12, TurnUpdates DEF TypeOK, BeginFinalize, Phases
  <2>2. holder' \in [Sessions -> TurnIds \cup {NoTurn}]
    BY <1>12 DEF TypeOK, BeginFinalize
  <2>3. QED
    BY <1>12, <2>1, <2>2 DEF TypeOK, BeginFinalize
<1>13. ASSUME NEW t \in TurnIds, SaveEvent(t)
       PROVE  TypeOK'
  <2> DEFINE s == turn[t].session
             e == Event(t, turn[t].saved + 1)
  <2>1. s \in Sessions /\ turn[t].saved \in Nat
    BY CoordinatorAssumption DEF TypeOK, Turn
  <2>2. e \in ConversationRow
    BY <2>1 DEF TypeOK, Turn, Event, ConversationRow, EventId
  <2>3. ledger' \in [Sessions -> Seq(ConversationRow)]
    BY <1>13, <2>1, <2>2, AppendProperties DEF TypeOK, SaveEvent
  <2>4. turn' \in [TurnIds -> Turn]
    BY <1>13, TurnUpdates DEF TypeOK, SaveEvent
  <2>5. QED
    BY <1>13, <2>3, <2>4 DEF TypeOK, SaveEvent
<1>14. ASSUME NEW t \in TurnIds, Finalize(t)
       PROVE  TypeOK'
  <2>1. Terminal(t) \in TerminalRow
    BY CoordinatorAssumption DEF TypeOK, Turn, Terminal, TerminalId, TerminalRow, EventId
  <2>2. terminals' \subseteq TerminalRow
    BY <1>14, <2>1 DEF TypeOK, Finalize
  <2>3. msgs' \in [Sessions -> Seq(Message)]
    BY <1>14, ConversationType DEF TypeOK, Finalize
  <2>4. QED
    <3>1. turn' \in [TurnIds -> Turn]
      BY <1>14, TurnUpdates DEF TypeOK, Finalize, Phases
    <3>2. holder' \in [Sessions -> TurnIds \cup {NoTurn}]
      BY <1>14 DEF TypeOK, Finalize
    <3>3. QED
      BY <1>14, <2>2, <2>3, <3>1, <3>2 DEF TypeOK, Finalize
<1>15. ASSUME NEW t \in TurnIds, Release(t)
       PROVE  TypeOK'
  <2>1. Remains(t, "finished") \in Turn
    BY PhaseType DEF Phases
  <2>2. QED
    <3>1. turn' \in [TurnIds -> Turn]
      BY <1>15, <2>1 DEF TypeOK, Release
    <3>2. active' \in [Sessions -> TurnIds \cup {NoTurn}]
      BY <1>15 DEF TypeOK, Release
    <3>3. QED
      BY <1>15, <3>1, <3>2 DEF TypeOK, Release
<1>16. ASSUME NEW s \in Sessions, SetLifecycle(s)
       PROVE  TypeOK'
  BY <1>16 DEF TypeOK, SetLifecycle
<1>17. CASE Tick
  <2>1. clock' \in 1 .. MaxClock
    BY <1>17, CoordinatorAssumption DEF TypeOK, Tick
  <2>2. QED
    BY <1>17, <2>1 DEF TypeOK, Tick
<1>18. CASE Crash
  <2>1. \A t \in TurnIds : Remains(t, "killed") \in Turn
    BY PhaseType DEF Phases
  <2>2. QED
    <3>1. turn' \in [TurnIds -> Turn]
      BY <1>18, <2>1 DEF TypeOK, Crash
    <3>2. req' \in [Clients -> Request]
      BY <1>18, IdleType DEF TypeOK, Crash
    <3>3. msgs' \in [Sessions -> Seq(Message)]
      BY <1>18 DEF Crash
    <3>4. crashes' \in 0 .. MaxCrashes
      BY <1>18, CoordinatorAssumption DEF TypeOK, Crash
    <3>5. QED
      BY <1>18, <3>1, <3>2, <3>3, <3>4 DEF TypeOK, Crash
<1>19. CASE UNCHANGED vars
  BY <1>19 DEF TypeOK, vars
<1>20. QED
  BY <1>1, <1>2, <1>3, <1>4, <1>5, <1>6, <1>7, <1>8, <1>9, <1>10, <1>11, <1>12,
     <1>13, <1>14, <1>15, <1>16, <1>17, <1>18, <1>19
  DEF Next, SteadyNext, RequestStep, DrainStep

\* Every variable of the coordinator keeps its type: the ledger, the chain and
\* the conversations are well formed whatever interleaving or crash happens.
THEOREM TypeCorrect == Spec => []TypeOK
<1>1. Init => TypeOK
  BY TypeInit
<1>2. TypeOK /\ [Next]_vars => TypeOK'
  BY TypeNext
<1>3. QED
  BY <1>1, <1>2, PTL DEF Spec

-----------------------------------------------------------------------------
(* The table of running turns.  Every step leaves an entry alone, removes  *)
(* it, or writes the turn it makes live; and a turn's own steps keep it    *)
(* live until the one that removes the entry.                              *)

LEMMA EntryInit == Init => EntryFacts
BY CoordinatorAssumption
DEF Init, EntryFacts, EntryIsLive, Fresh, RequestOwnsAdmission, Idle, UnusedTurn

\* A step that leaves the table, the phases and the sessions of the turns alone
\* and brings no request to its spawn keeps the facts.
LEMMA EntryFrame ==
  ASSUME TypeOK, EntryFacts, UNCHANGED <<active, admitted>>,
         \A t \in TurnIds : /\ turn'[t].phase = turn[t].phase
                            /\ turn'[t].session = turn[t].session,
         \A c \in Clients : req'[c].pc = "spawn" => req'[c] = req[c]
  PROVE  EntryFacts'
<1>1. EntryIsLive'
  BY DEF TypeOK, EntryFacts, EntryIsLive, Live
<1>2. Fresh'
  BY DEF EntryFacts, Fresh
<1>3. RequestOwnsAdmission'
  BY DEF EntryFacts, RequestOwnsAdmission
<1>4. QED
  BY <1>1, <1>2, <1>3 DEF EntryFacts

\* So does a step of a live turn that stays live.
LEMMA EntryLiveStep ==
  ASSUME TypeOK, EntryFacts, UNCHANGED <<active, admitted, req>>,
         NEW t \in TurnIds, NEW r,
         turn' = [turn EXCEPT ![t] = r],
         turn[t].phase \in LivePhases, r.phase \in LivePhases,
         r.session = turn[t].session
  PROVE  EntryFacts'
<1>1. EntryIsLive'
  BY DEF TypeOK, EntryFacts, EntryIsLive, Live
<1>2. Fresh'
  BY DEF TypeOK, EntryFacts, Fresh, LivePhases
<1>3. RequestOwnsAdmission'
  BY DEF TypeOK, EntryFacts, RequestOwnsAdmission, LivePhases
<1>4. QED
  BY <1>1, <1>2, <1>3 DEF EntryFacts

LEMMA EntryNext ==
  ASSUME TypeOK, EntryFacts, [Next]_vars
  PROVE  EntryFacts'
<1> USE DEF managers, store
<1>1. ASSUME NEW c \in Clients, NEW s \in Sessions, StartRequest(c, s)
      PROVE  EntryFacts'
  BY <1>1, EntryFrame DEF TypeOK, StartRequest, Idle
<1>2. ASSUME NEW c \in Clients, NEW s \in Sessions, StopTurn(c, s)
      PROVE  EntryFacts'
  BY <1>2, EntryFrame DEF TypeOK, StopTurn, Turn
<1>3. ASSUME NEW c \in Clients, CheckActive(c)
      PROVE  EntryFacts'
  <2>1. CASE Refuse(c)
    BY <1>3, <2>1, EntryFrame DEF TypeOK, CheckActive, Refuse, Idle
  <2>2. CASE req' = [req EXCEPT ![c].pc = "catalog"]
    BY <1>3, <2>2, EntryFrame DEF TypeOK, CheckActive, Request
  <2>3. QED
    BY <1>3, <2>1, <2>2 DEF CheckActive
<1>4. ASSUME NEW c \in Clients, CheckCatalog(c)
      PROVE  EntryFacts'
  <2>1. CASE Refuse(c)
    BY <1>4, <2>1, EntryFrame DEF TypeOK, CheckCatalog, Refuse, Idle
  <2>2. CASE req' = [req EXCEPT ![c].pc = "resolve"]
    BY <1>4, <2>2, EntryFrame DEF TypeOK, CheckCatalog, Request
  <2>3. QED
    BY <1>4, <2>1, <2>2 DEF CheckCatalog
<1>5. ASSUME NEW c \in Clients, ResolveIdentity(c)
      PROVE  EntryFacts'
  BY <1>5, EntryFrame DEF TypeOK, ResolveIdentity, Request
<1>6. ASSUME NEW c \in Clients, ReadTip(c)
      PROVE  EntryFacts'
  BY <1>6, EntryFrame DEF TypeOK, ReadTip, Request
<1>7. ASSUME NEW c \in Clients, Admit(c)
      PROVE  EntryFacts'
  <2> DEFINE t == admitted + 1
  <2>1. t \in TurnIds /\ admitted \in Nat
    BY <1>7, CoordinatorAssumption DEF TypeOK, Admit
  <2>2. turn[t].phase = "unused"
    BY <2>1 DEF EntryFacts, Fresh
  <2>3. turn' = [turn EXCEPT ![t] = [UnusedTurn EXCEPT !.phase = "admitted",
                                       !.session = req[c].session, !.told = req[c].n]]
    BY <1>7 DEF Admit
  <2>4. turn'[t].phase = "admitted" /\ turn'[t].session = req[c].session
    BY <2>1, <2>3 DEF TypeOK, UnusedTurn
  <2>5. \A u \in TurnIds : u # t => turn'[u] = turn[u]
    BY <2>3 DEF TypeOK
  <2>6. \A s \in Sessions : active[s] # t
    BY <2>1, <2>2 DEF EntryFacts, EntryIsLive, Live, LivePhases, NoTurn
  <2>7. EntryIsLive'
    BY <1>7, <2>5, <2>6 DEF TypeOK, Admit, EntryFacts, EntryIsLive, Live
  <2>8. Fresh'
    BY <1>7, <2>1, <2>5 DEF Admit, EntryFacts, Fresh, TurnIds
  <2>9. \A d \in Clients : d # c => req'[d] = req[d]
    BY <1>7 DEF TypeOK, Admit
  <2>10. req'[c].pc = "spawn" /\ req'[c].turn = t /\ req'[c].session = req[c].session
    BY <1>7 DEF TypeOK, Admit, Request
  <2>11. \A d \in Clients : req[d].pc = "spawn" => req[d].turn # t
    BY <2>2 DEF EntryFacts, RequestOwnsAdmission
  <2>12. RequestOwnsAdmission'
    BY <2>1, <2>4, <2>5, <2>9, <2>10, <2>11 DEF EntryFacts, RequestOwnsAdmission
  <2>13. QED
    BY <2>7, <2>8, <2>12 DEF EntryFacts
<1>8. ASSUME NEW c \in Clients, Spawn(c)
      PROVE  EntryFacts'
  <2> DEFINE t == req[c].turn
             s == req[c].session
  <2>1. t \in TurnIds /\ turn[t].phase = "admitted" /\ turn[t].session = s /\ s \in Sessions
    BY <1>8 DEF TypeOK, Spawn, EntryFacts, RequestOwnsAdmission, Request
  <2>2. turn'[t].phase = "spawned" /\ turn'[t].session = s
    BY <1>8, <2>1 DEF TypeOK, Spawn, Turn
  <2>3. \A u \in TurnIds : u # t => turn'[u] = turn[u]
    BY <1>8 DEF TypeOK, Spawn
  <2>4. EntryIsLive'
    BY <1>8, <2>1, <2>2, <2>3 DEF TypeOK, Spawn, EntryFacts, EntryIsLive, Live, LivePhases
  <2>5. Fresh'
    BY <1>8, <2>1, <2>3 DEF Spawn, EntryFacts, Fresh
  <2>6. \A d \in Clients : d # c => req'[d] = req[d]
    BY <1>8 DEF TypeOK, Spawn
  <2>7. req'[c].pc = "idle"
    BY <1>8 DEF TypeOK, Spawn, Idle
  <2>8. RequestOwnsAdmission'
    BY <1>8, <2>3, <2>6, <2>7 DEF Spawn, EntryFacts, RequestOwnsAdmission
  <2>9. QED
    BY <2>4, <2>5, <2>8 DEF EntryFacts
<1>9. ASSUME NEW t \in TurnIds, StartRun(t)
      PROVE  EntryFacts'
  <2> DEFINE m == Append(msgs[turn[t].session], [role |-> "user", turn |-> t])
  <2>1. PICK b \in BOOLEAN :
           turn' = [turn EXCEPT ![t] = [Become(t, "running") EXCEPT
                      !.run = Len(m), !.input = m, !.compacted = b]]
    BY <1>9 DEF StartRun
  <2> DEFINE r == [Become(t, "running") EXCEPT !.run = Len(m), !.input = m, !.compacted = b]
  <2>2. r.phase = "running" /\ r.session = turn[t].session
    BY DEF Become, TypeOK, Turn
  <2> HIDE DEF r
  <2>3. QED
    BY <1>9, <2>1, <2>2, EntryLiveStep DEF StartRun, LivePhases, r
<1>10. ASSUME NEW t \in TurnIds, Reply(t)
       PROVE  EntryFacts'
  BY <1>10, EntryFrame DEF TypeOK, Reply, Turn
<1>11. ASSUME NEW t \in TurnIds, EndRun(t)
       PROVE  EntryFacts'
  <2>1. PICK o \in Outcomes :
           turn' = [turn EXCEPT ![t] = [Become(t, "ended") EXCEPT !.outcome = o]]
    BY <1>11 DEF EndRun
  <2>2. /\ [Become(t, "ended") EXCEPT !.outcome = o].phase = "ended"
        /\ [Become(t, "ended") EXCEPT !.outcome = o].session = turn[t].session
    BY DEF Become, TypeOK, Turn
  <2>3. QED
    BY <1>11, <2>1, <2>2, EntryLiveStep DEF EndRun, LivePhases
<1>12. ASSUME NEW t \in TurnIds, BeginFinalize(t)
       PROVE  EntryFacts'
  <2>1. /\ [turn[t] EXCEPT !.phase = "saving"].phase = "saving"
        /\ [turn[t] EXCEPT !.phase = "saving"].session = turn[t].session
    BY DEF TypeOK, Turn
  <2>2. QED
    BY <1>12, <2>1, EntryLiveStep DEF BeginFinalize, LivePhases
<1>13. ASSUME NEW t \in TurnIds, SaveEvent(t)
       PROVE  EntryFacts'
  BY <1>13, EntryFrame DEF TypeOK, SaveEvent, Turn
<1>14. ASSUME NEW t \in TurnIds, Finalize(t)
       PROVE  EntryFacts'
  <2>1. /\ [turn[t] EXCEPT !.phase = "committed"].phase = "committed"
        /\ [turn[t] EXCEPT !.phase = "committed"].session = turn[t].session
    BY DEF TypeOK, Turn
  <2>2. QED
    BY <1>14, <2>1, EntryLiveStep DEF Finalize, LivePhases
<1>15. ASSUME NEW t \in TurnIds, Release(t)
       PROVE  EntryFacts'
  <2>1. turn'[t].phase = "finished" /\ turn'[t].session = turn[t].session
    BY <1>15 DEF TypeOK, Release, Remains, Become, Turn
  <2>2. \A u \in TurnIds : u # t => turn'[u] = turn[u]
    BY <1>15 DEF TypeOK, Release
  <2>3. \A s \in Sessions : active'[s] # NoTurn => active'[s] = active[s] /\ active[s] # t
    BY <1>15 DEF TypeOK, Release, EntryFacts, EntryIsLive
  <2>4. EntryIsLive'
    BY <2>2, <2>3 DEF TypeOK, EntryFacts, EntryIsLive, Live
  <2>5. Fresh'
    BY <1>15, <2>2 DEF Release, EntryFacts, Fresh
  <2>6. RequestOwnsAdmission'
    BY <1>15, <2>2 DEF Release, EntryFacts, RequestOwnsAdmission
  <2>7. QED
    BY <2>4, <2>5, <2>6 DEF EntryFacts
<1>16. ASSUME NEW s \in Sessions, SetLifecycle(s)
       PROVE  EntryFacts'
  BY <1>16, EntryFrame DEF SetLifecycle
<1>17. CASE Tick
  <2>1. UNCHANGED <<active, admitted, req, turn>>
    BY <1>17 DEF Tick
  <2>2. QED
    BY <2>1, EntryFrame
<1>18. CASE Crash
  <2>1. EntryIsLive'
    BY <1>18 DEF Crash, EntryIsLive
  <2>2. Fresh'
    BY <1>18 DEF Crash, EntryFacts, Fresh, Live, LivePhases
  <2>3. RequestOwnsAdmission'
    BY <1>18 DEF Crash, RequestOwnsAdmission, Idle
  <2>4. QED
    BY <2>1, <2>2, <2>3 DEF EntryFacts
<1>19. CASE UNCHANGED vars
  <2>1. UNCHANGED <<active, admitted, req, turn>>
    BY <1>19 DEF vars
  <2>2. QED
    BY <2>1, EntryFrame
<1>20. QED
  BY <1>1, <1>2, <1>3, <1>4, <1>5, <1>6, <1>7, <1>8, <1>9, <1>10, <1>11, <1>12,
     <1>13, <1>14, <1>15, <1>16, <1>17, <1>18, <1>19
  DEF Next, SteadyNext, RequestStep, DrainStep

\* The table never names a turn that has ended, whatever raced: an accepted
\* turn.stop cancels the token of a drain task that still runs.
THEOREM EntryAlwaysLive == Spec => []EntryIsLive
<1>1. Init => EntryFacts
  BY EntryInit
<1>2. TypeOK /\ EntryFacts /\ [Next]_vars => EntryFacts'
  BY EntryNext
<1>3. EntryFacts => EntryIsLive
  BY DEF EntryFacts
<1>4. QED
  BY <1>1, <1>2, <1>3, TypeCorrect, PTL DEF Spec

-----------------------------------------------------------------------------
(* The admission chain.  A row is only ever replaced by a row with the     *)
(* same key, so links into it survive.                                     *)

LEMMA ChainInit == Init => ChainFacts
BY CoordinatorAssumption
DEF Init, ChainFacts, ChainClosed, RequestPredecessor, RunIsAdmitted, Idle, UnusedTurn

\* Every step but an admission and a tip read leaves the chain, and what points
\* into it, alone.
LEMMA ChainFrame ==
  ASSUME TypeOK, ChainFacts, UNCHANGED chain,
         \A t \in TurnIds : /\ turn'[t].session = turn[t].session
                            /\ turn'[t].told = turn[t].told
                            /\ turn[t].phase = "unused" => turn'[t].phase = "unused",
         \A c \in Clients : req'[c].pc = "admit" => req'[c] = req[c]
  PROVE  ChainFacts'
<1>1. ChainClosed'
  BY DEF ChainFacts, ChainClosed
<1>2. RequestPredecessor'
  BY DEF ChainFacts, RequestPredecessor
<1>3. RunIsAdmitted'
  <2>1. SUFFICES ASSUME NEW t \in TurnIds, turn'[t].phase # "unused"
                 PROVE  \E r \in chain' : r.session = turn'[t].session /\ r.turn = turn'[t].told
    BY DEF RunIsAdmitted
  <2>2. turn[t].phase # "unused"
    BY <2>1
  <2>3. PICK r \in chain : r.session = turn[t].session /\ r.turn = turn[t].told
    BY <2>2 DEF ChainFacts, RunIsAdmitted
  <2>4. QED
    BY <2>3
<1>4. QED
  BY <1>1, <1>2, <1>3 DEF ChainFacts

\* The step of one turn that was admitted before and keeps its identity.
LEMMA ChainTurnStep ==
  ASSUME TypeOK, ChainFacts, UNCHANGED chain, NEW t \in TurnIds, NEW r,
         turn' = [turn EXCEPT ![t] = r],
         turn[t].phase # "unused",
         r.session = turn[t].session, r.told = turn[t].told,
         \A c \in Clients : req'[c].pc = "admit" => req'[c] = req[c]
  PROVE  ChainFacts'
<1>1. \A u \in TurnIds : /\ turn'[u].session = turn[u].session
                         /\ turn'[u].told = turn[u].told
                         /\ turn[u].phase = "unused" => turn'[u].phase = "unused"
  BY DEF TypeOK
<1>2. QED
  BY <1>1, ChainFrame

LEMMA ChainNext ==
  ASSUME TypeOK, EntryFacts, ChainFacts, [Next]_vars
  PROVE  ChainFacts'
<1> USE DEF managers, store
<1>1. ASSUME NEW c \in Clients, NEW s \in Sessions, StartRequest(c, s)
      PROVE  ChainFacts'
  BY <1>1, ChainFrame DEF TypeOK, StartRequest, Idle
<1>2. ASSUME NEW c \in Clients, NEW s \in Sessions, StopTurn(c, s)
      PROVE  ChainFacts'
  BY <1>2, ChainFrame DEF TypeOK, StopTurn, Turn
<1>3. ASSUME NEW c \in Clients, CheckActive(c)
      PROVE  ChainFacts'
  <2>1. CASE Refuse(c)
    BY <1>3, <2>1, ChainFrame DEF TypeOK, CheckActive, Refuse, Idle
  <2>2. CASE req' = [req EXCEPT ![c].pc = "catalog"]
    BY <1>3, <2>2, ChainFrame DEF TypeOK, CheckActive, Request
  <2>3. QED
    BY <1>3, <2>1, <2>2 DEF CheckActive
<1>4. ASSUME NEW c \in Clients, CheckCatalog(c)
      PROVE  ChainFacts'
  <2>1. CASE Refuse(c)
    BY <1>4, <2>1, ChainFrame DEF TypeOK, CheckCatalog, Refuse, Idle
  <2>2. CASE req' = [req EXCEPT ![c].pc = "resolve"]
    BY <1>4, <2>2, ChainFrame DEF TypeOK, CheckCatalog, Request
  <2>3. QED
    BY <1>4, <2>1, <2>2 DEF CheckCatalog
<1>5. ASSUME NEW c \in Clients, ResolveIdentity(c)
      PROVE  ChainFacts'
  BY <1>5, ChainFrame DEF TypeOK, ResolveIdentity, Request
<1>6. ASSUME NEW c \in Clients, ReadTip(c)
      PROVE  ChainFacts'
  <2> DEFINE s == req[c].session
  <2>1. s \in Sessions /\ chain \subseteq AdmissionRow
    BY DEF TypeOK, Request
  <2>2. TipTurn(s) # 0 => \E q \in chain : q.session = s /\ q.turn = TipTurn(s)
    BY <2>1, TipIsRow DEF TipTurn, Rows
  <2>3. req'[c].session = s /\ req'[c].prev = TipTurn(s)
    BY <1>6 DEF TypeOK, ReadTip, Request
  <2>4. \A d \in Clients : d # c => req'[d] = req[d]
    BY <1>6 DEF TypeOK, ReadTip
  <2>5. RequestPredecessor'
    BY <1>6, <2>2, <2>3, <2>4 DEF ReadTip, ChainFacts, RequestPredecessor
  <2>6. ChainClosed' /\ RunIsAdmitted'
    BY <1>6 DEF ReadTip, ChainFacts, ChainClosed, RunIsAdmitted
  <2>7. QED
    BY <2>5, <2>6 DEF ChainFacts
<1>7. ASSUME NEW c \in Clients, Admit(c)
      PROVE  ChainFacts'
  <2> DEFINE t == admitted + 1
             s == req[c].session
             n == req[c].n
  <2>1. t \in TurnIds
    BY <1>7 DEF Admit
  <2>2. PICK row : /\ row.session = s /\ row.turn = n /\ row.prev = req[c].prev
                   /\ chain' = Extend(row)
    BY <1>7 DEF Admit
  <2>3. row \in chain'
    BY <2>2 DEF Extend
  <2>4. \A q \in chain : \E r \in chain' : r.session = q.session /\ r.turn = q.turn
    BY <2>2, <2>3 DEF Extend
  <2>5. \A r \in chain' : r # row => r \in chain
    BY <2>2 DEF Extend
  <2>6. row.prev # 0 => \E q \in chain : q.session = row.session /\ q.turn = row.prev
    BY <1>7, <2>2 DEF Admit, ChainFacts, RequestPredecessor
  <2>7. ChainClosed'
    BY <2>4, <2>5, <2>6 DEF ChainFacts, ChainClosed
  <2>8. \A d \in Clients : req'[d].pc = "admit" => req'[d] = req[d]
    BY <1>7 DEF TypeOK, Admit, Request
  <2>9. RequestPredecessor'
    BY <2>4, <2>8 DEF ChainFacts, RequestPredecessor
  <2>10. turn' = [turn EXCEPT ![t] = [UnusedTurn EXCEPT !.phase = "admitted",
                                        !.session = s, !.told = n]]
    BY <1>7 DEF Admit
  <2>11. turn'[t].session = s /\ turn'[t].told = n
    BY <2>1, <2>10 DEF TypeOK, UnusedTurn
  <2>12. \A u \in TurnIds : u # t => turn'[u] = turn[u]
    BY <2>10 DEF TypeOK
  <2>13. RunIsAdmitted'
    <3>1. SUFFICES ASSUME NEW u \in TurnIds, turn'[u].phase # "unused"
                   PROVE  \E q \in chain' : q.session = turn'[u].session /\ q.turn = turn'[u].told
      BY DEF RunIsAdmitted
    <3>2. CASE u = t
      BY <2>2, <2>3, <2>11, <3>2
    <3>3. CASE u # t
      BY <2>4, <2>12, <3>1, <3>3 DEF ChainFacts, RunIsAdmitted
    <3>4. QED
      BY <3>2, <3>3
  <2>14. QED
    BY <2>7, <2>9, <2>13 DEF ChainFacts
<1>8. ASSUME NEW c \in Clients, Spawn(c)
      PROVE  ChainFacts'
  <2> DEFINE t == req[c].turn
             r == [turn[t] EXCEPT !.phase = "spawned"]
  <2>1. t \in TurnIds /\ turn[t].phase = "admitted"
    BY <1>8 DEF Spawn, EntryFacts, RequestOwnsAdmission
  <2>2. r.session = turn[t].session /\ r.told = turn[t].told
    BY <2>1 DEF TypeOK, Turn
  <2>3. turn' = [turn EXCEPT ![t] = r] /\ UNCHANGED chain
    BY <1>8 DEF Spawn
  <2>4. \A d \in Clients : req'[d].pc = "admit" => req'[d] = req[d]
    BY <1>8 DEF TypeOK, Spawn, Idle
  <2> HIDE DEF r
  <2>5. QED
    BY <2>1, <2>2, <2>3, <2>4, ChainTurnStep
<1>9. ASSUME NEW t \in TurnIds, StartRun(t)
      PROVE  ChainFacts'
  <2> DEFINE m == Append(msgs[turn[t].session], [role |-> "user", turn |-> t])
  <2>1. PICK b \in BOOLEAN :
           turn' = [turn EXCEPT ![t] = [Become(t, "running") EXCEPT
                      !.run = Len(m), !.input = m, !.compacted = b]]
    BY <1>9 DEF StartRun
  <2> DEFINE r == [Become(t, "running") EXCEPT !.run = Len(m), !.input = m, !.compacted = b]
  <2>2. r.session = turn[t].session /\ r.told = turn[t].told
    BY DEF Become, TypeOK, Turn
  <2> HIDE DEF r
  <2>3. QED
    BY <1>9, <2>1, <2>2, ChainTurnStep DEF StartRun, r
<1>10. ASSUME NEW t \in TurnIds, Reply(t)
       PROVE  ChainFacts'
  BY <1>10, ChainFrame DEF TypeOK, Reply, Turn
<1>11. ASSUME NEW t \in TurnIds, EndRun(t)
       PROVE  ChainFacts'
  <2>1. PICK o \in Outcomes :
           turn' = [turn EXCEPT ![t] = [Become(t, "ended") EXCEPT !.outcome = o]]
    BY <1>11 DEF EndRun
  <2>2. /\ [Become(t, "ended") EXCEPT !.outcome = o].session = turn[t].session
        /\ [Become(t, "ended") EXCEPT !.outcome = o].told = turn[t].told
    BY DEF Become, TypeOK, Turn
  <2>3. QED
    BY <1>11, <2>1, <2>2, ChainTurnStep DEF EndRun
<1>12. ASSUME NEW t \in TurnIds, BeginFinalize(t)
       PROVE  ChainFacts'
  <2>1. /\ [turn[t] EXCEPT !.phase = "saving"].session = turn[t].session
        /\ [turn[t] EXCEPT !.phase = "saving"].told = turn[t].told
    BY DEF TypeOK, Turn
  <2>2. QED
    BY <1>12, <2>1, ChainTurnStep DEF BeginFinalize
<1>13. ASSUME NEW t \in TurnIds, SaveEvent(t)
       PROVE  ChainFacts'
  BY <1>13, ChainFrame DEF TypeOK, SaveEvent, Turn
<1>14. ASSUME NEW t \in TurnIds, Finalize(t)
       PROVE  ChainFacts'
  <2>1. /\ [turn[t] EXCEPT !.phase = "committed"].session = turn[t].session
        /\ [turn[t] EXCEPT !.phase = "committed"].told = turn[t].told
    BY DEF TypeOK, Turn
  <2>2. QED
    BY <1>14, <2>1, ChainTurnStep DEF Finalize
<1>15. ASSUME NEW t \in TurnIds, Release(t)
       PROVE  ChainFacts'
  <2>1. /\ Remains(t, "finished").session = turn[t].session
        /\ Remains(t, "finished").told = turn[t].told
    BY DEF TypeOK, Turn, Remains, Become
  <2>2. QED
    BY <1>15, <2>1, ChainTurnStep DEF Release
<1>16. ASSUME NEW s \in Sessions, SetLifecycle(s)
       PROVE  ChainFacts'
  BY <1>16, ChainFrame DEF SetLifecycle
<1>17. CASE Tick
  <2>1. UNCHANGED <<chain, req, turn>>
    BY <1>17 DEF Tick
  <2>2. QED
    BY <2>1, ChainFrame
<1>18. CASE Crash
  <2>1. \A t \in TurnIds : /\ turn'[t].session = turn[t].session
                           /\ turn'[t].told = turn[t].told
                           /\ turn[t].phase = "unused" => turn'[t].phase = "unused"
    BY <1>18 DEF Crash, Live, LivePhases, TypeOK, Turn, Remains, Become
  <2>2. \A c \in Clients : req'[c].pc = "idle"
    BY <1>18 DEF Crash, Idle
  <2>3. QED
    BY <1>18, <2>1, <2>2, ChainFrame DEF Crash
<1>19. CASE UNCHANGED vars
  <2>1. UNCHANGED <<chain, req, turn>>
    BY <1>19 DEF vars
  <2>2. QED
    BY <2>1, ChainFrame
<1>20. QED
  BY <1>1, <1>2, <1>3, <1>4, <1>5, <1>6, <1>7, <1>8, <1>9, <1>10, <1>11, <1>12,
     <1>13, <1>14, <1>15, <1>16, <1>17, <1>18, <1>19
  DEF Next, SteadyNext, RequestStep, DrainStep

\* The admission chain never has a dangling link, and every turn that was ever
\* admitted, run or killed still has an admission row under the identity its
\* client was told, across races, replacements and restarts.
THEOREM ChainAlwaysClosed == Spec => [](ChainClosed /\ RunIsAdmitted)
<1>1. Init => EntryFacts /\ ChainFacts
  BY EntryInit, ChainInit
<1>2. TypeOK /\ EntryFacts /\ ChainFacts /\ [Next]_vars => EntryFacts' /\ ChainFacts'
  BY EntryNext, ChainNext
<1>3. ChainFacts => ChainClosed /\ RunIsAdmitted
  BY DEF ChainFacts
<1>4. QED
  BY <1>1, <1>2, <1>3, TypeCorrect, PTL DEF Spec

-----------------------------------------------------------------------------
(* Owned sessions.  A connection's requests are served one after another,  *)
(* so between its busy check and its entry nobody else starts a turn.      *)

LEMMA OwnedInit == Init => OwnedFacts
BY DEF Init, OwnedFacts, RequestsAllowed, OwnedTableExact, Idle, UnusedTurn, Live, LivePhases

\* A step of one request that leaves the turns and the table alone.
LEMMA OwnedRequestStep ==
  ASSUME TypeOK, OwnedFacts, UNCHANGED <<active, turn>>,
         NEW c \in Clients, NEW r, req' = [req EXCEPT ![c] = r],
         r.pc # "idle" => <<c, r.session>> \in MayUse,
         r.pc \notin {"idle", "active"} /\ Owned(r.session) => active[r.session] = NoTurn
  PROVE  OwnedFacts'
<1>1. \A d \in Clients : req'[d] = IF d = c THEN r ELSE req[d]
  BY DEF TypeOK
<1>2. RequestsAllowed'
  BY <1>1 DEF OwnedFacts, RequestsAllowed
<1>3. OwnedTableExact'
  BY <1>1 DEF OwnedFacts, OwnedTableExact, Owned, Live
<1>4. QED
  BY <1>2, <1>3 DEF OwnedFacts

\* A step of turns alone in which no turn becomes live and none moves.
LEMMA OwnedTurnStep ==
  ASSUME TypeOK, OwnedFacts, UNCHANGED <<active, req>>,
         \A t \in TurnIds : /\ turn'[t].session = turn[t].session
                            /\ turn'[t].phase \in LivePhases => turn[t].phase \in LivePhases
  PROVE  OwnedFacts'
<1>1. RequestsAllowed'
  BY DEF OwnedFacts, RequestsAllowed
<1>2. OwnedTableExact'
  BY DEF OwnedFacts, OwnedTableExact, Owned, Live
<1>3. QED
  BY <1>1, <1>2 DEF OwnedFacts

LEMMA OwnedOneTurnStep ==
  ASSUME TypeOK, OwnedFacts, UNCHANGED <<active, req>>,
         NEW t \in TurnIds, NEW r, turn' = [turn EXCEPT ![t] = r],
         turn[t].phase \in LivePhases, r.session = turn[t].session
  PROVE  OwnedFacts'
<1>1. \A u \in TurnIds : /\ turn'[u].session = turn[u].session
                         /\ turn'[u].phase \in LivePhases => turn[u].phase \in LivePhases
  BY DEF TypeOK
<1>2. QED
  BY <1>1, OwnedTurnStep

LEMMA OwnedNext ==
  ASSUME TypeOK, EntryFacts, OwnedFacts, [Next]_vars
  PROVE  OwnedFacts'
<1> USE DEF managers, store
<1>1. ASSUME NEW c \in Clients, NEW s \in Sessions, StartRequest(c, s)
      PROVE  OwnedFacts'
  <2> DEFINE r == [Idle EXCEPT !.pc = "active", !.session = s]
  <2>1. r.pc = "active" /\ r.session = s
    BY DEF Idle
  <2>2. req' = [req EXCEPT ![c] = r] /\ UNCHANGED <<active, turn>> /\ <<c, s>> \in MayUse
    BY <1>1 DEF StartRequest
  <2> HIDE DEF r
  <2>3. QED
    BY <2>1, <2>2, OwnedRequestStep
<1>2. ASSUME NEW c \in Clients, NEW s \in Sessions, StopTurn(c, s)
      PROVE  OwnedFacts'
  BY <1>2, OwnedTurnStep DEF TypeOK, StopTurn, Turn
<1>3. ASSUME NEW c \in Clients, Refuse(c), UNCHANGED <<active, turn>>
      PROVE  OwnedFacts'
  <2>1. Idle.pc = "idle"
    BY DEF Idle
  <2>2. QED
    BY <1>3, <2>1, OwnedRequestStep DEF Refuse
<1>4. ASSUME NEW c \in Clients, NEW r,
             req' = [req EXCEPT ![c] = r], UNCHANGED <<active, turn>>,
             req[c].pc # "idle", r.session = req[c].session,
             req[c].pc = "active" => active[r.session] = NoTurn
      PROVE  OwnedFacts'
  <2>1. req[c].session \in Sessions
    BY DEF TypeOK, Request
  <2>2. QED
    BY <1>4, <2>1, OwnedRequestStep DEF OwnedFacts, RequestsAllowed, OwnedTableExact
<1>5. ASSUME NEW c \in Clients, CheckActive(c)
      PROVE  OwnedFacts'
  <2>1. [req[c] EXCEPT !.pc = "catalog"].session = req[c].session
    BY DEF TypeOK, Request
  <2>2. QED
    BY <1>3, <1>4, <1>5, <2>1 DEF CheckActive
<1>6. ASSUME NEW c \in Clients, CheckCatalog(c)
      PROVE  OwnedFacts'
  <2>1. [req[c] EXCEPT !.pc = "resolve"].session = req[c].session
    BY DEF TypeOK, Request
  <2>2. QED
    BY <1>3, <1>4, <1>6, <2>1 DEF CheckCatalog
<1>7. ASSUME NEW c \in Clients, ResolveIdentity(c)
      PROVE  OwnedFacts'
  <2> DEFINE r == [req[c] EXCEPT !.pc = "tip", !.n = Len(msgs'[req[c].session]) + 1]
  <2>1. r.session = req[c].session
    BY DEF TypeOK, Request
  <2>2. req' = [req EXCEPT ![c] = r] /\ UNCHANGED <<active, turn>> /\ req[c].pc = "resolve"
    BY <1>7 DEF ResolveIdentity
  <2> HIDE DEF r
  <2>3. QED
    BY <1>4, <2>1, <2>2
<1>8. ASSUME NEW c \in Clients, ReadTip(c)
      PROVE  OwnedFacts'
  <2> DEFINE r == [req[c] EXCEPT !.pc = "admit", !.since = clock,
                                 !.prev = TipTurn(req[c].session)]
  <2>1. r.session = req[c].session
    BY DEF TypeOK, Request
  <2>2. req' = [req EXCEPT ![c] = r] /\ UNCHANGED <<active, turn>> /\ req[c].pc = "tip"
    BY <1>8 DEF ReadTip
  <2> HIDE DEF r
  <2>3. QED
    BY <1>4, <2>1, <2>2
<1>9. ASSUME NEW c \in Clients, Admit(c)
      PROVE  OwnedFacts'
  <2> DEFINE t == admitted + 1
  <2>1. /\ req' = [req EXCEPT ![c] = [@ EXCEPT !.pc = "spawn", !.turn = t]]
        /\ turn' = [turn EXCEPT ![t] = [UnusedTurn EXCEPT !.phase = "admitted",
                       !.session = req[c].session, !.told = req[c].n]]
        /\ UNCHANGED active
        /\ t \in TurnIds
        /\ req[c].pc = "admit"
    BY <1>9 DEF Admit
  <2>2. req'[c].session = req[c].session
    BY <2>1 DEF TypeOK, Request
  <2>3. \A d \in Clients : d # c => req'[d] = req[d]
    BY <2>1 DEF TypeOK
  <2>4. turn'[t].phase = "admitted"
    BY <2>1 DEF TypeOK, UnusedTurn
  <2>5. \A u \in TurnIds : u # t => turn'[u] = turn[u]
    BY <2>1 DEF TypeOK
  <2>6. RequestsAllowed'
    BY <2>1, <2>2, <2>3 DEF OwnedFacts, RequestsAllowed
  <2>7. \A u \in TurnIds : Live(u)' => Live(u) /\ turn'[u] = turn[u]
    BY <2>4, <2>5 DEF Live, LivePhases
  <2>8. \A d \in Clients : /\ req'[d].session = req[d].session
                           /\ req'[d].pc \notin {"idle", "active"}
                                 => req[d].pc \notin {"idle", "active"}
    BY <2>1, <2>2, <2>3
  <2>9. OwnedTableExact'
    <3>1. SUFFICES ASSUME NEW z \in Sessions, Owned(z)
                   PROVE  /\ \A u \in TurnIds : Live(u)' /\ turn'[u].session = z
                                               => active'[z] = u
                          /\ \A d \in Clients :
                               req'[d].session = z /\ req'[d].pc \notin {"idle", "active"}
                                 => active'[z] = NoTurn
      BY DEF OwnedTableExact, Owned
    <3>2. \A u \in TurnIds : Live(u)' /\ turn'[u].session = z => active'[z] = u
      BY <2>1, <2>7, <3>1 DEF OwnedFacts, OwnedTableExact
    <3>3. QED
      BY <2>1, <2>8, <3>1, <3>2 DEF OwnedFacts, OwnedTableExact
  <2>10. QED
    BY <2>6, <2>9 DEF OwnedFacts
<1>10. ASSUME NEW c \in Clients, Spawn(c)
       PROVE  OwnedFacts'
  <2> DEFINE t == req[c].turn
             s == req[c].session
  <2>1. t \in TurnIds /\ turn[t].session = s /\ s \in Sessions /\ req[c].pc = "spawn"
    BY <1>10 DEF TypeOK, Spawn, EntryFacts, RequestOwnsAdmission, Request
  <2>2. /\ \A d \in Clients : d # c => req'[d] = req[d]
        /\ req'[c].pc = "idle"
    BY <1>10 DEF TypeOK, Spawn, Idle
  <2>3. /\ \A u \in TurnIds : u # t => turn'[u] = turn[u]
        /\ turn'[t].session = s
    BY <1>10, <2>1 DEF TypeOK, Spawn, Turn
  <2>4. active'[s] = t /\ \A z \in Sessions : z # s => active'[z] = active[z]
    BY <1>10, <2>1 DEF TypeOK, Spawn
  <2>5. RequestsAllowed'
    BY <2>2 DEF OwnedFacts, RequestsAllowed
  <2>6. OwnedTableExact'
    <3>1. SUFFICES ASSUME NEW z \in Sessions, Owned(z)
                   PROVE  /\ \A u \in TurnIds : Live(u)' /\ turn'[u].session = z
                                               => active'[z] = u
                          /\ \A d \in Clients :
                               req'[d].session = z /\ req'[d].pc \notin {"idle", "active"}
                                 => active'[z] = NoTurn
      BY DEF OwnedTableExact, Owned
    <3>2. CASE z # s
      BY <2>1, <2>2, <2>3, <2>4, <3>1, <3>2 DEF OwnedFacts, OwnedTableExact, Live
    <3>3. CASE z = s
      <4>1. active[s] = NoTurn
        BY <2>1, <3>1, <3>3 DEF OwnedFacts, OwnedTableExact
      <4>2. \A u \in TurnIds : Live(u) => turn[u].session # s
        BY <3>1, <3>3, <4>1 DEF OwnedFacts, OwnedTableExact, TurnIds, NoTurn
      <4>3. \A u \in TurnIds : Live(u)' /\ turn'[u].session = s => u = t
        BY <2>3, <4>2 DEF Live
      <4>4. \A d \in Clients : req[d].pc # "idle" /\ req[d].session = s => d = c
        BY <2>1, <3>1, <3>3 DEF OwnedFacts, RequestsAllowed, Owned
      <4>5. QED
        BY <2>2, <2>4, <3>3, <4>3, <4>4
    <3>4. QED
      BY <3>2, <3>3
  <2>7. QED
    BY <2>5, <2>6 DEF OwnedFacts
<1>11. ASSUME NEW t \in TurnIds, StartRun(t)
       PROVE  OwnedFacts'
  <2> DEFINE m == Append(msgs[turn[t].session], [role |-> "user", turn |-> t])
  <2>1. PICK b \in BOOLEAN :
           turn' = [turn EXCEPT ![t] = [Become(t, "running") EXCEPT
                      !.run = Len(m), !.input = m, !.compacted = b]]
    BY <1>11 DEF StartRun
  <2> DEFINE r == [Become(t, "running") EXCEPT !.run = Len(m), !.input = m, !.compacted = b]
  <2>2. r.session = turn[t].session
    BY DEF Become, TypeOK, Turn
  <2> HIDE DEF r
  <2>3. QED
    BY <1>11, <2>1, <2>2, OwnedOneTurnStep DEF StartRun, LivePhases, r
<1>12. ASSUME NEW t \in TurnIds, Reply(t)
       PROVE  OwnedFacts'
  BY <1>12, OwnedTurnStep DEF TypeOK, Reply, Turn
<1>13. ASSUME NEW t \in TurnIds, EndRun(t)
       PROVE  OwnedFacts'
  <2>1. PICK o \in Outcomes :
           turn' = [turn EXCEPT ![t] = [Become(t, "ended") EXCEPT !.outcome = o]]
    BY <1>13 DEF EndRun
  <2>2. [Become(t, "ended") EXCEPT !.outcome = o].session = turn[t].session
    BY DEF Become, TypeOK, Turn
  <2>3. QED
    BY <1>13, <2>1, <2>2, OwnedOneTurnStep DEF EndRun, LivePhases
<1>14. ASSUME NEW t \in TurnIds, BeginFinalize(t)
       PROVE  OwnedFacts'
  <2>1. [turn[t] EXCEPT !.phase = "saving"].session = turn[t].session
    BY DEF TypeOK, Turn
  <2>2. QED
    BY <1>14, <2>1, OwnedOneTurnStep DEF BeginFinalize, LivePhases
<1>15. ASSUME NEW t \in TurnIds, SaveEvent(t)
       PROVE  OwnedFacts'
  BY <1>15, OwnedTurnStep DEF TypeOK, SaveEvent, Turn
<1>16. ASSUME NEW t \in TurnIds, Finalize(t)
       PROVE  OwnedFacts'
  <2>1. [turn[t] EXCEPT !.phase = "committed"].session = turn[t].session
    BY DEF TypeOK, Turn
  <2>2. QED
    BY <1>16, <2>1, OwnedOneTurnStep DEF Finalize, LivePhases
<1>17. ASSUME NEW t \in TurnIds, Release(t)
       PROVE  OwnedFacts'
  <2> DEFINE s == turn[t].session
  <2>1. s \in Sessions /\ Live(t)
    BY <1>17 DEF TypeOK, Turn, Release, Live, LivePhases
  <2>2. turn'[t].phase = "finished" /\ \A u \in TurnIds : u # t => turn'[u] = turn[u]
    BY <1>17 DEF TypeOK, Release, Remains, Become, Turn
  <2>3. active'[s] = NoTurn /\ \A z \in Sessions : z # s => active'[z] = active[z]
    BY <1>17, <2>1 DEF TypeOK, Release
  <2>4. RequestsAllowed'
    BY <1>17 DEF Release, OwnedFacts, RequestsAllowed
  <2>5. Owned(s) => \A u \in TurnIds : Live(u) /\ turn[u].session = s => u = t
    BY <2>1 DEF OwnedFacts, OwnedTableExact
  <2>6. OwnedTableExact'
    <3>1. SUFFICES ASSUME NEW z \in Sessions, Owned(z)
                   PROVE  /\ \A u \in TurnIds : Live(u)' /\ turn'[u].session = z
                                               => active'[z] = u
                          /\ \A d \in Clients :
                               req'[d].session = z /\ req'[d].pc \notin {"idle", "active"}
                                 => active'[z] = NoTurn
      BY DEF OwnedTableExact, Owned
    <3>2. ~ Live(t)'
      BY <2>2 DEF Live, LivePhases
    <3>3. CASE z = s
      BY <2>2, <2>3, <2>5, <3>1, <3>2, <3>3 DEF Live
    <3>4. CASE z # s
      BY <1>17, <2>2, <2>3, <3>1, <3>2, <3>4 DEF Release, OwnedFacts, OwnedTableExact, Live
    <3>5. QED
      BY <3>3, <3>4
  <2>7. QED
    BY <2>4, <2>6 DEF OwnedFacts
<1>18. ASSUME NEW s \in Sessions, SetLifecycle(s)
       PROVE  OwnedFacts'
  BY <1>18, OwnedTurnStep DEF SetLifecycle
<1>19. CASE Tick
  <2>1. UNCHANGED <<active, req, turn>>
    BY <1>19 DEF Tick
  <2>2. QED
    BY <2>1, OwnedTurnStep
<1>20. CASE Crash
  <2>1. \A t \in TurnIds : ~ Live(t)'
    BY <1>20 DEF Crash, Live, LivePhases, Remains, Become, TypeOK, Turn
  <2>2. \A c \in Clients : req'[c].pc = "idle"
    BY <1>20 DEF Crash, Idle
  <2>3. QED
    BY <2>1, <2>2 DEF OwnedFacts, RequestsAllowed, OwnedTableExact
<1>21. CASE UNCHANGED vars
  <2>1. UNCHANGED <<active, req, turn>>
    BY <1>21 DEF vars
  <2>2. QED
    BY <2>1, OwnedTurnStep
<1>22. QED
  BY <1>1, <1>2, <1>5, <1>6, <1>7, <1>8, <1>9, <1>10, <1>11, <1>12, <1>13, <1>14,
     <1>15, <1>16, <1>17, <1>18, <1>19, <1>20, <1>21
  DEF Next, SteadyNext, RequestStep, DrainStep

\* "One turn per session at a time" holds for every session whose turns are
\* started by one connection, through crashes, stops and slow finalizations.
\* (Where two connections start turns on a session it does not hold.)
THEOREM OwnedSessionsRunOneTurn == Spec => []OneTurnPerOwnedSession
<1>1. Init => EntryFacts /\ OwnedFacts
  BY EntryInit, OwnedInit
<1>2. TypeOK /\ EntryFacts /\ OwnedFacts /\ [Next]_vars => EntryFacts' /\ OwnedFacts'
  BY EntryNext, OwnedNext
<1>3. TypeOK /\ OwnedFacts => OneTurnPerOwnedSession
  BY DEF TypeOK, Turn, OwnedFacts, OwnedTableExact, OneTurnPerOwnedSession
<1>4. QED
  BY <1>1, <1>2, <1>3, TypeCorrect, PTL DEF Spec

-----------------------------------------------------------------------------
(* The terminals.  The store only grows, so a terminal that is durable, or *)
(* an id that is taken, stays so; and a finalized run keeps its identity.  *)

\* An event is appended, or the ledger stays as it is.
LEMMA SaveGrows ==
  ASSUME TypeOK, NEW t \in TurnIds, SaveEvent(t)
  PROVE  \A s \in Sessions : \A i \in DOMAIN ledger[s] :
           i \in DOMAIN ledger'[s] /\ ledger'[s][i] = ledger[s][i]
<1> DEFINE s == turn[t].session
           e == Event(t, turn[t].saved + 1)
<1>1. s \in Sessions
  BY DEF TypeOK, Turn
<1>2. CASE ledger' = ledger
  BY <1>2
<1>3. CASE ledger' = [ledger EXCEPT ![s] = Append(ledger[s], e)]
  <2>1. ledger \in [Sessions -> Seq(ConversationRow)]
    BY DEF TypeOK
  <2> HIDE DEF e
  <2>2. PICK l \in Seq(ConversationRow) : l = ledger[s]
    BY <1>1, <2>1
  <2>3. \A i \in DOMAIN l : i \in DOMAIN Append(l, e) /\ Append(l, e)[i] = l[i]
    BY <2>2
  <2>4. ledger'[s] = Append(l, e) /\ \A z \in Sessions : z # s => ledger'[z] = ledger[z]
    BY <1>1, <1>3, <2>1, <2>2
  <2> HIDE DEF s
  <2>5. ASSUME NEW z \in Sessions, NEW i \in DOMAIN ledger[z]
        PROVE  i \in DOMAIN ledger'[z] /\ ledger'[z][i] = ledger[z][i]
    BY <2>2, <2>3, <2>4
  <2> QED BY <2>5
<1> QED BY <1>2, <1>3 DEF SaveEvent

\* No row of runtime_events is ever deleted or changed.
LEMMA StoreGrows ==
  ASSUME TypeOK, [Next]_vars
  PROVE  /\ terminals \subseteq terminals'
         /\ \A s \in Sessions : \A i \in DOMAIN ledger[s] :
              i \in DOMAIN ledger'[s] /\ ledger'[s][i] = ledger[s][i]
         /\ \A id : IdTaken(id) => IdTaken(id)'
<1>1. terminals \subseteq terminals'
  BY DEF Next, SteadyNext, RequestStep, DrainStep, StartRequest, StopTurn, CheckActive,
     CheckCatalog, ResolveIdentity, ReadTip, Admit, Spawn, StartRun, Reply, EndRun, BeginFinalize,
     SaveEvent, Finalize, Release, SetLifecycle, Tick, Crash, store, vars
<1>2. ledger' = ledger \/ \E t \in TurnIds : SaveEvent(t)
  BY DEF Next, SteadyNext, RequestStep, DrainStep, StartRequest, StopTurn, CheckActive,
     CheckCatalog, ResolveIdentity, ReadTip, Admit, Spawn, StartRun, Reply, EndRun, BeginFinalize,
     Finalize, Release, SetLifecycle, Tick, Crash, store, vars
<1>3. \A s \in Sessions : \A i \in DOMAIN ledger[s] :
           i \in DOMAIN ledger'[s] /\ ledger'[s][i] = ledger[s][i]
  BY <1>2, SaveGrows
<1>4. \A id : IdTaken(id) => IdTaken(id)'
  BY <1>1, <1>3 DEF IdTaken
<1> QED BY <1>1, <1>3, <1>4

\* A finalized turn stays the run it was.
LEMMA FinalizedStays ==
  ASSUME TypeOK, EntryFacts, [Next]_vars, NEW t \in TurnIds,
         turn'[t].phase \in {"committed", "finished"}
  PROVE  \/ Finalize(t)
         \/ /\ turn[t].phase \in {"committed", "finished"}
            /\ turn'[t].session = turn[t].session /\ turn'[t].run = turn[t].run
            /\ turn'[t].outcome = turn[t].outcome /\ turn'[t].replies = turn[t].replies
<1> DEFINE Same ==
       /\ turn[t].phase \in {"committed", "finished"}
       /\ turn'[t].session = turn[t].session /\ turn'[t].run = turn[t].run
       /\ turn'[t].outcome = turn[t].outcome /\ turn'[t].replies = turn[t].replies
<1>1. turn \in [TurnIds -> Turn] /\ turn[t] \in Turn
  BY DEF TypeOK
<1>2. CASE UNCHANGED turn
  BY <1>2
<1>3. ASSUME NEW c \in Clients, NEW s \in Sessions, StopTurn(c, s) PROVE Same
  BY <1>1, <1>3 DEF StopTurn, Turn
<1>4. ASSUME NEW c \in Clients, Admit(c) PROVE Same
  <2>1. \/ turn'[t] = turn[t] 
        \/ turn'[t] = [UnusedTurn EXCEPT !.phase = "admitted", !.session = req[c].session,
                                         !.told = req[c].n]
    BY <1>1, <1>4 DEF Admit
  <2> QED BY <2>1 DEF UnusedTurn
<1>5. ASSUME NEW c \in Clients, Spawn(c) PROVE Same
  BY <1>1, <1>5 DEF Spawn, Turn
<1>6. ASSUME NEW u \in TurnIds, StartRun(u) PROVE Same
  <2>1. PICK m, b : turn' = [turn EXCEPT ![u] = [Become(u, "running") EXCEPT
                     !.run = Len(m), !.input = m, !.compacted = b]]
    BY <1>6 DEF StartRun
  <2>2. u # t
    BY <1>1, <2>1 DEF Become, Turn
  <2> QED BY <1>1, <2>1, <2>2
<1>7. ASSUME NEW u \in TurnIds, Reply(u) PROVE Same
  BY <1>1, <1>7 DEF Reply, Turn
<1>8. ASSUME NEW u \in TurnIds, EndRun(u) PROVE Same
  BY <1>1, <1>8 DEF EndRun, Turn, Become
<1>9. ASSUME NEW u \in TurnIds, BeginFinalize(u) PROVE Same
  BY <1>1, <1>9 DEF BeginFinalize, Turn
<1>10. ASSUME NEW u \in TurnIds, SaveEvent(u) PROVE Same
  BY <1>1, <1>10 DEF SaveEvent, Turn
<1>11. ASSUME NEW u \in TurnIds, Finalize(u) PROVE Same \/ Finalize(t)
  BY <1>1, <1>11 DEF Finalize, Turn
<1>12. ASSUME NEW u \in TurnIds, Release(u) PROVE Same
  BY <1>1, <1>12 DEF Release, Turn, Remains, Become
<1>13. CASE Crash
  BY <1>1, <1>13 DEF Crash, Live, LivePhases, Remains, Become, Turn
<1> QED
  <2>1. CASE \E c \in Clients : RequestStep(c)
    BY <1>2, <1>4, <1>5, <2>1 DEF RequestStep, CheckActive, CheckCatalog, ResolveIdentity, ReadTip
  <2>2. CASE \E u \in TurnIds : DrainStep(u)
    BY <1>6, <1>7, <1>8, <1>9, <1>10, <1>11, <1>12, <2>2, Zenon DEF DrainStep
  <2>3. CASE \E c \in Clients, s \in Sessions : StartRequest(c, s) \/ StopTurn(c, s)
    BY <1>2, <1>3, <2>3 DEF StartRequest
  <2>4. CASE (\E s \in Sessions : SetLifecycle(s)) \/ Tick \/ UNCHANGED vars
    BY <1>2, <2>4 DEF SetLifecycle, Tick, vars
  <2> QED BY <1>13, <2>1, <2>2, <2>3, <2>4 DEF Next, SteadyNext

\* Finalizing a run makes its terminal durable, or finds its id taken.
LEMMA FinalizeAccounts ==
  ASSUME TypeOK, NEW t \in TurnIds, Finalize(t)
  PROVE  /\ turn'[t].session = turn[t].session /\ turn'[t].run = turn[t].run
         /\ turn'[t].outcome = turn[t].outcome /\ turn'[t].replies = turn[t].replies
         /\ HasTerminal(turn[t].session, turn[t].run)' \/ IdTaken(Terminal(t).id)
<1>1. /\ turn'[t].session = turn[t].session /\ turn'[t].run = turn[t].run
      /\ turn'[t].outcome = turn[t].outcome /\ turn'[t].replies = turn[t].replies
  BY DEF TypeOK, Finalize, Turn
<1>2. Terminal(t).session = turn[t].session /\ Terminal(t).run = turn[t].run
  BY DEF Terminal
<1>3. CASE IdTaken(Terminal(t).id)
  BY <1>1, <1>3
<1>4. CASE HasTerminal(turn[t].session, turn[t].run) /\ terminals' = terminals
  BY <1>1, <1>4 DEF HasTerminal
<1>5. CASE terminals' = terminals \cup {Terminal(t)}
  BY <1>1, <1>2, <1>5 DEF HasTerminal
<1> QED BY <1>3, <1>4, <1>5 DEF Finalize

\* Every step keeps the finalized runs accounted for.
LEMMA AccountedNext ==
  ASSUME TypeOK, EntryFacts, TerminalAccounted, [Next]_vars
  PROVE  TerminalAccounted'
<1> SUFFICES ASSUME NEW t \in TurnIds, turn'[t].phase \in {"committed", "finished"}
             PROVE  HasTerminal(turn[t].session, turn[t].run)' \/ IdTaken(Terminal(t).id)'
  BY DEF TerminalAccounted
<1>1. /\ turn'[t].session = turn[t].session /\ turn'[t].run = turn[t].run
      /\ turn'[t].outcome = turn[t].outcome /\ turn'[t].replies = turn[t].replies
  BY FinalizedStays, FinalizeAccounts
<1>2. PICK s, run, id : s = turn[t].session /\ run = turn[t].run /\ id = Terminal(t).id
  OBVIOUS
<1>3. turn'[t].session = s /\ turn'[t].run = run /\ Terminal(t).id' = id
  BY <1>1, <1>2 DEF Terminal, TerminalId
<1>4. HasTerminal(s, run)' \/ IdTaken(id)'
  <2>1. (HasTerminal(s, run) => HasTerminal(s, run)') /\ (IdTaken(id) => IdTaken(id)')
    BY StoreGrows DEF HasTerminal
  <2>2. CASE Finalize(t)
    <3>1. HasTerminal(turn[t].session, turn[t].run)' \/ IdTaken(Terminal(t).id)
      BY <2>2, FinalizeAccounts
    <3>2. HasTerminal(s, run)' \/ IdTaken(id)
      BY <1>2, <1>3, <3>1
    <3> QED BY <2>1, <3>2
  <2>3. CASE turn[t].phase \in {"committed", "finished"}
    BY <1>2, <2>1, <2>3 DEF TerminalAccounted
  <2> QED BY <2>2, <2>3, FinalizedStays
<1> QED BY <1>3, <1>4

\* A finalized run has a durable terminal unless another event has its id: no race
\* for the session, no stop and no crash of the host loses it in another way.
THEOREM TerminalsAlwaysAccounted == Spec => []TerminalAccounted
<1>1. Init => EntryFacts /\ TerminalAccounted
  BY EntryInit DEF Init, UnusedTurn, TerminalAccounted
<1>2. TypeOK /\ EntryFacts /\ TerminalAccounted /\ [Next]_vars => EntryFacts' /\ TerminalAccounted'
  BY EntryNext, AccountedNext
<1> QED BY <1>1, <1>2, TypeCorrect, PTL DEF Spec

-----------------------------------------------------------------------------
(* The conversations of owned sessions.  One turn at a time touches such a *)
(* session, so the number its client was told stays the number of the      *)
(* message it will push, and what it started from stays what is there.     *)

\* Nothing is requested and nothing runs at first.
LEMMA ConversationInit == Init => ConversationFacts
  BY DEF Init, ConversationFacts, AdmittedIsRequested, OwnedIsNumbered, ToldIsRun, NoLostUpdate,
     Idle, UnusedTurn

\* In an owned session a request past the busy check is alone: no other request, and
\* no turn but the one it admitted.
LEMMA RequestIsAlone ==
  ASSUME TypeOK, OwnedFacts, EntryFacts, ConversationFacts,
         NEW c \in Clients, Owned(req[c].session), req[c].pc \notin {"idle", "active"}
  PROVE  /\ \A d \in Clients : req[d].pc # "idle" /\ req[d].session = req[c].session => d = c
         /\ \A t \in TurnIds : turn[t].session = req[c].session =>
              /\ turn[t].phase \notin LivePhases
              /\ turn[t].phase = "admitted" => req[c].pc = "spawn" /\ req[c].turn = t
<1>1. req[c].session \in Sessions
  BY DEF TypeOK, Request
<1>2. \A d \in Clients : req[d].pc # "idle" /\ req[d].session = req[c].session => d = c
  BY DEF OwnedFacts, RequestsAllowed, Owned
<1>3. \A t \in TurnIds : turn[t].session = req[c].session => turn[t].phase \notin LivePhases
  BY <1>1 DEF OwnedFacts, OwnedTableExact, Live, TurnIds, NoTurn
<1>4. ASSUME NEW t \in TurnIds, turn[t].session = req[c].session, turn[t].phase = "admitted"
      PROVE  req[c].pc = "spawn" /\ req[c].turn = t
  <2>1. PICK d \in Clients : req[d].pc = "spawn" /\ req[d].turn = t
    BY <1>4 DEF ConversationFacts, AdmittedIsRequested
  <2>2. req[d].session = req[c].session
    BY <1>4, <2>1 DEF EntryFacts, RequestOwnsAdmission
  <2> QED BY <1>2, <2>1, <2>2
<1> QED BY <1>2, <1>3, <1>4

\* So is a live turn: no other turn, and no request that was given its number.
LEMMA TurnIsAlone ==
  ASSUME TypeOK, OwnedFacts, EntryFacts, ConversationFacts,
         NEW t \in TurnIds, Owned(turn[t].session), turn[t].phase \in LivePhases
  PROVE  /\ \A c \in Clients : req[c].session = turn[t].session => req[c].pc \in {"idle", "active"}
         /\ \A u \in TurnIds : u # t /\ turn[u].session = turn[t].session =>
              turn[u].phase \notin LivePhases /\ turn[u].phase # "admitted"
<1>1. turn[t].session \in Sessions
  BY DEF TypeOK, Turn
<1>2. active[turn[t].session] = t /\ t # NoTurn
  BY <1>1 DEF OwnedFacts, OwnedTableExact, Live, TurnIds, NoTurn
<1>3. \A c \in Clients : req[c].session = turn[t].session => req[c].pc \in {"idle", "active"}
  BY <1>1, <1>2 DEF OwnedFacts, OwnedTableExact
<1>4. \A u \in TurnIds : u # t /\ turn[u].session = turn[t].session => turn[u].phase \notin LivePhases
  BY <1>1, <1>2 DEF OwnedFacts, OwnedTableExact, Live
<1>5. ASSUME NEW u \in TurnIds, turn[u].session = turn[t].session, turn[u].phase = "admitted"
      PROVE  FALSE
  <2>1. PICK d \in Clients : req[d].pc = "spawn" /\ req[d].turn = u
    BY <1>5 DEF ConversationFacts, AdmittedIsRequested
  <2>2. req[d].session = turn[t].session
    BY <1>5, <2>1 DEF EntryFacts, RequestOwnsAdmission
  <2> QED BY <1>3, <2>1, <2>2
<1> QED BY <1>3, <1>4, <1>5

\* What is asked of one request and of one turn.
Numbered(c) ==
    Owned(req[c].session) /\ req[c].pc \in {"tip", "admit"} =>
        req[c].n = Len(msgs[req[c].session]) + 1

Kindred(t) ==
    /\ turn[t].phase = "admitted" => \E c \in Clients : req[c].pc = "spawn" /\ req[c].turn = t
    /\ Owned(turn[t].session) =>
         /\ turn[t].phase \in {"admitted", "spawned"} =>
              turn[t].told = Len(msgs[turn[t].session]) + 1
         /\ turn[t].run # 0 => turn[t].run = turn[t].told
         /\ turn[t].phase \in {"running", "ended", "saving"} =>
              msgs[turn[t].session] = turn[t].input

\* ConversationFacts is what is asked of each request and of each turn, before a step
LEMMA PerRequestAndTurn ==
  ASSUME TypeOK, ConversationFacts
  PROVE  (\A c \in Clients : Numbered(c)) /\ (\A t \in TurnIds : Kindred(t))
<1>1. /\ \A c \in Clients : req[c].session \in Sessions
      /\ \A t \in TurnIds : turn[t].session \in Sessions
  BY DEF TypeOK, Request, Turn
<1> QED BY <1>1 DEF ConversationFacts, AdmittedIsRequested, OwnedIsNumbered, ToldIsRun,
           NoLostUpdate, Numbered, Kindred

\* and after it.
LEMMA PerRequestAndTurnNext ==
  ASSUME TypeOK', \A c \in Clients : Numbered(c)', \A t \in TurnIds : Kindred(t)'
  PROVE  ConversationFacts'
<1>1. /\ \A c \in Clients : req'[c].session \in Sessions
      /\ \A t \in TurnIds : turn'[t].session \in Sessions
  BY DEF TypeOK, Request, Turn
<1> QED BY <1>1 DEF ConversationFacts, AdmittedIsRequested, OwnedIsNumbered, ToldIsRun,
           NoLostUpdate, Numbered, Kindred

\* A step of a request that leaves the turns and the conversations alone.
LEMMA ConversationRequestStep ==
  ASSUME TypeOK, TypeOK', ConversationFacts, NEW c \in Clients, UNCHANGED <<msgs, turn>>,
         \A d \in Clients : d # c => req'[d] = req[d],
         req[c].pc # "spawn",
         Numbered(c)'
  PROVE  ConversationFacts'
<1>1. \A d \in Clients : Numbered(d)'
  BY PerRequestAndTurn DEF Numbered
<1>2. ASSUME NEW t \in TurnIds PROVE Kindred(t)'
  <2>1. Kindred(t)
    BY PerRequestAndTurn
  <2>2. ASSUME NEW d \in Clients, req[d].pc = "spawn" PROVE req'[d] = req[d]
    BY <2>2
  <2> QED BY <2>1, <2>2 DEF Kindred
<1> QED BY <1>1, <1>2, PerRequestAndTurnNext

\* A step of turns that leaves the requests and the conversations alone.
LEMMA ConversationTurnStep ==
  ASSUME TypeOK, TypeOK', ConversationFacts, UNCHANGED <<msgs, req>>,
         \A t \in TurnIds : Kindred(t)'
  PROVE  ConversationFacts'
<1>1. \A d \in Clients : Numbered(d)'
  BY PerRequestAndTurn DEF Numbered
<1> QED BY <1>1, PerRequestAndTurnNext

\* A step that changes the conversation of one session, in which only one request or
\* one turn is concerned by it.
LEMMA ConversationUpdate ==
  ASSUME TypeOK, TypeOK', ConversationFacts, NEW s \in Sessions,
         \A z \in Sessions : z # s => msgs'[z] = msgs[z],
         \A d \in Clients : req[d].pc = "spawn" => req'[d] = req[d],
         \A d \in Clients : \/ Numbered(d)'
                            \/ /\ req'[d] = req[d]
                               /\ Owned(s) /\ req[d].session = s => req[d].pc \notin {"tip", "admit"},
         \A u \in TurnIds : \/ Kindred(u)'
                            \/ /\ turn'[u] = turn[u]
                               /\ Owned(s) /\ turn[u].session = s =>
                                    turn[u].phase \notin LivePhases /\ turn[u].phase # "admitted"
  PROVE  ConversationFacts'
<1>1. ASSUME NEW d \in Clients, ~Numbered(d)' PROVE FALSE
  <2>1. Numbered(d) /\ req[d].session \in Sessions
    BY PerRequestAndTurn DEF TypeOK, Request
  <2> QED BY <1>1, <2>1 DEF Numbered, Owned
<1>2. ASSUME NEW u \in TurnIds, ~Kindred(u)' PROVE FALSE
  <2>1. Kindred(u) /\ turn[u].session \in Sessions
    BY PerRequestAndTurn DEF TypeOK, Turn
  <2>2. turn[u].phase = "admitted" => \E c \in Clients : req'[c].pc = "spawn" /\ req'[c].turn = u
    BY <2>1 DEF Kindred
  <2> QED BY <1>2, <2>1, <2>2 DEF Kindred, Owned, LivePhases
<1> QED BY <1>1, <1>2, PerRequestAndTurnNext

\* A request is numbered after the conversation it finds.
LEMMA ResolveConversation ==
  ASSUME TypeOK, TypeOK', OwnedFacts, EntryFacts, ConversationFacts,
         NEW c \in Clients, ResolveIdentity(c)
  PROVE  ConversationFacts'
<1>1. PICK s \in Sessions : s = req[c].session
  BY DEF TypeOK, Request
<1>2. req[c].pc = "resolve" /\ UNCHANGED turn
  BY DEF ResolveIdentity
<1>3. \A z \in Sessions : z # s => msgs'[z] = msgs[z]
  BY <1>1 DEF ResolveIdentity, TypeOK
<1>4. \A d \in Clients \ {c} : req'[d] = req[d]
  BY DEF ResolveIdentity, TypeOK
<1>5. Numbered(c)'
  <2>1. PICK n : n = Len(msgs'[s]) + 1
    OBVIOUS
  <2>2. req' = [req EXCEPT ![c] = [req[c] EXCEPT !.pc = "tip", !.n = n]]
    BY <1>1, <2>1 DEF ResolveIdentity
  <2>3. req[c] \in Request /\ req \in [Clients -> Request]
    BY DEF TypeOK
  <2>4. req'[c].n = n /\ req'[c].session = s
    BY <1>1, <2>2, <2>3 DEF Request
  <2> QED BY <2>1, <2>4 DEF Numbered
<1>6. \A d \in Clients : d # c /\ Owned(s) /\ req[d].session = s => req[d].pc \notin {"tip", "admit"}
  BY <1>1, <1>2, RequestIsAlone
<1>7. \A u \in TurnIds : Owned(s) /\ turn[u].session = s =>
        turn[u].phase \notin LivePhases /\ turn[u].phase # "admitted"
  BY <1>1, <1>2, RequestIsAlone
<1> QED BY <1>2, <1>3, <1>4, <1>5, <1>6, <1>7, ConversationUpdate

LEMMA StartRunConversation ==
  ASSUME TypeOK, TypeOK', OwnedFacts, EntryFacts, ConversationFacts,
         NEW t \in TurnIds, StartRun(t)
  PROVE  ConversationFacts'
<1>1. PICK s \in Sessions : s = turn[t].session
  BY DEF TypeOK, Turn
<1>2. PICK m : m = Append(msgs[s], [role |-> "user", turn |-> t])
  OBVIOUS
<1>3. /\ turn[t].phase = "spawned" /\ UNCHANGED req
      /\ msgs' = [msgs EXCEPT ![s] = m]
  BY <1>1, <1>2 DEF StartRun
<1>4. msgs'[s] = m /\ \A z \in Sessions : z # s => msgs'[z] = msgs[z]
  BY <1>3 DEF TypeOK
<1>5. PICK b \in BOOLEAN :
        turn' = [turn EXCEPT ![t] = [Become(t, "running") EXCEPT
                    !.run = Len(m), !.input = m, !.compacted = b]]
  BY <1>1, <1>2 DEF StartRun
<1>6. /\ turn'[t].phase = "running" /\ turn'[t].session = s /\ turn'[t].told = turn[t].told
      /\ turn'[t].run = Len(m) /\ turn'[t].input = m
      /\ \A u \in TurnIds \ {t} : turn'[u] = turn[u]
  <2>1. PICK n : n = Len(m)
    OBVIOUS
  <2> QED BY <1>1, <1>5, <2>1 DEF Become, TypeOK, Turn
<1>7. Len(m) = Len(msgs[s]) + 1
  <2>1. msgs[s] \in Seq(Message)
    BY DEF TypeOK
  <2> QED BY <1>2, <2>1
<1>8. Kindred(t)'
  <2>1. Kindred(t)
    BY PerRequestAndTurn
  <2> QED BY <1>1, <1>3, <1>4, <1>6, <1>7, <2>1 DEF Kindred, Owned
<1>9. \A d \in Clients : Owned(s) /\ req[d].session = s => req[d].pc \notin {"tip", "admit"}
  BY <1>1, <1>3, TurnIsAlone DEF LivePhases
<1>10. \A u \in TurnIds : u # t /\ Owned(s) /\ turn[u].session = s =>
         turn[u].phase \notin LivePhases /\ turn[u].phase # "admitted"
  BY <1>1, <1>3, TurnIsAlone DEF LivePhases
<1>11. \A d \in Clients : req'[d] = req[d]
  BY <1>3
<1> QED BY <1>4, <1>6, <1>8, <1>9, <1>10, <1>11, ConversationUpdate

\* The run's conversation replaces the session's.
LEMMA FinalizeConversation ==
  ASSUME TypeOK, TypeOK', OwnedFacts, EntryFacts, ConversationFacts,
         NEW t \in TurnIds, Finalize(t)
  PROVE  ConversationFacts'
<1>1. PICK s \in Sessions : s = turn[t].session
  BY DEF TypeOK, Turn
<1>3. turn[t].phase = "saving" /\ UNCHANGED req
  BY DEF Finalize
<1>4. \A z \in Sessions : z # s => msgs'[z] = msgs[z]
  <2>1. PICK m : msgs' = [msgs EXCEPT ![s] = m]
    BY <1>1 DEF Finalize
  <2> QED BY <2>1 DEF TypeOK
<1>6. /\ turn'[t].phase = "committed" /\ turn'[t].session = s /\ turn'[t].told = turn[t].told
      /\ turn'[t].run = turn[t].run
      /\ \A u \in TurnIds \ {t} : turn'[u] = turn[u]
  BY <1>1 DEF Finalize, TypeOK, Turn
<1>8. Kindred(t)'
  <2>1. Kindred(t)
    BY PerRequestAndTurn
  <2> QED BY <1>1, <1>6, <2>1 DEF Kindred, Owned
<1>9. \A d \in Clients : Owned(s) /\ req[d].session = s => req[d].pc \notin {"tip", "admit"}
  BY <1>1, <1>3, TurnIsAlone DEF LivePhases
<1>10. \A u \in TurnIds : u # t /\ Owned(s) /\ turn[u].session = s =>
         turn[u].phase \notin LivePhases /\ turn[u].phase # "admitted"
  BY <1>1, <1>3, TurnIsAlone DEF LivePhases
<1>11. \A d \in Clients : req'[d] = req[d]
  BY <1>3
<1> QED BY <1>4, <1>6, <1>8, <1>9, <1>10, <1>11, ConversationUpdate

\* The rest of a turn's steps leave the conversations alone.
LEMMA OneTurnConversation ==
  ASSUME TypeOK, TypeOK', ConversationFacts, UNCHANGED <<msgs, req>>,
         NEW t \in TurnIds, NEW k, turn' = [turn EXCEPT ![t] = k],
         k.session = turn[t].session, k.told = turn[t].told, k.run = turn[t].run,
         k.phase \notin {"admitted", "spawned"},
         k.phase \in {"running", "ended", "saving"} =>
           turn[t].phase \in {"running", "ended", "saving"} /\ k.input = turn[t].input
  PROVE  ConversationFacts'
<1>1. turn'[t] = k /\ \A u \in TurnIds : u # t => turn'[u] = turn[u]
  BY DEF TypeOK
<1>2. ASSUME NEW u \in TurnIds PROVE Kindred(u)'
  <2>1. Kindred(u) /\ Kindred(t)
    BY PerRequestAndTurn
  <2> QED BY <1>1, <2>1 DEF Kindred, Owned
<1> QED BY <1>2, ConversationTurnStep

\* The admission: the new turn is told the number of its request.
LEMMA AdmitConversation ==
  ASSUME TypeOK, TypeOK', ConversationFacts, EntryFacts, NEW c \in Clients, Admit(c)
  PROVE  ConversationFacts'
<1>1. PICK t \in TurnIds : t = admitted + 1
  BY DEF Admit
<1>2. /\ req[c].pc = "admit" /\ UNCHANGED msgs
      /\ req' = [req EXCEPT ![c] = [req[c] EXCEPT !.pc = "spawn", !.turn = t]]
      /\ turn' = [turn EXCEPT ![t] = [UnusedTurn EXCEPT !.phase = "admitted",
                                         !.session = req[c].session, !.told = req[c].n]]
  BY <1>1 DEF Admit, managers
<1>3. /\ req'[c].pc = "spawn" /\ req'[c].turn = t /\ \A d \in Clients : d # c => req'[d] = req[d]
  BY <1>2 DEF TypeOK, Request
<1>4. /\ turn'[t].phase = "admitted" /\ turn'[t].session = req[c].session
      /\ turn'[t].told = req[c].n /\ turn'[t].run = 0
      /\ \A u \in TurnIds : u # t => turn'[u] = turn[u]
  BY <1>2 DEF TypeOK, UnusedTurn
<1>5. ASSUME NEW d \in Clients PROVE Numbered(d)'
  BY <1>2, <1>3, PerRequestAndTurn DEF Numbered
<1>6. Numbered(c)
  BY PerRequestAndTurn
<1>7. Kindred(t)'
  BY <1>2, <1>3, <1>4, <1>6 DEF Kindred, Numbered, Owned
<1>8. ASSUME NEW u \in TurnIds, u # t PROVE Kindred(u)'
  <2>1. Kindred(u)
    BY PerRequestAndTurn
  <2>2. \A d \in Clients : req[d].pc = "spawn" => req'[d] = req[d]
    BY <1>2, <1>3
  <2> QED BY <1>2, <1>4, <1>8, <2>1, <2>2 DEF Kindred, Owned
<1> QED BY <1>5, <1>7, <1>8, PerRequestAndTurnNext

\* The spawn: the turn that leaves "admitted" is the one its request admitted.
LEMMA SpawnConversation ==
  ASSUME TypeOK, TypeOK', ConversationFacts, EntryFacts, NEW c \in Clients, Spawn(c)
  PROVE  ConversationFacts'
<1>1. PICK t \in TurnIds : t = req[c].turn /\ turn[t].phase = "admitted"
  BY DEF Spawn, EntryFacts, RequestOwnsAdmission
<1>2. /\ req[c].pc = "spawn" /\ UNCHANGED msgs
      /\ req'[c].pc = "idle" /\ \A d \in Clients : d # c => req'[d] = req[d]
  BY DEF Spawn, managers, TypeOK, Idle
<1>3. /\ turn'[t].phase = "spawned" /\ turn'[t].session = turn[t].session
      /\ turn'[t].told = turn[t].told /\ turn'[t].run = turn[t].run
      /\ \A u \in TurnIds : u # t => turn'[u] = turn[u]
  BY <1>1 DEF Spawn, TypeOK, Turn
<1>4. ASSUME NEW d \in Clients PROVE Numbered(d)'
  BY <1>2, PerRequestAndTurn DEF Numbered
<1>5. Kindred(t)'
  <2>1. Kindred(t)
    BY PerRequestAndTurn
  <2> QED BY <1>1, <1>2, <1>3, <2>1 DEF Kindred, Owned
<1>6. ASSUME NEW u \in TurnIds, u # t PROVE Kindred(u)'
  <2>1. Kindred(u)
    BY PerRequestAndTurn
  <2>2. \A d \in Clients : req[d].turn = u => req'[d] = req[d]
    BY <1>1, <1>2, <1>6
  <2> QED BY <1>2, <1>3, <1>6, <2>1, <2>2 DEF Kindred, Owned
<1> QED BY <1>4, <1>5, <1>6, PerRequestAndTurnNext

\* A crash: what was admitted is killed, and what was killed keeps its numbers.
LEMMA CrashConversation ==
  ASSUME TypeOK, TypeOK', ConversationFacts, Crash
  PROVE  ConversationFacts'
<1>1. \A c \in Clients : Numbered(c)'
  BY DEF Crash, Numbered, Idle
<1>2. ASSUME NEW t \in TurnIds PROVE Kindred(t)'
  <2>1. Kindred(t)
    BY PerRequestAndTurn
  <2>2. /\ turn'[t].session = turn[t].session /\ turn'[t].told = turn[t].told
        /\ turn'[t].run = turn[t].run
        /\ turn'[t].phase \notin LivePhases \cup {"admitted"}
    <3>1. turn[t] \in Turn
      BY DEF TypeOK
    <3>2. turn'[t] = IF Live(t) \/ turn[t].phase = "admitted" THEN Remains(t, "killed") ELSE turn[t]
      BY DEF Crash
    <3> QED BY <3>1, <3>2 DEF Live, LivePhases, Remains, Become, Turn
  <2> QED BY <2>1, <2>2 DEF Kindred, Owned, LivePhases
<1> QED BY <1>1, <1>2, PerRequestAndTurnNext

\* Every step keeps the facts about conversations.
LEMMA ConversationNext ==
  ASSUME TypeOK, TypeOK', EntryFacts, OwnedFacts, ConversationFacts, [Next]_vars
  PROVE  ConversationFacts'
<1> USE DEF managers
<1>1. ASSUME NEW c \in Clients, NEW s \in Sessions, StartRequest(c, s)
      PROVE  ConversationFacts'
  <2>1. /\ \A d \in Clients : d # c => req'[d] = req[d]
        /\ req'[c].pc = "active" /\ req[c].pc = "idle" /\ UNCHANGED <<msgs, turn>>
    BY <1>1 DEF StartRequest, TypeOK, Idle
  <2> QED BY <2>1, ConversationRequestStep DEF Numbered
<1>2. ASSUME NEW c \in Clients, NEW s \in Sessions, StopTurn(c, s)
      PROVE  ConversationFacts'
  <2>1. /\ UNCHANGED <<msgs, req>>
        /\ \A t \in TurnIds : /\ turn'[t].session = turn[t].session /\ turn'[t].told = turn[t].told
                              /\ turn'[t].run = turn[t].run /\ turn'[t].phase = turn[t].phase
                              /\ turn'[t].input = turn[t].input
    <3>1. turn \in [TurnIds -> Turn]
      BY DEF TypeOK
    <3>2. turn' = [turn EXCEPT ![active[s]].stop = TRUE] /\ UNCHANGED <<msgs, req>>
      BY <1>2 DEF StopTurn
    <3> QED BY <3>1, <3>2 DEF Turn
  <2>2. \A t \in TurnIds : Kindred(t)'
    BY <2>1, PerRequestAndTurn DEF Kindred, Owned
  <2> QED BY <2>1, <2>2, ConversationTurnStep
<1>3. ASSUME NEW c \in Clients, CheckActive(c) \/ CheckCatalog(c)
      PROVE  ConversationFacts'
  <2>1. /\ \A d \in Clients : d # c => req'[d] = req[d]
        /\ req'[c].pc \in {"idle", "catalog", "resolve"} /\ req[c].pc # "spawn"
        /\ UNCHANGED <<msgs, turn>>
    <3>1. CASE Refuse(c)
      BY <1>3, <3>1 DEF CheckActive, CheckCatalog, Refuse, TypeOK, Idle
    <3>2. CASE ~Refuse(c)
      BY <1>3, <3>2 DEF CheckActive, CheckCatalog, TypeOK, Request
    <3> QED BY <3>1, <3>2
  <2> QED BY <2>1, ConversationRequestStep DEF Numbered
<1>4. ASSUME NEW c \in Clients, ReadTip(c)
      PROVE  ConversationFacts'
  <2>1. PICK prev : req' = [req EXCEPT ![c] = [req[c] EXCEPT !.pc = "admit", !.since = clock, !.prev = prev]]
    BY <1>4 DEF ReadTip
  <2>2. /\ \A d \in Clients : d # c => req'[d] = req[d]
        /\ req'[c].session = req[c].session /\ req'[c].n = req[c].n
    BY <2>1 DEF TypeOK, Request
  <2>3. req[c].pc = "tip" /\ UNCHANGED <<msgs, turn>>
    BY <1>4 DEF ReadTip
  <2>4. Numbered(c)'
    BY <2>2, <2>3, PerRequestAndTurn DEF Numbered, Owned
  <2> QED BY <2>2, <2>3, <2>4, ConversationRequestStep
<1>5. ASSUME NEW t \in TurnIds, Reply(t) PROVE ConversationFacts'
  <2> DEFINE k == [turn[t] EXCEPT !.replies = @ + 1]
  <2>1. k.session = turn[t].session /\ k.told = turn[t].told /\ k.run = turn[t].run
        /\ k.phase = turn[t].phase /\ k.input = turn[t].input
    BY DEF TypeOK, Turn
  <2>2. turn' = [turn EXCEPT ![t] = k] /\ turn[t].phase = "running" /\ UNCHANGED <<msgs, req>>
    BY <1>5 DEF Reply
  <2> HIDE DEF k
  <2> QED BY <2>1, <2>2, OneTurnConversation
<1>6. ASSUME NEW t \in TurnIds, EndRun(t) PROVE ConversationFacts'
  <2>1. PICK o : turn' = [turn EXCEPT ![t] = [Become(t, "ended") EXCEPT !.outcome = o]]
    BY <1>6 DEF EndRun
  <2> DEFINE k == [Become(t, "ended") EXCEPT !.outcome = o]
  <2>2. k.session = turn[t].session /\ k.told = turn[t].told /\ k.run = turn[t].run
        /\ k.phase = "ended" /\ k.input = turn[t].input
    BY DEF TypeOK, Turn, Become
  <2>3. turn' = [turn EXCEPT ![t] = k] /\ turn[t].phase = "running" /\ UNCHANGED <<msgs, req>>
    BY <1>6, <2>1 DEF EndRun
  <2> HIDE DEF k
  <2> QED BY <2>2, <2>3, OneTurnConversation
<1>7. ASSUME NEW t \in TurnIds, BeginFinalize(t) PROVE ConversationFacts'
  <2> DEFINE k == [turn[t] EXCEPT !.phase = "saving"]
  <2>1. k.session = turn[t].session /\ k.told = turn[t].told /\ k.run = turn[t].run
        /\ k.phase = "saving" /\ k.input = turn[t].input
    BY DEF TypeOK, Turn
  <2>2. turn' = [turn EXCEPT ![t] = k] /\ turn[t].phase = "ended" /\ UNCHANGED <<msgs, req>>
    BY <1>7 DEF BeginFinalize
  <2> HIDE DEF k
  <2> QED BY <2>1, <2>2, OneTurnConversation
<1>8. ASSUME NEW t \in TurnIds, SaveEvent(t) PROVE ConversationFacts'
  <2> DEFINE k == [turn[t] EXCEPT !.saved = @ + 1]
  <2>1. k.session = turn[t].session /\ k.told = turn[t].told /\ k.run = turn[t].run
        /\ k.phase = turn[t].phase /\ k.input = turn[t].input
    BY DEF TypeOK, Turn
  <2>2. turn' = [turn EXCEPT ![t] = k] /\ turn[t].phase = "saving" /\ UNCHANGED <<msgs, req>>
    BY <1>8 DEF SaveEvent
  <2> HIDE DEF k
  <2> QED BY <2>1, <2>2, OneTurnConversation
<1>9. ASSUME NEW t \in TurnIds, Release(t) PROVE ConversationFacts'
  <2> DEFINE k == Remains(t, "finished")
  <2>1. k.session = turn[t].session /\ k.told = turn[t].told /\ k.run = turn[t].run
        /\ k.phase = "finished"
    BY DEF TypeOK, Turn, Remains, Become
  <2>2. turn' = [turn EXCEPT ![t] = k] /\ UNCHANGED <<msgs, req>>
    BY <1>9 DEF Release
  <2> HIDE DEF k
  <2> QED BY <2>1, <2>2, OneTurnConversation
<1>10. ASSUME UNCHANGED <<msgs, req, turn>> PROVE ConversationFacts'
  BY <1>10 DEF ConversationFacts, AdmittedIsRequested, OwnedIsNumbered, ToldIsRun, NoLostUpdate, Owned
<1> QED
  <2>1. CASE \E c \in Clients : RequestStep(c)
    BY <1>3, <1>4, <2>1, ResolveConversation, AdmitConversation, SpawnConversation DEF RequestStep
  <2>2. CASE \E u \in TurnIds : DrainStep(u)
    BY <1>5, <1>6, <1>7, <1>8, <1>9, <2>2, StartRunConversation, FinalizeConversation DEF DrainStep
  <2>3. CASE \E c \in Clients, s \in Sessions : StartRequest(c, s) \/ StopTurn(c, s)
    BY <1>1, <1>2, <2>3
  <2>4. CASE (\E s \in Sessions : SetLifecycle(s)) \/ Tick \/ UNCHANGED vars
    BY <1>10, <2>4 DEF SetLifecycle, Tick, vars
  <2> QED BY <2>1, <2>2, <2>3, <2>4, CrashConversation DEF Next, SteadyNext

\* The conversation facts hold with the facts they rest on.
LEMMA ConversationHolds == Spec => []ConversationFacts
<1>1. Init => EntryFacts /\ OwnedFacts /\ ConversationFacts
  BY EntryInit, OwnedInit, ConversationInit
<1>2. TypeOK /\ TypeOK' /\ EntryFacts /\ OwnedFacts /\ ConversationFacts /\ [Next]_vars
        => EntryFacts' /\ OwnedFacts' /\ ConversationFacts'
  BY EntryNext, OwnedNext, ConversationNext
<1> QED BY <1>1, <1>2, TypeCorrect, PTL DEF Spec

\* Where one connection uses a session, no message is lost: what a run replaces when it
\* commits is what it started from, whatever is stopped, archived or killed in between.
THEOREM OwnedConversationsKept == Spec => []NoLostUpdate
<1>1. ConversationFacts => NoLostUpdate
  BY DEF ConversationFacts
<1> QED BY <1>1, ConversationHolds, PTL

\* Where one connection uses a session, the run that turn.start told the client about is
\* the run that is recorded, whoever prepares, spawns or ends a turn in between.
THEOREM OwnedRunsToldRight == Spec => []ToldIsRun
<1>1. ConversationFacts => ToldIsRun
  BY DEF ConversationFacts
<1> QED BY <1>1, ConversationHolds, PTL

-----------------------------------------------------------------------------
(* What a restarted host resumes.                                          *)

\* Subsequences: in a longer sequence, with one more message, of themselves.
LEMMA PartStays ==
  ASSUME NEW a \in Seq(Message), NEW b, NEW c, NEW n \in Nat, NEW m \in Nat, n <= m,
         \A i \in 1 .. n : c[i] = b[i], PartOf(a, b, n)
  PROVE  PartOf(a, c, m)
<1>1. PICK f \in [DOMAIN a -> 1 .. n] : /\ \A i, j \in DOMAIN a : i < j => f[i] < f[j]
                                        /\ \A i \in DOMAIN a : a[i] = b[f[i]]
  BY DEF PartOf
<1>2. f \in [DOMAIN a -> 1 .. m]
  <2>1. 1 .. n \subseteq 1 .. m
    OBVIOUS
  <2> QED BY <1>1, <2>1
<1>3. \A i \in DOMAIN a : a[i] = c[f[i]]
  BY <1>1
<1> QED BY <1>1, <1>2, <1>3 DEF PartOf

\* With the next message of the longer sequence it is a part still.
LEMMA PartAppends ==
  ASSUME NEW a \in Seq(Message), NEW b, NEW n \in Nat, PartOf(a, b, n)
  PROVE  PartOf(Append(a, b[n + 1]), b, n + 1)
<1>1. PICK f \in [DOMAIN a -> 1 .. n] : /\ \A i, j \in DOMAIN a : i < j => f[i] < f[j]
                                        /\ \A i \in DOMAIN a : a[i] = b[f[i]]
  BY DEF PartOf
<1>2. PICK k \in Nat : k = Len(a) /\ DOMAIN a = 1 .. k
  BY LenProperties
<1>3. PICK d : d = Append(a, b[n + 1])
  OBVIOUS
<1>4. /\ DOMAIN d = 1 .. k + 1
      /\ d[k + 1] = b[n + 1]
      /\ \A i \in 1 .. k : d[i] = a[i]
  <2>1. /\ Len(Append(a, b[n + 1])) = Len(a) + 1
        /\ DOMAIN Append(a, b[n + 1]) = 1 .. Len(a) + 1
        /\ \A i \in 1 .. Len(a) : Append(a, b[n + 1])[i] = a[i]
        /\ Append(a, b[n + 1])[Len(a) + 1] = b[n + 1]
    OBVIOUS
  <2> QED BY <1>2, <1>3, <2>1
<1> DEFINE g == [i \in 1 .. k + 1 |-> IF i = k + 1 THEN n + 1 ELSE f[i]]
<1>5. \A i \in 1 .. k : g[i] = f[i] /\ f[i] \in 1 .. n
  BY <1>1, <1>2
<1>6. g[k + 1] = n + 1
  OBVIOUS
<1>7. g \in [1 .. k + 1 -> 1 .. n + 1]
  <2>1. ASSUME NEW i \in 1 .. k + 1 PROVE g[i] \in 1 .. n + 1
    <3>1. CASE i = k + 1 BY <1>6, <3>1
    <3>2. CASE i # k + 1
      <4>1. i \in 1 .. k BY <3>2
      <4> HIDE DEF g
      <4> QED BY <1>5, <4>1
    <3> QED BY <3>1, <3>2
  <2> QED BY <2>1
<1> HIDE DEF g
<1>8. ASSUME NEW i \in 1 .. k + 1, NEW j \in 1 .. k + 1, i < j PROVE g[i] < g[j]
  <2>1. i \in 1 .. k
    BY <1>8
  <2>2. CASE j = k + 1 BY <1>5, <1>6, <2>1, <2>2
  <2>3. CASE j # k + 1
    <3>1. j \in 1 .. k BY <2>3
    <3> QED BY <1>1, <1>2, <1>5, <1>8, <2>1, <3>1
  <2> QED BY <2>2, <2>3
<1>9. ASSUME NEW i \in 1 .. k + 1 PROVE d[i] = b[g[i]]
  <2>1. CASE i = k + 1 BY <1>4, <1>6, <2>1
  <2>2. CASE i # k + 1
    <3>1. i \in 1 .. k BY <2>2
    <3> QED BY <1>1, <1>2, <1>4, <1>5, <3>1
  <2> QED BY <2>1, <2>2
<1>10. PartOf(d, b, n + 1)
  BY <1>4, <1>7, <1>8, <1>9 DEF PartOf
<1> QED BY <1>3, <1>10

\* A conversation is a part of itself.
LEMMA PartOfItself ==
  ASSUME NEW a \in Seq(Message)
  PROVE  PartOf(a, a, Len(a))
<1>1. PICK k \in Nat : k = Len(a) /\ DOMAIN a = 1 .. k
  BY LenProperties
<1> DEFINE f == [i \in 1 .. k |-> i]
<1>2. /\ f \in [DOMAIN a -> 1 .. k] /\ \A i \in DOMAIN a : f[i] = i
  BY <1>1
<1> HIDE DEF f
<1> QED BY <1>1, <1>2 DEF PartOf

\* A row that is appended to the ledger is a message more in its projection.
LEMMA ProjectionAppends ==
  ASSUME TypeOK, NEW s \in Sessions, NEW e \in ConversationRow,
         ledger'[s] = Append(ledger[s], e)
  PROVE  Projection(s)' = Append(Projection(s), [role |-> e.role, turn |-> e.turn])
<1>1. PICK l \in Seq(ConversationRow) : l = ledger[s]
  BY DEF TypeOK
<1>2. PICK k \in Nat : k = Len(l) /\ DOMAIN l = 1 .. k
  BY LenProperties
<1>3. PICK a : a = Projection(s)
  OBVIOUS
<1>4. a \in Seq(Message) /\ DOMAIN a = 1 .. k /\ Len(a) = k
      /\ \A i \in 1 .. k : a[i] = [role |-> l[i].role, turn |-> l[i].turn]
  <2>1. a \in Seq(Message)
    BY <1>3, ProjectionType
  <2>2. a = [i \in 1 .. k |-> [role |-> l[i].role, turn |-> l[i].turn]]
    BY <1>1, <1>2, <1>3 DEF Projection
  <2>3. DOMAIN a = 1 .. Len(a) /\ Len(a) \in Nat
    BY <2>1, LenProperties
  <2>4. Len(a) = k
    BY <2>2, <2>3
  <2> QED BY <2>1, <2>2, <2>4
<1>5. PICK m : m = Append(l, e)
  OBVIOUS
<1>6. DOMAIN m = 1 .. k + 1 /\ m[k + 1] = e /\ \A i \in 1 .. k : m[i] = l[i]
  <2>1. /\ DOMAIN Append(l, e) = 1 .. Len(l) + 1 /\ Append(l, e)[Len(l) + 1] = e
        /\ \A i \in 1 .. Len(l) : Append(l, e)[i] = l[i]
    OBVIOUS
  <2> QED BY <1>2, <1>5, <2>1
<1>7. Projection(s)' = [i \in 1 .. k + 1 |-> [role |-> m[i].role, turn |-> m[i].turn]]
  BY <1>1, <1>5, <1>6 DEF Projection
<1>8. PICK x \in Message : x = [role |-> e.role, turn |-> e.turn]
  BY DEF ConversationRow, Message
<1>9. Append(a, x) = [i \in 1 .. k + 1 |-> IF i = k + 1 THEN x ELSE a[i]]
  <2>1. PICK b : b = Append(a, x)
    OBVIOUS
  <2>2. b \in Seq(Message) /\ Len(b) = k + 1 /\ b[k + 1] = x /\ \A i \in 1 .. k : b[i] = a[i]
    BY <1>4, <1>8, <2>1, AppendProperties
  <2>3. b \in [1 .. k + 1 -> Message]
    BY <2>2, LenProperties
  <2>4. \A i \in 1 .. k + 1 : b[i] = IF i = k + 1 THEN x ELSE a[i]
    BY <2>2
  <2> QED BY <2>1, <2>3, <2>4
<1>10. [i \in 1 .. k + 1 |-> [role |-> m[i].role, turn |-> m[i].turn]] =
       [i \in 1 .. k + 1 |-> IF i = k + 1 THEN x ELSE a[i]]
  <2>1. ASSUME NEW i \in 1 .. k + 1
        PROVE  [role |-> m[i].role, turn |-> m[i].turn] = IF i = k + 1 THEN x ELSE a[i]
    <3>1. CASE i = k + 1 BY <1>6, <1>8, <3>1
    <3>2. CASE i # k + 1
      <4>1. i \in 1 .. k BY <3>2
      <4> QED BY <1>4, <1>6, <3>2, <4>1
    <3> QED BY <3>1, <3>2
  <2> QED BY <2>1
<1> QED BY <1>3, <1>7, <1>8, <1>9, <1>10

\* A step of one turn that keeps its fields in order.
LEMMA FieldsStep ==
  ASSUME TypeOK, \A u \in TurnIds : TurnFields(u),
         NEW t \in TurnIds, NEW k, turn' = [turn EXCEPT ![t] = k], TurnFields(t)'
  PROVE  \A u \in TurnIds : TurnFields(u)'
<1>1. \A u \in TurnIds : u # t => turn'[u] = turn[u]
  BY DEF TypeOK
<1>2. ASSUME NEW u \in TurnIds, u # t PROVE TurnFields(u)'
  <2>1. turn'[u] = turn[u] /\ TurnFields(u)
    BY <1>1, <1>2
  <2> QED BY <2>1 DEF TurnFields
<1> QED BY <1>2

\* Every step keeps the fields of the turns in order.
LEMMA FieldsNext ==
  ASSUME TypeOK, EntryFacts, \A t \in TurnIds : TurnFields(t), [Next]_vars
  PROVE  \A t \in TurnIds : TurnFields(t)'
<1>1. turn \in [TurnIds -> Turn]
  BY DEF TypeOK
<1>2. CASE UNCHANGED turn
  BY <1>2 DEF TurnFields
<1>3. ASSUME NEW c \in Clients, NEW s \in Sessions, StopTurn(c, s)
      PROVE  \A t \in TurnIds : TurnFields(t)'
  <2>1. PICK t \in TurnIds : t = active[s] /\ Live(t)
    BY <1>3 DEF StopTurn, TypeOK, EntryFacts, EntryIsLive
  <2>2. turn' = [turn EXCEPT ![t] = [turn[t] EXCEPT !.stop = TRUE]]
    BY <1>3, <2>1 DEF StopTurn
  <2>3. /\ turn'[t].phase = turn[t].phase /\ turn[t].phase # "unused"
        /\ turn'[t].compacted = turn[t].compacted /\ turn'[t].replies = turn[t].replies
        /\ turn'[t].outcome = turn[t].outcome /\ turn'[t].saved = turn[t].saved
        /\ turn'[t].input = turn[t].input
    BY <1>1, <2>1, <2>2 DEF Turn, Live, LivePhases
  <2>4. TurnFields(t)'
    BY <2>3 DEF TurnFields
  <2> QED BY <2>2, <2>4, FieldsStep
<1>4. ASSUME NEW c \in Clients, Admit(c) PROVE \A t \in TurnIds : TurnFields(t)'
  <2>1. PICK t \in TurnIds : turn' = [turn EXCEPT ![t] = [UnusedTurn EXCEPT !.phase = "admitted",
                                       !.session = req[c].session, !.told = req[c].n]]
    BY <1>4 DEF Admit
  <2>2. TurnFields(t)'
    BY <1>1, <2>1 DEF TurnFields, UnusedTurn, InRun
  <2> QED BY <2>1, <2>2, FieldsStep
<1>5. ASSUME NEW c \in Clients, Spawn(c) PROVE \A t \in TurnIds : TurnFields(t)'
  <2>1. PICK t \in TurnIds : t = req[c].turn /\ turn[t].phase = "admitted"
    BY <1>5 DEF Spawn, EntryFacts, RequestOwnsAdmission
  <2>2. turn' = [turn EXCEPT ![t] = [turn[t] EXCEPT !.phase = "spawned"]]
    BY <1>5, <2>1 DEF Spawn
  <2>3. TurnFields(t)'
    BY <1>1, <2>1, <2>2 DEF TurnFields, Turn, InRun
  <2> QED BY <2>2, <2>3, FieldsStep
<1>6. ASSUME NEW t \in TurnIds, StartRun(t) PROVE \A u \in TurnIds : TurnFields(u)'
  <2>1. PICK m, x : m = Append(msgs[turn[t].session], x) /\ x = [role |-> "user", turn |-> t]
    OBVIOUS
  <2>2. PICK b : turn' = [turn EXCEPT ![t] = [Become(t, "running") EXCEPT
                           !.run = Len(m), !.input = m, !.compacted = b]]
    BY <1>6, <2>1 DEF StartRun
  <2>3. turn[t].phase = "spawned"
    BY <1>6 DEF StartRun
  <2>4. m # <<>> /\ m[Len(m)] = x
    <3>1. msgs[turn[t].session] \in Seq(Message) /\ x \in Message
      BY <1>1, <2>1 DEF TypeOK, Turn, Message
    <3> QED BY <2>1, <3>1, AppendProperties
  <2>5. /\ turn'[t].phase = "running" /\ turn'[t].outcome = turn[t].outcome
        /\ turn'[t].saved = turn[t].saved /\ turn'[t].input = m
    <3>1. PICK n : n = Len(m)
      OBVIOUS
    <3> QED BY <1>1, <2>2, <3>1 DEF Become, Turn
  <2>6. TurnFields(t)'
    BY <2>1, <2>3, <2>4, <2>5 DEF TurnFields
  <2> QED BY <2>2, <2>6, FieldsStep
<1>7. ASSUME NEW t \in TurnIds, Reply(t) PROVE \A u \in TurnIds : TurnFields(u)'
  <2>1. turn[t].phase = "running" /\ turn' = [turn EXCEPT ![t] = [turn[t] EXCEPT !.replies = @ + 1]]
    BY <1>7 DEF Reply
  <2>2. TurnFields(t)'
    BY <1>1, <2>1 DEF TurnFields, Turn, InRun
  <2> QED BY <2>1, <2>2, FieldsStep
<1>8. ASSUME NEW t \in TurnIds, EndRun(t) PROVE \A u \in TurnIds : TurnFields(u)'
  <2>1. PICK o : turn' = [turn EXCEPT ![t] = [Become(t, "ended") EXCEPT !.outcome = o]]
    BY <1>8 DEF EndRun
  <2>2. turn[t].phase = "running"
    BY <1>8 DEF EndRun
  <2>3. TurnFields(t)'
    BY <1>1, <2>1, <2>2 DEF TurnFields, Turn, InRun, Become
  <2> QED BY <2>1, <2>3, FieldsStep
<1>9. ASSUME NEW t \in TurnIds, BeginFinalize(t) PROVE \A u \in TurnIds : TurnFields(u)'
  <2>1. turn[t].phase = "ended" /\ turn' = [turn EXCEPT ![t] = [turn[t] EXCEPT !.phase = "saving"]]
    BY <1>9 DEF BeginFinalize
  <2>2. TurnFields(t)'
    BY <1>1, <2>1 DEF TurnFields, Turn, InRun
  <2> QED BY <2>1, <2>2, FieldsStep
<1>10. ASSUME NEW t \in TurnIds, SaveEvent(t) PROVE \A u \in TurnIds : TurnFields(u)'
  <2>1. /\ turn[t].phase = "saving" /\ turn[t].saved <= turn[t].replies
        /\ turn' = [turn EXCEPT ![t] = [turn[t] EXCEPT !.saved = @ + 1]]
    BY <1>10 DEF SaveEvent
  <2>2. TurnFields(t)'
    BY <1>1, <2>1 DEF TurnFields, Turn, InRun
  <2> QED BY <2>1, <2>2, FieldsStep
<1>11. ASSUME NEW t \in TurnIds, Finalize(t) PROVE \A u \in TurnIds : TurnFields(u)'
  <2>1. turn' = [turn EXCEPT ![t] = [turn[t] EXCEPT !.phase = "committed"]]
    BY <1>11 DEF Finalize
  <2>2. TurnFields(t)'
    BY <1>1, <2>1 DEF TurnFields, Turn, InRun
  <2> QED BY <2>1, <2>2, FieldsStep
<1>12. ASSUME NEW t \in TurnIds, Release(t) PROVE \A u \in TurnIds : TurnFields(u)'
  <2>1. turn' = [turn EXCEPT ![t] = Remains(t, "finished")]
    BY <1>12 DEF Release
  <2>2. TurnFields(t)'
    BY <1>1, <2>1 DEF TurnFields, Turn, InRun, Remains, Become
  <2> QED BY <2>1, <2>2, FieldsStep
<1>13. CASE Crash
  <2>1. ASSUME NEW t \in TurnIds PROVE TurnFields(t)'
    <3>1. turn'[t] = IF Live(t) \/ turn[t].phase = "admitted" THEN Remains(t, "killed") ELSE turn[t]
      BY <1>13 DEF Crash
    <3>2. CASE turn'[t] = turn[t]
      BY <3>2 DEF TurnFields
    <3>3. CASE turn'[t] = Remains(t, "killed")
      <4>1. turn'[t].phase = "killed"
        BY <1>1, <3>3 DEF Remains, Become, Turn
      <4> QED BY <4>1 DEF TurnFields, InRun
    <3> QED BY <3>1, <3>2, <3>3
  <2> QED BY <2>1
<1> QED
  <2>1. CASE \E c \in Clients : RequestStep(c)
    BY <1>2, <1>4, <1>5, <2>1 DEF RequestStep, CheckActive, CheckCatalog, ResolveIdentity, ReadTip
  <2>2. CASE \E u \in TurnIds : DrainStep(u)
    BY <1>6, <1>7, <1>8, <1>9, <1>10, <1>11, <1>12, <2>2 DEF DrainStep
  <2>3. CASE \E c \in Clients, s \in Sessions : StartRequest(c, s) \/ StopTurn(c, s)
    BY <1>2, <1>3, <2>3 DEF StartRequest
  <2>4. CASE (\E s \in Sessions : SetLifecycle(s)) \/ Tick \/ UNCHANGED vars
    BY <1>2, <2>4 DEF SetLifecycle, Tick, vars
  <2> QED BY <1>13, <2>1, <2>2, <2>3, <2>4 DEF Next, SteadyNext

\* What a step does to the marks of a turn: a compaction or a cut is never forgotten.
LEMMA MarksStay ==
  ASSUME TypeOK, EntryFacts, \A t \in TurnIds : TurnFields(t), [Next]_vars, NEW s, Pristine(s)'
  PROVE  Pristine(s)
<1>1. turn \in [TurnIds -> Turn]
  BY DEF TypeOK
<1> DEFINE Marks(t) == turn'[t].session = turn[t].session
                       /\ (turn[t].compacted => turn'[t].compacted)
                       /\ (turn[t].outcome = "cut" => turn'[t].outcome = "cut")
           Blank(t) == ~turn[t].compacted /\ turn[t].outcome # "cut"
<1>2. CASE \A t \in TurnIds : Marks(t) \/ Blank(t)
  BY <1>2 DEF Pristine
<1>3. CASE UNCHANGED turn
  BY <1>2, <1>3
<1>4. ASSUME NEW c \in Clients, NEW z \in Sessions, StopTurn(c, z)
      PROVE  \A t \in TurnIds : Marks(t) \/ Blank(t)
  BY <1>1, <1>4 DEF StopTurn, Turn
<1>5. ASSUME NEW c \in Clients, Admit(c) PROVE \A t \in TurnIds : Marks(t) \/ Blank(t)
  <2>1. PICK t \in TurnIds : /\ t = admitted + 1
                             /\ turn' = [turn EXCEPT ![t] = [UnusedTurn EXCEPT !.phase = "admitted",
                                       !.session = req[c].session, !.told = req[c].n]]
    BY <1>5 DEF Admit
  <2>2. turn[t] = UnusedTurn
    <3>1. t > admitted
      BY <2>1 DEF TypeOK
    <3> QED BY <3>1 DEF EntryFacts, Fresh, TurnFields
  <2>3. Blank(t)
    BY <2>2 DEF UnusedTurn
  <2>4. \A u \in TurnIds : u # t => turn'[u] = turn[u]
    BY <1>1, <2>1
  <2> QED BY <2>3, <2>4
<1>6. ASSUME NEW c \in Clients, Spawn(c) PROVE \A t \in TurnIds : Marks(t) \/ Blank(t)
  BY <1>1, <1>6 DEF Spawn, Turn
<1>7. ASSUME NEW t \in TurnIds, StartRun(t) PROVE \A u \in TurnIds : Marks(u) \/ Blank(u)
  <2>1. PICK k : turn' = [turn EXCEPT ![t] = k]
    BY <1>7 DEF StartRun
  <2>2. Blank(t)
    BY <1>7 DEF StartRun, TurnFields
  <2>3. \A u \in TurnIds : u # t => turn'[u] = turn[u]
    BY <1>1, <2>1
  <2> QED BY <2>2, <2>3
<1>8. ASSUME NEW t \in TurnIds, Reply(t) \/ BeginFinalize(t) \/ SaveEvent(t) \/ Finalize(t)
      PROVE  \A u \in TurnIds : Marks(u) \/ Blank(u)
  <2>1. CASE Reply(t) BY <1>1, <2>1 DEF Reply, Turn
  <2>2. CASE BeginFinalize(t) BY <1>1, <2>2 DEF BeginFinalize, Turn
  <2>3. CASE SaveEvent(t) BY <1>1, <2>3 DEF SaveEvent, Turn
  <2>4. CASE Finalize(t) BY <1>1, <2>4 DEF Finalize, Turn
  <2> QED BY <1>8, <2>1, <2>2, <2>3, <2>4
<1>9. ASSUME NEW t \in TurnIds, EndRun(t) PROVE \A u \in TurnIds : Marks(u) \/ Blank(u)
  <2>1. PICK o : turn' = [turn EXCEPT ![t] = [Become(t, "ended") EXCEPT !.outcome = o]]
    BY <1>9 DEF EndRun
  <2>2. turn[t].outcome = "none"
    BY <1>9 DEF EndRun, TurnFields
  <2>3. turn'[t].session = turn[t].session /\ turn'[t].compacted = turn[t].compacted
        /\ \A u \in TurnIds : u # t => turn'[u] = turn[u]
    BY <1>1, <2>1 DEF Become, Turn
  <2> QED BY <2>2, <2>3
<1>10. ASSUME NEW t \in TurnIds, Release(t) PROVE \A u \in TurnIds : Marks(u) \/ Blank(u)
  BY <1>1, <1>10 DEF Release, Remains, Become, Turn
<1>11. ASSUME Crash PROVE \A u \in TurnIds : Marks(u) \/ Blank(u)
  <2>1. ASSUME NEW t \in TurnIds PROVE Marks(t)
    <3>1. turn'[t] = IF Live(t) \/ turn[t].phase = "admitted" THEN Remains(t, "killed") ELSE turn[t]
      BY <1>11 DEF Crash
    <3> QED BY <1>1, <3>1 DEF Remains, Become, Turn
  <2> QED BY <2>1
<1> HIDE DEF Marks, Blank
<1> QED
  <2>1. CASE \E c \in Clients : RequestStep(c)
    BY <1>2, <1>3, <1>5, <1>6, <2>1 DEF RequestStep, CheckActive, CheckCatalog, ResolveIdentity, ReadTip
  <2>2. CASE \E u \in TurnIds : DrainStep(u)
    BY <1>2, <1>7, <1>8, <1>9, <1>10, <2>2 DEF DrainStep
  <2>3. CASE \E c \in Clients, z \in Sessions : StartRequest(c, z) \/ StopTurn(c, z)
    BY <1>2, <1>3, <1>4, <2>3 DEF StartRequest
  <2>4. CASE (\E z \in Sessions : SetLifecycle(z)) \/ Tick \/ UNCHANGED vars
    BY <1>3, <2>4 DEF SetLifecycle, Tick, vars
  <2> QED BY <1>2, <1>11, <2>1, <2>2, <2>3, <2>4 DEF Next, SteadyNext

\* A session none of whose runs moved, and whose conversation and ledger rest.
LEMMA ResumeFrame ==
  ASSUME NEW z \in Sessions, ResumesPart(z), msgs'[z] = msgs[z], ledger'[z] = ledger[z],
         \A t \in TurnIds :
           /\ turn'[t].session = z /\ turn'[t].phase \in InRun <=>
                turn[t].session = z /\ turn[t].phase \in InRun
           /\ turn[t].session = z /\ turn[t].phase \in InRun =>
                /\ turn'[t].input = turn[t].input /\ turn'[t].replies = turn[t].replies
                /\ turn'[t].saved = turn[t].saved
  PROVE  ResumesPart(z)'
<1>1. Projection(z)' = Projection(z)
  BY DEF Projection
<1>2. ASSUME \A t \in TurnIds : turn'[t].session = z => turn'[t].phase \notin InRun
      PROVE  PartOf(Projection(z)', msgs'[z], Len(msgs'[z]))
  <2>1. \A t \in TurnIds : turn[t].session = z => turn[t].phase \notin InRun
    BY <1>2
  <2>2. PartOf(Projection(z), msgs[z], Len(msgs[z]))
    BY <2>1 DEF ResumesPart
  <2> QED BY <1>1, <2>2
<1>3. ASSUME NEW t \in TurnIds, turn'[t].session = z, turn'[t].phase \in InRun
      PROVE  PartOf(Projection(z)', Speech(t)', Len(turn'[t].input) + turn'[t].saved - 1)
  <2>1. PartOf(Projection(z), Speech(t), Len(turn[t].input) + turn[t].saved - 1)
    BY <1>3 DEF ResumesPart
  <2>2. Speech(t)' = Speech(t)
    BY <1>3 DEF Speech
  <2> QED BY <1>1, <1>3, <2>1, <2>2
<1> QED BY <1>2, <1>3 DEF ResumesPart

\* A conversation with the replies of a run after it.
Said(m, n, t) == m \o [i \in 1 .. n |-> [role |-> "reply", turn |-> t]]

LEMMA SpeechFacts ==
  ASSUME NEW m \in Seq(Message), NEW n \in Nat, NEW t \in TurnIds
  PROVE  /\ Said(m, n, t) \in Seq(Message) /\ Len(Said(m, n, t)) = Len(m) + n
         /\ \A i \in 1 .. Len(m) : Said(m, n, t)[i] = m[i]
         /\ \A i \in 1 .. n : Said(m, n, t)[Len(m) + i] = [role |-> "reply", turn |-> t]
<1> DEFINE b == Said(m, n, t)
<1>1. PICK r : r = [i \in 1 .. n |-> [role |-> "reply", turn |-> t]]
  OBVIOUS
<1>2. r \in [1 .. n -> Message]
  BY <1>1 DEF Message
<1>3. r \in Seq(Message) /\ Len(r) = n /\ \A i \in 1 .. n : r[i] = [role |-> "reply", turn |-> t]
  <2>1. r \in Seq(Message)
    <3>1. \E k \in Nat : r \in [1 .. k -> Message]
      BY <1>2
    <3> QED BY <3>1, SeqDef
  <2>2. DOMAIN r = 1 .. Len(r) /\ Len(r) \in Nat
    BY <2>1, LenProperties
  <2>3. Len(r) = n
    BY <1>2, <2>2
  <2> QED BY <1>1, <2>1, <2>3
<1>4. b = m \o r
  BY <1>1 DEF Said
<1> HIDE DEF b
<1>5. /\ m \o r \in Seq(Message) /\ Len(m \o r) = Len(m) + Len(r)
      /\ \A i \in 1 .. Len(m) + Len(r) : (m \o r)[i] = IF i <= Len(m) THEN m[i] ELSE r[i - Len(m)]
  BY <1>3, ConcatProperties
<1>6. Len(m) \in Nat
  OBVIOUS
<1>8. \A i \in 1 .. Len(m) : b[i] = m[i]
  BY <1>3, <1>4, <1>5, <1>6
<1>9. ASSUME NEW i \in 1 .. n PROVE b[Len(m) + i] = [role |-> "reply", turn |-> t]
  <2>1. PICK j : j = Len(m) + i
    OBVIOUS
  <2>2. j \in 1 .. Len(m) + Len(r) /\ ~(j <= Len(m)) /\ j - Len(m) = i
    BY <1>3, <1>6, <2>1
  <2> QED BY <1>3, <1>4, <1>5, <2>1, <2>2
<1>10. b \in Seq(Message) /\ Len(b) = Len(m) + n
  BY <1>3, <1>4, <1>5
<1> QED BY <1>8, <1>9, <1>10 DEF b

\* It begins with the conversation.
LEMMA SaidBegins ==
  ASSUME NEW m \in Seq(Message), NEW n \in Nat, NEW t \in TurnIds
  PROVE  \A i \in 1 .. Len(m) : Said(m, n, t)[i] = m[i]
  BY SpeechFacts, Zenon

\* The parts of a turn that its conversation is made of.
LEMMA RunTypes ==
  ASSUME TypeOK, NEW t \in TurnIds
  PROVE  /\ turn[t].input \in Seq(Message) /\ Len(turn[t].input) \in Nat
         /\ turn[t].replies \in Nat /\ turn[t].saved \in Nat /\ turn[t].session \in Sessions
<1>1. turn[t] \in Turn
  BY DEF TypeOK
<1>2. turn[t].input \in Seq(Message)
  BY <1>1 DEF Turn
<1> QED BY <1>1, <1>2 DEF Turn

\* A run begins: its user message comes after all of the ledger.
LEMMA StartRunResumes ==
  ASSUME TypeOK, TypeOK', NEW t \in TurnIds, StartRun(t), TurnFields(t),
         ResumesPart(turn[t].session),
         \A u \in TurnIds : u # t /\ turn[u].session = turn[t].session => turn[u].phase \notin InRun
  PROVE  ResumesPart(turn[t].session)'
<1>1. PICK s \in Sessions : s = turn[t].session
  BY DEF TypeOK, Turn
<1>2. PICK m, x : m = Append(msgs[s], x) /\ x = [role |-> "user", turn |-> t]
  OBVIOUS
<1>3. msgs[s] \in Seq(Message) /\ x \in Message /\ Len(msgs[s]) \in Nat
  <2>1. msgs[s] \in Seq(Message)
    BY DEF TypeOK
  <2>2. x \in Message
    BY <1>2 DEF Message
  <2> QED BY <2>1, <2>2, LenProperties
<1>4. Len(m) = Len(msgs[s]) + 1 /\ \A i \in 1 .. Len(msgs[s]) : m[i] = msgs[s][i]
  BY <1>2, <1>3, AppendProperties
<1>5. PICK b : turn' = [turn EXCEPT ![t] = [Become(t, "running") EXCEPT
                           !.run = Len(m), !.input = m, !.compacted = b]]
  BY <1>1, <1>2 DEF StartRun
<1>6. /\ turn'[t].phase = "running" /\ turn'[t].session = s /\ turn'[t].saved = turn[t].saved
      /\ turn'[t].input = m /\ \A u \in TurnIds : u # t => turn'[u] = turn[u]
  <2>1. PICK n : n = Len(m)
    OBVIOUS
  <2> QED BY <1>1, <1>5, <2>1 DEF Become, TypeOK, Turn
<1>7. turn[t].phase = "spawned" /\ turn[t].saved = 0 /\ UNCHANGED ledger
  BY DEF StartRun, TurnFields
<1>8. PICK a \in Seq(Message) : a = Projection(s) /\ a = Projection(s)'
  BY <1>7, ProjectionType DEF Projection
<1>9. PartOf(a, msgs[s], Len(msgs[s]))
  <2>1. \A u \in TurnIds : turn[u].session = s => turn[u].phase \notin InRun
    BY <1>1, <1>7 DEF InRun
  <2> QED BY <1>1, <1>8, <2>1 DEF ResumesPart
<1>10. PartOf(a, Speech(t)', Len(msgs[s]))
  <2>1. \A i \in 1 .. Len(m) : Speech(t)'[i] = m[i]
    <3>1. m \in Seq(Message) /\ turn'[t].replies = turn[t].replies /\ turn[t].replies \in Nat
      <4>1. PICK n : n = Len(m)
        OBVIOUS
      <4> QED BY <1>2, <1>3, <1>5, <4>1, AppendProperties, RunTypes DEF Become, TypeOK, Turn
    <3>2. Speech(t)' = Said(m, turn[t].replies, t)
      BY <1>6, <3>1 DEF Speech, Said
    <3>3. PICK n \in Nat : n = turn[t].replies
      BY <3>1
    <3>4. \A i \in 1 .. Len(m) : Said(m, n, t)[i] = m[i]
      BY <3>1, SaidBegins
    <3> QED BY <3>2, <3>3, <3>4
  <2>2. \A i \in 1 .. Len(msgs[s]) : Speech(t)'[i] = msgs[s][i]
    BY <1>3, <1>4, <2>1
  <2> QED BY <1>3, <1>9, <2>2, PartStays
<1>11. Len(turn'[t].input) + turn'[t].saved - 1 = Len(msgs[s])
  BY <1>3, <1>4, <1>6, <1>7
<1>12. \A u \in TurnIds : turn'[u].session = s /\ turn'[u].phase \in InRun => u = t
  BY <1>1, <1>6
<1>13. ResumesPart(s)'
  BY <1>6, <1>8, <1>10, <1>11, <1>12 DEF ResumesPart, InRun
<1> QED BY <1>1, <1>6, <1>13

\* A turn moves on in its phase, or a turn of another session moves at all.
LEMMA ResumeTurnStep ==
  ASSUME TypeOK, NEW z \in Sessions, ResumesPart(z), msgs'[z] = msgs[z], ledger'[z] = ledger[z],
         NEW t \in TurnIds, NEW k, turn' = [turn EXCEPT ![t] = k],
         \/ turn[t].session # z /\ k.session # z
         \/ turn[t].phase \notin InRun /\ k.phase \notin InRun
         \/ /\ turn[t].phase \in InRun /\ k.phase \in InRun /\ k.session = turn[t].session
            /\ k.input = turn[t].input /\ k.replies = turn[t].replies /\ k.saved = turn[t].saved
  PROVE  ResumesPart(z)'
<1>1. turn'[t] = k /\ \A u \in TurnIds : u # t => turn'[u] = turn[u]
  BY DEF TypeOK
<1>2. \A u \in TurnIds :
        /\ turn'[u].session = z /\ turn'[u].phase \in InRun <=>
             turn[u].session = z /\ turn[u].phase \in InRun
        /\ turn[u].session = z /\ turn[u].phase \in InRun =>
             /\ turn'[u].input = turn[u].input /\ turn'[u].replies = turn[u].replies
             /\ turn'[u].saved = turn[u].saved
  BY <1>1
<1> QED BY <1>2, ResumeFrame

\* What the run of a turn has said.
LEMMA SpeechType ==
  ASSUME TypeOK, NEW t \in TurnIds
  PROVE  /\ Speech(t) \in Seq(Message) /\ Len(Speech(t)) = Len(turn[t].input) + turn[t].replies
         /\ \A i \in 1 .. Len(turn[t].input) : Speech(t)[i] = turn[t].input[i]
         /\ \A i \in 1 .. turn[t].replies :
              Speech(t)[Len(turn[t].input) + i] = [role |-> "reply", turn |-> t]
<1>1. PICK m \in Seq(Message), n \in Nat : m = turn[t].input /\ n = turn[t].replies
  BY RunTypes
<1>2. Speech(t) = Said(m, n, t)
  BY <1>1 DEF Speech, Said
<1>3. /\ Said(m, n, t) \in Seq(Message) /\ Len(Said(m, n, t)) = Len(m) + n
      /\ \A i \in 1 .. Len(m) : Said(m, n, t)[i] = m[i]
      /\ \A i \in 1 .. n : Said(m, n, t)[Len(m) + i] = [role |-> "reply", turn |-> t]
  BY SpeechFacts, Zenon
<1> QED BY <1>1, <1>2, <1>3

\* A reply is said before it is saved.
LEMMA ReplyResumes ==
  ASSUME TypeOK, NEW t \in TurnIds, Reply(t), TurnFields(t), ResumesPart(turn[t].session),
         \A u \in TurnIds : u # t /\ turn[u].session = turn[t].session => turn[u].phase \notin InRun
  PROVE  ResumesPart(turn[t].session)'
<1>1. PICK s \in Sessions : s = turn[t].session
  BY DEF TypeOK, Turn
<1>2. PICK m \in Seq(Message), n \in Nat, v \in Nat :
        m = turn[t].input /\ n = turn[t].replies /\ v = turn[t].saved
  BY RunTypes
<1>3. /\ turn'[t].phase = "running" /\ turn'[t].session = s /\ turn'[t].input = m
      /\ turn'[t].replies = n + 1 /\ turn'[t].saved = v
      /\ \A u \in TurnIds : u # t => turn'[u] = turn[u]
  BY <1>1, <1>2 DEF Reply, TypeOK, Turn
<1>4. /\ turn[t].phase = "running" /\ v = 0 /\ m # <<>> /\ UNCHANGED <<msgs, ledger>>
  BY <1>2 DEF Reply, TurnFields, InRun, managers
<1>5. PICK j \in Nat : Len(m) = j + 1
  <2>1. PICK k \in Nat : k = Len(m) /\ k # 0
    BY <1>4, EmptySeq
  <2>2. k - 1 \in Nat /\ k = (k - 1) + 1
    BY <2>1
  <2> QED BY <2>1, <2>2
<1>6. PICK a \in Seq(Message) : a = Projection(s) /\ a = Projection(s)'
  BY <1>4, ProjectionType DEF Projection
<1>7. PartOf(a, Speech(t), j)
  <2>1. PartOf(a, Speech(t), Len(turn[t].input) + turn[t].saved - 1)
    BY <1>1, <1>4, <1>6 DEF ResumesPart, InRun
  <2>2. Len(turn[t].input) + turn[t].saved - 1 = j
    BY <1>2, <1>4, <1>5
  <2> QED BY <2>1, <2>2
<1>8. \A i \in 1 .. j : Speech(t)'[i] = Speech(t)[i]
  <2>1. \A i \in 1 .. Len(m) : Speech(t)[i] = m[i]
    BY <1>2, SpeechType
  <2>2. Speech(t)' = Said(m, n + 1, t)
    BY <1>3 DEF Speech, Said
  <2>3. \A i \in 1 .. Len(m) : Speech(t)'[i] = m[i]
    <3>1. PICK k \in Nat : k = n + 1
      OBVIOUS
    <3>2. \A i \in 1 .. Len(m) : Said(m, k, t)[i] = m[i]
      BY SaidBegins
    <3> QED BY <2>2, <3>1, <3>2
  <2> QED BY <1>5, <2>1, <2>3
<1>9. PartOf(a, Speech(t)', j)
  BY <1>7, <1>8, PartStays
<1>10. \A u \in TurnIds : turn'[u].session = s /\ turn'[u].phase \in InRun => u = t
  BY <1>1, <1>3
<1>11. ResumesPart(s)'
  BY <1>3, <1>4, <1>5, <1>6, <1>9, <1>10 DEF ResumesPart, InRun
<1> QED BY <1>1, <1>3, <1>11

\* The event that is saved is the next message of what the run has said, if its id
\* lets it be saved at all.
LEMMA SaveEventResumes ==
  ASSUME TypeOK, NEW t \in TurnIds, SaveEvent(t), TurnFields(t), ResumesPart(turn[t].session),
         \A u \in TurnIds : u # t /\ turn[u].session = turn[t].session => turn[u].phase \notin InRun
  PROVE  ResumesPart(turn[t].session)'
<1>1. PICK s \in Sessions : s = turn[t].session
  BY DEF TypeOK, Turn
<1>2. PICK m \in Seq(Message), n \in Nat, v \in Nat :
        m = turn[t].input /\ n = turn[t].replies /\ v = turn[t].saved
  BY RunTypes
<1>3. /\ turn'[t].phase = "saving" /\ turn'[t].session = s /\ turn'[t].input = m
      /\ turn'[t].replies = n /\ turn'[t].saved = v + 1
      /\ \A u \in TurnIds : u # t => turn'[u] = turn[u]
  BY <1>1, <1>2 DEF SaveEvent, TypeOK, Turn
<1>4. /\ turn[t].phase = "saving" /\ v <= n /\ m # <<>>
      /\ m[Len(m)] = [role |-> "user", turn |-> t] /\ UNCHANGED msgs
  BY <1>2 DEF SaveEvent, TurnFields, InRun, managers
<1>5. PICK j \in Nat : Len(m) = j + 1
  <2>1. PICK k \in Nat : k = Len(m) /\ k # 0
    BY <1>4, EmptySeq
  <2>2. k - 1 \in Nat /\ k = (k - 1) + 1
    BY <2>1
  <2> QED BY <2>1, <2>2
<1>6. PICK a \in Seq(Message) : a = Projection(s)
  BY ProjectionType
<1>7. PartOf(a, Speech(t), j + v)
  <2>1. PartOf(a, Speech(t), Len(turn[t].input) + turn[t].saved - 1)
    BY <1>1, <1>4, <1>6 DEF ResumesPart, InRun
  <2>2. Len(turn[t].input) + turn[t].saved - 1 = j + v
    <3>1. PICK k \in Nat : k = Len(m) /\ k = j + 1
      BY <1>5
    <3>2. k + v - 1 = j + v
      BY <3>1
    <3> QED BY <1>2, <3>1, <3>2
  <2> QED BY <2>1, <2>2
<1>8. Speech(t)' = Speech(t)
  BY <1>2, <1>3 DEF Speech
<1>9. PICK e : e = Event(t, v + 1)
  OBVIOUS
<1>10. e \in ConversationRow /\ Speech(t)[j + v + 1] = [role |-> e.role, turn |-> e.turn]
  <2>1. e \in ConversationRow
    <3>1. turn[t].run \in Nat /\ v + 1 \in Nat /\ (v + 1 # 1 => v + 1 - 1 \in Nat)
      BY DEF TypeOK, Turn
    <3>2. e.id \in EventId
      BY <1>9, <3>1 DEF Event, EventId
    <3> QED BY <1>9, <3>1, <3>2 DEF Event, ConversationRow
  <2>2. e.turn = t /\ e.role = IF v = 0 THEN "user" ELSE "reply"
    BY <1>9 DEF Event
  <2>3. /\ \A i \in 1 .. Len(m) : Speech(t)[i] = m[i]
        /\ \A i \in 1 .. n : Speech(t)[Len(m) + i] = [role |-> "reply", turn |-> t]
    BY <1>2, SpeechType
  <2>4. CASE v = 0
    <3>1. j + v + 1 = Len(m) /\ Len(m) \in 1 .. Len(m)
      BY <1>5, <2>4
    <3>2. Speech(t)[j + v + 1] = m[Len(m)]
      BY <2>3, <3>1
    <3> QED BY <1>4, <2>1, <2>2, <2>4, <3>2
  <2>5. CASE v # 0
    <3>1. v \in 1 .. n /\ j + v + 1 = Len(m) + v
      <4>1. v <= n
        BY <1>4
      <4>2. v \in 1 .. n
        BY <2>5, <4>1
      <4>3. j + v + 1 = (j + 1) + v
        OBVIOUS
      <4> QED BY <1>5, <4>2, <4>3
    <3>2. Speech(t)[j + v + 1] = [role |-> "reply", turn |-> t]
      BY <2>3, <3>1
    <3> QED BY <2>1, <2>2, <2>5, <3>2
  <2> QED BY <2>4, <2>5
<1>11. PartOf(Projection(s)', Speech(t), j + v + 1)
  <2>1. CASE UNCHANGED ledger
    <3>1. Projection(s)' = a
      BY <1>6, <2>1 DEF Projection
    <3>2. j + v \in Nat /\ j + v + 1 \in Nat /\ j + v <= j + v + 1
      OBVIOUS
    <3>3. PartOf(a, Speech(t), j + v + 1)
      BY <1>7, <3>2, PartStays
    <3> QED BY <3>1, <3>3
  <2>2. CASE ledger' = [ledger EXCEPT ![s] = Append(@, e)]
    <3>1. ledger'[s] = Append(ledger[s], e)
      BY <2>2 DEF TypeOK
    <3>2. Projection(s)' = Append(a, Speech(t)[j + v + 1])
      BY <1>6, <1>10, <3>1, ProjectionAppends
    <3> QED BY <1>7, <3>2, PartAppends
  <2> QED BY <1>1, <1>2, <1>9, <2>1, <2>2 DEF SaveEvent
<1>12. \A u \in TurnIds : turn'[u].session = s /\ turn'[u].phase \in InRun => u = t
  BY <1>1, <1>3
<1>13. ResumesPart(s)'
  <2>1. Len(turn'[t].input) + turn'[t].saved - 1 = j + v + 1
    BY <1>3, <1>5
  <2> QED BY <1>3, <1>8, <1>11, <1>12, <2>1 DEF ResumesPart, InRun
<1> QED BY <1>1, <1>3, <1>13

\* What the run has said becomes the conversation.
LEMMA FinalizeResumes ==
  ASSUME TypeOK, NEW t \in TurnIds, Finalize(t), ResumesPart(turn[t].session),
         ~turn[t].compacted, turn[t].outcome # "cut",
         \A u \in TurnIds : u # t /\ turn[u].session = turn[t].session => turn[u].phase \notin InRun
  PROVE  ResumesPart(turn[t].session)'
<1>1. PICK s \in Sessions : s = turn[t].session
  BY DEF TypeOK, Turn
<1>2. /\ turn[t].phase = "saving" /\ turn[t].saved = turn[t].replies + 1 /\ UNCHANGED ledger
  BY DEF Finalize
<1>3. msgs'[s] = Speech(t)
  <2>1. Conversation(t) = Speech(t)
    BY DEF Conversation, Speech, Base, Kept
  <2> QED BY <1>1, <2>1 DEF Finalize, TypeOK
<1>4. /\ turn'[t].phase = "committed" /\ turn'[t].session = s
      /\ \A u \in TurnIds : u # t => turn'[u] = turn[u]
  BY <1>1 DEF Finalize, TypeOK, Turn
<1>5. PartOf(Projection(s), Speech(t), Len(Speech(t)))
  <2>1. PartOf(Projection(s), Speech(t), Len(turn[t].input) + turn[t].saved - 1)
    BY <1>1, <1>2 DEF ResumesPart, InRun
  <2>2. Len(turn[t].input) + turn[t].saved - 1 = Len(Speech(t))
    <3>1. PICK k \in Nat, n \in Nat : k = Len(turn[t].input) /\ n = turn[t].replies
      BY RunTypes
    <3>2. Len(Speech(t)) = k + n
      BY <3>1, SpeechType
    <3> QED BY <1>2, <3>1, <3>2
  <2> QED BY <2>1, <2>2
<1>6. \A u \in TurnIds : turn'[u].session = s => turn'[u].phase \notin InRun
  BY <1>1, <1>4 DEF InRun
<1>7. Projection(s)' = Projection(s)
  BY <1>2 DEF Projection
<1>8. ResumesPart(s)'
  BY <1>3, <1>5, <1>6, <1>7 DEF ResumesPart
<1> QED BY <1>1, <1>4, <1>8

\* A manager that is resumed has the ledger's conversation, and nobody runs in its
\* session.
LEMMA ResolveResumes ==
  ASSUME TypeOK, EntryFacts, OwnedFacts, ConversationFacts, NEW c \in Clients, ResolveIdentity(c),
         NEW z \in Sessions, Owned(z), z \in loaded => ResumesPart(z), z \in loaded'
  PROVE  ResumesPart(z)'
<1>1. PICK s \in Sessions : s = req[c].session
  BY DEF TypeOK, Request
<1>2. UNCHANGED <<turn, ledger>> /\ req[c].pc = "resolve" /\ loaded' = loaded \cup {s}
      /\ msgs' = IF s \in loaded THEN msgs ELSE [msgs EXCEPT ![s] = Projection(s)]
  BY <1>1 DEF ResolveIdentity
<1>3. CASE z \in loaded
  <2>1. msgs'[z] = msgs[z] /\ ledger'[z] = ledger[z] /\ ResumesPart(z)
    BY <1>2, <1>3 DEF TypeOK
  <2> QED BY <1>2, <2>1, ResumeFrame
<1>4. CASE z \notin loaded
  <2>1. z = s
    BY <1>2, <1>4
  <2>2. \A t \in TurnIds : turn'[t].session = s => turn'[t].phase \notin InRun
    BY <1>1, <1>2, <2>1, RequestIsAlone DEF InRun, LivePhases
  <2>3. PICK a \in Seq(Message) : a = Projection(s) /\ a = Projection(s)'
    BY <1>2, ProjectionType DEF Projection
  <2>4. msgs'[s] = a
    BY <1>2, <1>4, <2>1, <2>3 DEF TypeOK
  <2>5. PartOf(a, a, Len(a))
    BY PartOfItself
  <2> QED BY <2>1, <2>2, <2>3, <2>4, <2>5 DEF ResumesPart
<1> QED BY <1>3, <1>4

\* Nothing is loaded at first.
LEMMA ResumeInit == Init => ResumeFacts
<1> SUFFICES ASSUME Init PROVE ResumeFacts
  OBVIOUS
<1>1. \A t \in TurnIds : turn[t] = UnusedTurn
  BY DEF Init
<1>2. \A t \in TurnIds : TurnFields(t)
  <2>1. UnusedTurn.phase = "unused"
    BY DEF UnusedTurn
  <2> QED BY <1>1, <2>1 DEF TurnFields, InRun
<1> QED BY <1>2 DEF Init, ResumeFacts

\* One turn of an owned session steps.
LEMMA DrainResumes ==
  ASSUME TypeOK, TypeOK', EntryFacts, OwnedFacts, ConversationFacts, NEW t \in TurnIds, DrainStep(t),
         TurnFields(t), NEW z \in Sessions, Owned(z), Pristine(z), ResumesPart(z)
  PROVE  ResumesPart(z)'
<1>1. turn \in [TurnIds -> Turn] /\ turn[t] \in Turn
  BY DEF TypeOK
<1>2. ASSUME NEW k, turn' = [turn EXCEPT ![t] = k], k.session = turn[t].session,
             UNCHANGED <<msgs, ledger>>,
             \/ turn[t].phase \notin InRun /\ k.phase \notin InRun
             \/ /\ turn[t].phase \in InRun /\ k.phase \in InRun
                /\ k.input = turn[t].input /\ k.replies = turn[t].replies /\ k.saved = turn[t].saved
      PROVE  ResumesPart(z)'
  BY <1>2, ResumeTurnStep
<1>3. CASE EndRun(t)
  <2>1. PICK o : turn' = [turn EXCEPT ![t] = [Become(t, "ended") EXCEPT !.outcome = o]]
    BY <1>3 DEF EndRun
  <2> DEFINE k == [Become(t, "ended") EXCEPT !.outcome = o]
  <2>2. k.session = turn[t].session /\ k.phase = "ended" /\ k.input = turn[t].input
        /\ k.replies = turn[t].replies /\ k.saved = turn[t].saved
    BY <1>1 DEF Become, Turn
  <2>3. turn' = [turn EXCEPT ![t] = k] /\ turn[t].phase = "running" /\ UNCHANGED <<msgs, ledger>>
    BY <1>3, <2>1 DEF EndRun, managers
  <2> HIDE DEF k
  <2> QED BY <1>2, <2>2, <2>3 DEF InRun
<1>4. CASE BeginFinalize(t)
  <2> DEFINE k == [turn[t] EXCEPT !.phase = "saving"]
  <2>2. k.session = turn[t].session /\ k.phase = "saving" /\ k.input = turn[t].input
        /\ k.replies = turn[t].replies /\ k.saved = turn[t].saved
    BY <1>1 DEF Turn
  <2>3. turn' = [turn EXCEPT ![t] = k] /\ turn[t].phase = "ended" /\ UNCHANGED <<msgs, ledger>>
    BY <1>4 DEF BeginFinalize
  <2> HIDE DEF k
  <2> QED BY <1>2, <2>2, <2>3 DEF InRun
<1>5. CASE Release(t)
  <2> DEFINE k == Remains(t, "finished")
  <2>2. k.session = turn[t].session /\ k.phase = "finished"
    BY <1>1 DEF Become, Remains, Turn
  <2>3. turn' = [turn EXCEPT ![t] = k] /\ turn[t].phase = "committed" /\ UNCHANGED <<msgs, ledger>>
    BY <1>5 DEF Release, managers
  <2> HIDE DEF k
  <2> QED BY <1>2, <2>2, <2>3 DEF InRun
<1>6. ASSUME StartRun(t) \/ Reply(t) \/ SaveEvent(t) \/ Finalize(t) PROVE ResumesPart(z)'
  <2>1. CASE turn[t].session = z
    <3>1. turn[t].phase \in LivePhases
      BY <1>6 DEF StartRun, Reply, SaveEvent, Finalize, LivePhases
    <3>2. \A u \in TurnIds : u # t /\ turn[u].session = turn[t].session => turn[u].phase \notin InRun
      BY <2>1, <3>1, TurnIsAlone DEF InRun, LivePhases
    <3>3. ~turn[t].compacted /\ turn[t].outcome # "cut"
      BY <2>1 DEF Pristine
    <3>4. ResumesPart(turn[t].session)'
      BY <1>6, <2>1, <3>2, <3>3, StartRunResumes, ReplyResumes, SaveEventResumes, FinalizeResumes
    <3>5. turn'[t].session = turn[t].session
      <4>1. CASE StartRun(t)
        <5>1. PICK n, m, b : turn' = [turn EXCEPT ![t] = [Become(t, "running") EXCEPT
                               !.run = n, !.input = m, !.compacted = b]]
          BY <4>1 DEF StartRun
        <5> QED BY <1>1, <5>1 DEF Become, Turn
      <4>2. CASE ~StartRun(t)
        BY <1>1, <1>6, <4>2 DEF Reply, SaveEvent, Finalize, Turn
      <4> QED BY <4>1, <4>2
    <3> QED BY <2>1, <3>4, <3>5
  <2>2. CASE turn[t].session # z
    <3>1. PICK s \in Sessions : s = turn[t].session
      BY <1>1 DEF Turn
    <3>2. msgs'[z] = msgs[z] /\ ledger'[z] = ledger[z]
      <4>1. CASE StartRun(t)
        <5>1. (\E m : msgs' = [msgs EXCEPT ![s] = m]) /\ UNCHANGED ledger
          BY <3>1, <4>1 DEF StartRun
        <5> QED BY <2>2, <3>1, <5>1 DEF TypeOK
      <4>2. CASE Reply(t)
        BY <4>2 DEF Reply, managers
      <4>3. CASE SaveEvent(t)
        <5>1. UNCHANGED msgs /\ (UNCHANGED ledger \/ \E l : ledger' = [ledger EXCEPT ![s] = l])
          BY <3>1, <4>3 DEF SaveEvent, managers
        <5> QED BY <2>2, <3>1, <5>1 DEF TypeOK
      <4>4. CASE Finalize(t)
        <5>1. (\E m : msgs' = [msgs EXCEPT ![s] = m]) /\ UNCHANGED ledger
          BY <3>1, <4>4 DEF Finalize
        <5> QED BY <2>2, <3>1, <5>1 DEF TypeOK
      <4> QED BY <1>6, <4>1, <4>2, <4>3, <4>4
    <3>3. PICK k : turn' = [turn EXCEPT ![t] = k] /\ k.session = turn[t].session
      <4>1. CASE StartRun(t)
        <5>1. PICK n, m, b : turn' = [turn EXCEPT ![t] = [Become(t, "running") EXCEPT
                               !.run = n, !.input = m, !.compacted = b]]
          BY <4>1 DEF StartRun
        <5> DEFINE h == [Become(t, "running") EXCEPT !.run = n, !.input = m, !.compacted = b]
        <5>2. h.session = turn[t].session
          BY <1>1 DEF Become, Turn
        <5> HIDE DEF h
        <5>3. turn' = [turn EXCEPT ![t] = h]
          BY <5>1 DEF h
        <5> QED BY <5>2, <5>3
      <4>2. CASE Reply(t)
        <5> DEFINE h == [turn[t] EXCEPT !.replies = @ + 1]
        <5>2. h.session = turn[t].session /\ turn' = [turn EXCEPT ![t] = h]
          BY <1>1, <4>2 DEF Reply, Turn
        <5> QED BY <5>2
      <4>3. CASE SaveEvent(t)
        <5> DEFINE h == [turn[t] EXCEPT !.saved = @ + 1]
        <5>2. h.session = turn[t].session /\ turn' = [turn EXCEPT ![t] = h]
          BY <1>1, <4>3 DEF SaveEvent, Turn
        <5> QED BY <5>2
      <4>4. CASE Finalize(t)
        <5> DEFINE h == [turn[t] EXCEPT !.phase = "committed"]
        <5>2. h.session = turn[t].session /\ turn' = [turn EXCEPT ![t] = h]
          BY <1>1, <4>4 DEF Finalize, Turn
        <5> QED BY <5>2
      <4> QED BY <1>6, <4>1, <4>2, <4>3, <4>4
    <3> QED BY <2>2, <3>2, <3>3, ResumeTurnStep
  <2> QED BY <2>1, <2>2
<1> QED BY <1>3, <1>4, <1>5, <1>6 DEF DrainStep

\* Every step keeps the ledger a part of the conversation.
LEMMA ResumeNext ==
  ASSUME TypeOK, TypeOK', EntryFacts, OwnedFacts, ConversationFacts, ResumeFacts, [Next]_vars
  PROVE  ResumeFacts'
<1>1. \A t \in TurnIds : TurnFields(t)
  BY DEF ResumeFacts
<1>2. \A t \in TurnIds : TurnFields(t)'
  BY <1>1, FieldsNext
<1>3. ASSUME NEW z \in loaded', Owned(z), Pristine(z)' PROVE ResumesPart(z)'
  <2>1. z \in Sessions
    BY DEF TypeOK
  <2>2. Pristine(z)
    BY <1>1, <1>3, MarksStay
  <2>3. z \in loaded => ResumesPart(z)
    BY <1>3, <2>2 DEF ResumeFacts
  <2>4. turn \in [TurnIds -> Turn]
    BY DEF TypeOK
  <2>5. ASSUME UNCHANGED <<turn, loaded, msgs, ledger>> PROVE ResumesPart(z)'
    BY <1>3, <2>1, <2>3, <2>5, ResumeFrame
  <2>6. ASSUME NEW c \in Clients, Admit(c) PROVE ResumesPart(z)'
    <3>1. PICK t \in TurnIds : t = admitted + 1
      BY <2>6 DEF Admit
    <3> DEFINE k == [UnusedTurn EXCEPT !.phase = "admitted", !.session = req[c].session,
                                       !.told = req[c].n]
    <3>2. /\ turn' = [turn EXCEPT ![t] = k] /\ UNCHANGED <<loaded, msgs, ledger>>
      BY <2>6, <3>1 DEF Admit, managers
    <3>3. k.phase = "admitted"
      BY DEF UnusedTurn
    <3>4. turn[t].phase = "unused"
      <4>1. t > admitted
        BY <3>1 DEF TypeOK
      <4> QED BY <4>1 DEF EntryFacts, Fresh
    <3> HIDE DEF k
    <3> QED BY <1>3, <2>1, <2>3, <3>2, <3>3, <3>4, ResumeTurnStep DEF InRun
  <2>7. ASSUME NEW c \in Clients, Spawn(c) PROVE ResumesPart(z)'
    <3>1. PICK t \in TurnIds : t = req[c].turn /\ turn[t].phase = "admitted"
      BY <2>7 DEF Spawn, EntryFacts, RequestOwnsAdmission
    <3> DEFINE k == [turn[t] EXCEPT !.phase = "spawned"]
    <3>2. /\ turn' = [turn EXCEPT ![t] = k] /\ UNCHANGED <<loaded, msgs, ledger>>
      BY <2>7, <3>1 DEF Spawn, managers
    <3>3. k.phase = "spawned"
      BY <2>4 DEF Turn
    <3> HIDE DEF k
    <3> QED BY <1>3, <2>1, <2>3, <3>1, <3>2, <3>3, ResumeTurnStep DEF InRun
  <2>8. ASSUME NEW c \in Clients, NEW s \in Sessions, StopTurn(c, s) PROVE ResumesPart(z)'
    <3>1. PICK t \in TurnIds : t = active[s]
      BY <2>8 DEF StopTurn, TypeOK
    <3> DEFINE k == [turn[t] EXCEPT !.stop = TRUE]
    <3>2. /\ turn' = [turn EXCEPT ![t] = k] /\ UNCHANGED <<loaded, msgs, ledger>>
      BY <2>8, <3>1 DEF StopTurn, managers
    <3>3. k.phase = turn[t].phase /\ k.session = turn[t].session /\ k.input = turn[t].input
          /\ k.replies = turn[t].replies /\ k.saved = turn[t].saved
      BY <2>4 DEF Turn
    <3> HIDE DEF k
    <3> QED BY <1>3, <2>1, <2>3, <3>2, <3>3, ResumeTurnStep
  <2>9. ASSUME NEW t \in TurnIds, DrainStep(t) PROVE ResumesPart(z)'
    <3>1. UNCHANGED loaded
      BY <2>9 DEF DrainStep, StartRun, Reply, EndRun, BeginFinalize, SaveEvent, Finalize, Release,
         managers
    <3> QED BY <1>1, <1>3, <2>1, <2>2, <2>3, <2>9, <3>1, DrainResumes
  <2>10. CASE \E c \in Clients : RequestStep(c)
    BY <1>3, <2>1, <2>3, <2>5, <2>6, <2>7, <2>10, ResolveResumes DEF RequestStep, CheckActive,
       CheckCatalog, ReadTip, managers
  <2>11. CASE \E c \in Clients, s \in Sessions : StartRequest(c, s) \/ StopTurn(c, s)
    BY <2>5, <2>8, <2>11 DEF StartRequest, managers
  <2>12. CASE (\E s \in Sessions : SetLifecycle(s)) \/ Tick \/ UNCHANGED vars
    BY <2>5, <2>12 DEF SetLifecycle, Tick, vars, managers
  <2>13. CASE Crash
    BY <1>3, <2>13 DEF Crash
  <2> QED BY <2>9, <2>10, <2>11, <2>12, <2>13 DEF Next, SteadyNext
<1>4. \A z \in loaded' : Owned(z) /\ Pristine(z)' => ResumesPart(z)'
  BY <1>3
<1> QED BY <1>2, <1>4 DEF ResumeFacts, Owned

\* In a session one connection uses, between turns and as long as nothing was compacted
\* or cut, a host that died now would resume a part of the conversation it held, in its
\* order: events that are lost to a taken id leave gaps, never a message out of place.
THEOREM ResumeAlwaysPart == Spec => []ResumeIsPartOfConversation
<1>1. Init => EntryFacts /\ OwnedFacts /\ ConversationFacts /\ ResumeFacts
  BY EntryInit, OwnedInit, ConversationInit, ResumeInit
<1>2. TypeOK /\ TypeOK' /\ EntryFacts /\ OwnedFacts /\ ConversationFacts /\ ResumeFacts /\ [Next]_vars
        => EntryFacts' /\ OwnedFacts' /\ ConversationFacts' /\ ResumeFacts'
  BY EntryNext, OwnedNext, ConversationNext, ResumeNext
<1>3. TypeOK /\ ResumeFacts => ResumeIsPartOfConversation
  <2> SUFFICES ASSUME TypeOK, ResumeFacts, NEW s \in loaded, Owned(s),
                      \A t \in TurnIds : turn[t].session = s =>
                         /\ turn[t].phase \notin {"running", "ended", "saving"}
                         /\ ~turn[t].compacted /\ turn[t].outcome # "cut"
               PROVE  Subsequence(Projection(s), msgs[s])
    BY DEF ResumeIsPartOfConversation
  <2>1. PartOf(Projection(s), msgs[s], Len(msgs[s]))
    BY DEF ResumeFacts, ResumesPart, Pristine, InRun
  <2>2. DOMAIN msgs[s] = 1 .. Len(msgs[s])
    <3>1. msgs[s] \in Seq(Message)
      BY DEF TypeOK
    <3> QED BY <3>1, LenProperties
  <2> QED BY <2>1, <2>2 DEF PartOf, Subsequence
<1> QED BY <1>1, <1>2, <1>3, TypeCorrect, PTL DEF Spec

-----------------------------------------------------------------------------
(* ITS COMPOSITION WITH RESUME REQUESTS *)

\* What the theorems above show of the coordinator.
Coordinated == TypeOK /\ EntryFacts /\ ChainFacts /\ OwnedFacts /\ ConversationFacts

LEMMA CoordinatedStep ==
  ASSUME Coordinated, [Next]_vars
  PROVE  Coordinated'
<1>1. TypeOK'
  BY TypeNext DEF Coordinated
<1> QED BY <1>1, EntryNext, ChainNext, OwnedNext, ConversationNext DEF Coordinated

\* Every step is one of the coordinator's, loads a session, or records a claim.
LEMMA StepKinds ==
  ASSUME [ContinuationNext]_allVars
  PROVE  [Next]_vars \/ \E c \in Clients : NumberTarget(c) \/ RecordClaim(c)
<1>1. CASE UNCHANGED allVars
  BY <1>1 DEF allVars
<1>2. CASE \E c \in Clients, s \in Sessions :
             StartFresh(c, s) \/ StopRunning(c, s) \/ \E n \in Counts : RequestResume(c, s, n)
  BY <1>2 DEF StartFresh, StopRunning, RequestResume, Next, SteadyNext
<1>3. CASE \E c \in Clients : ResumeStep(c)
  BY <1>3 DEF ResumeStep, ReadSource, CountEvents, ReadContent, ReadPrefix
<1>4. CASE \E c \in Clients : BeginStep(c)
  BY <1>4 DEF BeginStep, Next, SteadyNext
<1>5. CASE \E t \in TurnIds : Drain(t)
  BY <1>5 DEF Drain, Next, SteadyNext
<1>6. CASE Environment \/ Die
  BY <1>6 DEF Environment, Die, Next, SteadyNext
<1> QED BY <1>1, <1>2, <1>3, <1>4, <1>5, <1>6 DEF ContinuationNext

\* A session is loaded while a resume request numbers its target.
LEMMA NumberTargetKeeps ==
  ASSUME Coordinated, ResumeTypeOK, UsedIsLoaded, NEW c \in Clients, NumberTarget(c)
  PROVE  Coordinated'
<1>1. PICK s \in Sessions : s = resume[c].claim.session
  BY DEF ResumeTypeOK, Resume, Claim
<1>2. /\ loaded' = loaded \cup {s}
      /\ msgs' = IF s \in loaded THEN msgs ELSE [msgs EXCEPT ![s] = Projection(s)]
      /\ UNCHANGED <<catalog, active, holder, chain, ledger, terminals, req, turn, admitted, clock, crashes>>
  BY <1>1 DEF NumberTarget
<1>3. TypeOK
  BY DEF Coordinated
<1>4. TypeOK'
  <2>1. Projection(s) \in Seq(Message)
    BY <1>3, ProjectionType
  <2>2. msgs' \in [Sessions -> Seq(Message)] /\ loaded' \subseteq Sessions
    BY <1>2, <1>3, <2>1 DEF TypeOK
  <2> QED BY <1>2, <1>3, <2>2 DEF TypeOK
<1>5. EntryFacts'
  BY <1>2, EntryFrame DEF Coordinated
<1>6. ChainFacts'
  BY <1>2, ChainFrame DEF Coordinated
<1>7. OwnedFacts'
  BY <1>2, OwnedTurnStep DEF Coordinated
<1>8. ConversationFacts'
  <2>1. CASE s \in loaded
    BY <1>2, <2>1 DEF Coordinated, ConversationFacts, AdmittedIsRequested, OwnedIsNumbered, ToldIsRun,
       NoLostUpdate, Owned
  <2>2. CASE s \notin loaded
    <3>1. \A z \in Sessions : z # s => msgs'[z] = msgs[z]
      BY <1>2, <1>3 DEF TypeOK
    <3>2. \A d \in Clients : req'[d] = req[d] /\ (req[d].session = s => req[d].pc \notin {"tip", "admit"})
      BY <1>2, <2>2 DEF UsedIsLoaded
    <3>3. \A u \in TurnIds : /\ turn'[u] = turn[u]
                             /\ turn[u].session = s =>
                                  turn[u].phase \notin LivePhases /\ turn[u].phase # "admitted"
      BY <1>2, <2>2 DEF UsedIsLoaded, Live
    <3> QED BY <1>4, <3>1, <3>2, <3>3, ConversationUpdate DEF Coordinated
  <2> QED BY <2>1, <2>2
<1> QED BY <1>4, <1>5, <1>6, <1>7, <1>8 DEF Coordinated

\* A claim becomes a turn request, as turn.start makes one.
LEMMA RecordClaimKeeps ==
  ASSUME Coordinated, ResumeTypeOK, OneRequest, NEW c \in Clients, RecordClaim(c)
  PROVE  Coordinated'
<1>1. PICK s \in Sessions : s = resume[c].claim.session
  BY DEF ResumeTypeOK, Resume, Claim
<1>2. PICK r : r = [Idle EXCEPT !.pc = "active", !.session = s]
  OBVIOUS
<1>3. /\ req' = [req EXCEPT ![c] = r] /\ resume[c].pc = "claim"
      /\ UNCHANGED <<catalog, active, loaded, msgs, holder, chain, ledger, terminals, turn, admitted, clock, crashes>>
  BY <1>1, <1>2 DEF RecordClaim, managers
<1>4. req[c].pc = "idle" /\ <<c, s>> \in MayUse
  BY <1>1, <1>3 DEF OneRequest
<1>5. r \in Request /\ r.pc = "active" /\ r.session = s
  BY <1>2, IdleType DEF Request, Idle
<1>6. TypeOK
  BY DEF Coordinated
<1>7. TypeOK' /\ \A d \in Clients : req'[d] = IF d = c THEN r ELSE req[d]
  BY <1>3, <1>5, <1>6 DEF TypeOK
<1>8. EntryFacts'
  BY <1>3, <1>5, <1>7, EntryFrame DEF Coordinated
<1>9. ChainFacts'
  BY <1>3, <1>5, <1>7, ChainFrame DEF Coordinated
<1>10. OwnedFacts'
  BY <1>3, <1>4, <1>5, OwnedRequestStep DEF Coordinated
<1>11. ConversationFacts'
  BY <1>3, <1>4, <1>5, <1>7, ConversationRequestStep DEF Coordinated, Numbered
<1> QED BY <1>7, <1>8, <1>9, <1>10, <1>11 DEF Coordinated

\* So what is proved of the coordinator holds of it under resume requests.
LEMMA CoordinatedNext ==
  ASSUME Coordinated, ResumeTypeOK, OneRequest, UsedIsLoaded, [ContinuationNext]_allVars
  PROVE  Coordinated'
  BY StepKinds, CoordinatedStep, NumberTargetKeeps, RecordClaimKeeps

-----------------------------------------------------------------------------
(* The resume requests: their types, and what they find in memory.         *)

\* A turn that was admitted keeps its identity.
LEMMA TurnStays ==
  ASSUME TypeOK, EntryFacts, [Next]_vars, NEW t \in TurnIds, turn[t].phase # "unused"
  PROVE  turn'[t].phase # "unused" /\ turn'[t].told = turn[t].told /\ turn'[t].session = turn[t].session
<1> DEFINE Same == turn'[t].phase # "unused" /\ turn'[t].told = turn[t].told
                   /\ turn'[t].session = turn[t].session
<1>1. turn \in [TurnIds -> Turn] /\ turn[t] \in Turn
  BY DEF TypeOK
<1>2. CASE UNCHANGED turn
  BY <1>2
<1>3. ASSUME NEW c \in Clients, NEW s \in Sessions, StopTurn(c, s) PROVE Same
  BY <1>1, <1>3 DEF StopTurn, Turn
<1>4. ASSUME NEW c \in Clients, Admit(c) PROVE Same
  <2>1. admitted + 1 # t
    BY DEF TypeOK, EntryFacts, Fresh
  <2>2. turn'[t] = turn[t]
    BY <1>1, <1>4, <2>1 DEF Admit
  <2> QED BY <2>2
<1>5. ASSUME NEW c \in Clients, Spawn(c) PROVE Same
  BY <1>1, <1>5 DEF Spawn, Turn
<1>6. ASSUME NEW u \in TurnIds, StartRun(u) PROVE Same
  <2>1. PICK m, n, b : turn' = [turn EXCEPT ![u] = [Become(u, "running") EXCEPT
                     !.run = n, !.input = m, !.compacted = b]]
    BY <1>6 DEF StartRun
  <2> QED BY <1>1, <2>1 DEF Become, Turn
<1>7. ASSUME NEW u \in TurnIds, Reply(u) PROVE Same
  BY <1>1, <1>7 DEF Reply, Turn
<1>8. ASSUME NEW u \in TurnIds, EndRun(u) PROVE Same
  BY <1>1, <1>8 DEF EndRun, Turn, Become
<1>9. ASSUME NEW u \in TurnIds, BeginFinalize(u) PROVE Same
  BY <1>1, <1>9 DEF BeginFinalize, Turn
<1>10. ASSUME NEW u \in TurnIds, SaveEvent(u) PROVE Same
  BY <1>1, <1>10 DEF SaveEvent, Turn
<1>11. ASSUME NEW u \in TurnIds, Finalize(u) PROVE Same
  BY <1>1, <1>11 DEF Finalize, Turn
<1>12. ASSUME NEW u \in TurnIds, Release(u) PROVE Same
  BY <1>1, <1>12 DEF Release, Turn, Remains, Become
<1>13. CASE Crash
  BY <1>1, <1>13 DEF Crash, Remains, Become, Turn
<1> QED
  <2>1. CASE \E c \in Clients : RequestStep(c)
    BY <1>2, <1>4, <1>5, <2>1 DEF RequestStep, CheckActive, CheckCatalog, ResolveIdentity, ReadTip
  <2>2. CASE \E u \in TurnIds : DrainStep(u)
    BY <1>6, <1>7, <1>8, <1>9, <1>10, <1>11, <1>12, <2>2, Zenon DEF DrainStep
  <2>3. CASE \E c \in Clients, s \in Sessions : StartRequest(c, s) \/ StopTurn(c, s)
    BY <1>2, <1>3, <2>3 DEF StartRequest
  <2>4. CASE (\E s \in Sessions : SetLifecycle(s)) \/ Tick \/ UNCHANGED vars
    BY <1>2, <2>4 DEF SetLifecycle, Tick, vars
  <2> QED BY <1>13, <2>1, <2>2, <2>3, <2>4 DEF Next, SteadyNext

-----------------------------------------------------------------------------
(* The store.  The events of a run are finitely many, and only grow.       *)

LEMMA IdsFinite ==
  ASSUME NEW S, IsFiniteSet(S)
  PROVE  IsFiniteSet({e.id : e \in S})
<1>1. PICK f : f = [e \in S |-> e.id]
  OBVIOUS
<1>2. f \in Surjection(S, {e.id : e \in S})
  BY <1>1 DEF Surjection
<1> QED BY <1>2, FS_Surjection

\* The events of a run in a ledger and in a set of T.
EventsIn(l, T, s, n) ==
    {e.id : e \in {l[i] : i \in {j \in DOMAIN l : l[j].run = n}}}
    \cup {e.id : e \in {r \in T : r.session = s /\ r.run = n}}

LEMMA EventsInFinite ==
  ASSUME NEW l \in Seq(ConversationRow), NEW T \in SUBSET TerminalRow, IsFiniteSet(T), NEW s, NEW n
  PROVE  /\ IsFiniteSet(EventsIn(l, T, s, n))
         /\ Cardinality(EventsIn(l, T, s, n)) \in Nat
         /\ EventsIn(l, T, s, n) \subseteq EventId
<1> DEFINE J == {j \in DOMAIN l : l[j].run = n}
<1>1. l \in Seq(ConversationRow)
  OBVIOUS
<1>2. DOMAIN l = 1 .. Len(l) /\ Len(l) \in Nat
  BY <1>1
<1>3. IsFiniteSet(J)
  <2>1. J \in SUBSET (1 .. Len(l))
    BY <1>2
  <2>2. IsFiniteSet(1 .. Len(l))
    BY <1>2, FS_Interval
  <2> QED BY <2>1, <2>2, FS_Subset
<1>4. PICK f : f = [i \in J |-> l[i]]
  OBVIOUS
<1>5. f \in Surjection(J, {l[i] : i \in J})
  BY <1>4 DEF Surjection
<1>6. IsFiniteSet({l[i] : i \in J})
  BY <1>3, <1>5, FS_Surjection
<1>7. IsFiniteSet({r \in T : r.session = s /\ r.run = n})
  BY FS_Subset
<1>8. EventsIn(l, T, s, n) = {e.id : e \in {l[i] : i \in J}}
                       \cup {e.id : e \in {r \in T : r.session = s /\ r.run = n}}
  BY DEF EventsIn
<1>9. IsFiniteSet(EventsIn(l, T, s, n))
  <2>1. IsFiniteSet({e.id : e \in {l[i] : i \in J}})
    BY <1>6, IdsFinite, Zenon
  <2>2. IsFiniteSet({e.id : e \in {r \in T : r.session = s /\ r.run = n}})
    BY <1>7, IdsFinite, Zenon
  <2>3. \A A, B : IsFiniteSet(A) /\ IsFiniteSet(B) => IsFiniteSet(A \cup B)
    BY FS_Union
  <2>4. PICK A, B : /\ A = {e.id : e \in {l[i] : i \in J}}
                    /\ B = {e.id : e \in {r \in T : r.session = s /\ r.run = n}}
    OBVIOUS
  <2>5. IsFiniteSet(A) /\ IsFiniteSet(B) /\ EventsIn(l, T, s, n) = A \cup B
    BY <1>8, <2>1, <2>2, <2>4, Zenon
  <2> QED BY <2>3, <2>5
<1>10. EventsIn(l, T, s, n) \subseteq EventId
  <2>1. \A i \in J : l[i] \in ConversationRow
    BY <1>1
  <2>2. T \subseteq TerminalRow
    OBVIOUS
  <2> QED BY <1>8, <2>1, <2>2 DEF ConversationRow, TerminalRow
<1> QED BY <1>9, <1>10, FS_CardinalityType

\* The store's, before a step and after it.
LEMMA EventsFinite ==
  ASSUME TypeOK, IsFiniteSet(terminals), NEW s \in Sessions, NEW n
  PROVE  /\ IsFiniteSet(EventsOf(s, n))
         /\ Cardinality(EventsOf(s, n)) \in Nat
         /\ EventsOf(s, n) \subseteq EventId
<1>1. ledger[s] \in Seq(ConversationRow) /\ terminals \in SUBSET TerminalRow
  BY DEF TypeOK
<1>2. EventsOf(s, n) = EventsIn(ledger[s], terminals, s, n)
  BY DEF EventsOf, EventsIn
<1> QED BY <1>1, <1>2, EventsInFinite

LEMMA EventsFiniteNext ==
  ASSUME TypeOK', IsFiniteSet(terminals'), NEW s \in Sessions, NEW n
  PROVE  IsFiniteSet(EventsOf(s, n)') /\ Cardinality(EventsOf(s, n)') \in Nat
<1>1. ledger'[s] \in Seq(ConversationRow) /\ terminals' \in SUBSET TerminalRow
  BY DEF TypeOK
<1>2. EventsOf(s, n)' = EventsIn(ledger'[s], terminals', s, n)
  BY DEF EventsOf, EventsIn
<1> QED BY <1>1, <1>2, EventsInFinite

\* A step adds a terminal at most, and changes no event of a run.
LEMMA EventsGrow ==
  ASSUME TypeOK, IsFiniteSet(terminals), [ContinuationNext]_allVars
  PROVE  /\ IsFiniteSet(terminals')
         /\ \A s \in Sessions : \A n : EventsOf(s, n) \subseteq EventsOf(s, n)'
<1>1. CASE [Next]_vars
  <2>1. terminals' = terminals \/ \E x : terminals' = terminals \cup {x}
    BY <1>1 DEF Next, SteadyNext, RequestStep, DrainStep, StartRequest, StopTurn, CheckActive,
       CheckCatalog, ResolveIdentity, ReadTip, Admit, Spawn, StartRun, Reply, EndRun, BeginFinalize,
       SaveEvent, Finalize, Release, SetLifecycle, Tick, Crash, store, vars
  <2>2. IsFiniteSet(terminals')
    BY <2>1, FS_AddElement
  <2>3. /\ terminals \subseteq terminals'
        /\ \A s \in Sessions : \A i \in DOMAIN ledger[s] :
             i \in DOMAIN ledger'[s] /\ ledger'[s][i] = ledger[s][i]
    BY <1>1, StoreGrows
  <2>4. ASSUME NEW s \in Sessions, NEW n, NEW x \in EventsOf(s, n) PROVE x \in EventsOf(s, n)'
    <3>1. CASE \E e \in {ledger[s][i] : i \in {j \in DOMAIN ledger[s] : ledger[s][j].run = n}} : x = e.id
      <4>1. PICK i \in DOMAIN ledger[s] : ledger[s][i].run = n /\ x = ledger[s][i].id
        BY <3>1
      <4>2. i \in DOMAIN ledger'[s] /\ ledger'[s][i].run = n /\ x = ledger'[s][i].id
        BY <2>3, <4>1
      <4> QED BY <4>2 DEF EventsOf
    <3>2. CASE \E e \in {r \in terminals : r.session = s /\ r.run = n} : x = e.id
      BY <2>3, <3>2 DEF EventsOf
    <3> QED BY <2>4, <3>1, <3>2 DEF EventsOf
  <2> QED BY <2>2, <2>4
<1>2. CASE \E c \in Clients : NumberTarget(c) \/ RecordClaim(c)
  BY <1>2 DEF NumberTarget, RecordClaim, EventsOf
<1> QED BY <1>1, <1>2, StepKinds

-----------------------------------------------------------------------------
(* What a step does to the resume requests.                                *)

LEMMA NoResumeType == NoClaim \in Claim /\ NoResume \in Resume
<1>1. NoClaim \in Claim
  BY AnySessionType DEF NoClaim, Claim
<1> QED BY <1>1 DEF NoResume, Resume, NoTurn

\* Only the request of one connection is changed.
Alters(c, k) ==
    /\ k \in Resume
    /\ resume' = [resume EXCEPT ![c] = k]

LEMMA RequestResumeEffect ==
  ASSUME ResumeTypeOK, NEW c \in Clients, NEW s \in Sessions, NEW n \in Counts, RequestResume(c, s, n)
  PROVE  \E k : /\ Alters(c, k)
                /\ k.pc = "tip" /\ k.quiet = (active[s] = NoTurn) /\ k.claim.session = s
<1>1. n \in Nat
  BY CoordinatorAssumption DEF Counts
<1>2. PICK q \in BOOLEAN : q = (active[s] = NoTurn)
  OBVIOUS
<1>3. PICK k : k = [NoResume EXCEPT !.pc = "tip", !.highWater = n, !.quiet = q, !.claim.session = s]
  OBVIOUS
<1>4. k \in Resume /\ k.pc = "tip" /\ k.quiet = q /\ k.claim.session = s
  BY <1>1, <1>3, NoResumeType DEF Resume, Claim
<1>5. resume' = [resume EXCEPT ![c] = k]
  BY <1>2, <1>3 DEF RequestResume
<1> QED BY <1>2, <1>4, <1>5 DEF Alters

LEMMA ReadSourceEffect ==
  ASSUME TypeOK, ResumeTypeOK, NEW c \in Clients, ReadSource(c)
  PROVE  \E k : /\ Alters(c, k)
                /\ \/ k = NoResume
                   \/ /\ k.pc = "count" /\ k.quiet = resume[c].quiet
                      /\ k.claim.session = resume[c].claim.session
                      /\ Rows(k.claim.session) # {}
                      /\ k.claim.run = Tip(k.claim.session).turn
<1>1. PICK r \in Resume : r = resume[c]
  BY DEF ResumeTypeOK
<1>2. PICK s \in Sessions : s = r.claim.session
  BY DEF Resume, Claim
<1>3. CASE Rows(s) = {}
  BY <1>1, <1>2, <1>3, NoResumeType DEF ReadSource, Park, Alters
<1>4. CASE Rows(s) # {}
  <2>1. Tip(s) \in AdmissionRow
    BY <1>4, TipIsRow DEF TypeOK, Rows
  <2>2. PICK n \in Nat : n = Tip(s).turn
    BY <2>1 DEF AdmissionRow
  <2>3. PICK k : k = [r EXCEPT !.pc = "count", !.claim.run = n]
    OBVIOUS
  <2>4. k \in Resume /\ k.pc = "count" /\ k.quiet = r.quiet /\ k.claim.session = s /\ k.claim.run = n
    BY <1>2, <2>3 DEF Resume, Claim
  <2>5. resume' = [resume EXCEPT ![c] = k]
    BY <1>1, <1>2, <1>4, <2>2, <2>3 DEF ReadSource
  <2> QED BY <1>1, <1>2, <1>4, <2>2, <2>4, <2>5 DEF Alters
<1> QED BY <1>3, <1>4

LEMMA CountEventsEffect ==
  ASSUME TypeOK, ResumeTypeOK, IsFiniteSet(terminals), NEW c \in Clients, CountEvents(c)
  PROVE  \E k : /\ Alters(c, k)
                /\ \/ k = NoResume
                   \/ /\ k.pc = "content" /\ k.quiet = resume[c].quiet
                      /\ k.claim.session = resume[c].claim.session
                      /\ k.claim.run = resume[c].claim.run
                      /\ k.claim.highWater = Cardinality(EventsOf(k.claim.session, k.claim.run))
                      /\ k.claim.highWater # 0
<1>1. PICK r \in Resume : r = resume[c]
  BY DEF ResumeTypeOK
<1>2. r.claim.session \in Sessions
  BY DEF Resume, Claim
<1>3. PICK n \in Nat : n = Cardinality(EventsOf(r.claim.session, r.claim.run))
  BY <1>2, EventsFinite
<1>4. CASE n = 0 \/ n # r.highWater
  BY <1>1, <1>3, <1>4, NoResumeType DEF CountEvents, Park, Alters
<1>5. CASE ~(n = 0 \/ n # r.highWater)
  <2>1. PICK k : k = [r EXCEPT !.pc = "content", !.claim.highWater = n]
    OBVIOUS
  <2>2. /\ k \in Resume /\ k.pc = "content" /\ k.quiet = r.quiet /\ k.claim.highWater = n
        /\ k.claim.session = r.claim.session /\ k.claim.run = r.claim.run
    BY <2>1 DEF Resume, Claim
  <2>3. resume' = [resume EXCEPT ![c] = k]
    BY <1>1, <1>3, <1>5, <2>1 DEF CountEvents
  <2> QED BY <1>1, <1>3, <1>5, <2>2, <2>3 DEF Alters
<1> QED BY <1>4, <1>5

LEMMA ReadContentEffect ==
  ASSUME TypeOK, ResumeTypeOK, SourceIsThere, NEW c \in Clients, ReadContent(c)
  PROVE  \E k : /\ Alters(c, k)
                /\ k.pc = "target" /\ k.quiet = resume[c].quiet
                /\ k.claim.session = resume[c].claim.session
                /\ k.claim.run = resume[c].claim.run
                /\ k.claim.highWater = resume[c].claim.highWater
                /\ k.by = Tip(k.claim.session).by
                /\ k.claim.invocation = Tip(k.claim.session).turn
<1>1. PICK r \in Resume : r = resume[c]
  BY DEF ResumeTypeOK
<1>2. PICK s \in Sessions : s = r.claim.session
  BY DEF Resume, Claim
<1>3. Rows(s) # {}
  BY <1>1, <1>2 DEF ReadContent, SourceIsThere
<1>4. Tip(s) \in AdmissionRow
  BY <1>3, TipIsRow DEF TypeOK, Rows
<1>5. PICK n \in Nat, t \in TurnIds : n = Tip(s).turn /\ t = Tip(s).by
  BY <1>4 DEF AdmissionRow
<1>6. PICK k : k = [r EXCEPT !.pc = "target", !.by = t, !.claim.invocation = n]
  OBVIOUS
<1>7. /\ k \in Resume /\ k.pc = "target" /\ k.quiet = r.quiet /\ k.claim.highWater = r.claim.highWater
      /\ k.claim.session = s /\ k.claim.run = r.claim.run /\ k.by = t /\ k.claim.invocation = n
  BY <1>2, <1>6 DEF Resume, Claim
<1>8. resume' = [resume EXCEPT ![c] = k]
  BY <1>1, <1>2, <1>5, <1>6 DEF ReadContent
<1> QED BY <1>1, <1>2, <1>5, <1>7, <1>8 DEF Alters

LEMMA NumberTargetEffect ==
  ASSUME TypeOK, TypeOK', ResumeTypeOK, NEW c \in Clients, NumberTarget(c)
  PROVE  \E k : /\ Alters(c, k)
                /\ k.pc = "prefix" /\ k.quiet = resume[c].quiet /\ k.by = resume[c].by
                /\ k.claim.session = resume[c].claim.session
                /\ k.claim.run = resume[c].claim.run
                /\ k.claim.highWater = resume[c].claim.highWater
                /\ k.claim.invocation = resume[c].claim.invocation
                /\ k.claim.target = Len(msgs'[k.claim.session]) + 1
<1>1. PICK r \in Resume : r = resume[c]
  BY DEF ResumeTypeOK
<1>2. PICK s \in Sessions : s = r.claim.session
  BY DEF Resume, Claim
<1>3. msgs'[s] \in Seq(Message)
  BY DEF TypeOK
<1>4. PICK n \in Nat : n = Len(msgs'[s]) + 1
  BY <1>3
<1>5. PICK k : k = [r EXCEPT !.pc = "prefix", !.claim.target = n]
  OBVIOUS
<1>6. /\ k \in Resume /\ k.pc = "prefix" /\ k.quiet = r.quiet /\ k.claim.highWater = r.claim.highWater
      /\ k.claim.session = s /\ k.claim.run = r.claim.run /\ k.by = r.by
      /\ k.claim.invocation = r.claim.invocation /\ k.claim.target = n
  BY <1>2, <1>5 DEF Resume, Claim
<1>7. resume' = [resume EXCEPT ![c] = k]
  <2>1. resume' = [resume EXCEPT ![c].pc = "prefix", ![c].claim.target = Len(msgs'[s]) + 1]
    BY <1>1, <1>2 DEF NumberTarget
  <2>2. resume' = [resume EXCEPT ![c].pc = "prefix", ![c].claim.target = n]
    BY <1>4, <2>1, Zenon
  <2> QED BY <1>1, <1>5, <2>2
<1> QED BY <1>1, <1>2, <1>4, <1>6, <1>7 DEF Alters

LEMMA ReadPrefixEffect ==
  ASSUME TypeOK, ResumeTypeOK, IsFiniteSet(terminals), NEW c \in Clients, ReadPrefix(c)
  PROVE  \E k : /\ Alters(c, k)
                /\ k.pc = "claim" /\ k.quiet = resume[c].quiet /\ k.by = resume[c].by
                /\ k.claim.session = resume[c].claim.session
                /\ k.claim.run = resume[c].claim.run
                /\ k.claim.highWater = resume[c].claim.highWater
                /\ k.claim.invocation = resume[c].claim.invocation
                /\ k.claim.target = resume[c].claim.target
                /\ k.claim.prefix = EventsOf(k.claim.session, k.claim.run)
<1>1. PICK r \in Resume : r = resume[c]
  BY DEF ResumeTypeOK
<1>2. r.claim.session \in Sessions
  BY DEF Resume, Claim
<1>3. PICK p \in SUBSET EventId : p = EventsOf(r.claim.session, r.claim.run)
  BY <1>2, EventsFinite
<1>4. PICK k : k = [r EXCEPT !.pc = "claim", !.claim.prefix = p]
  OBVIOUS
<1>5. /\ k \in Resume /\ k.pc = "claim" /\ k.quiet = r.quiet /\ k.claim.highWater = r.claim.highWater
      /\ k.claim.session = r.claim.session /\ k.claim.run = r.claim.run /\ k.by = r.by
      /\ k.claim.invocation = r.claim.invocation /\ k.claim.target = r.claim.target /\ k.claim.prefix = p
  BY <1>4 DEF Resume, Claim
<1>6. resume' = [resume EXCEPT ![c] = k]
  BY <1>1, <1>3, <1>4 DEF ReadPrefix
<1> QED BY <1>1, <1>3, <1>5, <1>6 DEF Alters

LEMMA RecordClaimEffect ==
  ASSUME ResumeTypeOK, NEW c \in Clients, RecordClaim(c)
  PROVE  \E k : /\ Alters(c, k)
                /\ k.pc = "begin" /\ k.quiet = resume[c].quiet /\ k.by = resume[c].by
                /\ k.claim = resume[c].claim
<1>1. PICK r \in Resume : r = resume[c]
  BY DEF ResumeTypeOK
<1>2. PICK k : k = [r EXCEPT !.pc = "begin"]
  OBVIOUS
<1>3. k \in Resume /\ k.pc = "begin" /\ k.quiet = r.quiet /\ k.by = r.by /\ k.claim = r.claim
  BY <1>2 DEF Resume
<1>4. resume' = [resume EXCEPT ![c] = k]
  BY <1>1, <1>2 DEF RecordClaim
<1> QED BY <1>1, <1>3, <1>4 DEF Alters

-----------------------------------------------------------------------------
(* The coordinator's steps, as they leave the resume requests.             *)

\* A request that goes on and has a resume request moves to its next step.
Moves(c) ==
    crashes' = crashes /\ (req'[c] = req[c] \/ (RequestStep(c) /\ req'[c].pc # "idle"))

Continued(c) == [by |-> resume[c].by, quiet |-> resume[c].quiet, claim |-> resume[c].claim]

Pass ==
    /\ [Next]_vars /\ claims' = claims /\ resume' \in [Clients -> Resume]
    /\ \A c \in Clients :
         resume'[c] = NoResume \/ (resume'[c] = resume[c] /\ (resume[c].pc = "idle" \/ Moves(c)))
    /\ \/ source' = source
       \/ \E c \in Clients : /\ Spawn(c) /\ resume[c].pc = "begin"
                             /\ source' = [source EXCEPT ![req[c].turn] = Continued(c)]

LEMMA StepCases ==
  ASSUME TypeOK, ResumeTypeOK, [ContinuationNext]_allVars
  PROVE  \/ Pass
         \/ \E c \in Clients : \/ \E s \in Sessions, n \in Counts : RequestResume(c, s, n)
                               \/ ResumeStep(c)
<1>1. req \in [Clients -> Request] /\ resume \in [Clients -> Resume]
  BY DEF TypeOK, ResumeTypeOK
<1>2. ASSUME [Next]_vars, UNCHANGED <<resumeVars, req, crashes>> PROVE Pass
  <2>1. resume' = resume /\ claims' = claims /\ source' = source /\ req' = req /\ crashes' = crashes
    BY <1>2 DEF resumeVars
  <2>2. \A c \in Clients : resume'[c] = resume[c] /\ Moves(c)
    BY <2>1 DEF Moves
  <2>3. resume' \in [Clients -> Resume]
    BY <1>1, <2>1
  <2> QED BY <1>2, <2>1, <2>2, <2>3, Zenon DEF Pass
<1>3. ASSUME NEW c \in Clients, NEW s \in Sessions, StartFresh(c, s) PROVE Pass
  <2>1. resume[c].pc = "idle" /\ UNCHANGED resumeVars
    BY <1>3 DEF StartFresh, MayBegin, Busy
  <2>2. crashes' = crashes /\ \A d \in Clients : d # c => req'[d] = req[d]
    BY <1>1, <1>3 DEF StartFresh, StartRequest
  <2>3. Next
    BY <1>3 DEF StartFresh, Next, SteadyNext
  <2>4. resume' = resume /\ claims' = claims /\ source' = source
    BY <2>1 DEF resumeVars
  <2>5. \A d \in Clients : resume'[d] = resume[d] /\ (resume[d].pc = "idle" \/ Moves(d))
    BY <2>1, <2>2, <2>4 DEF Moves
  <2>6. resume' \in [Clients -> Resume]
    BY <1>1, <2>4
  <2> QED BY <2>3, <2>4, <2>5, <2>6, Zenon DEF Pass
<1>4. ASSUME NEW c \in Clients, BeginStep(c) PROVE Pass
  <2>1. RequestStep(c) /\ claims' = claims /\ Next
    BY <1>4 DEF BeginStep, Next, SteadyNext
  <2>2. crashes' = crashes /\ \A d \in Clients : d # c => req'[d] = req[d]
    BY <1>1, <2>1 DEF RequestStep, CheckActive, CheckCatalog, ResolveIdentity, ReadTip, Admit, Spawn, Refuse
  <2>3. resume' = [resume EXCEPT ![c] = IF req'[c].pc = "idle" THEN NoResume ELSE resume[c]]
    BY <1>4 DEF BeginStep
  <2>4. /\ resume' \in [Clients -> Resume]
        /\ \A d \in Clients : d # c => resume'[d] = resume[d]
        /\ resume'[c] = NoResume \/ (resume'[c] = resume[c] /\ req'[c].pc # "idle")
    <3>1. PICK k \in Resume : k = IF req'[c].pc = "idle" THEN NoResume ELSE resume[c]
      BY <1>1, NoResumeType
    <3>2. resume' = [resume EXCEPT ![c] = k]
      BY <2>3, <3>1
    <3>3. k = NoResume \/ (k = resume[c] /\ req'[c].pc # "idle")
      BY <3>1
    <3> QED BY <1>1, <3>2, <3>3
  <2>5. req[c].pc = "spawn" => Spawn(c)
    BY <2>1 DEF RequestStep, CheckActive, CheckCatalog, ResolveIdentity, ReadTip, Admit
  <2>6. source' = source \/ (/\ Spawn(c) /\ resume[c].pc = "begin"
                             /\ source' = [source EXCEPT ![req[c].turn] = Continued(c)])
    BY <1>4, <2>5 DEF BeginStep, Continued
  <2>7. \A d \in Clients :
          resume'[d] = NoResume \/ (resume'[d] = resume[d] /\ (resume[d].pc = "idle" \/ Moves(d)))
    BY <2>1, <2>2, <2>4, Zenon DEF Moves
  <2> QED BY <2>1, <2>4, <2>6, <2>7, Zenon DEF Pass
<1>5. ASSUME Die PROVE Pass
  <2>1. /\ Next /\ resume' = [c \in Clients |-> NoResume]
        /\ claims' = claims /\ source' = source
    BY <1>5 DEF Die, Next
  <2>2. resume' \in [Clients -> Resume] /\ \A c \in Clients : resume'[c] = NoResume
    BY <2>1, NoResumeType
  <2> QED BY <2>1, <2>2, Zenon DEF Pass
<1>6. ASSUME NEW c \in Clients, NEW s \in Sessions, StopRunning(c, s) PROVE Pass
  BY <1>2, <1>6 DEF StopRunning, StopTurn, Next, SteadyNext
<1>7. ASSUME NEW t \in TurnIds, Drain(t) PROVE Pass
  <2>1. UNCHANGED <<req, crashes>>
    BY <1>7 DEF Drain, DrainStep, StartRun, Reply, EndRun, BeginFinalize, SaveEvent, Finalize, Release
  <2> QED BY <1>2, <1>7, <2>1 DEF Drain, Next, SteadyNext
<1>8. ASSUME Environment PROVE Pass
  BY <1>2, <1>8 DEF Environment, Tick, SetLifecycle, Next, SteadyNext
<1>9. ASSUME UNCHANGED allVars PROVE Pass
  BY <1>2, <1>9 DEF allVars, vars
<1> QED BY <1>3, <1>4, <1>5, <1>6, <1>7, <1>8, <1>9 DEF ContinuationNext

-----------------------------------------------------------------------------
(* The requests, the managers in memory and the admission rows.            *)

LEMMA RequestMoves ==
  ASSUME TypeOK, NEW c \in Clients, RequestStep(c)
  PROVE  /\ req[c].pc # "idle"
         /\ req'[c].pc # "idle" => req'[c].session = req[c].session
<1>1. req \in [Clients -> Request] /\ req[c] \in Request
  BY DEF TypeOK
<1>2. CASE CheckActive(c) \/ CheckCatalog(c)
  BY <1>1, <1>2 DEF CheckActive, CheckCatalog, Refuse, Request, Idle
<1>3. CASE ResolveIdentity(c)
  <2>1. PICK n : req' = [req EXCEPT ![c] = [req[c] EXCEPT !.pc = "tip", !.n = n]]
    BY <1>3 DEF ResolveIdentity
  <2> QED BY <1>1, <1>3, <2>1 DEF ResolveIdentity, Request
<1>4. CASE ReadTip(c)
  BY <1>1, <1>4 DEF ReadTip, Request
<1>5. CASE Admit(c)
  BY <1>1, <1>5 DEF Admit, Request
<1>6. CASE Spawn(c)
  BY <1>1, <1>6 DEF Spawn, Request, Idle
<1> QED BY <1>2, <1>3, <1>4, <1>5, <1>6 DEF RequestStep

LEMMA OneRequestNext ==
  ASSUME TypeOK, TypeOK', ResumeTypeOK, SourceIsThere, IsFiniteSet(terminals), OneRequest,
         [ContinuationNext]_allVars
  PROVE  OneRequest'
<1>1. resume \in [Clients -> Resume] /\ req \in [Clients -> Request]
  BY DEF ResumeTypeOK, TypeOK
<1>2. CASE Pass
  <2> SUFFICES ASSUME NEW c \in Clients, resume'[c].pc # "idle"
               PROVE  /\ <<c, resume'[c].claim.session>> \in MayUse
                      /\ resume'[c].pc # "begin" => req'[c].pc = "idle"
                      /\ resume'[c].pc = "begin" =>
                           req'[c].pc # "idle" /\ req'[c].session = resume'[c].claim.session
    BY DEF OneRequest
  <2>1. resume'[c] = resume[c] /\ Moves(c)
    BY <1>2 DEF Pass, NoResume
  <2> QED BY <2>1, RequestMoves DEF Moves, OneRequest
<1>3. ASSUME NEW c \in Clients, NEW k, Alters(c, k), req' = req, k = NoResume \/ k.pc # "begin",
             req[c].pc = "idle", k = NoResume \/ <<c, k.claim.session>> \in MayUse
      PROVE  OneRequest'
  BY <1>1, <1>3 DEF Alters, OneRequest, NoResume
<1>4. ASSUME NEW c \in Clients, NEW s \in Sessions, NEW n \in Counts, RequestResume(c, s, n)
      PROVE  OneRequest'
  <2>1. PICK k : Alters(c, k) /\ k.pc = "tip" /\ k.claim.session = s
    BY <1>4, RequestResumeEffect
  <2>2. req[c].pc = "idle" /\ <<c, s>> \in MayUse /\ req' = req
    BY <1>4 DEF RequestResume, MayBegin, Busy, vars
  <2> QED BY <1>3, <2>1, <2>2
<1>5. ASSUME NEW c \in Clients, NEW k, Alters(c, k), req' = req, resume[c].pc \notin {"idle", "begin"},
             k = NoResume \/ (k.pc # "begin" /\ k.claim.session = resume[c].claim.session)
      PROVE  OneRequest'
  <2>1. req[c].pc = "idle" /\ <<c, resume[c].claim.session>> \in MayUse
    BY <1>5 DEF OneRequest
  <2> QED BY <1>3, <1>5, <2>1
<1>6. ASSUME NEW c \in Clients, ReadSource(c) PROVE OneRequest'
  <2>1. resume[c].pc = "tip" /\ req' = req
    BY <1>6 DEF ReadSource, vars
  <2> QED BY <1>5, <1>6, <2>1, ReadSourceEffect
<1>7. ASSUME NEW c \in Clients, CountEvents(c) PROVE OneRequest'
  <2>1. resume[c].pc = "count" /\ req' = req
    BY <1>7 DEF CountEvents, vars
  <2> QED BY <1>5, <1>7, <2>1, CountEventsEffect
<1>8. ASSUME NEW c \in Clients, ReadContent(c) PROVE OneRequest'
  <2>1. resume[c].pc = "content" /\ req' = req
    BY <1>8 DEF ReadContent, vars
  <2> QED BY <1>5, <1>8, <2>1, ReadContentEffect
<1>9. ASSUME NEW c \in Clients, NumberTarget(c) PROVE OneRequest'
  <2>1. resume[c].pc = "target" /\ req' = req
    BY <1>9 DEF NumberTarget
  <2> QED BY <1>5, <1>9, <2>1, NumberTargetEffect
<1>10. ASSUME NEW c \in Clients, ReadPrefix(c) PROVE OneRequest'
  <2>1. resume[c].pc = "prefix" /\ req' = req
    BY <1>10 DEF ReadPrefix, vars
  <2> QED BY <1>5, <1>10, <2>1, ReadPrefixEffect
<1>11. ASSUME NEW c \in Clients, RecordClaim(c) PROVE OneRequest'
  <2>1. PICK k : Alters(c, k) /\ k.pc = "begin" /\ k.claim = resume[c].claim
    BY <1>11, RecordClaimEffect
  <2>2. PICK r : r = [Idle EXCEPT !.pc = "active", !.session = resume[c].claim.session]
    OBVIOUS
  <2>3. resume[c].pc = "claim" /\ req' = [req EXCEPT ![c] = r]
    BY <1>11, <2>2 DEF RecordClaim
  <2>4. r.pc = "active" /\ r.session = resume[c].claim.session
    BY <2>2 DEF Idle
  <2>5. <<c, resume[c].claim.session>> \in MayUse
    BY <2>3 DEF OneRequest
  <2> QED BY <1>1, <2>1, <2>3, <2>4, <2>5 DEF Alters, OneRequest
<1> QED BY <1>2, <1>4, <1>6, <1>7, <1>8, <1>9, <1>10, <1>11, StepCases DEF ResumeStep

\* A manager stays in memory as long as its session has a numbered request or a turn.
LEMMA UsedStays ==
  ASSUME TypeOK, TypeOK', EntryFacts, UsedIsLoaded, [Next]_vars
  PROVE  UsedIsLoaded'
<1>1. req \in [Clients -> Request] /\ turn \in [TurnIds -> Turn]
  BY DEF TypeOK
<1> DEFINE Given == {"tip", "admit", "spawn"}
<1>2. ASSUME loaded \subseteq loaded',
             \A c \in Clients : req'[c].pc \in Given =>
               \/ (req[c].pc \in Given /\ req'[c].session = req[c].session)
               \/ req'[c].session \in loaded',
             \A t \in TurnIds : turn'[t].phase = "admitted" \/ turn'[t].phase \in LivePhases =>
               \/ (turn[t].phase = "admitted" \/ turn[t].phase \in LivePhases)
                  /\ turn'[t].session = turn[t].session
               \/ turn'[t].session \in loaded'
      PROVE  UsedIsLoaded'
  BY <1>2 DEF UsedIsLoaded, Live
<1> HIDE DEF Given
<1>3. ASSUME loaded \subseteq loaded', UNCHANGED turn, NEW c \in Clients, RequestStep(c),
             \A d \in Clients : d # c => req'[d] = req[d],
             req'[c].pc \in Given => req[c].pc \in Given \/ req'[c].session \in loaded'
      PROVE  UsedIsLoaded'
  <2>1. req'[c].pc \in Given => req'[c].session = req[c].session
    BY RequestMoves, <1>3 DEF Given
  <2> QED BY <1>2, <1>3, <2>1
<1>4. ASSUME NEW t \in TurnIds, NEW k, turn' = [turn EXCEPT ![t] = k], UNCHANGED <<loaded, req>>,
             k.session = turn[t].session, turn[t].phase = "admitted" \/ turn[t].phase \in LivePhases
      PROVE  UsedIsLoaded'
  <2>1. \A u \in TurnIds : turn'[u].session = turn[u].session /\ (u # t => turn'[u] = turn[u])
    BY <1>1, <1>4
  <2> QED BY <1>2, <1>4, <2>1
<1>5. ASSUME NEW c \in Clients, CheckActive(c) \/ CheckCatalog(c) \/ ReadTip(c) PROVE UsedIsLoaded'
  <2>1. /\ UNCHANGED <<loaded, turn>> /\ \A d \in Clients : d # c => req'[d] = req[d]
        /\ req'[c].pc \in Given => req[c].pc \in Given
    BY <1>1, <1>5 DEF CheckActive, CheckCatalog, ReadTip, Refuse, managers, Given, Idle, Request
  <2> QED BY <1>3, <1>5, <2>1 DEF RequestStep
<1>6. ASSUME NEW c \in Clients, ResolveIdentity(c) PROVE UsedIsLoaded'
  <2>1. PICK n : req' = [req EXCEPT ![c] = [req[c] EXCEPT !.pc = "tip", !.n = n]]
    BY <1>6 DEF ResolveIdentity
  <2>2. req'[c].session = req[c].session /\ \A d \in Clients : d # c => req'[d] = req[d]
    BY <1>1, <2>1 DEF Request
  <2>3. loaded' = loaded \cup {req[c].session} /\ UNCHANGED turn
    BY <1>6 DEF ResolveIdentity
  <2> QED BY <1>3, <1>6, <2>2, <2>3 DEF RequestStep
<1>7. ASSUME NEW c \in Clients, Admit(c) PROVE UsedIsLoaded'
  <2>1. req[c].pc = "admit" /\ req[c].session \in loaded /\ loaded' = loaded
    BY <1>7 DEF Admit, managers, UsedIsLoaded
  <2>2. \A d \in Clients : req'[d].session = req[d].session /\ (d # c => req'[d] = req[d])
    BY <1>1, <1>7 DEF Admit, Request
  <2>3. PICK k : k = [UnusedTurn EXCEPT !.phase = "admitted", !.session = req[c].session, !.told = req[c].n]
    OBVIOUS
  <2>4. \A t \in TurnIds : turn'[t] = turn[t] \/ turn'[t].session = req[c].session
    <3>1. k.session = req[c].session
      BY <2>3, UnusedTurnType DEF Turn
    <3>2. turn' = [turn EXCEPT ![admitted + 1] = k]
      BY <1>7, <2>3 DEF Admit
    <3> QED BY <1>1, <3>1, <3>2
  <2> QED BY <1>2, <2>1, <2>2, <2>4 DEF Given
<1>8. ASSUME NEW c \in Clients, Spawn(c) PROVE UsedIsLoaded'
  <2>1. req[c].turn \in TurnIds /\ turn[req[c].turn].phase = "admitted"
    BY <1>8 DEF Spawn, EntryFacts, RequestOwnsAdmission
  <2>2. \A u \in TurnIds : turn'[u].session = turn[u].session /\ (u # req[c].turn => turn'[u] = turn[u])
    BY <1>1, <1>8, <2>1 DEF Spawn, Turn
  <2>3. \A d \in Clients : (d # c => req'[d] = req[d]) /\ (d = c => req'[d] = Idle)
    BY <1>1, <1>8 DEF Spawn
  <2> QED BY <1>2, <1>8, <2>1, <2>2, <2>3 DEF Spawn, managers, Idle, Given
<1>9. ASSUME NEW t \in TurnIds, DrainStep(t) PROVE UsedIsLoaded'
  <2>1. turn[t].phase \in LivePhases /\ UNCHANGED <<loaded, req>>
    BY <1>9 DEF DrainStep, StartRun, Reply, EndRun, BeginFinalize, SaveEvent, Finalize, Release,
       managers, LivePhases
  <2>2. turn'[t].phase # "unused" /\ turn'[t].session = turn[t].session
    BY <2>1, TurnStays DEF LivePhases
  <2>3. \A u \in TurnIds : u # t => turn'[u] = turn[u]
    BY <1>1, <1>9 DEF DrainStep, StartRun, Reply, EndRun, BeginFinalize, SaveEvent, Finalize, Release
  <2>4. \A u \in TurnIds : turn'[u].phase = "admitted" \/ turn'[u].phase \in LivePhases =>
               (turn[u].phase = "admitted" \/ turn[u].phase \in LivePhases)
                  /\ turn'[u].session = turn[u].session
    BY <2>1, <2>2, <2>3
  <2> QED BY <1>2, <2>1, <2>4
<1>10. ASSUME NEW c \in Clients, NEW s \in Sessions, StartRequest(c, s) PROVE UsedIsLoaded'
  <2>1. UNCHANGED <<loaded, turn>> /\ \A d \in Clients : d # c => req'[d] = req[d]
    BY <1>1, <1>10 DEF StartRequest, managers
  <2>2. req'[c].pc = "active"
    BY <1>1, <1>10 DEF StartRequest, Idle
  <2> QED BY <1>2, <2>1, <2>2 DEF Given
<1>11. ASSUME NEW c \in Clients, NEW s \in Sessions, StopTurn(c, s) PROVE UsedIsLoaded'
  <2>1. PICK t \in TurnIds : t = active[s]
    BY <1>11 DEF TypeOK, StopTurn
  <2>2. \A u \in TurnIds : turn'[u].session = turn[u].session /\ turn'[u].phase = turn[u].phase
    BY <1>1, <1>11, <2>1 DEF StopTurn, Turn
  <2> QED BY <1>2, <1>11, <2>2 DEF StopTurn, managers
<1>12. ASSUME Crash PROVE UsedIsLoaded'
  <2>1. \A c \in Clients : req'[c].pc = "idle"
    BY <1>12 DEF Crash, Idle
  <2>2. \A t \in TurnIds : turn'[t].phase # "admitted" /\ turn'[t].phase \notin LivePhases
    BY <1>1, <1>12 DEF Crash, Remains, Become, Live, LivePhases, Turn
  <2> QED BY <2>1, <2>2 DEF UsedIsLoaded, Live
<1>13. ASSUME UNCHANGED <<loaded, req, turn>> PROVE UsedIsLoaded'
  BY <1>13 DEF UsedIsLoaded, Live
<1> QED
  <2>1. CASE \E c \in Clients : RequestStep(c)
    BY <1>5, <1>6, <1>7, <1>8, <2>1 DEF RequestStep
  <2>2. CASE (\E s \in Sessions : SetLifecycle(s)) \/ Tick \/ UNCHANGED vars
    BY <1>13, <2>2 DEF SetLifecycle, Tick, vars, managers
  <2> QED BY <1>9, <1>10, <1>11, <1>12, <2>1, <2>2 DEF Next, SteadyNext

LEMMA UsedNext ==
  ASSUME TypeOK, TypeOK', EntryFacts, UsedIsLoaded, [ContinuationNext]_allVars
  PROVE  UsedIsLoaded'
<1>1. CASE [Next]_vars
  BY <1>1, UsedStays
<1>2. ASSUME NEW c \in Clients, NumberTarget(c) PROVE UsedIsLoaded'
  BY <1>2 DEF NumberTarget, UsedIsLoaded, Live
<1>3. ASSUME NEW c \in Clients, RecordClaim(c) PROVE UsedIsLoaded'
  <2>1. req \in [Clients -> Request]
    BY DEF TypeOK
  <2>2. PICK r : r = [Idle EXCEPT !.pc = "active", !.session = resume[c].claim.session]
    OBVIOUS
  <2>3. req' = [req EXCEPT ![c] = r] /\ UNCHANGED <<loaded, turn>> /\ r.pc = "active"
    BY <1>3, <2>2 DEF RecordClaim, managers, Idle
  <2> QED BY <2>1, <2>3 DEF UsedIsLoaded, Live
<1> QED BY <1>1, <1>2, <1>3, StepKinds

\* Which rows a step leaves: all of them, but for the one an admission replaces.
LEMMA ChainSteps ==
  ASSUME TypeOK, [ContinuationNext]_allVars
  PROVE  chain' = chain \/ \E c \in Clients : Admit(c)
<1>1. CASE [Next]_vars
  BY <1>1 DEF Next, SteadyNext, RequestStep, DrainStep, StartRequest, StopTurn, CheckActive,
     CheckCatalog, ResolveIdentity, ReadTip, Spawn, StartRun, Reply, EndRun, BeginFinalize,
     SaveEvent, Finalize, Release, SetLifecycle, Tick, Crash, store, vars
<1>2. CASE \E c \in Clients : NumberTarget(c) \/ RecordClaim(c)
  BY <1>2 DEF NumberTarget, RecordClaim
<1> QED BY <1>1, <1>2, StepKinds

LEMMA RowsStay ==
  ASSUME TypeOK, [ContinuationNext]_allVars, NEW s \in Sessions, Rows(s) # {}
  PROVE  Rows(s)' # {}
<1>1. CASE chain' = chain
  BY <1>1 DEF Rows
<1>2. ASSUME NEW c \in Clients, Admit(c) PROVE Rows(s)' # {}
  <2>1. PICK row : chain' = Extend(row)
    BY <1>2 DEF Admit
  <2> QED BY <2>1 DEF Rows, Extend
<1> QED BY <1>1, <1>2, ChainSteps

LEMMA RowIsToldNext ==
  ASSUME TypeOK, EntryFacts, RowIsTold, [ContinuationNext]_allVars
  PROVE  RowIsTold'
<1>1. chain \subseteq AdmissionRow /\ \A r \in chain : r.by \in TurnIds
  BY DEF TypeOK, AdmissionRow
<1>2. CASE [Next]_vars
  <2>1. \A r \in chain : turn'[r.by].phase # "unused" /\ turn'[r.by].told = r.turn
    BY <1>1, <1>2, TurnStays DEF RowIsTold
  <2>2. CASE chain' = chain
    BY <2>1, <2>2 DEF RowIsTold
  <2>3. ASSUME NEW c \in Clients, Admit(c) PROVE RowIsTold'
    <3>1. PICK at : chain' = Extend([session |-> req[c].session, turn |-> req[c].n,
                                     prev |-> req[c].prev, at |-> at, by |-> admitted + 1])
      BY <2>3 DEF Admit
    <3>2. PICK row : row = [session |-> req[c].session, turn |-> req[c].n,
                            prev |-> req[c].prev, at |-> at, by |-> admitted + 1]
      OBVIOUS
    <3>3. chain' \subseteq chain \cup {row} /\ row.by = admitted + 1 /\ row.turn = req[c].n
      BY <3>1, <3>2 DEF Extend
    <3>4. PICK k : k = [UnusedTurn EXCEPT !.phase = "admitted", !.session = req[c].session, !.told = req[c].n]
      OBVIOUS
    <3>5. k.phase = "admitted" /\ k.told = req[c].n
      BY <3>4, UnusedTurnType DEF Turn
    <3>6. turn \in [TurnIds -> Turn] /\ admitted + 1 \in TurnIds /\ turn' = [turn EXCEPT ![admitted + 1] = k]
      BY <2>3, <3>4 DEF Admit, TypeOK
    <3>7. turn'[row.by] = k
      BY <3>3, <3>6
    <3> QED BY <2>1, <3>3, <3>5, <3>7 DEF RowIsTold
  <2> QED BY <2>2, <2>3, ChainSteps
<1>3. CASE \E c \in Clients : NumberTarget(c) \/ RecordClaim(c)
  BY <1>3 DEF NumberTarget, RecordClaim, RowIsTold
<1> QED BY <1>2, <1>3, StepKinds

LEMMA ResumeTypeNext ==
  ASSUME TypeOK, TypeOK', EntryFacts, ResumeTypeOK, SourceIsThere, IsFiniteSet(terminals),
         [ContinuationNext]_allVars
  PROVE  ResumeTypeOK'
<1>1. /\ resume \in [Clients -> Resume] /\ claims \subseteq Claim
      /\ source \in [TurnIds -> [by : TurnIds \cup {NoTurn}, quiet : BOOLEAN, claim : Claim]]
  BY DEF ResumeTypeOK
<1>2. CASE Pass
  <2>1. ASSUME NEW c \in Clients, Spawn(c), source' = [source EXCEPT ![req[c].turn] = Continued(c)]
        PROVE  source' \in [TurnIds -> [by : TurnIds \cup {NoTurn}, quiet : BOOLEAN, claim : Claim]]
    <3>1. Continued(c) \in [by : TurnIds \cup {NoTurn}, quiet : BOOLEAN, claim : Claim]
      BY <1>1 DEF Continued, Resume
    <3> QED BY <1>1, <2>1, <3>1
  <2> QED BY <1>1, <1>2, <2>1 DEF Pass, ResumeTypeOK
<1>3. ASSUME NEW c \in Clients, NEW k, Alters(c, k), UNCHANGED <<claims, source>> PROVE ResumeTypeOK'
  BY <1>1, <1>3 DEF Alters, ResumeTypeOK
<1>4. ASSUME NEW c \in Clients, NEW s \in Sessions, NEW n \in Counts, RequestResume(c, s, n)
      PROVE  ResumeTypeOK'
  BY <1>3, <1>4, RequestResumeEffect DEF RequestResume
<1>5. ASSUME NEW c \in Clients, ReadSource(c) PROVE ResumeTypeOK'
  BY <1>3, <1>5, ReadSourceEffect DEF ReadSource
<1>6. ASSUME NEW c \in Clients, CountEvents(c) PROVE ResumeTypeOK'
  BY <1>3, <1>6, CountEventsEffect DEF CountEvents
<1>7. ASSUME NEW c \in Clients, ReadContent(c) PROVE ResumeTypeOK'
  BY <1>3, <1>7, ReadContentEffect DEF ReadContent
<1>8. ASSUME NEW c \in Clients, NumberTarget(c) PROVE ResumeTypeOK'
  BY <1>3, <1>8, NumberTargetEffect DEF NumberTarget
<1>9. ASSUME NEW c \in Clients, ReadPrefix(c) PROVE ResumeTypeOK'
  BY <1>3, <1>9, ReadPrefixEffect DEF ReadPrefix
<1>10. ASSUME NEW c \in Clients, RecordClaim(c) PROVE ResumeTypeOK'
  <2>1. resume' \in [Clients -> Resume]
    BY <1>1, <1>10, RecordClaimEffect DEF Alters
  <2>2. resume[c].claim \in Claim
    BY <1>1 DEF Resume
  <2>3. claims' \subseteq Claim /\ source' = source
    BY <1>1, <1>10, <2>2 DEF RecordClaim
  <2> QED BY <1>1, <2>1, <2>3 DEF ResumeTypeOK
<1> QED BY <1>2, <1>4, <1>5, <1>6, <1>7, <1>8, <1>9, <1>10, StepCases DEF ResumeStep

LEMMA SourceNext ==
  ASSUME TypeOK, TypeOK', ResumeTypeOK, SourceIsThere, IsFiniteSet(terminals), [ContinuationNext]_allVars
  PROVE  SourceIsThere'
<1>1. /\ resume \in [Clients -> Resume]
      /\ \A c \in Clients : resume[c].claim.session \in Sessions
  BY DEF ResumeTypeOK, Resume, Claim
<1>2. ASSUME NEW c \in Clients,
             \/ resume'[c].pc \in {"idle", "tip"}
             \/ /\ resume'[c].claim.session = resume[c].claim.session
                /\ resume[c].pc \notin {"idle", "tip"} \/ Rows(resume[c].claim.session) # {}
      PROVE  (resume[c].pc \notin {"idle", "tip"} => Rows(resume[c].claim.session) # {})'
  <2>1. CASE resume'[c].pc \in {"idle", "tip"}
    BY <2>1
  <2>2. CASE /\ resume'[c].claim.session = resume[c].claim.session
             /\ resume[c].pc \notin {"idle", "tip"} \/ Rows(resume[c].claim.session) # {}
    <3>1. PICK s \in Sessions : s = resume[c].claim.session /\ s = resume'[c].claim.session
      BY <1>1, <2>2
    <3>2. Rows(s) # {}
      BY <2>2, <3>1 DEF SourceIsThere
    <3> QED BY <3>1, <3>2, RowsStay
  <2> QED BY <1>2, <2>1, <2>2
<1>3. CASE Pass
  <2>1. \A c \in Clients : resume'[c] = NoResume \/ resume'[c] = resume[c]
    BY <1>3 DEF Pass
  <2>2. NoResume.pc = "idle"
    BY DEF NoResume
  <2> QED BY <1>2, <2>1, <2>2 DEF SourceIsThere
<1>4. ASSUME NEW c \in Clients, NEW k, Alters(c, k),
             \/ k = NoResume \/ k.pc = "tip"
             \/ /\ k.claim.session = resume[c].claim.session
                /\ resume[c].pc \notin {"idle", "tip"} \/ Rows(resume[c].claim.session) # {}
      PROVE  SourceIsThere'
  <2>1. resume'[c] = k /\ \A d \in Clients : d # c => resume'[d] = resume[d]
    BY <1>1, <1>4 DEF Alters
  <2>2. NoResume.pc = "idle"
    BY DEF NoResume
  <2>3. ASSUME NEW d \in Clients
        PROVE  (resume[d].pc \notin {"idle", "tip"} => Rows(resume[d].claim.session) # {})'
    <3>1. CASE d = c
      BY <1>2, <1>4, <2>1, <2>2, <3>1
    <3>2. CASE d # c
      BY <1>2, <2>1, <3>2
    <3> QED BY <3>1, <3>2
  <2> QED BY <2>3 DEF SourceIsThere
<1>5. ASSUME NEW c \in Clients, NEW s \in Sessions, NEW n \in Counts, RequestResume(c, s, n)
      PROVE  SourceIsThere'
  BY <1>4, <1>5, RequestResumeEffect
<1>6. ASSUME NEW c \in Clients, ReadSource(c) PROVE SourceIsThere'
  BY <1>4, <1>6, ReadSourceEffect
<1>7. ASSUME NEW c \in Clients, CountEvents(c) PROVE SourceIsThere'
  BY <1>4, <1>7, CountEventsEffect DEF CountEvents
<1>8. ASSUME NEW c \in Clients, ReadContent(c) PROVE SourceIsThere'
  BY <1>4, <1>8, ReadContentEffect DEF ReadContent
<1>9. ASSUME NEW c \in Clients, NumberTarget(c) PROVE SourceIsThere'
  <2>1. resume[c].pc = "target"
    BY <1>9 DEF NumberTarget
  <2> QED BY <1>4, <1>9, <2>1, NumberTargetEffect
<1>10. ASSUME NEW c \in Clients, ReadPrefix(c) PROVE SourceIsThere'
  <2>1. resume[c].pc = "prefix"
    BY <1>10 DEF ReadPrefix
  <2> QED BY <1>4, <1>10, <2>1, ReadPrefixEffect
<1>11. ASSUME NEW c \in Clients, RecordClaim(c) PROVE SourceIsThere'
  <2>1. resume[c].pc = "claim"
    BY <1>11 DEF RecordClaim
  <2> QED BY <1>4, <1>11, <2>1, RecordClaimEffect
<1> QED BY <1>3, <1>5, <1>6, <1>7, <1>8, <1>9, <1>10, <1>11, StepCases DEF ResumeStep

-----------------------------------------------------------------------------
(* The boundary of a claim.                                                *)

\* What BoundaryFacts asks of a resume request, of its claim when it is pc.
Bounded(pc, k) ==
    /\ pc \in {"content", "target", "prefix"} =>
         k.highWater \in 1 .. Cardinality(EventsOf(k.session, k.run))
    /\ pc = "claim" =>
         k.prefix \subseteq EventsOf(k.session, k.run) /\ k.highWater \in 1 .. Cardinality(k.prefix)

\* What BoundaryIsDurable asks of a claim.
Durable(k) ==
    k.prefix \subseteq EventsOf(k.session, k.run) /\ k.highWater \in 1 .. Cardinality(k.prefix)

LEMMA BoundaryStays ==
  ASSUME TypeOK, TypeOK', IsFiniteSet(terminals), [ContinuationNext]_allVars, NEW k \in Claim
  PROVE  /\ Durable(k) => Durable(k)'
         /\ \A pc : Bounded(pc, k) => Bounded(pc, k)'
<1>1. PICK s \in Sessions, n \in {k.run} : s = k.session /\ n = k.run
  BY DEF Claim
<1>2. EventsOf(s, n) \subseteq EventsOf(s, n)' /\ IsFiniteSet(terminals')
  BY EventsGrow
<1>3. IsFiniteSet(EventsOf(s, n)') /\ Cardinality(EventsOf(s, n)') \in Nat
  BY <1>2, EventsFiniteNext
<1>4. Cardinality(EventsOf(s, n)) \in Nat
  BY EventsFinite
<1>5. Cardinality(EventsOf(s, n)) <= Cardinality(EventsOf(s, n)')
  BY <1>2, <1>3, FS_Subset
<1> QED BY <1>1, <1>2, <1>3, <1>4, <1>5 DEF Durable, Bounded

LEMMA BoundaryNext ==
  ASSUME TypeOK, TypeOK', ResumeTypeOK, ResumeTypeOK', SourceIsThere, BoundaryFacts,
         [ContinuationNext]_allVars
  PROVE  BoundaryFacts'
<1>1. /\ resume \in [Clients -> Resume] /\ claims \subseteq Claim
      /\ \A c \in Clients : resume[c].claim \in Claim
  BY DEF ResumeTypeOK, Resume
<1>2. /\ IsFiniteSet(terminals) /\ IsFiniteSet(terminals')
      /\ \A c \in Clients : Bounded(resume[c].pc, resume[c].claim)
      /\ \A k \in claims : Durable(k)
  BY EventsGrow DEF BoundaryFacts, BoundaryIsDurable, Bounded, Durable
<1>3. ASSUME \A c \in Clients : Bounded(resume[c].pc, resume[c].claim)', \A k \in claims' : Durable(k)'
      PROVE  BoundaryFacts'
  BY <1>2, <1>3 DEF BoundaryFacts, BoundaryIsDurable, Bounded, Durable
<1>4. ASSUME NEW c \in Clients, resume'[c] = resume[c] PROVE Bounded(resume[c].pc, resume[c].claim)'
  <2>1. PICK k \in Claim, pc \in {resume[c].pc} : k = resume[c].claim
    BY <1>1
  <2>2. Bounded(pc, k)'
    BY <1>2, <2>1, BoundaryStays
  <2> QED BY <1>4, <2>1, <2>2
<1>5. \A k \in claims : Durable(k)'
  BY <1>1, <1>2, BoundaryStays
<1>6. CASE Pass
  <2>1. ASSUME NEW c \in Clients PROVE Bounded(resume[c].pc, resume[c].claim)'
    <3>1. CASE resume'[c] = NoResume
      BY <3>1 DEF NoResume, Bounded
    <3> QED BY <1>4, <1>6, <3>1 DEF Pass
  <2> QED BY <1>3, <1>5, <1>6, <2>1 DEF Pass
<1>7. ASSUME NEW c \in Clients, NEW k, Alters(c, k), claims' = claims, Bounded(k.pc, k.claim)'
      PROVE  BoundaryFacts'
  <2>1. ASSUME NEW d \in Clients PROVE Bounded(resume[d].pc, resume[d].claim)'
    <3>1. CASE d # c
      BY <1>1, <1>4, <1>7, <3>1 DEF Alters
    <3>2. CASE d = c
      <4>1. resume'[d] = k
        BY <1>1, <1>7, <3>2 DEF Alters
      <4> QED BY <1>7, <4>1
    <3> QED BY <3>1, <3>2
  <2> QED BY <1>3, <1>5, <1>7, <2>1
<1>8. NoResume.pc = "idle"
  BY DEF NoResume
<1>9. ASSUME NEW c \in Clients, NEW s \in Sessions, NEW n \in Counts, RequestResume(c, s, n)
      PROVE  BoundaryFacts'
  <2>1. PICK k : Alters(c, k) /\ k.pc = "tip"
    BY <1>9, RequestResumeEffect
  <2>2. Bounded(k.pc, k.claim)'
    BY <2>1 DEF Bounded
  <2> QED BY <1>7, <1>9, <2>1, <2>2 DEF RequestResume
<1>10. ASSUME NEW c \in Clients, ReadSource(c) PROVE BoundaryFacts'
  <2>1. PICK k : Alters(c, k) /\ k.pc \in {"idle", "count"}
    BY <1>8, <1>10, ReadSourceEffect
  <2>2. Bounded(k.pc, k.claim)'
    BY <2>1 DEF Bounded
  <2> QED BY <1>7, <1>10, <2>1, <2>2 DEF ReadSource
<1>11. ASSUME NEW c \in Clients, NEW k, Alters(c, k), claims' = claims, Bounded(k.pc, k.claim)
       PROVE  BoundaryFacts'
  <2>1. k.claim \in Claim
    BY <1>11 DEF Alters, Resume
  <2>2. Bounded(k.pc, k.claim)'
    BY <1>2, <1>11, <2>1, BoundaryStays
  <2> QED BY <1>7, <1>11, <2>2
<1>12. ASSUME NEW c \in Clients, CountEvents(c) PROVE BoundaryFacts'
  <2>1. PICK k : /\ Alters(c, k)
                 /\ \/ k = NoResume
                    \/ /\ k.pc = "content" /\ k.claim.highWater # 0
                       /\ k.claim.highWater = Cardinality(EventsOf(k.claim.session, k.claim.run))
    BY <1>2, <1>12, CountEventsEffect
  <2>2. Bounded(k.pc, k.claim)
    <3>1. k.claim.highWater \in Nat
      BY <2>1 DEF Alters, Resume, Claim
    <3> QED BY <1>8, <2>1, <3>1 DEF Bounded
  <2> QED BY <1>11, <1>12, <2>1, <2>2 DEF CountEvents
<1>13. ASSUME NEW c \in Clients, NEW k, Alters(c, k), claims' = claims,
              k.pc \in {"target", "prefix"}, resume[c].pc \in {"content", "target"},
              k.claim.highWater = resume[c].claim.highWater, k.claim.session = resume[c].claim.session,
              k.claim.run = resume[c].claim.run
       PROVE  BoundaryFacts'
  <2>1. Bounded(k.pc, k.claim)
    BY <1>2, <1>13 DEF Bounded
  <2> QED BY <1>11, <1>13, <2>1
<1>14. ASSUME NEW c \in Clients, ReadContent(c) PROVE BoundaryFacts'
  <2>1. resume[c].pc = "content" /\ claims' = claims
    BY <1>14 DEF ReadContent
  <2> QED BY <1>13, <1>14, <2>1, ReadContentEffect
<1>15. ASSUME NEW c \in Clients, NumberTarget(c) PROVE BoundaryFacts'
  <2>1. resume[c].pc = "target" /\ claims' = claims
    BY <1>15 DEF NumberTarget
  <2> QED BY <1>13, <1>15, <2>1, NumberTargetEffect
<1>16. ASSUME NEW c \in Clients, ReadPrefix(c) PROVE BoundaryFacts'
  <2>1. resume[c].pc = "prefix" /\ claims' = claims
    BY <1>16 DEF ReadPrefix
  <2>2. PICK k : /\ Alters(c, k) /\ k.pc = "claim"
                 /\ k.claim.session = resume[c].claim.session /\ k.claim.run = resume[c].claim.run
                 /\ k.claim.highWater = resume[c].claim.highWater
                 /\ k.claim.prefix = EventsOf(k.claim.session, k.claim.run)
    BY <1>2, <1>16, ReadPrefixEffect
  <2>3. Bounded(k.pc, k.claim)
    BY <1>2, <2>1, <2>2 DEF Bounded
  <2> QED BY <1>11, <2>1, <2>2, <2>3
<1>17. ASSUME NEW c \in Clients, RecordClaim(c) PROVE BoundaryFacts'
  <2>1. PICK k : Alters(c, k) /\ k.pc = "begin" /\ k.claim = resume[c].claim
    BY <1>17, RecordClaimEffect
  <2>2. resume'[c] = k /\ \A d \in Clients : d # c => resume'[d] = resume[d]
    BY <1>1, <2>1 DEF Alters
  <2>3. Bounded(resume[c].pc, resume[c].claim)'
    BY <2>1, <2>2 DEF Bounded
  <2>4. resume[c].pc = "claim" /\ claims' \subseteq claims \cup {resume[c].claim}
    BY <1>17 DEF RecordClaim
  <2>5. Durable(resume[c].claim) /\ resume[c].claim \in Claim
    BY <1>1, <1>2, <2>4 DEF Bounded, Durable
  <2>6. PICK m \in Claim : m = resume[c].claim /\ Durable(m)'
    BY <1>2, <2>5, BoundaryStays
  <2>7. \A x \in claims' : Durable(x)'
    BY <1>5, <2>4, <2>6
  <2>8. \A d \in Clients : Bounded(resume[d].pc, resume[d].claim)'
    BY <1>4, <2>2, <2>3
  <2> QED BY <1>3, <2>7, <2>8
<1> QED BY <1>6, <1>9, <1>10, <1>12, <1>14, <1>15, <1>16, <1>17, StepCases DEF ResumeStep

-----------------------------------------------------------------------------
(* The theorem on boundaries.                                              *)

\* ContinuationInv but for ClaimFacts.
Grounded ==
    /\ Coordinated
    /\ ResumeTypeOK /\ OneRequest /\ UsedIsLoaded /\ RowIsTold /\ SourceIsThere /\ BoundaryFacts

LEMMA GroundedInit == ContinuationInit => Grounded
<1> SUFFICES ASSUME ContinuationInit PROVE Grounded
  OBVIOUS
<1>1. Init /\ Coordinated
  BY TypeInit, EntryInit, ChainInit, OwnedInit, ConversationInit DEF ContinuationInit, Coordinated
<1>2. ResumeTypeOK
  BY NoResumeType DEF ContinuationInit, ResumeTypeOK, NotContinued, NoTurn
<1>3. OneRequest /\ SourceIsThere
  BY DEF ContinuationInit, OneRequest, SourceIsThere, NoResume
<1>4. UsedIsLoaded /\ RowIsTold
  BY <1>1 DEF Init, UsedIsLoaded, RowIsTold, Live, LivePhases, Idle, UnusedTurn
<1>5. BoundaryFacts
  BY <1>1, FS_EmptySet DEF ContinuationInit, Init, BoundaryFacts, BoundaryIsDurable, NoResume
<1> QED BY <1>1, <1>2, <1>3, <1>4, <1>5 DEF Grounded

LEMMA GroundedNext ==
  ASSUME Grounded, [ContinuationNext]_allVars
  PROVE  Grounded'
<1>1. Coordinated' /\ TypeOK /\ TypeOK' /\ EntryFacts /\ IsFiniteSet(terminals)
  BY CoordinatedNext DEF Grounded, Coordinated, BoundaryFacts
<1>2. ResumeTypeOK'
  BY <1>1, ResumeTypeNext DEF Grounded
<1>3. OneRequest' /\ SourceIsThere'
  BY <1>1, OneRequestNext, SourceNext DEF Grounded
<1>4. UsedIsLoaded' /\ RowIsTold'
  BY <1>1, UsedNext, RowIsToldNext DEF Grounded
<1>5. BoundaryFacts'
  BY <1>1, <1>2, BoundaryNext DEF Grounded
<1> QED BY <1>1, <1>2, <1>3, <1>4, <1>5 DEF Grounded

\* The boundary that turn.resume.start writes into a claim stays durable: at all times the
\* store holds the events the claim counted and digested.
THEOREM BoundariesAlwaysDurable == ContinuationSpec => []BoundaryIsDurable
<1>1. Grounded => BoundaryIsDurable
  BY DEF Grounded, BoundaryFacts
<1> QED BY <1>1, GroundedInit, GroundedNext, PTL DEF ContinuationSpec

\* Under resume requests, which load sessions and make turn requests of their own, the
\* coordinator keeps what it promises of the admission chain and of owned sessions.
THEOREM CoordinatorHoldsUnderResumes ==
  ContinuationSpec => [](ChainClosed /\ RunIsAdmitted /\ EntryIsLive /\ OneTurnPerOwnedSession
                         /\ ToldIsRun /\ NoLostUpdate)
<1>1. Grounded => ChainClosed /\ RunIsAdmitted /\ EntryIsLive /\ ToldIsRun /\ NoLostUpdate
  BY DEF Grounded, Coordinated, ChainFacts, EntryFacts, ConversationFacts
<1>2. Grounded => OneTurnPerOwnedSession
  BY DEF Grounded, Coordinated, TypeOK, Turn, OwnedFacts, OwnedTableExact, OneTurnPerOwnedSession
<1> QED BY <1>1, <1>2, GroundedInit, GroundedNext, PTL DEF ContinuationSpec

-----------------------------------------------------------------------------
(* The reads of a continuation.                                            *)

TipOf(R) == CHOOSE r \in R : \A q \in R : r.at > q.at \/ (r.at = q.at /\ r.by <= q.by)

\* What the reads of a session find is as it was.
Same(s) ==
    /\ active'[s] = active[s]
    /\ Tip(s)' = Tip(s)
    /\ \A n : EventsOf(s, n)' = EventsOf(s, n)
    /\ s \in loaded => s \in loaded' /\ msgs'[s] = msgs[s]

LEMMA SameFrame ==
  ASSUME NEW s, active'[s] = active[s], Rows(s)' = Rows(s), ledger'[s] = ledger[s],
         {r \in terminals' : r.session = s} = {r \in terminals : r.session = s},
         s \in loaded => s \in loaded' /\ msgs'[s] = msgs[s]
  PROVE  Same(s)
<1>1. Tip(s) = TipOf(Rows(s)) /\ Tip(s)' = TipOf(Rows(s)')
  BY DEF Tip, TipOf
<1>2. Tip(s)' = Tip(s)
  BY <1>1
<1>3. ASSUME NEW n PROVE EventsOf(s, n)' = EventsOf(s, n)
  <2>1. {r \in terminals' : r.session = s /\ r.run = n} = {r \in terminals : r.session = s /\ r.run = n}
    OBVIOUS
  <2> QED BY <2>1 DEF EventsOf
<1> QED BY <1>2, <1>3 DEF Same

\* A session with no live turn, whose requests do not move, is left alone by a step of the
\* coordinator that is no crash.
LEMMA CalmStep ==
  ASSUME TypeOK, [Next]_vars, crashes' = crashes, NEW s \in Sessions,
         \A t \in TurnIds : turn[t].session = s => turn[t].phase \notin LivePhases,
         \A c \in Clients : req[c].session = s /\ req[c].pc # "idle" => req'[c] = req[c]
  PROVE  Same(s)
<1>1. /\ active \in [Sessions -> TurnIds \cup {NoTurn}] /\ msgs \in [Sessions -> Seq(Message)]
      /\ ledger \in [Sessions -> Seq(ConversationRow)] /\ req \in [Clients -> Request]
      /\ turn \in [TurnIds -> Turn] /\ crashes \in Nat
  BY CoordinatorAssumption DEF TypeOK
<1>2. ASSUME UNCHANGED <<active, loaded, msgs, chain, ledger, terminals>> PROVE Same(s)
  <2>1. Rows(s)' = Rows(s)
    BY <1>2 DEF Rows
  <2> QED BY <1>2, <2>1, SameFrame
<1>3. ASSUME NEW c \in Clients, CheckActive(c) \/ CheckCatalog(c) \/ ReadTip(c) PROVE Same(s)
  BY <1>2, <1>3 DEF CheckActive, CheckCatalog, ReadTip, managers
<1>4. ASSUME NEW c \in Clients, ResolveIdentity(c) PROVE Same(s)
  <2>1. PICK n : req' = [req EXCEPT ![c] = [req[c] EXCEPT !.pc = "tip", !.n = n]]
    BY <1>4 DEF ResolveIdentity
  <2>2. req[c].pc = "resolve" /\ req'[c].pc = "tip"
    BY <1>1, <1>4, <2>1 DEF ResolveIdentity, Request
  <2>3. PICK z \in Sessions : z = req[c].session /\ z # s
    BY <1>1, <2>2 DEF Request
  <2>4. /\ loaded \subseteq loaded' /\ UNCHANGED <<active, chain, ledger, terminals>>
        /\ msgs' = msgs \/ msgs' = [msgs EXCEPT ![z] = Projection(z)]
    BY <1>4, <2>3 DEF ResolveIdentity
  <2>5. msgs'[s] = msgs[s] /\ Rows(s)' = Rows(s)
    BY <1>1, <2>3, <2>4 DEF Rows
  <2> QED BY <2>4, <2>5, SameFrame
<1>5. ASSUME NEW c \in Clients, Admit(c) PROVE Same(s)
  <2>1. req[c].pc = "admit" /\ req'[c].pc = "spawn"
    BY <1>1, <1>5 DEF Admit, Request
  <2>2. req[c].session # s
    BY <2>1
  <2>3. PICK at : chain' = Extend([session |-> req[c].session, turn |-> req[c].n,
                                   prev |-> req[c].prev, at |-> at, by |-> admitted + 1])
    BY <1>5 DEF Admit
  <2>4. PICK row : row = [session |-> req[c].session, turn |-> req[c].n,
                          prev |-> req[c].prev, at |-> at, by |-> admitted + 1]
    OBVIOUS
  <2>5. row.session # s /\ chain' = Extend(row)
    BY <2>2, <2>3, <2>4
  <2>6. Rows(s)' = Rows(s)
    BY <2>5 DEF Rows, Extend
  <2> QED BY <1>5, <2>6, SameFrame DEF Admit, managers
<1>6. ASSUME NEW c \in Clients, Spawn(c) PROVE Same(s)
  <2>1. req[c].pc = "spawn" /\ req'[c].pc = "idle"
    BY <1>1, <1>6 DEF Spawn, Idle
  <2>2. req[c].session # s
    BY <2>1
  <2>3. active'[s] = active[s] /\ Rows(s)' = Rows(s)
    BY <1>1, <1>6, <2>2 DEF Spawn, Rows
  <2> QED BY <1>6, <2>3, SameFrame DEF Spawn, managers
<1>7. ASSUME NEW t \in TurnIds, DrainStep(t) PROVE Same(s)
  <2>1. turn[t].phase \in LivePhases
    BY <1>7 DEF DrainStep, StartRun, Reply, EndRun, BeginFinalize, SaveEvent, Finalize, Release, LivePhases
  <2>2. PICK z \in Sessions : z = turn[t].session /\ z # s
    BY <1>1, <2>1 DEF Turn
  <2>3. chain' = chain /\ loaded' = loaded
    BY <1>7 DEF DrainStep, StartRun, Reply, EndRun, BeginFinalize, SaveEvent, Finalize, Release, managers
  <2>4. \E m : msgs' = msgs \/ msgs' = [msgs EXCEPT ![z] = m]
    BY <1>7, <2>2 DEF DrainStep, StartRun, Reply, EndRun, BeginFinalize, SaveEvent, Finalize, Release, managers
  <2>5. \E m : ledger' = ledger \/ ledger' = [ledger EXCEPT ![z] = m]
    BY <1>7, <2>2 DEF DrainStep, StartRun, Reply, EndRun, BeginFinalize, SaveEvent, Finalize, Release
  <2>6. active' = active \/ active' = [active EXCEPT ![z] = NoTurn]
    BY <1>7, <2>2 DEF DrainStep, StartRun, Reply, EndRun, BeginFinalize, SaveEvent, Finalize, Release
  <2>7. \E x : x.session = z /\ (terminals' = terminals \/ terminals' = terminals \cup {x})
    <3>1. Terminal(t).session = z
      BY <2>2 DEF Terminal
    <3> QED BY <1>7, <3>1 DEF DrainStep, StartRun, Reply, EndRun, BeginFinalize, SaveEvent, Finalize, Release
  <2>8. msgs'[s] = msgs[s] /\ ledger'[s] = ledger[s] /\ active'[s] = active[s]
    BY <1>1, <2>2, <2>4, <2>5, <2>6
  <2>9. {r \in terminals' : r.session = s} = {r \in terminals : r.session = s}
    BY <2>2, <2>7
  <2>10. Rows(s)' = Rows(s)
    BY <2>3 DEF Rows
  <2> QED BY <2>3, <2>8, <2>9, <2>10, SameFrame
<1>8. ~Crash
  BY <1>1 DEF Crash
<1> QED
  <2>1. CASE \E c \in Clients : RequestStep(c)
    BY <1>3, <1>4, <1>5, <1>6, <2>1 DEF RequestStep
  <2>2. CASE \E c \in Clients, z \in Sessions : StartRequest(c, z) \/ StopTurn(c, z)
    BY <1>2, <2>2 DEF StartRequest, StopTurn, managers
  <2>3. CASE (\E z \in Sessions : SetLifecycle(z)) \/ Tick \/ UNCHANGED vars
    BY <1>2, <2>3 DEF SetLifecycle, Tick, vars, managers
  <2> QED BY <1>7, <1>8, <2>1, <2>2, <2>3 DEF Next, SteadyNext

\* A resume request of an owned session that was quiet is alone in it: no other request,
\* no live turn, and no admitted one but its own.
LEMMA ResumeIsAlone ==
  ASSUME Grounded, NEW c \in Clients, ReadsAgree(c), resume[c].pc # "idle", resume[c].quiet,
         NEW s \in Sessions, s = resume[c].claim.session, Owned(s)
  PROVE  /\ active[s] = NoTurn
         /\ \A d \in Clients : req[d].session = s /\ req[d].pc # "idle" => d = c /\ resume[c].pc = "begin"
         /\ \A d \in Clients : resume[d].pc # "idle" /\ resume[d].claim.session = s => d = c
         /\ \A t \in TurnIds : turn[t].session = s => turn[t].phase \notin LivePhases
<1>1. <<c, s>> \in MayUse
  BY DEF Grounded, OneRequest
<1>2. \A d \in Clients : req[d].session = s /\ req[d].pc # "idle" => d = c /\ resume[c].pc = "begin"
  BY <1>1 DEF Grounded, Coordinated, OwnedFacts, RequestsAllowed, OneRequest, Owned
<1>3. \A d \in Clients : resume[d].pc # "idle" /\ resume[d].claim.session = s => d = c
  BY <1>1 DEF Grounded, OneRequest, Owned
<1>4. active[s] = NoTurn
  <2>1. CASE resume[c].pc = "begin" /\ req[c].pc = "spawn"
    <3>1. req[c].session = s
      BY <2>1 DEF Grounded, OneRequest
    <3> QED BY <2>1, <3>1 DEF Grounded, Coordinated, OwnedFacts, OwnedTableExact
  <2>2. CASE resume[c].pc # "begin" \/ req[c].pc # "spawn"
    BY <2>2 DEF ReadsAgree
  <2> QED BY <2>1, <2>2
<1>5. \A t \in TurnIds : turn[t].session = s => turn[t].phase \notin LivePhases
  BY <1>4 DEF Grounded, Coordinated, OwnedFacts, OwnedTableExact, Live, TurnIds, NoTurn
<1> QED BY <1>2, <1>3, <1>4, <1>5

\* A turn keeps its number.
Numbers == \A t \in TurnIds : turn[t].phase # "unused" =>
                turn'[t].phase # "unused" /\ turn'[t].told = turn[t].told

\* Where a request and what it reads are as they were, its reads agree as they did.
LEMMA AgreeFrame ==
  ASSUME Grounded, NEW c \in Clients, ReadsAgree(c), resume'[c] = resume[c], req'[c] = req[c],
         NEW s \in Sessions, s = resume[c].claim.session, Same(s), Numbers
  PROVE  ReadsAgree(c)'
<1>1. PICK r, q : r = resume[c] /\ q = req[c] /\ r = resume'[c] /\ q = req'[c]
  OBVIOUS
<1>2. SUFFICES ASSUME r.pc # "idle", r.quiet, Owned(s) PROVE ReadsAgree(c)'
  BY <1>1 DEF ReadsAgree, Owned
<1>3. q.pc = "spawn" => q.turn \in TurnIds /\ turn[q.turn].phase = "admitted"
  BY <1>1 DEF Grounded, Coordinated, EntryFacts, RequestOwnsAdmission
<1>4. q.pc = "spawn" => turn'[q.turn].told = turn[q.turn].told
  BY <1>3 DEF Numbers
<1>5. Repeats(r.by, r.claim) => Repeats(r.by, r.claim)'
  BY DEF Repeats, Numbers
<1>6. /\ active'[s] = active[s] /\ Tip(s)' = Tip(s)
      /\ EventsOf(s, r.claim.run)' = EventsOf(s, r.claim.run)
      /\ s \in loaded => s \in loaded' /\ msgs'[s] = msgs[s]
  BY DEF Same
<1> QED BY <1>1, <1>2, <1>4, <1>5, <1>6 DEF ReadsAgree

\* Before the turn request of a claim is numbered, its session is as the claim has it;
\* each step of the request then takes the number on.
LEMMA AgreeMoves ==
  ASSUME Grounded, Grounded', NEW c \in Clients, ReadsAgree(c), resume'[c] = resume[c], RequestStep(c),
         req'[c].pc # "idle", NEW s \in Sessions, s = resume[c].claim.session, Numbers,
         resume[c].quiet, resume[c].pc # "idle", Owned(s)
  PROVE  ReadsAgree(c)'
<1>1. req \in [Clients -> Request] /\ turn \in [TurnIds -> Turn] /\ req[c].pc # "idle"
  BY RequestMoves DEF Grounded, Coordinated, TypeOK
<1>2. resume[c].pc = "begin" /\ req[c].session = s
  BY <1>1 DEF Grounded, OneRequest
<1>3. active[s] = NoTurn
  BY ResumeIsAlone
<1>4. PICK k : k = resume[c].claim /\ k = resume'[c].claim
  OBVIOUS
<1>5. Repeats(resume[c].by, k)' /\ k.highWater = Cardinality(k.prefix)
  BY <1>2, <1>4 DEF ReadsAgree, Repeats, Numbers
<1>6. ASSUME active'[s] = NoTurn,
             req'[c].pc \in {"active", "catalog", "resolve"} =>
               s \in loaded' /\ k.target = Len(msgs'[s]) + 1,
             req'[c].pc \in {"tip", "admit"} => req'[c].n = k.target,
             req'[c].pc = "spawn" => turn'[req'[c].turn].told = k.target
      PROVE  ReadsAgree(c)'
  BY <1>2, <1>4, <1>5, <1>6 DEF ReadsAgree
<1>7. CASE CheckActive(c) \/ CheckCatalog(c)
  <2>1. /\ req[c].pc \in {"active", "catalog"} /\ req'[c].pc \in {"catalog", "resolve"}
        /\ UNCHANGED <<active, loaded, msgs>>
    BY <1>1, <1>7 DEF CheckActive, CheckCatalog, Refuse, Idle, Request, managers
  <2>2. s \in loaded /\ k.target = Len(msgs[s]) + 1
    BY <1>2, <1>4, <2>1 DEF ReadsAgree
  <2> QED BY <1>3, <1>6, <2>1, <2>2
<1>8. CASE ResolveIdentity(c)
  <2>1. s \in loaded /\ k.target = Len(msgs[s]) + 1
    BY <1>2, <1>4, <1>8 DEF ReadsAgree, ResolveIdentity
  <2>2. msgs' = msgs /\ active' = active
    BY <1>2, <1>8, <2>1 DEF ResolveIdentity
  <2>3. PICK n : n = Len(msgs'[s]) + 1
    OBVIOUS
  <2>4. req' = [req EXCEPT ![c] = [req[c] EXCEPT !.pc = "tip", !.n = n]]
    BY <1>2, <1>8, <2>3, Zenon DEF ResolveIdentity
  <2>5. req'[c].pc = "tip" /\ req'[c].n = n
    BY <1>1, <2>4 DEF Request
  <2> QED BY <1>3, <1>6, <2>1, <2>2, <2>3, <2>5
<1>9. CASE ReadTip(c)
  <2>1. req[c].pc = "tip" /\ req'[c].pc = "admit" /\ req'[c].n = req[c].n /\ active' = active
    BY <1>1, <1>9 DEF ReadTip, Request
  <2>2. req[c].n = k.target
    BY <1>2, <1>4, <2>1 DEF ReadsAgree
  <2> QED BY <1>3, <1>6, <2>1, <2>2
<1>10. CASE Admit(c)
  <2>1. /\ req[c].pc = "admit" /\ req'[c].pc = "spawn" /\ req'[c].turn = admitted + 1 /\ active' = active
        /\ admitted + 1 \in TurnIds
    BY <1>1, <1>10 DEF Admit, Request
  <2>2. req[c].n = k.target
    BY <1>2, <1>4, <2>1 DEF ReadsAgree
  <2>3. PICK m : m = [UnusedTurn EXCEPT !.phase = "admitted", !.session = req[c].session, !.told = req[c].n]
    OBVIOUS
  <2>4. m.told = req[c].n
    BY <2>3, UnusedTurnType DEF Turn
  <2>5. turn'[admitted + 1] = m
    BY <1>1, <1>10, <2>1, <2>3 DEF Admit
  <2> QED BY <1>3, <1>6, <2>1, <2>2, <2>4, <2>5
<1>11. ~Spawn(c)
  <2>1. Spawn(c) => req'[c] = Idle
    BY <1>1 DEF Spawn
  <2> QED BY <2>1 DEF Idle
<1> QED BY <1>7, <1>8, <1>9, <1>10, <1>11 DEF RequestStep

LEMMA NumbersStay ==
  ASSUME Grounded, [ContinuationNext]_allVars
  PROVE  Numbers
<1>1. CASE [Next]_vars
  BY <1>1, TurnStays DEF Grounded, Coordinated, Numbers
<1>2. CASE \E c \in Clients : NumberTarget(c) \/ RecordClaim(c)
  BY <1>2 DEF NumberTarget, RecordClaim, Numbers
<1> QED BY <1>1, <1>2, StepKinds

\* A step of another connection leaves the reads of a request in agreement.
LEMMA AgreeOther ==
  ASSUME Grounded, Grounded', Numbers, [ContinuationNext]_allVars, NEW c \in Clients, ReadsAgree(c),
         resume'[c] = resume[c], NEW s \in Sessions, s = resume[c].claim.session,
         resume[c].quiet, resume[c].pc # "idle", Owned(s)
  PROVE  ReadsAgree(c)'
<1>1. /\ \A d \in Clients : req[d].session = s /\ req[d].pc # "idle" => d = c /\ resume[c].pc = "begin"
      /\ \A d \in Clients : resume[d].pc # "idle" /\ resume[d].claim.session = s => d = c
      /\ \A t \in TurnIds : turn[t].session = s => turn[t].phase \notin LivePhases
  BY ResumeIsAlone
<1>2. TypeOK /\ ResumeTypeOK
  BY DEF Grounded, Coordinated
<1>3. ASSUME [Next]_vars, crashes' = crashes, req'[c] = req[c] PROVE ReadsAgree(c)'
  <2>1. Same(s)
    BY <1>1, <1>2, <1>3, CalmStep
  <2> QED BY <1>3, <2>1, AgreeFrame
<1>4. CASE Pass
  <2>1. Moves(c) /\ [Next]_vars
    BY <1>4 DEF Pass, NoResume
  <2> QED BY <1>3, <2>1, AgreeMoves DEF Moves
<1>5. ASSUME UNCHANGED vars PROVE ReadsAgree(c)'
  BY <1>3, <1>5 DEF vars
<1>6. ASSUME NEW d \in Clients, NumberTarget(d) PROVE ReadsAgree(c)'
  <2>1. d # c
    <3>1. PICK k : Alters(d, k) /\ k.pc = "prefix"
      BY <1>2, <1>6, NumberTargetEffect DEF Grounded, Coordinated
    <3>2. resume'[d] = k /\ resume[d].pc = "target"
      BY <1>2, <1>6, <3>1 DEF Alters, ResumeTypeOK, NumberTarget
    <3> QED BY <3>1, <3>2
  <2>2. PICK z \in Sessions : z = resume[d].claim.session /\ z # s
    BY <1>1, <1>2, <1>6, <2>1 DEF ResumeTypeOK, Resume, Claim, NumberTarget
  <2>3. /\ loaded \subseteq loaded' /\ UNCHANGED <<active, chain, ledger, terminals, req>>
        /\ msgs' = msgs \/ msgs' = [msgs EXCEPT ![z] = Projection(z)]
    BY <1>6, <2>2 DEF NumberTarget
  <2>4. msgs'[s] = msgs[s] /\ Rows(s)' = Rows(s)
    BY <1>2, <2>2, <2>3 DEF TypeOK, Rows
  <2>5. Same(s)
    BY <2>3, <2>4, SameFrame
  <2> QED BY <2>3, <2>5, AgreeFrame
<1>7. ASSUME NEW d \in Clients, RecordClaim(d) PROVE ReadsAgree(c)'
  <2>1. d # c
    <3>1. PICK k : Alters(d, k) /\ k.pc = "begin"
      BY <1>2, <1>7, RecordClaimEffect
    <3>2. resume'[d] = k /\ resume[d].pc = "claim"
      BY <1>2, <1>7, <3>1 DEF Alters, ResumeTypeOK, RecordClaim
    <3> QED BY <3>1, <3>2
  <2>2. req'[c] = req[c] /\ Rows(s)' = Rows(s)
    BY <1>2, <1>7, <2>1 DEF RecordClaim, TypeOK, Rows
  <2>3. Same(s)
    BY <1>7, <2>2, SameFrame DEF RecordClaim, managers
  <2> QED BY <2>2, <2>3, AgreeFrame
<1> QED
  <2>1. ASSUME NEW d \in Clients, ResumeStep(d) PROVE ReadsAgree(c)'
    BY <1>5, <1>6, <1>7, <2>1 DEF ResumeStep, ReadSource, CountEvents, ReadContent, ReadPrefix
  <2>2. ASSUME NEW d \in Clients, NEW z \in Sessions, NEW n \in Counts, RequestResume(d, z, n)
        PROVE  ReadsAgree(c)'
    BY <1>5, <2>2 DEF RequestResume
  <2> QED BY <1>2, <1>4, <2>1, <2>2, StepCases

\* A read of the request itself finds what the reads before it found.
LEMMA AgreeOwn ==
  ASSUME Grounded, Grounded', NEW c \in Clients, ReadsAgree(c), UNCHANGED vars,
         \/ \E s \in Sessions, n \in Counts : RequestResume(c, s, n)
         \/ ReadSource(c) \/ CountEvents(c) \/ ReadContent(c) \/ ReadPrefix(c)
  PROVE  ReadsAgree(c)'
<1>1. /\ TypeOK /\ ResumeTypeOK /\ SourceIsThere /\ IsFiniteSet(terminals)
      /\ resume \in [Clients -> Resume]
  BY DEF Grounded, Coordinated, BoundaryFacts, ResumeTypeOK
<1>2. /\ active' = active /\ chain' = chain /\ ledger' = ledger /\ terminals' = terminals
      /\ turn' = turn /\ loaded' = loaded /\ msgs' = msgs
  BY DEF vars
<1>3. /\ \A s : Tip(s)' = Tip(s) /\ \A n : EventsOf(s, n)' = EventsOf(s, n)
      /\ \A b, k : Repeats(b, k)' <=> Repeats(b, k)
  BY <1>2 DEF Tip, Rows, EventsOf, Repeats
<1>4. ASSUME NEW k, Alters(c, k), k = NoResume PROVE ReadsAgree(c)'
  BY <1>1, <1>4 DEF Alters, NoResume, ReadsAgree
<1>5. ASSUME NEW s \in Sessions, NEW n \in Counts, RequestResume(c, s, n) PROVE ReadsAgree(c)'
  <2>1. PICK k : Alters(c, k) /\ k.pc = "tip" /\ k.quiet = (active[s] = NoTurn) /\ k.claim.session = s
    BY <1>1, <1>5, RequestResumeEffect
  <2>2. resume'[c] = k
    BY <1>1, <2>1 DEF Alters
  <2> QED BY <1>2, <2>1, <2>2 DEF ReadsAgree
<1>6. ASSUME ReadSource(c) PROVE ReadsAgree(c)'
  <2>1. PICK k : /\ Alters(c, k)
                 /\ \/ k = NoResume
                    \/ /\ k.pc = "count" /\ k.quiet = resume[c].quiet
                       /\ k.claim.session = resume[c].claim.session
                       /\ k.claim.run = Tip(k.claim.session).turn
    BY <1>1, <1>6, ReadSourceEffect
  <2>2. resume'[c] = k /\ resume[c].pc = "tip"
    BY <1>1, <1>6, <2>1 DEF Alters, ReadSource
  <2>3. CASE k # NoResume
    BY <1>2, <1>3, <2>1, <2>2, <2>3 DEF ReadsAgree
  <2> QED BY <1>4, <2>1, <2>3
<1>7. ASSUME CountEvents(c) PROVE ReadsAgree(c)'
  <2>1. PICK k : /\ Alters(c, k)
                 /\ \/ k = NoResume
                    \/ /\ k.pc = "content" /\ k.quiet = resume[c].quiet
                       /\ k.claim.session = resume[c].claim.session
                       /\ k.claim.run = resume[c].claim.run
                       /\ k.claim.highWater = Cardinality(EventsOf(k.claim.session, k.claim.run))
    BY <1>1, <1>7, CountEventsEffect
  <2>2. resume'[c] = k /\ resume[c].pc = "count"
    BY <1>1, <1>7, <2>1 DEF Alters, CountEvents
  <2>3. CASE k # NoResume
    BY <1>2, <1>3, <2>1, <2>2, <2>3 DEF ReadsAgree
  <2> QED BY <1>4, <2>1, <2>3
<1>8. ASSUME ReadContent(c) PROVE ReadsAgree(c)'
  <2>1. PICK k : /\ Alters(c, k)
                 /\ k.pc = "target" /\ k.quiet = resume[c].quiet
                 /\ k.claim.session = resume[c].claim.session
                 /\ k.claim.run = resume[c].claim.run
                 /\ k.claim.highWater = resume[c].claim.highWater
                 /\ k.by = Tip(k.claim.session).by
                 /\ k.claim.invocation = Tip(k.claim.session).turn
    BY <1>1, <1>8, ReadContentEffect
  <2>2. resume'[c] = k /\ resume[c].pc = "content"
    BY <1>1, <1>8, <2>1 DEF Alters, ReadContent
  <2>3. PICK s \in Sessions : s = k.claim.session
    BY <2>1 DEF Alters, Resume, Claim
  <2>4. Rows(s) # {}
    BY <1>1, <2>1, <2>2, <2>3 DEF SourceIsThere
  <2>5. Tip(s) \in chain /\ chain \subseteq AdmissionRow
    BY <1>1, <2>4, TipIsRow DEF TypeOK, Rows
  <2>6. turn[k.by].phase # "unused" /\ turn[k.by].told = Tip(s).turn /\ k.by \in TurnIds
    BY <2>1, <2>3, <2>5 DEF Grounded, RowIsTold, AdmissionRow
  <2>7. k.claim.run = Tip(s).turn => Repeats(k.by, k.claim)
    BY <2>1, <2>3, <2>6 DEF Repeats
  <2> QED BY <1>2, <1>3, <2>1, <2>2, <2>3, <2>7 DEF ReadsAgree
<1>9. ASSUME ReadPrefix(c) PROVE ReadsAgree(c)'
  <2>1. PICK k : /\ Alters(c, k)
                 /\ k.pc = "claim" /\ k.quiet = resume[c].quiet /\ k.by = resume[c].by
                 /\ k.claim.session = resume[c].claim.session
                 /\ k.claim.run = resume[c].claim.run
                 /\ k.claim.highWater = resume[c].claim.highWater
                 /\ k.claim.invocation = resume[c].claim.invocation
                 /\ k.claim.target = resume[c].claim.target
                 /\ k.claim.prefix = EventsOf(k.claim.session, k.claim.run)
    BY <1>1, <1>9, ReadPrefixEffect
  <2>2. resume'[c] = k /\ resume[c].pc = "prefix"
    BY <1>1, <1>9, <2>1 DEF Alters, ReadPrefix
  <2>3. Repeats(resume[c].by, resume[c].claim) => Repeats(k.by, k.claim)
    BY <2>1 DEF Repeats
  <2> QED BY <1>2, <1>3, <2>1, <2>2, <2>3 DEF ReadsAgree
<1> QED BY <1>5, <1>6, <1>7, <1>8, <1>9

\* The target is numbered after the session's messages, which are then in memory.
LEMMA AgreeTarget ==
  ASSUME Grounded, Grounded', NEW c \in Clients, ReadsAgree(c), NumberTarget(c)
  PROVE  ReadsAgree(c)'
<1>1. resume \in [Clients -> Resume] /\ TypeOK /\ TypeOK' /\ ResumeTypeOK
  BY DEF Grounded, Coordinated, ResumeTypeOK
<1>2. PICK k : /\ Alters(c, k)
               /\ k.pc = "prefix" /\ k.quiet = resume[c].quiet /\ k.by = resume[c].by
               /\ k.claim.session = resume[c].claim.session
               /\ k.claim.run = resume[c].claim.run
               /\ k.claim.highWater = resume[c].claim.highWater
               /\ k.claim.invocation = resume[c].claim.invocation
               /\ k.claim.target = Len(msgs'[k.claim.session]) + 1
  BY <1>1, NumberTargetEffect
<1>3. resume'[c] = k /\ resume[c].pc = "target"
  BY <1>1, <1>2 DEF Alters, NumberTarget
<1>4. /\ active' = active /\ chain' = chain /\ ledger' = ledger /\ terminals' = terminals
      /\ turn' = turn /\ k.claim.session \in loaded'
  BY <1>2 DEF NumberTarget
<1>5. /\ \A s : Tip(s)' = Tip(s) /\ \A n : EventsOf(s, n)' = EventsOf(s, n)
      /\ Repeats(k.by, k.claim)' <=> Repeats(k.by, k.claim)
  BY <1>4 DEF Tip, Rows, EventsOf, Repeats
<1>6. Repeats(resume[c].by, resume[c].claim) => Repeats(k.by, k.claim)
  BY <1>2 DEF Repeats
<1> QED BY <1>2, <1>3, <1>4, <1>5, <1>6 DEF ReadsAgree

\* The turn request of a claim begins as the claim was recorded.
LEMMA AgreeClaim ==
  ASSUME Grounded, Grounded', NEW c \in Clients, ReadsAgree(c), RecordClaim(c)
  PROVE  ReadsAgree(c)'
<1>1. resume \in [Clients -> Resume] /\ req \in [Clients -> Request] /\ ResumeTypeOK
  BY DEF Grounded, Coordinated, ResumeTypeOK, TypeOK
<1>2. PICK k : /\ Alters(c, k) /\ k.pc = "begin" /\ k.quiet = resume[c].quiet /\ k.by = resume[c].by
               /\ k.claim = resume[c].claim
  BY <1>1, RecordClaimEffect
<1>3. resume'[c] = k /\ resume[c].pc = "claim"
  BY <1>1, <1>2 DEF Alters, RecordClaim
<1>4. PICK r : r = [Idle EXCEPT !.pc = "active", !.session = resume[c].claim.session]
  OBVIOUS
<1>5. req'[c] = r /\ r.pc = "active"
  BY <1>1, <1>4 DEF RecordClaim, Idle
<1>6. /\ active' = active /\ turn' = turn /\ loaded' = loaded /\ msgs' = msgs
      /\ Repeats(k.by, k.claim)' <=> Repeats(k.by, k.claim)
  BY DEF RecordClaim, managers, Repeats
<1> QED BY <1>2, <1>3, <1>5, <1>6 DEF ReadsAgree

LEMMA AgreeNext ==
  ASSUME Grounded, Grounded', \A c \in Clients : ReadsAgree(c), [ContinuationNext]_allVars, NEW c \in Clients
  PROVE  ReadsAgree(c)'
<1>1. /\ TypeOK /\ ResumeTypeOK /\ ResumeTypeOK' /\ Numbers
      /\ resume \in [Clients -> Resume]
  BY NumbersStay DEF Grounded, Coordinated, ResumeTypeOK
<1>2. ASSUME resume'[c] = resume[c] PROVE ReadsAgree(c)'
  <2>1. PICK s \in Sessions : s = resume[c].claim.session
    BY <1>1 DEF Resume, Claim
  <2>2. CASE resume[c].pc # "idle" /\ resume[c].quiet /\ Owned(s)
    BY <1>1, <1>2, <2>1, <2>2, AgreeOther
  <2>3. CASE ~(resume[c].pc # "idle" /\ resume[c].quiet /\ Owned(s))
    BY <1>2, <2>1, <2>3 DEF ReadsAgree, Owned
  <2> QED BY <2>2, <2>3
<1>3. CASE Pass
  <2>1. CASE resume'[c] = NoResume
    BY <2>1 DEF ReadsAgree, NoResume
  <2> QED BY <1>2, <1>3, <2>1 DEF Pass
<1>4. ASSUME NEW d \in Clients, NEW s \in Sessions, NEW n \in Counts, RequestResume(d, s, n)
      PROVE  ReadsAgree(c)'
  <2>1. CASE d # c
    BY <1>1, <1>2, <1>4, <2>1 DEF RequestResume
  <2>2. CASE d = c
    BY <1>4, <2>2, AgreeOwn DEF RequestResume
  <2> QED BY <2>1, <2>2
<1>5. ASSUME NEW d \in Clients, ResumeStep(d) PROVE ReadsAgree(c)'
  <2>1. CASE d # c
    <3>1. resume'[c] = resume[c]
      BY <1>1, <1>5, <2>1 DEF ResumeStep, ReadSource, CountEvents, ReadContent, NumberTarget, ReadPrefix,
         RecordClaim, Park
    <3> QED BY <1>2, <3>1
  <2>2. CASE d = c
    <3>1. CASE ReadSource(c) \/ CountEvents(c) \/ ReadContent(c) \/ ReadPrefix(c)
      <4>1. UNCHANGED vars
        BY <3>1 DEF ReadSource, CountEvents, ReadContent, ReadPrefix
      <4> QED BY <3>1, <4>1, AgreeOwn
    <3> QED BY <1>5, <2>2, <3>1, AgreeTarget, AgreeClaim DEF ResumeStep
  <2> QED BY <2>1, <2>2
<1> QED BY <1>1, <1>3, <1>4, <1>5, StepCases

\* A continuation's source is written when its turn is spawned, and neither changes.
LEMMA ContinuedNext ==
  ASSUME Grounded, \A c \in Clients : ReadsAgree(c), ContinuedFacts, [ContinuationNext]_allVars
  PROVE  ContinuedFacts'
<1>1. /\ TypeOK /\ ResumeTypeOK /\ Numbers
      /\ source \in [TurnIds -> [by : TurnIds \cup {NoTurn}, quiet : BOOLEAN, claim : Claim]]
  BY NumbersStay DEF Grounded, Coordinated, ResumeTypeOK
<1>2. \A b, k : Repeats(b, k) => Repeats(b, k)'
  BY <1>1 DEF Repeats, Numbers
<1> DEFINE Exact(t, x) ==
             x.by # NoTurn =>
               /\ turn[t].phase # "unused"
               /\ x.quiet /\ Owned(x.claim.session) =>
                    /\ Repeats(x.by, x.claim) /\ x.claim.target = turn[t].told
                    /\ x.claim.highWater = Cardinality(x.claim.prefix)
<1>3. \A t \in TurnIds : Exact(t, source[t])
  BY DEF ContinuedFacts
<1>4. ASSUME NEW t \in TurnIds, NEW x, Exact(t, x) PROVE Exact(t, x)'
  BY <1>1, <1>2, <1>4 DEF Numbers, Owned
<1>5. ASSUME \A t \in TurnIds : Exact(t, source[t])' PROVE ContinuedFacts'
  BY <1>5 DEF ContinuedFacts
<1> HIDE DEF Exact
<1>6. CASE source' = source
  <2>1. ASSUME NEW t \in TurnIds PROVE Exact(t, source[t])'
    <3>1. PICK x : x = source[t] /\ x = source'[t]
      BY <1>6
    <3>2. Exact(t, x)'
      BY <1>3, <1>4, <3>1
    <3> QED BY <3>1, <3>2
  <2> QED BY <1>5, <2>1
<1>7. ASSUME NEW c \in Clients, Spawn(c), resume[c].pc = "begin",
             source' = [source EXCEPT ![req[c].turn] = Continued(c)]
      PROVE  ContinuedFacts'
  <2>1. PICK u \in TurnIds : u = req[c].turn /\ turn[u].phase = "admitted" /\ req[c].pc = "spawn"
    BY <1>7 DEF Spawn, Grounded, Coordinated, EntryFacts, RequestOwnsAdmission
  <2>2. PICK x : x = Continued(c)
    OBVIOUS
  <2>3. x.by = resume[c].by /\ x.quiet = resume[c].quiet /\ x.claim = resume[c].claim
    BY <2>2 DEF Continued
  <2>4. Exact(u, x)
    BY <1>7, <2>1, <2>3 DEF Exact, ReadsAgree
  <2>5. Exact(u, x)'
    BY <1>4, <2>4
  <2>6. source'[u] = x /\ \A t \in TurnIds : t # u => source'[t] = source[t]
    BY <1>1, <1>7, <2>1, <2>2
  <2>7. ASSUME NEW t \in TurnIds PROVE Exact(t, source[t])'
    <3>1. PICK y : y = source'[t]
      OBVIOUS
    <3>2. Exact(t, y)'
      <4>1. CASE t = u
        BY <2>5, <2>6, <3>1, <4>1
      <4>2. CASE t # u
        BY <1>3, <1>4, <2>6, <3>1, <4>2
      <4> QED BY <4>1, <4>2
    <3> QED BY <3>1, <3>2
  <2> QED BY <1>5, <2>7
<1>8. CASE Pass
  BY <1>6, <1>7, <1>8 DEF Pass
<1>9. ASSUME NEW c \in Clients, (\E s \in Sessions, n \in Counts : RequestResume(c, s, n)) \/ ResumeStep(c)
      PROVE  ContinuedFacts'
  <2>1. source' = source
    BY <1>9 DEF RequestResume, ResumeStep, ReadSource, CountEvents, ReadContent, NumberTarget, ReadPrefix,
       RecordClaim
  <2> QED BY <1>6, <2>1
<1> QED BY <1>1, <1>8, <1>9, StepCases

\* The inductive invariant of continuations.
THEOREM ContinuationInvHolds == ContinuationSpec => []ContinuationInv
<1>1. ContinuationInit => Grounded /\ ClaimFacts
  <2> SUFFICES ASSUME ContinuationInit PROVE ClaimFacts
    BY GroundedInit
  <2>1. \A c \in Clients : ReadsAgree(c)
    BY DEF ContinuationInit, ReadsAgree, NoResume
  <2>2. ContinuedFacts
    BY DEF ContinuationInit, ContinuedFacts, NotContinued
  <2> QED BY <2>1, <2>2 DEF ClaimFacts
<1>2. Grounded /\ ClaimFacts /\ [ContinuationNext]_allVars => (Grounded /\ ClaimFacts)'
  <2> SUFFICES ASSUME Grounded, ClaimFacts, [ContinuationNext]_allVars PROVE (Grounded /\ ClaimFacts)'
    OBVIOUS
  <2>1. Grounded'
    BY GroundedNext
  <2>2. \A c \in Clients : ReadsAgree(c)'
    BY <2>1, AgreeNext DEF ClaimFacts
  <2>3. ContinuedFacts'
    BY ContinuedNext DEF ClaimFacts
  <2> QED BY <2>1, <2>2, <2>3 DEF ClaimFacts
<1>3. Grounded /\ ClaimFacts => ContinuationInv
  BY DEF Grounded, Coordinated, ContinuationInv
<1> QED BY <1>1, <1>2, <1>3, PTL DEF ContinuationSpec

\* A continuation of an owned session that was quiet is the turn its claim names, repeats the
\* run its claim names, and its claim counts and digests that run's durable events, although
\* turn.resume.start reads the tip twice and every read is a step of its own.
THEOREM ClaimsAlwaysExact == ContinuationSpec => []ClaimIsExact
<1>1. ContinuationInv => ClaimIsExact
  BY DEF ContinuationInv, ClaimFacts, ContinuedFacts, Repeats, ClaimIsExact
<1> QED BY <1>1, ContinuationInvHolds, PTL
====
