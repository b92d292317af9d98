---- MODULE AgentLoopProofs ----
(***************************************************************************)
(* Proofs about the tool loop and the prompts behind its gate: for any     *)
(* turns, calls, clients and sessions, whatever writes fail and wherever a *)
(* shutdown drops a task.  The hub's facts are proved of the hub's actions *)
(* alone; the loop's facts need of the hub only HubFrame, what none of its *)
(* steps may do to a call.                                                 *)
(***************************************************************************)
EXTENDS AgentLoop, TLAPS

-----------------------------------------------------------------------------
(* The hub.                                                                *)

\* The hub's types and facts hold initially.
LEMMA HubInitial == HubInit => HubType /\ HubFacts
  BY HubAssumption DEF HubInit, HubType, HubFacts, TableIsOpenPrompts, TakersAgree,
     ChannelIsAnswer, WaitsAreOver, OneAnswer, Holds, Idle, Unasked, Asking, Answering, Record,
     Decisions

\* Every step of the turn's side of a prompt keeps the hub's types.
LEMMA AskTyped ==
    ASSUME HubType, NEW p \in Calls, Insert(p) \/ AskStep(p)
    PROVE  HubType'
<1>1. ask \in [Calls -> Asking] /\ PendingOf(SessionOf[p]) \in SUBSET Calls /\ ask[p].views \in SUBSET Calls
  BY DEF HubType, PendingOf, Asking
<1>2. CASE Insert(p)
  <2>1. ask' \in [Calls -> Asking] BY <1>1, <1>2 DEF Insert, Asking
  <2> QED BY <1>2, <2>1 DEF Insert, HubType
<1>3. CASE AskRead(p)
  <2>1. \A k \in Asking, views \in SUBSET Calls :
          [k EXCEPT !.pc = "set", !.views = views] \in Asking
    BY DEF Asking
  <2>2. ask' \in [Calls -> Asking] BY <1>1, <1>3, <2>1 DEF AskRead
  <2> QED BY <1>3, <2>2 DEF AskRead, HubType
<1>4. CASE AskSet(p)
  <2>1. \A k \in Asking : [k EXCEPT !.pc = "wait", !.views = {}] \in Asking
    BY DEF Asking
  <2>3. ask' \in [Calls -> Asking] BY <1>1, <1>4, <2>1 DEF AskSet
  <2>2. shown' \in [Sessions -> SUBSET Calls] BY <1>1, <1>4 DEF AskSet, SetPending, HubType
  <2> QED BY <1>4, <2>2, <2>3 DEF AskSet, HubType
<1>5. CASE AskReturn(p)
  <2>1. ask' \in [Calls -> Asking] BY <1>1, <1>5 DEF AskReturn, Asking
  <2> QED BY <1>5, <2>1 DEF AskReturn, HubType
<1>6. QED BY <1>2, <1>3, <1>4, <1>5, Zenon DEF AskStep, Insert

\* So does every step of an answer, and the loss of one.
LEMMA AnswerTyped ==
    ASSUME HubType, NEW c \in Clients,
           \/ \E p \in Calls, d \in Decisions : Take(c, p, d)
           \/ AnswerStep(c) \/ DropAnswer(c)
    PROVE  HubType'
<1>1. /\ ask \in [Calls -> Asking] /\ answerer \in [Clients -> Answering]
      /\ outcome \in [Calls -> Record]
      /\ PendingOf(SessionOf[answerer[c].of]) \in SUBSET Calls
      /\ answerer[c].views \in SUBSET Calls /\ answerer[c].decision \in Decisions
  BY DEF HubType, PendingOf, Answering
<1>2. Idle \in Answering
  BY DEF Idle, Answering, Decisions
<1>3. ASSUME NEW p \in Calls, NEW d \in Decisions, Take(c, p, d) PROVE HubType'
  <2>3. [Idle EXCEPT !.pc = "record", !.of = p, !.decision = d] \in Answering
    BY DEF Idle, Answering
  <2>1. answerer' \in [Clients -> Answering] BY <1>1, <1>3, <2>3 DEF Take
  <2>2. resolved' \in [Calls -> Seq(Decisions)]
    <3>1. resolved \in [Calls -> Seq(Decisions)] BY DEF HubType
    <3>2. Append(resolved[p], d) \in Seq(Decisions) BY <3>1
    <3> QED BY <1>3, <3>1, <3>2 DEF Take
  <2> QED BY <1>3, <2>1, <2>2 DEF Take, HubType
<1>4. CASE RecordOutcome(c)
  <2>1. answerer' \in [Clients -> Answering] BY <1>1, <1>4 DEF RecordOutcome, Answering
  <2>2. PICK row \in Written(answerer[c].decision) :
          /\ outcome' = [outcome EXCEPT ![answerer[c].of] = row]
          /\ errors' = errors + Failures(row, answerer[c].decision)
    BY <1>4 DEF RecordOutcome
  <2>3. row \in Record /\ errors' \in 0 .. MaxErrors
    BY <1>1, <2>2, HubAssumption DEF Written, Failures, Record, HubType, Decisions
  <2>4. outcome' \in [Calls -> Record] BY <1>1, <2>2, <2>3
  <2> QED BY <1>4, <2>1, <2>3, <2>4 DEF RecordOutcome, HubType
<1>5. CASE Send(c)
  <2>1. answerer' \in [Clients -> Answering] BY <1>1, <1>5 DEF Send, Answering
  <2>2. ask' \in [Calls -> Asking] BY <1>1, <1>5 DEF Send, Asking
  <2> QED BY <1>5, <2>1, <2>2 DEF Send, HubType
<1>6. CASE AnswerRead(c)
  <2>1. \A k \in Answering, views \in SUBSET Calls :
          [k EXCEPT !.pc = "set", !.views = views] \in Answering
    BY DEF Answering
  <2>2. answerer' \in [Clients -> Answering] BY <1>1, <1>6, <2>1 DEF AnswerRead
  <2> QED BY <1>6, <2>2 DEF AnswerRead, HubType
<1>7. CASE AnswerSet(c)
  <2>1. answerer' \in [Clients -> Answering] BY <1>1, <1>2, <1>7 DEF AnswerSet
  <2>2. shown' \in [Sessions -> SUBSET Calls] BY <1>1, <1>7 DEF AnswerSet, SetPending, HubType
  <2> QED BY <1>7, <2>1, <2>2 DEF AnswerSet, HubType
<1>8. CASE DropAnswer(c)
  <2>1. answerer' \in [Clients -> Answering] BY <1>1, <1>2, <1>8 DEF DropAnswer
  <2>2. ask' \in [Calls -> Asking]
    <3>1. \A k \in Asking : [k EXCEPT !.answer = "dropped"] \in Asking BY DEF Asking
    <3> QED BY <1>1, <1>8, <3>1 DEF DropAnswer
  <2> QED BY <1>8, <2>1, <2>2 DEF DropAnswer, HubType
<1> QED BY <1>3, <1>4, <1>5, <1>6, <1>7, <1>8, Zenon DEF AnswerStep

\* The turn's side of one prompt moves on: the prompt stays entered, nothing is
\* answered, and it goes on only with an answer, or is left in a shutdown.
LEMMA AskMoves ==
    ASSUME HubFacts, NEW p \in Calls,
           ask[p].pc # "unasked" /\ ask'[p].pc # "unasked" /\ ask'[p].answer = ask[p].answer,
           \A q \in Calls : q # p => ask'[q] = ask[q],
           ask'[p].pc = "done" => ask[p].answer # "none",
           ask'[p].pc = "gone" => ~up,
           UNCHANGED <<pending, answerer, resolved, outcome, up>>
    PROVE  HubFacts'
<1>1. TableIsOpenPrompts' BY DEF HubFacts, TableIsOpenPrompts
<1>2. TakersAgree' BY DEF HubFacts, TakersAgree
<1>3. \A q \in Calls : ask'[q].answer = ask[q].answer
  OBVIOUS
<1>4. ChannelIsAnswer' BY <1>3 DEF HubFacts, ChannelIsAnswer, Holds
<1>5. WaitsAreOver' BY DEF HubFacts, WaitsAreOver
<1>6. OneAnswer' BY DEF HubFacts, OneAnswer
<1> QED BY <1>1, <1>2, <1>4, <1>5, <1>6 DEF HubFacts

\* A connection that holds no sender, or keeps the one it holds, moves on.
LEMMA AnswererMoves ==
    ASSUME HubType, HubFacts, NEW c \in Clients, answerer[c].pc # "idle",
           \A d \in Clients : d # c => answerer'[d] = answerer[d],
           \/ answerer'[c].pc = "idle" 
           \/ answerer'[c].of = answerer[c].of /\ answerer'[c].decision = answerer[c].decision,
           answerer'[c].pc \in {"record", "send"} <=> answerer[c].pc \in {"record", "send"},
           UNCHANGED <<pending, ask, resolved, up>>
    PROVE  TableIsOpenPrompts' /\ TakersAgree' /\ ChannelIsAnswer' /\ WaitsAreOver'
<1>1. TableIsOpenPrompts' BY DEF HubFacts, TableIsOpenPrompts
<1>2. TakersAgree' BY DEF HubFacts, TakersAgree
<1>3. \A q \in Calls, d \in Clients : Holds(d, q)' <=> Holds(d, q)
  BY DEF Holds
<1>4. ChannelIsAnswer' BY <1>3 DEF HubFacts, ChannelIsAnswer
<1>5. WaitsAreOver' BY DEF HubFacts, WaitsAreOver
<1> QED BY <1>1, <1>2, <1>4, <1>5

\* A new prompt: entered, unanswered, and nobody holds its sender.
LEMMA InsertFacts ==
    ASSUME HubType, HubFacts, NEW p \in Calls, Insert(p)
    PROVE  HubFacts'
<1>1. /\ ask'[p].pc = "read" /\ ask'[p].answer = ask[p].answer
      /\ \A q \in Calls : q # p => ask'[q] = ask[q]
  BY DEF Insert, HubType, Asking
<1>2. /\ pending' = pending \cup {p} /\ ask[p].pc = "unasked"
      /\ UNCHANGED <<answerer, resolved, outcome, up>>
  BY DEF Insert
<1>3. TableIsOpenPrompts' BY <1>1, <1>2 DEF HubFacts, TableIsOpenPrompts
<1>4. TakersAgree' BY <1>2 DEF HubFacts, TakersAgree
<1>5. \A q \in Calls : ask'[q].answer = ask[q].answer
  BY <1>1
<1>6. ChannelIsAnswer' BY <1>2, <1>5 DEF HubFacts, ChannelIsAnswer, Holds
<1>7. WaitsAreOver' BY <1>1, <1>2 DEF HubFacts, WaitsAreOver
<1>8. OneAnswer' BY <1>2 DEF HubFacts, OneAnswer
<1> QED BY <1>3, <1>4, <1>6, <1>7, <1>8 DEF HubFacts

\* Publishing, waiting and returning are moves of the turn's side.
LEMMA AskFacts ==
    ASSUME HubType, HubFacts, NEW p \in Calls, AskStep(p)
    PROVE  HubFacts'
<1>1. ask \in [Calls -> Asking]
  BY DEF HubType
<1>2. UNCHANGED <<pending, answerer, resolved, outcome, up>>
  BY DEF AskStep, AskRead, AskSet, AskReturn
<1>3. /\ ask[p].pc # "unasked" /\ ask'[p].pc # "unasked" /\ ask'[p].answer = ask[p].answer
      /\ \A q \in Calls : q # p => ask'[q] = ask[q]
      /\ ask'[p].pc = "done" => ask[p].answer # "none"
      /\ ask'[p].pc # "gone"
  <2>1. CASE AskRead(p) BY <1>1, <2>1 DEF AskRead, Asking
  <2>2. CASE AskSet(p) BY <1>1, <2>2 DEF AskSet, Asking
  <2>3. CASE AskReturn(p) BY <1>1, <2>3 DEF AskReturn, Asking
  <2> QED BY <2>1, <2>2, <2>3 DEF AskStep
<1> QED BY <1>2, <1>3, AskMoves

\* Taking a prompt out of the table makes the one answer it will have.
LEMMA TakeFacts ==
    ASSUME HubType, HubFacts, NEW c \in Clients, NEW p \in Calls, NEW d \in Decisions, Take(c, p, d)
    PROVE  HubFacts'
<1>1. /\ answerer'[c].pc = "record" /\ answerer'[c].of = p /\ answerer'[c].decision = d
      /\ \A e \in Clients : e # c => answerer'[e] = answerer[e]
  BY DEF Take, HubType, Idle
<1>2. resolved[p] = <<>> /\ p \in pending /\ ask[p].pc # "unasked" /\ ask[p].answer = "none"
  BY DEF Take, HubFacts, TableIsOpenPrompts, ChannelIsAnswer
<1>3. /\ resolved'[p] = <<d>>
      /\ \A q \in Calls : q # p => resolved'[q] = resolved[q]
  BY <1>2 DEF Take, HubType
<1>4. pending' = pending \ {p} /\ UNCHANGED <<ask, outcome, up>> /\ answerer[c].pc = "idle"
  BY DEF Take
<1>5. \A e \in Clients : answerer[e].pc # "idle" => answerer[e].of # p
  BY <1>2 DEF HubFacts, TakersAgree
<1>6. TableIsOpenPrompts' BY <1>2, <1>3, <1>4 DEF HubFacts, TableIsOpenPrompts
<1>7. TakersAgree' BY <1>1, <1>3, <1>4, <1>5 DEF HubFacts, TakersAgree
<1>8. \A q \in Calls, e \in Clients : q # p => (Holds(e, q)' <=> Holds(e, q))
  BY <1>1, <1>4 DEF Holds
<1>9. ChannelIsAnswer' BY <1>1, <1>2, <1>3, <1>4, <1>8 DEF HubFacts, ChannelIsAnswer, Holds
<1>10. WaitsAreOver' BY <1>4 DEF HubFacts, WaitsAreOver
<1>11. OneAnswer'
  <2>1. Len(resolved'[p]) <= 1
    BY <1>3
  <2>2. outcome'[p] \notin Decisions
    <3>1. <<outcome[p]>> # <<>>
      OBVIOUS
    <3>2. outcome[p] \in Decisions => resolved[p] = <<outcome[p]>>
      BY DEF HubFacts, OneAnswer
    <3> QED BY <1>2, <1>4, <3>1, <3>2
  <2> QED BY <1>3, <1>4, <2>1, <2>2 DEF HubFacts, OneAnswer
<1> QED BY <1>6, <1>7, <1>9, <1>10, <1>11 DEF HubFacts

\* The record an answer writes is of the answer that took the prompt.
LEMMA RecordOutcomeFacts ==
    ASSUME HubType, HubFacts, NEW c \in Clients, RecordOutcome(c)
    PROVE  HubFacts'
<1>1. answerer \in [Clients -> Answering] /\ answerer[c].pc = "record"
  BY DEF RecordOutcome, HubType
<1>2. /\ answerer'[c].pc = "send" /\ answerer'[c].of = answerer[c].of
      /\ answerer'[c].decision = answerer[c].decision
      /\ \A d \in Clients : d # c => answerer'[d] = answerer[d]
  BY <1>1 DEF RecordOutcome, Answering
<1>3. UNCHANGED <<pending, ask, resolved, up>>
  BY DEF RecordOutcome
<1>4. TableIsOpenPrompts' /\ TakersAgree' /\ ChannelIsAnswer' /\ WaitsAreOver'
  BY <1>1, <1>2, <1>3, AnswererMoves
<1>5. PICK row \in {answerer[c].decision, "none"} : outcome' = [outcome EXCEPT ![answerer[c].of] = row]
  BY DEF RecordOutcome, Written
<1>6. answerer[c].of \in Calls /\ resolved[answerer[c].of] = <<answerer[c].decision>>
  BY <1>1 DEF HubFacts, TakersAgree
<1>7. OneAnswer' BY <1>3, <1>5, <1>6 DEF HubFacts, OneAnswer, HubType, Decisions
<1> QED BY <1>4, <1>7 DEF HubFacts

\* The sender leaves the answerer's hands: with the answer, or dropped.
LEMMA DeliverFacts ==
    ASSUME HubType, HubFacts, NEW c \in Clients, answerer[c].pc \in {"record", "send"},
           NEW a \in {answerer[c].decision, "dropped"}, a = "dropped" => ~up,
           ask' = [ask EXCEPT ![answerer[c].of].answer = a],
           answerer'[c].pc = "idle" \/
             (answerer'[c] = [answerer[c] EXCEPT !.pc = "read"]),
           \A d \in Clients : d # c => answerer'[d] = answerer[d],
           UNCHANGED <<pending, resolved, outcome, up>>
    PROVE  HubFacts'
<1>0. PICK p \in Calls : p = answerer[c].of
  BY DEF HubFacts, TakersAgree
<1>1. /\ ask \in [Calls -> Asking] /\ answerer \in [Clients -> Answering]
      /\ resolved[p] = <<answerer[c].decision>> /\ answerer[c].decision \in Decisions
      /\ ask[p].answer = "none"
  BY <1>0 DEF HubType, HubFacts, TakersAgree, ChannelIsAnswer, Holds, Answering
<1>2. /\ ask'[p].answer = a /\ ask'[p].pc = ask[p].pc
      /\ \A q \in Calls : q # p => ask'[q] = ask[q]
  BY <1>0, <1>1 DEF Asking
<1>3. \/ answerer'[c].pc = "idle"
      \/ answerer'[c].pc = "read" /\ answerer'[c].of = p /\ answerer'[c].decision = answerer[c].decision
  BY <1>0, <1>1 DEF Answering
<1>4. \A d \in Clients : answerer[d].pc # "idle" /\ answerer[d].of = p => d = c
  BY <1>0, <1>1 DEF HubFacts, TakersAgree
<1>5. a # "none"
  BY <1>1 DEF Decisions
<1>6. TableIsOpenPrompts' BY <1>2 DEF HubFacts, TableIsOpenPrompts
<1>7. TakersAgree'
  <2>1. \A d \in Clients : answerer'[d].pc # "idle" =>
          /\ answerer[d].pc # "idle" /\ answerer'[d].of = answerer[d].of
          /\ answerer'[d].decision = answerer[d].decision
    BY <1>0, <1>3
  <2> QED BY <2>1 DEF HubFacts, TakersAgree
<1>8. /\ \A d \in Clients : ~Holds(d, p)'
      /\ \A q \in Calls, d \in Clients : q # p => (Holds(d, q)' <=> Holds(d, q))
  BY <1>0, <1>3, <1>4 DEF Holds
<1>9. ChannelIsAnswer'
  <2>1. ASSUME NEW q \in Calls
        PROVE  /\ ask'[q].answer = "none" <=> resolved'[q] = <<>> \/ \E d \in Clients : Holds(d, q)'
               /\ ask'[q].answer \in Decisions => resolved'[q] = <<ask'[q].answer>>
    <3>1. CASE q = p
      <4>1. ask'[p].answer # "none" /\ resolved'[p] # <<>> /\ ~\E d \in Clients : Holds(d, p)'
        BY <1>1, <1>2, <1>5, <1>8
      <4>2. a \in Decisions => a = answerer[c].decision
        BY DEF Decisions
      <4> QED BY <1>1, <1>2, <3>1, <4>1, <4>2
    <3>2. CASE q # p
      BY <1>2, <1>8, <3>2 DEF HubFacts, ChannelIsAnswer
    <3> QED BY <3>1, <3>2
  <2> QED BY <2>1 DEF ChannelIsAnswer
<1>10. WaitsAreOver' BY <1>1, <1>2, <1>5 DEF HubFacts, WaitsAreOver
<1>11. OneAnswer' BY DEF HubFacts, OneAnswer
<1> QED BY <1>6, <1>7, <1>9, <1>10, <1>11 DEF HubFacts

\* Every other step of an answer is one of the moves above.
LEMMA AnswerFacts ==
    ASSUME HubType, HubFacts, NEW c \in Clients, AnswerStep(c) \/ DropAnswer(c)
    PROVE  HubFacts'
<1>1. answerer \in [Clients -> Answering] /\ answerer[c].decision # "dropped" /\ Idle.pc = "idle"
  BY DEF HubType, Idle, Answering, Decisions
<1>2. CASE RecordOutcome(c) BY <1>2, RecordOutcomeFacts
<1>3. CASE Send(c)
  <2>1. /\ answerer'[c] = [answerer[c] EXCEPT !.pc = "read"]
        /\ \A d \in Clients : d # c => answerer'[d] = answerer[d]
    BY <1>1, <1>3 DEF Send
  <2>2. /\ answerer[c].pc \in {"record", "send"}
        /\ ask' = [ask EXCEPT ![answerer[c].of].answer = answerer[c].decision]
        /\ UNCHANGED <<pending, resolved, outcome, up>>
    BY <1>3 DEF Send
  <2> QED BY <1>1, <2>1, <2>2, DeliverFacts
<1>4. CASE AnswerRead(c)
  <2> DEFINE views == PendingOf(SessionOf[answerer[c].of])
  <2>3. answerer' = [answerer EXCEPT ![c] = [answerer[c] EXCEPT !.pc = "set", !.views = views]]
    BY <1>4 DEF AnswerRead
  <2> HIDE DEF views
  <2>1. /\ answerer[c].pc = "read" /\ answerer'[c].pc = "set" /\ answerer'[c].of = answerer[c].of
        /\ answerer'[c].decision = answerer[c].decision
        /\ \A d \in Clients : d # c => answerer'[d] = answerer[d]
    BY <1>1, <1>4, <2>3 DEF AnswerRead, Answering
  <2>2. UNCHANGED <<pending, ask, resolved, outcome, up>>
    BY <1>4 DEF AnswerRead
  <2> QED BY <2>1, <2>2, AnswererMoves DEF HubFacts, OneAnswer
<1>5. CASE AnswerSet(c)
  <2>1. /\ answerer[c].pc = "set" /\ answerer'[c].pc = "idle"
        /\ \A d \in Clients : d # c => answerer'[d] = answerer[d]
    BY <1>1, <1>5 DEF AnswerSet
  <2>2. UNCHANGED <<pending, ask, resolved, outcome, up>>
    BY <1>5 DEF AnswerSet
  <2> QED BY <2>1, <2>2, AnswererMoves DEF HubFacts, OneAnswer
<1>6. CASE DropAnswer(c)
  <2>1. /\ answerer[c].pc # "idle" /\ answerer'[c].pc = "idle" /\ ~up
        /\ \A d \in Clients : d # c => answerer'[d] = answerer[d]
        /\ UNCHANGED <<pending, resolved, outcome, up>>
    BY <1>1, <1>6 DEF DropAnswer
  <2>2. CASE answerer[c].pc \in {"record", "send"}
    <3>1. ask' = [ask EXCEPT ![answerer[c].of].answer = "dropped"]
      BY <1>6, <2>2 DEF DropAnswer
    <3> QED BY <2>1, <2>2, <3>1, DeliverFacts
  <2>3. CASE answerer[c].pc \notin {"record", "send"}
    <3>1. UNCHANGED ask
      BY <1>6, <2>3 DEF DropAnswer
    <3> QED BY <2>1, <2>3, <3>1, AnswererMoves DEF HubFacts, OneAnswer
  <2> QED BY <2>2, <2>3
<1> QED BY <1>2, <1>3, <1>4, <1>5, <1>6 DEF AnswerStep

-----------------------------------------------------------------------------
(* The loop.                                                               *)

Own(t) == {CallsOf[t][i] : i \in DOMAIN CallsOf[t]}

\* A call belongs to one turn, at one place.
LEMMA CallsAreOwn ==
    /\ \A t \in Turns : Own(t) \subseteq Calls /\ DOMAIN CallsOf[t] = 1 .. Len(CallsOf[t])
                        /\ Len(CallsOf[t]) \in Nat
    /\ \A t, u \in Turns : \A i \in DOMAIN CallsOf[t], j \in DOMAIN CallsOf[u] :
          CallsOf[t][i] = CallsOf[u][j] => t = u /\ i = j
  BY LoopAssumption DEF Own

\* The fields of a turn's place.
LEMMA LoopTypes ==
    ASSUME TypeOK, NEW t \in Turns
    PROVE  /\ loop[t].pc \in LoopStates /\ loop[t].step \in Nat /\ loop[t].next \in Nat \ {0}
           /\ loop[t].last \in Nat /\ loop[t].stop \in BOOLEAN /\ loop[t].verdict \in Decisions
  BY DEF TypeOK, Loop

\* A turn that makes a call makes one of its own.
LEMMA CurrentIsOwn ==
    ASSUME TypeOK, NEW t \in Turns, PlaceIsInStep(t), loop[t].pc \in MakingCall
    PROVE  loop[t].next \in DOMAIN CallsOf[t] /\ Current(t) \in Own(t) /\ Current(t) \in Calls
<1>1. loop[t].next \in 1 .. Len(CallsOf[t])
  BY LoopTypes, CallsAreOwn DEF PlaceIsInStep
<1> QED BY <1>1, CallsAreOwn DEF Current, Own

\* The facts of a turn and of a call are kept when the turn stays where it is and
\* the hub has done to the calls no more than it may.
HubFrame(p) ==
    /\ ask'[p].pc = "unasked" <=> ask[p].pc = "unasked"
    /\ ask[p].pc = "done" => ask'[p].pc = "done" /\ ask'[p].answer = ask[p].answer
    /\ resolved[p] # <<>> => resolved'[p] = resolved[p]

LEMMA HubKeepsTurn ==
    ASSUME TypeOK, NEW t \in Turns, UNCHANGED mode, loop'[t] = loop[t],
           \A p \in Own(t) : HubFrame(p) /\ call'[p] = call[p],
           PlaceIsInStep(t), PassedAreAnswered(t), AheadIsUntouched(t), VerdictIsJust(t)
    PROVE  PlaceIsInStep(t)' /\ PassedAreAnswered(t)' /\ AheadIsUntouched(t)' /\ VerdictIsJust(t)'
<1>1. \A i \in DOMAIN CallsOf[t] : CallsOf[t][i] \in Own(t)
  BY DEF Own
<1>2. PlaceIsInStep(t)' BY DEF PlaceIsInStep
<1>3. PassedAreAnswered(t)' BY <1>1 DEF PassedAreAnswered
<1>4. AheadIsUntouched(t)' BY <1>1 DEF AheadIsUntouched, HubFrame, Judged, BeingJudged
<1>5. VerdictIsJust(t)'
  <2>1. loop[t].pc \in MakingCall => Current(t) \in Own(t) /\ Current(t)' = Current(t)
    BY CurrentIsOwn DEF Current
  <2>2. CASE loop[t].pc \in {"asking", "record", "execute", "running"}
    <3> DEFINE p == Current(t)
    <3>1. p \in Own(t) /\ p' = p
      BY <2>1, <2>2 DEF MakingCall
    <3>2. HubFrame(p) /\ call'[p] = call[p]
      BY <3>1
    <3>3. PolicyOf(p)' = PolicyOf(p)
      BY <3>1, <3>2 DEF PolicyOf
    <3>4. resolved[p] = <<"allow">> => resolved[p] # <<>>
      OBVIOUS
    <3>5. Approved(p) => Approved(p)'
      BY <3>1, <3>2, <3>3, <3>4 DEF Approved, HubFrame
    <3>6. ask[p].pc = "done" => VerdictOf(p)' = VerdictOf(p) /\ ask'[p].pc = "done"
      BY <3>1, <3>2 DEF VerdictOf, Granted, HubFrame
    <3>7. ask'[p].pc = "unasked" <=> ask[p].pc = "unasked"
      BY <3>2 DEF HubFrame
    <3> HIDE DEF p
    <3> QED BY <3>1, <3>3, <3>5, <3>6, <3>7 DEF VerdictIsJust, p
  <2>3. CASE loop[t].pc \notin {"asking", "record", "execute", "running"}
    BY <2>3 DEF VerdictIsJust
  <2> QED BY <2>2, <2>3
<1> QED BY <1>2, <1>3, <1>4, <1>5

\* The facts of a call are kept as well.
LEMMA HubKeepsCall ==
    ASSUME NEW p \in Calls, UNCHANGED mode, HubFrame(p), call'[p] = call[p],
           RecordIsVerdict(p), RanIsApproved(p)
    PROVE  RecordIsVerdict(p)' /\ RanIsApproved(p)'
<1>1. PolicyOf(p)' = PolicyOf(p)
  BY DEF PolicyOf
<1>2. resolved[p] = <<"allow">> => resolved[p] # <<>>
  OBVIOUS
<1>3. Approved(p) => Approved(p)'
  BY <1>1, <1>2 DEF Approved, HubFrame
<1> QED BY <1>3 DEF RecordIsVerdict, RanIsApproved, VerdictOf, Granted, HubFrame

\* No step of the hub does more to a call than HubFrame allows.
LEMMA HubFrames ==
    ASSUME HubType, HubFacts, HubStep
    PROVE  \A p \in Calls : HubFrame(p)
<1>1. ask \in [Calls -> Asking] /\ answerer \in [Clients -> Answering] /\ resolved \in [Calls -> Seq(Decisions)]
  BY DEF HubType
<1>2. ASSUME NEW q \in Calls, AskStep(q) PROVE \A p \in Calls : HubFrame(p)
  <2>1. UNCHANGED resolved
    BY <1>2 DEF AskStep, AskRead, AskSet, AskReturn
  <2>2. /\ ask'[q].pc # "unasked" /\ ask[q].pc # "unasked" /\ ask[q].pc # "done"
        /\ \A p \in Calls : p # q => ask'[p] = ask[p]
    <3>1. CASE AskRead(q) BY <1>1, <3>1 DEF AskRead, Asking
    <3>2. CASE AskSet(q) BY <1>1, <3>2 DEF AskSet, Asking
    <3>3. CASE AskReturn(q) BY <1>1, <3>3 DEF AskReturn, Asking
    <3> QED BY <1>2, <3>1, <3>2, <3>3 DEF AskStep
  <2> QED BY <2>1, <2>2 DEF HubFrame
<1>3. ASSUME NEW c \in Clients, NEW q \in Calls, NEW d \in Decisions, Take(c, q, d)
      PROVE  \A p \in Calls : HubFrame(p)
  <2>1. resolved[q] = <<>> /\ UNCHANGED ask /\ \A p \in Calls : p # q => resolved'[p] = resolved[p]
    BY <1>1, <1>3 DEF Take, HubFacts, TableIsOpenPrompts
  <2> QED BY <2>1 DEF HubFrame
<1>4. ASSUME NEW c \in Clients, AnswerStep(c) \/ DropAnswer(c)
      PROVE  \A p \in Calls : HubFrame(p)
  <2>1. UNCHANGED resolved
    BY <1>4 DEF AnswerStep, DropAnswer, RecordOutcome, Send, AnswerRead, AnswerSet
  <2>2. UNCHANGED ask \/ (/\ answerer[c].pc \in {"record", "send"}
                          /\ \E a : ask' = [ask EXCEPT ![answerer[c].of].answer = a])
    BY <1>4 DEF AnswerStep, DropAnswer, RecordOutcome, Send, AnswerRead, AnswerSet
  <2>3. CASE UNCHANGED ask
    BY <2>1, <2>3 DEF HubFrame
  <2>4. ASSUME answerer[c].pc \in {"record", "send"}, NEW a, ask' = [ask EXCEPT ![answerer[c].of].answer = a]
        PROVE  \A p \in Calls : HubFrame(p)
    <3>1. PICK q \in Calls : q = answerer[c].of
      BY <2>4 DEF HubFacts, TakersAgree
    <3>2. ask[q].answer = "none" /\ ask[q].pc # "done"
      BY <2>4, <3>1 DEF HubFacts, ChannelIsAnswer, WaitsAreOver, Holds
    <3>3. ask'[q].pc = ask[q].pc /\ \A p \in Calls : p # q => ask'[p] = ask[p]
      BY <1>1, <2>4, <3>1 DEF Asking
    <3> QED BY <2>1, <3>2, <3>3 DEF HubFrame
  <2> QED BY <2>2, <2>3, <2>4
<1>5. ASSUME UNCHANGED <<ask, resolved>> PROVE \A p \in Calls : HubFrame(p)
  BY <1>5 DEF HubFrame
<1>6. ASSUME NEW s \in Sessions, Open(s) PROVE UNCHANGED <<ask, resolved>>
  BY <1>6 DEF Open
<1>7. Shutdown => UNCHANGED <<ask, resolved>>
  BY DEF Shutdown
<1> QED BY <1>2, <1>3, <1>4, <1>5, <1>6, <1>7 DEF HubStep

\* Opening a session and the shutdown keep the types,
LEMMA EnvironmentTyped ==
    ASSUME HubType, (\E s \in Sessions : Open(s)) \/ Shutdown
    PROVE  HubType'
<1>1. ASSUME NEW s \in Sessions, Open(s) PROVE HubType'
  BY <1>1 DEF Open, HubType
<1>2. CASE Shutdown BY <1>2 DEF Shutdown, HubType
<1> QED BY <1>1, <1>2

\* and the facts.
LEMMA EnvironmentFacts ==
    ASSUME HubFacts, (\E s \in Sessions : Open(s)) \/ Shutdown
    PROVE  HubFacts'
<1>1. UNCHANGED <<pending, ask, answerer, resolved, outcome>> /\ (up' = up \/ up' = FALSE)
  BY DEF Open, Shutdown
<1>2. \A c \in Clients, p \in Calls : Holds(c, p)' <=> Holds(c, p)
  BY <1>1 DEF Holds
<1> QED BY <1>1, <1>2 DEF HubFacts, TableIsOpenPrompts, TakersAgree, ChannelIsAnswer, WaitsAreOver,
                          OneAnswer

\* The invariant is kept by the hub.
LEMMA HubStepKeeps ==
    ASSUME LoopInv, HubStep
    PROVE  LoopInv'
<1>1. TypeOK /\ HubType /\ HubFacts /\ LoopFacts
  BY DEF LoopInv, TypeOK
<1>2. UNCHANGED loopVars
  BY DEF HubStep
<1>3. HubType' /\ HubFacts'
  <2>1. ASSUME NEW p \in Calls, AskStep(p) PROVE HubType' /\ HubFacts'
    BY <1>1, <2>1, AskTyped, AskFacts
  <2>2. ASSUME NEW c \in Clients, NEW p \in Calls, NEW d \in Decisions, Take(c, p, d)
        PROVE  HubType' /\ HubFacts'
    BY <1>1, <2>2, AnswerTyped, TakeFacts
  <2>3. ASSUME NEW c \in Clients, AnswerStep(c) \/ DropAnswer(c) PROVE HubType' /\ HubFacts'
    BY <1>1, <2>3, AnswerTyped, AnswerFacts
  <2>4. ASSUME (\E s \in Sessions : Open(s)) \/ Shutdown PROVE HubType' /\ HubFacts'
    BY <1>1, <2>4, EnvironmentTyped, EnvironmentFacts
  <2> QED BY <2>1, <2>2, <2>3, <2>4 DEF HubStep
<1>4. TypeOK'
  BY <1>1, <1>2, <1>3 DEF TypeOK, loopVars
<1>5. \A p \in Calls : HubFrame(p) /\ call'[p] = call[p]
  BY <1>1, <1>2, HubFrames DEF loopVars
<1>6. \A t \in Turns :
        PlaceIsInStep(t)' /\ PassedAreAnswered(t)' /\ AheadIsUntouched(t)' /\ VerdictIsJust(t)'
  <2>1. ASSUME NEW t \in Turns
        PROVE  PlaceIsInStep(t)' /\ PassedAreAnswered(t)' /\ AheadIsUntouched(t)' /\ VerdictIsJust(t)'
    <3>1. loop'[t] = loop[t] /\ mode' = mode
      BY <1>2 DEF loopVars
    <3>2. \A p \in Own(t) : HubFrame(p) /\ call'[p] = call[p]
      BY <1>5, CallsAreOwn
    <3> QED BY <1>1, <3>1, <3>2, HubKeepsTurn DEF LoopFacts
  <2> QED BY <2>1
<1>7. \A p \in Calls : RecordIsVerdict(p)' /\ RanIsApproved(p)'
  BY <1>1, <1>2, <1>5, HubKeepsCall DEF LoopFacts, loopVars
<1> QED BY <1>3, <1>4, <1>6, <1>7 DEF LoopInv, LoopFacts

\* A step of a turn changes its place and, of the calls, some of its own.
LEMMA TurnStepKeeps ==
    ASSUME LoopInv, NEW t \in Turns, NEW K \in SUBSET Own(t),
           TypeOK', HubFacts', UNCHANGED mode,
           \A u \in Turns : u # t => loop'[u] = loop[u],
           \A p \in Calls : p \notin K => HubFrame(p) /\ call'[p] = call[p],
           PlaceIsInStep(t)' /\ PassedAreAnswered(t)' /\ AheadIsUntouched(t)' /\ VerdictIsJust(t)',
           \A p \in K : RecordIsVerdict(p)' /\ RanIsApproved(p)'
    PROVE  LoopInv'
<1>1. TypeOK /\ LoopFacts
  BY DEF LoopInv
<1>2. ASSUME NEW u \in Turns, u # t
      PROVE  PlaceIsInStep(u)' /\ PassedAreAnswered(u)' /\ AheadIsUntouched(u)' /\ VerdictIsJust(u)'
  <2>1. \A p \in Own(u) : p \in Calls /\ p \notin K
    BY <1>2, CallsAreOwn DEF Own
  <2>2. \A p \in Own(u) : HubFrame(p) /\ call'[p] = call[p]
    BY <2>1
  <2>3. loop'[u] = loop[u]
    BY <1>2
  <2> QED BY <1>1, <2>2, <2>3, HubKeepsTurn DEF LoopFacts
<1>3. ASSUME NEW p \in Calls, p \notin K
      PROVE  RecordIsVerdict(p)' /\ RanIsApproved(p)'
  BY <1>1, <1>3, HubKeepsCall DEF LoopFacts
<1>4. LoopFacts'
  BY <1>2, <1>3 DEF LoopFacts
<1> QED BY <1>4 DEF LoopInv

\* The types of a turn's place and of a call.
LEMMA LoopUpdate ==
    ASSUME TypeOK, NEW t \in Turns, NEW k \in Loop, loop' = [loop EXCEPT ![t] = k]
    PROVE  /\ loop' \in [Turns -> Loop] /\ loop'[t] = k
           /\ \A u \in Turns : u # t => loop'[u] = loop[u]
  BY DEF TypeOK

\* A turn that moves on keeps the rest of its place.
LEMMA GoStep ==
    ASSUME TypeOK, NEW t \in Turns, NEW pc \in LoopStates, Go(t, pc)
    PROVE  /\ loop' \in [Turns -> Loop] /\ \A u \in Turns : u # t => loop'[u] = loop[u]
           /\ loop'[t].pc = pc /\ loop'[t].next = loop[t].next /\ loop'[t].last = loop[t].last
           /\ loop'[t].verdict = loop[t].verdict
<1>1. loop \in [Turns -> Loop] /\ loop[t] \in Loop
  BY DEF TypeOK
<1>2. [loop[t] EXCEPT !.pc = pc] \in Loop
  BY <1>1 DEF Loop
<1>3. loop' = [loop EXCEPT ![t] = [loop[t] EXCEPT !.pc = pc]]
  BY DEF Go
<1> QED BY <1>1, <1>2, <1>3, LoopUpdate DEF Loop

\* So does one that takes a verdict with it.
LEMMA JudgeStep ==
    ASSUME TypeOK, NEW t \in Turns, NEW pc \in LoopStates, NEW v \in Decisions, Judge(t, pc, v)
    PROVE  /\ loop' \in [Turns -> Loop] /\ \A u \in Turns : u # t => loop'[u] = loop[u]
           /\ loop'[t].pc = pc /\ loop'[t].next = loop[t].next /\ loop'[t].last = loop[t].last
           /\ loop'[t].verdict = v
<1>1. loop \in [Turns -> Loop] /\ loop[t] \in Loop
  BY DEF TypeOK
<1>2. [loop[t] EXCEPT !.pc = pc, !.verdict = v] \in Loop
  BY <1>1 DEF Loop
<1>3. loop' = [loop EXCEPT ![t] = [loop[t] EXCEPT !.pc = pc, !.verdict = v]]
  BY DEF Judge
<1> QED BY <1>1, <1>2, <1>3, LoopUpdate DEF Loop

\* A turn that makes no call moves on, or is told to stop.
LEMMA QuietStep ==
    ASSUME LoopInv, NEW t \in Turns, UNCHANGED <<hubVars, mode, call>>,
           loop' \in [Turns -> Loop], \A u \in Turns : u # t => loop'[u] = loop[u],
           loop'[t].next = loop[t].next, PlaceIsInStep(t)',
           \/ loop[t].pc \in BetweenSteps /\ loop'[t].pc \notin {"asking", "record", "execute", "running"}
           \/ loop'[t].pc = loop[t].pc /\ loop'[t].verdict = loop[t].verdict
    PROVE  LoopInv'
<1>1. TypeOK /\ HubFacts /\ LoopFacts /\ HubType
  BY DEF LoopInv, TypeOK
<1>2. TypeOK' /\ HubFacts'
  <2>1. HubType'
    BY <1>1 DEF HubType, hubVars
  <2>2. \A c \in Clients, p \in Calls : Holds(c, p)' <=> Holds(c, p)
    BY DEF Holds, hubVars
  <2> QED BY <1>1, <2>1, <2>2 DEF TypeOK, hubVars, HubFacts, TableIsOpenPrompts, TakersAgree,
             ChannelIsAnswer, WaitsAreOver, OneAnswer
<1>3. \A p \in Calls : HubFrame(p) /\ call'[p] = call[p]
  BY DEF HubFrame, hubVars
<1>4. PassedAreAnswered(t)'
  BY <1>1 DEF LoopFacts, PassedAreAnswered
<1>5. AheadIsUntouched(t)'
  <2>1. UNCHANGED <<ask, call>>
    BY DEF hubVars
  <2> QED BY <1>1, <2>1 DEF LoopFacts, AheadIsUntouched, Judged, BeingJudged, BetweenSteps
<1>6. VerdictIsJust(t)'
  <2>1. CASE loop[t].pc \in BetweenSteps /\ loop'[t].pc \notin {"asking", "record", "execute", "running"}
    BY <2>1 DEF VerdictIsJust
  <2>2. CASE loop'[t].pc = loop[t].pc /\ loop'[t].verdict = loop[t].verdict
    <3>1. UNCHANGED <<ask, resolved, mode, call>>
      BY DEF hubVars
    <3> QED BY <1>1, <2>2, <3>1 DEF LoopFacts, VerdictIsJust, Current, Approved, PolicyOf,
                  VerdictOf, Granted
  <2> QED BY <2>1, <2>2
<1>7. {} \in SUBSET Own(t) /\ \A p \in {} : RecordIsVerdict(p)' /\ RanIsApproved(p)'
  OBVIOUS
<1> QED BY <1>2, <1>3, <1>4, <1>5, <1>6, <1>7, TurnStepKeeps

\* And one that begins a step, but for the step's number.
LEMMA NextStep ==
    ASSUME TypeOK, NEW t \in Turns,
           loop' = [loop EXCEPT ![t] = [@ EXCEPT !.pc = "request", !.step = loop[t].step + 1]]
    PROVE  /\ loop' \in [Turns -> Loop] /\ \A u \in Turns : u # t => loop'[u] = loop[u]
           /\ loop'[t].pc = "request" /\ loop'[t].next = loop[t].next
           /\ loop'[t].last = loop[t].last
<1>1. loop \in [Turns -> Loop] /\ loop[t] \in Loop
  BY DEF TypeOK
<1>2. PICK n \in Nat : n = loop[t].step + 1
  BY <1>1 DEF Loop
<1> DEFINE k == [loop[t] EXCEPT !.pc = "request", !.step = n]
<1>3. k \in Loop /\ k.pc = "request" /\ k.next = loop[t].next /\ k.last = loop[t].last
  BY <1>1 DEF Loop, LoopStates
<1>4. loop' = [loop EXCEPT ![t] = k]
  BY <1>2
<1> HIDE DEF k
<1> QED BY <1>3, <1>4, LoopUpdate

\* The model's part of a step, and turn.stop.
LEMMA BetweenCallsKeeps ==
    ASSUME LoopInv, NEW t \in Turns,
           Top(t) \/ Interrupt(t) \/ Provide(t) \/ Consume(t) \/ StopTurn(t)
    PROVE  LoopInv'
<1>1. /\ TypeOK /\ PlaceIsInStep(t) /\ loop \in [Turns -> Loop] /\ loop[t] \in Loop
      /\ loop[t].step \in Nat
  BY LoopTypes DEF LoopInv, LoopFacts, TypeOK
<1>2. ASSUME NEW pc \in {"ended", "consume"}, Go(t, pc), loop[t].pc \in BetweenSteps,
             UNCHANGED <<hubVars, mode, call>>
      PROVE  LoopInv'
  <2>1. pc \in LoopStates /\ pc \notin {"asking", "record", "execute", "running"}
    BY DEF LoopStates
  <2>2. PlaceIsInStep(t)'
    BY <1>1, <1>2, <2>1, GoStep DEF PlaceIsInStep, MakingCall, BetweenSteps
  <2> QED BY <1>1, <1>2, <2>1, <2>2, GoStep, QuietStep
<1>3. CASE Top(t)
  <2>1. CASE Go(t, "ended")
    BY <1>2, <1>3, <2>1 DEF Top, BetweenSteps
  <2>2. CASE loop' = [loop EXCEPT ![t] = [@ EXCEPT !.pc = "request", !.step = loop[t].step + 1]]
    <3>3. PlaceIsInStep(t)'
      BY <1>1, <1>3, <2>2, NextStep DEF PlaceIsInStep, MakingCall, BetweenSteps, Top
    <3>4. UNCHANGED <<hubVars, mode, call>> /\ loop[t].pc \in BetweenSteps
      BY <1>3 DEF Top, BetweenSteps
    <3> QED BY <1>1, <2>2, <3>3, <3>4, NextStep, QuietStep
  <2> QED BY <1>3, <2>1, <2>2, Zenon DEF Top
<1>4. CASE Interrupt(t)
  BY <1>2, <1>4 DEF Interrupt, BetweenSteps
<1>5. CASE Provide(t)
  BY <1>2, <1>5 DEF Provide, BetweenSteps
<1>6. CASE Consume(t)
  <2>1. CASE Go(t, "ended")
    BY <1>2, <1>6, <2>1 DEF Consume, BetweenSteps
  <2>2. ASSUME NEW n \in loop[t].next .. Len(CallsOf[t]),
               loop' = [loop EXCEPT ![t] = [loop[t] EXCEPT !.pc = "emit", !.last = n]]
        PROVE  LoopInv'
    <3>1. n \in Nat /\ loop[t].next <= n /\ n <= Len(CallsOf[t])
      BY <1>1, LoopTypes, CallsAreOwn
    <3> DEFINE k == [loop[t] EXCEPT !.pc = "emit", !.last = n]
    <3>2. k \in Loop /\ k.pc = "emit" /\ k.next = loop[t].next /\ k.last = n
      BY <1>1, <3>1 DEF Loop, LoopStates
    <3> HIDE DEF k
    <3>3. loop' \in [Turns -> Loop] /\ loop'[t] = k /\ \A u \in Turns : u # t => loop'[u] = loop[u]
      BY <1>1, <2>2, <3>2 DEF k
    <3>4. PlaceIsInStep(t)'
      BY <3>1, <3>2, <3>3 DEF PlaceIsInStep, MakingCall, BetweenSteps
    <3>5. UNCHANGED <<hubVars, mode, call>> /\ loop[t].pc \in BetweenSteps
      BY <1>6 DEF Consume, BetweenSteps
    <3> QED BY <3>2, <3>3, <3>4, <3>5, QuietStep
  <2> QED BY <1>6, <2>1, <2>2 DEF Consume
<1>7. CASE StopTurn(t)
  <2> DEFINE k == [loop[t] EXCEPT !.stop = TRUE]
  <2>1. k \in Loop /\ k.pc = loop[t].pc /\ k.next = loop[t].next /\ k.last = loop[t].last
        /\ k.verdict = loop[t].verdict
    BY <1>1 DEF Loop
  <2>2. loop' = [loop EXCEPT ![t] = k]
    BY <1>7 DEF StopTurn
  <2> HIDE DEF k
  <2>3. loop' \in [Turns -> Loop] /\ loop'[t] = k /\ \A u \in Turns : u # t => loop'[u] = loop[u]
    BY <1>1, <2>1, <2>2
  <2>4. PlaceIsInStep(t)'
    BY <1>1, <2>1, <2>3 DEF PlaceIsInStep
  <2>5. UNCHANGED <<hubVars, mode, call>>
    BY <1>7 DEF StopTurn
  <2> QED BY <2>1, <2>3, <2>4, <2>5, QuietStep
<1> QED BY <1>3, <1>4, <1>5, <1>6, <1>7

\* While a turn makes a call, nothing else of its own changes.
LEMMA CallStepKeeps ==
    ASSUME LoopInv, NEW t \in Turns, loop[t].pc \in MakingCall, NEW p, p = Current(t),
           TypeOK', HubFacts', UNCHANGED mode,
           \A u \in Turns : u # t => loop'[u] = loop[u],
           loop'[t].next = loop[t].next, loop'[t].last = loop[t].last,
           loop'[t].pc \in MakingCall \cup {"killed"},
           \A q \in Calls : q # p => HubFrame(q) /\ call'[q] = call[q],
           call'[p].gate = "none" \/ Judged(t)',
           ask'[p].pc = "unasked" \/ Judged(t)' \/ BeingJudged(t)',
           VerdictIsJust(t)', RecordIsVerdict(p)', RanIsApproved(p)'
    PROVE  LoopInv'
<1>1. TypeOK /\ PlaceIsInStep(t) /\ PassedAreAnswered(t) /\ AheadIsUntouched(t)
  BY DEF LoopInv, LoopFacts
<1>2. loop[t].next \in DOMAIN CallsOf[t] /\ p \in Own(t) /\ p \in Calls /\ p = CallsOf[t][loop[t].next]
  BY <1>1, CurrentIsOwn DEF Current
<1>3. \A i \in DOMAIN CallsOf[t] : CallsOf[t][i] \in Calls /\ (i # loop[t].next => CallsOf[t][i] # p)
  BY <1>2, CallsAreOwn DEF Own
<1>4. PlaceIsInStep(t)'
  BY <1>1 DEF PlaceIsInStep, MakingCall, BetweenSteps
<1>5. PassedAreAnswered(t)'
  <2>1. ASSUME NEW i \in DOMAIN CallsOf[t], i < loop'[t].next
        PROVE  call'[CallsOf[t][i]].emitted = "result"
    <3>1. i # loop[t].next /\ i < loop[t].next
      BY <1>1, <2>1, LoopTypes, CallsAreOwn
    <3> QED BY <1>1, <1>3, <3>1 DEF PassedAreAnswered
  <2> QED BY <2>1 DEF PassedAreAnswered
<1>6. AheadIsUntouched(t)'
  <2>1. ASSUME NEW i \in DOMAIN CallsOf[t], i >= loop'[t].next
        PROVE  /\ i = loop'[t].next =>
                    /\ Judged(t)' \/ call'[CallsOf[t][i]].gate = "none"
                    /\ Judged(t)' \/ BeingJudged(t)' \/ ask'[CallsOf[t][i]].pc = "unasked"
               /\ i > loop'[t].next =>
                    call'[CallsOf[t][i]].gate = "none" /\ ask'[CallsOf[t][i]].pc = "unasked"
    <3>1. CASE i = loop[t].next
      <4>1. ~(i > loop'[t].next)
        BY <1>1, <3>1, LoopTypes
      <4> QED BY <1>2, <3>1, <4>1
    <3>2. CASE i # loop[t].next
      <4>1. i > loop[t].next
        BY <1>1, <2>1, <3>2, LoopTypes, CallsAreOwn
      <4>2. call[CallsOf[t][i]].gate = "none" /\ ask[CallsOf[t][i]].pc = "unasked"
        BY <1>1, <2>1, <4>1 DEF AheadIsUntouched
      <4>3. HubFrame(CallsOf[t][i]) /\ call'[CallsOf[t][i]] = call[CallsOf[t][i]]
        BY <1>3, <3>2
      <4> QED BY <3>2, <4>2, <4>3 DEF HubFrame
    <3> QED BY <3>1, <3>2
  <2> QED BY <2>1 DEF AheadIsUntouched
<1>7. {p} \in SUBSET Own(t)
  BY <1>2
<1>8. /\ \A q \in Calls : q \notin {p} => HubFrame(q) /\ call'[q] = call[q]
      /\ \A q \in {p} : RecordIsVerdict(q)' /\ RanIsApproved(q)'
  OBVIOUS
<1> QED BY <1>4, <1>5, <1>6, <1>7, <1>8, TurnStepKeeps

\* What a step that leaves the hub alone, but for failures, keeps of it.
LEMMA HubRests ==
    ASSUME HubType, HubFacts, errors' \in 0 .. MaxErrors,
           UNCHANGED <<pending, ask, answerer, resolved, outcome, present, shown, up>>
    PROVE  HubType' /\ HubFacts' /\ \A q \in Calls : HubFrame(q)
<1>1. \A c \in Clients, q \in Calls : Holds(c, q)' <=> Holds(c, q)
  BY DEF Holds
<1>2. HubType' BY DEF HubType
<1>3. HubFacts'
  BY <1>1 DEF HubFacts, TableIsOpenPrompts, TakersAgree, ChannelIsAnswer, WaitsAreOver, OneAnswer
<1> QED BY <1>2, <1>3 DEF HubFrame

\* A change of the call a turn makes.
LEMMA CallUpdate ==
    ASSUME TypeOK, NEW p \in Calls, NEW k \in Call, call' = [call EXCEPT ![p] = k]
    PROVE  /\ call' \in [Calls -> Call] /\ call'[p] = k
           /\ \A q \in Calls : q # p => call'[q] = call[q]
  BY DEF TypeOK

\* A step that makes p's part of the call, when the hub rests.
LEMMA WorkStepKeeps ==
    ASSUME LoopInv, NEW t \in Turns, loop[t].pc \in MakingCall, NEW p, p = Current(t),
           NEW pc \in MakingCall, Go(t, pc), UNCHANGED mode,
           NEW k \in Call, call' = [call EXCEPT ![p] = k], k.category = call[p].category,
           errors' \in 0 .. MaxErrors,
           UNCHANGED <<pending, ask, answerer, resolved, outcome, present, shown, up>>,
           k.gate = "none" \/ pc \in {"execute", "running", "result"},
           ask[p].pc = "unasked" \/ pc \in {"execute", "running", "result", "asking", "record"},
           k.gate = call[p].gate \/
             ask[p].pc = "unasked" \/ (ask[p].pc = "done" /\ k.gate = VerdictOf(p)),
           k.tool # "idle" => Approved(p), pc \notin {"asking", "record"},
           pc \in {"execute", "running"} => Approved(p)
    PROVE  LoopInv'
<1>1. TypeOK /\ HubType /\ HubFacts /\ PlaceIsInStep(t) /\ p \in Calls /\ Current(t)' = p
  <2>1. TypeOK /\ HubType /\ HubFacts /\ PlaceIsInStep(t)
    BY DEF LoopInv, LoopFacts, TypeOK
  <2>2. pc \in LoopStates
    BY DEF MakingCall, LoopStates
  <2> QED BY <2>1, <2>2, CurrentIsOwn, GoStep DEF Current
<1>2. pc \in LoopStates
  BY DEF MakingCall, LoopStates
<1>3. HubType' /\ HubFacts' /\ \A q \in Calls : HubFrame(q)
  BY <1>1, HubRests
<1>4. /\ call' \in [Calls -> Call] /\ call'[p] = k
      /\ \A q \in Calls : q # p => call'[q] = call[q]
  BY <1>1, CallUpdate
<1>5. TypeOK'
  BY <1>1, <1>2, <1>3, <1>4, GoStep DEF TypeOK
<1>6. PolicyOf(p)' = PolicyOf(p) /\ Approved(p)' = Approved(p) /\ VerdictOf(p)' = VerdictOf(p)
  BY <1>1, <1>4 DEF PolicyOf, Approved, VerdictOf, Granted
<1>7. VerdictIsJust(t)'
  BY <1>1, <1>2, <1>6, GoStep DEF VerdictIsJust
<1>8. RecordIsVerdict(p)' /\ RanIsApproved(p)'
  BY <1>1, <1>4, <1>6 DEF RecordIsVerdict, RanIsApproved, LoopInv, LoopFacts
<1>9. /\ call'[p].gate = "none" \/ Judged(t)'
      /\ ask'[p].pc = "unasked" \/ Judged(t)' \/ BeingJudged(t)'
  BY <1>1, <1>2, <1>4, GoStep DEF Judged, BeingJudged
<1>10. /\ \A u \in Turns : u # t => loop'[u] = loop[u]
       /\ loop'[t].next = loop[t].next /\ loop'[t].last = loop[t].last
       /\ loop'[t].pc \in MakingCall \cup {"killed"}
  BY <1>1, <1>2, GoStep
<1>11. \A q \in Calls : q # p => HubFrame(q) /\ call'[q] = call[q]
  BY <1>3, <1>4
<1> QED BY <1>3, <1>5, <1>7, <1>8, <1>9, <1>10, <1>11, CallStepKeeps

\* What is known of the call a turn makes.
LEMMA AtCall ==
    ASSUME LoopInv, NEW t \in Turns, loop[t].pc \in MakingCall, NEW p, p = Current(t)
    PROVE  /\ TypeOK /\ HubType /\ HubFacts /\ PlaceIsInStep(t) /\ p \in Calls /\ call[p] \in Call
           /\ loop[t].pc \in {"emit", "dispatch", "gate"} =>
                call[p].gate = "none" /\ ask[p].pc = "unasked"
           /\ loop[t].pc \in {"asking", "record"} => call[p].gate = "none"
           /\ loop[t].pc = "asking" => PolicyOf(p) = "prompt" /\ ask[p].pc # "unasked"
           /\ loop[t].pc = "record" =>
                \/ /\ PolicyOf(p) = "prompt" /\ ask[p].pc = "done"
                   /\ loop[t].verdict = VerdictOf(p)
                \/ /\ ask[p].pc = "unasked"
                   /\ loop[t].verdict = "allow" => PolicyOf(p) = "allow"
           /\ loop[t].pc \in {"execute", "running"} => Approved(p)
           /\ RecordIsVerdict(p) /\ RanIsApproved(p) /\ errors \in 0 .. MaxErrors
           /\ loop[t].verdict \in Decisions
<1>1. TypeOK /\ HubType /\ HubFacts /\ LoopFacts
  BY DEF LoopInv, TypeOK
<1>2. PlaceIsInStep(t) /\ AheadIsUntouched(t) /\ VerdictIsJust(t)
  BY <1>1 DEF LoopFacts
<1>3. loop[t].next \in DOMAIN CallsOf[t] /\ p \in Calls /\ p = CallsOf[t][loop[t].next]
  BY <1>1, <1>2, CurrentIsOwn DEF Current
<1>4. loop[t].next >= loop[t].next
  BY <1>1, LoopTypes
<1>5. /\ Judged(t) \/ call[p].gate = "none"
      /\ Judged(t) \/ BeingJudged(t) \/ ask[p].pc = "unasked"
  BY <1>2, <1>3, <1>4 DEF AheadIsUntouched
<1>6. call[p] \in Call /\ errors \in 0 .. MaxErrors /\ RecordIsVerdict(p) /\ RanIsApproved(p)
  BY <1>1, <1>3 DEF TypeOK, HubType, LoopFacts
<1> QED BY <1>1, <1>2, <1>3, <1>5, <1>6, LoopTypes DEF Judged, BeingJudged, VerdictIsJust

\* The call is emitted.
LEMMA EmitKeeps ==
    ASSUME LoopInv, NEW t \in Turns, Emit(t)
    PROVE  LoopInv'
<1>1. PICK p : p = Current(t)
  OBVIOUS
<1>2. loop[t].pc = "emit" /\ loop[t].pc \in MakingCall
  BY DEF Emit, MakingCall
<1> DEFINE k == [call[p] EXCEPT !.emitted = "dispatch"]
<1>3. /\ k \in Call /\ k.category = call[p].category /\ k.gate = call[p].gate /\ k.tool = call[p].tool
  BY <1>1, <1>2, AtCall DEF Call
<1>4. call' = [call EXCEPT ![p] = k] /\ Go(t, "dispatch") /\ UNCHANGED <<hubVars, mode>>
  BY <1>1 DEF Emit
<1> HIDE DEF k
<1>5. "dispatch" \in MakingCall /\ errors' \in 0 .. MaxErrors
      /\ UNCHANGED <<pending, ask, answerer, resolved, outcome, present, shown, up>>
  BY <1>1, <1>2, <1>4, AtCall DEF MakingCall, hubVars
<1>6. k.gate = "none" /\ ask[p].pc = "unasked" /\ (k.tool # "idle" => Approved(p))
  BY <1>1, <1>2, <1>3, AtCall DEF RanIsApproved
<1> QED BY <1>1, <1>2, <1>3, <1>4, <1>5, <1>6, WorkStepKeeps

\* The operation row is written, or not.
LEMMA DispatchKeeps ==
    ASSUME LoopInv, NEW t \in Turns, Dispatch(t)
    PROVE  LoopInv'
<1>1. PICK p : p = Current(t)
  OBVIOUS
<1>2. loop[t].pc = "dispatch" /\ loop[t].pc \in MakingCall
  BY DEF Dispatch, MakingCall
<1>3. call \in [Calls -> Call] /\ p \in Calls /\ call[p] \in Call
  BY <1>1, <1>2, AtCall DEF TypeOK
<1>4. PICK k \in Call : /\ call' = [call EXCEPT ![p] = k] /\ k.category = call[p].category
                        /\ k.gate = call[p].gate /\ k.tool = call[p].tool
  <2>1. CASE UNCHANGED call
    <3>1. call' = [call EXCEPT ![p] = call[p]]
      BY <1>3, <2>1
    <3> QED BY <1>3, <3>1
  <2>2. CASE call' = [call EXCEPT ![p].row = "dispatched"]
    <3> DEFINE k == [call[p] EXCEPT !.row = "dispatched"]
    <3>1. /\ k \in Call /\ k.category = call[p].category /\ k.gate = call[p].gate
          /\ k.tool = call[p].tool
      BY <1>3 DEF Call
    <3>2. call' = [call EXCEPT ![p] = k]
      BY <2>2
    <3> QED BY <3>1, <3>2
  <2> QED BY <1>1, <2>1, <2>2 DEF Dispatch, WriteRow
<1>5. "gate" \in MakingCall /\ errors' \in 0 .. MaxErrors
  BY <1>1, <1>2, AtCall, HubAssumption DEF MakingCall, Dispatch, WriteRow
<1>6. /\ Go(t, "gate") /\ UNCHANGED mode
      /\ UNCHANGED <<pending, ask, answerer, resolved, outcome, present, shown, up>>
  BY DEF Dispatch
<1>7. k.gate = "none" /\ ask[p].pc = "unasked" /\ (k.tool # "idle" => Approved(p))
  BY <1>1, <1>2, <1>4, AtCall DEF RanIsApproved
<1> QED BY <1>1, <1>2, <1>4, <1>5, <1>6, <1>7, WorkStepKeeps

\* A verdict to allow, at the record, is an approval.
LEMMA AllowIsApproval ==
    ASSUME LoopInv, NEW t \in Turns, loop[t].pc = "record", loop[t].verdict = "allow"
    PROVE  Approved(Current(t))
<1>1. PICK p : p = Current(t)
  OBVIOUS
<1>2. loop[t].pc \in MakingCall
  BY DEF MakingCall
<1>3. CASE PolicyOf(p) = "prompt" /\ VerdictOf(p) = "allow"
  <2>1. ask[p].answer = "allow" /\ p \in Calls
    BY <1>1, <1>2, <1>3, AtCall DEF VerdictOf, Granted
  <2>2. resolved[p] = <<"allow">>
    BY <1>1, <1>2, <2>1, AtCall DEF HubFacts, ChannelIsAnswer, Decisions
  <2> QED BY <1>1, <1>3, <2>2 DEF Approved
<1>4. CASE PolicyOf(p) = "allow"
  BY <1>1, <1>4 DEF Approved
<1> QED BY <1>1, <1>2, <1>3, <1>4, AtCall

\* The gate records its verdict, or fails to, and the turn goes by the verdict.
LEMMA RecordKeeps ==
    ASSUME LoopInv, NEW t \in Turns, RecordPermission(t)
    PROVE  LoopInv'
<1>1. PICK p : p = Current(t)
  OBVIOUS
<1>2. loop[t].pc = "record" /\ loop[t].pc \in MakingCall
  BY DEF RecordPermission, MakingCall
<1>3. PICK v \in Decisions : v = loop[t].verdict
  BY <1>1, <1>2, AtCall
<1>4. PICK row \in Written(v) : /\ call' = [call EXCEPT ![p].gate = row]
                                /\ errors' = errors + Failures(row, v)
  BY <1>1, <1>3 DEF RecordPermission
<1>5. row \in {v, "none"} /\ row \in Record /\ errors' \in 0 .. MaxErrors
  BY <1>1, <1>2, <1>4, AtCall, HubAssumption DEF Written, Failures, Record
<1> DEFINE k == [call[p] EXCEPT !.gate = row]
           pc == IF v = "allow" THEN "execute" ELSE "result"
<1>6. k \in Call /\ k.category = call[p].category /\ k.gate = row /\ k.tool = call[p].tool
  BY <1>1, <1>2, <1>5, AtCall DEF Call
<1>7. call' = [call EXCEPT ![p] = k]
  BY <1>4
<1>8. Go(t, pc) /\ UNCHANGED mode
      /\ UNCHANGED <<pending, ask, answerer, resolved, outcome, present, shown, up>>
  BY <1>3 DEF RecordPermission
<1>9. pc \in MakingCall /\ pc \in {"execute", "result"} /\ (pc \in {"execute", "running"} => Approved(p))
  BY <1>1, <1>2, <1>3, AllowIsApproval DEF MakingCall
<1>10. /\ k.gate = call[p].gate \/ ask[p].pc = "unasked" \/ (ask[p].pc = "done" /\ k.gate = VerdictOf(p))
       /\ k.tool # "idle" => Approved(p)
  <2>1. call[p].gate = "none" /\ (call[p].tool # "idle" => Approved(p))
    BY <1>1, <1>2, AtCall DEF RanIsApproved
  <2>2. ask[p].pc = "unasked" \/ (ask[p].pc = "done" /\ v = VerdictOf(p))
    BY <1>1, <1>2, <1>3, AtCall
  <2> QED BY <1>5, <1>6, <2>1, <2>2
<1> HIDE DEF k, pc
<1> QED BY <1>1, <1>2, <1>5, <1>6, <1>7, <1>8, <1>9, <1>10, WorkStepKeeps

\* Only an approved call reaches its tool.
LEMMA ToolKeeps ==
    ASSUME LoopInv, NEW t \in Turns, StartTool(t) \/ FinishTool(t)
    PROVE  LoopInv'
<1>1. PICK p : p = Current(t)
  OBVIOUS
<1>2. PICK tool \in {"running", "finished"}, pc \in {"running", "result"} :
        /\ call' = [call EXCEPT ![p].tool = tool] /\ Go(t, pc)
        /\ UNCHANGED <<hubVars, mode>> /\ loop[t].pc \in {"execute", "running"}
  BY <1>1 DEF StartTool, FinishTool
<1>3. loop[t].pc \in MakingCall /\ pc \in MakingCall /\ Approved(p)
  BY <1>1, <1>2, AtCall DEF MakingCall
<1> DEFINE k == [call[p] EXCEPT !.tool = tool]
<1>4. k \in Call /\ k.category = call[p].category /\ k.gate = call[p].gate
  BY <1>1, <1>3, AtCall DEF Call
<1>5. call' = [call EXCEPT ![p] = k]
  BY <1>2
<1> HIDE DEF k
<1>6. /\ errors' \in 0 .. MaxErrors /\ UNCHANGED mode /\ Go(t, pc)
      /\ UNCHANGED <<pending, ask, answerer, resolved, outcome, present, shown, up>>
  BY <1>1, <1>2, <1>3, AtCall DEF hubVars
<1>7. pc \in {"execute", "running", "result"} /\ pc \notin {"asking", "record"}
  BY <1>2
<1> QED BY <1>1, <1>3, <1>4, <1>5, <1>6, <1>7, WorkStepKeeps

\* Where the call itself rests, and the turn takes a verdict with it or not.
LEMMA JudgeStepKeeps ==
    ASSUME LoopInv, NEW t \in Turns, loop[t].pc \in {"gate", "asking"}, NEW p, p = Current(t),
           UNCHANGED <<hubVars, mode, call>>,
           NEW pc \in {"execute", "record"}, NEW v \in Decisions, Judge(t, pc, v),
           \/ /\ pc = "record" /\ PolicyOf(p) = "prompt" /\ ask[p].pc = "done" /\ v = VerdictOf(p)
           \/ /\ pc = "record" /\ ask[p].pc = "unasked" /\ (v = "allow" => PolicyOf(p) = "allow")
           \/ pc = "execute" /\ Approved(p)
    PROVE  LoopInv'
<1>1. pc \in LoopStates /\ pc \in MakingCall /\ loop[t].pc \in MakingCall
  BY DEF LoopStates, MakingCall
<1>2. /\ TypeOK /\ HubType /\ HubFacts /\ p \in Calls /\ call[p].gate = "none"
      /\ RecordIsVerdict(p) /\ RanIsApproved(p) /\ errors \in 0 .. MaxErrors
      /\ PlaceIsInStep(t)
  BY <1>1, AtCall
<1>3. /\ UNCHANGED <<pending, ask, answerer, resolved, outcome, present, shown, up, errors>>
      /\ errors' \in 0 .. MaxErrors
  BY <1>2 DEF hubVars
<1>4. HubType' /\ HubFacts' /\ \A q \in Calls : HubFrame(q)
  BY <1>2, <1>3, HubRests
<1>5. /\ loop' \in [Turns -> Loop] /\ \A u \in Turns : u # t => loop'[u] = loop[u]
      /\ loop'[t].pc = pc /\ loop'[t].next = loop[t].next /\ loop'[t].last = loop[t].last
      /\ loop'[t].verdict = v
  BY <1>1, <1>2, JudgeStep
<1>6. TypeOK'
  BY <1>2, <1>4, <1>5 DEF TypeOK
<1>7. /\ PolicyOf(p)' = PolicyOf(p) /\ Approved(p)' = Approved(p) /\ VerdictOf(p)' = VerdictOf(p)
      /\ Current(t)' = p
  BY <1>3, <1>5 DEF PolicyOf, Approved, VerdictOf, Granted, Current
<1>8. VerdictIsJust(t)'
  BY <1>3, <1>5, <1>7 DEF VerdictIsJust
<1>9. RecordIsVerdict(p)' /\ RanIsApproved(p)'
  BY <1>2, <1>3, <1>7 DEF RecordIsVerdict, RanIsApproved
<1>10. /\ call'[p].gate = "none" \/ Judged(t)'
       /\ ask'[p].pc = "unasked" \/ Judged(t)' \/ BeingJudged(t)'
       /\ loop'[t].pc \in MakingCall \cup {"killed"}
  BY <1>1, <1>2, <1>5 DEF Judged, BeingJudged
<1>11. \A q \in Calls : q # p => HubFrame(q) /\ call'[q] = call[q]
  BY <1>4
<1> QED BY <1>1, <1>4, <1>5, <1>6, <1>8, <1>9, <1>10, <1>11, CallStepKeeps

\* A prompt that is over gives its verdict.
LEMMA AskedKeeps ==
    ASSUME LoopInv, NEW t \in Turns, Asked(t)
    PROVE  LoopInv'
<1>1. PICK p : p = Current(t)
  OBVIOUS
<1>2. loop[t].pc \in MakingCall /\ loop[t].pc = "asking" /\ ask[p].pc = "done"
      /\ UNCHANGED <<hubVars, mode, call>> /\ Judge(t, "record", VerdictOf(p))
  BY <1>1 DEF Asked, MakingCall, VerdictOf
<1>3. PolicyOf(p) = "prompt"
  BY <1>1, <1>2, AtCall
<1>4. VerdictOf(p) \in Decisions
  BY DEF VerdictOf, Decisions
<1> QED BY <1>1, <1>2, <1>3, <1>4, JudgeStepKeeps

\* The gate: no gate, a verdict of the policy, or a prompt.
LEMMA GateKeeps ==
    ASSUME LoopInv, NEW t \in Turns, Gate(t)
    PROVE  LoopInv'
<1>1. PICK p : p = Current(t)
  OBVIOUS
<1>2. loop[t].pc \in MakingCall /\ loop[t].pc = "gate" /\ UNCHANGED <<mode, call>>
  BY DEF Gate, MakingCall
<1>3. /\ TypeOK /\ HubType /\ HubFacts /\ p \in Calls /\ call[p].gate = "none"
      /\ ask[p].pc = "unasked" /\ PlaceIsInStep(t) /\ RanIsApproved(p)
  BY <1>1, <1>2, AtCall
<1>4. CASE mode = "bypass" /\ Judge(t, "execute", "allow") /\ UNCHANGED hubVars
  <2>1. Approved(p)
    BY <1>4 DEF Approved, PolicyOf, Policy
  <2>2. "allow" \in Decisions /\ loop[t].pc \in {"gate", "asking"} /\ "execute" \in {"execute", "record"}
    BY <1>2 DEF Decisions
  <2> QED BY <1>1, <1>2, <1>4, <2>1, <2>2, JudgeStepKeeps
<1>5. CASE /\ PolicyOf(p) # "prompt" /\ UNCHANGED hubVars
           /\ Judge(t, "record", IF PolicyOf(p) = "allow" THEN "allow" ELSE "deny")
  <2> DEFINE v == IF PolicyOf(p) = "allow" THEN "allow" ELSE "deny"
  <2>1. v \in Decisions /\ (v = "allow" => PolicyOf(p) = "allow") /\ Judge(t, "record", v)
    BY <1>5 DEF Decisions
  <2> HIDE DEF v
  <2> QED BY <1>1, <1>2, <1>3, <1>5, <2>1, JudgeStepKeeps
<1>6. CASE PolicyOf(p) = "prompt" /\ Insert(p) /\ Go(t, "asking")
  <2>1. "asking" \in LoopStates /\ "asking" \in MakingCall
    BY DEF LoopStates, MakingCall
  <2>2. HubType' /\ HubFacts'
    BY <1>3, <1>6, AskTyped, InsertFacts
  <2>3. /\ loop' \in [Turns -> Loop] /\ \A u \in Turns : u # t => loop'[u] = loop[u]
        /\ loop'[t].pc = "asking" /\ loop'[t].next = loop[t].next /\ loop'[t].last = loop[t].last
    BY <1>3, <1>6, <2>1, GoStep
  <2>4. TypeOK'
    BY <1>2, <1>3, <2>2, <2>3 DEF TypeOK
  <2>5. /\ ask'[p].pc = "read" /\ \A q \in Calls : q # p => ask'[q] = ask[q]
        /\ UNCHANGED resolved
    BY <1>3, <1>6 DEF Insert, HubType, Asking
  <2>6. \A q \in Calls : q # p => HubFrame(q) /\ call'[q] = call[q]
    BY <1>2, <2>5 DEF HubFrame
  <2>7. PolicyOf(p)' = PolicyOf(p) /\ Approved(p)' = Approved(p) /\ Current(t)' = p
    BY <1>1, <1>2, <2>3, <2>5 DEF PolicyOf, Approved, Current
  <2>8. VerdictIsJust(t)'
    BY <1>6, <2>3, <2>5, <2>7 DEF VerdictIsJust
  <2>9. RecordIsVerdict(p)' /\ RanIsApproved(p)' /\ call'[p].gate = "none"
    BY <1>2, <1>3, <2>7 DEF RecordIsVerdict, RanIsApproved, Decisions
  <2>10. BeingJudged(t)' /\ loop'[t].pc \in MakingCall \cup {"killed"}
    BY <2>1, <2>3 DEF BeingJudged
  <2> QED BY <1>1, <1>2, <2>2, <2>3, <2>4, <2>6, <2>8, <2>9, <2>10, CallStepKeeps
<1> QED BY <1>1, <1>4, <1>5, <1>6 DEF Gate, PolicyOf

\* The result closes the call; the next one was not touched yet.
LEMMA ResultKeeps ==
    ASSUME LoopInv, NEW t \in Turns, Result(t)
    PROVE  LoopInv'
<1>1. PICK p : p = Current(t)
  OBVIOUS
<1>2. loop[t].pc \in MakingCall /\ loop[t].pc = "result" /\ UNCHANGED mode
      /\ UNCHANGED <<pending, ask, answerer, resolved, outcome, present, shown, up>>
  BY DEF Result, MakingCall
<1>3. /\ TypeOK /\ HubType /\ HubFacts /\ p \in Calls /\ call[p] \in Call /\ call \in [Calls -> Call]
      /\ RecordIsVerdict(p) /\ RanIsApproved(p) /\ errors \in 0 .. MaxErrors
      /\ PlaceIsInStep(t) /\ PassedAreAnswered(t) /\ AheadIsUntouched(t)
  BY <1>1, <1>2, AtCall DEF TypeOK, LoopInv, LoopFacts
<1>4. loop[t].next \in DOMAIN CallsOf[t] /\ p \in Own(t) /\ p = CallsOf[t][loop[t].next]
  BY <1>1, <1>2, <1>3, CurrentIsOwn DEF Current
<1>5. PICK k \in Call :
        /\ call' = [call EXCEPT ![p] = k] /\ k.category = call[p].category
        /\ k.gate = call[p].gate /\ k.tool = call[p].tool /\ k.emitted = "result"
  <2> DEFINE f == [call[p] EXCEPT !.emitted = "result"]
             g == [f EXCEPT !.row = "completed"]
  <2>1. \A k \in {f, g} : /\ k \in Call /\ k.category = call[p].category
                          /\ k.gate = call[p].gate /\ k.tool = call[p].tool /\ k.emitted = "result"
    BY <1>3 DEF Call
  <2>2. call' = [call EXCEPT ![p] = f] \/ call' = [call EXCEPT ![p] = g]
    BY <1>1 DEF Result
  <2> HIDE DEF f, g
  <2> QED BY <2>1, <2>2
<1>6. errors' \in 0 .. MaxErrors
  BY <1>3, HubAssumption DEF Result
<1>7. HubType' /\ HubFacts' /\ \A q \in Calls : HubFrame(q)
  BY <1>2, <1>3, <1>6, HubRests
<1>8. call' \in [Calls -> Call] /\ call'[p] = k /\ \A q \in Calls : q # p => call'[q] = call[q]
  BY <1>3, <1>5, CallUpdate
<1>9. /\ loop' \in [Turns -> Loop] /\ \A u \in Turns : u # t => loop'[u] = loop[u]
      /\ loop'[t].pc = IF loop[t].next < loop[t].last THEN "emit" ELSE "top"
      /\ loop'[t].next = loop[t].next + 1 /\ loop'[t].last = loop[t].last
  <2>1. loop[t] \in Loop
    BY <1>3 DEF TypeOK
  <2> DEFINE r == loop[t]
             next == IF r.next < r.last THEN "emit" ELSE "top"
             after == [r EXCEPT !.pc = next, !.next = r.next + 1, !.verdict = "deny"]
  <2>2. PICK n \in Nat \ {0} : n = r.next + 1
    BY <2>1 DEF Loop
  <2>3. next \in LoopStates /\ "deny" \in Decisions
    BY DEF LoopStates, Decisions
  <2>4. /\ after \in Loop /\ after.next = r.next + 1 /\ after.last = r.last /\ after.pc = next
    <3> DEFINE b == [r EXCEPT !.pc = next, !.next = n, !.verdict = "deny"]
    <3>1. b \in Loop /\ b.next = n /\ b.last = r.last /\ b.pc = next
      <4> HIDE DEF next
      <4> QED BY <2>1, <2>3 DEF Loop
    <3>2. after = b
      BY <2>2
    <3> HIDE DEF b, after, next
    <3> QED BY <2>2, <3>1, <3>2
  <2>5. loop' = [loop EXCEPT ![t] = after]
    BY DEF Result, AfterCall
  <2> HIDE DEF after
  <2> QED BY <1>3, <2>4, <2>5, LoopUpdate
<1>10. TypeOK'
  BY <1>2, <1>3, <1>7, <1>8, <1>9 DEF TypeOK
<1>11. loop[t].next \in Nat /\ loop[t].last \in Nat /\ DOMAIN CallsOf[t] \subseteq Nat
  BY <1>3, LoopTypes, CallsAreOwn
<1>12. PlaceIsInStep(t)'
  BY <1>2, <1>3, <1>9, <1>11 DEF PlaceIsInStep, MakingCall, BetweenSteps
<1>13. \A i \in DOMAIN CallsOf[t] : CallsOf[t][i] \in Calls /\ (i # loop[t].next => CallsOf[t][i] # p)
  BY <1>4, CallsAreOwn DEF Own
<1>14. PassedAreAnswered(t)'
  <2>1. ASSUME NEW i \in DOMAIN CallsOf[t], i < loop'[t].next
        PROVE  call'[CallsOf[t][i]].emitted = "result"
    <3>1. CASE i = loop[t].next BY <1>4, <1>5, <1>8, <3>1
    <3>2. CASE i # loop[t].next
      <4>1. i < loop[t].next
        BY <1>9, <1>11, <2>1, <3>2
      <4> QED BY <1>3, <1>8, <1>13, <3>2, <4>1 DEF PassedAreAnswered
    <3> QED BY <3>1, <3>2
  <2> QED BY <2>1 DEF PassedAreAnswered
<1>15. AheadIsUntouched(t)'
  <2>1. ASSUME NEW i \in DOMAIN CallsOf[t], i >= loop'[t].next
        PROVE  call'[CallsOf[t][i]].gate = "none" /\ ask'[CallsOf[t][i]].pc = "unasked"
    <3>1. i > loop[t].next /\ i >= loop[t].next /\ i # loop[t].next
      BY <1>9, <1>11, <2>1
    <3>2. call[CallsOf[t][i]].gate = "none" /\ ask[CallsOf[t][i]].pc = "unasked"
      BY <1>3, <3>1 DEF AheadIsUntouched
    <3> QED BY <1>2, <1>8, <1>13, <3>1, <3>2
  <2> QED BY <2>1 DEF AheadIsUntouched
<1>16. VerdictIsJust(t)'
  BY <1>9 DEF VerdictIsJust
<1>17. RecordIsVerdict(p)' /\ RanIsApproved(p)'
  BY <1>2, <1>3, <1>5, <1>8 DEF RecordIsVerdict, RanIsApproved, Approved, PolicyOf, VerdictOf, Granted
<1>18. {p} \in SUBSET Own(t) /\ \A q \in {p} : RecordIsVerdict(q)' /\ RanIsApproved(q)'
  BY <1>4, <1>17
<1>19. \A q \in Calls : q \notin {p} => HubFrame(q) /\ call'[q] = call[q]
  BY <1>7, <1>8
<1> QED BY <1>2, <1>7, <1>9, <1>10, <1>12, <1>14, <1>15, <1>16, <1>18, <1>19, TurnStepKeeps

\* At shutdown a turn's task is dropped, and with it the prompt it waits for.
LEMMA DropTurnKeeps ==
    ASSUME LoopInv, NEW t \in Turns, DropTurn(t)
    PROVE  LoopInv'
<1>1. /\ TypeOK /\ HubType /\ HubFacts /\ PlaceIsInStep(t)
      /\ loop[t].pc \in BetweenSteps \cup MakingCall
  BY LoopTypes DEF LoopInv, LoopFacts, TypeOK, DropTurn, Over, LoopStates, BetweenSteps, MakingCall
<1>2. /\ loop' \in [Turns -> Loop] /\ \A u \in Turns : u # t => loop'[u] = loop[u]
      /\ loop'[t].pc = "killed" /\ loop'[t].next = loop[t].next /\ loop'[t].last = loop[t].last
  BY <1>1, GoStep DEF DropTurn, LoopStates
<1>3. /\ ~up /\ UNCHANGED <<mode, call>>
      /\ UNCHANGED <<pending, answerer, resolved, outcome, present, shown, errors, up>>
  BY DEF DropTurn
<1>4. PlaceIsInStep(t)'
  BY <1>1, <1>2 DEF PlaceIsInStep, MakingCall, BetweenSteps
<1>5. CASE loop[t].pc \in BetweenSteps
  <2>1. UNCHANGED <<hubVars, mode, call>>
    BY <1>3, <1>5 DEF DropTurn, hubVars, BetweenSteps
  <2> QED BY <1>2, <1>4, <1>5, <2>1, QuietStep
<1>6. CASE loop[t].pc \in MakingCall
  <2>1. PICK p : p = Current(t)
    OBVIOUS
  <2>2. p \in Calls /\ RecordIsVerdict(p) /\ RanIsApproved(p) /\ errors \in 0 .. MaxErrors
    BY <1>6, <2>1, AtCall
  <2>3. VerdictIsJust(t)' /\ Judged(t)' /\ loop'[t].pc \in MakingCall \cup {"killed"}
    BY <1>2 DEF VerdictIsJust, Judged
  <2>4. CASE loop[t].pc = "asking"
    <3>1. ask \in [Calls -> Asking] /\ call[p].gate = "none" /\ PolicyOf(p) = "prompt"
      BY <1>6, <2>1, <2>4, AtCall DEF HubType
    <3>2. ask' = [ask EXCEPT ![p].pc = "gone"]
      BY <2>1, <2>4 DEF DropTurn
    <3>3. ask' \in [Calls -> Asking]
      BY <2>2, <3>1, <3>2 DEF Asking
    <3>4. ask'[p].pc = "gone" /\ ask'[p].answer = ask[p].answer
          /\ \A q \in Calls : q # p => ask'[q] = ask[q]
      BY <2>2, <3>1, <3>2 DEF Asking
    <3>5. ask[p].pc # "unasked"
      BY <1>6, <2>1, <2>4, AtCall
    <3>6. HubType'
      BY <1>1, <1>3, <3>3 DEF HubType
    <3>7. HubFacts'
      BY <1>1, <1>3, <2>2, <3>4, <3>5, AskMoves
    <3>8. TypeOK'
      BY <1>1, <1>2, <1>3, <3>6 DEF TypeOK
    <3>9. RecordIsVerdict(p)' /\ RanIsApproved(p)'
      BY <1>3, <2>2, <3>1 DEF RecordIsVerdict, RanIsApproved, Approved, PolicyOf, Decisions
    <3>10. \A q \in Calls : q # p => HubFrame(q) /\ call'[q] = call[q]
      BY <1>3, <3>4 DEF HubFrame
    <3> QED BY <1>2, <1>3, <1>6, <2>1, <2>3, <3>7, <3>8, <3>9, <3>10, CallStepKeeps
  <2>5. CASE loop[t].pc # "asking"
    <3>1. UNCHANGED ask
      BY <2>5 DEF DropTurn
    <3>2. HubType' /\ HubFacts' /\ \A q \in Calls : HubFrame(q)
      BY <1>1, <1>3, <2>2, <3>1, HubRests
    <3>3. TypeOK'
      BY <1>1, <1>2, <1>3, <3>2 DEF TypeOK
    <3>4. RecordIsVerdict(p)' /\ RanIsApproved(p)'
      BY <1>3, <2>2, <3>1 DEF RecordIsVerdict, RanIsApproved, Approved, PolicyOf, VerdictOf, Granted
    <3>5. \A q \in Calls : q # p => HubFrame(q) /\ call'[q] = call[q]
      BY <1>3, <3>2
    <3> QED BY <1>2, <1>3, <1>6, <2>1, <2>3, <3>2, <3>3, <3>4, <3>5, CallStepKeeps
  <2> QED BY <2>4, <2>5
<1> QED BY <1>1, <1>5, <1>6

\* The invariant holds initially,
LEMMA InitKeeps == Init => LoopInv
<1> SUFFICES ASSUME Init PROVE LoopInv
  OBVIOUS
<1>1. HubType /\ HubFacts
  BY HubInitial DEF Init
<1>2. \A t \in Turns : /\ loop[t] \in Loop /\ loop[t].pc = "top" /\ loop[t].next = 1
                       /\ loop[t].last = 0
  BY DEF Init, Loop, LoopStates, Decisions
<1>3. \A p \in Calls : /\ call[p] \in Call /\ call[p].gate = "none" /\ call[p].tool = "idle"
  <2>1. ASSUME NEW p \in Calls
        PROVE  call[p] \in Call /\ call[p].gate = "none" /\ call[p].tool = "idle"
    <3>1. PICK k \in Categories :
            call[p] = [category |-> k, emitted |-> "nothing", row |-> "none",
                       gate |-> "none", tool |-> "idle"]
      BY DEF Init
    <3> QED BY <3>1 DEF Call, Record
  <2> QED BY <2>1
<1>4. TypeOK
  <2>1. call \in [Calls -> Call] /\ loop \in [Turns -> Loop] /\ mode \in Modes
    BY <1>2, <1>3 DEF Init
  <2> QED BY <1>1, <2>1 DEF TypeOK
<1>5. \A p \in Calls : ask[p].pc = "unasked"
  BY DEF Init, HubInit, Unasked
<1>6. ASSUME NEW t \in Turns
      PROVE  PlaceIsInStep(t) /\ PassedAreAnswered(t) /\ AheadIsUntouched(t) /\ VerdictIsJust(t)
  <2>1. DOMAIN CallsOf[t] = 1 .. Len(CallsOf[t]) /\ Len(CallsOf[t]) \in Nat
        /\ \A i \in DOMAIN CallsOf[t] : CallsOf[t][i] \in Calls
    BY CallsAreOwn DEF Own
  <2>2. PlaceIsInStep(t) BY <1>2, <2>1 DEF PlaceIsInStep, MakingCall
  <2>3. PassedAreAnswered(t) BY <1>2, <2>1 DEF PassedAreAnswered
  <2>4. AheadIsUntouched(t) BY <1>3, <1>5, <2>1 DEF AheadIsUntouched
  <2>5. VerdictIsJust(t) BY <1>2 DEF VerdictIsJust
  <2> QED BY <2>2, <2>3, <2>4, <2>5
<1>7. \A p \in Calls : RecordIsVerdict(p) /\ RanIsApproved(p)
  BY <1>3 DEF RecordIsVerdict, RanIsApproved, Decisions
<1> QED BY <1>1, <1>4, <1>6, <1>7 DEF LoopInv, LoopFacts

\* when nothing happens,
LEMMA RestKeeps == LoopInv /\ UNCHANGED vars => LoopInv'
<1> SUFFICES ASSUME LoopInv, UNCHANGED vars PROVE LoopInv'
  OBVIOUS
<1>1. TypeOK /\ HubType /\ HubFacts /\ LoopFacts /\ errors' \in 0 .. MaxErrors
  BY DEF LoopInv, TypeOK, HubType, vars, hubVars
<1>2. /\ UNCHANGED <<pending, ask, answerer, resolved, outcome, present, shown, up>>
      /\ UNCHANGED <<mode, loop, call>>
  BY DEF vars, hubVars, loopVars
<1>3. HubType' /\ HubFacts' /\ \A q \in Calls : HubFrame(q)
  BY <1>1, <1>2, HubRests
<1>4. TypeOK'
  BY <1>1, <1>2, <1>3 DEF TypeOK
<1>5. \A t \in Turns :
        PlaceIsInStep(t)' /\ PassedAreAnswered(t)' /\ AheadIsUntouched(t)' /\ VerdictIsJust(t)'
  <2>1. ASSUME NEW t \in Turns
        PROVE  PlaceIsInStep(t)' /\ PassedAreAnswered(t)' /\ AheadIsUntouched(t)' /\ VerdictIsJust(t)'
    <3>1. \A p \in Own(t) : HubFrame(p) /\ call'[p] = call[p]
      BY <1>2, <1>3, CallsAreOwn
    <3> QED BY <1>1, <1>2, <3>1, HubKeepsTurn DEF LoopFacts
  <2> QED BY <2>1
<1>6. \A p \in Calls : RecordIsVerdict(p)' /\ RanIsApproved(p)'
  BY <1>1, <1>2, <1>3, HubKeepsCall DEF LoopFacts
<1> QED BY <1>3, <1>4, <1>5, <1>6 DEF LoopInv, LoopFacts

\* and after every step.
LEMMA LoopInvNext == LoopInv /\ [Next]_vars => LoopInv'
<1> SUFFICES ASSUME LoopInv, [Next]_vars PROVE LoopInv'
  OBVIOUS
<1>1. ASSUME NEW t \in Turns, LoopStep(t) \/ Outside(t) \/ StopTurn(t) \/ DropTurn(t)
      PROVE  LoopInv'
  <2>1. CASE Top(t) \/ Interrupt(t) \/ Provide(t) \/ Consume(t) \/ StopTurn(t)
    BY <2>1, BetweenCallsKeeps
  <2>2. CASE Emit(t) BY <2>2, EmitKeeps
  <2>3. CASE Dispatch(t) BY <2>3, DispatchKeeps
  <2>4. CASE Gate(t) BY <2>4, GateKeeps
  <2>5. CASE Asked(t) BY <2>5, AskedKeeps
  <2>6. CASE RecordPermission(t) BY <2>6, RecordKeeps
  <2>7. CASE StartTool(t) \/ FinishTool(t) BY <2>7, ToolKeeps
  <2>8. CASE Result(t) BY <2>8, ResultKeeps
  <2>9. CASE DropTurn(t) BY <2>9, DropTurnKeeps
  <2> QED BY <1>1, <2>1, <2>2, <2>3, <2>4, <2>5, <2>6, <2>7, <2>8, <2>9 DEF LoopStep, Outside
<1>2. CASE HubStep BY <1>2, HubStepKeeps
<1>3. CASE UNCHANGED vars BY <1>3, RestKeeps
<1> QED BY <1>1, <1>2, <1>3 DEF Next

\* The inductive invariant holds of every behaviour of the specification.
THEOREM LoopInvHolds == Spec => []LoopInv
  BY InitKeeps, LoopInvNext, PTL DEF Spec

\* A tool runs only if the host's mode allows its category, or if the mode prompts
\* and the answer that took the prompt was to allow it, for any number of turns and
\* clients, through racing answers, vanished answerers and a shutdown.
THEOREM OnlyApprovedToolsEverRun == Spec => []OnlyApprovedToolsRun
<1>1. LoopInv => OnlyApprovedToolsRun
  BY DEF LoopInv, LoopFacts, RanIsApproved, Approved, PolicyOf, OnlyApprovedToolsRun
<1> QED BY <1>1, LoopInvHolds, PTL

\* One answer resolves a prompt, and the hub's record, the gate's record and the turn
\* go by that answer.
THEOREM OneDecisionAlways == Spec => []OneDecision
<1>1. ASSUME LoopInv PROVE OneDecision
  <2>1. ASSUME NEW p \in Calls
        PROVE  /\ Len(resolved[p]) <= 1
               /\ outcome[p] \in Decisions => resolved[p] = <<outcome[p]>>
               /\ call[p].gate \in Decisions /\ resolved[p] # <<>> /\ ask[p].answer # "dropped"
                    => resolved[p] = <<call[p].gate>>
    <3>1. Len(resolved[p]) <= 1 /\ (outcome[p] \in Decisions => resolved[p] = <<outcome[p]>>)
      BY <1>1 DEF LoopInv, HubFacts, OneAnswer
    <3>2. ASSUME call[p].gate \in Decisions, resolved[p] # <<>>, ask[p].answer # "dropped"
          PROVE  resolved[p] = <<call[p].gate>>
      <4>1. ask[p].pc # "unasked"
        BY <1>1, <3>2 DEF LoopInv, HubFacts, TableIsOpenPrompts
      <4>2. ask[p].pc = "done" /\ call[p].gate = VerdictOf(p)
        BY <1>1, <3>2, <4>1 DEF LoopInv, LoopFacts, RecordIsVerdict
      <4>3. ask[p] \in Asking /\ ask[p].answer # "none"
        BY <1>1, <4>2 DEF LoopInv, HubFacts, WaitsAreOver, TypeOK, HubType
      <4>4. ask[p].answer \in Decisions
        BY <3>2, <4>3 DEF Asking
      <4>5. resolved[p] = <<ask[p].answer>>
        BY <1>1, <4>4 DEF LoopInv, HubFacts, ChannelIsAnswer
      <4>6. VerdictOf(p) = ask[p].answer
        BY <4>4 DEF VerdictOf, Granted, Decisions
      <4> QED BY <4>2, <4>5, <4>6
    <3> QED BY <3>1, <3>2
  <2> QED BY <2>1 DEF OneDecision
<1> QED BY <1>1, LoopInvHolds, PTL

\* Until the host shuts down, a prompt in the table is one a turn waits for, and a turn
\* that waits has its prompt in the table, its answer, or an answerer who still holds it.
THEOREM PromptsAlwaysLive == Spec => []PromptIsLive
<1>1. ASSUME LoopInv PROVE PromptIsLive
  <2>1. ASSUME up, NEW p \in Calls
        PROVE  /\ p \in pending => ask[p].pc \in {"read", "set", "wait"} /\ ask[p].answer = "none"
               /\ ask[p].pc \in {"read", "set", "wait"} /\ p \notin pending =>
                    \/ ask[p].answer \in Decisions
                    \/ \E c \in Clients : answerer[c].of = p /\ answerer[c].pc \in {"record", "send"}
    <3>1. ask[p] \in Asking
      BY <1>1 DEF LoopInv, TypeOK, HubType
    <3>2. ask[p].pc # "gone" /\ ask[p].answer # "dropped"
          /\ (ask[p].pc = "done" => ask[p].answer # "none")
      BY <1>1, <2>1 DEF LoopInv, HubFacts, WaitsAreOver
    <3>3. ask[p].answer = "none" <=> resolved[p] = <<>> \/ \E c \in Clients : Holds(c, p)
      BY <1>1 DEF LoopInv, HubFacts, ChannelIsAnswer
    <3>4. /\ p \in pending => resolved[p] = <<>>
          /\ ask[p].pc = "unasked" <=> p \notin pending /\ resolved[p] = <<>>
      BY <1>1 DEF LoopInv, HubFacts, TableIsOpenPrompts
    <3> QED BY <3>1, <3>2, <3>3, <3>4 DEF Asking, Holds
  <2> QED BY <2>1 DEF PromptIsLive
<1> QED BY <1>1, LoopInvHolds, PTL

\* Between two steps, and when a run ends by itself, by an error or by a stop, every call
\* of its steps has a result.
THEOREM LanesAlwaysClosed == Spec => []LanesClosed
<1>1. ASSUME LoopInv PROVE LanesClosed
  <2>1. ASSUME NEW t \in Turns, loop[t].pc \in {"top", "request", "consume", "ended"},
               NEW i \in DOMAIN CallsOf[t], i <= loop[t].last
        PROVE  call[CallsOf[t][i]].emitted = "result"
    <3>1. PassedAreAnswered(t) /\ loop[t].last < loop[t].next
      BY <1>1, <2>1 DEF LoopInv, LoopFacts, PlaceIsInStep, BetweenSteps
    <3>2. i \in Nat /\ loop[t].last \in Nat /\ loop[t].next \in Nat
      BY <1>1, LoopTypes, CallsAreOwn DEF LoopInv
    <3> QED BY <2>1, <3>1, <3>2 DEF PassedAreAnswered
  <2> QED BY <2>1 DEF LanesClosed
<1> QED BY <1>1, LoopInvHolds, PTL
====
