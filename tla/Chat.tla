---- MODULE Chat ----
(***************************************************************************)
(* The chat command and the host it talks to.  A chat reads a line, starts *)
(* a turn with it, and follows the frames of its subscription until one    *)
(* shows a turn that has ended; a frame that shows a pending question is   *)
(* put to the user.  Frames that come while the chat awaits a response are *)
(* laid aside, and nothing takes them up again.                            *)
(*                                                                         *)
(* Of the host there is what the chats of one session see: one turn at a   *)
(* time, the snapshot its frames carry, and two ways to a client, the      *)
(* subscription's channel and the wire, which responses take directly.     *)
(***************************************************************************)
EXTENDS Naturals, Sequences

CONSTANTS
    Chats,     \* chat processes; without --session they share a session
    SubQueue,  \* SUB_QUEUE: the depth of a subscription's channel
    MaxTurns,  \* bound: the turns of the session
    MaxTexts,  \* bound: the pieces of text a turn streams
    MaxAsks    \* bound: the questions a turn asks

ASSUME ChatAssumption ==
    /\ SubQueue \in Nat \ {0}
    /\ MaxTurns \in Nat /\ MaxTexts \in Nat /\ MaxAsks \in Nat

\* Turns are numbered from 1; a question is named by its turn and its number.
NoTurn == 0
NoQuestion == <<0, 0>>
Questions == (Nat \ {0}) \X (Nat \ {0})

\* "root" is the turn whose end the snapshot shows, "asked" its first question.
Frame ==
    [kind : {"ok", "busy", "delta", "projection"}, root : Nat,
     asked : Questions \cup {NoQuestion}]

VARIABLES
    chat,     \* [Chats -> where it is, the turn of its line, the question it puts]
    request,  \* [Chats -> the request the host has of it, and how far it is]
    channel,  \* [Chats -> Seq(Frame)]: its subscription's channel
    wire,     \* [Chats -> Seq(Frame)]: what is on its way to it
    open,     \* [Chats -> BOOLEAN]: its subscription is registered
    turns,    \* how many turns were started
    turn,     \* the session's entry among the active turns, and what it does
    root,     \* the turn whose end the session's snapshot shows
    pending,  \* the question the snapshot shows
    shown,    \* [Chats -> <<>> or the turn of its line and the one whose end it showed]
    speakers, \* SUBSET Chats: those that have entered a line
    gaveUp,   \* SUBSET Chats: those that have waited in vain
    asked     \* BOOLEAN: a turn has asked a question

hostVars == <<turns, turn, root, pending>>
history == <<shown, speakers, gaveUp, asked>>
chatVars == <<chat, request, channel, wire, open, hostVars, history>>

NoRequest == [op |-> "none", stage |-> "none", question |-> NoQuestion]
NoEntry == [id |-> NoTurn, stage |-> "none", texts |-> 0, asks |-> 0]

\* run_chat has opened a subscription for each chat.
ChatInit ==
    /\ chat = [c \in Chats |-> [pc |-> "prompt", line |-> NoTurn, question |-> NoQuestion]]
    /\ request = [c \in Chats |-> NoRequest]
    /\ channel = [c \in Chats |-> <<>>]
    /\ wire = [c \in Chats |-> <<>>]
    /\ open = [c \in Chats |-> TRUE]
    /\ turns = 0 /\ turn = NoEntry /\ root = NoTurn /\ pending = NoQuestion
    /\ shown = [c \in Chats |-> <<>>]
    /\ speakers = {} /\ gaveUp = {} /\ asked = FALSE

-----------------------------------------------------------------------------
(* The host *)

\* A frame for every subscriber; one whose channel is full is removed.
FanOut(frame) ==
    LET room(c) == open[c] /\ Len(channel[c]) < SubQueue
    IN  /\ channel' = [c \in Chats |-> IF room(c) THEN Append(channel[c], frame) ELSE channel[c]]
        /\ open' = [c \in Chats |-> room(c)]

Delta == [kind |-> "delta", root |-> NoTurn, asked |-> NoQuestion]
Shows(ended, question) == [kind |-> "projection", root |-> ended, asked |-> question]
Response(kind) == [kind |-> kind, root |-> NoTurn, asked |-> NoQuestion]

\* turn.start: the turn runs, or another one does.
StartTurn(c) ==
    /\ request[c].op = "turn.start" /\ request[c].stage = "sent"
    /\ IF turn = NoEntry
       THEN /\ turns' = turns + 1
            /\ turn' = [NoEntry EXCEPT !.id = turns + 1, !.stage = "runs"]
            /\ request' = [request EXCEPT ![c].stage = "ok"]
            /\ chat' = [chat EXCEPT ![c].line = turns + 1]
       ELSE request' = [request EXCEPT ![c].stage = "busy"] /\ UNCHANGED <<turns, turn, chat>>
    /\ UNCHANGED <<channel, wire, open, root, pending, history>>

\* interaction.answer: the question is taken and its turn goes on, or there is
\* no such question any more.
TakeAnswer(c) ==
    /\ request[c].op = "interaction.answer" /\ request[c].stage = "sent"
    /\ IF turn.stage = "waits" /\ <<turn.id, turn.asks>> = request[c].question
       THEN /\ request' = [request EXCEPT ![c].stage = "publishes"]
            /\ turn' = [turn EXCEPT !.stage = "runs"]
       ELSE request' = [request EXCEPT ![c].stage = "busy"] /\ UNCHANGED turn
    /\ UNCHANGED <<chat, channel, wire, open, turns, root, pending, history>>

\* What the hub's table holds for the session, published in one step; how its
\* publishers overtake one another is in InteractionHub.
InTable == IF turn.stage \in {"publishes", "waits"} THEN <<turn.id, turn.asks>> ELSE NoQuestion
PublishTable ==
    /\ pending' = InTable
    /\ FanOut(Shows(root, InTable))

\* The question is cleared from the snapshot, whatever that shows of turns.
PublishAnswered(c) ==
    /\ request[c].stage = "publishes"
    /\ PublishTable
    /\ request' = [request EXCEPT ![c].stage = "ok"]
    /\ UNCHANGED <<chat, wire, turns, turn, root, history>>

Respond(c) ==
    /\ request[c].stage \in {"ok", "busy"}
    /\ wire' = [wire EXCEPT ![c] = Append(@, Response(request[c].stage))]
    /\ request' = [request EXCEPT ![c] = NoRequest]
    /\ UNCHANGED <<chat, channel, open, hostVars, history>>

Forward(c) ==
    /\ channel[c] # <<>>
    /\ wire' = [wire EXCEPT ![c] = Append(@, Head(channel[c]))]
    /\ channel' = [channel EXCEPT ![c] = Tail(@)]
    /\ UNCHANGED <<chat, request, open, hostVars, history>>

\* Mutant: every event of the turn publishes the snapshot.
TextShowsSnapshot ==
    /\ turn.stage = "runs" /\ turn.texts < MaxTexts
    /\ turn' = [turn EXCEPT !.texts = @ + 1]
    /\ FanOut(Shows(root, pending))
    /\ UNCHANGED <<chat, request, wire, turns, root, pending, history>>

\* A piece of the model's answer.
Text ==
    /\ turn.stage = "runs" /\ turn.texts < MaxTexts
    /\ turn' = [turn EXCEPT !.texts = @ + 1]
    /\ FanOut(Delta)
    /\ UNCHANGED <<chat, request, wire, turns, root, pending, history>>

\* The turn needs permission for a tool call: the question is entered in the
\* hub's table, then published.
Ask ==
    /\ turn.stage = "runs" /\ turn.asks < MaxAsks
    /\ turn' = [turn EXCEPT !.stage = "publishes", !.asks = @ + 1]
    /\ asked' = TRUE
    /\ UNCHANGED <<chat, request, channel, wire, open, turns, root, pending, shown, speakers, gaveUp>>

PublishAsked ==
    /\ turn.stage = "publishes"
    /\ PublishTable
    /\ turn' = [turn EXCEPT !.stage = "waits"]
    /\ UNCHANGED <<chat, request, wire, turns, root, history>>

\* The turn's terminal event: the one event that changes the root turn shown.
End ==
    /\ turn.stage = "runs"
    /\ root' = turn.id
    /\ FanOut(Shows(turn.id, pending))
    /\ turn' = [turn EXCEPT !.stage = "ended"]
    /\ UNCHANGED <<chat, request, wire, turns, pending, history>>

\* The backend's stream ends without a terminal event: the runner makes one up,
\* for the ledger alone.
EndUntold ==
    /\ turn.stage = "runs"
    /\ turn' = [turn EXCEPT !.stage = "ended"]
    /\ UNCHANGED <<chat, request, channel, wire, open, turns, root, pending, history>>

\* The turn was finalised and its entry is removed.
Release ==
    /\ turn.stage = "ended"
    /\ turn' = NoEntry
    /\ UNCHANGED <<chat, request, channel, wire, open, turns, root, pending, history>>

-----------------------------------------------------------------------------
(* A chat *)

\* The user enters a line.
Line(c) ==
    /\ chat[c].pc = "prompt" /\ turns < MaxTurns
    /\ chat' = [chat EXCEPT ![c] = [@ EXCEPT !.pc = "starts", !.line = NoTurn]]
    /\ request' = [request EXCEPT ![c] = [NoRequest EXCEPT !.op = "turn.start", !.stage = "sent"]]
    /\ speakers' = speakers \cup {c}
    /\ UNCHANGED <<channel, wire, open, hostVars, shown, gaveUp, asked>>

\* request() lays frames aside until the response comes.
LayAside(c) ==
    /\ chat[c].pc \in {"starts", "answers"}
    /\ wire[c] # <<>> /\ Head(wire[c]).kind \in {"delta", "projection"}
    /\ wire' = [wire EXCEPT ![c] = Tail(@)]
    /\ UNCHANGED <<chat, request, channel, open, hostVars, history>>

\* The response: a line that was refused is given up; whatever came of an
\* answer, the chat goes on following the turn.
TakeResponse(c) ==
    /\ chat[c].pc \in {"starts", "answers"}
    /\ wire[c] # <<>> /\ Head(wire[c]).kind \in {"ok", "busy"}
    /\ wire' = [wire EXCEPT ![c] = Tail(@)]
    /\ chat' = [chat EXCEPT ![c].pc =
                  IF @ = "starts" /\ Head(wire[c]).kind = "busy" THEN "prompt" ELSE "follows"]
    /\ UNCHANGED <<request, channel, open, hostVars, history>>

\* A frame of the turn: text is printed, a question is put to the user, the end
\* of a turn is shown and ends the loop.
Follow(c) ==
    LET frame == Head(wire[c])
        next  == IF frame.kind # "projection" THEN "follows"
                 ELSE IF frame.asked # NoQuestion THEN "asks"
                 ELSE IF frame.root # NoTurn THEN "prompt" ELSE "follows"
    IN
    /\ chat[c].pc = "follows" /\ wire[c] # <<>>
    /\ wire' = [wire EXCEPT ![c] = Tail(@)]
    /\ chat' = [chat EXCEPT ![c] = [@ EXCEPT !.pc = next,
                                      !.question = IF next = "asks" THEN frame.asked ELSE NoQuestion]]
    /\ shown' = IF next = "prompt" THEN [shown EXCEPT ![c] = <<chat[c].line, frame.root>>] ELSE shown
    /\ UNCHANGED <<request, channel, open, hostVars, speakers, gaveUp, asked>>

\* Mutant: the chat waits without a limit, until its subscription is gone.
GiveUpWhenRemoved(c) ==
    /\ chat[c].pc = "follows" /\ wire[c] = <<>> /\ channel[c] = <<>> /\ ~open[c]
    /\ chat' = [chat EXCEPT ![c].pc = "prompt"]
    /\ gaveUp' = gaveUp \cup {c}
    /\ UNCHANGED <<request, channel, wire, open, hostVars, shown, speakers, asked>>

\* Nothing came for two minutes: "[stream ended]".
GiveUp(c) ==
    /\ chat[c].pc = "follows" /\ wire[c] = <<>>
    /\ chat' = [chat EXCEPT ![c].pc = "prompt"]
    /\ gaveUp' = gaveUp \cup {c}
    /\ UNCHANGED <<request, channel, wire, open, hostVars, shown, speakers, asked>>

\* The user says yes or no, which is the same to the chat.
Answer(c) ==
    /\ chat[c].pc = "asks"
    /\ chat' = [chat EXCEPT ![c] = [@ EXCEPT !.pc = "answers", !.question = NoQuestion]]
    /\ request' = [request EXCEPT ![c] =
                     [op |-> "interaction.answer", stage |-> "sent", question |-> chat[c].question]]
    /\ UNCHANGED <<channel, wire, open, hostVars, history>>

-----------------------------------------------------------------------------

Serve(c) == StartTurn(c) \/ TakeAnswer(c) \/ PublishAnswered(c) \/ Respond(c)
TurnStep == Text \/ Ask \/ PublishAsked \/ End \/ EndUntold \/ Release
ChatStep(c) == LayAside(c) \/ TakeResponse(c) \/ Follow(c) \/ Answer(c)

ChatNext ==
    \/ \E c \in Chats : Line(c) \/ Serve(c) \/ Forward(c) \/ ChatStep(c) \/ GiveUp(c)
    \/ TurnStep

ChatSpec == ChatInit /\ [][ChatNext]_chatVars

\* The host serves what it was sent and its tasks move frames on; a chat reads
\* what arrives, its timer fires, and its user answers what is asked.  A turn
\* may take any time.
FairSpec ==
    /\ ChatSpec
    /\ \A c \in Chats : /\ WF_chatVars(Serve(c)) /\ WF_chatVars(Forward(c))
                        /\ WF_chatVars(ChatStep(c)) /\ WF_chatVars(GiveUp(c))

\* The same, and the model answers: a turn that waits for nobody goes on.
ModelAnswersSpec == FairSpec /\ WF_chatVars(TurnStep)

-----------------------------------------------------------------------------

Places == {"prompt", "starts", "follows", "asks", "answers"}
ChatState == [pc : Places, line : Nat, question : Questions \cup {NoQuestion}]
Request ==
    [op : {"none", "turn.start", "interaction.answer"},
     stage : {"none", "sent", "publishes", "ok", "busy"}, question : Questions \cup {NoQuestion}]
Entry ==
    [id : Nat, stage : {"none", "runs", "publishes", "waits", "ended"},
     texts : 0..MaxTexts, asks : 0..MaxAsks]

ChatTypeOK ==
    /\ chat \in [Chats -> ChatState]
    /\ request \in [Chats -> Request]
    /\ channel \in [Chats -> Seq(Frame)] /\ wire \in [Chats -> Seq(Frame)]
    /\ open \in [Chats -> BOOLEAN]
    /\ turns \in Nat /\ root \in Nat
    /\ turn \in Entry
    /\ turn.stage # "none" => turn.id # NoTurn
    /\ turn.stage \in {"publishes", "waits"} => turn.asks # 0
    /\ pending \in Questions \cup {NoQuestion}
    /\ shown \in [Chats -> {<<>>} \cup (Nat \X Nat)]
    /\ speakers \subseteq Chats /\ gaveUp \subseteq Chats /\ asked \in BOOLEAN

\* A user who enters a line is asked for another one in the end, whatever
\* becomes of the turn and of the frames that tell of it: a frame laid aside, a
\* subscription removed as slow, a model that does not answer
\* (src/crates/meepo-cli/src/main.rs:277-339).
ChatReturns == \A c \in Chats : chat[c].pc = "starts" ~> chat[c].pc = "prompt"

\* No other chat has used the session, and this one has never given up waiting.
Lone(c) == speakers \subseteq {c} /\ c \notin gaveUp

\* The end that a chat shows is the end of the turn of its line, as long as no
\* turn asks a question, the chat never gave up waiting, and no other chat used
\* the session (src/crates/meepo-cli/src/main.rs:329).
PlainEndIsOwn ==
    \A c \in Chats :
        ~asked /\ Lone(c) /\ shown[c] # <<>> => shown[c][1] = shown[c][2]

\* "Drive the streamed frames until a terminal projection": the end that a lone
\* chat which never gave up waiting shows is the end of the turn of its line
\* (src/crates/meepo-cli/src/main.rs:277).
\* The code does not keep it: README, Findings.
ShownEndIsOwn ==
    \A c \in Chats : Lone(c) /\ shown[c] # <<>> => shown[c][1] = shown[c][2]

\* "Permission prompts surface as pending interactions; answer from stdin": a
\* question that a turn waits with is answered in the end
\* (src/crates/meepo-cli/src/main.rs:277-278).
\* The code does not keep it: README, Findings.
QuestionIsAnswered == turn.stage = "waits" ~> turn.stage # "waits"

-----------------------------------------------------------------------------
(* The inductive invariant behind PlainEndIsOwn.                           *)

NoneOf(s, kinds) == \A i \in DOMAIN s : s[i].kind \notin kinds
OneOf(s, kinds) == \A i, j \in DOMAIN s : s[i].kind \in kinds /\ s[j].kind \in kinds => i = j

Ends == {"projection"}
Replies == {"ok", "busy"}

\* The frames show no question, and no end but that of turn n.
ShowOnly(s, n) ==
    \A i \in DOMAIN s :
        /\ s[i].asked = NoQuestion
        /\ s[i].kind \in Ends => s[i].root = n

\* No end is on its way to the chat.
NoEnd(c) == NoneOf(wire[c], Ends) /\ NoneOf(channel[c], Ends)

\* The line was not taken, or not yet, or there is none.
NotTaken(c) ==
    \/ chat[c].pc = "prompt"
    \/ request[c].stage \in {"sent", "busy"}
    \/ ~NoneOf(wire[c], {"busy"})

\* No question was asked, and nobody else uses the session.
NobodyElse(c) ==
    /\ pending = NoQuestion /\ turn.stage \in {"none", "runs", "ended"}
    /\ chat[c].pc \in {"prompt", "starts", "follows"}
    /\ request[c] = NoRequest \/ request[c].stage \in {"sent", "ok", "busy"}
    /\ request[c].op # "interaction.answer"
    /\ \A d \in Chats \ {c} : request[d] = NoRequest /\ chat[d].pc = "prompt"

\* What is on its way: one reply at most, to a line that waits for it, and one
\* end at most, of the turn of the line.
Underway(c) ==
    /\ ShowOnly(wire[c], chat[c].line) /\ ShowOnly(channel[c], chat[c].line)
    /\ OneOf(wire[c], Ends) /\ OneOf(channel[c], Ends)
    /\ NoneOf(wire[c], Ends) \/ NoneOf(channel[c], Ends)
    /\ NoneOf(channel[c], Replies) /\ OneOf(wire[c], Replies)
    /\ request[c] # NoRequest => chat[c].pc = "starts" /\ NoneOf(wire[c], Replies)
    /\ chat[c].pc # "starts" => NoneOf(wire[c], Replies)

LoneInv(c) ==
    /\ NobodyElse(c)
    /\ Underway(c)
    /\ turn.stage = "runs" => turn.id = chat[c].line /\ NoEnd(c)
    /\ NotTaken(c) => turn.stage # "runs" /\ NoEnd(c)
    /\ shown[c] # <<>> => shown[c][1] = shown[c][2]

ChatInv == \A c \in Chats : ~asked /\ Lone(c) => LoneInv(c)
====
