---- MODULE Connection ----
(***************************************************************************)
(* One client connection of the host and one session it subscribes to.     *)
(*                                                                         *)
(* The request loop serves one request after another.  subscription.open   *)
(* registers a subscriber with the session's continuity state, answers     *)
(* with the snapshot of that moment and spawns a forward task, which moves *)
(* the subscriber's frames from its bounded channel to the connection's    *)
(* outbound writer.  A turn's events reach every subscriber at once: the   *)
(* continuity lock is held while the frames are put into the channels, and *)
(* a subscriber whose channel is full is dropped.  The client sees what    *)
(* the writer (OutboundWriter, extended here) has written.                 *)
(***************************************************************************)
EXTENDS OutboundWriter, FiniteSets

CONSTANTS
    Subs,       \* subscriptions: each is opened at most once
    Requests,   \* other requests: each is sent at most once
    SubQueue,   \* SUB_QUEUE: the depth of a subscriber's channel
    MaxEvents   \* bound: runtime events and projections of the session

ASSUME ConnectionAssumption ==
    /\ SubQueue \in Nat \ {0}
    /\ MaxEvents \in Nat
    /\ Subs \cap Requests = {}

\* What goes over the wire: responses (to an open, a close, another request),
\* and the frames of a subscription with their sequence number (a closed notice
\* has none).  "revision" is the projection revision a snapshot carries, or the
\* one a delta came after.
Frame ==
    [kind : {"open"}, of : Subs, sequence : {0}, revision : 0 .. MaxEvents]
    \cup [kind : {"close", "closed"}, of : Subs, sequence : {0}, revision : {0}]
    \cup [kind : {"other"}, of : Requests, sequence : {0}, revision : {0}]
    \cup [kind : {"delta", "projection"}, of : Subs,
          sequence : 1 .. MaxEvents, revision : 0 .. MaxEvents]

\* The writer carries these frames.
ASSUME FramesAssumption == Frames = Frame

Sized == [f \in Frame |-> IF f.kind = "projection" THEN 2 ELSE 1]

VARIABLES
    present,   \* BOOLEAN: the session has continuity state
    revision,  \* projection_revision of its snapshot
    events,    \* how many events were accepted
    sub,       \* [Subs -> Subscription]
    dropping,  \* the subscribers fan_out found full, while it holds the lock
    loop       \* the request loop: what it serves

continuity == <<present, revision, events, dropping>>
vars == <<writerVars, present, revision, events, sub, dropping, loop>>

\* A subscriber, its channel, and its forward task.  "receiver" is whether the
\* receiving end of the channel is alive, "hand" what the task has taken.
Subscription ==
    [registered : BOOLEAN, next : 1 .. MaxEvents + 1, channel : Seq(Frame),
     receiver : BOOLEAN, task : {"unopened", "opening", "receive", "forward", "ended"},
     hand : Seq(Frame)]

Unopened == [registered |-> FALSE, next |-> 1, channel |-> <<>>, receiver |-> FALSE,
             task |-> "unopened", hand |-> <<>>]

Served == [pc : {"read", "respond", "broken", "done"}, of : Subs \cup Requests \cup {"none"},
           kind : {"none", "open", "close", "other"}, revision : 0 .. MaxEvents,
           served : SUBSET Requests]

Init ==
    /\ WriterInit
    /\ present = FALSE
    /\ revision = 0
    /\ events = 0
    /\ sub = [k \in Subs |-> Unopened]
    /\ dropping = {}
    /\ loop = [pc |-> "read", of |-> "none", kind |-> "none", revision |-> 0, served |-> {}]

-----------------------------------------------------------------------------
(* The session's continuity.                                               *)

HasRoom(k) == sub[k].receiver /\ Len(sub[k].channel) < SubQueue

Offer(k, f) == IF HasRoom(k) THEN [sub[k] EXCEPT !.channel = Append(@, f)] ELSE sub[k]

ClosedNotice(k) == [kind |-> "closed", of |-> k, sequence |-> 0, revision |-> 0]

\* Mutant: a subscriber whose queue is full misses the frame and stays.
PublishKeepsSlow(kind) ==
    LET r == IF kind = "projection" THEN revision + 1 ELSE revision
        Numbered(k) == [kind |-> kind, of |-> k, sequence |-> sub[k].next, revision |-> r]
    IN
    /\ present /\ dropping = {} /\ events < MaxEvents
    /\ revision' = r
    /\ events' = events + 1
    /\ sub' = [k \in Subs |-> IF sub[k].registered
                                THEN [Offer(k, Numbered(k)) EXCEPT !.next = @ + 1]
                                ELSE sub[k]]
    /\ UNCHANGED <<writerVars, present, dropping, loop>>

\* A runtime event or a change of the pending interactions: a text delta, or a
\* projection that bumps the revision, is offered to every subscriber.
Publish(kind) ==
    LET r == IF kind = "projection" THEN revision + 1 ELSE revision
        Numbered(k) == [kind |-> kind, of |-> k, sequence |-> sub[k].next, revision |-> r]
    IN
    /\ present /\ dropping = {} /\ events < MaxEvents
    /\ revision' = r
    /\ events' = events + 1
    /\ sub' = [k \in Subs |-> IF sub[k].registered
                                THEN [Offer(k, Numbered(k)) EXCEPT !.next = @ + 1]
                                ELSE sub[k]]
    /\ dropping' = {k \in Subs : sub[k].registered /\ ~HasRoom(k)}
    /\ UNCHANGED <<writerVars, present, loop>>

Remove(k) == [Offer(k, ClosedNotice(k)) EXCEPT !.registered = FALSE]

\* Still under the lock: the notice rides only if a frame was taken meanwhile.
DropSlow(k) ==
    /\ k \in dropping
    /\ sub' = [sub EXCEPT ![k] = Remove(k)]
    /\ dropping' = dropping \ {k}
    /\ UNCHANGED <<writerVars, present, revision, events, loop>>

-----------------------------------------------------------------------------
(* The request loop.                                                       *)

Serve(kind, of, rev) ==
    loop' = [loop EXCEPT !.pc = "respond", !.kind = kind, !.of = of, !.revision = rev]

\* Register the subscriber and clone the snapshot, under one lock.
Open(k) ==
    /\ loop.pc = "read" /\ sub[k].task = "unopened" /\ dropping = {}
    /\ present' = TRUE
    /\ sub' = [sub EXCEPT ![k] = [@ EXCEPT !.registered = TRUE, !.receiver = TRUE,
                                          !.task = "opening"]]
    /\ Serve("open", k, revision)
    /\ UNCHANGED <<writerVars, revision, events, dropping>>

\* Deliver the closed notice if there is room, and remove the subscriber.
CloseSubscription(k) ==
    /\ loop.pc = "read" /\ sub[k].registered /\ dropping = {}
    /\ sub' = [sub EXCEPT ![k] = Remove(k)]
    /\ Serve("close", k, 0)
    /\ UNCHANGED <<writerVars, continuity>>

Dispatch(q) ==
    /\ loop.pc = "read" /\ q \notin loop.served
    /\ loop' = [loop EXCEPT !.pc = "respond", !.kind = "other", !.of = q, !.revision = 0,
                            !.served = @ \cup {q}]
    /\ UNCHANGED <<writerVars, continuity, sub>>

Response == [kind |-> loop.kind, of |-> loop.of, sequence |-> 0, revision |-> loop.revision]

\* The response joins the outbound queue.  A refused response ends the loop,
\* unless it answers a subscription request: then nobody notices.
Respond ==
    /\ loop.pc = "respond"
    /\ \/ Enqueue(Response)
       \/ Refused(Response) /\ UNCHANGED writerVars
    /\ loop' = [loop EXCEPT !.pc = IF Refused(Response) /\ loop.kind = "other"
                                     THEN "broken" ELSE "read"]
    /\ sub' = IF loop.kind = "open" THEN [sub EXCEPT ![loop.of].task = "receive"] ELSE sub
    /\ UNCHANGED continuity

CloseOutbound ==
    /\ loop' = [loop EXCEPT !.pc = "done"]
    /\ Close
    /\ UNCHANGED <<continuity, sub>>

\* The client goes away, or the loop broke: close the outbound writer.
HangUp == loop.pc = "read" /\ CloseOutbound
BreakOff == loop.pc = "broken" /\ CloseOutbound

-----------------------------------------------------------------------------
(* The forward task of a subscription.                                     *)

Receive(k) ==
    /\ sub[k].task = "receive" /\ sub[k].channel # <<>>
    /\ sub' = [sub EXCEPT ![k] = [@ EXCEPT !.hand = <<Head(sub[k].channel)>>,
                                          !.channel = Tail(sub[k].channel),
                                          !.task = "forward"]]
    /\ UNCHANGED <<writerVars, continuity, loop>>

\* The channel is drained and its sender is gone.
ReceiveEnd(k) ==
    /\ sub[k].task = "receive" /\ sub[k].channel = <<>> /\ ~sub[k].registered
    /\ sub' = [sub EXCEPT ![k] = [@ EXCEPT !.task = "ended", !.receiver = FALSE]]
    /\ UNCHANGED <<writerVars, continuity, loop>>

\* Pass the frame on to the client.  A refusal ends the task, and the receiver
\* is dropped with what its channel still holds.
Forward(k) ==
    /\ sub[k].task = "forward"
    /\ \/ /\ Enqueue(sub[k].hand[1])
          /\ sub' = [sub EXCEPT ![k] = [@ EXCEPT !.task = "receive", !.hand = <<>>]]
       \/ /\ Refused(sub[k].hand[1])
          /\ sub' = [sub EXCEPT ![k] = [@ EXCEPT !.task = "ended", !.receiver = FALSE,
                                                !.channel = <<>>, !.hand = <<>>]]
          /\ UNCHANGED writerVars
    /\ UNCHANGED <<continuity, loop>>

-----------------------------------------------------------------------------

ForwardStep(k) == Receive(k) \/ ReceiveEnd(k) \/ Forward(k)

WriterStep == (NotifyOne \/ DrainStep) /\ UNCHANGED <<continuity, sub, loop>>

Next ==
    \/ \E kind \in {"delta", "projection"} : Publish(kind)
    \/ \E k \in Subs : DropSlow(k) \/ Open(k) \/ CloseSubscription(k) \/ ForwardStep(k)
    \/ \E q \in Requests : Dispatch(q)
    \/ Respond
    \/ HangUp
    \/ BreakOff
    \/ WriterStep

Spec == Init /\ [][Next]_vars

-----------------------------------------------------------------------------
(* What the connection promises.                                           *)

TypeOK ==
    /\ WriterType
    /\ present \in BOOLEAN
    /\ revision \in 0 .. MaxEvents
    /\ events \in 0 .. MaxEvents
    /\ sub \in [Subs -> Subscription]
    /\ dropping \subseteq Subs
    /\ loop \in Served

\* The places of a subscription's frames among those that went over the wire,
\* but for the answer to its close, and how many are of some kinds up to a place.
Stream(wire, k) == {i \in DOMAIN wire : wire[i].of = k /\ wire[i].kind # "close"}
UpTo(wire, k, kinds, i) ==
    Cardinality({j \in Stream(wire, k) : j <= i /\ wire[j].kind \in kinds})

Sequenced == {"delta", "projection"}

\* A client that applies a subscription's frames to the snapshot it was opened
\* with misses nothing in between: the response comes first, the sequence
\* numbers run from 1 without a gap, the revisions from the snapshot's without
\* a gap, and after a closed notice nothing follows.
Reconstructs(wire) ==
    \A k \in Subs : \A i \in Stream(wire, k) :
        /\ wire[i].kind = "open" => \A j \in Stream(wire, k) : i <= j
        /\ wire[i].kind = "closed" => \A j \in Stream(wire, k) : j <= i
        /\ wire[i].kind \in Sequenced => wire[i].sequence = UpTo(wire, k, Sequenced, i)
        /\ wire[i].kind = "projection" =>
             \A o \in Stream(wire, k) : wire[o].kind = "open" =>
                 wire[i].revision = wire[o].revision + UpTo(wire, k, {"projection"}, i)

\* What the client has got lets it reconstruct the session, whichever queue was
\* full and whoever dropped or closed the subscription
\* (src/crates/meepo-host/src/continuity/coordinator.rs:183).
ClientReconstructs == Reconstructs(written)

-----------------------------------------------------------------------------
(* The inductive invariant behind ClientReconstructs.                      *)

\* Each accepted event is one number and at most one revision, and what the
\* loop is about to answer is a frame.
NumbersAreEvents ==
    /\ revision <= events
    /\ \A k \in Subs : sub[k].next <= events + 1
    /\ loop.pc = "respond" => Response \in Frame

\* The loop is about to answer the open of k.
Opening(k) == loop.pc = "respond" /\ loop.kind = "open" /\ loop.of = k

\* The frames of a subscriber on their way to the writer: in the forward task's
\* hand, and behind it in the channel.
Pipe(s) == s.hand \o s.channel

Count(wire, k, kinds) == Cardinality({j \in Stream(wire, k) : wire[j].kind \in kinds})

\* The revision before the frame at a place of the pipe, "base" the one before
\* the pipe.
Before(pipe, base, i) == IF i = 1 THEN base ELSE pipe[i - 1].revision

\* The pipe holds k's frames: the numbers after the first "passed" ones without
\* a gap, the revisions after "base" without a gap, a closed notice only at the
\* end.
Runs(pipe, k, passed, base) ==
    \A i \in 1 .. Len(pipe) :
        /\ pipe[i].of = k
        /\ pipe[i].kind = "closed" => i = Len(pipe)
        /\ pipe[i].kind # "closed" =>
             /\ pipe[i].kind \in Sequenced
             /\ pipe[i].sequence = passed + i
             /\ pipe[i].revision = IF pipe[i].kind = "projection"
                                     THEN Before(pipe, base, i) + 1 ELSE Before(pipe, base, i)

\* Where subscriber s of k stands: who holds its receiver and what, and that
\* nothing is sent before it is opened.
Stands(k, s, wire) ==
    /\ s.task \in {"unopened", "opening"} => Stream(wire, k) = {}
    /\ s.task = "unopened" => ~s.registered /\ s.next = 1
    /\ s.receiver <=> s.task \in {"opening", "receive", "forward"}
    /\ IF s.task = "forward" THEN Len(s.hand) = 1 ELSE s.hand = <<>>
    /\ ~s.receiver => s.channel = <<>>

\* A closed notice is the end: of the pipe, and of what is sent.
EndsOnce(k, s, wire) ==
    /\ s.registered => \A i \in 1 .. Len(Pipe(s)) : Pipe(s)[i].kind # "closed"
    /\ (\E i \in Stream(wire, k) : wire[i].kind = "closed") =>
         Pipe(s) = <<>> /\ ~s.registered

\* What the pipe holds goes on where the wire stops: "from" is the revision of
\* the snapshot being answered, "now" the session's, "slow" who was found full.
GoesOn(k, s, wire, from, now, slow) ==
    \E base \in 0 .. MaxEvents :
        /\ s.task = "opening" => base = from
        /\ \A o \in Stream(wire, k) : wire[o].kind = "open" =>
             base = wire[o].revision + Count(wire, k, {"projection"})
        /\ Runs(Pipe(s), k, Count(wire, k, Sequenced), base)
        /\ s.registered /\ s.receiver /\ k \notin slow =>
             /\ s.next = Count(wire, k, Sequenced) + Len(Pipe(s)) + 1
             /\ now = Before(Pipe(s), base, Len(Pipe(s)) + 1)

Flows(k, s, wire, from, now, slow) ==
    /\ Stands(k, s, wire)
    /\ EndsOnce(k, s, wire)
    /\ GoesOn(k, s, wire, from, now, slow)

StreamsFlow ==
    \A k \in Subs :
        /\ Opening(k) <=> sub[k].task = "opening"
        /\ k \in dropping => sub[k].registered
        /\ Flows(k, sub[k], accepted, loop.revision, revision, dropping)

ConnectionInv == NumbersAreEvents /\ StreamsFlow /\ Reconstructs(accepted)
====
