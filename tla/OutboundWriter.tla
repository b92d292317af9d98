---- MODULE OutboundWriter ----
(***************************************************************************)
(* A connection's bounded serial outbound writer: any number of tasks      *)
(* enqueue frames under the state's lock, one drain task writes them to    *)
(* the sink.  The drain task takes the lock once to pop the head and, when *)
(* there is none, once more to look at the closed flag, and then waits on  *)
(* a Notify, which remembers one notification nobody waited for.  Every    *)
(* lock acquisition and every await is a step of its own.                  *)
(***************************************************************************)
EXTENDS Naturals, Sequences

CONSTANTS
    Frames,           \* the frames that are sent
    SizeOf,           \* [Frames -> Nat]: their encoded sizes
    MaxQueuedFrames,  \* MAX_QUEUED_FRAMES
    MaxQueuedBytes    \* MAX_QUEUED_BYTES

ASSUME WriterAssumption ==
    /\ SizeOf \in [Frames -> Nat]
    /\ MaxQueuedFrames \in Nat \ {0}
    /\ MaxQueuedBytes \in Nat

VARIABLES
    items,     \* Seq(Frames): the queue
    bytes,     \* Nat: queued_bytes
    closed,    \* BOOLEAN: closed, by close() or by a sink error
    drain,     \* where the drain task is
    inflight,  \* Seq(Frames): the frame that was popped and is being written
    permit,    \* BOOLEAN: the Notify holds a notification
    owed,      \* Nat: notify_one calls still to be made, the lock being free
    accepted,  \* Seq(Frames): the frames enqueue accepted, in order
    written    \* Seq(Frames): the frames the sink took, their senders told

writerVars == <<items, bytes, closed, drain, inflight, permit, owed, accepted, written>>

DrainStates == {"pop", "look", "wait", "send", "failed", "stopping", "stopped"}

WriterInit ==
    /\ items = <<>>
    /\ bytes = 0
    /\ closed = FALSE
    /\ drain = "pop"
    /\ inflight = <<>>
    /\ permit = FALSE
    /\ owed = 0
    /\ accepted = <<>>
    /\ written = <<>>

-----------------------------------------------------------------------------
(* The senders.                                                            *)

\* Mutant: the byte limit looks at the queue before the frame.
FitsBefore(f) ==
    /\ Len(items) < MaxQueuedFrames
    /\ bytes <= MaxQueuedBytes

Fits(f) ==
    /\ Len(items) < MaxQueuedFrames
    /\ bytes + SizeOf[f] <= MaxQueuedBytes

\* Mutant: the closed flag is not looked at.
EnqueueUnchecked(f) ==
    /\ Fits(f)
    /\ items' = Append(items, f)
    /\ bytes' = bytes + SizeOf[f]
    /\ accepted' = Append(accepted, f)
    /\ owed' = owed + 1
    /\ UNCHANGED <<closed, drain, inflight, permit, written>>

\* Accept a frame.
Enqueue(f) ==
    /\ ~closed /\ Fits(f)
    /\ items' = Append(items, f)
    /\ bytes' = bytes + SizeOf[f]
    /\ accepted' = Append(accepted, f)
    /\ owed' = owed + 1
    /\ UNCHANGED <<closed, drain, inflight, permit, written>>

\* Mutant: a notification that finds nobody waiting is lost.
NotifyWaiters ==
    /\ owed > 0
    /\ owed' = owed - 1
    /\ permit' = (drain = "wait")
    /\ UNCHANGED <<items, bytes, closed, drain, inflight, accepted, written>>

\* The errors of enqueue: they leave no trace.
Refused(f) == closed \/ ~Fits(f)

\* notify_one, after the lock is released.
NotifyOne ==
    /\ owed > 0
    /\ owed' = owed - 1
    /\ permit' = TRUE
    /\ UNCHANGED <<items, bytes, closed, drain, inflight, accepted, written>>

Close ==
    /\ closed' = TRUE
    /\ owed' = owed + 1
    /\ UNCHANGED <<items, bytes, drain, inflight, permit, accepted, written>>

-----------------------------------------------------------------------------
(* The drain task.                                                         *)

Pop ==
    /\ drain = "pop" /\ items # <<>>
    /\ items' = Tail(items)
    /\ inflight' = <<Head(items)>>
    /\ bytes' = IF SizeOf[Head(items)] <= bytes THEN bytes - SizeOf[Head(items)] ELSE 0
    /\ drain' = "send"
    /\ UNCHANGED <<closed, permit, owed, accepted, written>>

FindEmpty ==
    /\ drain = "pop" /\ items = <<>>
    /\ drain' = "look"
    /\ UNCHANGED <<items, bytes, closed, inflight, permit, owed, accepted, written>>

\* The closed flag is read under the second acquisition of the lock.
Look ==
    /\ drain = "look"
    /\ drain' = IF closed THEN "stopping" ELSE "wait"
    /\ UNCHANGED <<items, bytes, closed, inflight, permit, owed, accepted, written>>

Wake ==
    /\ drain = "wait" /\ permit
    /\ permit' = FALSE
    /\ drain' = "pop"
    /\ UNCHANGED <<items, bytes, closed, inflight, owed, accepted, written>>

SendOk ==
    /\ drain = "send"
    /\ written' = written \o inflight
    /\ inflight' = <<>>
    /\ drain' = "pop"
    /\ UNCHANGED <<items, bytes, closed, permit, owed, accepted>>

\* The sink is gone: the frame in flight is lost.
SendError ==
    /\ drain = "send"
    /\ drain' = "failed"
    /\ UNCHANGED <<items, bytes, closed, inflight, permit, owed, accepted, written>>

\* Mark the writer closed; the task ends.
Stop ==
    /\ drain \in {"failed", "stopping"}
    /\ closed' = TRUE
    /\ drain' = "stopped"
    /\ UNCHANGED <<items, bytes, inflight, permit, owed, accepted, written>>

DrainStep == Pop \/ FindEmpty \/ Look \/ Wake \/ SendOk \/ SendError \/ Stop

WriterNext ==
    \/ \E f \in Frames : Enqueue(f)
    \/ NotifyOne
    \/ Close
    \/ DrainStep

WriterSpec == WriterInit /\ [][WriterNext]_writerVars

-----------------------------------------------------------------------------
(* What the writer promises.                                               *)

\* The writer is a FIFO channel: whatever the senders, the drain task and
\* close() do at once, and whenever the sink fails, the sink has got a prefix
\* of the accepted frames, and nothing is accepted after the end.
Channel == INSTANCE FrameChannel
             WITH sent <- accepted, got <- written, open <- ~closed

IsFifoChannel == Channel!Spec

\* No wake-up is lost between the drain task's look at the queue and its wait:
\* while it waits, a frame that was accepted or a close is announced already,
\* or its sender is about to (src/crates/meepo-host/src/transport/outbound.rs:97).
NoLostWakeup ==
    drain = "wait" /\ (items # <<>> \/ closed) => permit \/ owed > 0

\* The sizes of the first i frames of the queue, added up, for each i.
AddsUp(total) ==
    /\ total[0] = 0
    /\ \A i \in DOMAIN items : total[i] = total[i - 1] + SizeOf[items[i]]

\* The queue keeps to both limits, and the byte count is that of the queue: the
\* count is kept apart from it, frame by frame, and cannot drift
\* (src/crates/meepo-host/src/transport/outbound.rs:129).
QueueBounded ==
    /\ Len(items) <= MaxQueuedFrames
    /\ bytes <= MaxQueuedBytes
    /\ \E total \in [0 .. Len(items) -> 0 .. MaxQueuedBytes] :
         AddsUp(total) /\ total[Len(items)] = bytes

-----------------------------------------------------------------------------
(* The inductive invariant behind IsFifoChannel.                           *)

WriterType ==
    /\ items \in Seq(Frames)
    /\ bytes \in Nat
    /\ closed \in BOOLEAN
    /\ drain \in DrainStates
    /\ inflight \in Seq(Frames)
    /\ permit \in BOOLEAN
    /\ owed \in Nat
    /\ accepted \in Seq(Frames)
    /\ written \in Seq(Frames)

\* Every accepted frame is written, in flight or queued, in this order; only
\* one is in flight, while it is sent or because it was lost.
NothingSkipped ==
    /\ accepted = written \o inflight \o items
    /\ drain \in {"send", "failed"} => Len(inflight) = 1
    /\ drain \in {"pop", "look", "wait", "stopping"} => inflight = <<>>

\* From the moment the drain task has found the queue empty, what it then misses
\* is announced: a frame before or after its look at the flag, a close after it.
MissedIsAnnounced ==
    /\ drain \in {"look", "wait"} /\ items # <<>> => permit \/ owed > 0
    /\ drain = "wait" /\ closed => permit \/ owed > 0

\* The count is that of the queue, and more frames are not fewer bytes: what is
\* popped is in the count.
QueueIsCounted ==
    /\ Len(items) <= MaxQueuedFrames
    /\ bytes <= MaxQueuedBytes
    /\ \E total \in [0 .. Len(items) -> Nat] :
         /\ AddsUp(total) /\ total[Len(items)] = bytes
         /\ \A i, j \in 0 .. Len(items) : i <= j => total[i] <= total[j]
====
