---- MODULE ConnectionProofs ----
(***************************************************************************)
(* The connection and its outbound writer.  The first part is about the    *)
(* writer alone, for any frames, sizes and limits: it implements the       *)
(* abstract FIFO channel, loses no wake-up and keeps its count.  The       *)
(* second is about the connection, for any number of subscriptions,        *)
(* requests and events and any depth of the channels: what a client has    *)
(* got lets it reconstruct the session, and the connection's writer is the *)
(* writer of the first part.                                               *)
(***************************************************************************)
EXTENDS Connection, SequenceTheorems, FiniteSetTheorems, TLAPS

(* THE WRITER *)

WriterInv == WriterType /\ NothingSkipped

\* What is known of a frame once the tail of the queue is split off.
LEMMA QueueSplit ==
    ASSUME NEW q \in Seq(Frames), q # <<>>
    PROVE  /\ Head(q) \in Frames
           /\ Tail(q) \in Seq(Frames)
           /\ <<Head(q)>> \o Tail(q) = q
  BY DEF Seq

\* Moving an element from the queue's head to the end of what is before it.
LEMMA Regroup ==
    ASSUME NEW a \in Seq(Frames), NEW b \in Seq(Frames), NEW c \in Seq(Frames)
    PROVE  /\ (a \o b) \o <<>> = a \o b
           /\ (a \o <<>>) \o b = a \o b
           /\ (a \o b) \o c = a \o (b \o c)
  BY ConcatEmptySeq, ConcatAssociative

\* A frame that joins the end of the queue joins the end of all of them.
LEMMA AppendLast ==
    ASSUME NEW a \in Seq(Frames), NEW b \in Seq(Frames), NEW f \in Frames
    PROVE  Append(a \o b, f) = a \o Append(b, f)
<1>1. a \o b \in Seq(Frames) /\ <<f>> \in Seq(Frames)
  OBVIOUS
<1>2. Append(a \o b, f) = (a \o b) \o <<f>>
  BY <1>1, AppendIsConcat
<1>3. (a \o b) \o <<f>> = a \o (b \o <<f>>)
  BY <1>1, ConcatAssociative
<1>4. b \o <<f>> = Append(b, f)
  BY AppendIsConcat
<1> QED
  BY <1>2, <1>3, <1>4

\* The frame in flight is the accepted frame after the written ones.
LEMMA NextAccepted ==
    ASSUME NEW w \in Seq(Frames), NEW i \in Seq(Frames), NEW q \in Seq(Frames), Len(i) = 1
    PROVE  /\ Len(w) < Len((w \o i) \o q)
           /\ w \o i = Append(w, ((w \o i) \o q)[Len(w) + 1])
<1> DEFINE s == (w \o i) \o q
<1>1. Len(w \o i) = Len(w) + 1 /\ Len(w \o i) \in Nat /\ Len(w) \in Nat
  <2>1. Len(w \o i) = Len(w) + Len(i)
    BY ConcatProperties
  <2>2. Len(w) \in Nat
    BY LenProperties
  <2> QED
    BY <2>1, <2>2
<1>2. w \o i \in Seq(Frames)
  BY ConcatProperties
<1>3. Len(s) = Len(w \o i) + Len(q) /\ Len(q) \in Nat
  BY <1>2, ConcatProperties, LenProperties
<1>4. s[Len(w) + 1] = (w \o i)[Len(w) + 1]
  BY <1>1, <1>2, <1>3, ConcatProperties
<1>5. (w \o i)[Len(w) + 1] = i[1]
  BY <1>1, ConcatProperties
<1>6. i = <<i[1]>> /\ i[1] \in Frames
  <2>1. i \in [1 .. 1 -> Frames]
    BY LenProperties
  <2>2. <<i[1]>> \in [1 .. 1 -> Frames] /\ <<i[1]>>[1] = i[1]
    BY <2>1
  <2> QED
    BY <2>1, <2>2
<1>7. w \o i = Append(w, i[1])
  BY <1>6, AppendIsConcat
<1> QED
  BY <1>1, <1>3, <1>4, <1>5, <1>7

-----------------------------------------------------------------------------

\* The writer starts empty, so nothing is skipped yet.
LEMMA InitInv == WriterInit => WriterInv
<1> SUFFICES ASSUME WriterInit PROVE WriterInv
  OBVIOUS
<1>1. WriterType
  <2>1. <<>> \in Seq(Frames)
    OBVIOUS
  <2> QED
    BY <2>1 DEF WriterInit, WriterType, DrainStates
<1>2. accepted = written \o inflight \o items
  BY DEF WriterInit
<1>3. NothingSkipped
  BY <1>2 DEF WriterInit, NothingSkipped
<1> QED
  BY <1>1, <1>3 DEF WriterInv

\* Every step of the senders, of close() and of the drain task keeps every
\* accepted frame in its place.
LEMMA StepInv == WriterInv /\ [WriterNext]_writerVars => WriterInv'
<1> SUFFICES ASSUME WriterInv, [WriterNext]_writerVars PROVE WriterInv'
  OBVIOUS
<1> USE WriterAssumption DEF WriterInv, WriterType, DrainStates
<1>1. ASSUME NEW f \in Frames, Enqueue(f) PROVE WriterInv'
  <2>1. WriterType'
    BY <1>1 DEF Enqueue
  <2>2. accepted' = written \o inflight \o items'
    <3>1. written \o inflight \in Seq(Frames)
      BY ConcatProperties
    <3>2. Append((written \o inflight) \o items, f) = (written \o inflight) \o Append(items, f)
      BY <3>1, AppendLast
    <3> QED
      BY <1>1, <3>2 DEF Enqueue, NothingSkipped
  <2>3. NothingSkipped'
    BY <1>1, <2>2 DEF Enqueue, NothingSkipped
  <2> QED
    BY <2>1, <2>3
<1>2. CASE NotifyOne
  BY <1>2 DEF NotifyOne, NothingSkipped
<1>3. CASE Close
  BY <1>3 DEF Close, NothingSkipped
<1>4. CASE Pop
  <2>1. /\ Head(items) \in Frames
        /\ Tail(items) \in Seq(Frames)
        /\ <<Head(items)>> \o Tail(items) = items
    BY <1>4, QueueSplit DEF Pop
  <2>2. bytes' \in Nat
    BY <1>4, <2>1 DEF Pop
  <2>3. inflight' \in Seq(Frames) /\ Len(inflight') = 1
    BY <1>4, <2>1 DEF Pop
  <2>4. WriterType'
    BY <1>4, <2>1, <2>2, <2>3 DEF Pop
  <2>5. accepted = written \o items
    BY <1>4, Regroup DEF Pop, NothingSkipped
  <2>6. (written \o <<Head(items)>>) \o Tail(items) = written \o items
    <3>1. <<Head(items)>> \in Seq(Frames)
      BY <2>1
    <3>2. (written \o <<Head(items)>>) \o Tail(items) = written \o (<<Head(items)>> \o Tail(items))
      BY <2>1, <3>1, Regroup
    <3> QED
      BY <2>1, <3>2
  <2>7. NothingSkipped'
    BY <1>4, <2>3, <2>5, <2>6 DEF Pop, NothingSkipped
  <2> QED
    BY <2>4, <2>7
<1>5. CASE FindEmpty
  BY <1>5 DEF FindEmpty, NothingSkipped
<1>6. CASE Look
  BY <1>6 DEF Look, NothingSkipped
<1>7. CASE Wake
  BY <1>7 DEF Wake, NothingSkipped
<1>8. CASE SendOk
  <2>1. WriterType'
    BY <1>8 DEF SendOk
  <2>2. written' \o inflight' \o items' = written \o inflight \o items
    BY <1>8, Regroup DEF SendOk
  <2> QED
    BY <1>8, <2>1, <2>2 DEF SendOk, NothingSkipped
<1>9. CASE SendError
  BY <1>9 DEF SendError, NothingSkipped
<1>10. CASE Stop
  BY <1>10 DEF Stop, NothingSkipped
<1>11. CASE UNCHANGED writerVars
  BY <1>11 DEF writerVars, NothingSkipped
<1> QED
  BY <1>1, <1>2, <1>3, <1>4, <1>5, <1>6, <1>7, <1>8, <1>9, <1>10, <1>11
  DEF WriterNext, DrainStep

\* Every step of the writer is a step of the channel or leaves it alone: an
\* accepted frame is sent, a frame the sink took is delivered, and the writer
\* closes at close() or where the drain task stops.
LEMMA StepSimulates ==
    WriterInv /\ [WriterNext]_writerVars => [Channel!Next]_(Channel!vars)
<1> SUFFICES ASSUME WriterInv, [WriterNext]_writerVars
             PROVE  [Channel!Next]_(Channel!vars)
  OBVIOUS
<1> USE DEF WriterInv, WriterType
<1>1. ASSUME NEW f \in Frames, Enqueue(f) PROVE Channel!Next
  BY <1>1 DEF Enqueue, Channel!Next, Channel!Send
<1>2. CASE NotifyOne
  BY <1>2 DEF NotifyOne, Channel!vars
<1>3. CASE Close
  BY <1>3 DEF Close, Channel!Next, Channel!Close
<1>4. CASE SendOk
  <2>1. Len(inflight) = 1
    BY <1>4 DEF SendOk, NothingSkipped
  <2>2. Len(written) < Len(accepted) /\ written' = Append(written, accepted[Len(written) + 1])
    BY <1>4, <2>1, NextAccepted DEF SendOk, NothingSkipped
  <2> QED
    BY <1>4, <2>2 DEF SendOk, Channel!Next, Channel!Deliver
<1>5. CASE Stop
  BY <1>5 DEF Stop, Channel!Next, Channel!Close
<1>6. CASE Pop \/ FindEmpty \/ Look \/ Wake \/ SendError
  BY <1>6 DEF Pop, FindEmpty, Look, Wake, SendError, Channel!vars
<1>7. CASE UNCHANGED writerVars
  BY <1>7 DEF writerVars, Channel!vars
<1> QED
  BY <1>1, <1>2, <1>3, <1>4, <1>5, <1>6, <1>7 DEF WriterNext, DrainStep

-----------------------------------------------------------------------------

\* In every reachable state the accepted frames are the written ones, the one
\* in flight and the queued ones, in this order.
THEOREM WriterInvariant == WriterSpec => []WriterInv
<1>1. WriterInit => WriterInv
  BY InitInv
<1>2. WriterInv /\ [WriterNext]_writerVars => WriterInv'
  BY StepInv
<1> QED
  BY <1>1, <1>2, PTL DEF WriterSpec

\* The outbound writer (enqueue, close and the drain task of outbound.rs) is a
\* FIFO channel: the sink gets a prefix of what was accepted.
THEOREM WriterIsFifoChannel == WriterSpec => IsFifoChannel
<1>1. WriterInit => Channel!Init
  BY DEF WriterInit, Channel!Init
<1>2. WriterInv /\ [WriterNext]_writerVars => [Channel!Next]_(Channel!vars)
  BY StepSimulates
<1> QED
  BY <1>1, <1>2, WriterInvariant, PTL DEF WriterSpec, IsFifoChannel, Channel!Spec

-----------------------------------------------------------------------------

\* Every step keeps what the drain task has missed announced: a notification is
\* owed as soon as the lock is free, becomes the permit, and the permit is
\* taken by going back to the queue only.
LEMMA AnnouncedStep ==
    WriterType /\ MissedIsAnnounced /\ [WriterNext]_writerVars => MissedIsAnnounced'
<1> SUFFICES ASSUME WriterType, MissedIsAnnounced, [WriterNext]_writerVars
             PROVE  MissedIsAnnounced'
  OBVIOUS
<1> USE DEF WriterType, MissedIsAnnounced
<1>1. ASSUME NEW f \in Frames, Enqueue(f) PROVE MissedIsAnnounced'
  BY <1>1 DEF Enqueue
<1>2. CASE NotifyOne
  BY <1>2 DEF NotifyOne
<1>3. CASE Close
  BY <1>3 DEF Close
<1>4. CASE FindEmpty
  BY <1>4 DEF FindEmpty
<1>5. CASE Look
  BY <1>5 DEF Look
<1>6. CASE Pop \/ Wake \/ SendOk \/ SendError \/ Stop
  BY <1>6 DEF Pop, Wake, SendOk, SendError, Stop
<1>7. CASE UNCHANGED writerVars
  BY <1>7 DEF writerVars
<1> QED
  BY <1>1, <1>2, <1>3, <1>4, <1>5, <1>6, <1>7 DEF WriterNext, DrainStep

\* However many tasks enqueue and close while the drain task looks at the queue
\* and at the flag (outbound.rs:81-102), it never waits with work unannounced.
THEOREM WakeupNeverLost == WriterSpec => []NoLostWakeup
<1>1. WriterInit => MissedIsAnnounced
  BY DEF WriterInit, MissedIsAnnounced
<1>2. WriterInv => WriterType
  BY DEF WriterInv
<1>3. MissedIsAnnounced => NoLostWakeup
  BY DEF MissedIsAnnounced, NoLostWakeup
<1> QED
  BY <1>1, <1>2, <1>3, AnnouncedStep, WriterInvariant, PTL DEF WriterSpec

-----------------------------------------------------------------------------

\* The sizes of a queue, added up from its head.
Totals(q, total) ==
    /\ total \in [0 .. Len(q) -> Nat]
    /\ total[0] = 0
    /\ \A i \in 1 .. Len(q) : total[i] = total[i - 1] + SizeOf[q[i]]
    /\ \A i, j \in 0 .. Len(q) : i <= j => total[i] <= total[j]

\* A frame that joins the queue adds its size at the end.
LEMMA TotalsAppend ==
    ASSUME NEW q \in Seq(Frames), NEW f \in Frames, NEW total, Totals(q, total)
    PROVE  \E t : Totals(Append(q, f), t)
                  /\ t[Len(Append(q, f))] = total[Len(q)] + SizeOf[f]
<1> DEFINE n == Len(q)
           t == [i \in 0 .. n + 1 |-> IF i <= n THEN total[i] ELSE total[n] + SizeOf[f]]
<1>1. n \in Nat /\ Len(Append(q, f)) = n + 1 /\ SizeOf[f] \in Nat
  BY WriterAssumption
<1>2. /\ Append(q, f)[n + 1] = f
      /\ \A i \in 1 .. n : Append(q, f)[i] = q[i]
  OBVIOUS
<1> HIDE DEF n
<1>3. total \in [0 .. n -> Nat]
  BY DEF Totals, n
<1>4. t \in [0 .. n + 1 -> Nat]
  BY <1>1, <1>3
<1>5. t[0] = 0
  BY <1>1 DEF Totals
<1>6. ASSUME NEW i \in 1 .. n + 1 PROVE t[i] = t[i - 1] + SizeOf[Append(q, f)[i]]
  <2>1. CASE i = n + 1
    BY <1>1, <1>2, <2>1
  <2>2. CASE i <= n
    <3>1. total[i] = total[i - 1] + SizeOf[q[i]]
      BY <1>1, <2>2 DEF Totals, n
    <3>2. t[i] = total[i] /\ t[i - 1] = total[i - 1]
      BY <1>1, <2>2
    <3> QED
      BY <1>1, <1>2, <2>2, <3>1, <3>2
  <2> QED
    BY <1>1, <2>1, <2>2
<1>7. ASSUME NEW i \in 0 .. n + 1, NEW j \in 0 .. n + 1, i <= j PROVE t[i] <= t[j]
  <2>1. \A a, b \in 0 .. n : a <= b => total[a] <= total[b]
    BY DEF Totals, n
  <2>2. CASE j <= n
    BY <1>1, <1>7, <2>1, <2>2
  <2>3. CASE j = n + 1 /\ i <= n
    <3>1. total[i] <= total[n] /\ total[i] \in Nat /\ total[n] \in Nat
      BY <1>1, <1>3, <2>1, <2>3
    <3>2. t[i] = total[i] /\ t[j] = total[n] + SizeOf[f]
      BY <1>1, <2>3
    <3> QED
      BY <1>1, <3>1, <3>2
  <2>4. CASE j = n + 1 /\ i = n + 1
    BY <1>1, <1>4, <2>4
  <2> QED
    BY <1>1, <1>7, <2>2, <2>3, <2>4
<1>8. Totals(Append(q, f), t)
  BY <1>1, <1>4, <1>5, <1>6, <1>7 DEF Totals
<1>9. t[Len(Append(q, f))] = total[Len(q)] + SizeOf[f]
  BY <1>1 DEF n
<1> HIDE DEF t
<1> QED
  BY <1>8, <1>9

\* The head that leaves the queue takes its size off every sum.
LEMMA TotalsTail ==
    ASSUME NEW q \in Seq(Frames), q # <<>>, NEW total, Totals(q, total)
    PROVE  /\ SizeOf[Head(q)] <= total[Len(q)]
           /\ \E t : Totals(Tail(q), t)
                     /\ t[Len(Tail(q))] = total[Len(q)] - SizeOf[Head(q)]
<1> DEFINE n == Len(q)
           t == [i \in 0 .. n - 1 |-> total[i + 1] - total[1]]
<1>1. n \in Nat \ {0} /\ Len(Tail(q)) = n - 1 /\ Head(q) = q[1] /\ Head(q) \in Frames
  BY DEF Seq
<1>2. \A i \in 1 .. n - 1 : Tail(q)[i] = q[i + 1]
  OBVIOUS
<1> HIDE DEF n
<1>3. total \in [0 .. n -> Nat] /\ \A a, b \in 0 .. n : a <= b => total[a] <= total[b]
  BY DEF Totals, n
<1>4. total[1] = SizeOf[Head(q)] /\ SizeOf[Head(q)] \in Nat
  <2>1. total[1] = total[1 - 1] + SizeOf[q[1]]
    BY <1>1 DEF Totals, n
  <2>2. total[0] = 0 /\ SizeOf[Head(q)] \in Nat
    BY <1>1, WriterAssumption DEF Totals
  <2> QED
    BY <1>1, <2>1, <2>2
<1>5. t \in [0 .. n - 1 -> Nat]
  <2>1. ASSUME NEW i \in 0 .. n - 1 PROVE total[i + 1] - total[1] \in Nat
    <3>1. total[1] <= total[i + 1]
      BY <1>1, <1>3
    <3>2. total[1] \in Nat /\ total[i + 1] \in Nat
      BY <1>1, <1>3
    <3> QED
      BY <3>1, <3>2
  <2> QED
    BY <2>1
<1>6. t[0] = 0
  <2>1. total[1] \in Nat /\ 0 \in 0 .. n - 1
    BY <1>1, <1>3
  <2> QED
    BY <2>1
<1>7. ASSUME NEW i \in 1 .. n - 1 PROVE t[i] = t[i - 1] + SizeOf[Tail(q)[i]]
  <2>1. total[i + 1] = total[i] + SizeOf[q[i + 1]]
    <3>1. i + 1 \in 1 .. n /\ (i + 1) - 1 = i
      BY <1>1
    <3>2. \A j \in 1 .. n : total[j] = total[j - 1] + SizeOf[q[j]]
      BY DEF Totals, n
    <3> QED
      BY <3>1, <3>2
  <2>2. t[i] = total[i + 1] - total[1] /\ t[i - 1] = total[i] - total[1]
    BY <1>1
  <2>3. /\ total[i] \in Nat /\ total[i + 1] \in Nat /\ total[1] \in Nat
        /\ SizeOf[q[i + 1]] \in Nat
    <3>1. i + 1 \in 1 .. Len(q) /\ i \in 0 .. n /\ 1 \in 0 .. n /\ i + 1 \in 0 .. n
      BY <1>1 DEF n
    <3>2. q[i + 1] \in Frames
      BY <3>1
    <3> QED
      BY <1>3, <3>1, <3>2, WriterAssumption
  <2> QED
    <3>1. \A a, b, c, d \in Nat : a = b + d => a - c = (b - c) + d
      OBVIOUS
    <3>2. total[i + 1] - total[1] = (total[i] - total[1]) + SizeOf[q[i + 1]]
      BY <2>1, <2>3, <3>1
    <3> HIDE DEF t
    <3>3. Tail(q)[i] = q[i + 1]
      BY <1>2
    <3> QED
      BY <2>2, <3>2, <3>3
<1>8. ASSUME NEW i \in 0 .. n - 1, NEW j \in 0 .. n - 1, i <= j PROVE t[i] <= t[j]
  <2>1. total[i + 1] <= total[j + 1]
    BY <1>1, <1>3, <1>8
  <2>2. total[i + 1] \in Nat /\ total[j + 1] \in Nat /\ total[1] \in Nat
    BY <1>1, <1>3
  <2> QED
    BY <2>1, <2>2
<1>9. Totals(Tail(q), t)
  BY <1>1, <1>5, <1>6, <1>7, <1>8 DEF Totals
<1>10. t[Len(Tail(q))] = total[Len(q)] - SizeOf[Head(q)]
  BY <1>1, <1>4 DEF n
<1>11. SizeOf[Head(q)] <= total[Len(q)]
  <2>1. total[1] <= total[n]
    BY <1>1, <1>3
  <2> QED
    BY <1>4, <2>1 DEF n
<1> HIDE DEF t
<1> QED
  BY <1>9, <1>10, <1>11

\* Every step keeps the count: a frame's size is added and taken off where the
\* frame is, and nobody else touches either.
LEMMA CountedStep ==
    WriterInv /\ QueueIsCounted /\ [WriterNext]_writerVars => QueueIsCounted'
<1> SUFFICES ASSUME WriterInv, QueueIsCounted, [WriterNext]_writerVars
             PROVE  QueueIsCounted'
  OBVIOUS
<1>1. /\ items \in Seq(Frames) /\ items' \in Seq(Frames)
      /\ bytes \in Nat /\ bytes' \in Nat
  BY StepInv DEF WriterInv, WriterType
<1>2. PICK total : Totals(items, total) /\ total[Len(items)] = bytes
  <2>1. DOMAIN items = 1 .. Len(items)
    BY <1>1
  <2>2. PICK total \in [0 .. Len(items) -> Nat] :
            /\ AddsUp(total) /\ total[Len(items)] = bytes
            /\ \A i, j \in 0 .. Len(items) : i <= j => total[i] <= total[j]
    BY DEF QueueIsCounted
  <2>3. Totals(items, total)
    BY <2>1, <2>2 DEF AddsUp, Totals
  <2> QED
    BY <2>2, <2>3
<1>3. Len(items) <= MaxQueuedFrames /\ bytes <= MaxQueuedBytes
  BY DEF QueueIsCounted
<1>4. SUFFICES /\ Len(items') <= MaxQueuedFrames
               /\ bytes' <= MaxQueuedBytes
               /\ \E t : Totals(items', t) /\ t[Len(items')] = bytes'
  <2>1. DOMAIN items' = 1 .. Len(items')
    BY <1>1
  <2> QED
    BY <2>1 DEF QueueIsCounted, AddsUp, Totals
<1>5. CASE UNCHANGED <<items, bytes>>
  BY <1>2, <1>3, <1>5
<1>6. ASSUME NEW f \in Frames, Enqueue(f)
      PROVE  /\ Len(items') <= MaxQueuedFrames
             /\ bytes' <= MaxQueuedBytes
             /\ \E t : Totals(items', t) /\ t[Len(items')] = bytes'
  <2>1. items' = Append(items, f) /\ bytes' = bytes + SizeOf[f] /\ Fits(f)
    BY <1>6 DEF Enqueue
  <2>2. Len(items') = Len(items) + 1 /\ Len(items) \in Nat
    BY <1>1, <2>1
  <2>3. Len(items') <= MaxQueuedFrames
    <3>1. Len(items) < MaxQueuedFrames
      BY <2>1 DEF Fits
    <3> QED
      BY <2>2, <3>1, WriterAssumption
  <2>4. bytes' <= MaxQueuedBytes
    BY <2>1 DEF Fits
  <2>5. \E t : Totals(items', t) /\ t[Len(items')] = bytes'
    BY <1>1, <1>2, <2>1, TotalsAppend
  <2> QED
    BY <2>3, <2>4, <2>5
<1>7. CASE Pop
  <2>1. items # <<>> /\ items' = Tail(items)
    BY <1>7 DEF Pop
  <2>2. SizeOf[Head(items)] <= bytes
    BY <1>1, <1>2, <2>1, TotalsTail
  <2>3. bytes' = bytes - SizeOf[Head(items)]
    BY <1>7, <2>2 DEF Pop
  <2>4. \E t : Totals(items', t) /\ t[Len(items')] = bytes'
    BY <1>1, <1>2, <2>1, <2>3, TotalsTail
  <2>5. Len(items') <= Len(items) /\ bytes' <= bytes
    <3>1. Head(items) \in Frames /\ SizeOf[Head(items)] \in Nat
      BY <1>1, <2>1, QueueSplit, WriterAssumption
    <3>2. Len(Tail(items)) = Len(items) - 1 /\ Len(items) \in Nat
      BY <1>1, <2>1
    <3> QED
      BY <1>1, <2>1, <2>3, <3>1, <3>2
  <2>6. Len(items) \in Nat /\ Len(items') \in Nat /\ MaxQueuedFrames \in Nat /\ MaxQueuedBytes \in Nat
    BY <1>1, WriterAssumption
  <2> QED
    BY <1>1, <1>3, <2>4, <2>5, <2>6
<1>8. CASE NotifyOne \/ Close \/ FindEmpty \/ Look \/ Wake \/ SendOk \/ SendError \/ Stop
  BY <1>5, <1>8 DEF NotifyOne, Close, FindEmpty, Look, Wake, SendOk, SendError, Stop
<1>9. CASE UNCHANGED writerVars
  BY <1>5, <1>9 DEF writerVars
<1> QED
  BY <1>6, <1>7, <1>8, <1>9 DEF WriterNext, DrainStep

\* However frames join and leave the queue (outbound.rs:129), it keeps to both
\* limits and its byte count is the sum of the sizes of what it holds.
THEOREM QueueAlwaysBounded == WriterSpec => []QueueBounded
<1>1. WriterInit => QueueIsCounted
  <2> SUFFICES ASSUME WriterInit PROVE QueueIsCounted
    OBVIOUS
  <2>1. items = <<>> /\ bytes = 0 /\ Len(items) = 0 /\ DOMAIN items = {}
    BY DEF WriterInit
  <2> DEFINE t == [i \in 0 .. 0 |-> 0]
  <2>2. t \in [0 .. Len(items) -> Nat] /\ AddsUp(t) /\ t[Len(items)] = bytes
    BY <2>1 DEF AddsUp
  <2>3. \A i, j \in 0 .. Len(items) : i <= j => t[i] <= t[j]
    BY <2>1
  <2> HIDE DEF t
  <2> QED
    BY <2>1, <2>2, <2>3, WriterAssumption DEF QueueIsCounted
<1>2. WriterInv /\ QueueIsCounted => QueueBounded
  <2> SUFFICES ASSUME WriterInv, QueueIsCounted PROVE QueueBounded
    OBVIOUS
  <2>1. Len(items) \in Nat /\ bytes \in Nat
    BY DEF WriterInv, WriterType
  <2>2. PICK total \in [0 .. Len(items) -> Nat] :
            /\ AddsUp(total) /\ total[Len(items)] = bytes
            /\ \A i, j \in 0 .. Len(items) : i <= j => total[i] <= total[j]
    BY DEF QueueIsCounted
  <2>3. bytes <= MaxQueuedBytes
    BY DEF QueueIsCounted
  <2>4. ASSUME NEW i \in 0 .. Len(items) PROVE total[i] \in 0 .. MaxQueuedBytes
    <3>1. total[i] <= total[Len(items)] /\ total[i] \in Nat
      BY <2>1, <2>2
    <3> QED
      BY <2>1, <2>2, <2>3, <3>1, WriterAssumption
  <2>5. total \in [0 .. Len(items) -> 0 .. MaxQueuedBytes]
    BY <2>2, <2>4
  <2> QED
    BY <2>2, <2>5 DEF QueueIsCounted, QueueBounded
<1> QED
  BY <1>1, <1>2, CountedStep, WriterInvariant, PTL DEF WriterSpec

-----------------------------------------------------------------------------
(* THE CONNECTION: what is on the wire.                                    *)

\* A frame's fields.
LEMMA FrameFields ==
    ASSUME NEW f \in Frames
    PROVE  /\ f.kind \in {"open", "close", "closed", "other"} \cup Sequenced
           /\ f.kind # "other" => f.of \in Subs
           /\ f.kind = "other" => f.of \in Requests
           /\ f.sequence \in Nat
           /\ f.revision \in 0 .. MaxEvents /\ f.revision \in Nat
  BY FramesAssumption, ConnectionAssumption DEF Frame, Sequenced

\* What is on the wire stays where it is when a frame is added to it.
LEMMA WireGrows ==
    ASSUME NEW w \in Seq(Frames), NEW f \in Frames
    PROVE  /\ Len(w) \in Nat /\ Len(Append(w, f)) = Len(w) + 1
           /\ DOMAIN w = 1 .. Len(w) /\ DOMAIN Append(w, f) = 1 .. Len(w) + 1
           /\ \A i \in 1 .. Len(w) : Append(w, f)[i] = w[i]
           /\ Append(w, f)[Len(w) + 1] = f
  OBVIOUS

\* A frame joins the stream it is of, unless it answers a close.
LEMMA StreamGrows ==
    ASSUME NEW w \in Seq(Frames), NEW f \in Frames, NEW k
    PROVE  Stream(Append(w, f), k) = IF f.of = k /\ f.kind # "close"
                                       THEN Stream(w, k) \cup {Len(w) + 1} ELSE Stream(w, k)
<1> DEFINE v == Append(w, f)
           n == Len(w)
<1>1. /\ n \in Nat /\ DOMAIN w = 1 .. n /\ DOMAIN v = 1 .. n + 1
      /\ \A i \in 1 .. n : v[i] = w[i]
      /\ v[n + 1] = f
  BY WireGrows
<1> HIDE DEF v, n
<1>2. \A i : i \in 1 .. n + 1 <=> i \in 1 .. n \/ i = n + 1
  BY <1>1
<1>3. Stream(v, k) = {i \in 1 .. n + 1 : v[i].of = k /\ v[i].kind # "close"}
  BY <1>1 DEF Stream
<1>4. Stream(w, k) = {i \in 1 .. n : w[i].of = k /\ w[i].kind # "close"}
  BY <1>1 DEF Stream
<1>5. ASSUME NEW i
      PROVE  i \in Stream(v, k) <=> i \in Stream(w, k) \/ (i = n + 1 /\ f.of = k /\ f.kind # "close")
  BY <1>1, <1>2, <1>3, <1>4
<1>6. CASE f.of = k /\ f.kind # "close"
  <2>1. Stream(v, k) = Stream(w, k) \cup {n + 1}
    BY <1>5, <1>6
  <2> QED
    BY <1>6, <2>1 DEF v, n
<1>7. CASE ~(f.of = k /\ f.kind # "close")
  <2>1. Stream(v, k) = Stream(w, k)
    BY <1>5, <1>7
  <2> QED
    BY <1>7, <2>1 DEF v, n
<1> QED
  BY <1>6, <1>7

\* A stream's places are places of the wire, and so finitely many.
LEMMA StreamIsFinite ==
    ASSUME NEW w \in Seq(Frames), NEW k, NEW kinds
    PROVE  /\ Stream(w, k) \subseteq 1 .. Len(w)
           /\ IsFiniteSet(Stream(w, k))
           /\ IsFiniteSet({j \in Stream(w, k) : w[j].kind \in kinds})
           /\ Count(w, k, kinds) \in Nat
           /\ UpTo(w, k, kinds, Len(w)) = Count(w, k, kinds)
           /\ Stream(w, k) = {} => Count(w, k, kinds) = 0
<1> DEFINE n == Len(w)
           all == {j \in Stream(w, k) : w[j].kind \in kinds}
<1>1. n \in Nat /\ DOMAIN w = 1 .. n
  BY LenProperties
<1>2. Stream(w, k) \subseteq 1 .. n
  BY <1>1 DEF Stream
<1>3. IsFiniteSet(1 .. n)
  BY <1>1, FS_Interval
<1>4. IsFiniteSet(Stream(w, k))
  BY <1>2, <1>3, FS_Subset
<1>5. all \subseteq Stream(w, k)
  OBVIOUS
<1>6. IsFiniteSet(all)
  BY <1>4, <1>5, FS_Subset
<1>7. Count(w, k, kinds) \in Nat
  BY <1>6, FS_CardinalityType DEF Count
<1>8. {j \in Stream(w, k) : j <= n /\ w[j].kind \in kinds} = all
  BY <1>1, <1>2
<1>9. Stream(w, k) = {} => all = {}
  OBVIOUS
<1>10. Stream(w, k) = {} => Count(w, k, kinds) = 0
  BY <1>9, FS_EmptySet DEF Count
<1> QED
  BY <1>2, <1>4, <1>6, <1>7, <1>8, <1>10 DEF Count, UpTo

\* A frame adds one to the counts of its stream and its kind, and to no count up
\* to an earlier place.
LEMMA CountGrows ==
    ASSUME NEW w \in Seq(Frames), NEW f \in Frames, NEW k, NEW kinds
    PROVE  /\ \A i \in 1 .. Len(w) : UpTo(Append(w, f), k, kinds, i) = UpTo(w, k, kinds, i)
           /\ Count(Append(w, f), k, kinds) =
                IF f.of = k /\ f.kind # "close" /\ f.kind \in kinds
                  THEN Count(w, k, kinds) + 1 ELSE Count(w, k, kinds)
<1> DEFINE v == Append(w, f)
           n == Len(w)
           old == {j \in Stream(w, k) : w[j].kind \in kinds}
           new == {j \in Stream(v, k) : v[j].kind \in kinds}
           Joins == f.of = k /\ f.kind # "close"
<1>1. n \in Nat /\ (\A i \in 1 .. n : v[i] = w[i]) /\ v[n + 1] = f
  BY WireGrows
<1>2. Stream(w, k) \subseteq 1 .. n /\ IsFiniteSet(old)
  BY StreamIsFinite
<1>3. Stream(v, k) = IF Joins THEN Stream(w, k) \cup {n + 1} ELSE Stream(w, k)
  BY StreamGrows
<1>4. \A j \in Stream(w, k) : j \in 1 .. n /\ v[j] = w[j]
  BY <1>1, <1>2
<1>5. n + 1 \notin Stream(w, k)
  BY <1>1, <1>2
<1>6. ASSUME NEW i \in 1 .. n PROVE UpTo(v, k, kinds, i) = UpTo(w, k, kinds, i)
  <2>1. ~(n + 1 <= i)
    BY <1>1
  <2>2. {j \in Stream(v, k) : j <= i /\ v[j].kind \in kinds}
          = {j \in Stream(w, k) : j <= i /\ w[j].kind \in kinds}
    BY <1>3, <1>4, <2>1
  <2> QED
    BY <2>2 DEF UpTo
<1>7. CASE Joins /\ f.kind \in kinds
  <2>1. new = old \cup {n + 1}
    BY <1>1, <1>3, <1>4, <1>7
  <2>2. n + 1 \notin old
    BY <1>5
  <2>3. Cardinality(old \cup {n + 1}) = Cardinality(old) + 1
    BY <1>2, <2>2, FS_AddElement
  <2> QED
    BY <1>6, <1>7, <2>1, <2>3 DEF Count
<1>8. CASE ~(Joins /\ f.kind \in kinds)
  <2>1. new = old
    BY <1>1, <1>3, <1>4, <1>8
  <2> QED
    BY <1>6, <1>8, <2>1 DEF Count
<1> QED
  BY <1>7, <1>8

\* A frame goes on where a stream stops.
Continues(w, k, f) ==
    /\ f.kind = "open" => Stream(w, k) = {}
    /\ \A i \in Stream(w, k) : w[i].kind # "closed"
    /\ f.kind \in Sequenced => f.sequence = Count(w, k, Sequenced) + 1
    /\ f.kind = "projection" =>
         \A o \in Stream(w, k) : w[o].kind = "open" =>
             f.revision = w[o].revision + Count(w, k, {"projection"}) + 1

\* What has been said of a stream stays true when a frame of another stream, or
\* one that goes on where it stops, is added.
LEMMA ReconstructsMore ==
    ASSUME NEW w \in Seq(Frames), NEW f \in Frames, Reconstructs(w),
           \A k \in Subs : f.of = k /\ f.kind # "close" => Continues(w, k, f)
    PROVE  Reconstructs(Append(w, f))
<1> DEFINE v == Append(w, f)
           n == Len(w)
<1> SUFFICES ASSUME NEW k \in Subs, NEW i \in Stream(v, k)
             PROVE  /\ v[i].kind = "open" => \A j \in Stream(v, k) : i <= j
                    /\ v[i].kind = "closed" => \A j \in Stream(v, k) : j <= i
                    /\ v[i].kind \in Sequenced => v[i].sequence = UpTo(v, k, Sequenced, i)
                    /\ v[i].kind = "projection" =>
                         \A o \in Stream(v, k) : v[o].kind = "open" =>
                             v[i].revision = v[o].revision + UpTo(v, k, {"projection"}, i)
  BY DEF Reconstructs
<1>1. n \in Nat /\ (\A j \in 1 .. n : v[j] = w[j]) /\ v[n + 1] = f /\ Len(v) = n + 1
  BY WireGrows
<1>2. Stream(w, k) \subseteq 1 .. n
  BY StreamIsFinite
<1>3. Stream(v, k) = IF f.of = k /\ f.kind # "close"
                       THEN Stream(w, k) \cup {n + 1} ELSE Stream(w, k)
  BY StreamGrows
<1>4. \A kinds : \A j \in 1 .. n : UpTo(v, k, kinds, j) = UpTo(w, k, kinds, j)
  BY CountGrows
<1>5. \A j \in Stream(w, k) : j \in 1 .. n /\ v[j] = w[j]
  BY <1>1, <1>2
<1>6. v \in Seq(Frames)
  OBVIOUS
<1>7. \A kinds : UpTo(v, k, kinds, n + 1) = Count(v, k, kinds)
  BY <1>1, <1>6, StreamIsFinite
<1>8. \A kinds : f.of = k /\ f.kind # "close" /\ f.kind \in kinds =>
                   Count(v, k, kinds) = Count(w, k, kinds) + 1
  BY CountGrows
<1>9. \A kinds : Count(w, k, kinds) \in Nat
  BY StreamIsFinite
<1> HIDE DEF v, n
<1>10. CASE i \in Stream(w, k)
  <2>1. /\ w[i].kind = "open" => \A j \in Stream(w, k) : i <= j
        /\ w[i].kind = "closed" => \A j \in Stream(w, k) : j <= i
        /\ w[i].kind \in Sequenced => w[i].sequence = UpTo(w, k, Sequenced, i)
        /\ w[i].kind = "projection" =>
             \A o \in Stream(w, k) : w[o].kind = "open" =>
                 w[i].revision = w[o].revision + UpTo(w, k, {"projection"}, i)
    BY <1>10 DEF Reconstructs
  <2>2. i \in 1 .. n /\ v[i] = w[i]
    BY <1>5, <1>10
  <2>3. CASE Stream(v, k) = Stream(w, k)
    BY <1>4, <1>5, <2>1, <2>2, <2>3
  <2>4. CASE f.of = k /\ f.kind # "close"
    <3>1. Continues(w, k, f) /\ Stream(v, k) = Stream(w, k) \cup {n + 1}
      BY <1>3, <2>4
    <3>2. v[i].kind # "closed" /\ f.kind # "open"
      BY <1>10, <2>2, <3>1 DEF Continues
    <3>3. i <= n + 1
      BY <1>1, <2>2
    <3> QED
      BY <1>1, <1>4, <1>5, <2>1, <2>2, <3>1, <3>2, <3>3
  <2> QED
    BY <1>3, <2>3, <2>4
<1>11. CASE i \notin Stream(w, k)
  <2>1. i = n + 1 /\ f.of = k /\ f.kind # "close" /\ v[i] = f
    BY <1>1, <1>3, <1>11
  <2>2. Continues(w, k, f) /\ Stream(v, k) = Stream(w, k) \cup {n + 1}
    BY <1>3, <2>1
  <2>3. f.kind = "open" => Stream(v, k) = {n + 1}
    BY <2>2 DEF Continues
  <2>4. \A j \in Stream(v, k) : j <= n + 1
    BY <1>1, <1>2, <2>2
  <2>5. f.kind \in Sequenced => f.sequence = UpTo(v, k, Sequenced, i)
    BY <1>7, <1>8, <2>1, <2>2 DEF Continues
  <2>6. ASSUME f.kind = "projection", NEW o \in Stream(v, k), v[o].kind = "open"
        PROVE  f.revision = v[o].revision + UpTo(v, k, {"projection"}, i)
    <3>1. o \in Stream(w, k) /\ w[o].kind = "open" /\ v[o] = w[o]
      BY <1>1, <1>5, <2>2, <2>6
    <3>2. f.revision = w[o].revision + Count(w, k, {"projection"}) + 1
      BY <2>2, <2>6, <3>1 DEF Continues
    <3>3. UpTo(v, k, {"projection"}, i) = Count(w, k, {"projection"}) + 1
      BY <1>7, <1>8, <2>1, <2>6
    <3>4. w[o].revision \in Nat
      <4>1. w[o] \in Frames
        BY <1>2, <3>1 DEF n
      <4> QED
        BY <4>1, FrameFields
    <3> QED
      BY <1>9, <3>1, <3>2, <3>3, <3>4
  <2> QED
    BY <2>1, <2>3, <2>4, <2>5, <2>6
<1> QED
  BY <1>10, <1>11

\* The beginning of what can be reconstructed can.
LEMMA ReconstructsLess ==
    ASSUME NEW w \in Seq(Frames), NEW r \in Seq(Frames), Reconstructs(w \o r)
    PROVE  Reconstructs(w)
<1> DEFINE v == w \o r
           n == Len(w)
<1>1. /\ n \in Nat /\ DOMAIN w = 1 .. n
      /\ Len(r) \in Nat /\ DOMAIN v = 1 .. n + Len(r)
      /\ \A i \in 1 .. n : v[i] = w[i]
  BY ConcatProperties, LenProperties
<1> HIDE DEF n, v
<1> SUFFICES ASSUME NEW k \in Subs, NEW i \in Stream(w, k)
             PROVE  /\ w[i].kind = "open" => \A j \in Stream(w, k) : i <= j
                    /\ w[i].kind = "closed" => \A j \in Stream(w, k) : j <= i
                    /\ w[i].kind \in Sequenced => w[i].sequence = UpTo(w, k, Sequenced, i)
                    /\ w[i].kind = "projection" =>
                         \A o \in Stream(w, k) : w[o].kind = "open" =>
                             w[i].revision = w[o].revision + UpTo(w, k, {"projection"}, i)
  BY DEF Reconstructs
<1>2. Stream(w, k) = {j \in Stream(v, k) : j <= n}
  BY <1>1 DEF Stream
<1>3. \A j \in Stream(w, k) : j \in Stream(v, k) /\ v[j] = w[j] /\ j \in 1 .. n
  BY <1>1, <1>2 DEF Stream
<1>4. ASSUME NEW kinds PROVE UpTo(v, k, kinds, i) = UpTo(w, k, kinds, i)
  <2>1. \A j \in Stream(v, k) : j \in 1 .. n + Len(r)
    BY <1>1 DEF Stream
  <2>2. \A j \in Stream(v, k) : j <= i => j \in Stream(w, k)
    BY <1>1, <1>2, <1>3, <2>1
  <2>3. {j \in Stream(v, k) : j <= i /\ v[j].kind \in kinds}
          = {j \in Stream(w, k) : j <= i /\ w[j].kind \in kinds}
    BY <1>3, <2>2
  <2> QED
    BY <2>3 DEF UpTo
<1>5. /\ v[i].kind = "open" => \A j \in Stream(v, k) : i <= j
      /\ v[i].kind = "closed" => \A j \in Stream(v, k) : j <= i
      /\ v[i].kind \in Sequenced => v[i].sequence = UpTo(v, k, Sequenced, i)
      /\ v[i].kind = "projection" =>
           \A o \in Stream(v, k) : v[o].kind = "open" =>
               v[i].revision = v[o].revision + UpTo(v, k, {"projection"}, i)
  BY <1>3 DEF Reconstructs, v
<1> QED
  BY <1>3, <1>4, <1>5

-----------------------------------------------------------------------------
(* The pipe between a subscriber and the writer.                           *)

\* A pipe, and what a frame at its end changes.
LEMMA PipeIsSeq ==
    ASSUME NEW s \in Subscription
    PROVE  /\ s.hand \in Seq(Frames) /\ s.channel \in Seq(Frames)
           /\ Pipe(s) \in Seq(Frames) /\ Len(Pipe(s)) \in Nat
           /\ s.next \in Nat /\ s.registered \in BOOLEAN /\ s.receiver \in BOOLEAN
           /\ \A f \in Frames : s.hand \o Append(s.channel, f) = Append(Pipe(s), f)
<1>1. s.hand \in Seq(Frames) /\ s.channel \in Seq(Frames)
  BY FramesAssumption DEF Subscription
<1>2. Pipe(s) \in Seq(Frames) /\ Len(Pipe(s)) \in Nat
  BY <1>1, ConcatProperties, LenProperties DEF Pipe
<1>3. s.next \in Nat /\ s.registered \in BOOLEAN /\ s.receiver \in BOOLEAN
  BY ConnectionAssumption DEF Subscription
<1>4. \A f \in Frames : s.hand \o Append(s.channel, f) = Append(s.hand \o s.channel, f)
  BY <1>1, AppendLast
<1> QED
  BY <1>1, <1>2, <1>3, <1>4 DEF Pipe

\* A frame that carries on at the end of a pipe, or closes it.
LEMMA RunsMore ==
    ASSUME NEW p \in Seq(Frames), NEW f \in Frames, NEW k, NEW c \in Nat, NEW base \in Nat,
           Runs(p, k, c, base), \A i \in 1 .. Len(p) : p[i].kind # "closed",
           f.of = k,
           f.kind # "closed" =>
             /\ f.kind \in Sequenced
             /\ f.sequence = c + Len(p) + 1
             /\ f.revision = IF f.kind = "projection" THEN Before(p, base, Len(p) + 1) + 1
                                                      ELSE Before(p, base, Len(p) + 1)
    PROVE  /\ Runs(Append(p, f), k, c, base)
           /\ Len(Append(p, f)) = Len(p) + 1
           /\ Before(Append(p, f), base, (Len(p) + 1) + 1) = f.revision
           /\ f.kind # "closed" =>
                \A i \in 1 .. Len(p) + 1 : Append(p, f)[i].kind # "closed"
<1> DEFINE q == Append(p, f)
           n == Len(p)
<1>1. n \in Nat /\ Len(q) = n + 1 /\ (\A i \in 1 .. n : q[i] = p[i]) /\ q[n + 1] = f
  BY WireGrows
<1> HIDE DEF q, n
<1>2. \A i \in 1 .. n : /\ p[i].of = k /\ p[i].kind # "closed"
                        /\ p[i].kind \in Sequenced
                        /\ p[i].sequence = c + i
                        /\ p[i].revision = IF p[i].kind = "projection"
                                             THEN Before(p, base, i) + 1 ELSE Before(p, base, i)
  BY DEF Runs, n
<1>3. \A i \in 1 .. n + 1 : Before(q, base, i) = Before(p, base, i)
  <2> TAKE i \in 1 .. n + 1
  <2>1. i # 1 => i - 1 \in 1 .. n
    BY <1>1
  <2> QED
    BY <1>1, <2>1 DEF Before
<1>4. ASSUME NEW i \in 1 .. n + 1
      PROVE  /\ q[i].of = k
             /\ q[i].kind = "closed" => i = n + 1
             /\ q[i].kind # "closed" =>
                  /\ q[i].kind \in Sequenced
                  /\ q[i].sequence = c + i
                  /\ q[i].revision = IF q[i].kind = "projection"
                                       THEN Before(q, base, i) + 1 ELSE Before(q, base, i)
  <2>1. CASE i \in 1 .. n
    BY <1>1, <1>2, <1>3, <2>1
  <2>2. CASE i = n + 1
    <3>1. c + n + 1 = c + (n + 1)
      BY <1>1
    <3> QED
      BY <1>1, <1>3, <2>2, <3>1 DEF n
  <2> QED
    BY <1>1, <2>1, <2>2
<1>5. Runs(q, k, c, base)
  BY <1>1, <1>4 DEF Runs
<1>6. Before(q, base, (n + 1) + 1) = f.revision
  <2>1. (n + 1) + 1 # 1 /\ ((n + 1) + 1) - 1 = n + 1
    BY <1>1
  <2> QED
    BY <1>1, <2>1 DEF Before
<1>7. f.kind # "closed" => \A i \in 1 .. n + 1 : q[i].kind # "closed"
  <2>1. \A i \in 1 .. n + 1 : i \in 1 .. n \/ i = n + 1
    BY <1>1
  <2> QED
    BY <1>1, <1>2, <2>1
<1> QED
  BY <1>1, <1>5, <1>6, <1>7 DEF q, n

\* The frame at the head of a pipe goes on where the wire stops, and the rest
\* goes on after it.
LEMMA RunsOn ==
    ASSUME NEW f \in Frames, NEW q \in Seq(Frames), NEW k, NEW c \in Nat, NEW base \in Nat,
           Runs(<<f>> \o q, k, c, base)
    PROVE  /\ Len(<<f>> \o q) = Len(q) + 1
           /\ (<<f>> \o q)[1] = f
           /\ \A i \in 1 .. Len(q) : (<<f>> \o q)[i + 1] = q[i]
           /\ f.of = k
           /\ f.kind = "closed" => q = <<>>
           /\ f.kind # "closed" =>
                /\ f.kind \in Sequenced
                /\ f.sequence = c + 1
                /\ f.revision = IF f.kind = "projection" THEN base + 1 ELSE base
                /\ Runs(q, k, c + 1, f.revision)
                /\ Before(<<f>> \o q, base, (Len(q) + 1) + 1) = Before(q, f.revision, Len(q) + 1)
<1> DEFINE p == <<f>> \o q
           n == Len(q)
<1>1. n \in Nat /\ Len(p) = n + 1 /\ p[1] = f /\ (\A i \in 1 .. n : p[i + 1] = q[i])
  <2>1. <<f>> \in Seq(Frames) /\ Len(<<f>>) = 1 /\ <<f>>[1] = f
    OBVIOUS
  <2>2. Len(p) = 1 + n /\ n \in Nat
    BY <2>1, ConcatProperties, LenProperties
  <2>3. p[1] = <<f>>[1]
    BY <2>1, <2>2, ConcatProperties
  <2>4. ASSUME NEW i \in 1 .. n PROVE p[i + 1] = q[i]
    <3>1. i + 1 \in 1 .. 1 + n /\ ~(i + 1 <= 1) /\ (i + 1) - 1 = i
      BY <2>2
    <3> QED
      BY <2>1, <2>2, <3>1, ConcatProperties
  <2> QED
    BY <2>1, <2>2, <2>3, <2>4
<1>2. n = 0 => q = <<>>
  BY EmptySeq
<1> HIDE DEF p, n
<1>3. \A i \in 1 .. n + 1 :
        /\ p[i].of = k
        /\ p[i].kind = "closed" => i = n + 1
        /\ p[i].kind # "closed" =>
             /\ p[i].kind \in Sequenced
             /\ p[i].sequence = c + i
             /\ p[i].revision = IF p[i].kind = "projection"
                                  THEN Before(p, base, i) + 1 ELSE Before(p, base, i)
  BY <1>1 DEF Runs, p
<1>4. /\ f.of = k
      /\ f.kind = "closed" => 1 = n + 1
      /\ f.kind # "closed" =>
           /\ f.kind \in Sequenced
           /\ f.sequence = c + 1
           /\ f.revision = IF f.kind = "projection"
                             THEN Before(p, base, 1) + 1 ELSE Before(p, base, 1)
  <2>1. 1 \in 1 .. n + 1
    BY <1>1
  <2> QED
    BY <1>1, <1>3, <2>1
<1>5. Before(p, base, 1) = base
  BY DEF Before
<1>6. \A i \in 1 .. n + 1 : Before(p, base, i + 1) = Before(q, f.revision, i)
  <2> TAKE i \in 1 .. n + 1
  <2>1. i + 1 # 1 /\ (i + 1) - 1 = i
    BY <1>1
  <2>2. CASE i = 1
    BY <1>1, <2>1, <2>2 DEF Before
  <2>3. CASE i # 1
    <3>1. i - 1 \in 1 .. n /\ (i - 1) + 1 = i
      BY <1>1, <2>3
    <3>2. p[i] = q[i - 1]
      BY <1>1, <3>1
    <3> QED
      BY <2>1, <2>3, <3>2 DEF Before
  <2> QED
    BY <2>2, <2>3
<1>7. ASSUME NEW i \in 1 .. n
      PROVE  /\ q[i].of = k
             /\ q[i].kind = "closed" => i = n
             /\ q[i].kind # "closed" =>
                  /\ q[i].kind \in Sequenced
                  /\ q[i].sequence = (c + 1) + i
                  /\ q[i].revision = IF q[i].kind = "projection"
                                       THEN Before(q, f.revision, i) + 1
                                       ELSE Before(q, f.revision, i)
  <2>1. i + 1 \in 1 .. n + 1 /\ i \in 1 .. n + 1 /\ c + (i + 1) = (c + 1) + i
        /\ (i + 1 = n + 1 => i = n)
    BY <1>1
  <2>2. p[i + 1] = q[i] /\ Before(p, base, i + 1) = Before(q, f.revision, i)
    BY <1>1, <1>6, <2>1
  <2> QED
    BY <1>3, <2>1, <2>2
<1>8. Runs(q, k, c + 1, f.revision)
  BY <1>7 DEF Runs, n
<1>9. n + 1 \in 1 .. n + 1 /\ (1 = n + 1 => n = 0)
  BY <1>1
<1> QED
  BY <1>1, <1>2, <1>4, <1>5, <1>6, <1>8, <1>9 DEF p, n

-----------------------------------------------------------------------------
(* What each operation does to a subscriber's frames.                      *)

\* A frame of another stream changes nothing.
LEMMA FlowsBesides ==
    ASSUME NEW w \in Seq(Frames), NEW f \in Frames, NEW k, NEW s, NEW from, NEW now, NEW slow,
           Flows(k, s, w, from, now, slow), ~(f.of = k /\ f.kind # "close")
    PROVE  Flows(k, s, Append(w, f), from, now, slow)
<1> DEFINE v == Append(w, f)
<1>1. Stream(v, k) = Stream(w, k)
  BY StreamGrows
<1>2. \A kinds : Count(v, k, kinds) = Count(w, k, kinds)
  BY CountGrows
<1>3. \A i \in Stream(w, k) : v[i] = w[i]
  <2>1. Stream(w, k) \subseteq 1 .. Len(w)
    BY StreamIsFinite
  <2>2. \A i \in 1 .. Len(w) : v[i] = w[i]
    BY WireGrows
  <2> QED
    BY <2>1, <2>2
<1> HIDE DEF v
<1>4. Stands(k, s, v) /\ EndsOnce(k, s, v)
  BY <1>1, <1>3 DEF Flows, Stands, EndsOnce
<1>5. GoesOn(k, s, v, from, now, slow)
  BY <1>1, <1>2, <1>3 DEF Flows, GoesOn
<1> QED
  BY <1>4, <1>5 DEF Flows, v

\* Only the opening task looks at the snapshot, and only a registered one that
\* was not found full at what comes next.
LEMMA FlowsAlike ==
    ASSUME NEW w, NEW k, NEW s, NEW from, NEW now, NEW slow, NEW from2, NEW now2, NEW slow2,
           Flows(k, s, w, from, now, slow),
           s.task = "opening" => from2 = from,
           s.registered /\ s.receiver /\ k \notin slow2 => k \notin slow /\ now2 = now
    PROVE  Flows(k, s, w, from2, now2, slow2)
<1>1. GoesOn(k, s, w, from2, now2, slow2)
  <2>1. PICK base \in 0 .. MaxEvents :
          /\ s.task = "opening" => base = from
          /\ \A o \in Stream(w, k) : w[o].kind = "open" =>
               base = w[o].revision + Count(w, k, {"projection"})
          /\ Runs(Pipe(s), k, Count(w, k, Sequenced), base)
          /\ s.registered /\ s.receiver /\ k \notin slow =>
               /\ s.next = Count(w, k, Sequenced) + Len(Pipe(s)) + 1
               /\ now = Before(Pipe(s), base, Len(Pipe(s)) + 1)
    BY DEF Flows, GoesOn
  <2> QED
    BY <2>1 DEF GoesOn
<1> QED
  BY <1>1 DEF Flows

\* open: the snapshot is of the moment the subscriber is registered.
LEMMA FlowsOpened ==
    ASSUME NEW w \in Seq(Frames), NEW k, NEW s \in Subscription, NEW t \in Subscription,
           NEW from, NEW now \in 0 .. MaxEvents, NEW slow, NEW old, NEW slow2,
           Flows(k, s, w, from, old, slow), s.task = "unopened",
           t.registered, t.receiver, t.task = "opening",
           t.next = s.next, t.hand = s.hand, t.channel = s.channel
    PROVE  Flows(k, t, w, now, now, slow2)
<1>1. /\ Stream(w, k) = {} /\ ~s.receiver /\ s.next = 1
      /\ s.hand = <<>> /\ s.channel = <<>>
  BY DEF Flows, Stands
<1>2. Pipe(t) = <<>> /\ Len(Pipe(t)) = 0
  BY <1>1 DEF Pipe
<1>3. Count(w, k, Sequenced) = 0
  BY <1>1, StreamIsFinite
<1>4. Stands(k, t, w)
  BY <1>1 DEF Stands
<1>5. EndsOnce(k, t, w)
  BY <1>1, <1>2 DEF EndsOnce
<1>6. Runs(Pipe(t), k, Count(w, k, Sequenced), now)
  BY <1>2 DEF Runs
<1>7. now = Before(Pipe(t), now, Len(Pipe(t)) + 1) /\ t.next = 0 + Len(Pipe(t)) + 1
  BY <1>1, <1>2 DEF Before
<1>8. GoesOn(k, t, w, now, now, slow2)
  BY <1>1, <1>3, <1>6, <1>7 DEF GoesOn
<1> QED
  BY <1>4, <1>5, <1>8 DEF Flows

\* publish, to a subscriber with room: the frame has the next number.
LEMMA FlowsPublished ==
    ASSUME NEW w \in Seq(Frames), NEW k, NEW s \in Subscription, NEW t \in Subscription,
           NEW from, NEW now, NEW slow, NEW slow2, NEW f \in Frames,
           Flows(k, s, w, from, now, slow), s.registered, s.receiver, k \notin slow,
           f.of = k, f.kind \in Sequenced, f.sequence = s.next,
           f.revision = IF f.kind = "projection" THEN now + 1 ELSE now,
           t.channel = Append(s.channel, f), t.next = s.next + 1,
           t.registered = s.registered, t.receiver = s.receiver, t.task = s.task, t.hand = s.hand
    PROVE  Flows(k, t, w, from, f.revision, slow2)
<1> DEFINE c == Count(w, k, Sequenced)
           n == Len(Pipe(s))
<1>1. PICK base \in 0 .. MaxEvents :
          /\ s.task = "opening" => base = from
          /\ \A o \in Stream(w, k) : w[o].kind = "open" =>
               base = w[o].revision + Count(w, k, {"projection"})
          /\ Runs(Pipe(s), k, c, base)
          /\ s.next = c + n + 1
          /\ now = Before(Pipe(s), base, n + 1)
  BY DEF Flows, GoesOn
<1>2. /\ Pipe(s) \in Seq(Frames) /\ n \in Nat
      /\ Pipe(t) = Append(Pipe(s), f)
  BY PipeIsSeq DEF Pipe
<1>3. c \in Nat /\ base \in Nat
  <2>1. c \in Nat
    BY StreamIsFinite
  <2> QED
    BY <1>1, <2>1, ConnectionAssumption
<1>4. f.kind # "closed"
  BY DEF Sequenced
<1>5. \A i \in 1 .. n : Pipe(s)[i].kind # "closed"
  BY DEF Flows, EndsOnce
<1>6. /\ Runs(Pipe(t), k, c, base)
      /\ Len(Pipe(t)) = n + 1
      /\ Before(Pipe(t), base, (n + 1) + 1) = f.revision
      /\ \A i \in 1 .. n + 1 : Pipe(t)[i].kind # "closed"
  BY <1>1, <1>2, <1>3, <1>4, <1>5, RunsMore
<1>7. t.next = c + (n + 1) + 1
  BY <1>1, <1>2, <1>3
<1> HIDE DEF n, c
<1>8. Stands(k, t, w)
  BY DEF Flows, Stands
<1>9. EndsOnce(k, t, w)
  BY <1>6 DEF Flows, EndsOnce
<1>10. GoesOn(k, t, w, from, f.revision, slow2)
  BY <1>1, <1>6, <1>7 DEF GoesOn, c
<1> QED
  BY <1>8, <1>9, <1>10 DEF Flows

\* publish, to a subscriber without room: the number is spent, and the
\* subscriber is to be dropped.
LEMMA FlowsMissed ==
    ASSUME NEW w, NEW k, NEW s, NEW t, NEW from, NEW now, NEW slow, NEW now2, NEW slow2,
           Flows(k, s, w, from, now, slow), s.registered, k \in slow2,
           t.registered = s.registered, t.receiver = s.receiver, t.task = s.task,
           t.hand = s.hand, t.channel = s.channel
    PROVE  Flows(k, t, w, from, now2, slow2)
<1>1. Pipe(t) = Pipe(s)
  BY DEF Pipe
<1>2. Stands(k, t, w)
  BY DEF Flows, Stands
<1>3. EndsOnce(k, t, w)
  BY <1>1 DEF Flows, EndsOnce
<1>4. GoesOn(k, t, w, from, now2, slow2)
  BY <1>1 DEF Flows, GoesOn
<1> QED
  BY <1>2, <1>3, <1>4 DEF Flows

\* A subscriber is removed, by a close or because it was slow: a closed notice
\* joins the end if there is room.
LEMMA FlowsRemoved ==
    ASSUME NEW w \in Seq(Frames), NEW k, NEW s \in Subscription, NEW t \in Subscription,
           NEW from, NEW now, NEW slow, NEW from2, NEW now2, NEW slow2, NEW f \in Frames,
           Flows(k, s, w, from, now, slow), s.registered,
           s.task = "opening" => from2 = from,
           f.of = k, f.kind = "closed",
           ~t.registered,
           t.channel = s.channel \/ (s.receiver /\ t.channel = Append(s.channel, f)),
           t.next = s.next, t.receiver = s.receiver, t.task = s.task, t.hand = s.hand
    PROVE  Flows(k, t, w, from2, now2, slow2)
<1> DEFINE c == Count(w, k, Sequenced)
<1>1. PICK base \in 0 .. MaxEvents :
          /\ s.task = "opening" => base = from
          /\ \A o \in Stream(w, k) : w[o].kind = "open" =>
               base = w[o].revision + Count(w, k, {"projection"})
          /\ Runs(Pipe(s), k, c, base)
  BY DEF Flows, GoesOn
<1>2. Runs(Pipe(t), k, c, base)
  <2>1. CASE t.channel = s.channel
    <3>1. Pipe(t) = Pipe(s)
      BY <2>1 DEF Pipe
    <3> QED
      BY <1>1, <3>1
  <2>2. CASE t.channel = Append(s.channel, f)
    <3>1. Pipe(s) \in Seq(Frames) /\ Pipe(t) = Append(Pipe(s), f)
      BY <2>2, PipeIsSeq DEF Pipe
    <3>2. c \in Nat /\ base \in Nat
      <4>1. c \in Nat
        BY StreamIsFinite
      <4> QED
        BY <1>1, <4>1, ConnectionAssumption
    <3>3. \A i \in 1 .. Len(Pipe(s)) : Pipe(s)[i].kind # "closed"
      BY DEF Flows, EndsOnce
    <3> HIDE DEF c
    <3>4. Runs(Append(Pipe(s), f), k, c, base)
      BY <1>1, <3>1, <3>2, <3>3, RunsMore
    <3> QED
      BY <3>1, <3>4
  <2> QED
    BY <2>1, <2>2
<1>3. Stands(k, t, w)
  BY DEF Flows, Stands
<1>4. EndsOnce(k, t, w)
  BY DEF Flows, EndsOnce
<1>5. GoesOn(k, t, w, from2, now2, slow2)
  BY <1>1, <1>2 DEF GoesOn
<1> QED
  BY <1>3, <1>4, <1>5 DEF Flows

\* The answer to an open is the first frame, or is refused and never comes: the
\* forward task starts either way.
LEMMA FlowsAnswered ==
    ASSUME NEW w \in Seq(Frames), NEW k, NEW s \in Subscription, NEW t \in Subscription,
           NEW from, NEW now, NEW slow, NEW from2, NEW f \in Frames,
           Flows(k, s, w, from, now, slow), s.task = "opening",
           f.of = k, f.kind = "open", f.revision = from,
           t.task = "receive", t.registered = s.registered, t.next = s.next,
           t.receiver = s.receiver, t.hand = s.hand, t.channel = s.channel
    PROVE  /\ Flows(k, t, w, from2, now, slow)
           /\ Flows(k, t, Append(w, f), from2, now, slow)
           /\ Continues(w, k, f)
<1> DEFINE v == Append(w, f)
           n == Len(w)
<1>1. Stream(w, k) = {} /\ s.receiver /\ s.hand = <<>>
  BY DEF Flows, Stands
<1>2. Pipe(t) = Pipe(s)
  BY DEF Pipe
<1>3. Stream(v, k) = {n + 1} /\ v[n + 1] = f
  BY <1>1, StreamGrows, WireGrows
<1>4. /\ Count(w, k, Sequenced) = 0 /\ Count(w, k, {"projection"}) = 0
      /\ Count(v, k, Sequenced) = 0 /\ Count(v, k, {"projection"}) = 0
  <2>1. Count(w, k, Sequenced) = 0 /\ Count(w, k, {"projection"}) = 0
    BY <1>1, StreamIsFinite
  <2>2. f.kind \notin Sequenced /\ f.kind \notin {"projection"}
    BY DEF Sequenced
  <2>3. \A kinds : f.kind \notin kinds => Count(v, k, kinds) = Count(w, k, kinds)
    BY CountGrows
  <2> QED
    BY <2>1, <2>2, <2>3
<1>5. from \in Nat
  BY FrameFields
<1> HIDE DEF v, n
<1>6. Stands(k, t, w) /\ Stands(k, t, v)
  BY <1>1 DEF Flows, Stands
<1>7. EndsOnce(k, t, w) /\ EndsOnce(k, t, v)
  BY <1>1, <1>2, <1>3 DEF Flows, EndsOnce
<1>8. PICK base \in 0 .. MaxEvents :
          /\ base = from
          /\ Runs(Pipe(s), k, 0, base)
          /\ s.registered /\ s.receiver /\ k \notin slow =>
               /\ s.next = 0 + Len(Pipe(s)) + 1
               /\ now = Before(Pipe(s), base, Len(Pipe(s)) + 1)
  BY <1>4 DEF Flows, GoesOn
<1>9. GoesOn(k, t, w, from2, now, slow)
  BY <1>1, <1>2, <1>4, <1>8 DEF GoesOn
<1>10. \A o \in Stream(v, k) : base = v[o].revision + 0
  BY <1>3, <1>5, <1>8
<1>11. GoesOn(k, t, v, from2, now, slow)
  BY <1>2, <1>4, <1>8, <1>10 DEF GoesOn
<1>12. Continues(w, k, f)
  BY <1>1 DEF Continues, Sequenced
<1> QED
  BY <1>6, <1>7, <1>9, <1>11, <1>12 DEF Flows, v

\* The forward task takes a frame out of the channel: it is still the first.
LEMMA FlowsReceived ==
    ASSUME NEW w, NEW k, NEW s \in Subscription, NEW t \in Subscription,
           NEW from, NEW now, NEW slow,
           Flows(k, s, w, from, now, slow), s.task = "receive", s.channel # <<>>,
           t.task = "forward", t.hand = <<Head(s.channel)>>, t.channel = Tail(s.channel),
           t.registered = s.registered, t.next = s.next, t.receiver = s.receiver
    PROVE  Flows(k, t, w, from, now, slow)
<1>1. s.channel \in Seq(Frames)
  BY PipeIsSeq
<1>2. s.hand = <<>> /\ s.receiver
  BY DEF Flows, Stands
<1>3. <<Head(s.channel)>> \o Tail(s.channel) = s.channel /\ <<>> \o s.channel = s.channel
  BY <1>1, QueueSplit, ConcatEmptySeq
<1>4. Pipe(t) = Pipe(s)
  BY <1>2, <1>3 DEF Pipe
<1>5. Stands(k, t, w)
  BY <1>2 DEF Flows, Stands
<1>6. EndsOnce(k, t, w)
  BY <1>4 DEF Flows, EndsOnce
<1>7. GoesOn(k, t, w, from, now, slow)
  BY <1>4 DEF Flows, GoesOn
<1> QED
  BY <1>5, <1>6, <1>7 DEF Flows

\* The forward task ends, with nothing left or with what it holds lost: either
\* way nothing more is sent.
LEMMA FlowsEnded ==
    ASSUME NEW w \in Seq(Frames), NEW k, NEW s \in Subscription, NEW t \in Subscription,
           NEW from, NEW now, NEW slow,
           Flows(k, s, w, from, now, slow), s.task \in {"receive", "forward"},
           t.task = "ended", ~t.receiver, t.hand = <<>>, t.channel = <<>>,
           t.registered = s.registered, t.next = s.next,
           s.registered \/ s.channel = <<>> \/ s.task = "forward"
    PROVE  Flows(k, t, w, from, now, slow)
<1>1. Pipe(t) = <<>> /\ Len(Pipe(t)) = 0
  BY DEF Pipe
<1>2. Stands(k, t, w)
  BY DEF Flows, Stands
<1>3. EndsOnce(k, t, w)
  BY <1>1 DEF Flows, EndsOnce
<1>4. PICK base \in 0 .. MaxEvents :
          \A o \in Stream(w, k) : w[o].kind = "open" =>
               base = w[o].revision + Count(w, k, {"projection"})
  BY DEF Flows, GoesOn
<1>5. Runs(Pipe(t), k, Count(w, k, Sequenced), base)
  BY <1>1 DEF Runs
<1>6. GoesOn(k, t, w, from, now, slow)
  BY <1>4, <1>5 DEF GoesOn
<1> QED
  BY <1>2, <1>3, <1>6 DEF Flows

\* The forward task's frame goes on where the wire stops, and what is behind it
\* goes on after it.
LEMMA FlowsForwarded ==
    ASSUME NEW w \in Seq(Frames), NEW k, NEW s \in Subscription, NEW t \in Subscription,
           NEW from, NEW now, NEW slow,
           Flows(k, s, w, from, now, slow), s.task = "forward",
           t.task = "receive", t.hand = <<>>, t.channel = s.channel,
           t.registered = s.registered, t.next = s.next, t.receiver = s.receiver
    PROVE  /\ s.hand[1] \in Frames
           /\ s.hand[1].of = k /\ s.hand[1].kind # "close" /\ s.hand[1].kind # "open"
           /\ Continues(w, k, s.hand[1])
           /\ Flows(k, t, Append(w, s.hand[1]), from, now, slow)
<1> DEFINE f == s.hand[1]
           v == Append(w, f)
           q == s.channel
           c == Count(w, k, Sequenced)
           d == Count(w, k, {"projection"})
<1>1. s.hand \in Seq(Frames) /\ q \in Seq(Frames) /\ Len(s.hand) = 1 /\ s.next \in Nat
  BY PipeIsSeq DEF Flows, Stands
<1>2. f \in Frames /\ s.hand = <<f>>
  <2>1. s.hand \in [1 .. 1 -> Frames]
    BY <1>1, LenProperties
  <2>2. <<f>> \in [1 .. 1 -> Frames] /\ <<f>>[1] = f
    BY <2>1
  <2> QED
    BY <2>1, <2>2
<1>3. PICK base \in 0 .. MaxEvents :
          /\ \A o \in Stream(w, k) : w[o].kind = "open" => base = w[o].revision + d
          /\ Runs(Pipe(s), k, c, base)
          /\ s.registered /\ s.receiver /\ k \notin slow =>
               /\ s.next = c + Len(Pipe(s)) + 1
               /\ now = Before(Pipe(s), base, Len(Pipe(s)) + 1)
  BY DEF Flows, GoesOn
<1>4. c \in Nat /\ d \in Nat /\ base \in Nat /\ Len(q) \in Nat
  <2>1. c \in Nat /\ d \in Nat
    BY StreamIsFinite
  <2> QED
    BY <1>1, <1>3, <2>1, ConnectionAssumption, LenProperties
<1>5. Pipe(s) = <<f>> \o q /\ Pipe(t) = q
  BY <1>1, <1>2, ConcatEmptySeq DEF Pipe
<1>6. /\ Len(Pipe(s)) = Len(q) + 1
      /\ Pipe(s)[1] = f
      /\ \A i \in 1 .. Len(q) : Pipe(s)[i + 1] = q[i]
      /\ f.of = k
      /\ f.kind = "closed" => q = <<>>
      /\ f.kind # "closed" =>
           /\ f.kind \in Sequenced
           /\ f.sequence = c + 1
           /\ f.revision = IF f.kind = "projection" THEN base + 1 ELSE base
           /\ Runs(q, k, c + 1, f.revision)
           /\ Before(Pipe(s), base, (Len(q) + 1) + 1) = Before(q, f.revision, Len(q) + 1)
  <2>1. Runs(<<f>> \o q, k, c, base)
    BY <1>3, <1>5
  <2>2. f \in Frames /\ q \in Seq(Frames) /\ c \in Nat /\ base \in Nat
    BY <1>1, <1>2, <1>4
  <2> HIDE DEF f, q, c
  <2>3. /\ Len(<<f>> \o q) = Len(q) + 1
        /\ (<<f>> \o q)[1] = f
        /\ \A i \in 1 .. Len(q) : (<<f>> \o q)[i + 1] = q[i]
        /\ f.of = k
        /\ f.kind = "closed" => q = <<>>
        /\ f.kind # "closed" =>
             /\ f.kind \in Sequenced
             /\ f.sequence = c + 1
             /\ f.revision = IF f.kind = "projection" THEN base + 1 ELSE base
             /\ Runs(q, k, c + 1, f.revision)
             /\ Before(<<f>> \o q, base, (Len(q) + 1) + 1) = Before(q, f.revision, Len(q) + 1)
    BY <2>1, <2>2, RunsOn
  <2> QED
    BY <1>5, <2>3
<1>7. f.kind \in {"delta", "projection", "closed"}
  BY <1>6 DEF Sequenced
<1>8. Len(Pipe(s)) # 0 /\ Pipe(s) # <<>>
  BY <1>4, <1>6
<1>9. \A i \in Stream(w, k) : w[i].kind # "closed"
  BY <1>8 DEF Flows, EndsOnce
<1>10. Continues(w, k, f)
  <2>1. ASSUME f.kind = "projection", NEW o \in Stream(w, k), w[o].kind = "open"
        PROVE  f.revision = w[o].revision + d + 1
    BY <1>3, <1>6, <2>1 DEF Sequenced
  <2>2. f.kind \in Sequenced => f.sequence = c + 1
    BY <1>6 DEF Sequenced
  <2> QED
    BY <1>7, <1>9, <2>1, <2>2 DEF Continues
<1>11. /\ Stream(v, k) = Stream(w, k) \cup {Len(w) + 1}
       /\ v[Len(w) + 1] = f
       /\ \A i \in Stream(w, k) : v[i] = w[i]
  <2>1. Stream(w, k) \subseteq 1 .. Len(w)
    BY StreamIsFinite
  <2> QED
    BY <1>2, <1>6, <1>7, <2>1, StreamGrows, WireGrows
<1>12. /\ Count(v, k, Sequenced) = IF f.kind \in Sequenced THEN c + 1 ELSE c
       /\ Count(v, k, {"projection"}) = IF f.kind = "projection" THEN d + 1 ELSE d
  <2>1. \A kinds : Count(v, k, kinds) = IF f.kind \in kinds THEN Count(w, k, kinds) + 1
                                                           ELSE Count(w, k, kinds)
    BY <1>2, <1>6, <1>7, CountGrows
  <2> QED
    BY <2>1
<1>13. Stands(k, t, v)
  BY DEF Flows, Stands
<1>14. EndsOnce(k, t, v)
  <2>1. s.registered => f.kind # "closed"
    <3>1. 1 \in 1 .. Len(Pipe(s))
      BY <1>4, <1>6
    <3> QED
      BY <1>6, <3>1 DEF Flows, EndsOnce
  <2>2. s.registered => \A i \in 1 .. Len(q) : q[i].kind # "closed"
    <3>1. \A i \in 1 .. Len(q) : i + 1 \in 1 .. Len(Pipe(s))
      BY <1>4, <1>6
    <3> QED
      BY <1>6, <3>1 DEF Flows, EndsOnce
  <2>3. (\E i \in Stream(v, k) : v[i].kind = "closed") => f.kind = "closed"
    BY <1>9, <1>11
  <2> QED
    BY <1>5, <1>6, <2>1, <2>2, <2>3 DEF EndsOnce
<1>15. GoesOn(k, t, v, from, now, slow)
  <2>1. \A o \in Stream(v, k) : v[o].kind = "open" => o \in Stream(w, k) /\ v[o] = w[o]
    BY <1>7, <1>11
  <2>2. \A o \in Stream(w, k) : w[o].revision \in Nat
    <3>1. \A o \in Stream(w, k) : w[o] \in Frames
      <4>1. Stream(w, k) \subseteq 1 .. Len(w)
        BY StreamIsFinite
      <4> QED
        BY <4>1
    <3> QED
      BY <3>1, FrameFields
  <2>3. CASE f.kind = "closed"
    <3>1. ~s.registered
      <4>1. 1 \in 1 .. Len(Pipe(s))
        BY <1>4, <1>6
      <4> QED
        BY <1>6, <2>3, <4>1 DEF Flows, EndsOnce
    <3>2. Runs(Pipe(t), k, Count(v, k, Sequenced), base)
      BY <1>5, <1>6, <2>3 DEF Runs
    <3>3. Count(v, k, {"projection"}) = d
      BY <1>12, <2>3
    <3> QED
      BY <1>3, <2>1, <3>1, <3>2, <3>3 DEF GoesOn
  <2>4. CASE f.kind # "closed"
    <3>1. f.kind \in Sequenced /\ Count(v, k, Sequenced) = c + 1
      BY <1>6, <1>12, <2>4
    <3>2. f.revision \in 0 .. MaxEvents
      BY <1>2, FrameFields
    <3>3. ASSUME NEW o \in Stream(v, k), v[o].kind = "open"
          PROVE  f.revision = v[o].revision + Count(v, k, {"projection"})
      <4>1. o \in Stream(w, k) /\ v[o] = w[o] /\ w[o].kind = "open" /\ w[o].revision \in Nat
        BY <2>1, <2>2, <3>3
      <4>2. base = w[o].revision + d
        BY <1>3, <4>1
      <4>3. /\ f.revision = IF f.kind = "projection" THEN base + 1 ELSE base
            /\ Count(v, k, {"projection"}) = IF f.kind = "projection" THEN d + 1 ELSE d
        BY <1>6, <1>12, <2>4
      <4> HIDE DEF f, v, d
      <4> DEFINE x == w[o].revision
      <4>4. x \in Nat /\ d \in Nat /\ base \in Nat /\ base = x + d
        BY <1>4, <4>1, <4>2
      <4> HIDE DEF x
      <4>5. base + 1 = x + (d + 1)
        BY <4>4
      <4> USE DEF x
      <4>6. CASE f.kind = "projection"
        BY <4>1, <4>3, <4>5, <4>6
      <4>7. CASE f.kind # "projection"
        BY <4>1, <4>2, <4>3, <4>7
      <4> QED
        BY <4>6, <4>7
    <3>4. Runs(Pipe(t), k, Count(v, k, Sequenced), f.revision)
      BY <1>5, <1>6, <2>4, <3>1
    <3>5. s.registered /\ s.receiver /\ k \notin slow =>
            /\ t.next = Count(v, k, Sequenced) + Len(Pipe(t)) + 1
            /\ now = Before(Pipe(t), f.revision, Len(Pipe(t)) + 1)
      <4>1. Len(Pipe(t)) = Len(q) /\ Len(Pipe(s)) = Len(q) + 1 /\ Count(v, k, Sequenced) = c + 1
        BY <1>5, <1>6, <3>1
      <4>2. Before(Pipe(s), base, Len(Pipe(s)) + 1) = Before(Pipe(t), f.revision, Len(Pipe(t)) + 1)
        BY <1>5, <1>6, <2>4
      <4> HIDE DEF f, v, c, q
      <4> SUFFICES ASSUME s.registered, s.receiver, k \notin slow
                   PROVE  /\ t.next = Count(v, k, Sequenced) + Len(Pipe(t)) + 1
                          /\ now = Before(Pipe(t), f.revision, Len(Pipe(t)) + 1)
        OBVIOUS
      <4>3. s.next = c + (Len(q) + 1) + 1
        BY <1>3, <4>1
      <4>4. c + (Len(q) + 1) + 1 = (c + 1) + Len(q) + 1
        BY <1>4
      <4> QED
        BY <1>3, <4>1, <4>2, <4>3, <4>4
    <3> HIDE DEF f, v
    <3> QED
      BY <3>2, <3>3, <3>4, <3>5 DEF GoesOn
  <2> QED
    BY <2>3, <2>4
<1> QED
  BY <1>2, <1>6, <1>7, <1>10, <1>13, <1>14, <1>15 DEF Flows

-----------------------------------------------------------------------------
(* The steps of the connection.                                            *)

ConnectionType ==
    /\ present \in BOOLEAN
    /\ revision \in 0 .. MaxEvents
    /\ events \in 0 .. MaxEvents
    /\ sub \in [Subs -> Subscription]
    /\ dropping \subseteq Subs
    /\ loop \in Served

Valid == WriterInv /\ ConnectionType /\ ConnectionInv

\* What a step has to keep apart from the writer's own state.
SubscribersKept == ConnectionType /\ NumbersAreEvents /\ StreamsFlow

\* What is known of a subscriber of a valid state.
LEMMA ValidSub ==
    ASSUME ConnectionType, NEW k \in Subs
    PROVE  /\ sub[k] \in Subscription /\ DOMAIN sub = Subs
           /\ sub[k].next \in Nat /\ 1 <= sub[k].next
           /\ sub[k].registered \in BOOLEAN /\ sub[k].receiver \in BOOLEAN
           /\ sub[k].channel \in Seq(Frame) /\ sub[k].hand \in Seq(Frame)
           /\ revision \in Nat /\ events \in Nat
  BY ConnectionAssumption DEF ConnectionType, Subscription

\* A frame offered to a subscriber joins its channel, or nothing happens.
LEMMA OfferFields ==
    ASSUME NEW k, sub[k] \in Subscription, NEW f \in Frame
    PROVE  /\ Offer(k, f) \in Subscription
           /\ Offer(k, f).registered = sub[k].registered
           /\ Offer(k, f).next = sub[k].next
           /\ Offer(k, f).receiver = sub[k].receiver
           /\ Offer(k, f).task = sub[k].task
           /\ Offer(k, f).hand = sub[k].hand
           /\ Offer(k, f).channel = IF HasRoom(k) THEN Append(sub[k].channel, f)
                                                  ELSE sub[k].channel
           /\ HasRoom(k) => sub[k].receiver
<1>1. CASE HasRoom(k)
  <2>1. Append(sub[k].channel, f) \in Seq(Frame)
    BY DEF Subscription
  <2>2. Offer(k, f) = [sub[k] EXCEPT !.channel = Append(sub[k].channel, f)]
    BY <1>1 DEF Offer
  <2> QED
    BY <1>1, <2>1, <2>2 DEF Subscription, HasRoom
<1>2. CASE ~HasRoom(k)
  BY <1>2 DEF Offer
<1> QED
  BY <1>1, <1>2

\* A removed subscriber is as it was, but for the notice that may have joined.
LEMMA RemoveFields ==
    ASSUME NEW k \in Subs, sub[k] \in Subscription
    PROVE  /\ ClosedNotice(k) \in Frame
           /\ ClosedNotice(k).of = k /\ ClosedNotice(k).kind = "closed"
           /\ Remove(k) \in Subscription
           /\ ~Remove(k).registered
           /\ Remove(k).next = sub[k].next
           /\ Remove(k).receiver = sub[k].receiver
           /\ Remove(k).task = sub[k].task
           /\ Remove(k).hand = sub[k].hand
           /\ \/ Remove(k).channel = sub[k].channel
              \/ sub[k].receiver /\ Remove(k).channel = Append(sub[k].channel, ClosedNotice(k))
<1>1. ClosedNotice(k) \in Frame /\ ClosedNotice(k).of = k /\ ClosedNotice(k).kind = "closed"
  BY DEF ClosedNotice, Frame
<1> DEFINE o == Offer(k, ClosedNotice(k))
<1>2. /\ o \in Subscription
      /\ o.next = sub[k].next
      /\ o.receiver = sub[k].receiver
      /\ o.task = sub[k].task
      /\ o.hand = sub[k].hand
      /\ o.channel = IF HasRoom(k) THEN Append(sub[k].channel, ClosedNotice(k))
                                   ELSE sub[k].channel
      /\ HasRoom(k) => sub[k].receiver
  BY <1>1, OfferFields
<1>3. Remove(k) = [o EXCEPT !.registered = FALSE]
  BY DEF Remove
<1> HIDE DEF o
<1>4. /\ Remove(k) \in Subscription
      /\ ~Remove(k).registered
      /\ Remove(k).next = o.next
      /\ Remove(k).receiver = o.receiver
      /\ Remove(k).task = o.task
      /\ Remove(k).hand = o.hand
      /\ Remove(k).channel = o.channel
  BY <1>2, <1>3 DEF Subscription
<1> QED
  BY <1>1, <1>2, <1>4

\* A runtime event reaches every subscriber at once, or marks it to be dropped.
LEMMA PublishKeeps ==
    ASSUME Valid, NEW kind \in {"delta", "projection"}, Publish(kind)
    PROVE  SubscribersKept'
<1> DEFINE r == IF kind = "projection" THEN revision + 1 ELSE revision
           F(k) == [kind |-> kind, of |-> k, sequence |-> sub[k].next, revision |-> r]
<1>1. /\ events < MaxEvents /\ revision <= events /\ \A k \in Subs : sub[k].next <= events + 1
      /\ revision \in 0 .. MaxEvents /\ events \in 0 .. MaxEvents /\ MaxEvents \in Nat
  BY ConnectionAssumption DEF Valid, ConnectionType, ConnectionInv, NumbersAreEvents, Publish
<1>2. r \in 0 .. MaxEvents /\ r <= events + 1 /\ events + 1 \in 0 .. MaxEvents
  BY <1>1
<1>3. /\ dropping = {} /\ revision' = r /\ events' = events + 1
      /\ sub' = [k \in Subs |-> IF sub[k].registered
                                  THEN [Offer(k, F(k)) EXCEPT !.next = @ + 1] ELSE sub[k]]
      /\ dropping' = {k \in Subs : sub[k].registered /\ ~HasRoom(k)}
      /\ UNCHANGED <<writerVars, present, loop>>
  BY DEF Publish
<1>4. ASSUME NEW k \in Subs
      PROVE  /\ F(k) \in Frame /\ F(k).of = k /\ F(k).kind = kind
             /\ F(k).sequence = sub[k].next /\ F(k).revision = r
  <2>1. sub[k].next \in 1 .. MaxEvents
    BY <1>1, ValidSub DEF Valid
  <2> QED
    BY <1>2, <2>1 DEF Frame
<1> HIDE DEF r, F
<1>5. ASSUME NEW k \in Subs, sub[k].registered
      PROVE  /\ sub'[k] \in Subscription
             /\ sub'[k].next = sub[k].next + 1
             /\ sub'[k].registered = sub[k].registered
             /\ sub'[k].receiver = sub[k].receiver
             /\ sub'[k].task = sub[k].task
             /\ sub'[k].hand = sub[k].hand
             /\ sub'[k].channel = IF HasRoom(k) THEN Append(sub[k].channel, F(k))
                                                ELSE sub[k].channel
             /\ HasRoom(k) => sub[k].receiver
  <2> DEFINE o == Offer(k, F(k))
  <2>1. /\ o \in Subscription
        /\ o.registered = sub[k].registered
        /\ o.next = sub[k].next
        /\ o.receiver = sub[k].receiver
        /\ o.task = sub[k].task
        /\ o.hand = sub[k].hand
        /\ o.channel = IF HasRoom(k) THEN Append(sub[k].channel, F(k)) ELSE sub[k].channel
        /\ HasRoom(k) => sub[k].receiver
    BY <1>4, OfferFields, ValidSub DEF Valid
  <2>2. sub'[k] = [o EXCEPT !.next = o.next + 1]
    BY <1>3, <1>5
  <2>3. o.next + 1 \in 1 .. MaxEvents + 1
    BY <1>1, <2>1, ValidSub DEF Valid
  <2> HIDE DEF o
  <2>4. /\ sub'[k] \in Subscription
        /\ sub'[k].next = o.next + 1
        /\ sub'[k].registered = o.registered
        /\ sub'[k].receiver = o.receiver
        /\ sub'[k].task = o.task
        /\ sub'[k].hand = o.hand
        /\ sub'[k].channel = o.channel
    BY <2>1, <2>2, <2>3 DEF Subscription
  <2> QED
    BY <2>1, <2>4
<1>6. ASSUME NEW k \in Subs, ~sub[k].registered PROVE sub'[k] = sub[k]
  BY <1>3, <1>6
<1>7. ConnectionType'
  <2>1. \A k \in Subs : sub'[k] \in Subscription
    BY <1>5, <1>6, ValidSub DEF Valid
  <2>2. sub' \in [Subs -> Subscription]
    BY <1>3, <2>1
  <2> QED
    BY <1>2, <1>3, <2>2 DEF Valid, ConnectionType
<1>8. NumbersAreEvents'
  <2>1. ASSUME NEW k \in Subs PROVE sub'[k].next <= (events + 1) + 1
    BY <1>1, <1>5, <1>6, ValidSub DEF Valid
  <2>2. Response' = Response /\ loop' = loop
    BY <1>3 DEF Response
  <2> QED
    BY <1>2, <1>3, <2>1, <2>2 DEF Valid, ConnectionInv, NumbersAreEvents
<1>9. ASSUME NEW k \in Subs
      PROVE  /\ Opening(k)' <=> sub'[k].task = "opening"
             /\ k \in dropping' => sub'[k].registered
             /\ Flows(k, sub'[k], accepted', loop'.revision, revision', dropping')
  <2>0. k \in dropping' => sub'[k].registered
    BY <1>3, <1>5
  <2>1. /\ Opening(k) <=> sub[k].task = "opening"
        /\ Flows(k, sub[k], accepted, loop.revision, revision, dropping)
    BY DEF Valid, ConnectionInv, StreamsFlow
  <2>2. Opening(k)' <=> Opening(k)
    BY <1>3 DEF Opening
  <2>3. sub'[k].task = sub[k].task
    BY <1>5, <1>6
  <2>4. accepted' = accepted /\ loop' = loop /\ accepted \in Seq(Frames)
    BY <1>3 DEF writerVars, Valid, WriterInv, WriterType
  <2>5. sub[k] \in Subscription
    BY ValidSub DEF Valid
  <2>6. CASE ~sub[k].registered
    <3>1. Flows(k, sub[k], accepted, loop.revision, revision', dropping')
      BY <2>1, <2>6, FlowsAlike
    <3> QED
      BY <1>6, <2>0, <2>1, <2>2, <2>4, <2>6, <3>1
  <2>7. CASE sub[k].registered /\ HasRoom(k)
    <3>1. F(k) \in Frames /\ F(k).kind \in Sequenced
      BY <1>4, FramesAssumption DEF Sequenced
    <3>2. F(k).revision = IF F(k).kind = "projection" THEN revision + 1 ELSE revision
      BY <1>4 DEF r
    <3> DEFINE t == sub'[k]
               f == F(k)
    <3>3. /\ t \in Subscription /\ t.next = sub[k].next + 1
          /\ t.registered = sub[k].registered /\ t.receiver = sub[k].receiver
          /\ t.task = sub[k].task /\ t.hand = sub[k].hand
          /\ t.channel = Append(sub[k].channel, f) /\ sub[k].receiver
      BY <1>5, <2>7
    <3>4. f.of = k /\ f.sequence = sub[k].next /\ k \notin dropping
      BY <1>3, <1>4
    <3> HIDE DEF t, f
    <3>5. /\ f \in Frames /\ f.kind \in Sequenced
          /\ f.revision = IF f.kind = "projection" THEN revision + 1 ELSE revision
      BY <3>1, <3>2 DEF f
    <3>6. Flows(k, t, accepted, loop.revision, f.revision, dropping')
      BY <2>1, <2>4, <2>5, <2>7, <3>3, <3>4, <3>5, FlowsPublished
    <3> USE DEF t, f
    <3> QED
      BY <1>3, <1>4, <2>0, <2>1, <2>2, <2>3, <2>4, <3>6
  <2>8. CASE sub[k].registered /\ ~HasRoom(k)
    <3>1. k \in dropping'
      BY <1>3, <2>8
    <3>2. Flows(k, sub'[k], accepted, loop.revision, revision', dropping')
      BY <1>5, <2>1, <2>8, <3>1, FlowsMissed
    <3> QED
      BY <2>0, <2>1, <2>2, <2>3, <2>4, <3>2
  <2> QED
    BY <2>6, <2>7, <2>8
<1>10. StreamsFlow'
  BY <1>9 DEF StreamsFlow
<1> QED
  BY <1>7, <1>8, <1>10 DEF SubscribersKept

\* The loop's answers are frames.
LEMMA AnswersAreFrames ==
    /\ \A k \in Subs : \A rev \in 0 .. MaxEvents :
         [kind |-> "open", of |-> k, sequence |-> 0, revision |-> rev] \in Frame
    /\ \A k \in Subs : [kind |-> "close", of |-> k, sequence |-> 0, revision |-> 0] \in Frame
    /\ \A q \in Requests : [kind |-> "other", of |-> q, sequence |-> 0, revision |-> 0] \in Frame
<1>1. ASSUME NEW k \in Subs, NEW rev \in 0 .. MaxEvents
      PROVE  [kind |-> "open", of |-> k, sequence |-> 0, revision |-> rev] \in Frame
  BY DEF Frame
<1>2. ASSUME NEW k \in Subs
      PROVE  [kind |-> "close", of |-> k, sequence |-> 0, revision |-> 0] \in Frame
  BY DEF Frame
<1>3. ASSUME NEW q \in Requests
      PROVE  [kind |-> "other", of |-> q, sequence |-> 0, revision |-> 0] \in Frame
  BY DEF Frame
<1> QED
  BY <1>1, <1>2, <1>3

\* What an open, a close or another request leaves in the loop, and that its
\* answer is a frame.
LEMMA ServeFields ==
    ASSUME loop \in Served, NEW kind \in {"open", "close", "other"}, NEW of \in Subs \cup Requests,
           NEW rev \in 0 .. MaxEvents, NEW served \in SUBSET Requests,
           loop' = [loop EXCEPT !.pc = "respond", !.kind = kind, !.of = of, !.revision = rev,
                                !.served = served],
           kind = "open" => of \in Subs,
           kind = "close" => of \in Subs /\ rev = 0,
           kind = "other" => of \in Requests /\ rev = 0
    PROVE  /\ loop' \in Served
           /\ loop'.pc = "respond" /\ loop'.kind = kind /\ loop'.of = of /\ loop'.revision = rev
           /\ Response' \in Frame
<1>1. /\ loop' \in Served
      /\ loop'.pc = "respond" /\ loop'.kind = kind /\ loop'.of = of /\ loop'.revision = rev
  BY DEF Served
<1>2. Response' = [kind |-> kind, of |-> of, sequence |-> 0, revision |-> rev]
  BY <1>1 DEF Response
<1>3. CASE kind = "open"
  BY <1>1, <1>2, <1>3, AnswersAreFrames
<1>4. CASE kind = "close"
  BY <1>1, <1>2, <1>4, AnswersAreFrames
<1>5. CASE kind = "other"
  BY <1>1, <1>2, <1>5, AnswersAreFrames
<1> QED
  BY <1>1, <1>3, <1>4, <1>5

\* A subscriber nothing happens to, while the others and the loop move on.
LEMMA Bystander ==
    ASSUME Valid, NEW k \in Subs, sub'[k] = sub[k],
           accepted' = accepted, revision' = revision,
           k \in dropping <=> k \in dropping',
           Opening(k)' <=> Opening(k),
           Opening(k) => loop'.revision = loop.revision
    PROVE  /\ Opening(k)' <=> sub'[k].task = "opening"
           /\ k \in dropping' => sub'[k].registered
           /\ Flows(k, sub'[k], accepted', loop'.revision, revision', dropping')
<1>1. /\ Opening(k) <=> sub[k].task = "opening"
      /\ k \in dropping => sub[k].registered
      /\ Flows(k, sub[k], accepted, loop.revision, revision, dropping)
  BY DEF Valid, ConnectionInv, StreamsFlow
<1>2. sub[k].task = "opening" => loop'.revision = loop.revision
  BY <1>1
<1>3. Flows(k, sub[k], accepted, loop'.revision, revision, dropping')
  BY <1>1, <1>2, FlowsAlike
<1> QED
  BY <1>1, <1>3

\* A slow subscriber is removed, in the same turn of the lock.
LEMMA DropKeeps ==
    ASSUME Valid, NEW k \in Subs, DropSlow(k)
    PROVE  SubscribersKept'
<1>1. /\ sub' = [sub EXCEPT ![k] = Remove(k)] /\ dropping' = dropping \ {k}
      /\ UNCHANGED <<writerVars, present, revision, events, loop>>
  BY DEF DropSlow
<1>2. ConnectionType /\ NumbersAreEvents /\ accepted \in Seq(Frames) /\ accepted' = accepted
  BY <1>1 DEF Valid, ConnectionInv, WriterInv, WriterType, writerVars
<1>3. sub[k] \in Subscription /\ DOMAIN sub = Subs
  BY <1>2, ValidSub
<1>4. sub'[k] = Remove(k) /\ \A j \in Subs : j # k => sub'[j] = sub[j]
  BY <1>1, <1>3
<1>5. ConnectionType'
  <2>1. Remove(k) \in Subscription
    BY <1>3, RemoveFields
  <2> QED
    BY <1>1, <1>2, <2>1 DEF ConnectionType
<1>6. NumbersAreEvents'
  <2>1. Remove(k).next = sub[k].next
    BY <1>3, RemoveFields
  <2>2. \A j \in Subs : sub'[j].next = sub[j].next
    BY <1>4, <2>1
  <2>3. Response' = Response
    BY <1>1 DEF Response
  <2> QED
    BY <1>1, <1>2, <2>2, <2>3 DEF NumbersAreEvents
<1>7. ASSUME NEW j \in Subs
      PROVE  /\ Opening(j)' <=> sub'[j].task = "opening"
             /\ j \in dropping' => sub'[j].registered
             /\ Flows(j, sub'[j], accepted', loop'.revision, revision', dropping')
  <2>1. Opening(j)' <=> Opening(j)
    BY <1>1 DEF Opening
  <2>2. CASE j # k
    <3>1. j \in dropping <=> j \in dropping'
      BY <1>1, <2>2
    <3> QED
      BY <1>1, <1>2, <1>4, <2>1, <2>2, <3>1, Bystander
  <2>3. CASE j = k
    <3>1. /\ Opening(k) <=> sub[k].task = "opening"
          /\ Flows(k, sub[k], accepted, loop.revision, revision, dropping)
      BY DEF Valid, ConnectionInv, StreamsFlow
    <3>2. sub[k].registered
      BY DEF Valid, ConnectionInv, StreamsFlow, DropSlow
    <3> DEFINE f == ClosedNotice(k)
               t == Remove(k)
    <3>3. /\ f \in Frames /\ f.of = k /\ f.kind = "closed"
          /\ t \in Subscription /\ ~t.registered
          /\ t.next = sub[k].next /\ t.receiver = sub[k].receiver
          /\ t.task = sub[k].task /\ t.hand = sub[k].hand
          /\ \/ t.channel = sub[k].channel
             \/ sub[k].receiver /\ t.channel = Append(sub[k].channel, f)
      BY <1>3, RemoveFields, FramesAssumption
    <3>4. k \notin dropping'
      BY <1>1
    <3> HIDE DEF f, t
    <3>5. Flows(k, t, accepted, loop.revision, revision, dropping')
      BY <1>2, <1>3, <3>1, <3>2, <3>3, FlowsRemoved
    <3> QED
      BY <1>1, <1>2, <1>4, <2>1, <2>3, <3>1, <3>3, <3>4, <3>5 DEF t
  <2> QED
    BY <2>2, <2>3
<1> QED
  BY <1>5, <1>6, <1>7 DEF SubscribersKept, StreamsFlow

\* open: under one lock, the subscriber is registered and the snapshot taken.
LEMMA OpenKeeps ==
    ASSUME Valid, NEW k \in Subs, Open(k)
    PROVE  SubscribersKept'
<1> DEFINE t == [sub[k] EXCEPT !.registered = TRUE, !.receiver = TRUE, !.task = "opening"]
<1>1. /\ loop.pc = "read" /\ sub[k].task = "unopened" /\ dropping = {}
      /\ present' = TRUE
      /\ sub' = [sub EXCEPT ![k] = t]
      /\ loop' = [loop EXCEPT !.pc = "respond", !.kind = "open", !.of = k, !.revision = revision]
      /\ UNCHANGED <<writerVars, revision, events, dropping>>
  BY DEF Open, Serve
<1>2. /\ ConnectionType /\ NumbersAreEvents /\ accepted \in Seq(Frames) /\ accepted' = accepted
      /\ loop \in Served /\ revision \in 0 .. MaxEvents
  BY <1>1 DEF Valid, ConnectionType, ConnectionInv, WriterInv, WriterType, writerVars
<1>3. sub[k] \in Subscription /\ DOMAIN sub = Subs
  BY <1>2, ValidSub
<1>4. /\ t \in Subscription /\ t.registered /\ t.receiver /\ t.task = "opening"
      /\ t.next = sub[k].next /\ t.hand = sub[k].hand /\ t.channel = sub[k].channel
  BY <1>3 DEF Subscription
<1> HIDE DEF t
<1>5. sub'[k] = t /\ \A j \in Subs : j # k => sub'[j] = sub[j]
  BY <1>1, <1>3
<1>6. /\ loop' \in Served /\ Response' \in Frame
      /\ loop'.pc = "respond" /\ loop'.kind = "open" /\ loop'.of = k /\ loop'.revision = revision
  <2>1. loop.served \in SUBSET Requests
    BY <1>2 DEF Served
  <2>2. loop' = [loop EXCEPT !.pc = "respond", !.kind = "open", !.of = k, !.revision = revision,
                             !.served = loop.served]
    BY <1>1, <1>2 DEF Served
  <2> QED
    BY <1>2, <2>1, <2>2, ServeFields
<1>7. ConnectionType'
  BY <1>1, <1>2, <1>4, <1>6 DEF ConnectionType
<1>8. NumbersAreEvents'
  <2>1. \A j \in Subs : sub'[j].next = sub[j].next
    BY <1>4, <1>5
  <2> QED
    BY <1>1, <1>2, <1>6, <2>1 DEF NumbersAreEvents
<1>9. ASSUME NEW j \in Subs
      PROVE  /\ Opening(j)' <=> sub'[j].task = "opening"
             /\ j \in dropping' => sub'[j].registered
             /\ Flows(j, sub'[j], accepted', loop'.revision, revision', dropping')
  <2>1. CASE j # k
    <3>1. ~Opening(j) /\ ~Opening(j)'
      BY <1>1, <1>6, <2>1 DEF Opening
    <3> QED
      BY <1>1, <1>2, <1>5, <2>1, <3>1, Bystander
  <2>2. CASE j = k
    <3>1. Flows(k, sub[k], accepted, loop.revision, revision, dropping)
      BY DEF Valid, ConnectionInv, StreamsFlow
    <3>2. Flows(k, t, accepted, revision, revision, dropping')
      BY <1>1, <1>2, <1>3, <1>4, <3>1, FlowsOpened
    <3>3. Opening(k)'
      BY <1>6 DEF Opening
    <3> QED
      BY <1>1, <1>2, <1>4, <1>5, <1>6, <2>2, <3>2, <3>3
  <2> QED
    BY <2>1, <2>2
<1> QED
  BY <1>7, <1>8, <1>9 DEF SubscribersKept, StreamsFlow

\* close: the subscriber is removed as a slow one is.
LEMMA CloseKeeps ==
    ASSUME Valid, NEW k \in Subs, CloseSubscription(k)
    PROVE  SubscribersKept'
<1>1. /\ loop.pc = "read" /\ sub[k].registered /\ dropping = {}
      /\ sub' = [sub EXCEPT ![k] = Remove(k)]
      /\ loop' = [loop EXCEPT !.pc = "respond", !.kind = "close", !.of = k, !.revision = 0]
      /\ UNCHANGED <<writerVars, present, revision, events, dropping>>
  BY DEF CloseSubscription, Serve, continuity
<1>2. /\ ConnectionType /\ NumbersAreEvents /\ accepted \in Seq(Frames) /\ accepted' = accepted
      /\ loop \in Served
  BY <1>1 DEF Valid, ConnectionType, ConnectionInv, WriterInv, WriterType, writerVars
<1>3. sub[k] \in Subscription /\ DOMAIN sub = Subs
  BY <1>2, ValidSub
<1> DEFINE f == ClosedNotice(k)
           t == Remove(k)
<1>4. /\ f \in Frames /\ f.of = k /\ f.kind = "closed"
      /\ t \in Subscription /\ ~t.registered
      /\ t.next = sub[k].next /\ t.receiver = sub[k].receiver
      /\ t.task = sub[k].task /\ t.hand = sub[k].hand
      /\ \/ t.channel = sub[k].channel
         \/ sub[k].receiver /\ t.channel = Append(sub[k].channel, f)
  BY <1>3, RemoveFields, FramesAssumption
<1> HIDE DEF f, t
<1>5. sub'[k] = t /\ \A j \in Subs : j # k => sub'[j] = sub[j]
  BY <1>1, <1>3 DEF t
<1>6. /\ loop' \in Served /\ Response' \in Frame
      /\ loop'.pc = "respond" /\ loop'.kind = "close"
  <2>1. loop.served \in SUBSET Requests /\ 0 \in 0 .. MaxEvents
    BY <1>2, ConnectionAssumption DEF Served
  <2>2. loop' = [loop EXCEPT !.pc = "respond", !.kind = "close", !.of = k, !.revision = 0,
                             !.served = loop.served]
    BY <1>1, <1>2 DEF Served
  <2> QED
    BY <1>2, <2>1, <2>2, ServeFields
<1>7. ConnectionType'
  <2>1. sub' = [sub EXCEPT ![k] = t]
    BY <1>1 DEF t
  <2> QED
    BY <1>1, <1>2, <1>4, <1>6, <2>1 DEF ConnectionType
<1>8. NumbersAreEvents'
  <2>1. \A j \in Subs : sub'[j].next = sub[j].next
    BY <1>4, <1>5
  <2> QED
    BY <1>1, <1>2, <1>6, <2>1 DEF NumbersAreEvents
<1>9. \A j \in Subs : ~Opening(j) /\ ~Opening(j)'
  BY <1>1, <1>6 DEF Opening
<1>10. ASSUME NEW j \in Subs
      PROVE  /\ Opening(j)' <=> sub'[j].task = "opening"
             /\ j \in dropping' => sub'[j].registered
             /\ Flows(j, sub'[j], accepted', loop'.revision, revision', dropping')
  <2>1. CASE j # k
    BY <1>1, <1>2, <1>5, <1>9, <2>1, Bystander
  <2>2. CASE j = k
    <3>1. /\ Opening(k) <=> sub[k].task = "opening"
          /\ Flows(k, sub[k], accepted, loop.revision, revision, dropping)
      BY DEF Valid, ConnectionInv, StreamsFlow
    <3>2. sub[k].task # "opening"
      BY <1>9, <3>1
    <3>3. Flows(k, t, accepted, loop'.revision, revision, dropping')
      BY <1>1, <1>2, <1>3, <1>4, <3>1, <3>2, FlowsRemoved
    <3> QED
      BY <1>1, <1>2, <1>4, <1>5, <1>9, <2>2, <3>2, <3>3
  <2> QED
    BY <2>1, <2>2
<1> QED
  BY <1>7, <1>8, <1>10 DEF SubscribersKept, StreamsFlow

\* Where the loop alone moves, between requests or to its end, the streams stay.
LEMMA LoopAlone ==
    ASSUME Valid, accepted' = accepted, loop' \in Served, loop'.pc = "respond" => Response' \in Frame,
           \A k \in Subs : ~Opening(k) /\ ~Opening(k)',
           UNCHANGED <<continuity, sub>>
    PROVE  SubscribersKept'
<1>1. /\ ConnectionType /\ NumbersAreEvents
      /\ UNCHANGED <<present, revision, events, dropping, sub>>
  BY DEF Valid, ConnectionInv, continuity
<1>2. ConnectionType'
  BY <1>1 DEF ConnectionType
<1>3. NumbersAreEvents'
  BY <1>1 DEF NumbersAreEvents
<1>4. StreamsFlow'
  <2>1. ASSUME NEW k \in Subs
        PROVE  /\ Opening(k)' <=> sub'[k].task = "opening"
               /\ k \in dropping' => sub'[k].registered
               /\ Flows(k, sub'[k], accepted', loop'.revision, revision', dropping')
    <3>1. /\ sub'[k] = sub[k] /\ accepted' = accepted /\ revision' = revision
          /\ dropping' = dropping
      BY <1>1
    <3>2. ~Opening(k) /\ ~Opening(k)'
      OBVIOUS
    <3> QED
      BY <3>1, <3>2, Bystander
  <2> QED
    BY <2>1 DEF StreamsFlow
<1> QED
  BY <1>2, <1>3, <1>4 DEF SubscribersKept

\* Another request is served, or the loop closes the writer.
LEMMA LoopKeeps ==
    ASSUME Valid, (\E q \in Requests : Dispatch(q)) \/ HangUp \/ BreakOff
    PROVE  SubscribersKept'
<1>1. loop \in Served
  BY DEF Valid, ConnectionType
<1>2. ASSUME NEW q \in Requests, Dispatch(q) PROVE SubscribersKept'
  <2>1. /\ loop.pc = "read"
        /\ loop' = [loop EXCEPT !.pc = "respond", !.kind = "other", !.of = q, !.revision = 0,
                                !.served = loop.served \cup {q}]
        /\ UNCHANGED <<writerVars, continuity, sub>>
    BY <1>2 DEF Dispatch
  <2>2. loop.served \cup {q} \in SUBSET Requests /\ 0 \in 0 .. MaxEvents
    BY <1>1, ConnectionAssumption DEF Served
  <2>3. loop' \in Served /\ Response' \in Frame /\ loop'.pc = "respond" /\ loop'.kind = "other"
    <3> DEFINE served == loop.served \cup {q}
    <3>1. /\ served \in SUBSET Requests /\ q \in Subs \cup Requests
          /\ loop' = [loop EXCEPT !.pc = "respond", !.kind = "other", !.of = q, !.revision = 0,
                                  !.served = served]
      BY <2>1, <2>2
    <3> HIDE DEF served
    <3> QED
      BY <1>1, <2>2, <3>1, ServeFields
  <2>4. \A k \in Subs : ~Opening(k) /\ ~Opening(k)'
    BY <2>1, <2>3 DEF Opening
  <2>5. accepted' = accepted
    BY <2>1 DEF writerVars
  <2> QED
    BY <2>1, <2>3, <2>4, <2>5, LoopAlone
<1>3. CASE HangUp \/ BreakOff
  <2>1. /\ loop.pc \in {"read", "broken"}
        /\ loop' = [loop EXCEPT !.pc = "done"]
        /\ accepted' = accepted
        /\ UNCHANGED <<continuity, sub>>
    BY <1>3 DEF HangUp, BreakOff, CloseOutbound, Close
  <2>2. loop' \in Served /\ loop'.pc = "done"
    BY <1>1, <2>1 DEF Served
  <2>3. \A k \in Subs : ~Opening(k) /\ ~Opening(k)'
    BY <2>1, <2>2 DEF Opening
  <2> QED
    BY <2>1, <2>2, <2>3, LoopAlone
<1> QED
  BY <1>2, <1>3

\* The forward task takes the next frame, or finds that there will be none.
LEMMA ReceiveKeeps ==
    ASSUME Valid, NEW k \in Subs, Receive(k) \/ ReceiveEnd(k)
    PROVE  SubscribersKept'
<1>1. /\ ConnectionType /\ NumbersAreEvents /\ accepted \in Seq(Frames)
      /\ accepted' = accepted /\ sub[k].task = "receive"
      /\ UNCHANGED <<present, revision, events, dropping, loop>>
  BY DEF Valid, ConnectionInv, WriterInv, WriterType, writerVars, continuity, Receive, ReceiveEnd
<1>2. sub[k] \in Subscription /\ DOMAIN sub = Subs
  BY <1>1, ValidSub
<1>3. /\ Opening(k) <=> sub[k].task = "opening"
      /\ k \in dropping => sub[k].registered
      /\ Flows(k, sub[k], accepted, loop.revision, revision, dropping)
  BY DEF Valid, ConnectionInv, StreamsFlow
<1>4. \E t \in Subscription :
        /\ sub' = [sub EXCEPT ![k] = t]
        /\ t.next = sub[k].next /\ t.registered = sub[k].registered /\ t.task # "opening"
        /\ Flows(k, t, accepted, loop.revision, revision, dropping)
  <2>1. CASE Receive(k)
    <3> DEFINE t == [sub[k] EXCEPT !.hand = <<Head(sub[k].channel)>>,
                                   !.channel = Tail(sub[k].channel), !.task = "forward"]
    <3>1. sub[k].channel # <<>> /\ sub' = [sub EXCEPT ![k] = t]
      BY <1>2, <2>1 DEF Receive
    <3>2. sub[k].channel \in Seq(Frames) /\ Frames = Frame
      BY <1>2, PipeIsSeq, FramesAssumption
    <3>3. <<Head(sub[k].channel)>> \in Seq(Frame) /\ Tail(sub[k].channel) \in Seq(Frame)
      <4>1. Head(sub[k].channel) \in Frames /\ Tail(sub[k].channel) \in Seq(Frames)
        BY <3>1, <3>2, QueueSplit
      <4> QED
        BY <3>2, <4>1
    <3>4. /\ t \in Subscription /\ t.task = "forward"
          /\ t.hand = <<Head(sub[k].channel)>> /\ t.channel = Tail(sub[k].channel)
          /\ t.registered = sub[k].registered /\ t.next = sub[k].next
          /\ t.receiver = sub[k].receiver
      BY <1>2, <3>3 DEF Subscription
    <3> HIDE DEF t
    <3>5. Flows(k, t, accepted, loop.revision, revision, dropping)
      BY <1>1, <1>2, <1>3, <3>1, <3>4, FlowsReceived
    <3> QED
      BY <3>1, <3>4, <3>5
  <2>2. CASE ReceiveEnd(k)
    <3> DEFINE t == [sub[k] EXCEPT !.task = "ended", !.receiver = FALSE]
    <3>1. sub[k].channel = <<>> /\ sub' = [sub EXCEPT ![k] = t]
      BY <1>2, <2>2 DEF ReceiveEnd
    <3>2. sub[k].hand = <<>>
      BY <1>1, <1>3 DEF Flows, Stands
    <3>3. /\ t \in Subscription /\ t.task = "ended" /\ ~t.receiver
          /\ t.hand = <<>> /\ t.channel = <<>>
          /\ t.registered = sub[k].registered /\ t.next = sub[k].next
      BY <1>2, <3>1, <3>2 DEF Subscription
    <3> HIDE DEF t
    <3>4. Flows(k, t, accepted, loop.revision, revision, dropping)
      BY <1>1, <1>2, <1>3, <3>1, <3>3, FlowsEnded
    <3> QED
      BY <3>1, <3>3, <3>4
  <2> QED
    BY <2>1, <2>2
<1>5. PICK t \in Subscription :
        /\ sub' = [sub EXCEPT ![k] = t]
        /\ t.next = sub[k].next /\ t.registered = sub[k].registered /\ t.task # "opening"
        /\ Flows(k, t, accepted, loop.revision, revision, dropping)
  BY <1>4
<1>6. sub'[k] = t /\ \A j \in Subs : j # k => sub'[j] = sub[j]
  BY <1>2, <1>5
<1>7. ConnectionType'
  BY <1>1, <1>5 DEF ConnectionType
<1>8. NumbersAreEvents'
  <2>1. \A j \in Subs : sub'[j].next = sub[j].next
    BY <1>5, <1>6
  <2>2. Response' = Response
    BY <1>1 DEF Response
  <2> QED
    BY <1>1, <2>1, <2>2 DEF NumbersAreEvents
<1>9. ASSUME NEW j \in Subs
      PROVE  /\ Opening(j)' <=> sub'[j].task = "opening"
             /\ j \in dropping' => sub'[j].registered
             /\ Flows(j, sub'[j], accepted', loop'.revision, revision', dropping')
  <2>1. Opening(j)' <=> Opening(j)
    BY <1>1 DEF Opening
  <2>2. CASE j # k
    BY <1>1, <1>6, <2>1, <2>2, Bystander
  <2>3. CASE j = k
    BY <1>1, <1>3, <1>5, <1>6, <2>1, <2>3
  <2> QED
    BY <2>2, <2>3
<1> QED
  BY <1>7, <1>8, <1>9 DEF SubscribersKept, StreamsFlow

\* A subscriber whose stream gets nothing, while a frame joins the wire.
LEMMA BystanderOfFrame ==
    ASSUME Valid, NEW k \in Subs, sub'[k] = sub[k], NEW f \in Frames,
           accepted' = Append(accepted, f), ~(f.of = k /\ f.kind # "close"),
           revision' = revision, dropping' = dropping,
           Opening(k)' <=> Opening(k),
           Opening(k) => loop'.revision = loop.revision
    PROVE  /\ Opening(k)' <=> sub'[k].task = "opening"
           /\ k \in dropping' => sub'[k].registered
           /\ Flows(k, sub'[k], accepted', loop'.revision, revision', dropping')
<1>1. /\ Opening(k) <=> sub[k].task = "opening"
      /\ k \in dropping => sub[k].registered
      /\ Flows(k, sub[k], accepted, loop.revision, revision, dropping)
      /\ accepted \in Seq(Frames)
  BY DEF Valid, ConnectionInv, StreamsFlow, WriterInv, WriterType
<1>2. sub[k].task = "opening" => loop'.revision = loop.revision
  BY <1>1
<1>3. Flows(k, sub[k], accepted, loop'.revision, revision, dropping)
  BY <1>1, <1>2, FlowsAlike
<1>4. Flows(k, sub[k], Append(accepted, f), loop'.revision, revision, dropping)
  BY <1>1, <1>3, FlowsBesides
<1> QED
  BY <1>1, <1>4

\* The loop's answer joins the wire, or is refused and nothing does.
LEMMA RespondKeeps ==
    ASSUME Valid, Respond
    PROVE  /\ SubscribersKept'
           /\ Reconstructs(accepted)'
           /\ (\E f \in Frames : Enqueue(f)) \/ UNCHANGED writerVars
<1>1. /\ loop.pc = "respond"
      /\ Enqueue(Response) \/ UNCHANGED writerVars
      /\ loop' = [loop EXCEPT !.pc = IF Refused(Response) /\ loop.kind = "other"
                                       THEN "broken" ELSE "read"]
      /\ sub' = IF loop.kind = "open" THEN [sub EXCEPT ![loop.of].task = "receive"] ELSE sub
      /\ UNCHANGED <<present, revision, events, dropping>>
  BY DEF Respond, continuity
<1>2. /\ ConnectionType /\ NumbersAreEvents /\ accepted \in Seq(Frames)
      /\ Reconstructs(accepted) /\ loop \in Served
  BY DEF Valid, ConnectionType, ConnectionInv, WriterInv, WriterType
<1> DEFINE f == Response
<1>3. /\ f \in Frames
      /\ f.kind = loop.kind /\ f.of = loop.of /\ f.revision = loop.revision
      /\ f.kind \in {"open", "close", "other"}
  <2>1. f \in Frames
    BY <1>1, <1>2, FramesAssumption DEF NumbersAreEvents
  <2>2. f.kind = loop.kind /\ f.of = loop.of /\ f.revision = loop.revision
    BY DEF Response
  <2>3. loop.kind \in {"none", "open", "close", "other"}
    BY <1>2 DEF Served
  <2>4. f.kind # "none"
    BY <2>1, FrameFields DEF Sequenced
  <2> QED
    BY <2>1, <2>2, <2>3, <2>4
<1>4. accepted' = accepted \/ accepted' = Append(accepted, f)
  BY <1>1 DEF Enqueue, writerVars
<1> HIDE DEF f
<1>5. loop' \in Served /\ loop'.pc # "respond" /\ loop'.revision = loop.revision
  BY <1>1, <1>2 DEF Served
<1>6. \A j \in Subs : ~Opening(j)'
  BY <1>5 DEF Opening
<1>7. CASE loop.kind # "open"
  <2>1. sub' = sub /\ \A j \in Subs : ~Opening(j)
    BY <1>1, <1>7 DEF Opening
  <2>2. \A j \in Subs : ~(f.of = j /\ f.kind # "close")
    BY <1>3, <1>7, FrameFields, ConnectionAssumption
  <2>3. ConnectionType'
    BY <1>1, <1>2, <1>5, <2>1 DEF ConnectionType
  <2>4. NumbersAreEvents'
    BY <1>1, <1>2, <1>5, <2>1 DEF NumbersAreEvents
  <2>5. ASSUME NEW j \in Subs
        PROVE  /\ Opening(j)' <=> sub'[j].task = "opening"
               /\ j \in dropping' => sub'[j].registered
               /\ Flows(j, sub'[j], accepted', loop'.revision, revision', dropping')
    <3>1. /\ sub'[j] = sub[j] /\ revision' = revision /\ dropping' = dropping
          /\ ~Opening(j) /\ ~Opening(j)' /\ ~(f.of = j /\ f.kind # "close")
      BY <1>1, <1>6, <2>1, <2>2
    <3>2. CASE accepted' = accepted
      BY <3>1, <3>2, Bystander
    <3>3. CASE accepted' = Append(accepted, f)
      BY <1>3, <3>1, <3>3, BystanderOfFrame
    <3> QED
      BY <1>4, <3>2, <3>3
  <2>6. Reconstructs(accepted')
    <3>1. Reconstructs(Append(accepted, f))
      BY <1>2, <1>3, <2>2, ReconstructsMore
    <3> QED
      BY <1>2, <1>4, <3>1
  <2>7. (\E g \in Frames : Enqueue(g)) \/ UNCHANGED writerVars
    BY <1>1, <1>3 DEF f
  <2> QED
    BY <2>3, <2>4, <2>5, <2>6, <2>7 DEF SubscribersKept, StreamsFlow
<1>8. CASE loop.kind = "open"
  <2> DEFINE k == loop.of
             t == [sub[k] EXCEPT !.task = "receive"]
  <2>1. k \in Subs
    BY <1>3, <1>8, FrameFields
  <2>2. sub[k] \in Subscription /\ DOMAIN sub = Subs
    BY <1>2, <2>1, ValidSub
  <2>3. /\ t \in Subscription /\ t.task = "receive"
        /\ t.registered = sub[k].registered /\ t.next = sub[k].next
        /\ t.receiver = sub[k].receiver /\ t.hand = sub[k].hand /\ t.channel = sub[k].channel
    BY <2>2 DEF Subscription
  <2>4. sub' = [sub EXCEPT ![k] = t]
    BY <1>1, <1>8
  <2>5. /\ Opening(k) /\ \A j \in Subs : j # k => ~Opening(j)
    BY <1>1, <1>8 DEF Opening
  <2>6. /\ sub[k].task = "opening"
        /\ k \in dropping => sub[k].registered
        /\ Flows(k, sub[k], accepted, loop.revision, revision, dropping)
    BY <2>1, <2>5 DEF Valid, ConnectionInv, StreamsFlow
  <2>7. f.of = k /\ f.kind = "open" /\ f.revision = loop.revision
    BY <1>3, <1>8
  <2> HIDE DEF k, t
  <2>8. /\ Flows(k, t, accepted, loop.revision, revision, dropping)
        /\ Flows(k, t, Append(accepted, f), loop.revision, revision, dropping)
        /\ Continues(accepted, k, f)
    BY <1>2, <1>3, <2>2, <2>3, <2>6, <2>7, FlowsAnswered
  <2>9. sub'[k] = t /\ \A j \in Subs : j # k => sub'[j] = sub[j]
    BY <2>1, <2>2, <2>4
  <2>10. ConnectionType'
    BY <1>1, <1>2, <1>5, <2>3, <2>4 DEF ConnectionType
  <2>11. NumbersAreEvents'
    <3>1. \A j \in Subs : sub'[j].next = sub[j].next
      BY <2>3, <2>9
    <3> QED
      BY <1>1, <1>2, <1>5, <3>1 DEF NumbersAreEvents
  <2>12. ASSUME NEW j \in Subs
         PROVE  /\ Opening(j)' <=> sub'[j].task = "opening"
                /\ j \in dropping' => sub'[j].registered
                /\ Flows(j, sub'[j], accepted', loop'.revision, revision', dropping')
    <3>1. CASE j = k
      BY <1>1, <1>4, <1>5, <1>6, <2>3, <2>6, <2>8, <2>9, <3>1
    <3>2. CASE j # k
      <4>1. /\ sub'[j] = sub[j] /\ revision' = revision /\ dropping' = dropping
            /\ ~Opening(j) /\ ~Opening(j)' /\ ~(f.of = j /\ f.kind # "close")
        BY <1>1, <1>6, <2>5, <2>7, <2>9, <3>2
      <4>2. CASE accepted' = accepted
        BY <4>1, <4>2, Bystander
      <4>3. CASE accepted' = Append(accepted, f)
        BY <1>3, <4>1, <4>3, BystanderOfFrame
      <4> QED
        BY <1>4, <4>2, <4>3
    <3> QED
      BY <3>1, <3>2
  <2>13. Reconstructs(accepted')
    <3>1. \A j \in Subs : f.of = j /\ f.kind # "close" => Continues(accepted, j, f)
      BY <2>7, <2>8
    <3>2. Reconstructs(Append(accepted, f))
      BY <1>2, <1>3, <3>1, ReconstructsMore
    <3> QED
      BY <1>2, <1>4, <3>2
  <2>14. (\E g \in Frames : Enqueue(g)) \/ UNCHANGED writerVars
    BY <1>1, <1>3 DEF f
  <2> QED
    BY <2>10, <2>11, <2>12, <2>13, <2>14 DEF SubscribersKept, StreamsFlow
<1> QED
  BY <1>7, <1>8

\* The forward task's frame joins the wire, or is refused and the task ends.
LEMMA ForwardKeeps ==
    ASSUME Valid, NEW k \in Subs, Forward(k)
    PROVE  /\ SubscribersKept'
           /\ Reconstructs(accepted)'
           /\ (\E f \in Frames : Enqueue(f)) \/ UNCHANGED writerVars
<1>1. /\ ConnectionType /\ NumbersAreEvents /\ accepted \in Seq(Frames)
      /\ Reconstructs(accepted) /\ sub[k].task = "forward"
      /\ UNCHANGED <<present, revision, events, dropping, loop>>
  BY DEF Valid, ConnectionInv, WriterInv, WriterType, continuity, Forward
<1>2. sub[k] \in Subscription /\ DOMAIN sub = Subs
  BY <1>1, ValidSub
<1>3. /\ Opening(k) <=> sub[k].task = "opening"
      /\ k \in dropping => sub[k].registered
      /\ Flows(k, sub[k], accepted, loop.revision, revision, dropping)
  BY DEF Valid, ConnectionInv, StreamsFlow
<1> DEFINE f == sub[k].hand[1]
           sent == [sub[k] EXCEPT !.task = "receive", !.hand = <<>>]
           lost == [sub[k] EXCEPT !.task = "ended", !.receiver = FALSE,
                                  !.channel = <<>>, !.hand = <<>>]
<1>4. /\ sent \in Subscription /\ sent.task = "receive" /\ sent.hand = <<>>
      /\ sent.channel = sub[k].channel /\ sent.registered = sub[k].registered
      /\ sent.next = sub[k].next /\ sent.receiver = sub[k].receiver
  <2>1. <<>> \in Seq(Frame)
    OBVIOUS
  <2> QED
    BY <1>2, <2>1 DEF Subscription
<1>5. /\ lost \in Subscription /\ lost.task = "ended" /\ ~lost.receiver
      /\ lost.hand = <<>> /\ lost.channel = <<>>
      /\ lost.registered = sub[k].registered /\ lost.next = sub[k].next
  <2>1. <<>> \in Seq(Frame)
    OBVIOUS
  <2> QED
    BY <1>2, <2>1 DEF Subscription
<1>6. \/ Enqueue(f) /\ sub' = [sub EXCEPT ![k] = sent]
      \/ UNCHANGED writerVars /\ sub' = [sub EXCEPT ![k] = lost]
  BY <1>2 DEF Forward
<1> HIDE DEF sent, lost
<1>7. /\ f \in Frames /\ f.of = k /\ f.kind # "close"
      /\ Continues(accepted, k, f)
      /\ Flows(k, sent, Append(accepted, f), loop.revision, revision, dropping)
  BY <1>1, <1>2, <1>3, <1>4, FlowsForwarded
<1>8. Flows(k, lost, accepted, loop.revision, revision, dropping)
  BY <1>1, <1>2, <1>3, <1>5, FlowsEnded
<1> HIDE DEF f
<1>9. \E t \in Subscription :
        /\ sub' = [sub EXCEPT ![k] = t]
        /\ t.next = sub[k].next /\ t.registered = sub[k].registered /\ t.task # "opening"
        /\ Flows(k, t, accepted', loop.revision, revision, dropping)
  <2>1. CASE Enqueue(f) /\ sub' = [sub EXCEPT ![k] = sent]
    BY <1>4, <1>7, <2>1 DEF Enqueue
  <2>2. CASE UNCHANGED writerVars /\ sub' = [sub EXCEPT ![k] = lost]
    BY <1>5, <1>8, <2>2 DEF writerVars
  <2> QED
    BY <1>6, <2>1, <2>2
<1>10. PICK t \in Subscription :
        /\ sub' = [sub EXCEPT ![k] = t]
        /\ t.next = sub[k].next /\ t.registered = sub[k].registered /\ t.task # "opening"
        /\ Flows(k, t, accepted', loop.revision, revision, dropping)
  BY <1>9
<1>11. accepted' = accepted \/ accepted' = Append(accepted, f)
  BY <1>6 DEF Enqueue, writerVars
<1>12. sub'[k] = t /\ \A j \in Subs : j # k => sub'[j] = sub[j]
  BY <1>2, <1>10
<1>13. ConnectionType'
  BY <1>1, <1>10 DEF ConnectionType
<1>14. NumbersAreEvents'
  <2>1. \A j \in Subs : sub'[j].next = sub[j].next
    BY <1>10, <1>12
  <2>2. Response' = Response
    BY <1>1 DEF Response
  <2> QED
    BY <1>1, <2>1, <2>2 DEF NumbersAreEvents
<1>15. ASSUME NEW j \in Subs
       PROVE  /\ Opening(j)' <=> sub'[j].task = "opening"
              /\ j \in dropping' => sub'[j].registered
              /\ Flows(j, sub'[j], accepted', loop'.revision, revision', dropping')
  <2>1. Opening(j)' <=> Opening(j)
    BY <1>1 DEF Opening
  <2>2. CASE j # k
    <3>1. /\ sub'[j] = sub[j] /\ revision' = revision /\ dropping' = dropping /\ loop' = loop
          /\ ~(f.of = j /\ f.kind # "close")
      BY <1>1, <1>7, <1>12, <2>2
    <3>2. CASE accepted' = accepted
      BY <2>1, <3>1, <3>2, Bystander
    <3>3. CASE accepted' = Append(accepted, f)
      BY <1>7, <2>1, <3>1, <3>3, BystanderOfFrame
    <3> QED
      BY <1>11, <3>2, <3>3
  <2>3. CASE j = k
    BY <1>1, <1>3, <1>10, <1>12, <2>1, <2>3
  <2> QED
    BY <2>2, <2>3
<1>16. Reconstructs(accepted')
  <2>1. \A j \in Subs : f.of = j /\ f.kind # "close" => Continues(accepted, j, f)
    BY <1>7
  <2>2. Reconstructs(Append(accepted, f))
    BY <1>1, <1>7, <2>1, ReconstructsMore
  <2> QED
    BY <1>1, <1>11, <2>2
<1>17. (\E g \in Frames : Enqueue(g)) \/ UNCHANGED writerVars
  BY <1>6, <1>7
<1> QED
  BY <1>13, <1>14, <1>15, <1>16, <1>17 DEF SubscribersKept, StreamsFlow

\* The writer's own steps, and no step, leave what was accepted as it is.
LEMMA WriterAlone ==
    ASSUME Valid, accepted' = accepted, UNCHANGED <<continuity, sub, loop>>
    PROVE  SubscribersKept'
<1>1. /\ ConnectionType /\ NumbersAreEvents
      /\ UNCHANGED <<present, revision, events, dropping, sub, loop>>
  BY DEF Valid, ConnectionInv, continuity
<1>2. ConnectionType'
  BY <1>1 DEF ConnectionType
<1>3. NumbersAreEvents'
  <2>1. Response' = Response
    BY <1>1 DEF Response
  <2> QED
    BY <1>1, <2>1 DEF NumbersAreEvents
<1>4. ASSUME NEW k \in Subs
      PROVE  /\ Opening(k)' <=> sub'[k].task = "opening"
             /\ k \in dropping' => sub'[k].registered
             /\ Flows(k, sub'[k], accepted', loop'.revision, revision', dropping')
  <2>1. Opening(k)' <=> Opening(k)
    BY <1>1 DEF Opening
  <2> QED
    BY <1>1, <2>1, Bystander
<1> QED
  BY <1>2, <1>3, <1>4 DEF SubscribersKept, StreamsFlow

\* Every step of the connection is one of the writer's or none to it, and keeps
\* the invariant.
LEMMA ConnectionStep ==
    ASSUME Valid, [Next]_vars
    PROVE  SubscribersKept' /\ Reconstructs(accepted)' /\ [WriterNext]_writerVars
<1>1. ASSUME UNCHANGED writerVars PROVE Reconstructs(accepted)' /\ [WriterNext]_writerVars
  BY <1>1 DEF writerVars, Valid, ConnectionInv
<1>2. ASSUME NEW kind \in {"delta", "projection"}, Publish(kind)
      PROVE  SubscribersKept' /\ UNCHANGED writerVars
  BY <1>2, PublishKeeps DEF Publish
<1>3. ASSUME NEW k \in Subs, DropSlow(k) PROVE SubscribersKept' /\ UNCHANGED writerVars
  BY <1>3, DropKeeps DEF DropSlow
<1>4. ASSUME NEW k \in Subs, Open(k) PROVE SubscribersKept' /\ UNCHANGED writerVars
  BY <1>4, OpenKeeps DEF Open
<1>5. ASSUME NEW k \in Subs, CloseSubscription(k) PROVE SubscribersKept' /\ UNCHANGED writerVars
  BY <1>5, CloseKeeps DEF CloseSubscription
<1>6. ASSUME NEW q \in Requests, Dispatch(q) PROVE SubscribersKept' /\ UNCHANGED writerVars
  BY <1>6, LoopKeeps DEF Dispatch
<1>7. ASSUME NEW k \in Subs, Receive(k) \/ ReceiveEnd(k) PROVE SubscribersKept' /\ UNCHANGED writerVars
  BY <1>7, ReceiveKeeps DEF Receive, ReceiveEnd
<1>8. ASSUME NEW k \in Subs, Forward(k)
      PROVE  SubscribersKept' /\ Reconstructs(accepted)' /\ [WriterNext]_writerVars
  BY <1>8, ForwardKeeps DEF WriterNext
<1>9. CASE Respond
  BY <1>9, RespondKeeps DEF WriterNext
<1>10. CASE HangUp \/ BreakOff
  <2>1. Close
    BY <1>10 DEF HangUp, BreakOff, CloseOutbound
  <2>2. Reconstructs(accepted)'
    BY <2>1 DEF Close, Valid, ConnectionInv
  <2> QED
    BY <1>10, <2>1, <2>2, LoopKeeps DEF WriterNext
<1>11. CASE WriterStep
  <2>1. accepted' = accepted /\ UNCHANGED <<continuity, sub, loop>> /\ WriterNext
    BY <1>11 DEF WriterStep, WriterNext, NotifyOne, DrainStep, Pop, FindEmpty, Look, Wake,
                 SendOk, SendError, Stop
  <2> QED
    BY <2>1, WriterAlone DEF Valid, ConnectionInv
<1>12. CASE UNCHANGED vars
  <2>1. UNCHANGED writerVars /\ UNCHANGED <<continuity, sub, loop>> /\ accepted' = accepted
    BY <1>12 DEF vars, continuity, writerVars
  <2> QED
    BY <1>1, <2>1, WriterAlone
<1> QED
  BY <1>1, <1>2, <1>3, <1>4, <1>5, <1>6, <1>7, <1>8, <1>9, <1>10, <1>11, <1>12
  DEF Next, ForwardStep

\* Nobody has subscribed, and nothing was sent.
LEMMA ConnectionInit == Init => Valid
<1> SUFFICES ASSUME Init PROVE Valid
  OBVIOUS
<1>1. /\ WriterInit /\ present = FALSE /\ revision = 0 /\ events = 0
      /\ sub = [k \in Subs |-> Unopened] /\ dropping = {}
      /\ loop = [pc |-> "read", of |-> "none", kind |-> "none", revision |-> 0, served |-> {}]
      /\ accepted = <<>>
  BY DEF Init, WriterInit
<1>2. MaxEvents \in Nat /\ 0 \in 0 .. MaxEvents
  BY ConnectionAssumption
<1>3. Unopened \in Subscription
  <2>1. <<>> \in Seq(Frame) /\ 1 \in 1 .. MaxEvents + 1
    BY <1>2
  <2> QED
    BY <2>1 DEF Unopened, Subscription
<1>4. loop \in Served
  BY <1>1, <1>2 DEF Served
<1>5. ConnectionType
  <2>1. sub \in [Subs -> Subscription]
    BY <1>1, <1>3
  <2> QED
    BY <1>1, <1>2, <1>4, <2>1 DEF ConnectionType
<1>6. NumbersAreEvents
  BY <1>1 DEF NumbersAreEvents, Unopened
<1>7. \A k : Stream(accepted, k) = {}
  BY <1>1 DEF Stream
<1>8. Reconstructs(accepted)
  BY <1>7 DEF Reconstructs
<1>9. ASSUME NEW k \in Subs
      PROVE  /\ Opening(k) <=> sub[k].task = "opening"
             /\ k \in dropping => sub[k].registered
             /\ Flows(k, sub[k], accepted, loop.revision, revision, dropping)
  <2>1. sub[k] = Unopened /\ ~Opening(k) /\ k \notin dropping
    BY <1>1 DEF Opening
  <2>2. Pipe(Unopened) = <<>> /\ Len(Pipe(Unopened)) = 0
    BY DEF Pipe, Unopened
  <2>3. Stands(k, Unopened, accepted)
    BY <1>7 DEF Stands, Unopened
  <2>4. EndsOnce(k, Unopened, accepted)
    BY <1>7, <2>2 DEF EndsOnce, Unopened
  <2>5. Runs(Pipe(Unopened), k, Count(accepted, k, Sequenced), 0)
    BY <2>2 DEF Runs
  <2>6. GoesOn(k, Unopened, accepted, loop.revision, revision, dropping)
    BY <1>2, <1>7, <2>5 DEF GoesOn, Unopened
  <2> QED
    BY <2>1, <2>3, <2>4, <2>6 DEF Flows, Unopened
<1> QED
  BY <1>1, <1>5, <1>6, <1>8, <1>9, InitInv DEF Valid, ConnectionInv, StreamsFlow

-----------------------------------------------------------------------------

\* In every reachable state of the connection the pipes go on where the wire
\* stops, and its writer is a writer (OutboundWriter) that carries its frames.
THEOREM ConnectionInvariant == Spec => []Valid /\ WriterSpec
<1>1. Valid /\ [Next]_vars => Valid' /\ [WriterNext]_writerVars
  BY ConnectionStep, StepInv DEF Valid, SubscribersKept, ConnectionInv
<1>2. Init => WriterInit
  BY DEF Init
<1> QED
  BY <1>1, <1>2, ConnectionInit, PTL DEF Spec, WriterSpec

\* What a client has got lets it reconstruct the session, whichever queue was
\* full and whoever dropped or closed the subscription (coordinator.rs:183).
THEOREM ClientAlwaysReconstructs == Spec => []ClientReconstructs
<1>1. Valid => ClientReconstructs
  <2> SUFFICES ASSUME Valid PROVE Reconstructs(written)
    BY DEF ClientReconstructs
  <2>1. /\ written \in Seq(Frames) /\ inflight \in Seq(Frames) /\ items \in Seq(Frames)
        /\ accepted = written \o inflight \o items
        /\ Reconstructs(accepted)
    BY DEF Valid, WriterInv, WriterType, NothingSkipped, ConnectionInv
  <2>2. accepted = written \o (inflight \o items) /\ inflight \o items \in Seq(Frames)
    BY <2>1, Regroup, ConcatProperties
  <2> QED
    BY <2>1, <2>2, ReconstructsLess
<1> QED
  BY <1>1, ConnectionInvariant, PTL

\* The connection's writer is what the writer alone was proved to be: a FIFO
\* channel that loses no wake-up (outbound.rs:81-102) and keeps its limits
\* (outbound.rs:129), whoever enqueues and closes.
THEOREM ConnectionKeepsWriter == Spec => IsFifoChannel /\ []NoLostWakeup /\ []QueueBounded
  BY ConnectionInvariant, WriterIsFifoChannel, WakeupNeverLost, QueueAlwaysBounded, PTL
====
