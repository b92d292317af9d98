---- MODULE CommandLineProofs ----
(***************************************************************************)
(* Proofs about the two programs of the command line.  TaskRun: the ledger *)
(* of a headless task, for any number of processes that share it and any   *)
(* number of attempts.  Chat: what a chat takes for the end of its turn,   *)
(* for any number of chats on a session, of turns, and of frames that are  *)
(* under way.                                                              *)
(***************************************************************************)
EXTENDS TaskRun, Chat, SequenceTheorems, FiniteSetTheorems, TLAPS

-----------------------------------------------------------------------------
(* Sets of sequence numbers                                                *)

\* The sequence numbers are finitely many naturals.
LEMMA NumbersAreNaturals ==
    /\ Sequences \subseteq Nat
    /\ IsFiniteSet(Sequences)
<1>1. 2 * MaxLimit + 1 \in Int
  BY TaskRunAssumption
<1>2. IsFiniteSet(0..(2 * MaxLimit + 1))
  BY <1>1, FS_Interval
<1> QED
  BY <1>1, <1>2 DEF Sequences

\* A set of sequence numbers has a largest one, and Max is it.
LEMMA LargestNumber ==
    ASSUME NEW S \in SUBSET Sequences, S # {}
    PROVE  /\ Max(S) \in S
           /\ \A i \in S : i <= Max(S)
<1>1. PICK top \in Nat : Sequences = 0..top
  BY TaskRunAssumption DEF Sequences
<1> DEFINE T == {top - i : i \in S}
<1>2. T \subseteq Nat /\ T # {}
  <2>1. \A i \in S : i \in 0..top
    BY <1>1
  <2>2. \A i \in S : top - i \in Nat
    BY <2>1
  <2> QED
    BY <2>2
<1>3. PICK t \in T : \A u \in T : ~(<<u, t>> \in OpToRel(<, Nat))
  BY <1>2, NatLessThanWellFounded, WFMin
<1>4. \A u \in T : t <= u
  <2> SUFFICES ASSUME NEW u \in T PROVE t <= u
    OBVIOUS
  <2>1. ~(u < t)
    BY <1>2, <1>3 DEF OpToRel
  <2> QED
    BY <1>2, <2>1
<1>5. PICK m \in S : t = top - m
  OBVIOUS
<1>6. \A i \in S : i <= m
  <2> SUFFICES ASSUME NEW i \in S PROVE i <= m
    OBVIOUS
  <2>1. i \in 0..top /\ m \in 0..top
    BY <1>1
  <2>2. top - m <= top - i
    BY <1>4, <1>5
  <2> QED
    BY <2>1, <2>2
<1>7. \A i \in S : m >= i
  BY <1>1, <1>6
<1>8. Max(S) \in S /\ \A i \in S : Max(S) >= i
  BY <1>7 DEF Max
<1> QED
  BY <1>1, <1>8

-----------------------------------------------------------------------------
(* Types                                                                   *)

\* What the fold makes of a ledger is a view of a run.
LEMMA ProjectionType == TypeOK => Projection \in View
<1> SUFFICES ASSUME TypeOK PROVE Projection \in View
  OBVIOUS
<1> DEFINE created == Having({"created"})
           Since(kinds) == {i \in Having(kinds) : i > Max(created)}
<1>1. \A kinds : Having(kinds) \subseteq Sequences
  BY DEF Having
<1>2. CASE created = {}
  BY <1>2 DEF Projection, Nothing, View, Outcomes
<1>3. CASE created # {}
  <2>1. Having(Kinds) # {}
    BY <1>3 DEF Having, Kinds
  <2>2. Max(Having(Kinds)) \in Having(Kinds)
    BY <1>1, <2>1, LargestNumber
  <2> DEFINE last == rows[Max(Having(Kinds))]
  <2>3. last \in Row
    BY <2>2 DEF Having, TypeOK, NoRow, Kinds
  <2>4. StatusAfter(last) \in Outcomes \cup {"none", "created", "running"}
    <3> HIDE DEF last
    <3> QED
      BY <2>3 DEF StatusAfter, Row, Kinds, Outcomes
  <2>5. Cardinality(Having({"started"})) \in Nat
    BY <1>1, NumbersAreNaturals, FS_Subset, FS_CardinalityType
  <2> QED
    BY <1>3, <2>4, <2>5 DEF Projection, View
<1> QED
  BY <1>2, <1>3

\* An append of a well typed process keeps the types.
LEMMA WriteType ==
    ASSUME TypeOK, NEW p \in Processes, NEW kind \in Kinds,
           NEW status \in Outcomes \cup {"none"}, NEW next \in Process,
           Write(p, kind, status, next)
    PROVE  TypeOK'
<1> DEFINE row == [kind |-> kind, status |-> status, by |-> p]
<1>1. row \in Row
  BY DEF Row
<1>2. /\ [next EXCEPT !.seq = next.seq + 1] \in Process
      /\ [next EXCEPT !.seq = next.seq + 1, !.lost = TRUE] \in Process
  <2>1. next.seq + 1 \in Nat
    BY DEF Process
  <2> QED
    BY <2>1 DEF Process
<1>3. CASE /\ rows' = [rows EXCEPT ![next.seq] = row]
           /\ process' = [process EXCEPT ![p] = [next EXCEPT !.seq = next.seq + 1]]
           /\ UNCHANGED errors
  BY <1>1, <1>2, <1>3 DEF TypeOK
<1>4. CASE /\ errors < MaxErrors
           /\ errors' = errors + 1
           /\ process' = [process EXCEPT ![p] =
                            [next EXCEPT !.seq = next.seq + 1, !.lost = TRUE]]
           /\ UNCHANGED rows
  <2>1. errors' \in 0..MaxErrors
    BY <1>4, TaskRunAssumption DEF TypeOK
  <2> QED
    BY <1>2, <1>4, <2>1 DEF TypeOK
<1> QED
  BY <1>3, <1>4 DEF Write

\* Starting an attempt keeps a process well typed.
LEMMA AttemptType ==
    ASSUME NEW q \in Process
    PROVE  [q EXCEPT !.pc = "turn", !.attempts = @ + 1] \in Process
<1>1. q.attempts + 1 \in Nat
  BY DEF Process
<1> QED
  BY <1>1 DEF Process

\* Every step keeps the types.
LEMMA TypeStep == TypeOK /\ [Next]_vars => TypeOK'
<1> SUFFICES ASSUME TypeOK, [Next]_vars PROVE TypeOK'
  OBVIOUS
<1> USE DEF Kinds, Outcomes
<1>1. \A p \in Processes : process[p] \in Process
  BY DEF TypeOK
<1>2. ASSUME NEW p \in Processes, Launch(p) PROVE TypeOK'
  <2>1. [process[p] EXCEPT !.pc = "attempt"] \in Process
    BY <1>1 DEF Process
  <2> QED
    BY <1>2, <2>1, WriteType DEF Launch
<1>3. ASSUME NEW p \in Processes, StartAttempt(p) PROVE TypeOK'
  <2>1. [process[p] EXCEPT !.pc = "turn", !.attempts = @ + 1] \in Process
    BY <1>1, AttemptType
  <2> QED
    BY <1>3, <2>1, WriteType DEF StartAttempt
<1>4. ASSUME NEW p \in Processes, NEW status \in Outcomes, EndAttempt(p, status) PROVE TypeOK'
  <2>1. [process[p] EXCEPT !.pc = IF status = "completed" THEN "gate" ELSE "attempt",
                           !.last = status] \in Process
    BY <1>1 DEF Process
  <2> QED
    BY <1>4, <2>1, WriteType DEF EndAttempt
<1>5. ASSUME NEW p \in Processes, Accept(p) PROVE TypeOK'
  <2>1. [process[p] EXCEPT !.pc = "report", !.succeeded = TRUE] \in Process
    BY <1>1 DEF Process
  <2> QED
    BY <1>5, <2>1, WriteType DEF Accept
<1>6. ASSUME NEW p \in Processes, Repair(p) PROVE TypeOK'
  <2>1. [process[p] EXCEPT !.pc = "attempt"] \in Process
    BY <1>1 DEF Process
  <2> QED
    BY <1>6, <2>1 DEF Repair, TypeOK
<1>7. ASSUME NEW p \in Processes, Exhaust(p) PROVE TypeOK'
  <2>1. [process[p] EXCEPT !.pc = "report"] \in Process
    BY <1>1 DEF Process
  <2> QED
    BY <1>7, <2>1, WriteType DEF Exhaust
<1>8. ASSUME NEW p \in Processes, Report(p) PROVE TypeOK'
  <2> DEFINE told == IF Projection.status = "none"
                     THEN [Nothing EXCEPT !.status = "failed"] ELSE Projection
  <2>1. told \in View
    BY ProjectionType DEF Nothing, View
  <2>2. [process[p] EXCEPT !.pc = "done", !.reported = told] \in Process
    <3> HIDE DEF told
    <3> QED
      BY <1>1, <2>1 DEF Process
  <2>3. process' = [process EXCEPT ![p] =
                      [process[p] EXCEPT !.pc = "done", !.reported = told]]
    BY <1>8 DEF Report, TypeOK
  <2> QED
    BY <1>8, <2>2, <2>3 DEF Report, TypeOK
<1>9. ASSUME NEW p \in Processes, Crash(p) PROVE TypeOK'
  <2>1. [process[p] EXCEPT !.alive = FALSE] \in Process
    BY <1>1 DEF Process
  <2> QED
    BY <1>9, <2>1 DEF Crash, TypeOK
<1>10. CASE UNCHANGED vars
  BY <1>10 DEF vars, TypeOK
<1> QED
  BY <1>2, <1>3, <1>4, <1>5, <1>6, <1>7, <1>8, <1>9, <1>10 DEF Next, Step

\* The ledger and the processes are well typed to begin with.
LEMMA TypeInit == Init => TypeOK
<1> SUFFICES ASSUME Init PROVE TypeOK
  OBVIOUS
<1>1. Nothing \in View
  BY DEF Nothing, View
<1>2. process \in [Processes -> Process]
  <2> DEFINE fresh(limit) ==
        [pc |-> "unborn", alive |-> TRUE, limit |-> limit, seq |-> 0,
         attempts |-> 0, last |-> "none", succeeded |-> FALSE, lost |-> FALSE,
         reported |-> Nothing]
  <2>1. \A limit \in Limits : fresh(limit) \in Process
    BY <1>1 DEF Process
  <2>2. process \in [Processes -> {fresh(limit) : limit \in Limits}]
    BY DEF Init
  <2> HIDE DEF fresh
  <2> QED
    BY <2>1, <2>2
<1> QED
  BY <1>2, TaskRunAssumption DEF Init, TypeOK

\* The types hold for any number of processes, limits and failing appends.
THEOREM TypeCorrect == Spec => []TypeOK
<1> QED
  BY TypeInit, TypeStep, PTL DEF Spec

-----------------------------------------------------------------------------
(* The form of the ledger                                                  *)

RunInv ==
    /\ TypeOK
    /\ PlaceIsNumber
    /\ NothingMissing
    /\ RowsAreOwn
    /\ LedgerIsWellFormed

\* A row of a kind that belongs at the process's next number, and that fits
\* what the process is about to be, keeps the ledger in form.
LEMMA WriteKeepsForm ==
    ASSUME RunInv, NEW p \in Processes, NEW kind \in Kinds,
           NEW status \in Outcomes \cup {"none"}, NEW next \in Process,
           Write(p, kind, status, next),
           next.seq = process[p].seq, next.lost = process[p].lost,
           kind \in KindsAt(next.seq),
           kind = OwnKind(next, next.seq),
           next.seq = 2 * next.attempts /\ next.seq > 0 => status = next.last,
           \A i \in Sequences : i < next.seq =>
               /\ OwnKind(next, i) = OwnKind(process[p], i)
               /\ i = 2 * next.attempts =>
                    next.attempts = process[p].attempts /\ next.last = process[p].last
    PROVE  NothingMissing' /\ RowsAreOwn' /\ LedgerIsWellFormed'
<1> DEFINE n == next.seq
           row == [kind |-> kind, status |-> status, by |-> p]
<1>1. n \in Nat /\ n + 1 \in Nat
  BY DEF Process
<1>2. Sequences \subseteq Nat /\ \A i \in Sequences : i # 0 => i - 1 \in Sequences
  BY TaskRunAssumption DEF Sequences
<1>3. row # NoRow /\ row.kind = kind /\ row.status = status /\ row.by = p
  BY DEF NoRow
<1>4. rows \in [Sequences -> Row \cup {NoRow}] /\ process \in [Processes -> Process]
  BY DEF RunInv, TypeOK
<1>5. errors \in Nat
  BY TaskRunAssumption DEF RunInv, TypeOK
<1>6. CASE /\ rows' = [rows EXCEPT ![n] = row]
           /\ process' = [process EXCEPT ![p] = [next EXCEPT !.seq = n + 1]]
           /\ UNCHANGED errors
  <2> DEFINE q == [next EXCEPT !.seq = n + 1]
  <2>1. /\ q.seq = n + 1 /\ q.lost = process[p].lost
        /\ q.attempts = next.attempts /\ q.last = next.last /\ q.succeeded = next.succeeded
    BY DEF Process
  <2>2. \A i : OwnKind(q, i) = OwnKind(next, i)
    BY <2>1 DEF OwnKind
  <2>3. /\ \A i \in Sequences : rows'[i] = IF i = n THEN row ELSE rows[i]
        /\ \A r \in Processes : process'[r] = IF r = p THEN q ELSE process[r]
    BY <1>4, <1>6
  <2> HIDE DEF q, row, n
  <2>4. NothingMissing'
    BY <1>1, <1>2, <1>3, <1>6, <2>1, <2>3 DEF RunInv, NothingMissing, n
  <2>5. LedgerIsWellFormed'
    <3>1. \A i \in Sequences : rows'[i] # NoRow => rows'[i].kind \in KindsAt(i)
      BY <1>3, <2>3 DEF RunInv, LedgerIsWellFormed, n
    <3>2. errors = 0 => \A i \in Sequences \ {0} : rows'[i] # NoRow => rows'[i - 1] # NoRow
      BY <1>1, <1>2, <1>3, <2>3 DEF RunInv, LedgerIsWellFormed, NothingMissing, n
    <3> QED
      BY <1>6, <3>1, <3>2 DEF LedgerIsWellFormed
  <2>6. RowsAreOwn'
    <3> SUFFICES ASSUME NEW r \in Processes, NEW i \in Sequences
                 PROVE  /\ rows'[i] # NoRow /\ rows'[i].by = r => i < process'[r].seq
                        /\ ~process'[r].lost /\ i < process'[r].seq =>
                             /\ rows'[i] # NoRow
                             /\ rows'[i].by = r =>
                                  /\ rows'[i].kind = OwnKind(process'[r], i)
                                  /\ i = 2 * process'[r].attempts /\ i > 0 =>
                                       rows'[i].status = process'[r].last
      BY DEF RowsAreOwn, OwnKind
    <3>1. i \in Nat
      BY <1>2
    <3>2. CASE r = p /\ i = n
      BY <1>1, <1>3, <2>1, <2>2, <2>3, <3>2 DEF n
    <3>3. CASE r = p /\ i # n
      BY <1>1, <2>1, <2>2, <2>3, <3>1, <3>3 DEF RunInv, RowsAreOwn, n
    <3>4. CASE r # p /\ i = n
      BY <1>3, <2>3, <3>4 DEF RunInv, RowsAreOwn, n
    <3>5. CASE r # p /\ i # n
      BY <2>3, <3>5 DEF RunInv, RowsAreOwn, n
    <3> QED
      BY <3>2, <3>3, <3>4, <3>5
  <2> QED
    BY <2>4, <2>5, <2>6
<1>7. CASE /\ errors < MaxErrors
           /\ errors' = errors + 1
           /\ process' = [process EXCEPT ![p] = [next EXCEPT !.seq = n + 1, !.lost = TRUE]]
           /\ UNCHANGED rows
  <2> DEFINE q == [next EXCEPT !.seq = n + 1, !.lost = TRUE]
  <2>1. q.seq = n + 1 /\ q.lost
    BY DEF Process
  <2>2. \A r \in Processes : process'[r] = IF r = p THEN q ELSE process[r]
    BY <1>4, <1>7
  <2>3. errors' # 0
    BY <1>5, <1>7
  <2> HIDE DEF q, n
  <2>4. RowsAreOwn'
    <3> SUFFICES ASSUME NEW r \in Processes, NEW i \in Sequences
                 PROVE  /\ rows'[i] # NoRow /\ rows'[i].by = r => i < process'[r].seq
                        /\ ~process'[r].lost /\ i < process'[r].seq =>
                             /\ rows'[i] # NoRow
                             /\ rows'[i].by = r =>
                                  /\ rows'[i].kind = OwnKind(process'[r], i)
                                  /\ i = 2 * process'[r].attempts /\ i > 0 =>
                                       rows'[i].status = process'[r].last
      BY DEF RowsAreOwn, OwnKind
    <3>1. i \in Nat
      BY <1>2
    <3>2. CASE r = p
      BY <1>1, <1>7, <2>1, <2>2, <3>1, <3>2 DEF RunInv, RowsAreOwn, n
    <3>3. CASE r # p
      BY <1>7, <2>2, <3>3 DEF RunInv, RowsAreOwn
    <3> QED
      BY <3>2, <3>3
  <2>5. LedgerIsWellFormed'
    BY <1>7, <2>3 DEF RunInv, LedgerIsWellFormed
  <2> QED
    BY <2>3, <2>4, <2>5 DEF NothingMissing
<1> QED
  BY <1>6, <1>7 DEF Write

\* An append leaves a process where it stands, one number further on.
LEMMA WriteKeepsPlace ==
    ASSUME RunInv, NEW p \in Processes, NEW kind, NEW status, NEW next \in Process,
           Write(p, kind, status, next),
           PlaceOf([next EXCEPT !.seq = next.seq + 1])
    PROVE  PlaceIsNumber'
<1>1. process \in [Processes -> Process] /\ \A r \in Processes : PlaceOf(process[r])
  BY DEF RunInv, TypeOK, PlaceIsNumber
<1>2. PlaceOf([next EXCEPT !.seq = next.seq + 1, !.lost = TRUE])
  BY DEF PlaceOf, Process
<1>3. \A r \in Processes : PlaceOf(process'[r])
  <2>1. CASE process' = [process EXCEPT ![p] = [next EXCEPT !.seq = next.seq + 1]]
    BY <1>1, <2>1
  <2>2. CASE process' = [process EXCEPT ![p] =
                           [next EXCEPT !.seq = next.seq + 1, !.lost = TRUE]]
    BY <1>1, <1>2, <2>2
  <2> QED
    BY <2>1, <2>2 DEF Write
<1> QED
  BY <1>3 DEF PlaceIsNumber

\* Each step of the loop appends what belongs at the next number.
LEMMA RunStep == RunInv /\ [Next]_vars => RunInv'
<1> SUFFICES ASSUME RunInv, [Next]_vars PROVE RunInv'
  OBVIOUS
<1>a. /\ process \in [Processes -> Process]
      /\ \A p \in Processes : process[p] \in Process /\ PlaceOf(process[p])
  BY DEF RunInv, TypeOK, PlaceIsNumber
<1>b. TypeOK'
  BY TypeStep DEF RunInv
<1>c. Sequences \subseteq Nat
  BY NumbersAreNaturals
<1>d. ASSUME NEW p \in Processes, NEW kind \in Kinds, NEW status \in Outcomes \cup {"none"},
             NEW next \in Process, Write(p, kind, status, next),
             next.seq = process[p].seq, next.lost = process[p].lost,
             kind \in KindsAt(next.seq),
             kind = OwnKind(next, next.seq),
             next.seq = 2 * next.attempts /\ next.seq > 0 => status = next.last,
             PlaceOf([next EXCEPT !.seq = next.seq + 1]),
             \A i \in Nat : i < next.seq =>
                 /\ OwnKind(next, i) = OwnKind(process[p], i)
                 /\ i = 2 * next.attempts =>
                      next.attempts = process[p].attempts /\ next.last = process[p].last
      PROVE  RunInv'
  <2>1. PlaceIsNumber'
    BY <1>d, WriteKeepsPlace
  <2>2. NothingMissing' /\ RowsAreOwn' /\ LedgerIsWellFormed'
    BY <1>c, <1>d, WriteKeepsForm
  <2> QED
    BY <1>b, <2>1, <2>2 DEF RunInv
<1>1. ASSUME NEW p \in Processes, Launch(p) PROVE RunInv'
  <2> DEFINE next == [process[p] EXCEPT !.pc = "attempt"]
  <2>1. /\ next \in Process
        /\ next.seq = 0 /\ process[p].seq = 0 /\ next.attempts = 0 /\ next.lost = process[p].lost
    BY <1>1, <1>a DEF Launch, Process, PlaceOf
  <2>2. Write(p, "created", "none", next)
    BY <1>1 DEF Launch
  <2>3. PlaceOf([next EXCEPT !.seq = next.seq + 1])
    BY <1>1, <1>a DEF Launch, Process, PlaceOf
  <2> HIDE DEF next
  <2>4. "created" \in KindsAt(next.seq) /\ OwnKind(next, next.seq) = "created"
    BY <2>1 DEF KindsAt, OwnKind
  <2>5. \A i \in Nat : ~(i < next.seq)
    BY <2>1
  <2> QED
    BY <1>d, <2>1, <2>2, <2>3, <2>4, <2>5 DEF Kinds
<1>2. ASSUME NEW p \in Processes, StartAttempt(p) PROVE RunInv'
  <2> DEFINE next == [process[p] EXCEPT !.pc = "turn", !.attempts = @ + 1]
             k == process[p].attempts
  <2>1. /\ next \in Process /\ k \in Nat
        /\ process[p].seq = 2 * k + 1
        /\ next.seq = process[p].seq /\ next.attempts = k + 1 /\ next.lost = process[p].lost
    <3>1. next \in Process
      BY <1>a, AttemptType
    <3> QED
      BY <1>2, <1>a, <3>1 DEF StartAttempt, Process, PlaceOf
  <2>2. Write(p, "started", "none", next)
    BY <1>2 DEF StartAttempt
  <2>3. PlaceOf([next EXCEPT !.seq = next.seq + 1])
    <3>1. process[p].limit \in Nat
      <4>1. process[p].limit \in 0..MaxLimit
        BY <1>a, TaskRunAssumption DEF Process
      <4> QED
        BY <4>1
    <3> QED
      BY <1>2, <1>a, <3>1 DEF StartAttempt, Process, PlaceOf
  <2> HIDE DEF next, k
  <2>4. "started" \in KindsAt(next.seq) /\ OwnKind(next, next.seq) = "started"
    BY <2>1 DEF KindsAt, OwnKind
  <2>5. \A i \in Nat : i < next.seq => OwnKind(next, i) = OwnKind(process[p], i)
    BY <2>1 DEF OwnKind, k
  <2>6. \A i \in Nat : i < next.seq => i # 2 * next.attempts
    BY <2>1
  <2>7. next.seq # 2 * next.attempts
    BY <2>1
  <2> QED
    BY <1>d, <2>1, <2>2, <2>3, <2>4, <2>5, <2>6, <2>7 DEF Kinds
<1>3. ASSUME NEW p \in Processes, NEW status \in Outcomes, EndAttempt(p, status)
      PROVE  RunInv'
  <2> DEFINE next == [process[p] EXCEPT
                        !.pc = IF status = "completed" THEN "gate" ELSE "attempt",
                        !.last = status]
             k == process[p].attempts
  <2>1. /\ next \in Process /\ k \in Nat /\ k > 0
        /\ process[p].seq = 2 * k
        /\ next.seq = process[p].seq /\ next.attempts = k /\ next.lost = process[p].lost
        /\ next.last = status
    <3>1. next \in Process
      BY <1>a DEF Process, Outcomes
    <3> QED
      BY <1>3, <1>a, <3>1 DEF EndAttempt, Process, PlaceOf
  <2>2. Write(p, "ended", status, next)
    BY <1>3 DEF EndAttempt
  <2>3. PlaceOf([next EXCEPT !.seq = next.seq + 1])
    BY <1>3, <1>a DEF EndAttempt, Process, PlaceOf
  <2> HIDE DEF next, k
  <2>4. "ended" \in KindsAt(next.seq) /\ OwnKind(next, next.seq) = "ended"
    BY <2>1 DEF KindsAt, OwnKind
  <2>5. \A i \in Nat : i < next.seq => OwnKind(next, i) = OwnKind(process[p], i)
    BY <2>1 DEF OwnKind, k
  <2>6. \A i \in Nat : i < next.seq => i # 2 * next.attempts
    BY <2>1
  <2> QED
    BY <1>d, <2>1, <2>2, <2>3, <2>4, <2>5, <2>6 DEF Kinds
<1>4. ASSUME NEW p \in Processes, Accept(p) PROVE RunInv'
  <2> DEFINE next == [process[p] EXCEPT !.pc = "report", !.succeeded = TRUE]
             k == process[p].attempts
  <2>1. /\ next \in Process /\ k \in Nat
        /\ process[p].seq = 2 * k + 1
        /\ next.seq = process[p].seq /\ next.attempts = k /\ next.lost = process[p].lost
        /\ next.last = process[p].last /\ next.succeeded
    BY <1>4, <1>a DEF Accept, Process, PlaceOf
  <2>2. Write(p, "run_completed", "none", next)
    BY <1>4 DEF Accept
  <2>3. PlaceOf([next EXCEPT !.seq = next.seq + 1])
    BY <1>4, <1>a DEF Accept, Process, PlaceOf
  <2> HIDE DEF next, k
  <2>4. "run_completed" \in KindsAt(next.seq) /\ OwnKind(next, next.seq) = "run_completed"
    BY <2>1 DEF KindsAt, OwnKind
  <2>5. \A i \in Nat : i < next.seq => OwnKind(next, i) = OwnKind(process[p], i)
    BY <2>1 DEF OwnKind, k
  <2>6. next.seq # 2 * next.attempts
    BY <2>1
  <2> QED
    BY <1>d, <2>1, <2>2, <2>3, <2>4, <2>5, <2>6 DEF Kinds, k
<1>5. ASSUME NEW p \in Processes, Exhaust(p) PROVE RunInv'
  <2> DEFINE next == [process[p] EXCEPT !.pc = "report"]
             k == process[p].attempts
  <2>1. /\ next \in Process /\ k \in Nat
        /\ process[p].seq = 2 * k + 1
        /\ next.seq = process[p].seq /\ next.attempts = k /\ next.lost = process[p].lost
        /\ next.last = process[p].last /\ next.succeeded = process[p].succeeded
        /\ ~next.succeeded
    BY <1>5, <1>a DEF Exhaust, Process, PlaceOf
  <2>2. Write(p, "run_failed", "none", next)
    BY <1>5 DEF Exhaust
  <2>3. PlaceOf([next EXCEPT !.seq = next.seq + 1])
    BY <1>5, <1>a DEF Exhaust, Process, PlaceOf
  <2> HIDE DEF next, k
  <2>4. "run_failed" \in KindsAt(next.seq) /\ OwnKind(next, next.seq) = "run_failed"
    BY <2>1 DEF KindsAt, OwnKind
  <2>5. \A i \in Nat : i < next.seq => OwnKind(next, i) = OwnKind(process[p], i)
    BY <2>1 DEF OwnKind, k
  <2>6. next.seq # 2 * next.attempts
    BY <2>1
  <2> QED
    BY <1>d, <2>1, <2>2, <2>3, <2>4, <2>5, <2>6 DEF Kinds, k
<1>6. ASSUME NEW p \in Processes, Repair(p) \/ Report(p) \/ Crash(p) PROVE RunInv'
  <2>1. UNCHANGED <<rows, errors>>
    BY <1>6 DEF Repair, Report, Crash
  <2>2. PICK q : /\ process' = [process EXCEPT ![p] = q]
                 /\ q.seq = process[p].seq /\ q.lost = process[p].lost
                 /\ q.attempts = process[p].attempts /\ q.limit = process[p].limit
                 /\ q.last = process[p].last /\ q.succeeded = process[p].succeeded
                 /\ \/ q.pc = process[p].pc
                    \/ process[p].pc = "gate" /\ q.pc = "attempt"
                    \/ process[p].pc = "report" /\ q.pc = "done"
    <3>1. CASE Repair(p)
      <4> WITNESS [process[p] EXCEPT !.pc = "attempt"]
      <4> QED
        BY <3>1, <1>a DEF Repair, Process
    <3>2. CASE Report(p)
      <4>1. PICK told : process' = [process EXCEPT ![p].pc = "done", ![p].reported = told]
        BY <3>2 DEF Report
      <4>2. process' = [process EXCEPT ![p] =
                          [process[p] EXCEPT !.pc = "done", !.reported = told]]
        BY <4>1, <1>a
      <4> WITNESS [process[p] EXCEPT !.pc = "done", !.reported = told]
      <4> QED
        BY <3>2, <4>2, <1>a DEF Report, Process
    <3>3. CASE Crash(p)
      <4> WITNESS [process[p] EXCEPT !.alive = FALSE]
      <4> QED
        BY <3>3, <1>a DEF Crash, Process
    <3> QED
      BY <1>6, <3>1, <3>2, <3>3
  <2>3. \A r \in Processes :
          /\ process'[r].seq = process[r].seq /\ process'[r].lost = process[r].lost
          /\ process'[r].attempts = process[r].attempts
          /\ process'[r].limit = process[r].limit
          /\ process'[r].last = process[r].last
          /\ process'[r].succeeded = process[r].succeeded
          /\ \/ process'[r].pc = process[r].pc
             \/ process[r].pc = "gate" /\ process'[r].pc = "attempt"
             \/ process[r].pc = "report" /\ process'[r].pc = "done"
    BY <2>2, <1>a
  <2>4. PlaceIsNumber'
    BY <2>3 DEF RunInv, PlaceIsNumber, PlaceOf
  <2>5. \A r \in Processes, i \in Sequences : OwnKind(process'[r], i) = OwnKind(process[r], i)
    BY <2>3 DEF OwnKind
  <2>6. RowsAreOwn'
    BY <2>1, <2>3, <2>5 DEF RunInv, RowsAreOwn
  <2>7. NothingMissing' /\ LedgerIsWellFormed'
    BY <2>1, <2>3 DEF RunInv, NothingMissing, LedgerIsWellFormed
  <2> QED
    BY <1>b, <2>4, <2>6, <2>7 DEF RunInv
<1>7. CASE UNCHANGED vars
  BY <1>7, <1>b DEF vars, RunInv, PlaceIsNumber, NothingMissing, RowsAreOwn, LedgerIsWellFormed
<1> QED
  BY <1>1, <1>2, <1>3, <1>4, <1>5, <1>6, <1>7 DEF Next, Step

\* An empty ledger is in form, and no process has begun.
LEMMA RunInit == Init => RunInv
<1> SUFFICES ASSUME Init PROVE RunInv
  OBVIOUS
<1>1. TypeOK
  BY TypeInit
<1>2. \A p \in Processes :
        /\ process[p].pc = "unborn" /\ process[p].seq = 0 /\ process[p].attempts = 0
        /\ ~process[p].succeeded /\ process[p].limit \in Nat
  BY TaskRunAssumption DEF Init
<1>3. \A i \in Sequences : rows[i] = NoRow
  BY DEF Init
<1>4. PlaceIsNumber
  BY <1>2 DEF PlaceIsNumber, PlaceOf
<1>5. NothingMissing /\ RowsAreOwn
  BY <1>2, <1>3, NumbersAreNaturals DEF NothingMissing, RowsAreOwn
<1>6. LedgerIsWellFormed
  BY <1>3 DEF LedgerIsWellFormed
<1> QED
  BY <1>1, <1>4, <1>5, <1>6 DEF RunInv

\* Whoever replaces whose rows, the ledger alternates as one run's does, and
\* has no hole if no append failed.
THEOREM LedgerStaysWellFormed == Spec => []LedgerIsWellFormed
<1>1. RunInv => LedgerIsWellFormed
  BY DEF RunInv
<1> QED
  BY <1>1, RunInit, RunStep, PTL DEF Spec

-----------------------------------------------------------------------------
(* What the fold tells of a ledger that one process wrote                  *)

\* The largest member of a set of sequence numbers is its maximum.
LEMMA MaxIs ==
    ASSUME NEW S \in SUBSET Sequences, NEW m \in S, \A i \in S : i <= m
    PROVE  Max(S) = m
<1>1. S # {}
  OBVIOUS
<1>2. Max(S) \in S /\ m <= Max(S)
  BY <1>1, LargestNumber
<1>3. Max(S) <= m
  BY <1>2
<1>4. m \in Nat /\ Max(S) \in Nat
  BY <1>2, NumbersAreNaturals
<1> QED
  BY <1>2, <1>3, <1>4

\* There are k odd numbers below 2k + 1.
LEMMA OddNumbers ==
    ASSUME NEW k \in Nat
    PROVE  Cardinality({i \in Nat : i % 2 = 1 /\ i < 2 * k + 1}) = k
<1> DEFINE odd == {i \in Nat : i % 2 = 1 /\ i < 2 * k + 1}
           f == [j \in 1..k |-> 2 * j - 1]
<1>1. \A j \in 1..k : f[j] \in odd
  OBVIOUS
<1>2. \A i \in odd : \E j \in 1..k : f[j] = i
  <2> SUFFICES ASSUME NEW i \in odd PROVE \E j \in 1..k : f[j] = i
    OBVIOUS
  <2>1. (i + 1) \div 2 \in 1..k /\ 2 * ((i + 1) \div 2) - 1 = i
    OBVIOUS
  <2> QED
    BY <2>1
<1>3. f \in Bijection(1..k, odd)
  <2>1. f \in [1..k -> odd]
    BY <1>1
  <2>2. \A a, b \in 1..k : f[a] = f[b] => a = b
    OBVIOUS
  <2> QED
    BY <1>2, <2>1, <2>2 DEF Bijection, Injection, Surjection, IsInjective
<1>4. IsFiniteSet(1..k) /\ Cardinality(1..k) = k
  BY FS_Interval
<1>5. ExistsBijection(1..k, odd)
  BY <1>3 DEF ExistsBijection
<1> QED
  BY <1>4, <1>5, FS_Bijection

\* The fold of a ledger whose rows are all one process's is that process's run.
LEMMA FoldIsRun == RunInv => LedgerTellsRun
<1> SUFFICES ASSUME RunInv, NEW p \in Processes, process[p].pc # "unborn", ~process[p].lost,
                    \A i \in Sequences : rows[i] # NoRow => rows[i].by = p
             PROVE  Projection = Own(p)
  BY DEF LedgerTellsRun
<1> DEFINE q == process[p]
           k == q.attempts
           over == q.pc \in {"report", "done"}
<1>1. /\ k \in Nat /\ q.seq \in Nat /\ k <= MaxLimit
      /\ q.pc \in {"attempt", "turn", "gate", "report", "done"}
      /\ q.succeeded \in BOOLEAN
  <2>1. q \in Process
    BY DEF RunInv, TypeOK
  <2>2. q.limit \in 0..MaxLimit /\ k <= q.limit
    BY <2>1, TaskRunAssumption DEF RunInv, PlaceIsNumber, PlaceOf, Process
  <2> QED
    BY <2>1, <2>2, TaskRunAssumption DEF Process
<1>2. /\ q.pc \in {"attempt", "gate"} => q.seq = 2 * k + 1
      /\ q.pc = "turn" => q.seq = 2 * k
      /\ q.pc \in {"turn", "gate"} => k > 0
      /\ over => q.seq = 2 * k + 2
  BY DEF RunInv, PlaceIsNumber, PlaceOf
<1>3. /\ Sequences \subseteq Nat
      /\ \A i \in Nat : i < q.seq => i \in Sequences
  BY <1>1, <1>2, TaskRunAssumption DEF Sequences
<1>4. q.seq > 0
  BY <1>1, <1>2
<1>5. \A i \in Sequences :
        /\ rows[i] # NoRow <=> i < q.seq
        /\ i < q.seq => rows[i].kind = OwnKind(q, i)
        /\ i < q.seq /\ i = 2 * k /\ i > 0 => rows[i].status = q.last
  BY DEF RunInv, RowsAreOwn
<1>6. \A i \in Sequences : rows[i].kind \in Kinds <=> i < q.seq
  BY <1>5 DEF RunInv, TypeOK, Row, NoRow, Kinds
<1> HIDE DEF q, k, over
<1>7. Having({"created"}) = {0}
  BY <1>3, <1>4, <1>5, <1>6 DEF Having, OwnKind, Kinds
<1>8. Max(Having({"created"})) = 0
  BY <1>3, <1>4, <1>7, MaxIs
<1>9. Having(Kinds) = {i \in Nat : i < q.seq}
  BY <1>3, <1>6 DEF Having
<1>10. Max(Having(Kinds)) = q.seq - 1
  <2>1. q.seq - 1 \in Having(Kinds) /\ \A i \in Having(Kinds) : i <= q.seq - 1
    BY <1>1, <1>4, <1>9
  <2> QED
    BY <2>1, MaxIs DEF Having
<1>11. Having({"started"}) = {i \in Nat : i % 2 = 1 /\ i < 2 * k + 1}
  <2>1. ASSUME NEW i \in Sequences
        PROVE  rows[i].kind = "started" <=> i % 2 = 1 /\ i < 2 * k + 1
    <3>1. rows[i].kind = "started" <=> i < q.seq /\ OwnKind(q, i) = "started"
      BY <1>5, <1>6 DEF Kinds
    <3>2. OwnKind(q, i) = "started" <=> i # 0 /\ i # 2 * k + 1 /\ i % 2 # 0
      BY DEF OwnKind, k
    <3> QED
      BY <1>1, <1>2, <1>3, <3>1, <3>2 DEF over
  <2>2. \A i \in Nat : i < 2 * k + 1 => i < q.seq \/ i = 2 * k
    BY <1>1, <1>2 DEF over
  <2>3. \A i \in Nat : i % 2 = 1 /\ i < 2 * k + 1 => i \in Sequences
    BY <1>1, <1>3, <2>2
  <2> QED
    BY <1>3, <2>1, <2>3 DEF Having
<1>12. Cardinality(Having({"started"})) = k
  BY <1>1, <1>11, OddNumbers
<1>13. {i \in Having({"started"}) : i > 0} = {} <=> k = 0
  <2>1. k > 0 => 1 \in Having({"started"})
    BY <1>1, <1>11
  <2>2. k = 0 => Having({"started"}) = {}
    BY <1>11
  <2> QED
    BY <1>1, <2>1, <2>2
<1>14. {i \in Having({"run_completed", "run_failed"}) : i > 0} # {} <=> over
  <2>1. ASSUME NEW i \in Sequences, rows[i].kind \in {"run_completed", "run_failed"}
        PROVE  over
    <3>1. i < q.seq /\ OwnKind(q, i) \in {"run_completed", "run_failed"}
      BY <1>5, <1>6, <2>1 DEF Kinds
    <3>2. i = 2 * k + 1
      BY <3>1 DEF OwnKind, k
    <3> QED
      BY <1>1, <1>2, <3>1, <3>2 DEF over
  <2>2. ASSUME over
        PROVE  2 * k + 1 \in Having({"run_completed", "run_failed"}) /\ 2 * k + 1 > 0
    <3>1. 2 * k + 1 \in Sequences /\ 2 * k + 1 < q.seq /\ 2 * k + 1 > 0
      BY <1>1, <1>2, <1>3, <2>2
    <3>2. OwnKind(q, 2 * k + 1) \in {"run_completed", "run_failed"}
      BY <3>1 DEF OwnKind, k
    <3> QED
      BY <1>5, <3>1, <3>2 DEF Having
  <2> QED
    BY <2>1, <2>2 DEF Having
<1>15. StatusAfter(rows[q.seq - 1]) = Own(p).status
  <2> DEFINE m == q.seq - 1
  <2>1. m \in Sequences /\ m < q.seq /\ m \in Nat
    BY <1>1, <1>3, <1>4
  <2>2. rows[m].kind = OwnKind(q, m) /\ (m = 2 * k /\ m > 0 => rows[m].status = q.last)
    BY <1>5, <2>1
  <2>3. CASE over
    <3>1. m = 2 * k + 1 /\ m # 0
      BY <1>1, <1>2, <2>3
    <3>2. StatusAfter(rows[m]) = IF q.succeeded THEN "completed" ELSE "failed"
      BY <2>2, <3>1 DEF OwnKind, StatusAfter, k
    <3>3. Own(p).status = IF q.succeeded THEN "completed" ELSE "failed"
      BY <2>3 DEF Own, q, over
    <3> QED
      BY <3>2, <3>3
  <2>4. CASE q.pc = "turn"
    <3>1. m = 2 * k - 1 /\ m # 0 /\ m # 2 * k + 1 /\ m % 2 = 1
      BY <1>1, <1>2, <2>4
    <3>2. StatusAfter(rows[m]) = "running"
      BY <2>2, <3>1 DEF OwnKind, StatusAfter, k
    <3>3. Own(p).status = "running"
      BY <2>4 DEF Own, q
    <3> QED
      BY <3>2, <3>3
  <2>5. CASE q.pc \in {"attempt", "gate"} /\ k = 0
    <3>1. m = 0
      BY <1>1, <1>2, <2>5
    <3>2. StatusAfter(rows[m]) = "created"
      BY <2>2, <3>1 DEF OwnKind, StatusAfter
    <3>3. Own(p).status = "created"
      BY <2>5 DEF Own, k, q
    <3> QED
      BY <3>2, <3>3
  <2>6. CASE q.pc \in {"attempt", "gate"} /\ k # 0
    <3>1. m = 2 * k /\ m > 0 /\ m # 2 * k + 1 /\ m % 2 = 0
      BY <1>1, <1>2, <2>6
    <3>2. StatusAfter(rows[m]) = q.last
      BY <2>2, <3>1 DEF OwnKind, StatusAfter, k
    <3>3. Own(p).status = q.last
      BY <2>6 DEF Own, k, q
    <3> QED
      BY <3>2, <3>3
  <2> QED
    BY <1>1, <2>3, <2>4, <2>5, <2>6 DEF over
<1>16. Projection = [status |-> StatusAfter(rows[q.seq - 1]), attempts |-> k, finished |-> over]
  <2>1. (IF {i \in Having({"started"}) : i > 0} = {} THEN 0
         ELSE Cardinality(Having({"started"}))) = k
    BY <1>12, <1>13
  <2>2. over \in BOOLEAN
    BY DEF over
  <2> QED
    BY <1>7, <1>8, <1>10, <1>14, <2>1, <2>2 DEF Projection
<1>17. Own(p).attempts = k /\ Own(p).finished = over
  BY DEF Own, k, q, over
<1> QED
  BY <1>15, <1>16, <1>17 DEF Own

\* A run killed anywhere leaves the ledger of what it had done, for any number
\* of processes and attempts.
THEOREM LedgerAlwaysTellsRun == Spec => []LedgerTellsRun
<1> QED
  BY FoldIsRun, RunInit, RunStep, PTL DEF Spec

-----------------------------------------------------------------------------
(* Chat: the frames under way, and the types                               *)

\* Responses and frames have the shape of a frame.
LEMMA FramesAreFrames ==
  /\ Delta \in Frame
  /\ \A kind \in Replies : Response(kind) \in Frame
  /\ \A n \in Nat, q \in Questions \cup {NoQuestion} : Shows(n, q) \in Frame
BY DEF Delta, Response, Shows, Frame, Replies, NoTurn

\* A way to the chat with one frame more.
LEMMA FrameAdded ==
  ASSUME NEW s \in Seq(Frame), NEW e \in Frame, NEW b, b = Append(s, e)
  PROVE  /\ b \in Seq(Frame)
         /\ \A i \in DOMAIN b : \/ i \in DOMAIN s /\ b[i] = s[i]
                                \/ i = Len(s) + 1 /\ b[i] = e
<1>1. /\ b \in Seq(Frame) /\ Len(s) \in Nat /\ DOMAIN s = 1 .. Len(s)
      /\ DOMAIN b = 1 .. Len(b) /\ Len(b) = Len(s) + 1 /\ b[Len(s) + 1] = e
      /\ \A i \in 1 .. Len(s) : b[i] = s[i]
  BY AppendProperties, LenProperties
<1> QED BY <1>1

\* What a frame more changes of the frames that are under way.
LEMMA FramesGrow ==
  ASSUME NEW s \in Seq(Frame), NEW e \in Frame, NEW b, b = Append(s, e)
  PROVE  /\ b \in Seq(Frame)
         /\ \A kinds : NoneOf(s, kinds) /\ e.kind \notin kinds => NoneOf(b, kinds)
         /\ \A kinds : NoneOf(s, kinds) => OneOf(b, kinds)
         /\ \A kinds : OneOf(s, kinds) /\ e.kind \notin kinds => OneOf(b, kinds)
         /\ \A n : ShowOnly(s, n) /\ e.asked = NoQuestion /\ (e.kind \in Ends => e.root = n)
                     => ShowOnly(b, n)
<1>1. /\ b \in Seq(Frame)
      /\ \A i \in DOMAIN b : \/ i \in DOMAIN s /\ b[i] = s[i]
                             \/ i = Len(s) + 1 /\ b[i] = e
  BY FrameAdded
<1>2. ASSUME NEW kinds, NoneOf(s, kinds), e.kind \notin kinds PROVE NoneOf(b, kinds)
  BY <1>1, <1>2 DEF NoneOf
<1>3. ASSUME NEW kinds, NoneOf(s, kinds) PROVE OneOf(b, kinds)
  <2>1. \A i \in DOMAIN b : b[i].kind \in kinds => i = Len(s) + 1
    BY <1>1, <1>3 DEF NoneOf
  <2> QED BY <2>1 DEF OneOf
<1>4. ASSUME NEW kinds, OneOf(s, kinds), e.kind \notin kinds PROVE OneOf(b, kinds)
  <2>1. \A i \in DOMAIN b : b[i].kind \in kinds => i \in DOMAIN s /\ s[i].kind \in kinds
    BY <1>1, <1>4
  <2> QED BY <1>4, <2>1 DEF OneOf
<1>5. ASSUME NEW n, ShowOnly(s, n), e.asked = NoQuestion, e.kind \in Ends => e.root = n
      PROVE  ShowOnly(b, n)
  BY <1>1, <1>5 DEF ShowOnly
<1> QED BY <1>1, <1>2, <1>3, <1>4, <1>5

\* What taking the first frame changes.
LEMMA FramesShrink ==
  ASSUME NEW s \in Seq(Frame), s # <<>>, NEW e, e = Head(s), NEW b, b = Tail(s)
  PROVE  /\ e \in Frame /\ b \in Seq(Frame)
         /\ \A kinds : NoneOf(s, kinds) => NoneOf(b, kinds) /\ e.kind \notin kinds
         /\ \A kinds : OneOf(s, kinds) => OneOf(b, kinds)
         /\ \A kinds : OneOf(s, kinds) /\ e.kind \in kinds => NoneOf(b, kinds)
         /\ \A n : ShowOnly(s, n) => /\ ShowOnly(b, n)
                                     /\ e.asked = NoQuestion /\ (e.kind \in Ends => e.root = n)
<1>1. PICK m \in Nat : /\ DOMAIN s = 1 .. m + 1 /\ e = s[1] /\ b \in Seq(Frame) /\ DOMAIN b = 1 .. m
                       /\ \A i \in 1 .. m : b[i] = s[i + 1]
  <2>1. /\ Len(s) \in Nat /\ Len(s) # 0 /\ DOMAIN s = 1 .. Len(s)
        /\ e = s[1] /\ b \in Seq(Frame) /\ Len(b) = Len(s) - 1 /\ DOMAIN b = 1 .. Len(b)
        /\ \A i \in 1 .. Len(b) : b[i] = s[i + 1]
    BY HeadTailProperties, LenProperties, EmptySeq
  <2>2. PICK m \in Nat : Len(s) = m + 1
    <3>1. Len(s) - 1 \in Nat /\ Len(s) = (Len(s) - 1) + 1
      BY <2>1
    <3> QED BY <3>1
  <2>3. Len(b) = m
    BY <2>1, <2>2
  <2> QED BY <2>1, <2>2, <2>3
<1>2. \A i \in DOMAIN b : \E j \in DOMAIN s : j = i + 1 /\ j # 1 /\ b[i] = s[j]
  <2> TAKE i \in DOMAIN b
  <2>1. i + 1 \in DOMAIN s /\ i + 1 # 1 /\ b[i] = s[i + 1]
    BY <1>1
  <2> QED BY <2>1
<1>3. 1 \in DOMAIN s /\ e = s[1]
  BY <1>1
<1>4. e \in Frame
  BY <1>1, <1>3, ElementOfSeq
<1>5. ASSUME NEW kinds, NoneOf(s, kinds) PROVE NoneOf(b, kinds) /\ e.kind \notin kinds
  BY <1>2, <1>3, <1>5 DEF NoneOf
<1>6. ASSUME NEW kinds, OneOf(s, kinds) PROVE OneOf(b, kinds)
  <2> SUFFICES ASSUME NEW i \in DOMAIN b, NEW j \in DOMAIN b, b[i].kind \in kinds, b[j].kind \in kinds
               PROVE  i = j
    BY DEF OneOf
  <2>1. PICK x \in DOMAIN s : x = i + 1 /\ b[i] = s[x]
    BY <1>2
  <2>2. PICK y \in DOMAIN s : y = j + 1 /\ b[j] = s[y]
    BY <1>2
  <2>3. x = y
    BY <1>6, <2>1, <2>2 DEF OneOf
  <2>4. i \in Nat /\ j \in Nat
    BY <1>1
  <2> QED BY <2>1, <2>2, <2>3, <2>4
<1>7. ASSUME NEW kinds, OneOf(s, kinds), e.kind \in kinds PROVE NoneOf(b, kinds)
  BY <1>2, <1>3, <1>7 DEF OneOf, NoneOf
<1>8. ASSUME NEW n, ShowOnly(s, n)
      PROVE  ShowOnly(b, n) /\ e.asked = NoQuestion /\ (e.kind \in Ends => e.root = n)
  BY <1>2, <1>3, <1>8 DEF ShowOnly
<1> QED BY <1>1, <1>4, <1>5, <1>6, <1>7, <1>8

\* Without an end on the way it does not matter whose end would be shown.
LEMMA NoEndShowsAny ==
  ASSUME NEW s, NEW m, NEW n, ShowOnly(s, m), NoneOf(s, Ends)
  PROVE  ShowOnly(s, n)
BY DEF ShowOnly, NoneOf

\* A frame reaches a chat's channel, or is not for it.
LEMMA FanOutAdds ==
  ASSUME ChatTypeOK, NEW e \in Frame, FanOut(e)
  PROVE  /\ channel' \in [Chats -> Seq(Frame)] /\ open' \in [Chats -> BOOLEAN]
         /\ \A c \in Chats : channel'[c] = channel[c] \/ channel'[c] = Append(channel[c], e)
<1>1. \A c \in Chats : channel[c] \in Seq(Frame)
  BY DEF ChatTypeOK
<1>2. \A c \in Chats : Append(channel[c], e) \in Seq(Frame)
  BY <1>1, AppendProperties
<1>3. \A c \in Chats : channel'[c] = channel[c] \/ channel'[c] = Append(channel[c], e)
  BY DEF FanOut
<1>4. channel' \in [Chats -> Seq(Frame)]
  BY <1>1, <1>2 DEF FanOut
<1>5. \A c \in Chats : open'[c] \in BOOLEAN
  BY DEF FanOut, ChatTypeOK
<1>6. open' \in [Chats -> BOOLEAN]
  BY <1>5 DEF FanOut
<1> QED BY <1>3, <1>4, <1>6

\* The first state is typed.
LEMMA ChatTypeInit == ChatInit => ChatTypeOK
<1> SUFFICES ASSUME ChatInit PROVE ChatTypeOK
  OBVIOUS
<1>1. <<>> \in Seq(Frame)
  OBVIOUS
<1>2. 0 \in 0 .. MaxTexts /\ 0 \in 0 .. MaxAsks
  BY ChatAssumption
<1> QED BY <1>1, <1>2 DEF ChatInit, ChatTypeOK, NoRequest, NoEntry, NoTurn, Entry, Request, ChatState, Places

\* What the table holds is a question or none.
LEMMA TableIsQuestion == ChatTypeOK => InTable \in Questions \cup {NoQuestion}
BY ChatAssumption DEF ChatTypeOK, InTable, Questions, NoTurn, Entry

\* Publishing the table keeps the types.
LEMMA PublishingIsTyped ==
  ASSUME ChatTypeOK, PublishTable
  PROVE  /\ channel' \in [Chats -> Seq(Frame)] /\ open' \in [Chats -> BOOLEAN]
         /\ pending' \in Questions \cup {NoQuestion}
<1>1. Shows(root, InTable) \in Frame
  BY TableIsQuestion, FramesAreFrames DEF ChatTypeOK
<1> QED BY <1>1, FanOutAdds, TableIsQuestion DEF PublishTable

\* A request that goes to its next stage stays a request.
LEMMA StageChanges ==
  ASSUME request \in [Chats -> Request], NEW c \in Chats,
         NEW s \in {"none", "sent", "publishes", "ok", "busy"}
  PROVE  [request EXCEPT ![c].stage = s] \in [Chats -> Request]
<1>1. [request[c] EXCEPT !.stage = s] \in Request
  BY DEF Request
<1> QED BY <1>1

\* The host's steps for one chat keep the types.
LEMMA ServingIsTyped ==
  ASSUME ChatTypeOK, NEW c \in Chats, Serve(c)
  PROVE  ChatTypeOK'
<1>1. CASE StartTurn(c)
  <2>1. turns + 1 \in Nat /\ turns + 1 # 0
    BY DEF ChatTypeOK
  <2>2. 0 \in 0 .. MaxTexts /\ 0 \in 0 .. MaxAsks
    BY ChatAssumption
  <2>3. CASE turn = NoEntry
    <3>1. /\ turns' = turns + 1
          /\ turn' = [NoEntry EXCEPT !.id = turns + 1, !.stage = "runs"]
          /\ request' = [request EXCEPT ![c].stage = "ok"]
          /\ chat' = [chat EXCEPT ![c].line = turns + 1]
          /\ UNCHANGED <<channel, wire, open, root, pending, history>>
      BY <1>1, <2>3 DEF StartTurn
    <3>2. turn' = [id |-> turns + 1, stage |-> "runs", texts |-> 0, asks |-> 0]
      BY <3>1 DEF NoEntry
    <3>3. /\ turn' \in Entry
          /\ turn'.stage = "runs" /\ turn'.id = turns + 1
      BY <2>1, <2>2, <3>2 DEF Entry
    <3>4. chat' \in [Chats -> ChatState]
      <4>1. [chat[c] EXCEPT !.line = turns + 1] \in ChatState
        BY <2>1 DEF ChatTypeOK, ChatState
      <4> QED BY <3>1, <4>1 DEF ChatTypeOK
    <3>5. request' \in [Chats -> Request]
      BY <3>1, StageChanges DEF ChatTypeOK
    <3> QED BY <2>1, <3>1, <3>3, <3>4, <3>5 DEF ChatTypeOK, history, NoTurn
  <2>4. CASE turn # NoEntry
    <3>1. request' = [request EXCEPT ![c].stage = "busy"]
          /\ UNCHANGED <<turns, turn, chat, channel, wire, open, root, pending, history>>
      BY <1>1, <2>4 DEF StartTurn
    <3>2. request' \in [Chats -> Request]
      BY <3>1, StageChanges DEF ChatTypeOK
    <3> QED BY <3>1, <3>2 DEF ChatTypeOK, history
  <2> QED BY <2>3, <2>4
<1>2. CASE TakeAnswer(c)
  <2>1. request' \in [Chats -> Request]
    <3>1. \/ request' = [request EXCEPT ![c].stage = "publishes"]
          \/ request' = [request EXCEPT ![c].stage = "busy"]
      BY <1>2 DEF TakeAnswer
    <3>2. /\ [request EXCEPT ![c].stage = "publishes"] \in [Chats -> Request]
          /\ [request EXCEPT ![c].stage = "busy"] \in [Chats -> Request]
      BY StageChanges DEF ChatTypeOK
    <3> QED BY <3>1, <3>2
  <2>2. /\ turn' = turn \/ (turn.stage = "waits" /\ turn' = [turn EXCEPT !.stage = "runs"])
        /\ UNCHANGED <<chat, channel, wire, open, turns, root, pending, history>>
    BY <1>2 DEF TakeAnswer
  <2>3. /\ turn' \in Entry
        /\ turn'.stage # "none" => turn'.id # NoTurn
        /\ turn'.stage \in {"publishes", "waits"} => turn'.asks # 0
    BY <2>2 DEF ChatTypeOK, Entry
  <2> QED BY <2>1, <2>2, <2>3 DEF ChatTypeOK, history
<1>3. CASE PublishAnswered(c)
  <2>1. request' \in [Chats -> Request]
    BY <1>3, StageChanges DEF PublishAnswered, ChatTypeOK
  <2>2. PublishTable /\ UNCHANGED <<chat, wire, turns, turn, root, history>>
    BY <1>3 DEF PublishAnswered
  <2> QED BY <2>1, <2>2, PublishingIsTyped DEF ChatTypeOK, history
<1>4. CASE Respond(c)
  <2>1. /\ request[c].stage \in Replies
        /\ wire' = [wire EXCEPT ![c] = Append(@, Response(request[c].stage))]
        /\ request' = [request EXCEPT ![c] = NoRequest]
        /\ UNCHANGED <<chat, channel, open, turns, turn, root, pending, history>>
    BY <1>4 DEF Respond, Replies, hostVars
  <2>2. Append(wire[c], Response(request[c].stage)) \in Seq(Frame)
    BY <2>1, FramesAreFrames, AppendProperties DEF ChatTypeOK
  <2>3. wire' \in [Chats -> Seq(Frame)]
    BY <2>1, <2>2 DEF ChatTypeOK
  <2>4. NoRequest \in Request
    BY DEF NoRequest, Request
  <2>5. request' \in [Chats -> Request]
    BY <2>1, <2>4 DEF ChatTypeOK
  <2> QED BY <2>1, <2>3, <2>5 DEF ChatTypeOK, history
<1> QED BY <1>1, <1>2, <1>3, <1>4 DEF Serve

\* The turn's own steps keep the types.
LEMMA TurnIsTyped ==
  ASSUME ChatTypeOK, TurnStep
  PROVE  ChatTypeOK'
<1>1. /\ MaxTexts \in Nat /\ MaxAsks \in Nat /\ turn \in Entry
      /\ turn.id \in Nat /\ turn.texts \in 0 .. MaxTexts /\ turn.asks \in 0 .. MaxAsks
  BY ChatAssumption DEF ChatTypeOK, Entry
<1>2. CASE Text
  <2>1. /\ turn.texts < MaxTexts /\ turn' = [turn EXCEPT !.texts = @ + 1] /\ FanOut(Delta)
        /\ UNCHANGED <<chat, request, wire, turns, root, pending, history>>
    BY <1>2 DEF Text
  <2>2. turn.texts + 1 \in 0 .. MaxTexts
    BY <1>1, <2>1
  <2>3. turn' \in Entry /\ turn'.stage = turn.stage /\ turn'.id = turn.id /\ turn'.asks = turn.asks
    BY <1>1, <2>1, <2>2 DEF Entry
  <2> QED BY <2>1, <2>3, FramesAreFrames, FanOutAdds DEF ChatTypeOK, history
<1>3. CASE Ask
  <2>1. /\ turn.asks < MaxAsks /\ turn' = [turn EXCEPT !.stage = "publishes", !.asks = @ + 1]
        /\ asked' = TRUE /\ turn.stage = "runs"
        /\ UNCHANGED <<chat, request, channel, wire, open, turns, root, pending, shown, speakers, gaveUp>>
    BY <1>3 DEF Ask
  <2>2. turn.asks + 1 \in 0 .. MaxAsks /\ turn.asks + 1 # 0
    BY <1>1, <2>1
  <2>3. turn' \in Entry /\ turn'.stage = "publishes" /\ turn'.id = turn.id /\ turn'.asks # 0
    BY <1>1, <2>1, <2>2 DEF Entry
  <2> QED BY <2>1, <2>3 DEF ChatTypeOK
<1>4. CASE PublishAsked
  <2>1. /\ turn.stage = "publishes" /\ PublishTable /\ turn' = [turn EXCEPT !.stage = "waits"]
        /\ UNCHANGED <<chat, request, wire, turns, root, history>>
    BY <1>4 DEF PublishAsked
  <2>2. turn' \in Entry /\ turn'.stage = "waits" /\ turn'.id = turn.id /\ turn'.asks = turn.asks
    BY <1>1, <2>1 DEF Entry
  <2> QED BY <2>1, <2>2, PublishingIsTyped DEF ChatTypeOK, history
<1>5. CASE End
  <2>1. /\ turn.stage = "runs" /\ root' = turn.id /\ FanOut(Shows(turn.id, pending))
        /\ turn' = [turn EXCEPT !.stage = "ended"]
        /\ UNCHANGED <<chat, request, wire, turns, pending, history>>
    BY <1>5 DEF End
  <2>2. turn' \in Entry /\ turn'.stage = "ended" /\ turn'.id = turn.id
    BY <1>1, <2>1 DEF Entry
  <2>3. PICK e \in Frame : e = Shows(turn.id, pending)
    BY <1>1, FramesAreFrames DEF ChatTypeOK
  <2>4. channel' \in [Chats -> Seq(Frame)] /\ open' \in [Chats -> BOOLEAN]
    BY <2>1, <2>3, FanOutAdds
  <2> QED BY <1>1, <2>1, <2>2, <2>4 DEF ChatTypeOK, history
<1>6. CASE EndUntold
  <2>1. /\ turn.stage = "runs" /\ turn' = [turn EXCEPT !.stage = "ended"]
        /\ UNCHANGED <<chat, request, channel, wire, open, turns, root, pending, history>>
    BY <1>6 DEF EndUntold
  <2>2. turn' \in Entry /\ turn'.stage = "ended" /\ turn'.id = turn.id
    BY <1>1, <2>1 DEF Entry
  <2> QED BY <2>1, <2>2 DEF ChatTypeOK, history
<1>7. CASE Release
  <2>1. /\ turn' = NoEntry
        /\ UNCHANGED <<chat, request, channel, wire, open, turns, root, pending, history>>
    BY <1>7 DEF Release
  <2>2. turn' \in Entry /\ turn'.stage = "none"
    BY <1>1, <2>1 DEF NoEntry, NoTurn, Entry
  <2> QED BY <2>1, <2>2 DEF ChatTypeOK, history
<1> QED BY <1>2, <1>3, <1>4, <1>5, <1>6, <1>7 DEF TurnStep

\* A chat's own steps keep the types.
LEMMA ChattingIsTyped ==
  ASSUME ChatTypeOK, NEW c \in Chats, Line(c) \/ Forward(c) \/ ChatStep(c) \/ GiveUp(c)
  PROVE  ChatTypeOK'
<1>1. chat[c] \in ChatState /\ wire[c] \in Seq(Frame) /\ channel[c] \in Seq(Frame)
  BY DEF ChatTypeOK
<1>2. wire[c] # <<>> => Head(wire[c]) \in Frame /\ Tail(wire[c]) \in Seq(Frame)
  BY <1>1, HeadTailProperties
<1>3. CASE Line(c)
  <2>1. /\ chat' = [chat EXCEPT ![c] = [@ EXCEPT !.pc = "starts", !.line = NoTurn]]
        /\ request' = [request EXCEPT ![c] = [NoRequest EXCEPT !.op = "turn.start", !.stage = "sent"]]
        /\ speakers' = speakers \cup {c}
        /\ UNCHANGED <<channel, wire, open, turns, turn, root, pending, shown, gaveUp, asked>>
    BY <1>3 DEF Line, hostVars
  <2>2. [chat[c] EXCEPT !.pc = "starts", !.line = NoTurn] \in ChatState
    BY <1>1 DEF ChatState, Places, NoTurn
  <2>3. [NoRequest EXCEPT !.op = "turn.start", !.stage = "sent"] \in Request
    BY DEF NoRequest, Request
  <2>4. chat' \in [Chats -> ChatState] /\ request' \in [Chats -> Request]
    BY <2>1, <2>2, <2>3 DEF ChatTypeOK
  <2> QED BY <2>1, <2>4 DEF ChatTypeOK
<1>4. CASE Forward(c)
  <2>1. /\ channel[c] # <<>>
        /\ wire' = [wire EXCEPT ![c] = Append(@, Head(channel[c]))]
        /\ channel' = [channel EXCEPT ![c] = Tail(@)]
        /\ UNCHANGED <<chat, request, open, turns, turn, root, pending, history>>
    BY <1>4 DEF Forward, hostVars
  <2>2. Head(channel[c]) \in Frame /\ Tail(channel[c]) \in Seq(Frame)
    BY <1>1, <2>1, HeadTailProperties
  <2>3. Append(wire[c], Head(channel[c])) \in Seq(Frame)
    BY <1>1, <2>2, AppendProperties
  <2>4. channel' \in [Chats -> Seq(Frame)] /\ wire' \in [Chats -> Seq(Frame)]
    BY <2>1, <2>2, <2>3 DEF ChatTypeOK
  <2> QED BY <2>1, <2>4 DEF ChatTypeOK, history
<1>5. CASE LayAside(c)
  <2>1. /\ wire[c] # <<>> /\ wire' = [wire EXCEPT ![c] = Tail(@)]
        /\ UNCHANGED <<chat, request, channel, open, turns, turn, root, pending, history>>
    BY <1>5 DEF LayAside, hostVars
  <2>2. wire' \in [Chats -> Seq(Frame)]
    BY <1>2, <2>1 DEF ChatTypeOK
  <2> QED BY <2>1, <2>2 DEF ChatTypeOK, history
<1>6. CASE TakeResponse(c)
  <2>1. /\ wire[c] # <<>> /\ wire' = [wire EXCEPT ![c] = Tail(@)]
        /\ UNCHANGED <<request, channel, open, turns, turn, root, pending, history>>
    BY <1>6 DEF TakeResponse, hostVars
  <2>2. PICK pc \in {"prompt", "follows"} : chat' = [chat EXCEPT ![c].pc = pc]
    BY <1>6 DEF TakeResponse
  <2>3. wire' \in [Chats -> Seq(Frame)]
    BY <1>2, <2>1 DEF ChatTypeOK
  <2>4. [chat[c] EXCEPT !.pc = pc] \in ChatState
    BY <1>1 DEF ChatState, Places
  <2>5. chat' \in [Chats -> ChatState]
    BY <2>2, <2>4 DEF ChatTypeOK
  <2> QED BY <2>1, <2>3, <2>5 DEF ChatTypeOK, history
<1>7. CASE Follow(c)
  <2>1. PICK frame \in Frame, pc \in {"prompt", "follows", "asks"} :
          /\ wire[c] # <<>> /\ wire' = [wire EXCEPT ![c] = Tail(@)]
          /\ chat' = [chat EXCEPT ![c] = [@ EXCEPT !.pc = pc,
                        !.question = IF pc = "asks" THEN frame.asked ELSE NoQuestion]]
          /\ shown' = IF pc = "prompt" THEN [shown EXCEPT ![c] = <<chat[c].line, frame.root>>] ELSE shown
          /\ UNCHANGED <<request, channel, open, turns, turn, root, pending, speakers, gaveUp, asked>>
    BY <1>2, <1>7 DEF Follow, hostVars
  <2>2. frame.asked \in Questions \cup {NoQuestion} /\ frame.root \in Nat /\ chat[c].line \in Nat
    BY <1>1 DEF Frame, ChatState
  <2>3. wire' \in [Chats -> Seq(Frame)]
    BY <1>2, <2>1 DEF ChatTypeOK
  <2>4. PICK q \in Questions \cup {NoQuestion} : q = IF pc = "asks" THEN frame.asked ELSE NoQuestion
    BY <2>2
  <2>5. [chat[c] EXCEPT !.pc = pc, !.question = q] \in ChatState
    BY <1>1 DEF ChatState, Places
  <2>6. chat' \in [Chats -> ChatState]
    BY <2>1, <2>4, <2>5 DEF ChatTypeOK
  <2>7. shown' \in [Chats -> {<<>>} \cup (Nat \X Nat)]
    BY <2>1, <2>2 DEF ChatTypeOK
  <2> QED BY <2>1, <2>3, <2>6, <2>7 DEF ChatTypeOK
<1>8. CASE Answer(c)
  <2>1. /\ chat' = [chat EXCEPT ![c] = [@ EXCEPT !.pc = "answers", !.question = NoQuestion]]
        /\ request' = [request EXCEPT ![c] =
                         [op |-> "interaction.answer", stage |-> "sent", question |-> chat[c].question]]
        /\ UNCHANGED <<channel, wire, open, turns, turn, root, pending, history>>
    BY <1>8 DEF Answer, hostVars
  <2>2. [chat[c] EXCEPT !.pc = "answers", !.question = NoQuestion] \in ChatState
    BY <1>1 DEF ChatState, Places
  <2>3. [op |-> "interaction.answer", stage |-> "sent", question |-> chat[c].question] \in Request
    BY <1>1 DEF ChatState, Request
  <2>4. chat' \in [Chats -> ChatState] /\ request' \in [Chats -> Request]
    BY <2>1, <2>2, <2>3 DEF ChatTypeOK
  <2> QED BY <2>1, <2>4 DEF ChatTypeOK, history
<1>9. CASE GiveUp(c)
  <2>1. /\ chat' = [chat EXCEPT ![c].pc = "prompt"] /\ gaveUp' = gaveUp \cup {c}
        /\ UNCHANGED <<request, channel, wire, open, turns, turn, root, pending, shown, speakers, asked>>
    BY <1>9 DEF GiveUp, hostVars
  <2>2. [chat[c] EXCEPT !.pc = "prompt"] \in ChatState
    BY <1>1 DEF ChatState, Places
  <2>3. chat' \in [Chats -> ChatState]
    BY <2>1, <2>2 DEF ChatTypeOK
  <2> QED BY <2>1, <2>3 DEF ChatTypeOK
<1> QED BY <1>3, <1>4, <1>5, <1>6, <1>7, <1>8, <1>9 DEF ChatStep

\* Every step keeps the types.
LEMMA ChatTypeNext == ChatTypeOK /\ [ChatNext]_chatVars => ChatTypeOK'
<1> SUFFICES ASSUME ChatTypeOK, [ChatNext]_chatVars PROVE ChatTypeOK'
  OBVIOUS
<1>1. CASE UNCHANGED chatVars
  BY <1>1 DEF chatVars, hostVars, history, ChatTypeOK
<1>2. CASE TurnStep
  BY <1>2, TurnIsTyped
<1>3. CASE \E c \in Chats : Line(c) \/ Serve(c) \/ Forward(c) \/ ChatStep(c) \/ GiveUp(c)
  BY <1>3, ServingIsTyped, ChattingIsTyped
<1> QED BY <1>1, <1>2, <1>3 DEF ChatNext

\* For any number of chats and turns, the chats, the frames under way and what the host
\* holds of the session are of their types (meepo-cli/src/main.rs, run_chat).
THEOREM ChatTypeCorrect == ChatSpec => []ChatTypeOK
<1> QED BY ChatTypeInit, ChatTypeNext, PTL DEF ChatSpec

-----------------------------------------------------------------------------
(* Chat: a chat that is alone                                              *)

\* A chat that is alone now was alone before, and so was what it asked.
LEMMA WasAlone ==
  ASSUME NEW c \in Chats, [ChatNext]_chatVars, ~asked', Lone(c)'
  PROVE  ~asked /\ Lone(c)
<1>1. (asked => asked') /\ speakers \subseteq speakers' /\ gaveUp \subseteq gaveUp'
  <2>1. CASE UNCHANGED chatVars
    BY <2>1 DEF chatVars, history
  <2>2. CASE TurnStep
    BY <2>2 DEF TurnStep, Text, Ask, PublishAsked, End, EndUntold, Release, history
  <2>3. ASSUME NEW d \in Chats, Line(d) \/ Serve(d) \/ Forward(d) \/ ChatStep(d) \/ GiveUp(d)
        PROVE  (asked => asked') /\ speakers \subseteq speakers' /\ gaveUp \subseteq gaveUp'
    BY <2>3 DEF Line, Serve, StartTurn, TakeAnswer, PublishAnswered, Respond, Forward, ChatStep, LayAside,
       TakeResponse, Follow, Answer, GiveUp, history
  <2> QED BY <2>1, <2>2, <2>3 DEF ChatNext
<1> QED BY <1>1 DEF Lone

\* What LoneInv says of a chat depends on these alone.
LEMMA LoneRests ==
  ASSUME NEW c \in Chats, LoneInv(c),
         UNCHANGED <<chat, request, turn, pending, shown>>, wire'[c] = wire[c], channel'[c] = channel[c]
  PROVE  LoneInv(c)'
BY DEF LoneInv, NobodyElse, Underway, NotTaken, NoEnd

\* A frame that shows no end reaches the chat's channel while its turn runs.
LEMMA TextKeepsLone ==
  ASSUME ChatTypeOK, NEW c \in Chats, LoneInv(c), Text
  PROVE  LoneInv(c)'
<1>1. /\ turn.stage = "runs" /\ turn' = [turn EXCEPT !.texts = @ + 1] /\ FanOut(Delta)
      /\ UNCHANGED <<chat, request, wire, turns, root, pending, history>>
  BY DEF Text
<1>2. turn'.stage = "runs" /\ turn'.id = turn.id
  BY <1>1 DEF ChatTypeOK, Entry
<1>3. PICK e \in Frame : e = Delta
  BY FramesAreFrames
<1>4. e.kind \notin Ends /\ e.kind \notin Replies /\ e.asked = NoQuestion
  BY <1>3 DEF Delta, Ends, Replies
<1>5. channel[c] \in Seq(Frame)
  BY DEF ChatTypeOK
<1>6. channel'[c] = channel[c] \/ channel'[c] = Append(channel[c], e)
  BY <1>1, <1>3, FanOutAdds
<1>7. PICK b : b = channel'[c]
  OBVIOUS
<1>8. /\ NoneOf(channel[c], Ends) => NoneOf(b, Ends)
      /\ NoneOf(channel[c], Replies) => NoneOf(b, Replies)
      /\ OneOf(channel[c], Ends) => OneOf(b, Ends)
      /\ ShowOnly(channel[c], chat[c].line) => ShowOnly(b, chat[c].line)
  <2>1. CASE b = channel[c]
    BY <2>1
  <2>2. CASE b = Append(channel[c], e)
    BY <1>4, <1>5, <2>2, FramesGrow
  <2> QED BY <1>6, <1>7, <2>1, <2>2
<1>9. UNCHANGED <<chat, request, wire, pending, shown>>
  BY <1>1 DEF history
<1>10. NobodyElse(c)'
  BY <1>1, <1>2, <1>9 DEF LoneInv, NobodyElse
<1>11. Underway(c)'
  BY <1>7, <1>8, <1>9 DEF LoneInv, Underway
<1> QED BY <1>1, <1>2, <1>7, <1>8, <1>9, <1>10, <1>11 DEF LoneInv, NotTaken, NoEnd

\* The turn ends: the one end on its way is the line's.
LEMMA EndKeepsLone ==
  ASSUME ChatTypeOK, NEW c \in Chats, LoneInv(c), End
  PROVE  LoneInv(c)'
<1>1. /\ turn.stage = "runs" /\ turn' = [turn EXCEPT !.stage = "ended"] /\ FanOut(Shows(turn.id, pending))
      /\ UNCHANGED <<chat, request, wire, turns, pending, history>>
  BY DEF End
<1>2. turn'.stage = "ended"
  BY <1>1 DEF ChatTypeOK, Entry
<1>3. pending = NoQuestion /\ turn.id = chat[c].line /\ NoEnd(c) /\ ~NotTaken(c)
  BY <1>1 DEF LoneInv, NobodyElse
<1>4. PICK e \in Frame : e = Shows(turn.id, pending)
  BY <1>3, FramesAreFrames DEF ChatTypeOK, Entry
<1>5. e.kind \notin Replies /\ e.asked = NoQuestion /\ e.root = chat[c].line
  BY <1>3, <1>4 DEF Shows, Replies
<1>6. channel[c] \in Seq(Frame)
  BY DEF ChatTypeOK
<1>7. channel'[c] = channel[c] \/ channel'[c] = Append(channel[c], e)
  BY <1>1, <1>4, FanOutAdds
<1>8. PICK b : b = channel'[c]
  OBVIOUS
<1>9. /\ NoneOf(channel[c], Replies) => NoneOf(b, Replies)
      /\ OneOf(b, Ends)
      /\ ShowOnly(channel[c], chat[c].line) => ShowOnly(b, chat[c].line)
  <2>1. CASE b = channel[c]
    BY <1>3, <2>1 DEF NoEnd, NoneOf, OneOf
  <2>2. CASE b = Append(channel[c], e)
    BY <1>3, <1>5, <1>6, <2>2, FramesGrow DEF NoEnd
  <2> QED BY <1>7, <1>8, <2>1, <2>2
<1>10. UNCHANGED <<chat, request, wire, pending, shown>>
  BY <1>1 DEF history
<1>11. NobodyElse(c)'
  BY <1>2, <1>10 DEF LoneInv, NobodyElse
<1>12. Underway(c)'
  BY <1>3, <1>8, <1>9, <1>10 DEF LoneInv, Underway, NoEnd
<1>13. ~NotTaken(c)'
  BY <1>3, <1>10 DEF NotTaken
<1> QED BY <1>2, <1>10, <1>11, <1>12, <1>13 DEF LoneInv

\* The turn's other steps.
LEMMA TurnKeepsLone ==
  ASSUME ChatTypeOK, NEW c \in Chats, LoneInv(c), TurnStep, ~asked'
  PROVE  LoneInv(c)'
<1>1. CASE Ask
  BY <1>1 DEF Ask
<1>2. CASE PublishAsked
  BY <1>2 DEF PublishAsked, LoneInv, NobodyElse
<1>3. CASE EndUntold \/ Release
  <2>1. turn'.stage \in {"none", "ended"} /\ UNCHANGED <<chat, request, channel, wire, pending, shown>>
    BY <1>3 DEF EndUntold, Release, NoEntry, ChatTypeOK, Entry, history
  <2> QED BY <2>1 DEF LoneInv, NobodyElse, Underway, NotTaken, NoEnd
<1> QED BY <1>1, <1>2, <1>3, TextKeepsLone, EndKeepsLone DEF TurnStep

\* The steps of the others: nobody serves them and they follow nothing; frames may go on to them.
LEMMA OthersKeepLone ==
  ASSUME ChatTypeOK, NEW c \in Chats, LoneInv(c), NEW d \in Chats, d # c, Lone(c)',
         Line(d) \/ Serve(d) \/ Forward(d) \/ ChatStep(d) \/ GiveUp(d)
  PROVE  LoneInv(c)'
<1>1. request[d] = NoRequest /\ chat[d].pc = "prompt"
  BY DEF LoneInv, NobodyElse
<1>2. request[d].op = "none" /\ request[d].stage = "none"
  BY <1>1 DEF NoRequest
<1>3. ~Line(d)
  BY DEF Line, Lone
<1>4. ~Serve(d)
  BY <1>2 DEF Serve, StartTurn, TakeAnswer, PublishAnswered, Respond
<1>5. ~ChatStep(d) /\ ~GiveUp(d)
  BY <1>1 DEF ChatStep, LayAside, TakeResponse, Follow, Answer, GiveUp
<1>6. Forward(d)
  BY <1>3, <1>4, <1>5
<1>7. UNCHANGED <<chat, request, turn, pending, shown>> /\ wire'[c] = wire[c] /\ channel'[c] = channel[c]
  BY <1>6 DEF Forward, hostVars, history, ChatTypeOK
<1> QED BY <1>7, LoneRests

\* The user enters a line: no end is on its way that it could be taken for its own.
LEMMA LineKeepsLone ==
  ASSUME ChatTypeOK, NEW c \in Chats, LoneInv(c), Line(c)
  PROVE  LoneInv(c)'
<1>1. /\ chat[c].pc = "prompt"
      /\ chat' = [chat EXCEPT ![c] = [@ EXCEPT !.pc = "starts", !.line = NoTurn]]
      /\ request' = [request EXCEPT ![c] = [NoRequest EXCEPT !.op = "turn.start", !.stage = "sent"]]
      /\ UNCHANGED <<channel, wire, turn, pending, shown>>
  BY DEF Line, hostVars
<1>2. chat'[c].pc = "starts" /\ \A d \in Chats \ {c} : chat'[d] = chat[d]
  BY <1>1 DEF ChatTypeOK, ChatState
<1>3. /\ request'[c].op = "turn.start" /\ request'[c].stage = "sent"
      /\ \A d \in Chats \ {c} : request'[d] = request[d]
  BY <1>1 DEF ChatTypeOK, NoRequest
<1>4. NotTaken(c) /\ NoEnd(c) /\ turn.stage # "runs" /\ NoneOf(wire[c], Replies)
  BY <1>1 DEF NotTaken, LoneInv, Underway
<1>5. NobodyElse(c)'
  BY <1>1, <1>2, <1>3 DEF LoneInv, NobodyElse
<1>6. Underway(c)'
  <2>1. PICK n : n = chat'[c].line
    OBVIOUS
  <2>2. ShowOnly(wire[c], n) /\ ShowOnly(channel[c], n)
    BY <1>4, NoEndShowsAny DEF LoneInv, Underway, NoEnd
  <2> QED BY <1>1, <1>2, <1>4, <2>1, <2>2 DEF LoneInv, Underway
<1> QED BY <1>1, <1>4, <1>5, <1>6 DEF LoneInv, NoEnd

\* The host takes the line or refuses it.
LEMMA StartKeepsLone ==
  ASSUME ChatTypeOK, NEW c \in Chats, LoneInv(c), StartTurn(c)
  PROVE  LoneInv(c)'
<1>1. /\ request[c].stage = "sent" /\ UNCHANGED <<channel, wire, pending, shown>>
      /\ \/ /\ turn' = [NoEntry EXCEPT !.id = turns + 1, !.stage = "runs"]
            /\ request' = [request EXCEPT ![c].stage = "ok"]
            /\ chat' = [chat EXCEPT ![c].line = turns + 1]
         \/ /\ request' = [request EXCEPT ![c].stage = "busy"]
            /\ UNCHANGED <<turn, chat>>
  BY DEF StartTurn, history
<1>2. NotTaken(c) /\ NoEnd(c) /\ turn.stage # "runs"
  BY <1>1 DEF NotTaken, LoneInv
<1>3. request[c] # NoRequest
  BY <1>1 DEF NoRequest
<1>4. chat[c].pc = "starts" /\ NoneOf(wire[c], Replies)
  BY <1>3 DEF LoneInv, Underway
<1>5. CASE /\ turn' = [NoEntry EXCEPT !.id = turns + 1, !.stage = "runs"]
           /\ request' = [request EXCEPT ![c].stage = "ok"]
           /\ chat' = [chat EXCEPT ![c].line = turns + 1]
  <2>1. turn'.stage = "runs" /\ turn'.id = turns + 1
    BY <1>5 DEF NoEntry
  <2>2. /\ request'[c].op = request[c].op /\ request'[c].stage = "ok"
        /\ \A d \in Chats \ {c} : request'[d] = request[d]
    BY <1>5 DEF ChatTypeOK, Request
  <2>3. /\ chat'[c].pc = "starts" /\ chat'[c].line = turns + 1
        /\ \A d \in Chats \ {c} : chat'[d] = chat[d]
    BY <1>4, <1>5 DEF ChatTypeOK, ChatState
  <2>4. NobodyElse(c)'
    BY <1>1, <2>1, <2>2, <2>3 DEF LoneInv, NobodyElse
  <2>5. Underway(c)'
    <3>1. ShowOnly(wire[c], turns + 1) /\ ShowOnly(channel[c], turns + 1)
      BY <1>2, NoEndShowsAny DEF LoneInv, Underway, NoEnd
    <3> QED BY <1>1, <1>4, <2>3, <3>1 DEF LoneInv, Underway
  <2>6. ~NotTaken(c)'
    BY <1>1, <1>4, <2>2, <2>3 DEF NotTaken, NoneOf, Replies
  <2> QED BY <1>1, <1>2, <2>1, <2>3, <2>4, <2>5, <2>6 DEF LoneInv, NoEnd
<1>6. CASE request' = [request EXCEPT ![c].stage = "busy"] /\ UNCHANGED <<turn, chat>>
  <2>1. /\ request'[c].op = request[c].op /\ request'[c].stage = "busy"
        /\ \A d \in Chats \ {c} : request'[d] = request[d]
    BY <1>6 DEF ChatTypeOK, Request
  <2>2. NobodyElse(c)'
    BY <1>1, <1>6, <2>1 DEF LoneInv, NobodyElse
  <2>3. Underway(c)'
    BY <1>1, <1>4, <1>6 DEF LoneInv, Underway
  <2> QED BY <1>1, <1>2, <1>6, <2>2, <2>3 DEF LoneInv, NoEnd
<1> QED BY <1>1, <1>5, <1>6

\* The response gets on its way to the chat.
LEMMA RespondKeepsLone ==
  ASSUME ChatTypeOK, NEW c \in Chats, LoneInv(c), Respond(c)
  PROVE  LoneInv(c)'
<1>1. /\ request[c].stage \in {"ok", "busy"}
      /\ wire' = [wire EXCEPT ![c] = Append(@, Response(request[c].stage))]
      /\ request' = [request EXCEPT ![c] = NoRequest]
      /\ UNCHANGED <<chat, channel, turn, pending, shown>>
  BY DEF Respond, hostVars, history
<1>2. PICK e \in Frame : e = Response(request[c].stage)
  BY <1>1, FramesAreFrames DEF Replies
<1>3. /\ e.kind = request[c].stage /\ e.kind \in Replies /\ e.kind \notin Ends /\ e.asked = NoQuestion
  BY <1>1, <1>2 DEF Response, Replies, Ends
<1>4. request[c] # NoRequest
  BY <1>1 DEF NoRequest
<1>5. chat[c].pc = "starts" /\ NoneOf(wire[c], Replies)
  BY <1>4 DEF LoneInv, Underway
<1>6. wire[c] \in Seq(Frame)
  BY DEF ChatTypeOK
<1>7. PICK b : b = wire'[c] /\ b = Append(wire[c], e)
  BY <1>1, <1>2 DEF ChatTypeOK
<1>8. /\ NoneOf(wire[c], Ends) => NoneOf(b, Ends)
      /\ OneOf(wire[c], Ends) => OneOf(b, Ends)
      /\ OneOf(b, Replies)
      /\ ShowOnly(wire[c], chat[c].line) => ShowOnly(b, chat[c].line)
  BY <1>3, <1>5, <1>6, <1>7, FramesGrow
<1>9. request'[c] = NoRequest /\ \A d \in Chats \ {c} : request'[d] = request[d]
  BY <1>1 DEF ChatTypeOK
<1>10. NobodyElse(c)'
  BY <1>1, <1>9 DEF LoneInv, NobodyElse, NoRequest
<1>11. Underway(c)'
  BY <1>1, <1>5, <1>7, <1>8, <1>9 DEF LoneInv, Underway
<1>12. NotTaken(c)' => NotTaken(c)
  <2>1. NoneOf(wire[c], {"busy"})
    BY <1>5 DEF NoneOf, Replies
  <2>2. e.kind # "busy" => NoneOf(b, {"busy"})
    BY <1>6, <1>7, <2>1, FramesGrow
  <2> QED BY <1>1, <1>3, <1>5, <1>7, <1>9, <2>2 DEF NotTaken, NoRequest
<1> QED BY <1>1, <1>7, <1>8, <1>10, <1>11, <1>12 DEF LoneInv, NoEnd

\* A frame moves from the channel to the wire.
LEMMA ForwardKeepsLone ==
  ASSUME ChatTypeOK, NEW c \in Chats, LoneInv(c), Forward(c)
  PROVE  LoneInv(c)'
<1>1. /\ channel[c] # <<>>
      /\ wire' = [wire EXCEPT ![c] = Append(@, Head(channel[c]))]
      /\ channel' = [channel EXCEPT ![c] = Tail(@)]
      /\ UNCHANGED <<chat, request, turn, pending, shown>>
  BY DEF Forward, hostVars, history
<1>2. wire[c] \in Seq(Frame) /\ channel[c] \in Seq(Frame)
  BY DEF ChatTypeOK
<1>3. PICK e : e = Head(channel[c])
  OBVIOUS
<1>4. PICK w : w = wire'[c] /\ w = Append(wire[c], e)
  BY <1>1, <1>3 DEF ChatTypeOK
<1>5. PICK q : q = channel'[c] /\ q = Tail(channel[c])
  BY <1>1 DEF ChatTypeOK
<1>6. /\ e \in Frame
      /\ NoneOf(channel[c], Ends) => NoneOf(q, Ends) /\ e.kind \notin Ends
      /\ NoneOf(channel[c], Replies) => NoneOf(q, Replies) /\ e.kind \notin Replies
      /\ OneOf(channel[c], Ends) => OneOf(q, Ends)
      /\ OneOf(channel[c], Ends) /\ e.kind \in Ends => NoneOf(q, Ends)
      /\ ShowOnly(channel[c], chat[c].line) =>
           /\ ShowOnly(q, chat[c].line)
           /\ e.asked = NoQuestion /\ (e.kind \in Ends => e.root = chat[c].line)
  <2>1. /\ e \in Frame
        /\ \A kinds : NoneOf(channel[c], kinds) => NoneOf(q, kinds) /\ e.kind \notin kinds
        /\ \A kinds : OneOf(channel[c], kinds) => OneOf(q, kinds)
        /\ \A kinds : OneOf(channel[c], kinds) /\ e.kind \in kinds => NoneOf(q, kinds)
        /\ \A n : ShowOnly(channel[c], n) =>
             ShowOnly(q, n) /\ e.asked = NoQuestion /\ (e.kind \in Ends => e.root = n)
    BY <1>1, <1>2, <1>3, <1>5, FramesShrink
  <2> QED BY <2>1
<1>7. /\ NoneOf(wire[c], Ends) /\ e.kind \notin Ends => NoneOf(w, Ends)
      /\ NoneOf(wire[c], Ends) => OneOf(w, Ends)
      /\ OneOf(wire[c], Ends) /\ e.kind \notin Ends => OneOf(w, Ends)
      /\ NoneOf(wire[c], Replies) /\ e.kind \notin Replies => NoneOf(w, Replies)
      /\ OneOf(wire[c], Replies) /\ e.kind \notin Replies => OneOf(w, Replies)
      /\ NoneOf(wire[c], {"busy"}) /\ e.kind \notin {"busy"} => NoneOf(w, {"busy"})
      /\ (/\ ShowOnly(wire[c], chat[c].line) /\ e.asked = NoQuestion
          /\ (e.kind \in Ends => e.root = chat[c].line)) => ShowOnly(w, chat[c].line)
  <2>1. /\ \A kinds : NoneOf(wire[c], kinds) /\ e.kind \notin kinds => NoneOf(w, kinds)
        /\ \A kinds : NoneOf(wire[c], kinds) => OneOf(w, kinds)
        /\ \A kinds : OneOf(wire[c], kinds) /\ e.kind \notin kinds => OneOf(w, kinds)
        /\ \A n : ShowOnly(wire[c], n) /\ e.asked = NoQuestion /\ (e.kind \in Ends => e.root = n)
                    => ShowOnly(w, n)
    BY <1>2, <1>4, <1>6, FramesGrow
  <2> QED BY <2>1
<1>8. e.kind \notin Replies /\ e.kind # "busy"
  <2>1. e.kind \notin Replies
    BY <1>6 DEF LoneInv, Underway
  <2> QED BY <2>1 DEF Replies
<1>9. NobodyElse(c)'
  BY <1>1 DEF LoneInv, NobodyElse
<1>10. Underway(c)'
  <2>1. NoneOf(channel[c], Ends) \/ (NoneOf(wire[c], Ends) /\ (e.kind \in Ends => NoneOf(q, Ends)))
    BY <1>6 DEF LoneInv, Underway
  <2>2. OneOf(w, Ends) /\ OneOf(q, Ends) /\ (NoneOf(w, Ends) \/ NoneOf(q, Ends))
    BY <1>6, <1>7, <2>1 DEF LoneInv, Underway
  <2> QED BY <1>1, <1>4, <1>5, <1>6, <1>7, <1>8, <2>2 DEF LoneInv, Underway
<1>11. NoEnd(c) => NoEnd(c)'
  BY <1>4, <1>5, <1>6, <1>7 DEF NoEnd
<1>12. NotTaken(c)' => NotTaken(c)
  BY <1>1, <1>4, <1>7, <1>8 DEF NotTaken
<1> QED BY <1>1, <1>9, <1>10, <1>11, <1>12 DEF LoneInv

\* The chat takes a frame from the wire: what that leaves on its way.
LEMMA TakingKeepsWay ==
  ASSUME ChatTypeOK, NEW c \in Chats, LoneInv(c), wire[c] # <<>>,
         NEW e, e = Head(wire[c]), NEW w, w = Tail(wire[c])
  PROVE  /\ NoneOf(wire[c], Ends) => NoneOf(w, Ends) /\ e.kind \notin Ends
         /\ NoneOf(wire[c], Replies) => NoneOf(w, Replies) /\ e.kind \notin Replies
         /\ NoneOf(wire[c], {"busy"}) => NoneOf(w, {"busy"}) /\ e.kind # "busy"
         /\ OneOf(w, Ends) /\ OneOf(w, Replies) /\ ShowOnly(w, chat[c].line)
         /\ e.kind \in Ends => NoneOf(w, Ends) /\ NoneOf(channel[c], Ends) /\ e.root = chat[c].line
         /\ e.kind \in Replies => NoneOf(w, Replies)
         /\ e.asked = NoQuestion
<1>1. wire[c] \in Seq(Frame)
  BY DEF ChatTypeOK
<1>2. /\ NoneOf(wire[c], Ends) => NoneOf(w, Ends) /\ e.kind \notin Ends
      /\ NoneOf(wire[c], Replies) => NoneOf(w, Replies) /\ e.kind \notin Replies
      /\ NoneOf(wire[c], {"busy"}) => NoneOf(w, {"busy"}) /\ e.kind \notin {"busy"}
      /\ OneOf(wire[c], Ends) => OneOf(w, Ends)
      /\ OneOf(wire[c], Replies) => OneOf(w, Replies)
      /\ OneOf(wire[c], Ends) /\ e.kind \in Ends => NoneOf(w, Ends)
      /\ OneOf(wire[c], Replies) /\ e.kind \in Replies => NoneOf(w, Replies)
      /\ ShowOnly(wire[c], chat[c].line) =>
           /\ ShowOnly(w, chat[c].line)
           /\ e.asked = NoQuestion /\ (e.kind \in Ends => e.root = chat[c].line)
  <2>1. /\ \A kinds : NoneOf(wire[c], kinds) => NoneOf(w, kinds) /\ e.kind \notin kinds
        /\ \A kinds : OneOf(wire[c], kinds) => OneOf(w, kinds)
        /\ \A kinds : OneOf(wire[c], kinds) /\ e.kind \in kinds => NoneOf(w, kinds)
        /\ \A n : ShowOnly(wire[c], n) =>
             ShowOnly(w, n) /\ e.asked = NoQuestion /\ (e.kind \in Ends => e.root = n)
    BY <1>1, FramesShrink
  <2> QED BY <2>1
<1> QED BY <1>2 DEF LoneInv, Underway

\* A frame is laid aside.
LEMMA LayAsideKeepsLone ==
  ASSUME ChatTypeOK, NEW c \in Chats, LoneInv(c), LayAside(c)
  PROVE  LoneInv(c)'
<1>1. /\ wire[c] # <<>> /\ wire' = [wire EXCEPT ![c] = Tail(@)]
      /\ UNCHANGED <<chat, request, channel, turn, pending, shown>>
  BY DEF LayAside, hostVars, history
<1>2. PICK w : w = wire'[c] /\ w = Tail(wire[c])
  BY <1>1 DEF ChatTypeOK
<1>3. /\ NoneOf(wire[c], Ends) => NoneOf(w, Ends)
      /\ NoneOf(wire[c], Replies) => NoneOf(w, Replies)
      /\ NoneOf(wire[c], {"busy"}) => NoneOf(w, {"busy"})
      /\ OneOf(w, Ends) /\ OneOf(w, Replies) /\ ShowOnly(w, chat[c].line)
  BY <1>1, <1>2, TakingKeepsWay
<1>4. NobodyElse(c)'
  BY <1>1 DEF LoneInv, NobodyElse
<1>5. Underway(c)'
  BY <1>1, <1>2, <1>3 DEF LoneInv, Underway
<1>6. (NoEnd(c) => NoEnd(c)') /\ (NotTaken(c)' => NotTaken(c))
  BY <1>1, <1>2, <1>3 DEF NoEnd, NotTaken
<1> QED BY <1>1, <1>4, <1>5, <1>6 DEF LoneInv

\* The response comes: the chat follows its turn, or its line was refused.
LEMMA ResponseKeepsLone ==
  ASSUME ChatTypeOK, NEW c \in Chats, LoneInv(c), TakeResponse(c)
  PROVE  LoneInv(c)'
<1>1. /\ chat[c].pc \in {"starts", "answers"}
      /\ wire[c] # <<>> /\ Head(wire[c]).kind \in Replies /\ wire' = [wire EXCEPT ![c] = Tail(@)]
      /\ chat' = [chat EXCEPT ![c].pc =
                    IF @ = "starts" /\ Head(wire[c]).kind = "busy" THEN "prompt" ELSE "follows"]
      /\ UNCHANGED <<request, channel, turn, pending, shown>>
  BY DEF TakeResponse, hostVars, history, Replies
<1>2. PICK w : w = wire'[c] /\ w = Tail(wire[c])
  BY <1>1 DEF ChatTypeOK
<1>3. PICK e : e = Head(wire[c])
  OBVIOUS
<1>4. chat[c].pc = "starts"
  BY <1>1 DEF LoneInv, NobodyElse
<1>5. /\ chat'[c].pc = (IF e.kind = "busy" THEN "prompt" ELSE "follows") /\ chat'[c].line = chat[c].line
      /\ \A d \in Chats \ {c} : chat'[d] = chat[d]
  BY <1>1, <1>3, <1>4 DEF ChatTypeOK, ChatState
<1>6. /\ NoneOf(wire[c], Ends) => NoneOf(w, Ends)
      /\ NoneOf(wire[c], Replies) => e.kind \notin Replies
      /\ NoneOf(wire[c], {"busy"}) => e.kind # "busy"
      /\ OneOf(w, Ends) /\ OneOf(w, Replies) /\ ShowOnly(w, chat[c].line)
      /\ e.kind \in Replies => NoneOf(w, Replies)
  BY <1>1, <1>2, <1>3, TakingKeepsWay
<1>7. NoneOf(w, Replies) /\ NoneOf(w, {"busy"})
  BY <1>1, <1>3, <1>6 DEF NoneOf, Replies
<1>8. request[c] = NoRequest
  BY <1>1, <1>3, <1>6 DEF LoneInv, Underway
<1>9. NobodyElse(c)'
  BY <1>1, <1>5 DEF LoneInv, NobodyElse
<1>10. Underway(c)'
  BY <1>1, <1>2, <1>5, <1>6, <1>7, <1>8 DEF LoneInv, Underway
<1>11. NotTaken(c)' => NotTaken(c)
  BY <1>1, <1>2, <1>5, <1>6, <1>7, <1>8 DEF NotTaken, NoRequest
<1>12. NoEnd(c) => NoEnd(c)'
  BY <1>1, <1>2, <1>6 DEF NoEnd
<1> QED BY <1>1, <1>5, <1>9, <1>10, <1>11, <1>12 DEF LoneInv

\* The chat follows its turn; the one end that comes is its own, and it has shown it.
LEMMA FollowKeepsLone ==
  ASSUME ChatTypeOK, NEW c \in Chats, LoneInv(c), Follow(c)
  PROVE  LoneInv(c)'
<1>1. PICK e : e = Head(wire[c])
  OBVIOUS
<1>2. PICK pc : pc = IF e.kind # "projection" THEN "follows"
                     ELSE IF e.asked # NoQuestion THEN "asks"
                     ELSE IF e.root # NoTurn THEN "prompt" ELSE "follows"
  OBVIOUS
<1>3. /\ chat[c].pc = "follows" /\ wire[c] # <<>> /\ wire' = [wire EXCEPT ![c] = Tail(@)]
      /\ chat' = [chat EXCEPT ![c] = [@ EXCEPT !.pc = pc,
                    !.question = IF pc = "asks" THEN e.asked ELSE NoQuestion]]
      /\ shown' = IF pc = "prompt" THEN [shown EXCEPT ![c] = <<chat[c].line, e.root>>] ELSE shown
      /\ UNCHANGED <<request, channel, turn, pending>>
  BY <1>1, <1>2 DEF Follow, hostVars
<1>4. PICK w : w = wire'[c] /\ w = Tail(wire[c])
  BY <1>3 DEF ChatTypeOK
<1>5. /\ NoneOf(wire[c], Ends) => NoneOf(w, Ends) /\ e.kind \notin Ends
      /\ NoneOf(wire[c], Replies) => NoneOf(w, Replies)
      /\ NoneOf(wire[c], {"busy"}) => NoneOf(w, {"busy"})
      /\ OneOf(w, Ends) /\ OneOf(w, Replies) /\ ShowOnly(w, chat[c].line)
      /\ e.kind \in Ends => NoneOf(w, Ends) /\ NoneOf(channel[c], Ends) /\ e.root = chat[c].line
      /\ e.asked = NoQuestion
  BY <1>1, <1>3, <1>4, TakingKeepsWay
<1>6. pc \in {"prompt", "follows"} /\ (pc = "prompt" => e.kind \in Ends)
  BY <1>2, <1>5 DEF Ends
<1>7. /\ chat'[c].pc = pc /\ chat'[c].line = chat[c].line /\ \A d \in Chats \ {c} : chat'[d] = chat[d]
  BY <1>3 DEF ChatTypeOK, ChatState
<1>8. request[c] = NoRequest /\ NoneOf(wire[c], Replies)
  BY <1>3 DEF LoneInv, Underway
<1>9. NobodyElse(c)'
  BY <1>3, <1>6, <1>7 DEF LoneInv, NobodyElse
<1>10. Underway(c)'
  BY <1>3, <1>4, <1>5, <1>7, <1>8 DEF LoneInv, Underway
<1>11. NoEnd(c) => NoEnd(c)'
  BY <1>3, <1>4, <1>5 DEF NoEnd
<1>12. CASE pc = "prompt"
  <2>1. NoEnd(c)' /\ ~NoEnd(c)
    BY <1>3, <1>4, <1>5, <1>6, <1>12 DEF NoEnd
  <2>2. turn'.stage # "runs"
    BY <1>3, <2>1 DEF LoneInv
  <2>3. shown'[c] = <<chat[c].line, chat[c].line>>
    BY <1>3, <1>5, <1>6, <1>12 DEF ChatTypeOK
  <2>4. shown'[c] # <<>> => shown'[c][1] = shown'[c][2]
    BY <2>3
  <2> QED BY <1>9, <1>10, <2>1, <2>2, <2>4 DEF LoneInv
<1>13. CASE pc = "follows"
  <2>1. shown' = shown
    BY <1>3, <1>13
  <2>2. NotTaken(c)' => NotTaken(c)
    BY <1>3, <1>4, <1>5, <1>7, <1>13 DEF NotTaken
  <2> QED BY <1>3, <1>7, <1>9, <1>10, <1>11, <2>1, <2>2 DEF LoneInv
<1> QED BY <1>6, <1>12, <1>13

\* The lone chat's own steps.
LEMMA OwnStepsKeepLone ==
  ASSUME ChatTypeOK, NEW c \in Chats, LoneInv(c), Lone(c)',
         Line(c) \/ Serve(c) \/ Forward(c) \/ ChatStep(c) \/ GiveUp(c)
  PROVE  LoneInv(c)'
<1>1. ~TakeAnswer(c)
  BY DEF TakeAnswer, LoneInv, NobodyElse
<1>2. ~PublishAnswered(c)
  BY DEF PublishAnswered, LoneInv, NobodyElse, NoRequest
<1>3. ~Answer(c)
  BY DEF Answer, LoneInv, NobodyElse
<1>4. ~GiveUp(c)
  BY DEF GiveUp, Lone
<1> QED BY <1>1, <1>2, <1>3, <1>4, LineKeepsLone, StartKeepsLone, RespondKeepsLone, ForwardKeepsLone,
           LayAsideKeepsLone, ResponseKeepsLone, FollowKeepsLone DEF Serve, ChatStep

\* No chat has said anything at first.
LEMMA ChatInvInit == ChatInit => ChatInv
<1> SUFFICES ASSUME ChatInit, NEW c \in Chats PROVE LoneInv(c)
  BY DEF ChatInv
<1>1. /\ wire[c] = <<>> /\ channel[c] = <<>> /\ request[c] = NoRequest /\ shown[c] = <<>>
      /\ chat[c].pc = "prompt" /\ turn = NoEntry /\ pending = NoQuestion
      /\ \A d \in Chats : request[d] = NoRequest /\ chat[d].pc = "prompt"
  BY DEF ChatInit
<1>2. DOMAIN wire[c] = {} /\ DOMAIN channel[c] = {}
  BY <1>1
<1>3. \A kinds : /\ NoneOf(wire[c], kinds) /\ OneOf(wire[c], kinds)
                 /\ NoneOf(channel[c], kinds) /\ OneOf(channel[c], kinds)
  BY <1>2 DEF NoneOf, OneOf
<1>4. ShowOnly(wire[c], chat[c].line) /\ ShowOnly(channel[c], chat[c].line)
  BY <1>2 DEF ShowOnly
<1>5. NobodyElse(c)
  BY <1>1 DEF NobodyElse, NoRequest, NoEntry
<1> QED BY <1>1, <1>3, <1>4, <1>5 DEF LoneInv, Underway, NoEnd, NoEntry

\* Every step keeps what is so of a lone chat.
LEMMA ChatInvNext == ChatTypeOK /\ ChatInv /\ [ChatNext]_chatVars => ChatInv'
<1> SUFFICES ASSUME ChatTypeOK, ChatInv, [ChatNext]_chatVars, NEW c \in Chats, ~asked', Lone(c)'
             PROVE  LoneInv(c)'
  BY DEF ChatInv
<1>1. LoneInv(c)
  BY WasAlone DEF ChatInv
<1>2. CASE UNCHANGED chatVars
  <2>1. UNCHANGED <<chat, request, turn, pending, shown>> /\ wire'[c] = wire[c] /\ channel'[c] = channel[c]
    BY <1>2 DEF chatVars, hostVars, history
  <2> QED BY <1>1, <2>1, LoneRests
<1>3. CASE TurnStep
  BY <1>1, <1>3, TurnKeepsLone
<1>4. ASSUME NEW d \in Chats, Line(d) \/ Serve(d) \/ Forward(d) \/ ChatStep(d) \/ GiveUp(d)
      PROVE  LoneInv(c)'
  <2>1. CASE d = c
    BY <1>1, <1>4, <2>1, OwnStepsKeepLone
  <2>2. CASE d # c
    BY <1>1, <1>4, <2>2, OthersKeepLone
  <2> QED BY <2>1, <2>2
<1> QED BY <1>2, <1>3, <1>4 DEF ChatNext

\* For any number of chats, turns and frames under way: while no turn asks a question, a chat
\* that is alone in its session and never gave up waiting shows the end of the turn of its
\* line (meepo-cli/src/main.rs, run_chat).
THEOREM PlainEndIsAlwaysOwn == ChatSpec => []PlainEndIsOwn
<1>1. ChatInv => PlainEndIsOwn
  BY DEF ChatInv, LoneInv, PlainEndIsOwn
<1> QED BY <1>1, ChatTypeInit, ChatTypeNext, ChatInvInit, ChatInvNext, PTL DEF ChatSpec
====
