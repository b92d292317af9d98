---- MODULE HostElectionProofs ----
(***************************************************************************)
(* The election's safety for any set of hosts and clients: the record of a *)
(* serving host stays, a record that is left behind is a killed host's,    *)
(* and two hosts never work on the root at once.                           *)
(***************************************************************************)
EXTENDS HostElection, TLAPS

\* A client whose dial failed is still a client, and is not connected.
LEMMA FailureIsClient ==
    ASSUME NEW k \in Client
    PROVE  /\ AfterFailure(k) \in Client
           /\ AfterFailure(k).pc # "connected"
<1>1. CASE k.fast
  BY <1>1 DEF Client, AfterFailure
<1>2. CASE ~k.fast /\ k.polls < MaxPolls
  BY <1>2 DEF Client, AfterFailure
<1>3. CASE ~k.fast /\ ~(k.polls < MaxPolls)
  BY <1>3 DEF Client, AfterFailure, Away
<1> QED
  BY <1>1, <1>2, <1>3

\* Nobody is connected or waiting, no host lives, and nothing is on disk.
LEMMA InitInv == Init => ElectionInv
  BY ElectionAssumption
  DEF Init, ElectionInv, ElectionType, LockIsPhase, RecordIsPhase, RecordIsOwners,
      WorkIsPhase, OwnerPhases, WorkPhases, Phases, Client, Away

-----------------------------------------------------------------------------
(* The clients' steps.                                                     *)

\* A step that leaves hosts and files alone and connects nobody.
LEMMA QuietStep ==
    ASSUME ElectionInv,
           UNCHANGED <<phase, busy, path, lock, record>>,
           client' \in [Clients -> Client],
           \A c \in Clients : client'[c].pc = "connected" => client'[c] = client[c]
    PROVE  ElectionInv'
  BY DEF ElectionInv, ElectionType, LockIsPhase, RecordIsPhase, RecordIsOwners, WorkIsPhase

\* What a client does on its way to a host.
LEMMA ClientKeepsInv ==
    ASSUME ElectionInv, NEW c \in Clients,
           Arrive(c) \/ Look(c) \/ Dial(c) \/ Poll(c) \/ Leave(c)
    PROVE  ElectionInv'
<1> USE DEF ElectionInv, ElectionType, files
<1>1. /\ client' = [client EXCEPT ![c] = client'[c]]
      /\ client'[c] \in Client /\ client'[c].pc # "connected"
  <2>1. CASE Arrive(c)
    <3>1. [client[c] EXCEPT !.pc = "look"] \in Client
      BY DEF Client
    <3>2. client'[c] = [client[c] EXCEPT !.pc = "look"]
      BY <2>1 DEF Arrive
    <3> QED
      BY <2>1, <3>1, <3>2 DEF Arrive, Client
  <2>2. CASE Look(c)
    <3>1. /\ [client[c] EXCEPT !.pc = "dial"] \in Client
          /\ [client[c] EXCEPT !.pc = "dial"].pc = "dial"
      BY DEF Client
    <3>2. client'[c] = IF record # NoHost THEN [client[c] EXCEPT !.pc = "dial"]
                       ELSE AfterFailure(client[c])
      BY <2>2 DEF Look
    <3> QED
      BY <2>2, <3>1, <3>2, FailureIsClient DEF Look
  <2>3. CASE Dial(c)
    <3>1. path # NoHost /\ Listening(path) =>
            /\ [client[c] EXCEPT !.pc = "waiting", !.host = path] \in Client
            /\ [client[c] EXCEPT !.pc = "waiting", !.host = path].pc = "waiting"
      BY DEF Client
    <3>2. client'[c] = IF path # NoHost /\ Listening(path)
                         THEN [client[c] EXCEPT !.pc = "waiting", !.host = path]
                         ELSE AfterFailure(client[c])
      BY <2>3 DEF Dial
    <3> QED
      BY <2>3, <3>1, <3>2, FailureIsClient DEF Dial
  <2>4. CASE Poll(c)
    <3>1. Polled(client[c]) \in Client
      BY DEF Polled, Client
    <3>2. /\ [Polled(client[c]) EXCEPT !.pc = "dial"] \in Client
          /\ [Polled(client[c]) EXCEPT !.pc = "dial"].pc = "dial"
      BY <3>1 DEF Client
    <3>3. client'[c] = IF record # NoHost THEN [Polled(client[c]) EXCEPT !.pc = "dial"]
                       ELSE AfterFailure(Polled(client[c]))
      BY <2>4 DEF Poll
    <3> QED
      BY <2>4, <3>1, <3>2, <3>3, FailureIsClient DEF Poll
  <2>5. CASE Leave(c)
    BY <2>5 DEF Leave, Away, Client
  <2> QED
    BY <2>1, <2>2, <2>3, <2>4, <2>5
<1>2. UNCHANGED <<phase, busy, path, lock, record>>
  BY DEF Arrive, Look, Dial, Poll, Leave
<1> QED
  BY <1>1, <1>2, QuietStep

\* A candidate that is launched holds nothing and serves nobody.
LEMMA LaunchKeepsInv ==
    ASSUME ElectionInv, NEW c \in Clients, Launch(c)
    PROVE  ElectionInv'
<1> USE DEF ElectionInv, ElectionType, files
<1>1. client' \in [Clients -> Client]
  <2>1. [client[c] EXCEPT !.pc = "sleep"] \in Client
    BY DEF Client
  <2> QED
    BY <2>1 DEF Launch
<1>2. \A d \in Clients : client'[d].pc = "connected" => client'[d] = client[d]
  BY DEF Launch, Client
<1>3. CASE UNCHANGED phase
  BY <1>1, <1>2, <1>3, QuietStep DEF Launch
<1>4. ASSUME NEW h \in Hosts, phase[h] = "unborn", phase' = [phase EXCEPT ![h] = "launched"]
      PROVE  ElectionInv'
  <2>1. UNCHANGED <<busy, path, lock, record>>
    BY DEF Launch
  <2>2. phase' \in [Hosts -> Phases] /\ \A g \in Hosts : phase'[g] = phase[g] \/ g = h
    BY <1>4 DEF Phases
  <2>3. phase'[h] = "launched"
    BY <1>4
  <2>4. LockIsPhase' /\ RecordIsPhase'
    BY <1>4, <2>1, <2>2, <2>3 DEF LockIsPhase, RecordIsPhase, OwnerPhases
  <2>5. RecordIsOwners'
    BY <1>4, <2>1, <2>2, <2>3, ElectionAssumption DEF RecordIsOwners
  <2>6. WorkIsPhase'
    BY <1>1, <1>2, <1>4, <2>1, <2>2, <2>3 DEF WorkIsPhase, WorkPhases
  <2> QED
    BY <1>1, <2>1, <2>2, <2>4, <2>5, <2>6
<1> QED
  BY <1>3, <1>4 DEF Launch

\* A turn starts at a host that has the client.
LEMMA StartTurnKeepsInv ==
    ASSUME ElectionInv, NEW c \in Clients, StartTurn(c)
    PROVE  ElectionInv'
  BY DEF StartTurn, ElectionInv, ElectionType, files, LockIsPhase, RecordIsPhase,
         RecordIsOwners, WorkIsPhase

-----------------------------------------------------------------------------
(* The hosts' steps.                                                       *)

\* The end of a process frees its lock; its record may stay only if it was
\* killed, and its clients are elsewhere.
LEMMA EndKeepsInv ==
    ASSUME ElectionInv, NEW h \in Hosts, NEW how \in {"exited", "crashed"},
           End(h, how), how = "crashed" \/ record # h
    PROVE  ElectionInv'
<1> USE DEF ElectionInv, ElectionType
<1>1. /\ phase' = [phase EXCEPT ![h] = how]
      /\ lock' = IF lock = h THEN NoHost ELSE lock
      /\ busy' = [busy EXCEPT ![h] = FALSE]
      /\ path' = path /\ record' = record
  BY DEF End
<1>2. phase' \in [Hosts -> Phases] /\ phase'[h] = how
      /\ \A g \in Hosts : g # h => phase'[g] = phase[g]
  BY <1>1 DEF Phases
<1>3. /\ client' \in [Clients -> Client]
      /\ \A c \in Clients : client'[c].pc = "connected" =>
           client'[c] = client[c] /\ client[c].host # h
  <2>1. \A c \in Clients :
          \/ client'[c] = AfterFailure(client[c])
          \/ client'[c] = Away
          \/ client'[c] = client[c] /\ ~(client[c].pc = "connected" /\ client[c].host = h)
    BY DEF End, At
  <2>2. Away \in Client /\ Away.pc # "connected"
    BY DEF Away, Client
  <2>3. \A c \in Clients : client'[c] \in Client
    BY <2>1, <2>2, FailureIsClient
  <2>4. client' \in [Clients -> Client]
    BY <2>3 DEF End
  <2> QED
    BY <2>1, <2>2, <2>4, FailureIsClient
<1>4. LockIsPhase' /\ RecordIsPhase'
  BY <1>1, <1>2, ElectionAssumption DEF LockIsPhase, RecordIsPhase, OwnerPhases
<1>5. RecordIsOwners'
  BY <1>1, <1>2 DEF RecordIsOwners
<1>6. WorkIsPhase'
  BY <1>1, <1>2, <1>3 DEF WorkIsPhase
<1> QED
  BY <1>1, <1>2, <1>3, <1>4, <1>5, <1>6

\* A step between two phases that neither hold the lock nor have clients.
LEMMA CandidateKeepsInv ==
    ASSUME ElectionInv, NEW h \in Hosts, Unlink(h) \/ Bind(h)
    PROVE  ElectionInv'
<1> USE DEF ElectionInv, ElectionType
<1>1. ASSUME NEW to \in {"unlinked", "bound"}, phase[h] \in {"launched", "unlinked"},
             phase' = [phase EXCEPT ![h] = to], path' \in Hosts \cup {NoHost},
             UNCHANGED <<busy, lock, record, client>>
      PROVE  ElectionInv'
  BY <1>1 DEF Phases, LockIsPhase, RecordIsPhase, RecordIsOwners, WorkIsPhase, OwnerPhases,
              WorkPhases
<1>2. CASE phase[h] = "unlinked" /\ End(h, "exited")
  <2>1. record # h
    BY <1>2, ElectionAssumption DEF RecordIsOwners, LockIsPhase, OwnerPhases
  <2> QED
    BY <1>2, <2>1, EndKeepsInv
<1>3. CASE Unlink(h)
  BY <1>1, <1>3 DEF Unlink, Move
<1>4. CASE Bind(h)
  BY <1>1, <1>2, <1>4 DEF Bind, Move
<1> QED
  BY <1>3, <1>4

\* The election itself: the lock was free, so no other host is an owner.
LEMMA TryAcquireKeepsInv ==
    ASSUME ElectionInv, NEW h \in Hosts, TryAcquire(h)
    PROVE  ElectionInv'
<1> USE ElectionAssumption DEF ElectionInv, ElectionType
<1>1. CASE lock = NoHost /\ Move(h, "bound", "owner") /\ lock' = h
           /\ UNCHANGED <<count, busy, path, record, client>>
  BY <1>1 DEF Move, Phases, LockIsPhase, RecordIsPhase, RecordIsOwners, WorkIsPhase,
              OwnerPhases, WorkPhases
<1>2. CASE phase[h] = "bound" /\ End(h, "exited")
  <2>1. record # h
    BY <1>2 DEF RecordIsOwners, LockIsPhase, OwnerPhases
  <2> QED
    BY <1>2, <2>1, EndKeepsInv
<1> QED
  BY <1>1, <1>2 DEF TryAcquire

\* The steps of an owner, from the record to the release.
LEMMA OwnerKeepsInv ==
    ASSUME ElectionInv, NEW h \in Hosts,
           \/ Register(h) \/ Drained(h) \/ ReadRecord(h) \/ RemoveRecord(h) \/ Release(h)
    PROVE  ElectionInv'
<1> USE ElectionAssumption
    DEF ElectionInv, ElectionType, Move, Phases, LockIsPhase, RecordIsPhase, RecordIsOwners,
        WorkIsPhase, OwnerPhases, WorkPhases, files
<1>1. CASE Register(h)
  BY <1>1 DEF Register
<1>2. CASE Drained(h)
  BY <1>2 DEF Drained
<1>3. CASE ReadRecord(h)
  BY <1>3 DEF ReadRecord
<1>4. CASE RemoveRecord(h)
  BY <1>4 DEF RemoveRecord
<1>5. CASE Release(h)
  BY <1>5 DEF Release
<1> QED
  BY <1>1, <1>2, <1>3, <1>4, <1>5

\* The listener is dropped, for whatever reason; who waited is not connected.
LEMMA StopListeningKeepsInv ==
    ASSUME ElectionInv, NEW h \in Hosts, StopListening(h)
    PROVE  ElectionInv'
<1> USE ElectionAssumption DEF ElectionInv, ElectionType, files
<1>1. phase[h] = "serving" /\ phase' = [phase EXCEPT ![h] = "draining"]
      /\ UNCHANGED <<busy, path, lock, record>>
  BY DEF StopListening, Move
<1>2. /\ client' \in [Clients -> Client]
      /\ \A c \in Clients : client'[c].pc = "connected" => client'[c] = client[c]
  <2>1. \A c \in Clients : client'[c] \in {AfterFailure(client[c]), client[c]}
    BY DEF StopListening, Reset
  <2>2. \A c \in Clients : client'[c] \in Client
    BY <2>1, FailureIsClient
  <2>3. client' \in [Clients -> Client]
    BY <2>2 DEF StopListening, Reset
  <2> QED
    BY <2>1, <2>3, FailureIsClient
<1>3. phase' \in [Hosts -> Phases] /\ phase'[h] = "draining"
      /\ \A g \in Hosts : g # h => phase'[g] = phase[g]
  BY <1>1 DEF Phases
<1>4. LockIsPhase' /\ RecordIsPhase' /\ RecordIsOwners'
  BY <1>1, <1>3 DEF LockIsPhase, RecordIsPhase, RecordIsOwners, OwnerPhases
<1>5. WorkIsPhase'
  BY <1>1, <1>2, <1>3 DEF WorkIsPhase, WorkPhases
<1> QED
  BY <1>1, <1>2, <1>3, <1>4, <1>5

\* A connection is accepted by a serving host, and a turn may end anywhere.
LEMMA ServeKeepsInv ==
    ASSUME ElectionInv, NEW h \in Hosts,
           EndTurn(h) \/ \E c \in Clients : Accept(h, c)
    PROVE  ElectionInv'
<1> USE DEF ElectionInv, ElectionType, files
<1>1. CASE EndTurn(h)
  BY <1>1 DEF EndTurn, LockIsPhase, RecordIsPhase, RecordIsOwners, WorkIsPhase
<1>2. ASSUME NEW c \in Clients, Accept(h, c) PROVE ElectionInv'
  <2> DEFINE k == [Away EXCEPT !.pc = "connected", !.host = h]
  <2>1. k \in Client /\ k.host = h
    BY DEF Away, Client
  <2>2. client' = [client EXCEPT ![c] = k] /\ phase[h] = "serving"
    BY <1>2 DEF Accept
  <2>3. UNCHANGED <<phase, busy, path, lock, record>>
    BY <1>2 DEF Accept
  <2> HIDE DEF k
  <2>4. client' \in [Clients -> Client]
    BY <2>1, <2>2
  <2>5. WorkIsPhase'
    BY <2>1, <2>2, <2>3 DEF WorkIsPhase, WorkPhases
  <2> QED
    BY <2>3, <2>4, <2>5 DEF LockIsPhase, RecordIsPhase, RecordIsOwners
<1> QED
  BY <1>1, <1>2

-----------------------------------------------------------------------------

\* Every step of every process keeps the invariant.
LEMMA StepInv == ElectionInv /\ [Next]_vars => ElectionInv'
<1> SUFFICES ASSUME ElectionInv, [Next]_vars PROVE ElectionInv'
  OBVIOUS
<1>1. ASSUME NEW c \in Clients, Arrive(c) \/ ClientStep(c) \/ StartTurn(c) \/ Leave(c)
      PROVE  ElectionInv'
  BY <1>1, ClientKeepsInv, LaunchKeepsInv, StartTurnKeepsInv DEF ClientStep
<1>2. ASSUME NEW h \in Hosts, HostStep(h) PROVE ElectionInv'
  <2>1. CASE Exit(h)
    <3>1. record # h
      BY <2>1, ElectionAssumption
      DEF Exit, ElectionInv, RecordIsOwners, LockIsPhase, OwnerPhases
    <3> QED
      BY <2>1, <3>1, EndKeepsInv DEF Exit
  <2> QED
    BY <1>2, <2>1, CandidateKeepsInv, TryAcquireKeepsInv, OwnerKeepsInv, StopListeningKeepsInv
    DEF HostStep, IdleShutdown
<1>3. ASSUME NEW h \in Hosts, Signal(h) \/ EndTurn(h) \/ Crash(h) \/ \E c \in Clients : Accept(h, c)
      PROVE  ElectionInv'
  BY <1>3, StopListeningKeepsInv, EndKeepsInv, ServeKeepsInv DEF Signal, Crash
<1>4. CASE UNCHANGED vars
  BY <1>4 DEF vars, files, ElectionInv, ElectionType, LockIsPhase, RecordIsPhase,
              RecordIsOwners, WorkIsPhase
<1> QED
  BY <1>1, <1>2, <1>3, <1>4 DEF Next

\* Lock, record and work always match the hosts' phases.
THEOREM ElectionInvariant == Spec => []ElectionInv
<1>1. Init => ElectionInv
  BY InitInv
<1>2. ElectionInv /\ [Next]_vars => ElectionInv'
  BY StepInv
<1> QED
  BY <1>1, <1>2, PTL DEF Spec

\* remove_registration and write_registration only ever touch the record of a
\* host that is not serving: the record of one that serves stays its own.
THEOREM ServingStaysRegistered == Spec => []ServingIsRegistered
<1>1. ElectionInv => ServingIsRegistered
  BY DEF ElectionInv, RecordIsPhase, ServingIsRegistered
<1> QED
  BY <1>1, ElectionInvariant, PTL

\* A record whose host does not hold the lock was left by a killed process.
THEOREM RecordAlwaysOwners == Spec => []RecordIsOwners
<1>1. ElectionInv => RecordIsOwners
  BY DEF ElectionInv
<1> QED
  BY <1>1, ElectionInvariant, PTL

\* Two hosts never serve clients or run turns on one root at once, before
\* either has released the lock.
THEOREM OneHostAlwaysWorks == Spec => []OneHostWorks
<1>1. ElectionInv => OneHostWorks
  <2> SUFFICES ASSUME ElectionInv, NEW h \in Hosts, AtWork(h) PROVE lock = h
    BY DEF OneHostWorks
  <2>1. phase[h] \in WorkPhases \ {"exiting"}
    BY DEF ElectionInv, WorkIsPhase, AtWork, At
  <2> QED
    BY <2>1 DEF ElectionInv, LockIsPhase, OwnerPhases, WorkPhases
<1> QED
  BY <1>1, ElectionInvariant, PTL
====
