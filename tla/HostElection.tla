---- MODULE HostElection ----
(***************************************************************************)
(* Who serves a storage root: connect_or_spawn on the clients' side, the   *)
(* life of a meepo-host process on the other.                              *)
(*                                                                         *)
(* Clients look at the registration record, dial its endpoint, and launch  *)
(* a candidate when that fails; a candidate binds the endpoint, tries the  *)
(* root's lock, and exits when it is the loser.  The owner writes the      *)
(* record, serves, drains after an idle grace or a signal, removes its     *)
(* record and releases the lock.  Processes may be killed at any time: the *)
(* operating system then frees the lock, and record and socket file stay.  *)
(*                                                                         *)
(* All hosts of a root use the same endpoint, <root>/host.sock.  The       *)
(* record's state is "ready" from its writing to its removal: the draining *)
(* that connect_or_spawn looks for is never written.                       *)
(***************************************************************************)
EXTENDS Naturals, FiniteSets

CONSTANTS
    Hosts,     \* host processes (and their epochs); each is launched once
    NoHost,    \* no host
    Clients,   \* processes that want a connection to the root's owner
    MaxPolls   \* bound: polls of the record until the election deadline

ASSUME ElectionAssumption ==
    /\ NoHost \notin Hosts
    /\ MaxPolls \in Nat \ {0}

VARIABLES
    phase,   \* [Hosts -> Phases]: where each host process is
    count,   \* [Hosts -> Nat]: Control.connections
    busy,    \* [Hosts -> BOOLEAN]: a turn's drain task runs
    path,    \* whose socket is bound at the endpoint (its file may be stale)
    lock,    \* who holds the lock on owner.lock
    record,  \* whose registration record is on disk
    client   \* [Clients -> Client]: each client in connect_or_spawn

files == <<path, lock, record>>
vars == <<phase, count, busy, path, lock, record, client>>

Phases == {"unborn", "launched", "unlinked", "bound", "owner", "serving",
           "draining", "withdrawing", "removing", "releasing", "exiting",
           "exited", "crashed"}

\* "fast" is the attempt before a candidate is launched.
Client ==
    [pc : {"away", "look", "dial", "waiting", "launch", "sleep", "connected"},
     host : Hosts \cup {NoHost}, fast : BOOLEAN, polls : Nat]

Away == [pc |-> "away", host |-> NoHost, fast |-> TRUE, polls |-> 0]

Alive(h) == phase[h] \notin {"unborn", "exited", "crashed"}
Listening(h) == phase[h] \in {"bound", "owner", "serving"}
At(h, pc) == {c \in Clients : client[c].pc = pc /\ client[c].host = h}

Init ==
    /\ phase = [h \in Hosts |-> "unborn"]
    /\ count = [h \in Hosts |-> 0]
    /\ busy = [h \in Hosts |-> FALSE]
    /\ path = NoHost
    /\ lock = NoHost
    /\ record = NoHost
    /\ client = [c \in Clients |-> Away]

-----------------------------------------------------------------------------
(* The client.                                                             *)

\* A dial that failed: launch a candidate, or poll until the deadline.
AfterFailure(k) ==
    IF k.fast THEN [k EXCEPT !.pc = "launch", !.host = NoHost, !.fast = FALSE]
    ELSE IF k.polls < MaxPolls THEN [k EXCEPT !.pc = "sleep", !.host = NoHost]
    ELSE Away

Arrive(c) ==
    /\ client[c].pc = "away"
    /\ client' = [client EXCEPT ![c].pc = "look"]
    /\ UNCHANGED <<phase, count, busy, files>>

Look(c) ==
    /\ client[c].pc = "look"
    /\ client' = [client EXCEPT ![c] =
         IF record # NoHost THEN [@ EXCEPT !.pc = "dial"] ELSE AfterFailure(@)]
    /\ UNCHANGED <<phase, count, busy, files>>

\* Connect to the endpoint; the hello then waits for the host to accept.
Dial(c) ==
    /\ client[c].pc = "dial"
    /\ client' = [client EXCEPT ![c] =
         IF path # NoHost /\ Listening(path)
           THEN [@ EXCEPT !.pc = "waiting", !.host = path]
           ELSE AfterFailure(@)]
    /\ UNCHANGED <<phase, count, busy, files>>

\* Launch a candidate; that it could not be spawned goes unnoticed.
Launch(c) ==
    /\ client[c].pc = "launch"
    /\ client' = [client EXCEPT ![c].pc = "sleep"]
    /\ \/ \E h \in Hosts : phase[h] = "unborn" /\ phase' = [phase EXCEPT ![h] = "launched"]
       \/ UNCHANGED phase
    /\ UNCHANGED <<count, busy, files>>

Polled(k) == [k EXCEPT !.polls = @ + 1]

\* One round of the polling loop, up to its dial.
Poll(c) ==
    /\ client[c].pc = "sleep"
    /\ client' = [client EXCEPT ![c] =
         IF record # NoHost THEN [Polled(@) EXCEPT !.pc = "dial"] ELSE AfterFailure(Polled(@))]
    /\ UNCHANGED <<phase, count, busy, files>>

\* A connected client starts a turn: from here the turn runs on its own.
StartTurn(c) ==
    /\ client[c].pc = "connected"
    /\ busy' = [busy EXCEPT ![client[c].host] = TRUE]
    /\ UNCHANGED <<phase, count, files, client>>

\* The client hangs up; the connection's task ends and is counted out.
Leave(c) ==
    /\ client[c].pc = "connected"
    /\ count' = [count EXCEPT ![client[c].host] = @ - 1]
    /\ client' = [client EXCEPT ![c] = Away]
    /\ UNCHANGED <<phase, busy, files>>

ClientStep(c) == Look(c) \/ Dial(c) \/ Launch(c) \/ Poll(c)

-----------------------------------------------------------------------------
(* The host process.                                                       *)

Move(h, from, to) == phase[h] = from /\ phase' = [phase EXCEPT ![h] = to]

\* Whoever waits in h's backlog is reset when the listener goes.
Reset(h) ==
    client' = [c \in Clients |->
                 IF c \in At(h, "waiting") THEN AfterFailure(client[c]) ELSE client[c]]

\* The end of process h: its lock is free, its sockets and its turns are gone.
End(h, how) ==
    /\ phase' = [phase EXCEPT ![h] = how]
    /\ lock' = IF lock = h THEN NoHost ELSE lock
    /\ count' = [count EXCEPT ![h] = 0]
    /\ busy' = [busy EXCEPT ![h] = FALSE]
    /\ client' = [c \in Clients |->
                    CASE c \in At(h, "waiting") -> AfterFailure(client[c])
                      [] c \in At(h, "connected") -> Away
                      [] OTHER -> client[c]]
    /\ UNCHANGED <<path, record>>

\* bind, its first half: whatever file is at the endpoint goes.
Unlink(h) ==
    /\ Move(h, "launched", "unlinked")
    /\ path' = NoHost
    /\ UNCHANGED <<count, busy, lock, record, client>>

\* bind, its second half, and the store is opened.  A file that another
\* candidate made in between is an error, and the process exits.
Bind(h) ==
    \/ /\ path = NoHost
       /\ Move(h, "unlinked", "bound")
       /\ path' = h
       /\ UNCHANGED <<count, busy, lock, record, client>>
    \/ /\ path # NoHost /\ phase[h] = "unlinked"
       /\ End(h, "exited")

\* Mutant: the loser keeps its listener.
TryAcquireOnce(h) ==
    /\ lock = NoHost
    /\ Move(h, "bound", "owner")
    /\ lock' = h
    /\ UNCHANGED <<count, busy, path, record, client>>

\* The winner of the lock goes on, the loser exits.
TryAcquire(h) ==
    \/ /\ lock = NoHost
       /\ Move(h, "bound", "owner")
       /\ lock' = h
       /\ UNCHANGED <<count, busy, path, record, client>>
    \/ /\ lock # NoHost /\ phase[h] = "bound"
       /\ End(h, "exited")

\* write_registration; the accept loop starts.
Register(h) ==
    /\ Move(h, "owner", "serving")
    /\ record' = h
    /\ UNCHANGED <<count, busy, path, lock, client>>

\* A connection is accepted, counted and shaken hands with.
Accept(h, c) ==
    /\ phase[h] = "serving" /\ c \in At(h, "waiting")
    /\ count' = [count EXCEPT ![h] = @ + 1]
    /\ client' = [client EXCEPT ![c] = [Away EXCEPT !.pc = "connected", !.host = h]]
    /\ UNCHANGED <<phase, busy, files>>

EndTurn(h) ==
    /\ busy[h]
    /\ busy' = [busy EXCEPT ![h] = FALSE]
    /\ UNCHANGED <<phase, count, files, client>>

\* Mutant: the lock goes with the listener.
StopListeningAndRelease(h) ==
    /\ Move(h, "serving", "draining")
    /\ Reset(h)
    /\ lock' = NoHost
    /\ UNCHANGED <<count, busy, path, record>>

\* The accept loop ends and the listener is dropped.
StopListening(h) ==
    /\ Move(h, "serving", "draining")
    /\ Reset(h)
    /\ UNCHANGED <<count, busy, files>>

\* Mutant: the lifecycle is never set to ready, and a starting host is not idle.
IdleOnceReady(h) == count[h] = 0 /\ phase[h] = "owner" /\ StopListening(h)

\* The idle daemon finds nobody connected.  Turns are not looked at.
IdleShutdown(h) == count[h] = 0 /\ StopListening(h)

\* SIGINT or SIGTERM.
Signal(h) == StopListening(h)

\* No connection is left or half a second has passed.
Drained(h) ==
    /\ Move(h, "draining", "withdrawing")
    /\ UNCHANGED <<count, busy, files, client>>

\* Mutant: the lock is released before the record is removed.
ReadRecordReleased(h) ==
    /\ Move(h, "withdrawing", IF record = h THEN "removing" ELSE "releasing")
    /\ lock' = NoHost
    /\ UNCHANGED <<count, busy, path, record, client>>

\* Mutant: the record is compared with another epoch than the host's own.
KeepRecord(h) ==
    /\ Move(h, "withdrawing", IF record \notin {h, NoHost} THEN "removing" ELSE "releasing")
    /\ UNCHANGED <<count, busy, files, client>>

\* remove_registration: is the record this host's own?
ReadRecord(h) ==
    /\ Move(h, "withdrawing", IF record = h THEN "removing" ELSE "releasing")
    /\ UNCHANGED <<count, busy, files, client>>

\* ... then whatever record there is now is removed.
RemoveRecord(h) ==
    /\ Move(h, "removing", "releasing")
    /\ record' = NoHost
    /\ UNCHANGED <<count, busy, path, lock, client>>

\* The ownership is dropped; the process is still there.
Release(h) ==
    /\ Move(h, "releasing", "exiting")
    /\ lock' = NoHost
    /\ UNCHANGED <<count, busy, path, record, client>>

Exit(h) == phase[h] = "exiting" /\ End(h, "exited")

\* The process is killed.
Crash(h) == Alive(h) /\ End(h, "crashed")

HostStep(h) ==
    \/ Unlink(h) \/ Bind(h) \/ TryAcquire(h) \/ Register(h) \/ IdleShutdown(h)
    \/ Drained(h) \/ ReadRecord(h) \/ RemoveRecord(h) \/ Release(h) \/ Exit(h)

Next ==
    \/ \E c \in Clients : Arrive(c) \/ ClientStep(c) \/ StartTurn(c) \/ Leave(c)
    \/ \E h \in Hosts :
         \/ HostStep(h) \/ Signal(h) \/ EndTurn(h) \/ Crash(h)
         \/ \E c \in Clients : Accept(h, c)

Spec == Init /\ [][Next]_vars

\* Processes that can run do; that anybody comes or goes, that a turn ends,
\* and that a process is killed or signalled is up to others.
FairSpec ==
    /\ Spec
    /\ \A c \in Clients : WF_vars(ClientStep(c))
    /\ \A h \in Hosts : WF_vars(HostStep(h))
    /\ \A h \in Hosts : \A c \in Clients : WF_vars(Accept(h, c))

-----------------------------------------------------------------------------
(* What the election promises.                                             *)

TypeOK ==
    /\ phase \in [Hosts -> Phases]
    /\ count \in [Hosts -> 0 .. Cardinality(Clients)]
    /\ busy \in [Hosts -> BOOLEAN]
    /\ path \in Hosts \cup {NoHost}
    /\ lock \in Hosts \cup {NoHost}
    /\ record \in Hosts \cup {NoHost}
    /\ client \in [Clients -> Client]

\* Until it has released the lock, a host that serves clients or runs a turn,
\* accepting or draining, is the only one: the store has one writer.
AtWork(h) ==
    /\ phase[h] \notin {"exiting", "exited", "crashed"}
    /\ busy[h] \/ At(h, "connected") # {}

OneHostWorks == \A h, g \in Hosts : AtWork(h) /\ AtWork(g) => h = g

\* A serving host stays registered: no host that starts, loses, drains or is
\* killed removes or replaces the record of a live owner.
ServingIsRegistered == \A h \in Hosts : phase[h] = "serving" => record = h

\* A record that is not the lock holder's is what a killed process left: an
\* orderly shutdown leaves nothing for clients to dial in vain.
RecordIsOwners ==
    record # NoHost => lock = record \/ phase[record] = "crashed"

\* "The record advertises the socket endpoint + host epoch so a client can
\* find and connect to the owner": the endpoint of a serving owner is its own.
\* The code does not keep it: README, Findings.
OwnerReachable == \A h \in Hosts : phase[h] = "serving" => path = h

\* connect_or_spawn returns: it never waits forever at a host that is about to
\* exit, whoever wins, loses, drains or dies meanwhile.
ConnectReturns ==
    \A c \in Clients :
        client[c].pc \notin {"away", "connected"} ~> client[c].pc \in {"away", "connected"}

\* An owner whose endpoint was taken, and who has no client and none to come,
\* makes room: the root does not stay owned by a host nobody can reach.
UnreachableOwnerLeaves ==
    \A h \in Hosts :
        /\ phase[h] = "serving" /\ path # h
        /\ At(h, "waiting") \cup At(h, "connected") = {}
        ~> ~Alive(h)

-----------------------------------------------------------------------------
(* The inductive invariant behind OneHostWorks, ServingIsRegistered and    *)
(* RecordIsOwners.                                                         *)

ElectionType ==
    /\ phase \in [Hosts -> Phases]
    /\ busy \in [Hosts -> BOOLEAN]
    /\ path \in Hosts \cup {NoHost}
    /\ lock \in Hosts \cup {NoHost}
    /\ record \in Hosts \cup {NoHost}
    /\ client \in [Clients -> Client]

\* The lock is held exactly from the election to the release.
OwnerPhases == {"owner", "serving", "draining", "withdrawing", "removing", "releasing"}
LockIsPhase == \A h \in Hosts : phase[h] \in OwnerPhases <=> lock = h

\* The record is the owner's from its writing until it is removed, and gone
\* when the lock is released.
RecordIsPhase ==
    \A h \in Hosts :
        /\ phase[h] \in {"serving", "draining", "withdrawing", "removing"} => record = h
        /\ phase[h] = "releasing" => record # h

\* Only a host that accepts or has accepted connections has clients and turns.
WorkPhases == {"serving", "draining", "withdrawing", "removing", "releasing", "exiting"}
WorkIsPhase ==
    /\ \A h \in Hosts : busy[h] => phase[h] \in WorkPhases
    /\ \A c \in Clients : client[c].pc = "connected" =>
         client[c].host \in Hosts /\ phase[client[c].host] \in WorkPhases

ElectionInv ==
    ElectionType /\ LockIsPhase /\ RecordIsPhase /\ RecordIsOwners /\ WorkIsPhase
====
