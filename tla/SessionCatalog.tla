---- MODULE SessionCatalog ----
(***************************************************************************)
(* The session catalog: one row per session, changed by any connection     *)
(* under optimistic concurrency.  A patch names the revision it was made   *)
(* for and is refused when the row is at another.  The requests that name  *)
(* none (the read marker and the archive switch) read the row first and    *)
(* are then patches for the revision they read; a creation inserts its row *)
(* unless there is one, and then reads back what is stored.  Each access   *)
(* of the store is a step.                                                 *)
(***************************************************************************)
EXTENDS Naturals

CONSTANTS
    Sessions,     \* session ids
    Clients,      \* connections, with one request at a time
    MaxRevision,  \* bound: the largest revision a row reaches
    MaxBirths     \* bound: how often a session id is created

ASSUME CatalogAssumption ==
    /\ MaxRevision \in Nat \ {0}
    /\ MaxBirths \in Nat

Fields == {"name", "labels", "cwd", "config", "marker", "lifecycle"}

\* What a field holds: its first value, or what it was patched to; a value
\* is named for the client that chose it.
Contents ==
    {f \in [Fields -> Clients \cup {"none", "active", "archived"}] :
        f["lifecycle"] \in {"active", "archived"}}

\* A row as it is stored, and as clients receive it.  "born" tells a row from
\* one of the same id that was removed before; the program has no such number.
Record == [revision : 1..MaxRevision, born : 0..MaxBirths, content : Contents]
NoRecord == [revision |-> 0, born |-> 0]

\* The patches made for a revision that the handler reads.
Patches == [{"marker"} -> Clients] \cup [{"lifecycle"} -> {"active", "archived"}]

VARIABLES
    rows,      \* [Sessions -> Record \cup {NoRecord}]: the table
    births,    \* [Sessions -> Nat]: how many rows a session id has had
    seen,      \* [Clients -> [Sessions -> Record]]: each client's last view of a row
    request,   \* [Clients -> Request]: the request between two accesses of the store
    overtaken  \* [Clients -> [Sessions -> BOOLEAN]]: the row has changed since it was seen

vars == <<rows, births, seen, request, overtaken>>

\* "own" is the record a creation built; "patch" what a rebased request applies.
Idle == [pc |-> "idle"]
Request ==
    {Idle} \cup [pc : {"stored"}, session : Sessions, own : Record]
           \cup [pc : {"rebase"}, session : Sessions, patch : Patches]

TypeOK ==
    /\ rows \in [Sessions -> Record \cup {NoRecord}]
    /\ births \in [Sessions -> 0..MaxBirths]
    /\ seen \in [Clients -> [Sessions -> Record \cup {NoRecord}]]
    /\ request \in [Clients -> Request]
    /\ overtaken \in [Clients -> [Sessions -> BOOLEAN]]

Init ==
    /\ rows = [s \in Sessions |-> NoRecord]
    /\ births = [s \in Sessions |-> 0]
    /\ seen = [c \in Clients |-> [s \in Sessions |-> NoRecord]]
    /\ request = [c \in Clients |-> Idle]
    /\ overtaken = [c \in Clients |-> [s \in Sessions |-> FALSE]]

-----------------------------------------------------------------------------
(* The store *)

See(c, s, record) ==
    /\ seen' = [seen EXCEPT ![c][s] = record]
    /\ overtaken' = [overtaken EXCEPT ![c][s] = FALSE]

\* The row of s changes, to the notice of the client that changes it alone.
Change(c, s, record) ==
    /\ rows' = [rows EXCEPT ![s] = record]
    /\ seen' = [seen EXCEPT ![c][s] = record]
    /\ overtaken' = [d \in Clients |->
                      [overtaken[d] EXCEPT ![s] = IF d = c THEN FALSE ELSE TRUE]]

\* Mutant: reading on is not worth a revision.
PatchedQuietly(record, patch) ==
    [record EXCEPT !.revision = IF DOMAIN patch = {"marker"} THEN @ ELSE @ + 1,
                   !.content = [f \in Fields |-> IF f \in DOMAIN patch THEN patch[f] ELSE @[f]]]

Patched(record, patch) ==
    [record EXCEPT !.revision = @ + 1,
                   !.content = [f \in Fields |-> IF f \in DOMAIN patch THEN patch[f] ELSE @[f]]]

\* Mutant: the row is updated whatever its revision.
CommitsAnyway(c, s) == rows[s] # NoRecord

\* The row is there and at the revision the client last saw: 0 if it saw none.
Commits(c, s) == rows[s] # NoRecord /\ rows[s].revision = seen[c][s].revision

\* A revision-checked patch: committed, and answered with the new record, or
\* refused with the revision the row is at (0 if there is none).
ApplyPatch(c, s, patch) ==
    \/ /\ Commits(c, s)
       /\ rows[s].revision < MaxRevision
       /\ Change(c, s, Patched(rows[s], patch))
    \/ /\ ~Commits(c, s)
       /\ UNCHANGED <<rows, seen, overtaken>>

-----------------------------------------------------------------------------
(* The handlers *)

\* session.create: the row is inserted unless the id has one.
Create(c, s, name) ==
    LET own == [revision |-> 1, born |-> births[s] + 1,
                content |-> [f \in Fields |->
                    IF f = "lifecycle" THEN "active"
                    ELSE IF f \in {"name", "labels", "cwd"} THEN name ELSE "none"]]
    IN  /\ request[c] = Idle
        /\ births[s] < MaxBirths
        /\ IF rows[s] = NoRecord
           THEN /\ Change(c, s, own)
                /\ births' = [births EXCEPT ![s] = @ + 1]
                /\ request' = [request EXCEPT ![c] =
                                [pc |-> "stored", session |-> s, own |-> own]]
           ELSE /\ request' = [request EXCEPT ![c] =
                                [pc |-> "stored", session |-> s,
                                 own |-> [own EXCEPT !.born = 0]]]
                /\ UNCHANGED <<rows, births, seen, overtaken>>

\* ... and what is stored is read back; when it cannot be, or is gone again,
\* the answer is the record the creation was for ("born" 0: never stored).
CreateReadsBack(c) ==
    /\ request[c].pc = "stored"
    /\ LET s == request[c].session IN
       \/ rows[s] # NoRecord /\ See(c, s, rows[s])
       \/ /\ seen' = [seen EXCEPT ![c][s] = request[c].own]
          /\ overtaken' = [overtaken EXCEPT ![c][s] = rows[s] # request[c].own]
    /\ request' = [request EXCEPT ![c] = Idle]
    /\ UNCHANGED <<rows, births>>

\* session.catalog.query: every row at once.
CatalogQuery(c) ==
    /\ request[c] = Idle
    /\ seen' = [seen EXCEPT ![c] = rows]
    /\ overtaken' = [overtaken EXCEPT ![c] = [s \in Sessions |-> FALSE]]
    /\ UNCHANGED <<rows, births, request>>

\* The requests that name a revision: any of the two metadata fields, the
\* configuration, or the working directory.
PatchedFields == (SUBSET {"name", "labels"}) \cup {{"config"}, {"cwd"}}

Update(c, s, fields) ==
    /\ request[c] = Idle
    /\ ApplyPatch(c, s, [f \in fields |-> c])
    /\ UNCHANGED <<births, request>>

\* session.read_marker.set and session.lifecycle.set: the row's revision is
\* read (without a row the request is invalid) ...
Rebase(c, s, patch) ==
    /\ request[c] = Idle
    /\ rows[s] # NoRecord
    /\ See(c, s, rows[s])
    /\ request' = [request EXCEPT ![c] = [pc |-> "rebase", session |-> s, patch |-> patch]]
    /\ UNCHANGED <<rows, births>>

ReadMarkerSet(c, s) == Rebase(c, s, [f \in {"marker"} |-> c])

LifecycleSet(c, s, lifecycle) == Rebase(c, s, [f \in {"lifecycle"} |-> lifecycle])

\* ... and the patch applied for that revision.
ApplyRebased(c) ==
    /\ request[c].pc = "rebase"
    /\ ApplyPatch(c, request[c].session, request[c].patch)
    /\ request' = [request EXCEPT ![c] = Idle]
    /\ UNCHANGED births

\* session.remove: done as well when there was no row.
Remove(c, s) ==
    /\ request[c] = Idle
    /\ rows[s] # NoRecord
    /\ Change(c, s, NoRecord)
    /\ UNCHANGED <<births, request>>

Next ==
    \E c \in Clients :
        \/ \E s \in Sessions :
             \/ Create(c, s, c)
             \/ \E fields \in PatchedFields : Update(c, s, fields)
             \/ ReadMarkerSet(c, s)
             \/ \E lifecycle \in {"active", "archived"} : LifecycleSet(c, s, lifecycle)
             \/ Remove(c, s)
        \/ CreateReadsBack(c)
        \/ ApplyRebased(c)
        \/ CatalogQuery(c)

Spec == Init /\ [][Next]_vars

-----------------------------------------------------------------------------
(* Properties *)

\* Within the life of one row a revision names one content: of the row and of
\* all the records clients still hold of it, those with the same revision are
\* the same (a record that was never stored has no life).  It is what a check
\* of the revision alone stands on.
RevisionNamesContent ==
    \A s \in Sessions :
        LET held == {rows[s]} \cup {seen[c][s] : c \in Clients} IN
        \A a, b \in held :
            /\ a # NoRecord /\ b # NoRecord
            /\ a.born = b.born /\ a.born # 0 /\ a.revision = b.revision
            => a = b

\* A patch is decided by what happened since its client (or its handler) saw
\* the row, whoever did it and however the requests overtook one another: one
\* that commits was not overtaken, so it undoes nothing its author had not
\* seen; one that is refused was overtaken.  Only a removed and re-created
\* session, whose revisions begin again, can be taken for the one that was seen.
RefusedIfOvertaken ==
    [][\A c \in Clients, s \in Sessions :
         LET commits == /\ births' = births
                        /\ rows'[s] \notin {rows[s], NoRecord}
                        /\ seen'[c][s] = rows'[s]
             refused == request[c].pc = "rebase" /\ request'[c] = Idle
                        /\ request[c].session = s /\ rows'[s] = rows[s]
         IN  /\ commits => ~overtaken[c][s] \/ rows[s].born # seen[c][s].born
             /\ refused => overtaken[c][s]]_vars

-----------------------------------------------------------------------------
(* The inductive invariant behind both.                                     *)

\* The records of s that are stored, seen, or about to be answered.
Held(s) ==
    {rows[s]} \cup {seen[c][s] : c \in Clients}
    \cup {request[c].own : c \in {d \in Clients : request[d].pc = "stored" /\ request[d].session = s}}

\* A stored row is its id's last, and no row has life 0.
RowIsLastBorn ==
    \A s \in Sessions : rows[s] # NoRecord => rows[s].born = births[s] /\ births[s] > 0

\* No record is of a life to come, nor ahead of the row in the row's own life.
NoneIsAhead ==
    \A s \in Sessions : \A r \in Held(s) :
        r # NoRecord =>
          /\ r.born <= births[s]
          /\ rows[s] # NoRecord /\ r.born = rows[s].born => r.revision <= rows[s].revision

\* Of one life and revision there is one record.
HeldAgree ==
    \A s \in Sessions : \A a, b \in Held(s) :
        /\ a # NoRecord /\ b # NoRecord
        /\ a.born = b.born /\ a.born # 0 /\ a.revision = b.revision
        => a = b

\* Whether the row is still the one that a client saw.
OvertakenIsChanged ==
    \A c \in Clients, s \in Sessions :
        /\ ~overtaken[c][s] => seen[c][s] = rows[s]
        /\ overtaken[c][s] /\ seen[c][s] # NoRecord => seen[c][s] # rows[s]

RebasedSaw ==
    \A c \in Clients :
        request[c].pc = "rebase" => seen[c][request[c].session] # NoRecord
====
