---- MODULE SessionCatalogProofs ----
(***************************************************************************)
(* What a revision is worth in the session catalog, for any sessions,      *)
(* clients, revisions and re-creations.                                    *)
(***************************************************************************)
EXTENDS SessionCatalog, TLAPS

CatalogInv ==
    /\ TypeOK
    /\ RowIsLastBorn
    /\ NoneIsAhead
    /\ HeldAgree
    /\ OvertakenIsChanged
    /\ RebasedSaw

-----------------------------------------------------------------------------
(* The records that are held                                               *)

\* Every held record is a record, or stands for a row that is not there.
LEMMA HeldType ==
    ASSUME TypeOK, NEW s \in Sessions
    PROVE  Held(s) \subseteq Record \cup {NoRecord}
<1>1. \A c \in Clients : request[c].pc = "stored" => request[c].own \in Record
  BY DEF TypeOK, Request, Idle
<1> QED
  BY <1>1 DEF Held, TypeOK

\* A record has a revision and a life; the absent one is of life 0.
LEMMA RecordNumbers ==
    /\ \A r \in Record : r.revision \in Nat /\ r.revision > 0 /\ r.born \in Nat /\ r # NoRecord
    /\ NoRecord.revision = 0 /\ NoRecord.born = 0
  BY CatalogAssumption DEF Record, NoRecord

\* What joins the held records of s keeps them in agreement, when it is of no
\* life, the first of a new life, or the row's next revision.
LEMMA HeldStep ==
    ASSUME TypeOK, RowIsLastBorn, NoneIsAhead, HeldAgree,
           NEW s \in Sessions, NEW record \in Record \cup {NoRecord},
           \A t \in Sessions : t # s =>
               Held(t)' \subseteq Held(t) /\ rows'[t] = rows[t] /\ births'[t] = births[t],
           Held(s)' \subseteq Held(s) \cup {record},
           \/ /\ record.born = 0
              /\ rows'[s] \in {rows[s], NoRecord}
              /\ births'[s] = births[s]
           \/ /\ rows[s] = NoRecord /\ rows'[s] = record /\ record # NoRecord
              /\ record.born = births[s] + 1 /\ births'[s] = births[s] + 1
           \/ /\ rows[s] # NoRecord /\ rows'[s] = record /\ record # NoRecord
              /\ record.born = rows[s].born /\ record.revision = rows[s].revision + 1
              /\ births'[s] = births[s]
    PROVE  RowIsLastBorn' /\ NoneIsAhead' /\ HeldAgree'
<1>1. /\ rows[s] \in Record \cup {NoRecord} /\ births[s] \in Nat
      /\ \A t \in Sessions : Held(t) \subseteq Record \cup {NoRecord}
  BY HeldType, CatalogAssumption DEF TypeOK
<1>2. RowIsLastBorn'
  BY <1>1 DEF RowIsLastBorn
<1>3. ASSUME NEW t \in Sessions, t # s
      PROVE  /\ \A r \in Held(t)' : r # NoRecord =>
                  /\ r.born <= births'[t]
                  /\ rows'[t] # NoRecord /\ r.born = rows'[t].born =>
                       r.revision <= rows'[t].revision
             /\ \A a, b \in Held(t)' :
                  /\ a # NoRecord /\ b # NoRecord
                  /\ a.born = b.born /\ a.born # 0 /\ a.revision = b.revision
                  => a = b
  <2>1. Held(t)' \subseteq Held(t) /\ rows'[t] = rows[t] /\ births'[t] = births[t]
    BY <1>3
  <2>2. \A r \in Held(t)' : r # NoRecord =>
                  /\ r.born <= births'[t]
                  /\ rows'[t] # NoRecord /\ r.born = rows'[t].born =>
                       r.revision <= rows'[t].revision
    BY <2>1 DEF NoneIsAhead
  <2> QED
    BY <2>1, <2>2 DEF HeldAgree
<1> DEFINE H == Held(s)
           G == Held(s)'
<1>4. /\ \A r \in H : r \in Record \cup {NoRecord}
      /\ \A r \in H : r # NoRecord =>
           /\ r.born <= births[s]
           /\ rows[s] # NoRecord /\ r.born = rows[s].born => r.revision <= rows[s].revision
      /\ \A a, b \in H :
           /\ a # NoRecord /\ b # NoRecord
           /\ a.born = b.born /\ a.born # 0 /\ a.revision = b.revision
           => a = b
  BY <1>1 DEF NoneIsAhead, HeldAgree
<1>5. G \subseteq H \cup {record}
  OBVIOUS
<1>6. rows[s] # NoRecord => rows[s].born = births[s] /\ births[s] > 0
  BY DEF RowIsLastBorn
<1> HIDE DEF H, G
<1>7. /\ \A r \in G : r # NoRecord =>
           /\ r.born <= births'[s]
           /\ rows'[s] # NoRecord /\ r.born = rows'[s].born => r.revision <= rows'[s].revision
      /\ \A a, b \in G :
           /\ a # NoRecord /\ b # NoRecord
           /\ a.born = b.born /\ a.born # 0 /\ a.revision = b.revision
           => a = b
  <2>1. CASE /\ record.born = 0
             /\ rows'[s] \in {rows[s], NoRecord}
             /\ births'[s] = births[s]
    BY <1>1, <1>4, <1>5, <1>6, <2>1, RecordNumbers
  <2>2. CASE /\ rows[s] = NoRecord /\ rows'[s] = record /\ record # NoRecord
             /\ record.born = births[s] + 1 /\ births'[s] = births[s] + 1
    BY <1>1, <1>4, <1>5, <2>2, RecordNumbers
  <2>3. CASE /\ rows[s] # NoRecord /\ rows'[s] = record /\ record # NoRecord
             /\ record.born = rows[s].born /\ record.revision = rows[s].revision + 1
             /\ births'[s] = births[s]
    BY <1>1, <1>4, <1>5, <1>6, <2>3, RecordNumbers
  <2> QED
    BY <2>1, <2>2, <2>3
<1>8. NoneIsAhead'
  BY <1>3, <1>7 DEF NoneIsAhead, G
<1>9. HeldAgree'
  BY <1>3, <1>7 DEF HeldAgree, G
<1> QED
  BY <1>2, <1>8, <1>9

-----------------------------------------------------------------------------
(* The accesses of the store                                               *)

\* A change of a row is news to everybody but the client that makes it.
LEMMA ChangeAt ==
    ASSUME TypeOK, NEW c \in Clients, NEW s \in Sessions, NEW record, Change(c, s, record)
    PROVE  /\ \A t \in Sessions : rows'[t] = IF t = s THEN record ELSE rows[t]
           /\ \A d \in Clients, t \in Sessions :
                /\ seen'[d][t] = IF d = c /\ t = s THEN record ELSE seen[d][t]
                /\ overtaken'[d][t] = IF t = s THEN d # c ELSE overtaken[d][t]
<1>1. \A t \in Sessions : rows'[t] = IF t = s THEN record ELSE rows[t]
  BY DEF Change, TypeOK
<1>2. \A d \in Clients, t \in Sessions :
        seen'[d][t] = IF d = c /\ t = s THEN record ELSE seen[d][t]
  BY DEF Change, TypeOK
<1>3. \A d \in Clients, t \in Sessions :
        overtaken'[d][t] = IF t = s THEN d # c ELSE overtaken[d][t]
  <2> SUFFICES ASSUME NEW d \in Clients, NEW t \in Sessions
               PROVE  overtaken'[d][t] = IF t = s THEN d # c ELSE overtaken[d][t]
    OBVIOUS
  <2>1. overtaken'[d] = [overtaken[d] EXCEPT ![s] = IF d = c THEN FALSE ELSE TRUE]
    BY DEF Change
  <2>2. overtaken[d] \in [Sessions -> BOOLEAN]
    BY DEF TypeOK
  <2>3. CASE t = s
    BY <2>1, <2>2, <2>3
  <2>4. CASE t # s
    BY <2>1, <2>2, <2>4
  <2> QED
    BY <2>3, <2>4
<1> QED
  BY <1>1, <1>2, <1>3

\* Seeing and changing keep the types.
LEMMA SeeType ==
    ASSUME TypeOK, NEW c \in Clients, NEW s \in Sessions,
           NEW record \in Record \cup {NoRecord}, See(c, s, record)
    PROVE  /\ seen' \in [Clients -> [Sessions -> Record \cup {NoRecord}]]
           /\ overtaken' \in [Clients -> [Sessions -> BOOLEAN]]
  BY DEF See, TypeOK

LEMMA ChangeType ==
    ASSUME TypeOK, NEW c \in Clients, NEW s \in Sessions,
           NEW record \in Record \cup {NoRecord}, Change(c, s, record)
    PROVE  /\ rows' \in [Sessions -> Record \cup {NoRecord}]
           /\ seen' \in [Clients -> [Sessions -> Record \cup {NoRecord}]]
           /\ overtaken' \in [Clients -> [Sessions -> BOOLEAN]]
  BY DEF Change, TypeOK

\* A patch that gives fields what they may hold makes the next record of the
\* row's life.
LEMMA PatchedRecord ==
    ASSUME NEW r \in Record, r.revision < MaxRevision, NEW patch,
           DOMAIN patch \subseteq Fields,
           \A f \in DOMAIN patch :
               /\ patch[f] \in Clients \cup {"none", "active", "archived"}
               /\ f = "lifecycle" => patch[f] \in {"active", "archived"}
    PROVE  /\ Patched(r, patch) \in Record
           /\ Patched(r, patch).born = r.born
           /\ Patched(r, patch).revision = r.revision + 1
<1> DEFINE content == [f \in Fields |-> IF f \in DOMAIN patch THEN patch[f] ELSE r.content[f]]
<1>1. r.content \in Contents /\ r.revision \in 1..MaxRevision
  BY DEF Record
<1>2. content \in Contents
  <2>1. \A f \in Fields : content[f] \in Clients \cup {"none", "active", "archived"}
    BY <1>1 DEF Contents
  <2>2. "lifecycle" \in Fields
    BY DEF Fields
  <2>3. content["lifecycle"] \in {"active", "archived"}
    BY <1>1, <2>2 DEF Contents
  <2> QED
    BY <2>1, <2>3 DEF Contents
<1>3. r.revision + 1 \in 1..MaxRevision
  BY <1>1, CatalogAssumption
<1>4. Patched(r, patch) = [r EXCEPT !.revision = r.revision + 1, !.content = content]
  BY DEF Patched
<1> HIDE DEF content
<1> QED
  BY <1>2, <1>3, <1>4 DEF Record

\* A change is known to the client that makes it; to the others it is news, if
\* it makes no record that they have seen.
LEMMA ChangeTracked ==
    ASSUME TypeOK, OvertakenIsChanged, NEW c \in Clients, NEW s \in Sessions, NEW record,
           Change(c, s, record),
           \A d \in Clients : seen[d][s] # NoRecord => seen[d][s] # record
    PROVE  OvertakenIsChanged'
<1>a. /\ \A t \in Sessions : rows'[t] = IF t = s THEN record ELSE rows[t]
      /\ \A d \in Clients, t \in Sessions :
           /\ seen'[d][t] = IF d = c /\ t = s THEN record ELSE seen[d][t]
           /\ overtaken'[d][t] = IF t = s THEN d # c ELSE overtaken[d][t]
  BY ChangeAt
<1> SUFFICES ASSUME NEW d \in Clients, NEW t \in Sessions
             PROVE  /\ ~overtaken'[d][t] => seen'[d][t] = rows'[t]
                    /\ overtaken'[d][t] /\ seen'[d][t] # NoRecord => seen'[d][t] # rows'[t]
  BY DEF OvertakenIsChanged
<1>1. CASE t # s
  <2>1. /\ rows'[t] = rows[t] /\ seen'[d][t] = seen[d][t]
        /\ overtaken'[d][t] = overtaken[d][t]
    BY <1>1, <1>a
  <2> QED
    BY <2>1, Zenon DEF OvertakenIsChanged
<1>2. CASE t = s /\ d = c
  <2>1. rows'[t] = record /\ seen'[d][t] = record /\ overtaken'[d][t] = FALSE
    BY <1>2, <1>a
  <2> QED
    BY <2>1
<1>3. CASE t = s /\ d # c
  <2>1. rows'[t] = record /\ seen'[d][t] = seen[d][t] /\ overtaken'[d][t] = TRUE
    BY <1>3, <1>a
  <2> QED
    BY <1>3, <2>1
<1> QED
  BY <1>1, <1>2, <1>3

\* A patch refuses, or makes the row's next record; it keeps what is held in
\* agreement, and what each client knows of the row.
LEMMA PatchStep ==
    ASSUME CatalogInv, NEW c \in Clients, NEW s \in Sessions, NEW patch,
           DOMAIN patch \subseteq Fields,
           \A f \in DOMAIN patch :
               /\ patch[f] \in Clients \cup {"none", "active", "archived"}
               /\ f = "lifecycle" => patch[f] \in {"active", "archived"},
           ApplyPatch(c, s, patch), UNCHANGED births,
           request' \in [Clients -> Request],
           \A d \in Clients : request'[d] = request[d] \/ request'[d] = Idle
    PROVE  CatalogInv'
<1>1. \A d \in Clients : request'[d].pc # "idle" => request'[d] = request[d]
  BY DEF Idle
<1>2. CASE ~Commits(c, s) /\ UNCHANGED <<rows, seen, overtaken>>
  <2>1. \A t \in Sessions : Held(t)' \subseteq Held(t)
    BY <1>1, <1>2 DEF Held
  <2>2. RowIsLastBorn' /\ NoneIsAhead' /\ HeldAgree'
    BY <1>2, <2>1 DEF CatalogInv, RowIsLastBorn, NoneIsAhead, HeldAgree
  <2>3. RebasedSaw'
    BY <1>1, <1>2 DEF CatalogInv, RebasedSaw
  <2>4. TypeOK' /\ OvertakenIsChanged'
    BY <1>2 DEF CatalogInv, TypeOK, OvertakenIsChanged
  <2> QED
    BY <2>2, <2>3, <2>4 DEF CatalogInv
<1>3. CASE Commits(c, s) /\ rows[s].revision < MaxRevision /\ Change(c, s, Patched(rows[s], patch))
  <2> PICK later : later = Patched(rows[s], patch)
    OBVIOUS
  <2>1. rows[s] \in Record /\ rows[s] # NoRecord
    BY <1>3 DEF CatalogInv, TypeOK, Commits
  <2>2. /\ later \in Record /\ later.born = rows[s].born
        /\ later.revision = rows[s].revision + 1
    BY <1>3, <2>1, PatchedRecord
  <2>3. later # NoRecord /\ rows[s].revision \in Nat
    BY <2>1, <2>2, RecordNumbers
  <2>4. Change(c, s, later)
    BY <1>3
  <2>5. /\ \A t \in Sessions : rows'[t] = IF t = s THEN later ELSE rows[t]
        /\ \A d \in Clients, t \in Sessions :
             /\ seen'[d][t] = IF d = c /\ t = s THEN later ELSE seen[d][t]
             /\ overtaken'[d][t] = IF t = s THEN d # c ELSE overtaken[d][t]
    BY <2>4, ChangeAt DEF CatalogInv
  <2>6. /\ Held(s)' \subseteq Held(s) \cup {later}
        /\ \A t \in Sessions : t # s => Held(t)' \subseteq Held(t)
    BY <1>1, <2>5 DEF Held
  <2>7. RowIsLastBorn' /\ NoneIsAhead' /\ HeldAgree'
    BY <2>1, <2>2, <2>3, <2>5, <2>6, HeldStep DEF CatalogInv
  <2>8. TypeOK'
    BY <2>2, <2>4, ChangeType DEF CatalogInv, TypeOK
  <2>9. OvertakenIsChanged'
    <3>1. \A d \in Clients : seen[d][s] # NoRecord => seen[d][s] # later
      <4> SUFFICES ASSUME NEW d \in Clients, seen[d][s] # NoRecord, seen[d][s] = later
                   PROVE  FALSE
        OBVIOUS
      <4>1. seen[d][s] \in Held(s)
        BY DEF Held
      <4>2. later.revision <= rows[s].revision
        BY <2>1, <2>2, <4>1 DEF CatalogInv, NoneIsAhead
      <4> QED
        BY <2>2, <2>3, <4>2
    <3>2. OvertakenIsChanged
      BY DEF CatalogInv
    <3> QED
      BY <2>4, <3>1, <3>2, ChangeTracked DEF CatalogInv
  <2>10. RebasedSaw'
    BY <1>1, <2>3, <2>5 DEF CatalogInv, RebasedSaw, TypeOK, Request, Idle
  <2> QED
    BY <2>7, <2>8, <2>9, <2>10 DEF CatalogInv
<1> QED
  BY <1>2, <1>3 DEF ApplyPatch

\* A client that sees something of s, which is the row unless the client is
\* marked as overtaken, keeps the others' knowledge.
LEMMA SightTracked ==
    ASSUME OvertakenIsChanged, NEW c \in Clients, UNCHANGED rows,
           \A d \in Clients, t \in Sessions :
               d # c => seen'[d][t] = seen[d][t] /\ overtaken'[d][t] = overtaken[d][t],
           \A t \in Sessions :
               \/ seen'[c][t] = seen[c][t] /\ overtaken'[c][t] = overtaken[c][t]
               \/ overtaken'[c][t] = FALSE /\ seen'[c][t] = rows[t]
               \/ overtaken'[c][t] = TRUE /\ seen'[c][t] # rows[t]
    PROVE  OvertakenIsChanged'
<1> SUFFICES ASSUME NEW d \in Clients, NEW t \in Sessions
             PROVE  /\ ~overtaken'[d][t] => seen'[d][t] = rows'[t]
                    /\ overtaken'[d][t] /\ seen'[d][t] # NoRecord => seen'[d][t] # rows'[t]
  BY DEF OvertakenIsChanged
<1>1. CASE seen'[d][t] = seen[d][t] /\ overtaken'[d][t] = overtaken[d][t]
  BY <1>1, Zenon DEF OvertakenIsChanged
<1>2. CASE d = c /\ overtaken'[c][t] = FALSE /\ seen'[c][t] = rows[t]
  BY <1>2
<1>3. CASE d = c /\ overtaken'[c][t] = TRUE /\ seen'[c][t] # rows[t]
  BY <1>3
<1> QED
  BY <1>1, <1>2, <1>3

-----------------------------------------------------------------------------
(* The handlers                                                            *)

\* The catalog starts empty.
LEMMA CatalogInit == Init => CatalogInv
<1> SUFFICES ASSUME Init PROVE CatalogInv
  OBVIOUS
<1>1. \A s \in Sessions : Held(s) \subseteq {NoRecord}
  BY DEF Init, Held, Idle
<1>2. TypeOK
  BY CatalogAssumption DEF Init, TypeOK, Request
<1>3. RowIsLastBorn /\ NoneIsAhead /\ HeldAgree
  BY <1>1 DEF Init, RowIsLastBorn, NoneIsAhead, HeldAgree
<1>4. OvertakenIsChanged /\ RebasedSaw
  BY DEF Init, OvertakenIsChanged, RebasedSaw, Idle
<1> QED
  BY <1>2, <1>3, <1>4 DEF CatalogInv

\* A creation begins a life of the row, or leaves the one there is alone.
LEMMA CreateStep ==
    ASSUME CatalogInv, NEW c \in Clients, NEW s \in Sessions, Create(c, s, c)
    PROVE  CatalogInv'
<1> DEFINE content == [f \in Fields |->
                         IF f = "lifecycle" THEN "active"
                         ELSE IF f \in {"name", "labels", "cwd"} THEN c ELSE "none"]
           own == [revision |-> 1, born |-> births[s] + 1, content |-> content]
           lifeless == [own EXCEPT !.born = 0]
           asked(r) == [pc |-> "stored", session |-> s, own |-> r]
<1>1. births[s] \in 0..MaxBirths /\ births[s] < MaxBirths /\ request[c] = Idle
  BY DEF Create, CatalogInv, TypeOK
<1>2. content \in Contents
  BY DEF Contents, Fields
<1>3. /\ own \in Record /\ own # NoRecord
      /\ lifeless \in Record /\ lifeless.born = 0 /\ own.born = births[s] + 1
  <2>1. births[s] + 1 \in 0..MaxBirths /\ 1 \in 1..MaxRevision /\ 0 \in 0..MaxBirths
    BY <1>1, CatalogAssumption
  <2> HIDE DEF content
  <2> QED
    BY <1>2, <2>1 DEF Record, NoRecord
<1>4. \/ /\ rows[s] = NoRecord
         /\ Change(c, s, own)
         /\ births' = [births EXCEPT ![s] = @ + 1]
         /\ request' = [request EXCEPT ![c] = asked(own)]
      \/ /\ rows[s] # NoRecord
         /\ request' = [request EXCEPT ![c] = asked(lifeless)]
         /\ UNCHANGED <<rows, births, seen, overtaken>>
  BY DEF Create
<1> HIDE DEF own, lifeless
<1>5. \A r \in Record :
        asked(r) \in Request /\ asked(r).pc = "stored" /\ asked(r).session = s /\ asked(r).own = r
  BY DEF Request
<1>6. CASE /\ rows[s] = NoRecord
           /\ Change(c, s, own)
           /\ births' = [births EXCEPT ![s] = @ + 1]
           /\ request' = [request EXCEPT ![c] = asked(own)]
  <2>1. /\ \A t \in Sessions : rows'[t] = IF t = s THEN own ELSE rows[t]
        /\ \A d \in Clients, t \in Sessions :
             /\ seen'[d][t] = IF d = c /\ t = s THEN own ELSE seen[d][t]
             /\ overtaken'[d][t] = IF t = s THEN d # c ELSE overtaken[d][t]
    BY <1>6, ChangeAt DEF CatalogInv
  <2>2. /\ \A t \in Sessions : births'[t] = IF t = s THEN births[s] + 1 ELSE births[t]
        /\ births' \in [Sessions -> 0..MaxBirths]
    <3>1. births \in [Sessions -> 0..MaxBirths]
      BY DEF CatalogInv, TypeOK
    <3>2. births[s] + 1 \in 0..MaxBirths
      BY <1>1, CatalogAssumption
    <3> QED
      BY <1>6, <3>1, <3>2
  <2> HIDE DEF asked
  <2>3. \A d \in Clients : request'[d] = IF d = c THEN asked(own) ELSE request[d]
    BY <1>6 DEF CatalogInv, TypeOK
  <2>4. /\ Held(s)' \subseteq Held(s) \cup {own}
        /\ \A t \in Sessions : t # s => Held(t)' \subseteq Held(t)
    BY <1>3, <1>5, <2>1, <2>3 DEF Held
  <2>5. RowIsLastBorn' /\ NoneIsAhead' /\ HeldAgree'
    BY <1>3, <1>6, <2>1, <2>2, <2>4, HeldStep DEF CatalogInv
  <2>6. TypeOK'
    <3>1. request' \in [Clients -> Request]
      BY <1>3, <1>5, <1>6 DEF CatalogInv, TypeOK
    <3> QED
      BY <1>3, <1>6, <2>2, <3>1, ChangeType DEF CatalogInv, TypeOK
  <2>7. OvertakenIsChanged'
    <3>1. \A d \in Clients : seen[d][s] # NoRecord => seen[d][s] # own
      <4> SUFFICES ASSUME NEW d \in Clients, seen[d][s] # NoRecord, seen[d][s] = own
                   PROVE  FALSE
        OBVIOUS
      <4>1. seen[d][s] \in Held(s)
        BY DEF Held
      <4>2. own.born <= births[s]
        BY <4>1 DEF CatalogInv, NoneIsAhead
      <4> QED
        BY <1>1, <1>3, <4>2
    <3> QED
      BY <1>6, <3>1, ChangeTracked DEF CatalogInv
  <2>8. RebasedSaw'
    <3> SUFFICES ASSUME NEW d \in Clients, request'[d].pc = "rebase"
                 PROVE  seen'[d][request'[d].session] # NoRecord
      BY DEF RebasedSaw
    <3>1. d # c /\ request'[d] = request[d]
      BY <1>3, <1>5, <2>3
    <3>2. request[d].session \in Sessions
      BY <3>1 DEF CatalogInv, TypeOK, Request, Idle
    <3> QED
      BY <2>1, <3>1, <3>2 DEF CatalogInv, RebasedSaw
  <2> QED
    BY <2>5, <2>6, <2>7, <2>8 DEF CatalogInv
<1>7. CASE /\ rows[s] # NoRecord
           /\ request' = [request EXCEPT ![c] = asked(lifeless)]
           /\ UNCHANGED <<rows, births, seen, overtaken>>
  <2> HIDE DEF asked
  <2>1. \A d \in Clients : request'[d] = IF d = c THEN asked(lifeless) ELSE request[d]
    BY <1>7 DEF CatalogInv, TypeOK
  <2>2. /\ Held(s)' \subseteq Held(s) \cup {lifeless}
        /\ \A t \in Sessions : t # s => Held(t)' \subseteq Held(t)
    BY <1>3, <1>5, <1>7, <2>1 DEF Held
  <2>3. RowIsLastBorn' /\ NoneIsAhead' /\ HeldAgree'
    BY <1>3, <1>7, <2>2, HeldStep DEF CatalogInv
  <2>4. TypeOK'
    <3>1. request' \in [Clients -> Request]
      BY <1>3, <1>5, <1>7 DEF CatalogInv, TypeOK
    <3> QED
      BY <1>7, <3>1 DEF CatalogInv, TypeOK
  <2>5. OvertakenIsChanged'
    BY <1>7 DEF CatalogInv, OvertakenIsChanged
  <2>6. RebasedSaw'
    BY <1>3, <1>5, <1>7, <2>1 DEF CatalogInv, RebasedSaw
  <2> QED
    BY <2>3, <2>4, <2>5, <2>6 DEF CatalogInv
<1> QED
  BY <1>4, <1>6, <1>7

\* The answer to a creation is the stored row, or the record it was for.
LEMMA ReadBackStep ==
    ASSUME CatalogInv, NEW c \in Clients, CreateReadsBack(c)
    PROVE  CatalogInv'
<1> DEFINE s == request[c].session
           own == request[c].own
<1>1. /\ request[c].pc = "stored" /\ s \in Sessions /\ own \in Record
      /\ request' = [request EXCEPT ![c] = Idle] /\ UNCHANGED <<rows, births>>
  BY DEF CreateReadsBack, CatalogInv, TypeOK, Request, Idle
<1>2. PICK record \in Record \cup {NoRecord} :
        /\ record \in {rows[s], own}
        /\ \A d \in Clients, t \in Sessions :
             seen'[d][t] = IF d = c /\ t = s THEN record ELSE seen[d][t]
        /\ \A d \in Clients, t \in Sessions :
             d # c \/ t # s => overtaken'[d][t] = overtaken[d][t]
        /\ \/ overtaken'[c][s] = FALSE /\ record = rows[s]
           \/ overtaken'[c][s] = TRUE /\ record # rows[s]
        /\ seen' \in [Clients -> [Sessions -> Record \cup {NoRecord}]]
        /\ overtaken' \in [Clients -> [Sessions -> BOOLEAN]]
  <2>1. CASE rows[s] # NoRecord /\ See(c, s, rows[s])
    <3>1. rows[s] \in Record \cup {NoRecord}
      BY <1>1 DEF CatalogInv, TypeOK
    <3>2. /\ \A d \in Clients, t \in Sessions :
               /\ seen'[d][t] = IF d = c /\ t = s THEN rows[s] ELSE seen[d][t]
               /\ d = c /\ t = s => overtaken'[d][t] = FALSE
               /\ d # c \/ t # s => overtaken'[d][t] = overtaken[d][t]
      BY <1>1, <2>1 DEF See, CatalogInv, TypeOK
    <3>3. /\ seen' \in [Clients -> [Sessions -> Record \cup {NoRecord}]]
          /\ overtaken' \in [Clients -> [Sessions -> BOOLEAN]]
      BY <1>1, <2>1, <3>1, SeeType DEF CatalogInv
    <3> HIDE DEF s, own
    <3> QED
      BY <1>1, <3>1, <3>2, <3>3
  <2>2. CASE /\ seen' = [seen EXCEPT ![c][s] = own]
             /\ overtaken' = [overtaken EXCEPT ![c][s] = rows[s] # own]
    <3> HIDE DEF s, own
    <3>1. /\ seen \in [Clients -> [Sessions -> Record \cup {NoRecord}]]
          /\ overtaken \in [Clients -> [Sessions -> BOOLEAN]]
      BY DEF CatalogInv, TypeOK
    <3>2. \A d \in Clients, t \in Sessions :
            /\ seen'[d][t] = IF d = c /\ t = s THEN own ELSE seen[d][t]
            /\ d # c \/ t # s => overtaken'[d][t] = overtaken[d][t]
      BY <1>1, <2>2, <3>1
    <3>3. \/ overtaken'[c][s] = FALSE /\ own = rows[s]
          \/ overtaken'[c][s] = TRUE /\ own # rows[s]
      BY <1>1, <2>2, <3>1
    <3>4. /\ seen' \in [Clients -> [Sessions -> Record \cup {NoRecord}]]
          /\ overtaken' \in [Clients -> [Sessions -> BOOLEAN]]
      BY <1>1, <2>2, <3>1
    <3> QED
      BY <1>1, <3>2, <3>3, <3>4
  <2> QED
    BY <1>1, <2>1, <2>2 DEF CreateReadsBack
<1>3. rows[s] \in Held(s) /\ own \in Held(s)
  BY <1>1 DEF Held
<1> HIDE DEF s, own
<1>4. /\ \A d \in Clients : request'[d] = IF d = c THEN Idle ELSE request[d]
      /\ request' \in [Clients -> Request]
  BY <1>1 DEF CatalogInv, TypeOK, Request
<1>5. \A t \in Sessions : Held(t)' \subseteq Held(t)
  <2>1. \A d \in Clients : request'[d].pc = "stored" => request'[d] = request[d]
    BY <1>4 DEF Idle
  <2>2. \A d \in Clients, t \in Sessions :
          seen'[d][t] = seen[d][t] \/ (t = s /\ seen'[d][t] \in {rows[s], own})
    BY <1>2
  <2>3. ASSUME NEW t \in Sessions, NEW x \in Held(t)' PROVE x \in Held(t)
    <3>1. CASE x = rows'[t]
      BY <1>1, <3>1 DEF Held
    <3>2. ASSUME NEW d \in Clients, x = seen'[d][t] PROVE x \in Held(t)
      BY <1>3, <2>2, <3>2 DEF Held
    <3>3. ASSUME NEW d \in Clients, request'[d].pc = "stored", request'[d].session = t,
                 x = request'[d].own
          PROVE  x \in Held(t)
      BY <2>1, <3>3 DEF Held
    <3> QED
      BY <3>1, <3>2, <3>3 DEF Held
  <2> QED
    BY <2>3
<1>6. RowIsLastBorn' /\ NoneIsAhead' /\ HeldAgree'
  BY <1>1, <1>5 DEF CatalogInv, RowIsLastBorn, NoneIsAhead, HeldAgree
<1>7. TypeOK'
  BY <1>1, <1>2, <1>4 DEF CatalogInv, TypeOK
<1>8. OvertakenIsChanged'
  <2>1. \A t \in Sessions :
          \/ seen'[c][t] = seen[c][t] /\ overtaken'[c][t] = overtaken[c][t]
          \/ overtaken'[c][t] = FALSE /\ seen'[c][t] = rows[t]
          \/ overtaken'[c][t] = TRUE /\ seen'[c][t] # rows[t]
    BY <1>1, <1>2
  <2>2. \A d \in Clients, t \in Sessions :
          d # c => seen'[d][t] = seen[d][t] /\ overtaken'[d][t] = overtaken[d][t]
    BY <1>2
  <2> QED
    BY <1>1, <2>1, <2>2, SightTracked DEF CatalogInv
<1>9. RebasedSaw'
  <2> SUFFICES ASSUME NEW d \in Clients, request'[d].pc = "rebase"
               PROVE  seen'[d][request'[d].session] # NoRecord
    BY DEF RebasedSaw
  <2>1. d # c /\ request'[d] = request[d]
    BY <1>4 DEF Idle
  <2>2. request[d].session \in Sessions
    BY <2>1 DEF CatalogInv, TypeOK, Request, Idle
  <2> QED
    BY <1>2, <2>1, <2>2 DEF CatalogInv, RebasedSaw
<1> QED
  BY <1>6, <1>7, <1>8, <1>9 DEF CatalogInv

\* A query shows a client every row.
LEMMA QueryStep ==
    ASSUME CatalogInv, NEW c \in Clients, CatalogQuery(c)
    PROVE  CatalogInv'
<1>1. /\ request[c] = Idle /\ UNCHANGED <<rows, births, request>>
      /\ \A t \in Sessions : seen'[c][t] = rows[t] /\ overtaken'[c][t] = FALSE
      /\ \A d \in Clients, t \in Sessions :
           d # c => seen'[d][t] = seen[d][t] /\ overtaken'[d][t] = overtaken[d][t]
  BY DEF CatalogQuery, CatalogInv, TypeOK
<1>2. \A t \in Sessions : Held(t)' \subseteq Held(t)
  BY <1>1 DEF Held
<1>3. RowIsLastBorn' /\ NoneIsAhead' /\ HeldAgree'
  BY <1>1, <1>2 DEF CatalogInv, RowIsLastBorn, NoneIsAhead, HeldAgree
<1>4. TypeOK'
  BY DEF CatalogQuery, CatalogInv, TypeOK
<1>5. OvertakenIsChanged'
  BY <1>1, SightTracked DEF CatalogInv
<1>6. RebasedSaw'
  <2> SUFFICES ASSUME NEW d \in Clients, request'[d].pc = "rebase"
               PROVE  seen'[d][request'[d].session] # NoRecord
    BY DEF RebasedSaw
  <2>1. d # c /\ request'[d] = request[d]
    BY <1>1 DEF Idle
  <2>2. request[d].session \in Sessions
    BY <2>1 DEF CatalogInv, TypeOK, Request, Idle
  <2> QED
    BY <1>1, <2>1, <2>2 DEF CatalogInv, RebasedSaw
<1> QED
  BY <1>3, <1>4, <1>5, <1>6 DEF CatalogInv

\* A patch without a revision takes the one the row is at.
LEMMA RebaseStep ==
    ASSUME CatalogInv, NEW c \in Clients, NEW s \in Sessions, NEW patch \in Patches,
           Rebase(c, s, patch)
    PROVE  CatalogInv'
<1> DEFINE asked == [pc |-> "rebase", session |-> s, patch |-> patch]
<1>1. /\ request[c] = Idle /\ rows[s] # NoRecord /\ See(c, s, rows[s])
      /\ request' = [request EXCEPT ![c] = asked] /\ UNCHANGED <<rows, births>>
  BY DEF Rebase
<1>2. asked \in Request /\ asked.pc = "rebase" /\ asked.session = s
  BY DEF Request
<1> HIDE DEF asked
<1>3. /\ \A d \in Clients : request'[d] = IF d = c THEN asked ELSE request[d]
      /\ request' \in [Clients -> Request]
  BY <1>1, <1>2 DEF CatalogInv, TypeOK
<1>4. \A d \in Clients, t \in Sessions :
        /\ seen'[d][t] = IF d = c /\ t = s THEN rows[s] ELSE seen[d][t]
        /\ d = c /\ t = s => overtaken'[d][t] = FALSE
        /\ d # c \/ t # s => overtaken'[d][t] = overtaken[d][t]
  BY <1>1 DEF See, CatalogInv, TypeOK
<1>5. \A t \in Sessions : Held(t)' \subseteq Held(t)
  <2>1. \A d \in Clients : request'[d].pc = "stored" => request'[d] = request[d]
    BY <1>2, <1>3
  <2>2. \A d \in Clients, t \in Sessions : seen'[d][t] \in {rows[t], seen[d][t]}
    BY <1>4
  <2> QED
    BY <1>1, <2>1, <2>2 DEF Held
<1>6. RowIsLastBorn' /\ NoneIsAhead' /\ HeldAgree'
  BY <1>1, <1>5 DEF CatalogInv, RowIsLastBorn, NoneIsAhead, HeldAgree
<1>7. TypeOK'
  <2>1. rows[s] \in Record \cup {NoRecord}
    BY DEF CatalogInv, TypeOK
  <2> QED
    BY <1>1, <1>3, <2>1, SeeType DEF CatalogInv, TypeOK
<1>8. OvertakenIsChanged'
  <2>1. \A d \in Clients, t \in Sessions :
          d # c => seen'[d][t] = seen[d][t] /\ overtaken'[d][t] = overtaken[d][t]
    BY <1>4
  <2>2. \A t \in Sessions :
          \/ seen'[c][t] = seen[c][t] /\ overtaken'[c][t] = overtaken[c][t]
          \/ overtaken'[c][t] = FALSE /\ seen'[c][t] = rows[t]
    BY <1>4
  <2> QED
    BY <1>1, <2>1, <2>2, SightTracked DEF CatalogInv
<1>9. RebasedSaw'
  <2> SUFFICES ASSUME NEW d \in Clients, request'[d].pc = "rebase"
               PROVE  seen'[d][request'[d].session] # NoRecord
    BY DEF RebasedSaw
  <2>1. CASE d = c
    <3>1. request'[d].session = s
      BY <1>2, <1>3, <2>1
    <3>2. seen'[d][s] = rows[s]
      BY <1>4, <2>1
    <3> QED
      BY <1>1, <3>1, <3>2
  <2>2. CASE d # c
    <3>1. request'[d] = request[d] /\ request[d].session \in Sessions
      BY <1>3, <2>2 DEF CatalogInv, TypeOK, Request, Idle
    <3>2. seen'[d][request[d].session] = seen[d][request[d].session]
      BY <1>4, <2>2, <3>1
    <3> QED
      BY <3>1, <3>2 DEF CatalogInv, RebasedSaw
  <2> QED
    BY <2>1, <2>2
<1> QED
  BY <1>6, <1>7, <1>8, <1>9 DEF CatalogInv

\* A removal ends the row's life.
LEMMA RemoveStep ==
    ASSUME CatalogInv, NEW c \in Clients, NEW s \in Sessions, Remove(c, s)
    PROVE  CatalogInv'
<1>1. /\ request[c] = Idle /\ rows[s] # NoRecord /\ Change(c, s, NoRecord)
      /\ UNCHANGED <<births, request>>
  BY DEF Remove
<1>2. /\ \A t \in Sessions : rows'[t] = IF t = s THEN NoRecord ELSE rows[t]
      /\ \A d \in Clients, t \in Sessions :
           seen'[d][t] = IF d = c /\ t = s THEN NoRecord ELSE seen[d][t]
  BY <1>1, ChangeAt DEF CatalogInv
<1>3. /\ Held(s)' \subseteq Held(s) \cup {NoRecord}
      /\ \A t \in Sessions : t # s => Held(t)' \subseteq Held(t)
  BY <1>1, <1>2 DEF Held
<1>4. RowIsLastBorn' /\ NoneIsAhead' /\ HeldAgree'
  BY <1>1, <1>2, <1>3, HeldStep, RecordNumbers DEF CatalogInv
<1>5. TypeOK'
  BY <1>1, ChangeType DEF CatalogInv, TypeOK
<1>6. OvertakenIsChanged'
  BY <1>1, ChangeTracked DEF CatalogInv
<1>7. RebasedSaw'
  <2> SUFFICES ASSUME NEW d \in Clients, request'[d].pc = "rebase"
               PROVE  seen'[d][request'[d].session] # NoRecord
    BY DEF RebasedSaw
  <2>1. d # c /\ request'[d] = request[d]
    BY <1>1 DEF Idle
  <2>2. request[d].session \in Sessions
    BY <1>1, <2>1 DEF CatalogInv, TypeOK, Request, Idle
  <2> QED
    BY <1>2, <2>1, <2>2 DEF CatalogInv, RebasedSaw
<1> QED
  BY <1>4, <1>5, <1>6, <1>7 DEF CatalogInv

\* What the patches of the handlers give the fields.
LEMMA PatchesFit ==
    ASSUME NEW c \in Clients
    PROVE  /\ \A fields \in PatchedFields :
                /\ DOMAIN [f \in fields |-> c] \subseteq Fields
                /\ \A f \in DOMAIN [f \in fields |-> c] :
                     [g \in fields |-> c][f] \in Clients /\ f # "lifecycle"
           /\ \A patch \in Patches :
                /\ DOMAIN patch \subseteq Fields
                /\ \A f \in DOMAIN patch :
                     /\ patch[f] \in Clients \cup {"none", "active", "archived"}
                     /\ f = "lifecycle" => patch[f] \in {"active", "archived"}
<1>1. \A fields \in PatchedFields : fields \subseteq Fields /\ "lifecycle" \notin fields
  BY DEF PatchedFields, Fields
<1>2. \A patch \in Patches :
        /\ DOMAIN patch \subseteq Fields
        /\ \A f \in DOMAIN patch :
             /\ patch[f] \in Clients \cup {"none", "active", "archived"}
             /\ f = "lifecycle" => patch[f] \in {"active", "archived"}
  BY DEF Patches, Fields
<1> QED
  BY <1>1, <1>2

\* Every step of every handler keeps what revisions mean.
LEMMA CatalogStep == CatalogInv /\ [Next]_vars => CatalogInv'
<1> SUFFICES ASSUME CatalogInv, [Next]_vars PROVE CatalogInv'
  OBVIOUS
<1>1. ASSUME NEW c \in Clients, NEW s \in Sessions, Create(c, s, c) PROVE CatalogInv'
  BY <1>1, CreateStep
<1>2. ASSUME NEW c \in Clients, NEW s \in Sessions, NEW fields \in PatchedFields,
             Update(c, s, fields)
      PROVE  CatalogInv'
  <2> DEFINE patch == [f \in fields |-> c]
  <2>1. /\ DOMAIN patch \subseteq Fields
        /\ \A f \in DOMAIN patch :
             /\ patch[f] \in Clients \cup {"none", "active", "archived"}
             /\ f = "lifecycle" => patch[f] \in {"active", "archived"}
    BY PatchesFit
  <2>2. ApplyPatch(c, s, patch) /\ UNCHANGED births /\ UNCHANGED request
    BY <1>2 DEF Update
  <2>3. request' \in [Clients -> Request]
    BY <2>2 DEF CatalogInv, TypeOK
  <2> HIDE DEF patch
  <2> QED
    BY <2>1, <2>2, <2>3, PatchStep
<1>3. ASSUME NEW c \in Clients, NEW s \in Sessions, ReadMarkerSet(c, s) PROVE CatalogInv'
  <2>1. [f \in {"marker"} |-> c] \in Patches
    BY DEF Patches
  <2> QED
    BY <1>3, <2>1, RebaseStep DEF ReadMarkerSet
<1>4. ASSUME NEW c \in Clients, NEW s \in Sessions, NEW lifecycle \in {"active", "archived"},
             LifecycleSet(c, s, lifecycle)
      PROVE  CatalogInv'
  <2>1. [f \in {"lifecycle"} |-> lifecycle] \in Patches
    BY DEF Patches
  <2> QED
    BY <1>4, <2>1, RebaseStep DEF LifecycleSet
<1>5. ASSUME NEW c \in Clients, NEW s \in Sessions, Remove(c, s) PROVE CatalogInv'
  BY <1>5, RemoveStep
<1>6. ASSUME NEW c \in Clients, CreateReadsBack(c) PROVE CatalogInv'
  BY <1>6, ReadBackStep
<1>7. ASSUME NEW c \in Clients, ApplyRebased(c) PROVE CatalogInv'
  <2>1. /\ request[c].session \in Sessions /\ request[c].patch \in Patches
        /\ ApplyPatch(c, request[c].session, request[c].patch)
        /\ request' = [request EXCEPT ![c] = Idle] /\ UNCHANGED births
    BY <1>7 DEF ApplyRebased, CatalogInv, TypeOK, Request, Idle
  <2>2. /\ request' \in [Clients -> Request]
        /\ \A d \in Clients : request'[d] = request[d] \/ request'[d] = Idle
    BY <2>1 DEF CatalogInv, TypeOK, Request
  <2>3. PICK s \in Sessions, patch \in Patches : ApplyPatch(c, s, patch)
    BY <2>1
  <2>4. /\ DOMAIN patch \subseteq Fields
        /\ \A f \in DOMAIN patch :
             /\ patch[f] \in Clients \cup {"none", "active", "archived"}
             /\ f = "lifecycle" => patch[f] \in {"active", "archived"}
    BY PatchesFit
  <2> QED
    BY <2>1, <2>2, <2>3, <2>4, PatchStep
<1>8. ASSUME NEW c \in Clients, CatalogQuery(c) PROVE CatalogInv'
  BY <1>8, QueryStep
<1>9. CASE UNCHANGED vars
  BY <1>9 DEF vars, CatalogInv, TypeOK, RowIsLastBorn, NoneIsAhead, HeldAgree, Held,
              OvertakenIsChanged, RebasedSaw
<1> QED
  BY <1>1, <1>2, <1>3, <1>4, <1>5, <1>6, <1>7, <1>8, <1>9 DEF Next

-----------------------------------------------------------------------------

\* For any clients, sessions and re-creations a revision names one content in
\* the life of a row.
THEOREM RevisionAlwaysNames == Spec => []RevisionNamesContent
<1>1. CatalogInv => RevisionNamesContent
  <2> SUFFICES ASSUME CatalogInv, NEW s \in Sessions,
                      NEW a \in {rows[s]} \cup {seen[c][s] : c \in Clients},
                      NEW b \in {rows[s]} \cup {seen[c][s] : c \in Clients},
                      a # NoRecord, b # NoRecord,
                      a.born = b.born, a.born # 0, a.revision = b.revision
               PROVE  a = b
    BY DEF RevisionNamesContent
  <2>1. a \in Held(s) /\ b \in Held(s)
    BY DEF Held
  <2> QED
    BY <2>1 DEF CatalogInv, HeldAgree
<1> QED
  BY <1>1, CatalogInit, CatalogStep, PTL DEF Spec

-----------------------------------------------------------------------------
(* What decides a patch                                                    *)

\* A patch that commits changes a row that its client has not been overtaken
\* on, unless the row is of another life, into one that nobody has seen; one
\* that is refused leaves every row.
LEMMA PatchDecided ==
    ASSUME CatalogInv, NEW c \in Clients, NEW s \in Sessions, NEW patch,
           DOMAIN patch \subseteq Fields,
           \A f \in DOMAIN patch :
               /\ patch[f] \in Clients \cup {"none", "active", "archived"}
               /\ f = "lifecycle" => patch[f] \in {"active", "archived"},
           ApplyPatch(c, s, patch)
    PROVE  \/ ~Commits(c, s) /\ UNCHANGED rows
           \/ /\ ~overtaken[c][s] \/ rows[s].born # seen[c][s].born
              /\ rows'[s] # rows[s]
              /\ \A t \in Sessions : t # s => rows'[t] = rows[t]
              /\ \A d \in Clients : d # c => seen'[d][s] # rows'[s]
<1>1. CASE ~Commits(c, s) /\ UNCHANGED <<rows, seen, overtaken>>
  BY <1>1
<1>2. CASE Commits(c, s) /\ rows[s].revision < MaxRevision /\ Change(c, s, Patched(rows[s], patch))
  <2> PICK later : later = Patched(rows[s], patch)
    OBVIOUS
  <2>1. /\ rows[s] \in Record /\ rows[s] # NoRecord /\ rows[s].revision = seen[c][s].revision
        /\ rows[s].revision \in Nat /\ rows[s].revision > 0
        /\ seen[c][s] \in Record \cup {NoRecord}
    BY <1>2, RecordNumbers DEF CatalogInv, TypeOK, Commits
  <2>2. /\ later \in Record /\ later.born = rows[s].born
        /\ later.revision = rows[s].revision + 1
    BY <1>2, <2>1, PatchedRecord
  <2>3. Change(c, s, later)
    BY <1>2
  <2>4. /\ \A t \in Sessions : rows'[t] = IF t = s THEN later ELSE rows[t]
        /\ \A d \in Clients, t \in Sessions :
             seen'[d][t] = IF d = c /\ t = s THEN later ELSE seen[d][t]
    BY <2>3, ChangeAt DEF CatalogInv
  <2>5. later # rows[s] /\ later # NoRecord
    BY <2>1, <2>2, RecordNumbers
  <2>6. \A d \in Clients : seen[d][s] # later
    <3> SUFFICES ASSUME NEW d \in Clients, seen[d][s] = later PROVE FALSE
      OBVIOUS
    <3>1. seen[d][s] \in Held(s)
      BY DEF Held
    <3>2. later.revision <= rows[s].revision
      BY <2>1, <2>2, <2>5, <3>1 DEF CatalogInv, NoneIsAhead
    <3> QED
      BY <2>1, <2>2, <3>2
  <2>7. ~overtaken[c][s] \/ rows[s].born # seen[c][s].born
    <3> SUFFICES ASSUME overtaken[c][s], rows[s].born = seen[c][s].born PROVE FALSE
      OBVIOUS
    <3>1. seen[c][s] # NoRecord
      BY <2>1, RecordNumbers
    <3>2. rows[s] \in Held(s) /\ seen[c][s] \in Held(s)
      BY DEF Held
    <3>3. rows[s].born # 0
      BY <2>1 DEF CatalogInv, RowIsLastBorn
    <3>4. seen[c][s] = rows[s]
      BY <2>1, <3>1, <3>2, <3>3 DEF CatalogInv, HeldAgree
    <3> QED
      BY <3>1, <3>4 DEF CatalogInv, OvertakenIsChanged
  <2> QED
    BY <2>4, <2>5, <2>6, <2>7
<1> QED
  BY <1>1, <1>2 DEF ApplyPatch

\* A step of client c decides the patches of c alone.
LEMMA StepDecides ==
    ASSUME CatalogInv, Next, NEW d \in Clients, NEW t \in Sessions
    PROVE  /\ /\ births' = births
              /\ rows'[t] \notin {rows[t], NoRecord}
              /\ seen'[d][t] = rows'[t]
              => ~overtaken[d][t] \/ rows[t].born # seen[d][t].born
           /\ /\ request[d].pc = "rebase" /\ request'[d] = Idle
              /\ request[d].session = t /\ rows'[t] = rows[t]
              => overtaken[d][t]
<1> DEFINE commits == /\ births' = births
                      /\ rows'[t] \notin {rows[t], NoRecord}
                      /\ seen'[d][t] = rows'[t]
           refused == /\ request[d].pc = "rebase" /\ request'[d] = Idle
                      /\ request[d].session = t /\ rows'[t] = rows[t]
           fair == ~overtaken[d][t] \/ rows[t].born # seen[d][t].born
<1>1. ASSUME NEW c \in Clients, NEW s \in Sessions, Create(c, s, c)
      PROVE  ~commits /\ ~refused
  <2>1. \/ births' = [births EXCEPT ![s] = @ + 1]
        \/ UNCHANGED rows
    BY <1>1 DEF Create
  <2>2. births \in [Sessions -> 0..MaxBirths]
    BY DEF CatalogInv, TypeOK
  <2>3. births[s] \in Nat
    BY <2>2, CatalogAssumption
  <2>4. ~commits
    BY <2>1, <2>2, <2>3
  <2>5. request'[d] = request[d] \/ request[d].pc # "rebase"
    BY <1>1 DEF Create, Idle, CatalogInv, TypeOK
  <2> QED
    BY <2>4, <2>5 DEF Idle
<1>2. ASSUME NEW c \in Clients, NEW s \in Sessions, NEW fields \in PatchedFields,
             Update(c, s, fields)
      PROVE  (commits => fair) /\ ~refused
  <2> DEFINE patch == [f \in fields |-> c]
  <2>1. /\ DOMAIN patch \subseteq Fields
        /\ \A f \in DOMAIN patch :
             /\ patch[f] \in Clients \cup {"none", "active", "archived"}
             /\ f = "lifecycle" => patch[f] \in {"active", "archived"}
    BY PatchesFit
  <2>2. ApplyPatch(c, s, patch) /\ UNCHANGED request
    BY <1>2 DEF Update
  <2> HIDE DEF patch
  <2>3. commits => fair
    BY <2>1, <2>2, PatchDecided
  <2> QED
    BY <2>2, <2>3 DEF Idle
<1>3. ASSUME NEW c \in Clients, NEW s \in Sessions, NEW patch, Rebase(c, s, patch)
      PROVE  ~commits /\ ~refused
  BY <1>3 DEF Rebase, Idle, CatalogInv, TypeOK
<1>4. ASSUME NEW c \in Clients, NEW s \in Sessions, Remove(c, s)
      PROVE  ~commits /\ ~refused
  BY <1>4 DEF Remove, Change, Idle, CatalogInv, TypeOK
<1>5. ASSUME NEW c \in Clients, CreateReadsBack(c) PROVE ~commits /\ ~refused
  BY <1>5 DEF CreateReadsBack, Idle, CatalogInv, TypeOK
<1>6. ASSUME NEW c \in Clients, CatalogQuery(c) PROVE ~commits /\ ~refused
  BY <1>6 DEF CatalogQuery, Idle
<1>7. ASSUME NEW c \in Clients, ApplyRebased(c)
      PROVE  (commits => fair) /\ (refused => overtaken[d][t])
  <2>1. /\ request[c].session \in Sessions /\ request[c].patch \in Patches
        /\ ApplyPatch(c, request[c].session, request[c].patch)
        /\ request' = [request EXCEPT ![c] = Idle] /\ request[c].pc = "rebase"
    BY <1>7 DEF ApplyRebased, CatalogInv, TypeOK, Request, Idle
  <2>2. PICK s \in Sessions, patch \in Patches :
          ApplyPatch(c, s, patch) /\ s = request[c].session
    BY <2>1
  <2>3. /\ DOMAIN patch \subseteq Fields
        /\ \A f \in DOMAIN patch :
             /\ patch[f] \in Clients \cup {"none", "active", "archived"}
             /\ f = "lifecycle" => patch[f] \in {"active", "archived"}
    BY PatchesFit
  <2>4. commits => fair
    BY <2>2, <2>3, PatchDecided
  <2>5. ASSUME refused PROVE overtaken[d][t]
    <3>1. d = c
      BY <2>1, <2>5 DEF Idle, CatalogInv, TypeOK
    <3>2. t = s
      BY <2>2, <2>5, <3>1
    <3>3. ~Commits(c, s)
      BY <2>2, <2>3, <2>5, <3>2, PatchDecided
    <3>4. seen[c][s] # NoRecord
      BY <2>1, <2>2 DEF CatalogInv, RebasedSaw
    <3> QED
      BY <3>1, <3>2, <3>3, <3>4 DEF CatalogInv, OvertakenIsChanged, Commits
  <2> QED
    BY <2>4, <2>5
<1> QED
  BY <1>1, <1>2, <1>3, <1>4, <1>5, <1>6, <1>7 DEF Next, ReadMarkerSet, LifecycleSet

\* However requests overtake one another, a patch that commits undoes nothing
\* its author had not seen, and one that is refused was overtaken.
THEOREM RefusalsAreJust == Spec => RefusedIfOvertaken
<1>1. CatalogInv /\ Next =>
        \A c \in Clients, s \in Sessions :
         LET commits == /\ births' = births
                        /\ rows'[s] \notin {rows[s], NoRecord}
                        /\ seen'[c][s] = rows'[s]
             refused == request[c].pc = "rebase" /\ request'[c] = Idle
                        /\ request[c].session = s /\ rows'[s] = rows[s]
         IN  /\ commits => ~overtaken[c][s] \/ rows[s].born # seen[c][s].born
             /\ refused => overtaken[c][s]
  BY StepDecides
<1> QED
  BY <1>1, CatalogInit, CatalogStep, PTL DEF Spec, RefusedIfOvertaken
====
