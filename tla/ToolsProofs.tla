---- MODULE ToolsProofs ----
(***************************************************************************)
(* Theorems about Tools, for every value of its constants.  First what the *)
(* recursive functions of the edits compute, by induction on the number of *)
(* edits (the least number for which a claim fails); then an invariant of  *)
(* the steps, and from both that a call left alone acts at once.           *)
(***************************************************************************)
EXTENDS Tools, SequenceTheorems, FiniteSetTheorems, WellFoundedInduction, TLAPS

(* THE TEXTS *)

\* A non-empty set of naturals has a least element (the library's minimum
\* under a well-founded relation, for <).
LEMMA LeastNatural ==
  ASSUME NEW T \in SUBSET Nat, T # {}
  PROVE  \E x \in T : \A y \in T : x <= y
<1> DEFINE R == {ss \in Nat \X Nat : ss[1] < ss[2]}
<1>1. IsWellFoundedOn(R, Nat)
  BY NatLessThanWellFounded DEF OpToRel
<1> HIDE DEF R
<1>2. PICK x \in T : \A y \in T : ~ (<<y, x>> \in R)
  BY <1>1, WFMin
<1>3. \A y \in T : ~ (y < x)
  BY <1>2 DEF R
<1>4. QED
  BY <1>3, SMT

\* From s on, t goes from each number to the next by F.
Follows(t, s, F, N) == t[0] = s /\ \A n \in 1..N : t[n] = F[n][t[n - 1]]

\* There is such a function.
LEMMA RecursionExists ==
  ASSUME NEW S, NEW N \in Nat, NEW s \in S, NEW F \in [1..N -> [S -> S]]
  PROVE  \E t \in [0..N -> S] : Follows(t, s, F, N)
<1> DEFINE Good(k) == \E t \in [0..k -> S] :
                        t[0] = s /\ \A n \in 1..k : t[n] = F[n][t[n - 1]]
           Bad == {k \in 0..N : ~Good(k)}
<1>0. Good(0)
  <2> DEFINE t == [n \in 0..0 |-> s]
  <2>1. t \in [0..0 -> S] /\ t[0] = s /\ \A n \in 1..0 : t[n] = F[n][t[n - 1]]
    OBVIOUS
  <2> QED BY <2>1
<1>1. Bad = {}
  <2>1. SUFFICES ASSUME Bad # {} PROVE FALSE
    OBVIOUS
  <2>2. PICK k \in Bad : \A j \in Bad : k <= j
    <3>1. Bad \in SUBSET Nat
      OBVIOUS
    <3> QED BY <3>1, <2>1, LeastNatural
  <2>4. k # 0 /\ k - 1 \in 0..N /\ k \in 1..N /\ k - 1 \notin Bad
    <3> HIDE DEF Good
    <3> QED BY <2>2, <1>0
  <2>5. Good(k - 1)
    <3> HIDE DEF Good
    <3> QED BY <2>4
  <2>6. PICK t \in [0..(k - 1) -> S] :
               t[0] = s /\ \A n \in 1..(k - 1) : t[n] = F[n][t[n - 1]]
    BY <2>5
  <2> DEFINE u == [n \in 0..k |-> IF n = k THEN F[k][t[k - 1]] ELSE t[n]]
  <2>7. F[k][t[k - 1]] \in S
    <3>1. t[k - 1] \in S /\ k \in 1..N
      BY <2>2, <2>4, <2>6
    <3> QED BY <3>1
  <2>8. u \in [0..k -> S]
    BY <2>2, <2>7, <2>4
  <2>9. u[0] = s
    BY <2>6, <2>4
  <2>10. \A n \in 1..k : u[n] = F[n][u[n - 1]]
    <3>1. SUFFICES ASSUME NEW n \in 1..k PROVE u[n] = F[n][u[n - 1]]
      OBVIOUS
    <3>2. u[n - 1] = t[n - 1]
      BY <2>4
    <3>3. CASE n = k
      <4>1. u[k] = F[k][t[k - 1]]
        BY <2>4
      <4> HIDE DEF u
      <4> QED BY <3>2, <3>3, <4>1
    <3>4. CASE n # k
      <4>1. n \in 1..(k - 1) /\ u[n] = t[n]
        BY <3>4, <2>4
      <4> QED BY <2>6, <3>2, <4>1
    <3> QED BY <3>3, <3>4
  <2>11. Good(k)
    BY <2>8, <2>9, <2>10
  <2> QED BY <2>2, <2>11
<1>2. Good(N)
  <2> HIDE DEF Good
  <2> QED BY <1>1
<1> QED BY <1>2 DEF Follows

\* Words and what multi_edit puts in their place.
AnyWord == Words \cup {Placeholder}

\* An edit puts one word in the place of another, or changes nothing.
LEMMA ReplaceFirstType ==
  ASSUME NEW W, NEW text \in Seq(W), NEW e, e.new \in W
  PROVE  /\ ReplaceFirst(text, e) \in Seq(W)
         /\ DOMAIN ReplaceFirst(text, e) = DOMAIN text
<1> DEFINE places == Occurrences(text, e.old)
           first == CHOOSE i \in places : \A j \in places : i <= j
<1>1. CASE places = {}
  BY <1>1 DEF ReplaceFirst
<1>2. CASE places # {}
  <2>1. ReplaceFirst(text, e) = [text EXCEPT ![first] = e.new]
    BY <1>2 DEF ReplaceFirst
  <2> HIDE DEF first
  <2>2. /\ [text EXCEPT ![first] = e.new] \in Seq(W)
        /\ DOMAIN [text EXCEPT ![first] = e.new] = DOMAIN text
    <3>1. text \in [1..Len(text) -> W] /\ Len(text) \in Nat
      BY LenProperties
    <3>2. [text EXCEPT ![first] = e.new] \in [1..Len(text) -> W]
      BY <3>1
    <3> QED BY <3>1, <3>2, SeqDef
  <2> QED BY <2>1, <2>2
<1> QED BY <1>1, <1>2

\* The texts that TextsOf goes through.
LEMMA TextsOfSteps ==
  ASSUME NEW W, NEW text \in Seq(W), NEW E, NEW edits \in Seq(E), NEW f,
         \A e \in E : e.new \in W
  PROVE  /\ TextsOf(text, edits, f) \in [0..Len(edits) -> Seq(W)]
         /\ TextsOf(text, edits, f)[0] = text
         /\ \A n \in 1..Len(edits) : TextsOf(text, edits, f)[n] =
              IF edits[n].path = f THEN ReplaceFirst(TextsOf(text, edits, f)[n - 1], edits[n])
              ELSE TextsOf(text, edits, f)[n - 1]
<1> DEFINE N == Len(edits)
           Next1(x, n) == IF edits[n].path = f THEN ReplaceFirst(x, edits[n]) ELSE x
           F == [n \in 1..N |-> [x \in Seq(W) |-> Next1(x, n)]]
           Is(t) == t = [n \in 0..N |-> IF n = 0 THEN text ELSE Next1(t[n - 1], n)]
<1>1. N \in Nat /\ \A n \in 1..N : edits[n] \in E
  OBVIOUS
<1>2. \A x \in Seq(W), n \in 1..N : Next1(x, n) \in Seq(W)
  BY <1>1, ReplaceFirstType
<1> HIDE DEF Next1, N
<1>3. F \in [1..N -> [Seq(W) -> Seq(W)]]
  BY <1>2
<1>4. \A x \in Seq(W), n \in 1..N : F[n][x] = Next1(x, n)
  OBVIOUS
<1> HIDE DEF F
<1>5. PICK t \in [0..N -> Seq(W)] : Follows(t, text, F, N)
  BY <1>1, <1>3, RecursionExists
<1>6. \A n \in 1..N : t[n] = Next1(t[n - 1], n)
  <2>1. SUFFICES ASSUME NEW n \in 1..N PROVE t[n] = Next1(t[n - 1], n)
    OBVIOUS
  <2>2. n - 1 \in 0..N
    BY <1>1
  <2> QED BY <1>4, <1>5, <2>2 DEF Follows
<1>7. Is(t)
  <2> DEFINE u == [n \in 0..N |-> IF n = 0 THEN text ELSE Next1(t[n - 1], n)]
  <2>1. \A n \in 0..N : t[n] = u[n]
    BY <1>1, <1>5, <1>6 DEF Follows
  <2> QED BY <2>1, <1>5
<1>8. TextsOf(text, edits, f) = CHOOSE g : Is(g)
  BY Zenon DEF TextsOf, Next1, N
<1> DEFINE T == CHOOSE g : Is(g)
<1>9. Is(T)
  <2> HIDE DEF Is
  <2> QED BY <1>7, Zenon
<1> HIDE DEF T
<1>10. DOMAIN T = 0..N /\ T[0] = text /\ \A n \in 1..N : T[n] = Next1(T[n - 1], n)
  <2>1. DOMAIN T = 0..N
    BY <1>9
  <2>2. \A n \in 0..N : T[n] = IF n = 0 THEN text ELSE Next1(T[n - 1], n)
    BY <1>9, Zenon
  <2> QED BY <2>1, <2>2, <1>1
<1>11. \A n \in 0..N : T[n] \in Seq(W)
  <2> DEFINE Bad == {n \in 0..N : T[n] \notin Seq(W)}
  <2>1. SUFFICES ASSUME Bad # {} PROVE FALSE
    OBVIOUS
  <2>2. PICK k \in Bad : \A j \in Bad : k <= j
    <3>1. Bad \in SUBSET Nat
      OBVIOUS
    <3> QED BY <3>1, <2>1, LeastNatural
  <2>3. k \in 1..N /\ k - 1 \in 0..N /\ k - 1 \notin Bad
    BY <2>2, <1>1, <1>10
  <2>4. T[k - 1] \in Seq(W)
    BY <2>3
  <2> QED BY <2>2, <2>3, <2>4, <1>2, <1>10
<1>12. T \in [0..N -> Seq(W)]
  <2>1. T = [n \in 0..N |-> T[n]]
    BY <1>9
  <2> QED BY <2>1, <1>11
<1> QED BY <1>8, <1>10, <1>12 DEF T, N, Next1

\* The file systems that FilesInTurn goes through.
LEMMA FilesInTurnSteps ==
  ASSUME NEW fs \in FileSystems, NEW edits \in Seq(Edits)
  PROVE  /\ FilesInTurn(fs, edits) \in [0..Len(edits) -> FileSystems]
         /\ FilesInTurn(fs, edits)[0] = fs
         /\ \A n \in 1..Len(edits) : FilesInTurn(fs, edits)[n] =
              LET now == FilesInTurn(fs, edits)[n - 1]  e == edits[n] IN
              IF Fits(now, e) THEN [now EXCEPT ![e.path] = ReplaceFirst(@, e)] ELSE now
<1> DEFINE N == Len(edits)
           Next1(x, n) == IF Fits(x, edits[n])
                          THEN [x EXCEPT ![edits[n].path] = ReplaceFirst(@, edits[n])] ELSE x
           F == [n \in 1..N |-> [x \in FileSystems |-> Next1(x, n)]]
           Is(t) == t = [n \in 0..N |-> IF n = 0 THEN fs ELSE Next1(t[n - 1], n)]
<1>1. N \in Nat /\ \A n \in 1..N : edits[n] \in Edits
  OBVIOUS
<1>2. \A x \in FileSystems, n \in 1..N : Next1(x, n) \in FileSystems
  <2>1. SUFFICES ASSUME NEW x \in FileSystems, NEW n \in 1..N, Fits(x, edits[n])
                 PROVE  Next1(x, n) \in FileSystems
    OBVIOUS
  <2>2. edits[n].path \in Files /\ edits[n].new \in Words
    BY <1>1 DEF Edits
  <2>3. x[edits[n].path] \in Seq(Words)
    BY <2>1, <2>2 DEF Fits, FileSystems, Texts
  <2>4. ReplaceFirst(x[edits[n].path], edits[n]) \in Seq(Words)
    BY <2>2, <2>3, ReplaceFirstType
  <2> QED BY <2>1, <2>2, <2>4 DEF FileSystems, Texts
<1> HIDE DEF Next1, N
<1>3. F \in [1..N -> [FileSystems -> FileSystems]]
  BY <1>2
<1>4. \A x \in FileSystems, n \in 1..N : F[n][x] = Next1(x, n)
  OBVIOUS
<1> HIDE DEF F
<1>5. PICK t \in [0..N -> FileSystems] : Follows(t, fs, F, N)
  BY <1>1, <1>3, RecursionExists
<1>6. \A n \in 1..N : t[n] = Next1(t[n - 1], n)
  <2>1. SUFFICES ASSUME NEW n \in 1..N PROVE t[n] = Next1(t[n - 1], n)
    OBVIOUS
  <2>2. n - 1 \in 0..N
    BY <1>1
  <2> QED BY <1>4, <1>5, <2>2 DEF Follows
<1>7. Is(t)
  <2> DEFINE u == [n \in 0..N |-> IF n = 0 THEN fs ELSE Next1(t[n - 1], n)]
  <2>1. \A n \in 0..N : t[n] = u[n]
    BY <1>1, <1>5, <1>6 DEF Follows
  <2> QED BY <2>1, <1>5
<1>8. FilesInTurn(fs, edits) = CHOOSE g : Is(g)
  BY Zenon DEF FilesInTurn, Next1, N
<1> DEFINE T == CHOOSE g : Is(g)
<1>9. Is(T)
  <2> HIDE DEF Is
  <2> QED BY <1>7, Zenon
<1> HIDE DEF T
<1>10. DOMAIN T = 0..N /\ T[0] = fs /\ \A n \in 1..N : T[n] = Next1(T[n - 1], n)
  <2>1. DOMAIN T = 0..N
    BY <1>9
  <2>2. \A n \in 0..N : T[n] = IF n = 0 THEN fs ELSE Next1(T[n - 1], n)
    BY <1>9, Zenon
  <2> QED BY <2>1, <2>2, <1>1
<1>11. \A n \in 0..N : T[n] \in FileSystems
  <2> DEFINE Bad == {n \in 0..N : T[n] \notin FileSystems}
  <2>1. SUFFICES ASSUME Bad # {} PROVE FALSE
    OBVIOUS
  <2>2. PICK k \in Bad : \A j \in Bad : k <= j
    <3>1. Bad \in SUBSET Nat
      OBVIOUS
    <3> QED BY <3>1, <2>1, LeastNatural
  <2>3. k \in 1..N /\ k - 1 \in 0..N /\ k - 1 \notin Bad
    BY <2>2, <1>1, <1>10
  <2>4. T[k - 1] \in FileSystems
    BY <2>3
  <2> QED BY <2>2, <2>3, <2>4, <1>2, <1>10
<1>12. T \in [0..N -> FileSystems]
  <2>1. T = [n \in 0..N |-> T[n]]
    BY <1>9
  <2> QED BY <2>1, <1>11
<1> QED BY <1>8, <1>10, <1>12 DEF T, N, Next1

\* As long as every edit fits, the file system that the edits of several files go
\* through holds for each file what its own edits make of its text.
LEMMA FilesApart ==
  ASSUME NEW fs \in FileSystems, NEW edits \in Seq(Edits), NEW N \in 0..Len(edits),
         \A n \in 1..N : Fits(FilesInTurn(fs, edits)[n - 1], edits[n])
  PROVE  \A f \in Files : FilesInTurn(fs, edits)[N][f] =
           IF fs[f] = Missing THEN Missing ELSE TextsOf(fs[f], edits, f)[N]
<1> DEFINE g == FilesInTurn(fs, edits)
           T(f) == TextsOf(fs[f], edits, f)
           Same(n) == \A f \in Files : g[n][f] = IF fs[f] = Missing THEN Missing ELSE T(f)[n]
           Bad == {n \in 0..N : ~Same(n)}
<1>0. Len(edits) \in Nat /\ N \in 0..Len(edits) /\ \A n \in 1..Len(edits) : edits[n] \in Edits
  OBVIOUS
<1>1. /\ g \in [0..Len(edits) -> FileSystems]
      /\ g[0] = fs
      /\ \A n \in 1..Len(edits) : g[n] =
           IF Fits(g[n - 1], edits[n])
           THEN [g[n - 1] EXCEPT ![edits[n].path] = ReplaceFirst(@, edits[n])] ELSE g[n - 1]
  BY FilesInTurnSteps
<1>2. ASSUME NEW f \in Files, fs[f] # Missing
      PROVE  /\ T(f)[0] = fs[f]
             /\ \A n \in 1..Len(edits) : T(f)[n] =
                  IF edits[n].path = f THEN ReplaceFirst(T(f)[n - 1], edits[n]) ELSE T(f)[n - 1]
  <2>1. fs[f] \in Seq(Words) /\ \A e \in Edits : e.new \in Words
    BY <1>2 DEF FileSystems, Texts, Edits
  <2> QED BY <2>1, TextsOfSteps
<1>3. \A n \in 1..N : Fits(g[n - 1], edits[n])
  OBVIOUS
<1> HIDE DEF g, T
<1>4. Bad = {}
  <2>1. SUFFICES ASSUME Bad # {} PROVE FALSE
    OBVIOUS
  <2>2. PICK k \in Bad : \A j \in Bad : k <= j
    <3>1. Bad \in SUBSET Nat
      OBVIOUS
    <3> QED BY <3>1, <2>1, LeastNatural
  <2>3. Same(0)
    BY <1>1, <1>2
  <2> HIDE DEF Same
  <2>4. k \in 1..N /\ k - 1 \in 0..N /\ k - 1 \notin Bad /\ k \in 1..Len(edits)
    BY <1>0, <2>2, <2>3
  <2>5. Same(k - 1)
    BY <2>4
  <2>6. Same(k)
    <3>1. SUFFICES ASSUME NEW f \in Files
                   PROVE  g[k][f] = IF fs[f] = Missing THEN Missing ELSE T(f)[k]
      BY DEF Same
    <3>2. g[k - 1][f] = IF fs[f] = Missing THEN Missing ELSE T(f)[k - 1]
      BY <2>5 DEF Same
    <3>3. g[k] = [g[k - 1] EXCEPT ![edits[k].path] = ReplaceFirst(@, edits[k])]
      BY <1>1, <1>3, <2>4
    <3>4. g[k - 1] \in [Files -> Texts \cup {Missing}] /\ edits[k].path \in Files
      <4>1. k - 1 \in 0..Len(edits)
        BY <2>4, <1>0
      <4> QED BY <4>1, <1>0, <1>1, <2>4 DEF FileSystems, Edits
    <3>5. CASE edits[k].path = f
      <4>1. g[k - 1][f] # Missing
        BY <1>3, <2>4, <3>5 DEF Fits
      <4>2. fs[f] # Missing /\ g[k - 1][f] = T(f)[k - 1]
        BY <3>2, <4>1
      <4>3. g[k][f] = ReplaceFirst(g[k - 1][f], edits[k])
        BY <3>3, <3>4, <3>5
      <4> QED BY <4>2, <4>3, <1>2, <2>4, <3>5
    <3>6. CASE edits[k].path # f
      <4>1. g[k][f] = g[k - 1][f]
        BY <3>3, <3>4, <3>6
      <4>2. CASE fs[f] = Missing
        BY <4>1, <4>2, <3>2
      <4>3. CASE fs[f] # Missing
        BY <4>1, <4>3, <3>2, <1>2, <2>4, <3>6
      <4> QED BY <4>2, <4>3
    <3> QED BY <3>5, <3>6
  <2> QED BY <2>2, <2>6
<1>5. Same(N)
  <2>1. N \in 0..N
    BY <1>0
  <2> HIDE DEF Same
  <2> QED BY <2>1, <1>4
<1> QED BY <1>5 DEF g, T

\* A list of edits fits in turn, file by file: the file is there, and each of its
\* edits finds its word once in what the edits before it have made of the text.
FitsFile(fs, edits, f) ==
    /\ fs[f] # Missing
    /\ \A n \in DOMAIN edits :
         edits[n].path = f => Unique(TextsOf(fs[f], edits, f)[n - 1], edits[n].old)

\* What EditInTurn says of the whole is what is so of each file.
LEMMA InTurnIsFileByFile ==
  ASSUME NEW fs \in FileSystems, NEW edits \in Seq(Edits),
         NEW P, P = {edits[i].path : i \in DOMAIN edits}
  PROVE  LET inTurn == EditInTurn(fs, edits) IN
         /\ inTurn.outcome = IF \A f \in P : FitsFile(fs, edits, f) THEN "ok" ELSE "refused"
         /\ (\A f \in P : FitsFile(fs, edits, f)) =>
               \A f \in P : inTurn.files[f] = Applied(fs[f], edits, f)
<1> DEFINE g == FilesInTurn(fs, edits)
           Fit(n) == Fits(g[n - 1], edits[n])
<1>1. Len(edits) \in Nat /\ DOMAIN edits = 1..Len(edits) /\ \A n \in 1..Len(edits) : edits[n] \in Edits
  OBVIOUS
<1>2. P \subseteq Files
  BY <1>1 DEF Edits
<1>3. ASSUME NEW N \in 0..Len(edits), \A n \in 1..N : Fit(n)
      PROVE  \A f \in Files : g[N][f] = IF fs[f] = Missing THEN Missing ELSE TextsOf(fs[f], edits, f)[N]
  BY <1>3, FilesApart
<1> HIDE DEF g
<1>4. CASE \A n \in DOMAIN edits : Fit(n)
  <2>1. \A f \in P : FitsFile(fs, edits, f)
    <3>1. SUFFICES ASSUME NEW f \in P PROVE FitsFile(fs, edits, f)
      OBVIOUS
    <3>2. ASSUME NEW n \in DOMAIN edits, edits[n].path = f
          PROVE  fs[f] # Missing /\ Unique(TextsOf(fs[f], edits, f)[n - 1], edits[n].old)
      <4>1. n - 1 \in 0..Len(edits) /\ \A m \in 1..(n - 1) : m \in DOMAIN edits
        BY <1>1
      <4>2. g[n - 1][f] = IF fs[f] = Missing THEN Missing ELSE TextsOf(fs[f], edits, f)[n - 1]
        <5> HIDE DEF Fit
        <5> QED BY <4>1, <1>2, <1>3, <1>4
      <4>3. g[n - 1][f] # Missing /\ Unique(g[n - 1][f], edits[n].old)
        BY <1>4, <3>2 DEF Fits
      <4> QED BY <4>2, <4>3
    <3>3. \E n \in DOMAIN edits : edits[n].path = f
      OBVIOUS
    <3> QED BY <3>2, <3>3 DEF FitsFile
  <2>2. EditInTurn(fs, edits) = [outcome |-> "ok", files |-> g[Len(edits)]]
    BY <1>4 DEF EditInTurn, g
  <2>3. \A f \in P : g[Len(edits)][f] = Applied(fs[f], edits, f)
    <3>1. SUFFICES ASSUME NEW f \in P PROVE g[Len(edits)][f] = Applied(fs[f], edits, f)
      OBVIOUS
    <3>2. fs[f] # Missing
      BY <2>1 DEF FitsFile
    <3>3. Len(edits) \in 0..Len(edits) /\ \A n \in 1..Len(edits) : Fit(n)
      <4> HIDE DEF Fit
      <4> QED BY <1>1, <1>4
    <3>4. g[Len(edits)][f] = IF fs[f] = Missing THEN Missing ELSE TextsOf(fs[f], edits, f)[Len(edits)]
      <4> HIDE DEF Fit
      <4> QED BY <3>3, <1>2, <1>3
    <3> QED BY <3>2, <3>4 DEF Applied
  <2> QED BY <2>1, <2>2, <2>3
<1>5. CASE ~ \A n \in DOMAIN edits : Fit(n)
  <2> DEFINE Bad == {n \in DOMAIN edits : ~Fit(n)}
  <2> HIDE DEF Fit
  <2>1. PICK k \in Bad : \A j \in Bad : k <= j
    <3>1. Bad \in SUBSET Nat /\ Bad # {}
      BY <1>1, <1>5
    <3> QED BY <3>1, LeastNatural
  <2>2. k \in DOMAIN edits /\ k - 1 \in 0..Len(edits) /\ \A n \in 1..(k - 1) : Fit(n)
    BY <1>1, <2>1
  <2>3. PICK f \in P : f = edits[k].path
    BY <2>2
  <2>4. g[k - 1][f] = IF fs[f] = Missing THEN Missing ELSE TextsOf(fs[f], edits, f)[k - 1]
    BY <1>2, <1>3, <2>2
  <2>5. g[k - 1][f] = Missing \/ ~Unique(g[k - 1][f], edits[k].old)
    BY <2>1, <2>3 DEF Fits, Fit
  <2>6. ~FitsFile(fs, edits, f)
    <3>1. ASSUME fs[f] # Missing PROVE TextsOf(fs[f], edits, f)[k - 1] # Missing
      <4>1. fs[f] \in Seq(Words) /\ \A e \in Edits : e.new \in Words
        BY <3>1, <1>2 DEF FileSystems, Texts, Edits
      <4>2. TextsOf(fs[f], edits, f) \in [0..Len(edits) -> Seq(Words)]
        BY <4>1, TextsOfSteps
      <4> QED BY <4>2, <2>2, ToolsAssumption DEF Texts
    <3> QED BY <3>1, <2>2, <2>3, <2>4, <2>5 DEF FitsFile
  <2>7. EditInTurn(fs, edits) = [outcome |-> "refused"]
    BY <1>5, Zenon DEF EditInTurn, g, Fit
  <2> QED BY <2>3, <2>6, <2>7
<1> QED BY <1>4, <1>5

\* The places that are looked at with placeholders are those of the text itself, as
\* long as no edit replaces a word that another one brings in, or the placeholder:
\* where the texts differ, one has the placeholder and the other a word that was brought in.
LEMMA PlaceholderHides ==
  ASSUME NEW text \in Seq(Words), NEW edits \in Seq(Edits), NEW f,
         \A i, j \in DOMAIN edits :
            i # j /\ edits[i].path = edits[j].path => edits[j].old \notin {edits[i].new, Placeholder}
  PROVE  \A n \in 1..Len(edits) : edits[n].path = f =>
           Occurrences(TextsOf(text, WithPlaceholder(edits), f)[n - 1], edits[n].old)
             = Occurrences(TextsOf(text, edits, f)[n - 1], edits[n].old)
<1> DEFINE N == Len(edits)
           t == TextsOf(text, edits, f)
           p == TextsOf(text, WithPlaceholder(edits), f)
           Alike(n) ==
             /\ DOMAIN p[n] = DOMAIN t[n]
             /\ \A i \in DOMAIN t[n] :
                  \/ p[n][i] = t[n][i]
                  \/ /\ p[n][i] = Placeholder
                     /\ \E m \in 1..n : edits[m].path = f /\ t[n][i] = edits[m].new
           Bad == {n \in 0..N : ~Alike(n)}
           w == WithPlaceholder(edits)
<1>1. /\ N \in Nat /\ DOMAIN edits = 1..N
      /\ \A n \in 1..N : edits[n] \in Edits /\ edits[n].new \in Words /\ edits[n].old \in Words
  <2>1. N \in Nat /\ DOMAIN edits = 1..N /\ \A n \in 1..N : edits[n] \in Edits
    OBVIOUS
  <2>2. \A e \in Edits : e.new \in Words /\ e.old \in Words
    BY DEF Edits
  <2> HIDE DEF N
  <2> QED BY <2>1, <2>2
<1>2. /\ w \in Seq([path : Files, old : Words, new : AnyWord]) /\ Len(w) = N
      /\ \A n \in 1..N : w[n].path = edits[n].path /\ w[n].old = edits[n].old /\ w[n].new = Placeholder
  <2> DEFINE E == [path : Files, old : Words, new : AnyWord]
  <2>1. w = [n \in 1..N |-> [edits[n] EXCEPT !.new = Placeholder]]
    BY <1>1 DEF WithPlaceholder
  <2>2. \A n \in 1..N : [edits[n] EXCEPT !.new = Placeholder] \in E
    BY <1>1 DEF Edits, AnyWord
  <2>3. w \in [1..N -> E]
    BY <2>1, <2>2
  <2>4. w \in Seq(E) /\ Len(w) = N
    <3> HIDE DEF w, E, N
    <3> QED BY <2>3, <1>1, SeqDef
  <2>5. \A n \in 1..N : w[n].path = edits[n].path /\ w[n].old = edits[n].old /\ w[n].new = Placeholder
    BY <2>1, <1>1 DEF Edits
  <2> QED BY <2>4, <2>5
<1>3. /\ t \in [0..N -> Seq(Words)] /\ t[0] = text
      /\ \A n \in 1..N : t[n] = IF edits[n].path = f THEN ReplaceFirst(t[n - 1], edits[n]) ELSE t[n - 1]
  <2>1. \A e \in Edits : e.new \in Words
    BY DEF Edits
  <2> QED BY <2>1, TextsOfSteps
<1>4. /\ p \in [0..N -> Seq(AnyWord)] /\ p[0] = text
      /\ \A n \in 1..N : p[n] = IF w[n].path = f THEN ReplaceFirst(p[n - 1], w[n]) ELSE p[n - 1]
  <2> DEFINE E == [path : Files, old : Words, new : AnyWord]
  <2>1. \A e \in E : e.new \in AnyWord
    OBVIOUS
  <2>2. text \in Seq(AnyWord)
    BY SeqMonotonic DEF AnyWord
  <2> HIDE DEF E, w
  <2>3. w \in Seq(E)
    BY <1>2 DEF E
  <2>4. /\ TextsOf(text, w, f) \in [0..Len(w) -> Seq(AnyWord)]
        /\ TextsOf(text, w, f)[0] = text
        /\ \A n \in 1..Len(w) : TextsOf(text, w, f)[n] =
             IF w[n].path = f THEN ReplaceFirst(TextsOf(text, w, f)[n - 1], w[n])
             ELSE TextsOf(text, w, f)[n - 1]
    BY <2>1, <2>2, <2>3, TextsOfSteps
  <2>5. p = TextsOf(text, w, f)
    BY DEF w
  <2> HIDE DEF p
  <2> QED BY <1>2, <2>4, <2>5
<1> HIDE DEF t, p, w, N
<1>5. ASSUME NEW n \in 1..N, Alike(n - 1), edits[n].path = f
      PROVE  Occurrences(p[n - 1], edits[n].old) = Occurrences(t[n - 1], edits[n].old)
  <2>1. ASSUME NEW i \in DOMAIN t[n - 1]
        PROVE  p[n - 1][i] = edits[n].old <=> t[n - 1][i] = edits[n].old
    <3>1. CASE p[n - 1][i] = t[n - 1][i]
      BY <3>1
    <3>2. CASE p[n - 1][i] # t[n - 1][i]
      <4>1. PICK m \in 1..(n - 1) : edits[m].path = f /\ t[n - 1][i] = edits[m].new
        BY <1>5, <2>1, <3>2
      <4>2. p[n - 1][i] = Placeholder
        BY <1>5, <2>1, <3>2
      <4>3. m \in DOMAIN edits /\ n \in DOMAIN edits /\ m # n
        BY <1>1, <4>1
      <4>4. edits[n].old \notin {edits[m].new, Placeholder}
        BY <4>1, <4>3, <1>5
      <4> QED BY <4>1, <4>2, <4>4
    <3> QED BY <3>1, <3>2
  <2> QED BY <1>5, <2>1 DEF Occurrences
<1>6. Bad = {}
  <2>1. SUFFICES ASSUME Bad # {} PROVE FALSE
    OBVIOUS
  <2>2. PICK k \in Bad : \A j \in Bad : k <= j
    <3>1. Bad \in SUBSET Nat
      BY <1>1
    <3> QED BY <3>1, <2>1, LeastNatural
  <2>3. Alike(0)
    BY <1>3, <1>4
  <2>4. k \in 1..N /\ k - 1 \in 0..N /\ k - 1 \notin Bad
    <3> HIDE DEF Alike
    <3> QED BY <1>1, <2>2, <2>3
  <2>5. Alike(k - 1)
    <3> HIDE DEF Alike
    <3> QED BY <2>4
  <2>6. Alike(k)
    <3>1. CASE edits[k].path # f
      <4>1. p[k] = p[k - 1] /\ t[k] = t[k - 1]
        BY <1>2, <1>3, <1>4, <2>4, <3>1
      <4>2. \A m \in 1..(k - 1) : m \in 1..k
        BY <1>1, <2>4
      <4> QED BY <2>5, <4>1, <4>2
    <3>2. CASE edits[k].path = f
      <4> DEFINE places == Occurrences(t[k - 1], edits[k].old)
                 first == CHOOSE i \in places : \A j \in places : i <= j
      <4>1. Occurrences(p[k - 1], w[k].old) = places
        BY <1>2, <1>5, <2>4, <2>5, <3>2
      <4>2. p[k] = ReplaceFirst(p[k - 1], w[k]) /\ t[k] = ReplaceFirst(t[k - 1], edits[k])
        BY <1>2, <1>3, <1>4, <2>4, <3>2
      <4>3. \A m \in 1..(k - 1) : m \in 1..k
        BY <1>1, <2>4
      <4>4. CASE places = {}
        <5>1. p[k] = p[k - 1] /\ t[k] = t[k - 1]
          BY <4>1, <4>2, <4>4 DEF ReplaceFirst
        <5> QED BY <2>5, <5>1, <4>3
      <4>5. CASE places # {}
        <5>1. t[k] = [t[k - 1] EXCEPT ![first] = edits[k].new]
          BY <4>2, <4>5 DEF ReplaceFirst
        <5>2. p[k] = [p[k - 1] EXCEPT ![first] = w[k].new]
          BY <4>1, <4>2, <4>5 DEF ReplaceFirst
        <5> HIDE DEF first
        <5>3. t[k - 1] \in Seq(Words) /\ p[k - 1] \in Seq(AnyWord)
          BY <1>3, <1>4, <2>4
        <5>4. DOMAIN t[k] = DOMAIN t[k - 1] /\ DOMAIN p[k] = DOMAIN p[k - 1]
          BY <5>1, <5>2, <5>3
        <5>5. ASSUME NEW i \in DOMAIN t[k]
              PROVE  \/ p[k][i] = t[k][i]
                     \/ /\ p[k][i] = Placeholder
                        /\ \E m \in 1..k : edits[m].path = f /\ t[k][i] = edits[m].new
          <6>0. i \in DOMAIN t[k - 1] /\ i \in DOMAIN p[k - 1]
            BY <5>4, <5>5, <2>5
          <6>1. CASE i = first
            <7>1. t[k][i] = edits[k].new /\ p[k][i] = Placeholder
              BY <5>1, <5>2, <6>0, <6>1, <1>2, <2>4
            <7>2. k \in 1..k
              BY <1>1, <2>4
            <7> QED BY <7>1, <7>2, <3>2
          <6>2. CASE i # first
            <7>1. t[k][i] = t[k - 1][i] /\ p[k][i] = p[k - 1][i]
              BY <5>1, <5>2, <6>0, <6>2
            <7> QED BY <7>1, <6>0, <2>5, <4>3
          <6> QED BY <6>1, <6>2
        <5> QED BY <5>4, <5>5, <2>5
      <4> QED BY <4>4, <4>5
    <3> QED BY <3>1, <3>2
  <2> HIDE DEF Alike
  <2> QED BY <2>2, <2>6
<1>7. ASSUME NEW n \in 1..N, edits[n].path = f
      PROVE  Occurrences(p[n - 1], edits[n].old) = Occurrences(t[n - 1], edits[n].old)
  <2>1. Alike(n - 1)
    <3>1. n - 1 \in 0..N
      BY <1>1
    <3> HIDE DEF Alike
    <3> QED BY <3>1, <1>6
  <2> HIDE DEF Alike
  <2> QED BY <1>5, <1>7, <2>1
<1> QED BY <1>7 DEF t, p, w, N

\* What multi_edit checks of a file with placeholders is whether its edits fit in turn.
LEMMA CheckedIsInTurn ==
  ASSUME NEW fs \in FileSystems, NEW edits \in Seq(Edits), NEW f \in Files, fs[f] # Missing,
         \A i, j \in DOMAIN edits :
            i # j /\ edits[i].path = edits[j].path => edits[j].old \notin {edits[i].new, Placeholder}
  PROVE  AllUnique(fs[f], edits, f) <=> FitsFile(fs, edits, f)
<1>1. fs[f] \in Seq(Words)
  BY DEF FileSystems, Texts
<1>2. DOMAIN edits = 1..Len(edits)
  OBVIOUS
<1>3. \A n \in 1..Len(edits) : edits[n].path = f =>
           Occurrences(TextsOf(fs[f], WithPlaceholder(edits), f)[n - 1], edits[n].old)
             = Occurrences(TextsOf(fs[f], edits, f)[n - 1], edits[n].old)
  BY <1>1, PlaceholderHides
<1> QED BY <1>2, <1>3 DEF AllUnique, FitsFile, Unique

-----------------------------------------------------------------------------
(* THE CALLS *)

\* The files a call has left to read or to write.
Left(w) == ToSet(todo[w])

\* What a sandboxed shell may have written.
InsideShell(w) ==
    Sandboxed /\ call[w].tool = "bash" =>
        \A f \in wrote[w] : RootOf[f] = Cwd /\ \E i \in DOMAIN backends : backends[i]

\* Where a call is, and what it has left, read, touched and returned.
StageFacts(w) ==
    /\ pc[w] = "read" => /\ call[w].tool \in {"read_file", "edit", "multi_edit"}
                         /\ Left(w) = PathsOf(call[w])
    /\ pc[w] \in {"open", "fill"} =>
         /\ call[w].tool \in {"write_file", "edit", "multi_edit"}
         /\ todo[w] # <<>> /\ Left(w) \subseteq PathsOf(call[w])
         /\ call[w].tool # "write_file" => \A f \in PathsOf(call[w]) : texts[w][f] # Missing
    /\ pc[w] = "fill" => files[Head(todo[w])] # Missing
    /\ pc[w] = "shell" => call[w].tool = "bash"
    /\ Active(w) => \A i, j \in DOMAIN todo[w] : todo[w][i] = todo[w][j] => i = j
    /\ pc[w] \notin {"done", "idle"} => result[w] = "none"
    /\ pc[w] = "done" => result[w] # "none"
    /\ pc[w] \in {"read", "shell"} \/ result[w] = "refused" => wrote[w] = {}
    /\ InsideShell(w)

\* Two calls that meet on a file both know.
MeetingFacts ==
    \A v, w \in Workers :
        v # w /\ Active(v) /\ Active(w) /\ PathsOf(call[v]) \cap PathsOf(call[w]) # {} => shared[w]

\* The file was, when the call began, what the call asks of it.
FitFor(w, f) ==
    LET c == call[w]  text == before[w][f] IN
    /\ c.tool # "write_file" => text # Missing
    /\ c.tool = "edit" => Unique(text, c.old)
    /\ c.tool = "multi_edit" => AllUnique(text, c.edits, f)

\* A call that met no other.
Undisturbed(w) == Active(w) /\ ~shared[w] /\ call[w].tool # "bash"

\* Its files are as they were when it began but for what it has done itself; it
\* goes on to write when all of them were fit, with the texts they had.
AloneFacts(w) ==
    LET paths == PathsOf(call[w]) IN
    /\ pc[w] = "read" =>
         \A f \in paths : /\ files[f] = before[w][f]
                          /\ call[w].tool = "multi_edit" /\ texts[w][f] # Missing =>
                               texts[w][f] = before[w][f] /\ FitFor(w, f)
    /\ pc[w] \in {"open", "fill"} \/ (pc[w] = "done" /\ result[w] = "ok") =>
         \A f \in paths : /\ FitFor(w, f)
                          /\ call[w].tool \in {"edit", "multi_edit"} => texts[w][f] = before[w][f]
    /\ pc[w] \in {"open", "fill"} =>
         \A f \in paths :
            files[f] = IF f \notin Left(w) THEN TextFor(w, f)
                       ELSE IF pc[w] = "fill" /\ f = Head(todo[w]) THEN <<>> ELSE before[w][f]
    /\ pc[w] = "done" /\ result[w] = "ok" =>
         \A f \in paths : files[f] = IF call[w].tool = "read_file" THEN before[w][f] ELSE TextFor(w, f)
    /\ pc[w] = "done" /\ result[w] = "refused" =>
         /\ \A f \in paths : files[f] = before[w][f]
         /\ \E f \in paths : ~FitFor(w, f)

ToolsInv ==
    /\ TypeOK /\ MeetingFacts
    /\ \A w \in Workers : StageFacts(w)
    /\ \A w \in Workers : Undisturbed(w) => AloneFacts(w)

\* What the tools have in common of calls and sequences.

\* The calls, by tool.
LEMMA CallForms ==
  ASSUME NEW c \in ToolCalls
  PROVE  /\ c.tool \in {"read_file", "write_file", "edit", "multi_edit", "bash"}
         /\ PathsOf(c) \subseteq Files
         /\ c.tool \in {"read_file", "write_file", "edit"} => c.path \in Files /\ PathsOf(c) = {c.path}
         /\ c.tool = "write_file" => c.content \in Seq(Words)
         /\ c.tool = "edit" => c.new \in Words
         /\ c.tool = "multi_edit" =>
              /\ c.edits \in Seq(Edits) /\ c.edits # <<>>
              /\ PathsOf(c) = {c.edits[i].path : i \in DOMAIN c.edits}
         /\ c.tool = "bash" => PathsOf(c) = Files
         /\ c.tool # "bash" => PathsOf(c) # {}
<1>1. CASE c \in [tool : {"read_file"}, path : Files]
  BY <1>1 DEF PathsOf
<1>2. CASE c \in [tool : {"write_file"}, path : Files, content : Texts]
  BY <1>2 DEF PathsOf, Texts
<1>3. CASE c \in [tool : {"edit"}, path : Files, old : Words, new : Words]
  BY <1>3 DEF PathsOf
<1>4. CASE c \in [tool : {"multi_edit"}, edits : Seq(Edits) \ {<<>>}]
  <2>1. c.tool = "multi_edit" /\ c.edits \in Seq(Edits) /\ c.edits # <<>>
    BY <1>4
  <2>2. PathsOf(c) = {c.edits[i].path : i \in DOMAIN c.edits}
    BY <2>1 DEF PathsOf
  <2>3. \A i \in DOMAIN c.edits : c.edits[i].path \in Files
    <3>1. \A e \in Edits : e.path \in Files
      BY DEF Edits
    <3> QED BY <2>1, <3>1
  <2>4. 1 \in DOMAIN c.edits
    BY <2>1, EmptySeq
  <2> QED BY <2>1, <2>2, <2>3, <2>4
<1>5. CASE c \in [tool : {"bash"}]
  BY <1>5 DEF PathsOf
<1> QED BY <1>1, <1>2, <1>3, <1>4, <1>5 DEF ToolCalls

\* A sequence without its first element, and with it at the end.
LEMMA TailOfDistinct ==
  ASSUME NEW S, NEW s \in Seq(S), s # <<>>,
         \A i, j \in DOMAIN s : s[i] = s[j] => i = j
  PROVE  /\ Tail(s) \in Seq(S) /\ Head(s) \in ToSet(s)
         /\ ToSet(Tail(s)) = ToSet(s) \ {Head(s)}
         /\ \A i, j \in DOMAIN Tail(s) : Tail(s)[i] = Tail(s)[j] => i = j
<1>1. /\ Len(s) \in Nat \ {0} /\ DOMAIN s = 1..Len(s) /\ Head(s) = s[1]
      /\ Tail(s) \in Seq(S) /\ Len(Tail(s)) = Len(s) - 1 /\ DOMAIN Tail(s) = 1..(Len(s) - 1)
      /\ \A i \in 1..(Len(s) - 1) : Tail(s)[i] = s[i + 1]
  <2>1. Len(s) \in Nat \ {0} /\ DOMAIN s = 1..Len(s) /\ Head(s) = s[1]
    BY EmptySeq
  <2> QED BY <2>1, HeadTailProperties, LenProperties
<1>2. ToSet(Tail(s)) \subseteq ToSet(s) \ {Head(s)}
  BY <1>1 DEF ToSet
<1>3. ASSUME NEW x \in ToSet(s), x # Head(s) PROVE x \in ToSet(Tail(s))
  <2>1. PICK i \in 1..Len(s) : x = s[i]
    BY <1>1, <1>3 DEF ToSet
  <2>2. i - 1 \in 1..(Len(s) - 1) /\ Tail(s)[i - 1] = s[i]
    BY <1>1, <1>3, <2>1
  <2> QED BY <1>1, <2>1, <2>2 DEF ToSet
<1>4. \A i, j \in DOMAIN Tail(s) : Tail(s)[i] = Tail(s)[j] => i = j
  <2>1. SUFFICES ASSUME NEW i \in 1..(Len(s) - 1), NEW j \in 1..(Len(s) - 1), Tail(s)[i] = Tail(s)[j]
                 PROVE  i = j
    BY <1>1
  <2>2. i + 1 \in DOMAIN s /\ j + 1 \in DOMAIN s /\ s[i + 1] = s[j + 1]
    BY <1>1, <2>1
  <2> QED BY <2>2
<1>5. Head(s) \in ToSet(s)
  BY <1>1 DEF ToSet
<1> QED BY <1>1, <1>2, <1>3, <1>4, <1>5

LEMMA RotationOfDistinct ==
  ASSUME NEW S, NEW s \in Seq(S), s # <<>>,
         \A i, j \in DOMAIN s : s[i] = s[j] => i = j
  PROVE  /\ Append(Tail(s), Head(s)) \in Seq(S)
         /\ ToSet(Append(Tail(s), Head(s))) = ToSet(s)
         /\ \A i, j \in DOMAIN Append(Tail(s), Head(s)) :
              Append(Tail(s), Head(s))[i] = Append(Tail(s), Head(s))[j] => i = j
<1> DEFINE t == Tail(s)
           h == Head(s)
           r == Append(t, h)
<1>1. /\ t \in Seq(S) /\ h \in ToSet(s) /\ ToSet(t) = ToSet(s) \ {h}
      /\ \A i, j \in DOMAIN t : t[i] = t[j] => i = j
  BY TailOfDistinct
<1>2. h \in S
  BY HeadTailProperties
<1> HIDE DEF t, h
<1>3. /\ r \in Seq(S) /\ Len(t) \in Nat /\ DOMAIN t = 1..Len(t) /\ DOMAIN r = 1..(Len(t) + 1)
      /\ \A i \in 1..Len(t) : r[i] = t[i]
      /\ r[Len(t) + 1] = h
  BY <1>1, <1>2, AppendProperties, LenProperties
<1> HIDE DEF r
<1>4. ToSet(r) = ToSet(t) \cup {h}
  <2>1. ASSUME NEW i \in DOMAIN r PROVE r[i] \in ToSet(t) \cup {h}
    <3>1. i \in 1..Len(t) \/ i = Len(t) + 1
      BY <1>3
    <3> QED BY <1>3, <3>1 DEF ToSet
  <2>2. ASSUME NEW i \in DOMAIN t PROVE t[i] \in ToSet(r)
    <3>1. i \in DOMAIN r /\ r[i] = t[i]
      BY <1>3
    <3> QED BY <3>1 DEF ToSet
  <2>3. h \in ToSet(r)
    <3>1. Len(t) + 1 \in DOMAIN r
      BY <1>3
    <3> QED BY <1>3, <3>1 DEF ToSet
  <2> QED BY <2>1, <2>2, <2>3 DEF ToSet
<1>5. \A i, j \in DOMAIN r : r[i] = r[j] => i = j
  <2>1. SUFFICES ASSUME NEW i \in DOMAIN r, NEW j \in DOMAIN r, r[i] = r[j] PROVE i = j
    OBVIOUS
  <2>2. (i \in 1..Len(t) \/ i = Len(t) + 1) /\ (j \in 1..Len(t) \/ j = Len(t) + 1)
    BY <1>3
  <2>3. \A k \in 1..Len(t) : t[k] # h
    <3>1. h \notin ToSet(t)
      BY <1>1
    <3> QED BY <1>3, <3>1 DEF ToSet
  <2> QED BY <1>1, <1>3, <2>1, <2>2, <2>3
<1>6. ToSet(r) = ToSet(s)
  BY <1>1, <1>4
<1>7. Append(Tail(s), Head(s)) = r
  BY DEF r, t, h
<1> QED BY <1>3, <1>5, <1>6, <1>7

\* A text written over another is a text, and over nothing it is itself.
LEMMA OverIsText ==
  ASSUME NEW old \in Seq(Words), NEW new \in Seq(Words)
  PROVE  Over(old, new) \in Seq(Words) /\ Over(<<>>, new) = new
<1>1. SubSeq(old, Len(new) + 1, Len(old)) \in Seq(Words)
  <2>1. Len(new) + 1 \in Int /\ Len(old) \in Int
    OBVIOUS
  <2>2. \A i \in (Len(new) + 1)..Len(old) : old[i] \in Words
    <3>1. \A i \in 1..Len(old) : old[i] \in Words
      OBVIOUS
    <3> QED BY <3>1
  <2> QED BY <2>1, <2>2, SubSeqProperties
<1>2. SubSeq(<<>>, Len(new) + 1, Len(<<>>)) = <<>>
  <2>1. Len(new) + 1 \in Int /\ Len(<<>>) \in Int /\ Len(<<>>) < Len(new) + 1
    OBVIOUS
  <2> QED BY <2>1, SubSeqEmpty
<1>3. new \o <<>> = new
  BY ConcatEmptySeq
<1> QED BY <1>1, <1>2, <1>3, ConcatProperties DEF Over

\* What a call that writes leaves in a file is a text.
LEMMA TextForIsText ==
  ASSUME TypeOK, NEW w \in Workers, call[w].tool \in {"write_file", "edit", "multi_edit"},
         NEW f \in PathsOf(call[w]),
         call[w].tool # "write_file" => texts[w][f] # Missing
  PROVE  TextFor(w, f) \in Seq(Words)
<1>1. call[w] \in ToolCalls
  BY ToolsAssumption DEF TypeOK
<1>2. f \in Files
  BY <1>1, CallForms
<1>3. CASE call[w].tool = "write_file"
  BY <1>1, <1>3, CallForms DEF TextFor
<1>4. call[w].tool # "write_file" => texts[w][f] \in Seq(Words)
  BY <1>2 DEF TypeOK, FileSystems, Texts
<1>5. CASE call[w].tool = "edit"
  BY <1>1, <1>4, <1>5, CallForms, ReplaceFirstType DEF TextFor
<1>6. CASE call[w].tool = "multi_edit"
  <2> DEFINE es == call[w].edits
  <2>1. es \in Seq(Edits) /\ \A e \in Edits : e.new \in Words
    BY <1>1, <1>6, CallForms DEF Edits
  <2>2. TextsOf(texts[w][f], es, f) \in [0..Len(es) -> Seq(Words)]
    BY <1>4, <1>6, <2>1, TextsOfSteps
  <2>3. Len(es) \in 0..Len(es)
    BY <2>1
  <2>4. TextFor(w, f) = Applied(texts[w][f], es, f)
    BY <1>6 DEF TextFor
  <2> QED BY <2>2, <2>3, <2>4 DEF Applied
<1> QED BY <1>3, <1>5, <1>6

\* With a sandbox a command runs under a policy that lets it write below the
\* working directory only, or it does not run.
LEMMA ShellIsConfined ==
  ASSUME Sandboxed, ShellRequest.ok
  PROVE  /\ \E i \in DOMAIN backends : backends[i]
         /\ \A f \in Files : MayWrite(ShellRequest, f) => RootOf[f] = Cwd
<1> DEFINE profile == WorkspaceManagedProfile(Cwd)
           context == PathContext(<<Cwd>>, <<Tmp>>, <<>>, <<>>)
           policy == BuildSeatbeltPolicy(profile, context)
<1>1. /\ profile.kind = "managed" /\ profile.restricted = TRUE
      /\ profile.readable = <<Cwd>> /\ profile.writable = <<Cwd>>
  BY DEF WorkspaceManagedProfile, Managed
<1>2. RequiresSandbox(profile)
  BY <1>1 DEF RequiresSandbox
<1>3. ShellRequest = IF \E i \in DOMAIN backends : backends[i]
                     THEN BackendTransform(profile, context) ELSE Failed("backend_not_available")
  BY <1>2 DEF ShellRequest, Transform
<1>4. \E i \in DOMAIN backends : backends[i]
  BY <1>3 DEF Failed
<1>5. ShellRequest = [ok |-> TRUE, sandbox |-> "seatbelt", policy |-> policy]
  BY <1>1, <1>3, <1>4 DEF BackendTransform
<1>6. \A x \in Granted(policy, "write") : x = Cwd
  <2> DEFINE s1 == BuildReadableRoots(Dedup(profile.readable \o context.workspace \o context.tmpdir))
             s2 == BuildWritableRoots(profile.writable)
             runtime == BuildRuntimeRoots(context)
             sections == <<s1, s2>> \o runtime
  <2>0. /\ (profile.kind = "managed" /\ profile.restricted) = TRUE
        /\ context.runtimeReadable = <<>> /\ context.runtimeWritable = <<>>
    BY <1>1 DEF PathContext
  <2> HIDE DEF profile, context
  <2>1. /\ policy.rules = UNION {sections[i].rules : i \in DOMAIN sections}
        /\ policy.params = UNION {sections[i].params : i \in DOMAIN sections}
    BY <2>0, <1>1 DEF BuildSeatbeltPolicy
  <2>2. /\ \A r \in s1.rules : r.operation = "read"
        /\ \A p \in s1.params : p.name[1] = "READABLE_ROOT"
    BY DEF BuildReadableRoots, Section
  <2>3. /\ \A r \in s2.rules : r.operation = "write" /\ r.param[1] = "WRITABLE_ROOT"
        /\ \A p \in s2.params : p.name[1] = "WRITABLE_ROOT" /\ p.value = Cwd
    BY <1>1 DEF BuildWritableRoots, Section
  <2>4. runtime = <<runtime[1], runtime[2]>>
    BY DEF BuildRuntimeRoots
  <2>5. /\ \A r \in runtime[1].rules : r.operation = "read"
        /\ \A p \in runtime[1].params : p.name[1] = "RUNTIME_READABLE_ROOT"
    BY DEF BuildRuntimeRoots, Section
  <2>6. runtime[2].rules = {} /\ runtime[2].params = {}
    BY <2>0 DEF BuildRuntimeRoots, Section
  <2> HIDE DEF s1, s2, runtime
  <2>7. \A i \in DOMAIN sections : sections[i] \in {s1, s2, runtime[1], runtime[2]}
    <3> DEFINE X == {s1, s2, runtime[1], runtime[2]}
    <3>1. <<s1, s2>> \in Seq(X) /\ <<runtime[1], runtime[2]>> \in Seq(X)
      OBVIOUS
    <3>2. sections \in Seq(X)
      BY <2>4, <3>1, ConcatProperties
    <3> HIDE DEF X, sections
    <3>3. \A i \in DOMAIN sections : sections[i] \in X
      BY <3>2
    <3> QED BY <3>3 DEF X
  <2> HIDE DEF sections, policy
  <2>8. \A r \in policy.rules : r.operation = "write" => r.param[1] = "WRITABLE_ROOT"
    <3>1. \A i \in DOMAIN sections : \A r \in sections[i].rules :
             r.operation = "write" => r.param[1] = "WRITABLE_ROOT"
      BY <2>2, <2>3, <2>5, <2>6, <2>7
    <3> QED BY <2>1, <3>1
  <2>9. \A p \in policy.params : p.name[1] = "WRITABLE_ROOT" => p.value = Cwd
    <3>1. \A i \in DOMAIN sections : \A p \in sections[i].params :
             p.name[1] = "WRITABLE_ROOT" => p.value = Cwd
      BY <2>2, <2>3, <2>5, <2>6, <2>7
    <3> QED BY <2>1, <3>1
  <2> QED BY <2>8, <2>9 DEF Granted
<1> HIDE DEF policy
<1> QED BY <1>4, <1>5, <1>6 DEF MayWrite

\* A worker whose call does not change, while no file of it does.
Kept(w) ==
    /\ call'[w] = call[w] /\ pc'[w] = pc[w] /\ todo'[w] = todo[w] /\ texts'[w] = texts[w]
    /\ result'[w] = result[w] /\ before'[w] = before[w] /\ wrote'[w] = wrote[w]

LEMMA KeptStage ==
  ASSUME NEW w \in Workers, Kept(w), StageFacts(w), backends' = backends, TypeOK,
         \A f \in Files : files[f] # Missing => files'[f] # Missing
  PROVE  StageFacts(w)'
<1>1. pc[w] = "fill" => Head(todo[w]) \in Files
  BY HeadTailProperties DEF TypeOK, StageFacts
<1>2. Left(w)' = Left(w) /\ Active(w)' = Active(w) /\ InsideShell(w)' = InsideShell(w)
  BY DEF Left, Kept, Active, InsideShell
<1> QED BY <1>1, <1>2 DEF StageFacts, Kept

LEMMA KeptAlone ==
  ASSUME NEW w \in Workers, Kept(w), AloneFacts(w),
         \A f \in PathsOf(call[w]) : files'[f] = files[f]
  PROVE  AloneFacts(w)'
<1>1. /\ Left(w)' = Left(w)
      /\ \A f : FitFor(w, f)' = FitFor(w, f) /\ TextFor(w, f)' = TextFor(w, f)
  BY DEF Left, Kept, FitFor, TextFor
<1>2. PathsOf(call[w])' = PathsOf(call[w])
  BY DEF Kept
<1> QED BY <1>1, <1>2 DEF AloneFacts, Kept

\* A step of a call that goes on keeps the invariant when it keeps what is so of
\* that call and changes none but its files.
LEMMA OwnStep ==
  ASSUME ToolsInv, NEW v \in Workers, Active(v),
         call' = call, before' = before, shared' = shared, backends' = backends,
         \A w \in Workers : w # v => Kept(w),
         \A f \in Files : f \notin PathsOf(call[v]) => files'[f] = files[f],
         \A f \in Files : files[f] # Missing => files'[f] # Missing,
         TypeOK', StageFacts(v)', Undisturbed(v) => AloneFacts(v)' \/ ~Active(v)'
  PROVE  ToolsInv'
<1>1. MeetingFacts'
  <2>1. \A w \in Workers : Active(w)' => Active(w)
    BY DEF Active, Kept
  <2>2. \A w \in Workers : call'[w] = call[w] /\ shared'[w] = shared[w]
    OBVIOUS
  <2> QED BY <2>1, <2>2 DEF MeetingFacts, ToolsInv
<1>2. ASSUME NEW w \in Workers PROVE StageFacts(w)'
  BY KeptStage DEF ToolsInv
<1>3. ASSUME NEW w \in Workers, Undisturbed(w)' PROVE AloneFacts(w)'
  <2>1. CASE w = v
    <3>1. Undisturbed(v) /\ Active(v)'
      BY <1>3, <2>1 DEF Undisturbed
    <3> QED BY <2>1, <3>1
  <2>2. CASE w # v
    <3>1. Kept(w)
      BY <2>2
    <3>2. Undisturbed(w)
      BY <1>3, <3>1 DEF Undisturbed, Kept, Active
    <3>3. PathsOf(call[v]) \cap PathsOf(call[w]) = {}
      BY <2>2, <3>2 DEF ToolsInv, MeetingFacts, Undisturbed
    <3>4. PathsOf(call[w]) \subseteq Files
      BY CallForms, ToolsAssumption DEF ToolsInv, TypeOK
    <3>5. \A f \in PathsOf(call[w]) : files'[f] = files[f]
      BY <3>3, <3>4
    <3> QED BY <3>1, <3>2, <3>5, KeptAlone DEF ToolsInv
  <2> QED BY <2>1, <2>2
<1> QED BY <1>1, <1>2, <1>3 DEF ToolsInv

-----------------------------------------------------------------------------
(* The steps of a call, one by one. *)

\* What the invariant gives a worker's step.
LEMMA CallFacts ==
  ASSUME ToolsInv, NEW v \in Workers
  PROVE  /\ call[v] \in ToolCalls /\ PathsOf(call[v]) \subseteq Files
         /\ todo[v] \in Seq(Files)
         /\ pc[v] \in {"read", "open", "fill"} => todo[v] # <<>>
         /\ pc[v] \in {"open", "fill"} => Head(todo[v]) \in PathsOf(call[v])
         /\ StageFacts(v) /\ (Undisturbed(v) => AloneFacts(v))
<1>1. call[v] \in ToolCalls
  BY ToolsAssumption DEF ToolsInv, TypeOK
<1>2. todo[v] \in Seq(Files) /\ StageFacts(v) /\ (Undisturbed(v) => AloneFacts(v))
  BY DEF ToolsInv, TypeOK
<1>3. pc[v] = "read" => todo[v] # <<>>
  <2>1. ASSUME pc[v] = "read", todo[v] = <<>> PROVE FALSE
    <3>1. ToSet(todo[v]) = PathsOf(call[v]) /\ call[v].tool # "bash"
      BY <1>2, <2>1 DEF StageFacts, Left
    <3>2. ToSet(todo[v]) = {}
      BY <2>1 DEF ToSet
    <3> QED BY <1>1, <3>1, <3>2, CallForms
  <2> QED BY <2>1
<1>4. ASSUME pc[v] \in {"open", "fill"} PROVE todo[v] # <<>> /\ Head(todo[v]) \in PathsOf(call[v])
  <2>1. todo[v] # <<>> /\ ToSet(todo[v]) \subseteq PathsOf(call[v])
    BY <1>2, <1>4 DEF StageFacts, Left
  <2>2. Head(todo[v]) = todo[v][1] /\ 1 \in DOMAIN todo[v]
    BY <1>2, <2>1, EmptySeq
  <2> QED BY <2>1, <2>2 DEF ToSet
<1>5. PathsOf(call[v]) \subseteq Files
  BY <1>1, CallForms
<1> QED BY <1>1, <1>2, <1>3, <1>4, <1>5

LEMMA TakeKeeps ==
  ASSUME ToolsInv, NEW v \in Workers, Take(v) PROVE ToolsInv'
<1>1. Active(v) /\ ~Active(v)' /\ \A w \in Workers : w # v => Kept(w)
  BY DEF Take, Active, Kept, ToolsInv, TypeOK
<1>2. TypeOK'
  BY DEF Take, ToolsInv, TypeOK
<1>3. StageFacts(v)'
  BY <1>1, CallFacts DEF Take, StageFacts, InsideShell, Active, ToolsInv, TypeOK
<1> QED BY <1>1, <1>2, <1>3, OwnStep DEF Take

LEMMA ReadFileKeeps ==
  ASSUME ToolsInv, NEW v \in Workers, ReadFile(v) PROVE ToolsInv'
<1>1. Active(v) /\ \A w \in Workers : w # v => Kept(w)
  BY DEF ReadFile, Return, Active, Kept, ToolsInv, TypeOK
<1>2. TypeOK'
  BY DEF ReadFile, Return, ToolsInv, TypeOK
<1>3. StageFacts(v)'
  BY <1>1, CallFacts DEF ReadFile, Return, StageFacts, InsideShell, Active, ToolsInv, TypeOK
<1>4. ASSUME Undisturbed(v) PROVE AloneFacts(v)'
  <2> DEFINE f == call[v].path
  <2>1. PathsOf(call[v]) = {f} /\ call[v].tool = "read_file" /\ pc[v] = "read"
    BY CallFacts, CallForms DEF ReadFile
  <2>2. files[f] = before[v][f]
    BY <1>4, <2>1, CallFacts DEF AloneFacts
  <2>3. pc'[v] = "done" /\ result'[v] = IF files[f] = Missing THEN "refused" ELSE "ok"
    BY DEF ReadFile, Return, ToolsInv, TypeOK
  <2>4. FitFor(v, f)' <=> files[f] # Missing
    BY <2>1, <2>2 DEF FitFor, ReadFile
  <2>5. call' = call /\ files' = files /\ before' = before
    BY DEF ReadFile
  <2> QED BY <2>1, <2>2, <2>3, <2>4, <2>5 DEF AloneFacts
<1> QED BY <1>1, <1>2, <1>3, <1>4, OwnStep DEF ReadFile

LEMMA ReadToEditKeeps ==
  ASSUME ToolsInv, NEW v \in Workers, ReadToEdit(v) PROVE ToolsInv'
<1> DEFINE c == call[v]
           f == c.path
           fits == files[f] # Missing /\ Unique(files[f], c.old)
<1>0. /\ PathsOf(c) = {f} /\ f \in Files /\ c.tool = "edit" /\ pc[v] = "read"
      /\ call' = call /\ files' = files /\ before' = before /\ todo' = todo /\ wrote' = wrote
      /\ shared' = shared /\ backends' = backends
  BY CallFacts, CallForms DEF ReadToEdit
<1>1. Active(v) /\ \A w \in Workers : w # v => Kept(w)
  BY DEF ReadToEdit, Return, Active, Kept, ToolsInv, TypeOK
<1>2. /\ pc'[v] = IF fits THEN "open" ELSE "done"
      /\ result'[v] = IF fits THEN result[v] ELSE "refused"
      /\ fits => texts'[v][f] = files[f]
  BY <1>0 DEF ReadToEdit, Return, ToolsInv, TypeOK, FileSystems
<1>3. TypeOK'
  <2>1. files[f] \in Texts \cup {Missing}
    BY <1>0 DEF ToolsInv, TypeOK, FileSystems
  <2>2. texts' \in [Workers -> FileSystems]
    <3>1. CASE fits
      <4>1. texts' = [texts EXCEPT ![v][f] = files[f]]
        BY <3>1 DEF ReadToEdit
      <4>2. texts[v] \in FileSystems
        BY DEF ToolsInv, TypeOK
      <4>3. [texts[v] EXCEPT ![f] = files[f]] \in FileSystems
        BY <1>0, <2>1, <4>2 DEF FileSystems
      <4> QED BY <4>1, <4>3 DEF ToolsInv, TypeOK
    <3>2. CASE ~fits
      BY <3>2 DEF ReadToEdit, ToolsInv, TypeOK
    <3> QED BY <3>1, <3>2
  <2>3. pc' \in [Workers -> {"idle", "read", "open", "fill", "shell", "done"}]
        /\ result' \in [Workers -> {"none", "ok", "refused", "io_error"}]
    BY DEF ReadToEdit, Return, ToolsInv, TypeOK
  <2> QED BY <2>2, <2>3 DEF ReadToEdit, ToolsInv, TypeOK
<1>4. StageFacts(v)'
  <2>1. todo[v] # <<>> /\ Left(v) = PathsOf(c) /\ Left(v)' = Left(v) /\ StageFacts(v)
    BY <1>0, CallFacts DEF StageFacts, Left
  <2> QED BY <1>0, <1>1, <1>2, <2>1 DEF StageFacts, InsideShell, Active
<1>5. ASSUME Undisturbed(v) PROVE AloneFacts(v)'
  <2>1. files[f] = before[v][f] /\ Left(v) = PathsOf(c) /\ Left(v)' = Left(v)
    BY <1>0, <1>5, CallFacts DEF AloneFacts, StageFacts, Left
  <2>2. FitFor(v, f)' <=> fits
    BY <1>0, <2>1 DEF FitFor
  <2> QED BY <1>0, <1>2, <2>1, <2>2, CallFacts DEF AloneFacts, StageFacts
<1> HIDE DEF c, f, fits
<1> QED BY <1>0, <1>1, <1>3, <1>4, <1>5, OwnStep

LEMMA ReadToEditSeveralKeeps ==
  ASSUME ToolsInv, NEW v \in Workers, ReadToEditSeveral(v) PROVE ToolsInv'
<1> DEFINE c == call[v]
           f == Head(todo[v])
           fits == files[f] # Missing /\ AllUnique(files[f], c.edits, f)
           allRead == \A g \in PathsOf(c) : texts'[v][g] # Missing
<1>0. /\ c.tool = "multi_edit" /\ pc[v] = "read"
      /\ call' = call /\ files' = files /\ before' = before /\ wrote' = wrote
      /\ shared' = shared /\ backends' = backends
  BY DEF ReadToEditSeveral
<1>00. todo[v] # <<>> /\ todo[v] \in Seq(Files) /\ Left(v) = PathsOf(c) /\ StageFacts(v)
       /\ (\A i, j \in DOMAIN todo[v] : todo[v][i] = todo[v][j] => i = j)
       /\ f \in PathsOf(c) /\ f \in Files
  <2>1. todo[v] # <<>> /\ todo[v] \in Seq(Files) /\ Left(v) = PathsOf(c) /\ StageFacts(v)
        /\ PathsOf(c) \subseteq Files
    BY <1>0, CallFacts DEF StageFacts
  <2>2. \A i, j \in DOMAIN todo[v] : todo[v][i] = todo[v][j] => i = j
    BY <1>0, <2>1 DEF StageFacts, Active
  <2>3. f \in Left(v)
    BY <2>1, <2>2, TailOfDistinct DEF Left
  <2> QED BY <2>1, <2>2, <2>3
<1>1. Active(v) /\ \A w \in Workers : w # v => Kept(w)
  BY DEF ReadToEditSeveral, Return, Active, Kept, ToolsInv, TypeOK
<1>2. CASE fits
  <2>1. /\ texts' = [texts EXCEPT ![v][f] = files[f]]
        /\ todo' = [todo EXCEPT ![v] = Append(Tail(todo[v]), f)]
        /\ pc' = [pc EXCEPT ![v] = IF allRead THEN "open" ELSE "read"]
        /\ result' = result /\ calls' = calls /\ errors' = errors
    BY <1>2 DEF ReadToEditSeveral
  <2>2. /\ todo'[v] \in Seq(Files) /\ Left(v)' = Left(v) /\ todo'[v] # <<>>
        /\ \A i, j \in DOMAIN todo'[v] : todo'[v][i] = todo'[v][j] => i = j
    <3>1. todo'[v] = Append(Tail(todo[v]), f)
      BY <2>1 DEF ToolsInv, TypeOK
    <3>2. /\ Append(Tail(todo[v]), f) \in Seq(Files)
          /\ ToSet(Append(Tail(todo[v]), f)) = ToSet(todo[v])
          /\ \A i, j \in DOMAIN Append(Tail(todo[v]), f) :
               Append(Tail(todo[v]), f)[i] = Append(Tail(todo[v]), f)[j] => i = j
      BY <1>00, RotationOfDistinct
    <3>3. Append(Tail(todo[v]), f) # <<>>
      BY <1>00, HeadTailProperties, AppendProperties
    <3> HIDE DEF f
    <3> QED BY <3>1, <3>2, <3>3 DEF Left
  <2>3. /\ pc'[v] = IF allRead THEN "open" ELSE "read"
        /\ \A g \in Files : texts'[v][g] = IF g = f THEN files[f] ELSE texts[v][g]
    BY <1>00, <2>1 DEF ToolsInv, TypeOK, FileSystems
  <2>4. TypeOK'
    <3>1. texts' \in [Workers -> FileSystems]
      BY <1>00, <2>1 DEF ToolsInv, TypeOK, FileSystems
    <3>2. todo' \in [Workers -> Seq(Files)]
      BY <2>1, <2>2 DEF ToolsInv, TypeOK
    <3>3. pc' \in [Workers -> {"idle", "read", "open", "fill", "shell", "done"}]
      BY <2>1 DEF ToolsInv, TypeOK
    <3> QED BY <1>0, <2>1, <3>1, <3>2, <3>3 DEF ToolsInv, TypeOK
  <2>5. StageFacts(v)'
    BY <1>0, <1>00, <1>1, <2>1, <2>2, <2>3 DEF StageFacts, InsideShell, Active
  <2>6. ASSUME Undisturbed(v) PROVE AloneFacts(v)'
    <3>1. \A g \in PathsOf(c) : /\ files[g] = before[v][g]
                                /\ texts[v][g] # Missing => texts[v][g] = before[v][g] /\ FitFor(v, g)
      BY <1>0, <2>6, CallFacts DEF AloneFacts
    <3>2. \A g : FitFor(v, g)' = FitFor(v, g)
      BY <1>0 DEF FitFor
    <3>3. FitFor(v, f)
      BY <1>0, <1>00, <1>2, <3>1 DEF FitFor
    <3>4. \A g \in PathsOf(c) : texts'[v][g] # Missing => texts'[v][g] = before[v][g] /\ FitFor(v, g)
      BY <1>00, <2>3, <3>1, <3>3, CallFacts
    <3>5. PathsOf(call[v])' = PathsOf(c) /\ Left(v)' = PathsOf(c)
      BY <1>0, <1>00, <2>2
    <3> QED BY <1>0, <1>00, <2>1, <2>3, <3>1, <3>2, <3>4, <3>5 DEF AloneFacts, StageFacts
  <2> HIDE DEF c, f, fits, allRead
  <2> QED BY <1>0, <1>1, <2>4, <2>5, <2>6, OwnStep
<1>3. CASE ~fits
  <2>1. /\ texts' = texts /\ todo' = todo /\ calls' = calls /\ errors' = errors
        /\ pc' = [pc EXCEPT ![v] = "done"] /\ result' = [result EXCEPT ![v] = "refused"]
    BY <1>3 DEF ReadToEditSeveral, Return
  <2>2. TypeOK'
    BY <1>0, <2>1 DEF ToolsInv, TypeOK
  <2>3. pc'[v] = "done" /\ result'[v] = "refused"
    BY <2>1 DEF ToolsInv, TypeOK
  <2>4. StageFacts(v)'
    BY <1>0, <1>00, <1>1, <2>1, <2>3 DEF StageFacts, InsideShell, Active
  <2>5. ASSUME Undisturbed(v) PROVE AloneFacts(v)'
    <3>1. \A g \in PathsOf(c) : files[g] = before[v][g]
      BY <1>0, <2>5, CallFacts DEF AloneFacts
    <3>2. ~FitFor(v, f)
      BY <1>0, <1>00, <1>3, <3>1 DEF FitFor
    <3>3. \A g : FitFor(v, g)' = FitFor(v, g)
      BY <1>0 DEF FitFor
    <3>4. /\ \A g \in PathsOf(call[v])' : files'[g] = before'[v][g]
          /\ \E g \in PathsOf(call[v])' : ~FitFor(v, g)'
      BY <1>0, <1>00, <3>1, <3>2, <3>3
    <3> QED BY <2>3, <3>4 DEF AloneFacts
  <2> HIDE DEF c, f, fits
  <2> QED BY <1>0, <1>1, <2>2, <2>4, <2>5, OwnStep
<1> QED BY <1>2, <1>3

LEMMA OpenKeeps ==
  ASSUME ToolsInv, NEW v \in Workers, Open(v) PROVE ToolsInv'
<1> DEFINE c == call[v]
           f == Head(todo[v])
<1>0. /\ pc[v] = "open" /\ pc'[v] = "fill" /\ wrote'[v] = wrote[v] \cup {f}
      /\ call' = call /\ before' = before /\ todo' = todo /\ texts' = texts /\ result' = result
      /\ shared' = shared /\ backends' = backends /\ calls' = calls /\ errors' = errors
  BY DEF Open, ToolsInv, TypeOK
<1>1. /\ f \in PathsOf(c) /\ f \in Files /\ todo[v] # <<>> /\ PathsOf(c) \subseteq Files
      /\ c.tool \in {"write_file", "edit", "multi_edit"}
      /\ StageFacts(v)
  BY <1>0, CallFacts DEF StageFacts
<1>2. \A g \in Files : files'[g] = IF g = f THEN <<>> ELSE files[g]
  BY <1>1 DEF Open, ToolsInv, TypeOK, FileSystems
<1>3. <<>> \in Texts /\ <<>> # Missing
  BY ToolsAssumption, EmptySeq DEF Texts
<1>4. Active(v) /\ \A w \in Workers : w # v => Kept(w)
  BY DEF Open, Active, Kept, ToolsInv, TypeOK
<1>5. TypeOK'
  <2>1. files' \in FileSystems
    BY <1>1, <1>3 DEF Open, ToolsInv, TypeOK, FileSystems
  <2>2. /\ pc' \in [Workers -> {"idle", "read", "open", "fill", "shell", "done"}]
        /\ wrote' \in [Workers -> SUBSET Files]
    BY <1>1 DEF Open, ToolsInv, TypeOK
  <2> QED BY <1>0, <2>1, <2>2 DEF ToolsInv, TypeOK
<1>6. StageFacts(v)'
  <2>1. Left(v)' = Left(v)
    BY <1>0 DEF Left
  <2>2. Head(todo'[v]) = f /\ files'[f] # Missing
    BY <1>0, <1>1, <1>2, <1>3
  <2>3. result[v] = "none" /\ Active(v)
    BY <1>0, <1>1 DEF StageFacts, Active
  <2> HIDE DEF f
  <2> QED BY <1>0, <1>1, <2>1, <2>2, <2>3 DEF StageFacts, InsideShell, Active
<1>7. ASSUME Undisturbed(v) PROVE AloneFacts(v)'
  <2>1. /\ \A g \in PathsOf(c) : FitFor(v, g)
        /\ \A g \in PathsOf(c) : c.tool \in {"edit", "multi_edit"} => texts[v][g] = before[v][g]
        /\ \A g \in PathsOf(c) : files[g] = IF g \notin Left(v) THEN TextFor(v, g) ELSE before[v][g]
    BY <1>0, <1>7, CallFacts DEF AloneFacts
  <2>2. /\ Left(v)' = Left(v)
        /\ \A g : FitFor(v, g)' = FitFor(v, g) /\ TextFor(v, g)' = TextFor(v, g)
    BY <1>0 DEF Left, FitFor, TextFor
  <2>3. f \in Left(v) /\ Head(todo'[v]) = f
    <3>1. todo[v] \in Seq(Files) /\ f = todo[v][1] /\ 1 \in DOMAIN todo[v]
      BY <1>1, CallFacts, EmptySeq
    <3> QED BY <1>0, <3>1 DEF Left, ToSet
  <2>4. PathsOf(call[v])' = PathsOf(c)
    BY <1>0
  <2> HIDE DEF f
  <2> QED BY <1>0, <1>1, <1>2, <2>1, <2>2, <2>3, <2>4 DEF AloneFacts
<1>8. /\ \A g \in Files : g \notin PathsOf(call[v]) => files'[g] = files[g]
      /\ \A g \in Files : files[g] # Missing => files'[g] # Missing
  BY <1>1, <1>2, <1>3
<1> HIDE DEF c, f
<1> QED BY <1>0, <1>4, <1>5, <1>6, <1>7, <1>8, OwnStep

LEMMA FillKeeps ==
  ASSUME ToolsInv, NEW v \in Workers, Fill(v) PROVE ToolsInv'
<1> DEFINE c == call[v]
           f == Head(todo[v])
           last == Len(todo[v]) = 1
<1>0. /\ pc[v] = "fill" /\ pc'[v] = IF last THEN "done" ELSE "open"
      /\ result'[v] = IF last THEN "ok" ELSE result[v]
      /\ todo'[v] = Tail(todo[v])
      /\ call' = call /\ before' = before /\ texts' = texts /\ wrote' = wrote
      /\ shared' = shared /\ backends' = backends /\ calls' = calls /\ errors' = errors
  BY DEF Fill, Return, ToolsInv, TypeOK
<1>1. /\ f \in PathsOf(c) /\ f \in Files /\ todo[v] # <<>> /\ PathsOf(c) \subseteq Files
      /\ todo[v] \in Seq(Files)
      /\ c.tool \in {"write_file", "edit", "multi_edit"}
      /\ c.tool # "write_file" => \A g \in PathsOf(c) : texts[v][g] # Missing
      /\ files[f] # Missing
      /\ \A i, j \in DOMAIN todo[v] : todo[v][i] = todo[v][j] => i = j
      /\ Left(v) \subseteq PathsOf(c) /\ StageFacts(v)
  BY <1>0, CallFacts DEF StageFacts, Active
<1>2. /\ Tail(todo[v]) \in Seq(Files) /\ Left(v)' = Left(v) \ {f}
      /\ \A i, j \in DOMAIN todo'[v] : todo'[v][i] = todo'[v][j] => i = j
      /\ last <=> todo'[v] = <<>>
  <2>1. /\ Tail(todo[v]) \in Seq(Files)
        /\ ToSet(Tail(todo[v])) = ToSet(todo[v]) \ {Head(todo[v])}
        /\ \A i, j \in DOMAIN Tail(todo[v]) : Tail(todo[v])[i] = Tail(todo[v])[j] => i = j
    BY <1>1, TailOfDistinct
  <2>2. Len(Tail(todo[v])) = Len(todo[v]) - 1 /\ Len(todo[v]) \in Nat
    BY <1>1, HeadTailProperties, LenProperties
  <2>3. last <=> Tail(todo[v]) = <<>>
    <3>1. \A t \in Seq(Files) : t = <<>> <=> Len(t) = 0
      BY EmptySeq
    <3>2. Tail(todo[v]) = <<>> <=> Len(todo[v]) - 1 = 0
      BY <2>1, <2>2, <3>1
    <3> QED BY <2>2, <3>2
  <2> HIDE DEF f, last
  <2> QED BY <1>0, <2>1, <2>3 DEF Left, f
<1>3. TextFor(v, f) \in Texts
  <2>1. TypeOK
    BY DEF ToolsInv
  <2> HIDE DEF f
  <2> QED BY <1>1, <2>1, TextForIsText DEF Texts
<1>4. files[f] \in Texts
  BY <1>1 DEF ToolsInv, TypeOK, FileSystems
<1>5. Over(files[f], TextFor(v, f)) \in Texts /\ Over(<<>>, TextFor(v, f)) = TextFor(v, f)
  BY <1>3, <1>4, OverIsText DEF Texts
<1>6. /\ files' = [files EXCEPT ![f] = Over(files[f], TextFor(v, f))]
      /\ \A g \in Files : files'[g] = IF g = f THEN Over(files[f], TextFor(v, f)) ELSE files[g]
  BY <1>1 DEF Fill, ToolsInv, TypeOK, FileSystems
<1>7. Active(v) /\ \A w \in Workers : w # v => Kept(w)
  BY DEF Fill, Return, Active, Kept, ToolsInv, TypeOK
<1>8. TypeOK'
  <2>1. files' \in FileSystems
    BY <1>1, <1>5, <1>6 DEF ToolsInv, TypeOK, FileSystems
  <2>2. /\ pc' \in [Workers -> {"idle", "read", "open", "fill", "shell", "done"}]
        /\ result' \in [Workers -> {"none", "ok", "refused", "io_error"}]
    BY DEF Fill, Return, ToolsInv, TypeOK
  <2>3. todo' \in [Workers -> Seq(Files)]
    BY <1>2 DEF Fill, ToolsInv, TypeOK
  <2> QED BY <1>0, <2>1, <2>2, <2>3 DEF ToolsInv, TypeOK
<1>9. StageFacts(v)'
  <2>1. result[v] = "none"
    BY <1>0, <1>1 DEF StageFacts
  <2>2. last \/ todo'[v] # <<>>
    BY <1>2
  <2> HIDE DEF last, f
  <2> QED BY <1>0, <1>1, <1>2, <1>7, <2>1, <2>2 DEF StageFacts, InsideShell, Active
<1>10. ASSUME Undisturbed(v) PROVE AloneFacts(v)'
  <2>1. /\ \A g \in PathsOf(c) : FitFor(v, g)
        /\ \A g \in PathsOf(c) : c.tool \in {"edit", "multi_edit"} => texts[v][g] = before[v][g]
        /\ \A g \in PathsOf(c) : files[g] = IF g \notin Left(v) THEN TextFor(v, g)
                                            ELSE IF g = f THEN <<>> ELSE before[v][g]
    BY <1>0, <1>10, CallFacts DEF AloneFacts
  <2>2. /\ \A g : FitFor(v, g)' = FitFor(v, g) /\ TextFor(v, g)' = TextFor(v, g)
        /\ PathsOf(call[v])' = PathsOf(c)
    BY <1>0 DEF FitFor, TextFor
  <2>3. f \in Left(v)
    BY <1>1, TailOfDistinct DEF Left
  <2>4. files[f] = <<>>
    BY <1>1, <2>1, <2>3
  <2>5. files'[f] = TextFor(v, f)
    BY <1>1, <1>5, <1>6, <2>4
  <2>6. \A g \in PathsOf(c) : files'[g] = IF g \notin Left(v)' THEN TextFor(v, g) ELSE before[v][g]
    BY <1>1, <1>2, <1>6, <2>1, <2>5
  <2>7. last => Left(v)' = {}
    <3>1. ASSUME last PROVE ToSet(<<>>) = {}
      BY DEF ToSet
    <3> QED BY <1>2, <3>1 DEF Left
  <2> HIDE DEF last, f
  <2> QED BY <1>0, <1>1, <2>1, <2>2, <2>6, <2>7 DEF AloneFacts
<1>11. /\ \A g \in Files : g \notin PathsOf(call[v]) => files'[g] = files[g]
       /\ \A g \in Files : files[g] # Missing => files'[g] # Missing
  BY <1>1, <1>5, <1>6, ToolsAssumption
<1> HIDE DEF c, f, last
<1> QED BY <1>0, <1>7, <1>8, <1>9, <1>10, <1>11, OwnStep

LEMMA WriteFailsKeeps ==
  ASSUME ToolsInv, NEW v \in Workers, WriteFails(v) PROVE ToolsInv'
<1> DEFINE c == call[v]
           f == Head(todo[v])
<1>0. /\ pc[v] \in {"open", "fill"} /\ pc'[v] = "done" /\ result'[v] = "io_error"
      /\ call' = call /\ before' = before /\ texts' = texts /\ wrote' = wrote /\ todo' = todo
      /\ shared' = shared /\ backends' = backends /\ calls' = calls
      /\ errors' = errors + 1 /\ errors < MaxErrors
  BY DEF WriteFails, Return, ToolsInv, TypeOK
<1>1. /\ f \in PathsOf(c) /\ f \in Files /\ PathsOf(c) \subseteq Files
      /\ c.tool \in {"write_file", "edit", "multi_edit"}
      /\ c.tool # "write_file" => \A g \in PathsOf(c) : texts[v][g] # Missing
      /\ pc[v] = "fill" => files[f] # Missing
      /\ StageFacts(v)
  BY <1>0, CallFacts DEF StageFacts
<1>2. files' = files \/ \E text \in Texts : files' = [files EXCEPT ![f] = text]
  <2>1. CASE pc[v] = "open"
    BY <2>1 DEF WriteFails
  <2>2. CASE pc[v] = "fill"
    <3>1. PICK n \in 0..Len(TextFor(v, f)) :
                 files' = [files EXCEPT ![f] = Over(files[f], SubSeq(TextFor(v, f), 1, n))]
      BY <2>2 DEF WriteFails
    <3>2. TextFor(v, f) \in Seq(Words)
      <4>1. TypeOK
        BY DEF ToolsInv
      <4> HIDE DEF f
      <4> QED BY <1>1, <4>1, TextForIsText
    <3> HIDE DEF f
    <3>3. SubSeq(TextFor(v, f), 1, n) \in Seq(Words)
      <4>1. \A i \in 1..n : TextFor(v, f)[i] \in Words
        BY <3>1, <3>2
      <4> QED BY <3>1, <4>1, SubSeqProperties
    <3>4. files[f] \in Seq(Words)
      BY <1>1, <2>2 DEF ToolsInv, TypeOK, FileSystems, Texts
    <3>5. Over(files[f], SubSeq(TextFor(v, f), 1, n)) \in Texts
      BY <3>3, <3>4, OverIsText DEF Texts
    <3> QED BY <3>1, <3>5
  <2> QED BY <1>0, <2>1, <2>2
<1>3. /\ \A g \in Files : g \notin PathsOf(call[v]) => files'[g] = files[g]
      /\ \A g \in Files : files[g] # Missing => files'[g] # Missing
      /\ files' \in FileSystems
  <2>1. \A text \in Texts : text # Missing
    BY ToolsAssumption
  <2>2. files \in FileSystems
    BY DEF ToolsInv, TypeOK
  <2> HIDE DEF f
  <2> QED BY <1>1, <1>2, <2>1, <2>2 DEF FileSystems
<1>4. Active(v) /\ \A w \in Workers : w # v => Kept(w)
  BY DEF WriteFails, Return, Active, Kept, ToolsInv, TypeOK
<1>5. TypeOK'
  <2>1. /\ pc' \in [Workers -> {"idle", "read", "open", "fill", "shell", "done"}]
        /\ result' \in [Workers -> {"none", "ok", "refused", "io_error"}]
    BY DEF WriteFails, Return, ToolsInv, TypeOK
  <2>2. errors' \in 0..MaxErrors
    BY <1>0, ToolsAssumption DEF ToolsInv, TypeOK
  <2> QED BY <1>0, <1>3, <2>1, <2>2 DEF ToolsInv, TypeOK
<1>6. StageFacts(v)'
  BY <1>0, <1>1, <1>4 DEF StageFacts, InsideShell, Active
<1>7. AloneFacts(v)'
  BY <1>0 DEF AloneFacts
<1> HIDE DEF c, f
<1> QED BY <1>0, <1>3, <1>4, <1>5, <1>6, <1>7, OwnStep

LEMMA ShellKeeps ==
  ASSUME ToolsInv, NEW v \in Workers, Shell(v) PROVE ToolsInv'
<1>0. /\ pc[v] = "shell" /\ pc'[v] = "done" /\ result'[v] \in {"ok", "refused"}
      /\ call' = call /\ before' = before /\ texts' = texts /\ todo' = todo
      /\ shared' = shared /\ backends' = backends /\ calls' = calls /\ errors' = errors
  BY DEF Shell, Return, ToolsInv, TypeOK
<1>1. call[v].tool = "bash" /\ wrote[v] = {} /\ StageFacts(v) /\ PathsOf(call[v]) = Files
  BY <1>0, CallFacts, CallForms DEF StageFacts
<1>2. Active(v) /\ \A w \in Workers : w # v => Kept(w)
  BY DEF Shell, Return, Active, Kept, ToolsInv, TypeOK
<1>3. /\ pc' \in [Workers -> {"idle", "read", "open", "fill", "shell", "done"}]
      /\ result' \in [Workers -> {"none", "ok", "refused", "io_error"}]
  BY DEF Shell, Return, ToolsInv, TypeOK
<1>4. CASE files' = files /\ wrote' = wrote
  <2>1. TypeOK'
    BY <1>0, <1>3, <1>4 DEF ToolsInv, TypeOK
  <2>2. StageFacts(v)'
    BY <1>0, <1>1, <1>2, <1>4 DEF StageFacts, InsideShell, Active
  <2>3. ~Undisturbed(v)
    BY <1>1 DEF Undisturbed
  <2> QED BY <1>0, <1>2, <1>4, <2>1, <2>2, <2>3, OwnStep
<1>5. ASSUME NEW f \in Files, NEW t \in ShellTexts, ShellRequest.ok, MayWrite(ShellRequest, f),
             files' = [files EXCEPT ![f] = t], wrote' = [wrote EXCEPT ![v] = @ \cup {f}],
             result' = [result EXCEPT ![v] = "ok"]
      PROVE  ToolsInv'
  <2>1. t \in Texts /\ t # Missing
    BY ToolsAssumption
  <2>2. /\ files' \in FileSystems /\ wrote' \in [Workers -> SUBSET Files]
        /\ wrote'[v] = {f} /\ result'[v] = "ok"
    BY <1>1, <1>5, <2>1 DEF ToolsInv, TypeOK, FileSystems
  <2>3. TypeOK'
    BY <1>0, <1>3, <2>2 DEF ToolsInv, TypeOK
  <2>4. Sandboxed => RootOf[f] = Cwd /\ \E i \in DOMAIN backends : backends[i]
    BY <1>5, ShellIsConfined
  <2>5. StageFacts(v)'
    BY <1>0, <1>1, <1>2, <2>2, <2>4 DEF StageFacts, InsideShell, Active
  <2>6. ~Undisturbed(v)
    BY <1>1 DEF Undisturbed
  <2>7. /\ \A g \in Files : g \notin PathsOf(call[v]) => files'[g] = files[g]
        /\ \A g \in Files : files[g] # Missing => files'[g] # Missing
    BY <1>1, <1>5, <2>1 DEF ToolsInv, TypeOK, FileSystems
  <2> QED BY <1>0, <1>2, <2>3, <2>5, <2>6, <2>7, OwnStep
<1> QED BY <1>4, <1>5 DEF Shell, Return

\* A call begins with each of its files once to go through, in some order, and
\* with the files as they are.
LEMMA ExecuteKeeps ==
  ASSUME ToolsInv, NEW v \in Workers, NEW c \in Calls, Execute(v, c) PROVE ToolsInv'
<1> DEFINE P == PathsOf(c)
           Meets(u) == u # v /\ Active(u) /\ PathsOf(call[u]) \cap P # {}
<1>0. /\ pc[v] = "idle" /\ calls < MaxCalls
      /\ pc'[v] = CASE c.tool = "write_file" -> "open" [] c.tool = "bash" -> "shell" [] OTHER -> "read"
      /\ call'[v] = c /\ texts'[v] = NothingRead /\ result'[v] = "none"
      /\ before'[v] = files /\ wrote'[v] = {}
      /\ files' = files /\ backends' = backends /\ errors' = errors /\ calls' = calls + 1
  BY DEF Execute, Active, ToolsInv, TypeOK
<1>1. c \in ToolCalls /\ P \subseteq Files
  BY ToolsAssumption, CallForms
<1>2. /\ \A w \in Workers : w # v => Kept(w)
      /\ pc'[v] \in {"read", "open", "shell"} /\ Active(v)'
  <2>1. \A w \in Workers : w # v => Kept(w)
    BY DEF Execute, Kept, ToolsInv, TypeOK
  <2> QED BY <1>0, <2>1 DEF Active
<1>3. PICK order \in Bijection(1..Cardinality(P), P) : todo' = [todo EXCEPT ![v] = order]
  BY DEF Execute
<1>4. /\ order \in Seq(Files) /\ ToSet(order) = P
      /\ \A i, j \in DOMAIN order : order[i] = order[j] => i = j
  <2>1. Cardinality(P) \in Nat
    BY <1>1, FS_Subset, FS_CardinalityType, ToolsAssumption
  <2>2. /\ order \in [1..Cardinality(P) -> P]
        /\ \A i, j \in 1..Cardinality(P) : order[i] = order[j] => i = j
        /\ \A f \in P : \E i \in 1..Cardinality(P) : order[i] = f
    BY DEF Bijection, Injection, Surjection, IsInjective
  <2>3. order \in Seq(Files)
    BY <1>1, <2>1, <2>2
  <2> QED BY <2>2, <2>3 DEF ToSet
<1>5. todo'[v] = order /\ Left(v)' = P
  BY <1>3, <1>4 DEF Left, ToolsInv, TypeOK
<1>6. /\ shared' \in [Workers -> BOOLEAN]
      /\ shared'[v] <=> \E u \in Workers : Meets(u)
      /\ \A w \in Workers : w # v => (shared'[w] <=> shared[w] \/ Meets(w))
  BY DEF Execute, ToolsInv, TypeOK
<1>7. TypeOK'
  <2>1. NothingRead \in FileSystems /\ files \in FileSystems
    BY DEF NothingRead, FileSystems, ToolsInv, TypeOK
  <2>2. /\ call' \in [Workers -> Calls]
        /\ pc' \in [Workers -> {"idle", "read", "open", "fill", "shell", "done"}]
        /\ result' \in [Workers -> {"none", "ok", "refused", "io_error"}]
        /\ wrote' \in [Workers -> SUBSET Files]
    BY DEF Execute, ToolsInv, TypeOK
  <2>3. texts' \in [Workers -> FileSystems] /\ before' \in [Workers -> FileSystems]
    BY <2>1 DEF Execute, ToolsInv, TypeOK
  <2>4. todo' \in [Workers -> Seq(Files)]
    BY <1>3, <1>4 DEF ToolsInv, TypeOK
  <2>5. calls' \in 0..MaxCalls
    BY <1>0, ToolsAssumption DEF ToolsInv, TypeOK
  <2> HIDE DEF P, Meets
  <2> QED BY <1>0, <1>6, <2>1, <2>2, <2>3, <2>4, <2>5 DEF ToolsInv, TypeOK
<1>8. MeetingFacts'
  <2>1. SUFFICES ASSUME NEW u \in Workers, NEW w \in Workers, u # w, Active(u)', Active(w)',
                        PathsOf(call'[u]) \cap PathsOf(call'[w]) # {}
                 PROVE  shared'[w]
    BY DEF MeetingFacts
  <2>2. CASE w = v
    <3>1. Meets(u)
      BY <1>0, <1>2, <2>1, <2>2 DEF Kept, Active
    <3> HIDE DEF Meets
    <3> QED BY <1>6, <2>2, <3>1
  <2>3. CASE u = v
    <3>1. Meets(w)
      BY <1>0, <1>2, <2>1, <2>3 DEF Kept, Active
    <3> HIDE DEF Meets
    <3> QED BY <1>6, <2>1, <2>3, <3>1
  <2>4. CASE u # v /\ w # v
    <3>1. shared[w]
      BY <1>2, <2>1, <2>4 DEF Kept, Active, MeetingFacts, ToolsInv
    <3> HIDE DEF Meets
    <3> QED BY <1>6, <2>4, <3>1
  <2> QED BY <2>2, <2>3, <2>4
<1>9. ASSUME NEW w \in Workers PROVE StageFacts(w)'
  <2>1. CASE w # v
    BY <1>0, <1>2, <2>1, KeptStage DEF ToolsInv
  <2>2. CASE w = v
    <3>1. P # {} => order # <<>>
      BY <1>4 DEF ToSet
    <3>2. /\ c.tool = "write_file" => P # {} /\ pc'[v] = "open"
          /\ c.tool = "bash" => pc'[v] = "shell"
          /\ c.tool \in {"read_file", "edit", "multi_edit"} => pc'[v] = "read"
          /\ c.tool \in {"read_file", "write_file", "edit", "multi_edit", "bash"}
      BY <1>0, <1>1, CallForms
    <3> HIDE DEF P, Meets
    <3> QED BY <1>0, <1>4, <1>5, <2>2, <3>1, <3>2 DEF StageFacts, InsideShell, P
  <2> QED BY <2>1, <2>2
<1>10. ASSUME NEW w \in Workers, Undisturbed(w)' PROVE AloneFacts(w)'
  <2>1. CASE w # v
    <3>1. Undisturbed(w)
      <4> HIDE DEF Meets
      <4> QED BY <1>2, <1>6, <1>10, <2>1 DEF Undisturbed, Kept, Active
    <3> QED BY <1>0, <1>2, <2>1, <3>1, KeptAlone DEF ToolsInv
  <2>2. CASE w = v
    <3>1. CASE c.tool = "write_file"
      <4>1. P = {c.path} /\ pc'[v] = "open"
        BY <1>0, <1>1, <3>1, CallForms
      <4>2. \A f \in P : FitFor(v, f)'
        BY <1>0, <3>1 DEF FitFor
      <4> HIDE DEF P
      <4> QED BY <1>0, <1>5, <2>2, <3>1, <4>1, <4>2 DEF AloneFacts, P
    <3>2. CASE c.tool # "write_file"
      <4>1. pc'[v] \in {"read", "shell"}
        BY <1>0, <3>2
      <4>2. \A f \in P : texts'[v][f] = Missing
        BY <1>0, <1>1 DEF NothingRead
      <4> QED BY <1>0, <2>2, <4>1, <4>2 DEF AloneFacts
    <3> QED BY <3>1, <3>2
  <2> QED BY <2>1, <2>2
<1> HIDE DEF P, Meets
<1> QED BY <1>7, <1>8, <1>9, <1>10 DEF ToolsInv

-----------------------------------------------------------------------------
(* THE THEOREMS *)

LEMMA InitHolds == Init => ToolsInv
<1> SUFFICES ASSUME Init PROVE ToolsInv
  OBVIOUS
<1>1. (CHOOSE c \in Calls : TRUE) \in Calls
  BY ToolsAssumption
<1>2. TypeOK
  <2>1. NothingRead \in FileSystems /\ files \in FileSystems
    BY ToolsAssumption DEF NothingRead, FileSystems, Init
  <2>2. <<>> \in Seq(Files)
    OBVIOUS
  <2> QED BY <1>1, <2>1, <2>2, ToolsAssumption DEF Init, TypeOK
<1>3. \A w \in Workers : ~Active(w)
  BY DEF Init, Active
<1>4. \A w \in Workers : StageFacts(w)
  BY <1>3 DEF Init, StageFacts, InsideShell, Active
<1> QED BY <1>2, <1>3, <1>4 DEF ToolsInv, MeetingFacts, Undisturbed

LEMMA NextKeeps == ToolsInv /\ [Next]_vars => ToolsInv'
<1> SUFFICES ASSUME ToolsInv, [Next]_vars PROVE ToolsInv'
  OBVIOUS
<1>1. ASSUME NEW w \in Workers, Step(w) PROVE ToolsInv'
  BY <1>1, TakeKeeps, ReadFileKeeps, ReadToEditKeeps, ReadToEditSeveralKeeps,
     OpenKeeps, FillKeeps, WriteFailsKeeps, ShellKeeps DEF Step
<1>2. ASSUME NEW w \in Workers, NEW c \in Calls, Execute(w, c) PROVE ToolsInv'
  BY <1>2, ExecuteKeeps
<1>3. CASE UNCHANGED vars
  <2>1. \A w \in Workers : Kept(w)
    BY <1>3 DEF vars, Kept
  <2>2. TypeOK' /\ MeetingFacts'
    BY <1>3 DEF vars, ToolsInv, TypeOK, MeetingFacts, Active
  <2>3. files' = files /\ backends' = backends /\ shared' = shared
    BY <1>3 DEF vars
  <2>4. ASSUME NEW w \in Workers PROVE StageFacts(w)'
    BY <2>1, <2>3, KeptStage DEF ToolsInv
  <2>5. ASSUME NEW w \in Workers, Undisturbed(w)' PROVE AloneFacts(w)'
    <3>1. Undisturbed(w)
      BY <2>1, <2>3, <2>5 DEF Undisturbed, Kept, Active
    <3> QED BY <2>1, <2>3, <3>1, KeptAlone DEF ToolsInv
  <2> QED BY <2>2, <2>4, <2>5 DEF ToolsInv
<1> QED BY <1>1, <1>2, <1>3 DEF Next

\* Whatever the calls are and however their steps interleave, each has its files
\* left as its stage says, and one that no other meets finds them as it left them
\* (src/crates/meepo-tools/src/builtin.rs:95,134 and extra.rs:154): the invariant.
THEOREM ToolsInvHolds == Spec => []ToolsInv
<1> QED BY InitHolds, NextKeeps, PTL DEF Spec

\* A call that met no other and did not fail: what the invariant comes to at its end.
LEMMA LoneCallActs ==
  ASSUME ToolsInv, NEW w \in Workers, LeftAlone(w), Independent(call[w])
  PROVE  ActsAsIntended(w)
<1> DEFINE c == call[w]
           P == PathsOf(c)
           fs == before[w]
<1>1. /\ c \in ToolCalls /\ P \subseteq Files /\ fs \in FileSystems
      /\ c.tool \in {"read_file", "write_file", "edit", "multi_edit"}
      /\ pc[w] = "done" /\ result[w] \in {"ok", "refused"}
      /\ AloneFacts(w)
  <2>1. Undisturbed(w)
    BY DEF LeftAlone, Undisturbed, Active
  <2>2. result[w] \in {"ok", "refused"}
    BY CallFacts DEF LeftAlone, StageFacts, ToolsInv, TypeOK
  <2>3. fs \in FileSystems
    BY DEF ToolsInv, TypeOK
  <2> QED BY <2>1, <2>2, <2>3, CallFacts, CallForms DEF LeftAlone
<1>2. result[w] = "ok" =>
        \A f \in P : /\ FitFor(w, f)
                     /\ c.tool \in {"edit", "multi_edit"} => texts[w][f] = fs[f]
                     /\ files[f] = IF c.tool = "read_file" THEN fs[f] ELSE TextFor(w, f)
  BY <1>1 DEF AloneFacts
<1>3. result[w] = "refused" => (\A f \in P : files[f] = fs[f]) /\ \E f \in P : ~FitFor(w, f)
  BY <1>1 DEF AloneFacts
<1>4. c.tool \in {"read_file", "write_file", "edit"} => c.path \in Files /\ P = {c.path}
  BY <1>1, CallForms
<1>5. CASE c.tool = "read_file"
  <2>1. FitFor(w, c.path) <=> fs[c.path] # Missing
    BY <1>5 DEF FitFor
  <2> HIDE DEF P
  <2> QED BY <1>1, <1>2, <1>3, <1>4, <1>5, <2>1 DEF ActsAsIntended, Intended, P
<1>6. CASE c.tool = "write_file"
  <2>1. FitFor(w, c.path) /\ TextFor(w, c.path) = c.content
    BY <1>6 DEF FitFor, TextFor
  <2>2. [fs EXCEPT ![c.path] = c.content][c.path] = c.content
    BY <1>1, <1>4, <1>6 DEF FileSystems
  <2> HIDE DEF P
  <2> QED BY <1>1, <1>2, <1>3, <1>4, <1>6, <2>1, <2>2 DEF ActsAsIntended, Intended, P
<1>7. CASE c.tool = "edit"
  <2>1. /\ FitFor(w, c.path) <=> Fits(fs, c)
        /\ TextFor(w, c.path) = ReplaceFirst(texts[w][c.path], c)
    BY <1>7 DEF FitFor, Fits, TextFor
  <2>2. [fs EXCEPT ![c.path] = ReplaceFirst(@, c)][c.path] = ReplaceFirst(fs[c.path], c)
    BY <1>1, <1>4, <1>7 DEF FileSystems
  <2> HIDE DEF P
  <2> QED BY <1>1, <1>2, <1>3, <1>4, <1>7, <2>1, <2>2 DEF ActsAsIntended, Intended, P
<1>8. CASE c.tool = "multi_edit"
  <2> DEFINE inTurn == EditInTurn(fs, c.edits)
  <2>1. /\ c.edits \in Seq(Edits)
        /\ P = {c.edits[i].path : i \in DOMAIN c.edits}
    BY <1>1, <1>8, CallForms
  <2>2. ASSUME NEW f \in P PROVE FitFor(w, f) <=> FitsFile(fs, c.edits, f)
    <3>1. CASE fs[f] = Missing
      BY <1>8, <3>1 DEF FitFor, FitsFile
    <3>2. CASE fs[f] # Missing
      <4>1. \A i, j \in DOMAIN c.edits :
               i # j /\ c.edits[i].path = c.edits[j].path =>
                 c.edits[j].old \notin {c.edits[i].new, Placeholder}
        BY <1>8 DEF Independent
      <4>2. AllUnique(fs[f], c.edits, f) <=> FitsFile(fs, c.edits, f)
        BY <1>1, <2>1, <3>2, <4>1, CheckedIsInTurn
      <4> QED BY <1>8, <3>2, <4>2 DEF FitFor
    <3> QED BY <3>1, <3>2
  <2>3. \A f \in P : TextFor(w, f) = Applied(texts[w][f], c.edits, f)
    BY <1>8 DEF TextFor
  <2>4. /\ inTurn.outcome = IF \A f \in P : FitsFile(fs, c.edits, f) THEN "ok" ELSE "refused"
        /\ (\A f \in P : FitsFile(fs, c.edits, f)) =>
              \A f \in P : inTurn.files[f] = Applied(fs[f], c.edits, f)
    BY <1>1, <2>1, InTurnIsFileByFile
  <2>5. Intended(c, fs) = inTurn
    BY <1>8 DEF Intended
  <2> HIDE DEF P, fs, c, inTurn
  <2>6. CASE result[w] = "ok"
    <3>1. \A f \in P : FitsFile(fs, c.edits, f)
      BY <1>2, <2>2, <2>6
    <3>2. inTurn.outcome = "ok" /\ \A f \in P : files[f] = inTurn.files[f]
      BY <1>2, <1>8, <2>3, <2>4, <2>6, <3>1
    <3> QED BY <2>5, <2>6, <3>2 DEF ActsAsIntended, P, fs, c
  <2>7. CASE result[w] = "refused"
    <3>1. inTurn.outcome = "refused"
      BY <1>3, <2>2, <2>4, <2>7
    <3> QED BY <1>3, <2>5, <2>7, <3>1 DEF ActsAsIntended, P, fs, c
  <2> QED BY <1>1, <2>6, <2>7
<1> QED BY <1>1, <1>5, <1>6, <1>7, <1>8

\* A call whose files no other call is at and whose writes succeed does all it is
\* meant to do or, refused, nothing: read_file, write_file, edit, and multi_edit as
\* its edits one by one, when none looks for what another brings in or for the
\* word that the code checks with
\* (src/crates/meepo-tools/src/builtin.rs:95,134 and extra.rs:154).
THEOREM LoneCallActsAtOnce == Spec => []LoneCallIsAtomic
<1>1. ToolsInv => LoneCallIsAtomic
  BY LoneCallActs DEF LoneCallIsAtomic
<1> QED BY <1>1, ToolsInvHolds, PTL

\* A call that is refused has touched no file, whatever other calls did meanwhile:
\* multi_edit's "If any fails, NO file is modified"
\* (src/crates/meepo-tools/src/extra.rs:177-203) and the same of the other tools.
THEOREM RefusedCallTouchesNoFile == Spec => []RefusedCallTouchesNothing
<1>1. ToolsInv => RefusedCallTouchesNothing
  BY DEF ToolsInv, StageFacts, RefusedCallTouchesNothing
<1> QED BY <1>1, ToolsInvHolds, PTL

\* For every placing of files under roots and every set of backends, a sandboxed
\* shell command changes files of the working directory only, and none where no
\* backend can wrap it (src/crates/meepo-sandbox/src/manager.rs:76, macos.rs:299).
THEOREM ShellIsKeptInside == Spec => []ShellStaysInside
<1>1. ToolsInv => ShellStaysInside
  BY DEF ToolsInv, StageFacts, InsideShell, ShellStaysInside
<1> QED BY <1>1, ToolsInvHolds, PTL

\* The tools' state stays of its type; texts stay sequences of words through
\* every edit (src/crates/meepo-tools/src/extra.rs:193-199).
THEOREM ToolsTypesHold == Spec => []TypeOK
<1>1. ToolsInv => TypeOK
  BY DEF ToolsInv
<1> QED BY <1>1, ToolsInvHolds, PTL
====
