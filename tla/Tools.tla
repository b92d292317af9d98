---- MODULE Tools ----
(***************************************************************************)
(* The built-in tools at work on one file system: reading, writing,        *)
(* editing, editing several files in one call, and the shell.  Tool calls  *)
(* of different turns run at the same time in one process and take no      *)
(* lock.  A read of a file is a step; a write is two, for the file is      *)
(* emptied when it is opened.  A text is a sequence of words, of which an  *)
(* edit replaces one.                                                      *)
(***************************************************************************)
EXTENDS Sandbox, FiniteSets

CONSTANTS
    Workers,      \* turns, each with one tool call at a time
    Files,        \* the paths the calls name
    Words,        \* what texts are made of
    Placeholder,  \* the word multi_edit checks with in place of the new one
    Missing,      \* what a path holds where there is no file
    Calls,        \* the tool calls the turns make
    RootOf,       \* [Files -> roots]: the directory a file is in
    Cwd, Tmp,     \* the working directory of the process, and /tmp
    Sandboxed,    \* whether the shell tool was built with a sandbox manager
    Platforms,    \* for each backend the program registers, whether it is available
    ShellTexts,   \* bound: the texts a shell command leaves in a file
    InitialFiles, \* what the file system may hold at first
    MaxCalls,     \* bound: the number of calls
    MaxErrors     \* bound: the number of writes that fail

\* A text is of words; multi_edit refuses an empty list before it does anything.
Texts == Seq(Words)
FileSystems == [Files -> Texts \cup {Missing}]
Edits == [path : Files, old : Words, new : Words]
ToolCalls ==
    [tool : {"read_file"}, path : Files]
    \cup [tool : {"write_file"}, path : Files, content : Texts]
    \cup [tool : {"edit"}, path : Files, old : Words, new : Words]
    \cup [tool : {"multi_edit"}, edits : Seq(Edits) \ {<<>>}]
    \cup [tool : {"bash"}]

ASSUME ToolsAssumption ==
    /\ IsFiniteSet(Files)
    /\ Missing \notin Texts
    /\ Calls # {} /\ Calls \subseteq ToolCalls
    /\ InitialFiles \subseteq FileSystems /\ ShellTexts \subseteq Texts
    /\ Sandboxed \in BOOLEAN
    /\ MaxCalls \in Nat /\ MaxErrors \in Nat

VARIABLES
    backends, \* one of Platforms: where the program runs
    files,    \* [Files -> text or Missing]
    call,     \* [Workers -> Calls]: the call a worker is at, or was
    pc,       \* [Workers -> where in the call it is]
    todo,     \* [Workers -> Seq(Files)]: the files left to read or to write, in order
    texts,    \* [Workers -> FileSystems]: the text of each file read, Missing of the others
    result,   \* [Workers -> what the call returned]
    calls, errors,
    before,   \* [Workers -> files when the call began]
    wrote,    \* [Workers -> SUBSET Files]: the files the call has touched
    shared    \* [Workers -> BOOLEAN]: another call on one of its files ran meanwhile

vars == <<backends, files, call, pc, todo, texts, result, calls, errors, before, wrote, shared>>

-----------------------------------------------------------------------------
(* Texts *)

Occurrences(text, word) == {i \in DOMAIN text : text[i] = word}

\* match content.matches(old).count()
Unique(text, word) == Cardinality(Occurrences(text, word)) = 1

\* replacen(old, new, 1)
ReplaceFirst(text, edit) ==
    LET places == Occurrences(text, edit.old)
    IN  IF places = {} THEN text
        ELSE [text EXCEPT ![CHOOSE i \in places : \A j \in places : i <= j] = edit.new]

PathsOf(c) ==
    IF c.tool = "multi_edit" THEN {c.edits[i].path : i \in DOMAIN c.edits}
    ELSE IF c.tool = "bash" THEN Files ELSE {c.path}

\* What becomes of the text of a file, by the number of edits gone through: of
\* those of a call, by_path keeps the file's own, in their order.
TextsOf(text, edits, f) ==
    LET t[n \in 0..Len(edits)] ==
          IF n = 0 THEN text
          ELSE IF edits[n].path = f THEN ReplaceFirst(t[n - 1], edits[n]) ELSE t[n - 1]
    IN  t

\* Mutant: an edit's word is looked for in the text as it was read.
AllUniqueAtFirst(text, edits, f) ==
    \A n \in DOMAIN edits : edits[n].path = f => Unique(text, edits[n].old)

\* Each edit's old word occurs once, in the text with a placeholder for what
\* the edits before it have replaced.
WithPlaceholder(edits) == [n \in DOMAIN edits |-> [edits[n] EXCEPT !.new = Placeholder]]
AllUnique(text, edits, f) ==
    LET checked == TextsOf(text, WithPlaceholder(edits), f)
    IN  \A n \in DOMAIN edits : edits[n].path = f => Unique(checked[n - 1], edits[n].old)

Applied(text, edits, f) == TextsOf(text, edits, f)[Len(edits)]

\* What a call leaves in a file it writes.
TextFor(w, f) ==
    CASE call[w].tool = "write_file" -> call[w].content
      [] call[w].tool = "edit"       -> ReplaceFirst(texts[w][f], call[w])
      [] call[w].tool = "multi_edit" -> Applied(texts[w][f], call[w].edits, f)

-----------------------------------------------------------------------------
(* A call *)

Active(w) == pc[w] # "idle"

NothingRead == [f \in Files |-> Missing]

Init ==
    /\ backends \in Platforms
    /\ files \in InitialFiles
    /\ call = [w \in Workers |-> CHOOSE c \in Calls : TRUE]
    /\ pc = [w \in Workers |-> "idle"]
    /\ todo = [w \in Workers |-> <<>>]
    /\ texts = [w \in Workers |-> NothingRead]
    /\ result = [w \in Workers |-> "none"]
    /\ calls = 0 /\ errors = 0
    /\ before = [w \in Workers |-> files]
    /\ wrote = [w \in Workers |-> {}]
    /\ shared = [w \in Workers |-> FALSE]

\* A worker dispatches the next call of its turn.  multi_edit groups its edits
\* by path in a hash map, whose order is any.
Execute(w, c) ==
    /\ ~Active(w) /\ calls < MaxCalls
    /\ call' = [call EXCEPT ![w] = c]
    /\ pc' = [pc EXCEPT ![w] =
                CASE c.tool = "write_file" -> "open" [] c.tool = "bash" -> "shell" [] OTHER -> "read"]
    /\ \E order \in Bijection(1..Cardinality(PathsOf(c)), PathsOf(c)) : todo' = [todo EXCEPT ![w] = order]
    /\ texts' = [texts EXCEPT ![w] = NothingRead]
    /\ result' = [result EXCEPT ![w] = "none"]
    /\ calls' = calls + 1
    /\ before' = [before EXCEPT ![w] = files]
    /\ wrote' = [wrote EXCEPT ![w] = {}]
    /\ LET meets(v) == v # w /\ Active(v) /\ PathsOf(call[v]) \cap PathsOf(c) # {}
       IN  shared' = [v \in Workers |-> IF v = w THEN \E u \in Workers : meets(u)
                                        ELSE shared[v] \/ meets(v)]
    /\ UNCHANGED <<backends, files, errors>>

Return(w, outcome) ==
    /\ pc' = [pc EXCEPT ![w] = "done"]
    /\ result' = [result EXCEPT ![w] = outcome]

\* The result is in the hands of the turn, which goes on.
Take(w) ==
    /\ pc[w] = "done"
    /\ pc' = [pc EXCEPT ![w] = "idle"]
    /\ UNCHANGED <<backends, files, call, todo, texts, result, calls, errors, before, wrote, shared>>

ReadFile(w) ==
    /\ pc[w] = "read" /\ call[w].tool = "read_file"
    /\ Return(w, IF files[call[w].path] = Missing THEN "refused" ELSE "ok")
    /\ UNCHANGED <<backends, files, call, todo, texts, calls, errors, before, wrote, shared>>

\* edit reads its file, and goes on to write it when the old word is there once.
ReadToEdit(w) ==
    LET c == call[w] IN
    /\ pc[w] = "read" /\ c.tool = "edit"
    /\ IF files[c.path] # Missing /\ Unique(files[c.path], c.old)
       THEN /\ pc' = [pc EXCEPT ![w] = "open"]
            /\ texts' = [texts EXCEPT ![w][c.path] = files[c.path]]
            /\ UNCHANGED result
       ELSE Return(w, "refused") /\ UNCHANGED texts
    /\ UNCHANGED <<backends, files, call, todo, calls, errors, before, wrote, shared>>

\* Mutant: each file is written as soon as it was found fit.
ReadToEditOneByOne(w) ==
    LET f == Head(todo[w]) IN
    /\ pc[w] = "read" /\ call[w].tool = "multi_edit"
    /\ IF files[f] # Missing /\ AllUnique(files[f], call[w].edits, f)
       THEN /\ files' = [files EXCEPT ![f] = Applied(@, call[w].edits, f)]
            /\ wrote' = [wrote EXCEPT ![w] = @ \cup {f}]
            /\ todo' = [todo EXCEPT ![w] = Tail(@)]
            /\ IF Len(todo[w]) = 1 THEN Return(w, "ok") ELSE UNCHANGED <<pc, result>>
       ELSE Return(w, "refused") /\ UNCHANGED <<files, wrote, todo>>
    /\ UNCHANGED <<backends, call, texts, calls, errors, before, shared>>

\* multi_edit reads and checks its files one after the other; the files are
\* written, in the same order, after the last of them was found fit.
ReadToEditSeveral(w) ==
    LET f == Head(todo[w]) IN
    /\ pc[w] = "read" /\ call[w].tool = "multi_edit"
    /\ IF files[f] # Missing /\ AllUnique(files[f], call[w].edits, f)
       THEN /\ texts' = [texts EXCEPT ![w][f] = files[f]]
            /\ todo' = [todo EXCEPT ![w] = Append(Tail(@), f)]
            /\ pc' = [pc EXCEPT ![w] =
                        IF \A g \in PathsOf(call[w]) : texts'[w][g] # Missing THEN "open" ELSE "read"]
            /\ UNCHANGED result
       ELSE Return(w, "refused") /\ UNCHANGED <<texts, todo>>
    /\ UNCHANGED <<backends, files, call, calls, errors, before, wrote, shared>>

\* The file is opened for writing: created, or emptied.
Open(w) ==
    LET f == Head(todo[w]) IN
    /\ pc[w] = "open"
    /\ files' = [files EXCEPT ![f] = <<>>]
    /\ wrote' = [wrote EXCEPT ![w] = @ \cup {f}]
    /\ pc' = [pc EXCEPT ![w] = "fill"]
    /\ UNCHANGED <<backends, call, todo, texts, result, calls, errors, before, shared>>

\* What is written from the start of a file over what is in it.
Over(old, new) == new \o SubSeq(old, Len(new) + 1, Len(old))

\* The text is written at the start of the file, which another call may have
\* filled since it was opened; then the next file is opened.
Fill(w) ==
    LET f == Head(todo[w]) IN
    /\ pc[w] = "fill"
    /\ files' = [files EXCEPT ![f] = Over(@, TextFor(w, f))]
    /\ todo' = [todo EXCEPT ![w] = Tail(@)]
    /\ IF Len(todo[w]) = 1 THEN Return(w, "ok")
       ELSE pc' = [pc EXCEPT ![w] = "open"] /\ UNCHANGED result
    /\ UNCHANGED <<backends, call, texts, calls, errors, before, wrote, shared>>

\* The file cannot be opened, or not be written to the end: the call ends there.
WriteFails(w) ==
    /\ pc[w] \in {"open", "fill"} /\ errors < MaxErrors
    /\ errors' = errors + 1
    /\ IF pc[w] = "open" THEN UNCHANGED files
       ELSE LET f == Head(todo[w]) IN
            \E n \in 0..Len(TextFor(w, f)) :
                files' = [files EXCEPT ![f] = Over(@, SubSeq(TextFor(w, f), 1, n))]
    /\ Return(w, "io_error")
    /\ UNCHANGED <<backends, call, todo, texts, calls, before, wrote, shared>>

-----------------------------------------------------------------------------
(* The shell *)

ShellRequest ==
    IF Sandboxed THEN Transform(backends, WorkspaceManagedProfile(Cwd),
                                PathContext(<<Cwd>>, <<Tmp>>, <<>>, <<>>))
    ELSE Plain

MayWrite(request, f) ==
    request.sandbox = "none" \/ RootOf[f] \in Granted(request.policy, "write")

\* The tool wraps the command for the sandbox, or does not run it; a command
\* that runs may leave a file with another text, if it is let.
Shell(w) ==
    LET request == ShellRequest IN
    /\ pc[w] = "shell"
    /\ \/ request.ok /\ Return(w, "ok") /\ UNCHANGED <<files, wrote>>
       \/ /\ request.ok
          /\ \E f \in Files, t \in ShellTexts :
                /\ MayWrite(request, f)
                /\ files' = [files EXCEPT ![f] = t]
                /\ wrote' = [wrote EXCEPT ![w] = @ \cup {f}]
          /\ Return(w, "ok")
       \/ ~request.ok /\ Return(w, "refused") /\ UNCHANGED <<files, wrote>>
    /\ UNCHANGED <<backends, call, todo, texts, calls, errors, before, shared>>

Step(w) ==
    \/ Take(w) \/ ReadFile(w) \/ ReadToEdit(w) \/ ReadToEditSeveral(w)
    \/ Open(w) \/ Fill(w) \/ WriteFails(w) \/ Shell(w)

Next ==
    \/ \E w \in Workers : Step(w)
    \/ \E w \in Workers, c \in Calls : Execute(w, c)

Spec == Init /\ [][Next]_vars

-----------------------------------------------------------------------------
(* What the tools promise *)

TypeOK ==
    /\ backends \in Platforms
    /\ files \in FileSystems
    /\ call \in [Workers -> Calls]
    /\ pc \in [Workers -> {"idle", "read", "open", "fill", "shell", "done"}]
    /\ todo \in [Workers -> Seq(Files)]
    /\ texts \in [Workers -> FileSystems] /\ before \in [Workers -> FileSystems]
    /\ result \in [Workers -> {"none", "ok", "refused", "io_error"}]
    /\ calls \in 0..MaxCalls /\ errors \in 0..MaxErrors
    /\ wrote \in [Workers -> SUBSET Files]
    /\ shared \in [Workers -> BOOLEAN]

\* The edits one after the other, each of a word that is there once.
Fits(fs, e) == fs[e.path] # Missing /\ Unique(fs[e.path], e.old)
FilesInTurn(fs, edits) ==
    LET g[n \in 0..Len(edits)] ==
          IF n = 0 THEN fs
          ELSE LET now == g[n - 1]  e == edits[n] IN
               IF Fits(now, e) THEN [now EXCEPT ![e.path] = ReplaceFirst(@, e)] ELSE now
    IN  g
EditInTurn(fs, edits) ==
    LET g == FilesInTurn(fs, edits)
    IN  IF \A n \in DOMAIN edits : Fits(g[n - 1], edits[n])
        THEN [outcome |-> "ok", files |-> g[Len(edits)]]
        ELSE [outcome |-> "refused"]

\* What a call does to a file system of its own.
Intended(c, fs) ==
    CASE c.tool = "write_file" -> [outcome |-> "ok", files |-> [fs EXCEPT ![c.path] = c.content]]
      [] c.tool = "read_file"  -> [outcome |-> IF fs[c.path] = Missing THEN "refused" ELSE "ok",
                                   files |-> fs]
      [] c.tool = "edit"       -> IF Fits(fs, c)
                                  THEN [outcome |-> "ok",
                                        files |-> [fs EXCEPT ![c.path] = ReplaceFirst(@, c)]]
                                  ELSE [outcome |-> "refused"]
      [] c.tool = "multi_edit" -> EditInTurn(fs, c.edits)

\* No edit of the call replaces a word that another one brings in, or that is
\* checked with in its place.
Independent(c) ==
    c.tool = "multi_edit" =>
        \A i, j \in DOMAIN c.edits :
            i # j /\ c.edits[i].path = c.edits[j].path =>
                c.edits[j].old \notin {c.edits[i].new, Placeholder}

\* A call whose files no other call was at, and whose writes did not fail.
LeftAlone(w) ==
    /\ pc[w] = "done" /\ ~shared[w]
    /\ call[w].tool # "bash" /\ result[w] # "io_error"

ActsAsIntended(w) ==
    LET intended == Intended(call[w], before[w])
        after    == IF result[w] = "ok" THEN intended.files ELSE before[w]
    IN  /\ result[w] = intended.outcome
        /\ \A f \in PathsOf(call[w]) : files[f] = after[f]

\* A call that no other call meets on its files does all it is meant to do, or
\* is refused and does nothing: reading and writing apart, checking with a
\* placeholder and any order of the files come to the edits one by one.  What
\* the steps of the tools (src/crates/meepo-tools/src/builtin.rs:95,134 and
\* src/crates/meepo-tools/src/extra.rs:154) amount to.
LoneCallIsAtomic == \A w \in Workers : LeftAlone(w) /\ Independent(call[w]) => ActsAsIntended(w)

\* multi_edit's own promise, "If any fails, NO file is modified", and of the
\* other tools: whatever other calls do meanwhile, a call that is refused has
\* touched no file (src/crates/meepo-tools/src/extra.rs:177-203).
RefusedCallTouchesNothing == \A w \in Workers : result[w] = "refused" => wrote[w] = {}

\* A command of the sandboxed shell tool changes files of the working directory
\* only, and none where no backend is there to wrap it
\* (src/crates/meepo-sandbox/src/manager.rs:76 and macos.rs:299).
ShellStaysInside ==
    \A w \in Workers :
        Sandboxed /\ call[w].tool = "bash" =>
            \A f \in wrote[w] : RootOf[f] = Cwd /\ \E i \in DOMAIN backends : backends[i]

\* What the description of multi_edit says of a call that is left alone and
\* reports success: its edits, each of a word that was there once, "are applied
\* sequentially" (src/crates/meepo-tools/src/extra.rs:118-120,164).
\* The code does not keep it: README, Findings.
SeveralEditsActInTurn ==
    \A w \in Workers : LeftAlone(w) /\ call[w].tool = "multi_edit" /\ result[w] = "ok" => ActsAsIntended(w)
====
