---- MODULE MCTools ----
(* Instances of Tools for TLC. *)
EXTENDS Tools

CONSTANTS w1, w2, a, b, inside, outside, here, tmp

Roots == (inside :> here @@ outside :> tmp)
ShortTexts == UNION {[1..n -> Words] : n \in 0..2}

Edited(f, old, new) == [tool |-> "edit", path |-> f, old |-> old, new |-> new]
Several(edits) == [tool |-> "multi_edit", edits |-> edits]
In(f, old, new) == [path |-> f, old |-> old, new |-> new]

\* Every tool, on one file or two; the edits of a call on one file are
\* independent, or the second replaces what the first brings in.
SomeCalls ==
    {[tool |-> "read_file", path |-> inside],
     [tool |-> "write_file", path |-> inside, content |-> <<b>>],
     [tool |-> "bash"],
     Edited(inside, a, b),
     Edited(outside, b, a),
     Several(<<In(inside, a, b), In(outside, a, b)>>),
     Several(<<In(inside, a, b), In(inside, a, b)>>),
     Several(<<In(inside, a, b), In(inside, b, a)>>)}

AnyFiles == [Files -> ShortTexts \cup {Missing}]
\* On macOS with and without sandbox-exec, and elsewhere.
Hosts == {<<TRUE>>, <<FALSE>>, <<>>}
Shells == {<<>>, <<a>>}
====
