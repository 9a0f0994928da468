----------------------------- MODULE MCCommands -----------------------------
(***************************************************************************)
(* Command lines over a few short paths, for TLC.                          *)
(***************************************************************************)
EXTENDS CommandsProperties

MCName == {"a", "b", "c"}
NoChar == {}
LeafNames == MCName \cup {"a/", ".", ".."}   \* what a leaf may become
NoText == {<<>>}

P(abs, pieces) == [abs |-> abs, segs |-> [i \in DOMAIN pieces |-> <<pieces[i]>>], slash |-> FALSE]

A == P(FALSE, <<"a">>)
B == P(FALSE, <<"b">>)
RootPath == P(TRUE, <<>>)
RootB == P(TRUE, <<"b">>)
AB == P(FALSE, <<"a", "b">>)
C == P(FALSE, <<"c">>)
Up == P(FALSE, <<"..">>)
UpA == P(FALSE, <<"..", "a">>)
AUpB == P(FALSE, <<"a", "..", "b">>)
Here == P(FALSE, <<".">>)
ASlash == [A EXCEPT !.slash = TRUE]
LongA == [A EXCEPT !.segs = <<<<"a", "b">>>>]   \* "a" stands for 31 characters, "b" for the rest

L(cmd, args) == [cmd |-> cmd, args |-> args, dest |-> NULL, file |-> NULL, append |-> FALSE]

L2(cmd, args, dest) == [L(cmd, args) EXCEPT !.dest = dest]

MCLines ==
  {L(cmd, <<p>>) : cmd \in {"mkdir", "touch", "rm", "rm -r"}, p \in {A, AB, UpA, RootB}}
  \cup {L("cd", <<p>>) : p \in {A, Up, AUpB, RootPath, Here}} \cup {L("touch", <<LongA>>), L("touch", <<Here>>), L("mkdir", <<ASlash>>)}
  \cup {L("rmdir", <<p, Up>>) : p \in {A, RootB}}
  \cup {L("mkdir -p", <<p>>) : p \in {AB, AUpB, RootB}} \cup {L("mkdir -p", <<UpA, B>>)}
  \cup {L2("mv", <<p>>, q) : p, q \in {A, AB, Up, RootB}}
  \cup {L2("cp -r", <<p>>, q) : p, q \in {A, AB, Up, RootB}}
  \cup {L2("mv", <<A, AB>>, q) : q \in {B, Up}}
  \cup {L2("cp", <<A, B>>, q) : q \in {AB, Up}}
  \cup {[L("cd", <<p>>) EXCEPT !.file = q, !.append = TRUE] : p \in {A, Up}, q \in {B, AB}}

\* Every loop of the handlers, and operands that get in each other's way.
LoopLines ==
  {L("mkdir -p", <<p>>) : p \in {AUpB, AB, C}}
  \cup {L("cd", <<AB>>), L("rmdir", <<AB, B>>), L("rm -r", <<A, B>>)}
  \cup {L2("mv", <<p, q>>, Up) : p \in {A, UpA}, q \in {UpA, AB}}
  \cup {L2("mv", <<A, B>>, AB), L2("mv", <<B>>, A), L2("cp -r", <<A, AB>>, B)}

TouchA == L("touch", <<A>>)
RmA == L("rm", <<A>>)

SessionLines == MCLines \cup LoopLines \cup {TouchA, RmA}

\* A session has LoopLines, with three nodes, or spends a slot on a file that it removes
\* and has MCLines, with the two that are left.
Offered ==
  CASE used = 0 -> LoopLines \cup {TouchA}
    [] used > 0 /\ type[1] = "dir" -> LoopLines
    [] used > 0 /\ type[1] = "file" /\ parent[1] # NULL -> {RmA}
    [] OTHER -> MCLines

SessionNext == (\E l \in Offered : Enter(l)) \/ HandlerStep \/ Walk

SessionSpec == CommandsInit /\ [][SessionNext]_cvars /\ WF_cvars(HandlerStep \/ Walk)
=============================================================================
