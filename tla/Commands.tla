------------------------------ MODULE Commands ------------------------------
(***************************************************************************)
(* The command lines of EnzOS that change the filesystem                   *)
(* (os/src/shell/commands.c) with their paths: how a path is resolved and  *)
(* split (fs_resolve_path, resolve_parent_dir), what one line does to      *)
(* several operands, mkdir -p segment by segment, and the file that a      *)
(* redirection writes once the command has run (shell_handle_command).     *)
(*                                                                         *)
(* An operand is one step, a segment of mkdir -p is one step, and cp -r    *)
(* and rm -r go through the steps of FileSystem, which this module         *)
(* implements: what it adds is which nodes and which leaf names the        *)
(* handlers of FileSystem are given.                                       *)
(***************************************************************************)
EXTENDS FileSystem

CONSTANTS
  Lines,      \* the command lines that may be typed
  PathDepth   \* nodes that shell_print_path collects on its way up

(***************************************************************************)
(* A path is cut into segments at its slashes, and a segment into pieces   *)
(* of at most 31 characters, what FSNode.name and the segment buffer of    *)
(* fs_resolve_path hold.  <<>> is the empty path, or "/" when absolute.    *)
(***************************************************************************)
Piece == Name \cup {".", ".."}

Path == [abs : BOOLEAN, segs : Seq(Seq(Piece)), slash : BOOLEAN]  \* slash: it ends with one

Cmd == {"cd", "touch", "mkdir", "mkdir -p", "rmdir", "rm", "rm -r", "cp", "cp -r", "mv"}

\* A command line: its operands, for cp and mv the last one apart, and the target
\* of its redirection.
Line ==
  [cmd : Cmd, args : Seq(Path), dest : Path \cup {NULL}, file : Path \cup {NULL}, append : BOOLEAN]

\* Without an operand every handler only complains; cp and mv need two.
ASSUME LinesAssumption ==
  /\ Lines \subseteq Line
  /\ \A l \in Lines : l.args # <<>> /\ (l.dest # NULL <=> l.cmd \in {"cp", "cp -r", "mv"})
ASSUME DepthAssumption == PathDepth \in Nat \ {0}

VARIABLE
  job    \* the line being executed, or NULL at the prompt

cvars == <<vars, job>>

\* What a handler keeps while it works through its operands: the operands left, the
\* directory that cp and mv found at their destination when they started, and, for
\* mkdir -p, where in the operand it is.
Job ==
  [cmd : Cmd, args : Seq(Path), dest : Path \cup {NULL}, file : Path \cup {NULL}, append : BOOLEAN,
   into : Node \cup {NULL}, at : Node \cup {NULL}, rest : Seq(Piece)]

(***************************************************************************)
(* Resolving paths.                                                        *)
(***************************************************************************)
StepUp(n) == IF n # NULL /\ parent[n] # NULL THEN parent[n] ELSE n

Step(n, piece) ==
  CASE piece = "." -> n
    [] piece = ".." -> StepUp(n)
    [] OTHER -> Lookup(n, piece)

Start(p) == IF p.abs THEN Root ELSE cwd

Pieces(p) == FlattenSeq(p.segs)

Resolve(p) == FoldLeft(Step, Start(p), Pieces(p))

ParentDirAny(p) ==  \* mutant: the parent may be a file
  IF p.segs = <<>> THEN IF p.abs THEN NULL ELSE cwd
  ELSE Resolve([p EXCEPT !.segs = Front(p.segs)])

\* The directory that shall hold the leaf of p, NULL when p has no leaf or its
\* parent path does not lead to a directory.
ParentDir(p) ==
  IF p.segs = <<>> THEN IF p.abs THEN NULL ELSE cwd
  ELSE LET d == Resolve([p EXCEPT !.segs = Front(p.segs)]) IN IF IsDir(d) THEN d ELSE NULL

\* resolve_parent_for_path, a second copy of it in shell.c.
RedirectParent(p) == ParentDir(p)

\* The leaf is copied from the path up to its end, so it keeps a slash that ends the
\* path, and it is cut to what FSNode.name holds.
LeafName(p) ==
  IF p.segs = <<>> THEN NoName
  ELSE IF p.slash /\ Len(Last(p.segs)) = 1 THEN Last(p.segs)[1] \o "/" ELSE Last(p.segs)[1]

\* What a path ends in can be the name of a node.
ASSUME LeafAssumption ==
  \A l \in Lines : \A p \in ToSet(l.args) \cup ({l.dest, l.file} \ {NULL}) :
    p.segs # <<>> \/ ~p.abs => LeafName(p) \in Name

\* The nodes that shell_print_path collects on its way up from n, as many as it has room for.
Collected(n) ==
  LET up[k \in 1 .. PathDepth] ==
        IF k = 1 THEN n ELSE IF up[k - 1] = NULL THEN NULL ELSE parent[up[k - 1]]
  IN [k \in {j \in 1 .. PathDepth : up[j] # NULL} |-> up[k]]

PrintedPathUpwards(n) ==  \* mutant: the names are printed in the order they were collected
  LET met == Collected(n)
      abs == parent[Last(met)] = NULL
      named == IF abs THEN Front(met) ELSE met
  IN [abs |-> abs, segs |-> [i \in DOMAIN named |-> <<name[named[i]]>>], slash |-> FALSE]

\* What pwd prints for node n: the names of the nodes collected on the way up, with
\* a slash in front when the last of them has no parent.
PrintedPath(n) ==
  LET met == Collected(n)
      abs == parent[Last(met)] = NULL
      named == Reverse(IF abs THEN Front(met) ELSE met)
  IN [abs |-> abs, segs |-> [i \in DOMAIN named |-> <<name[named[i]]>>], slash |-> FALSE]

(***************************************************************************)
(* The line.                                                               *)
(***************************************************************************)
Prompt == job = NULL /\ Idle

Running(cmds) == job # NULL /\ Idle /\ job.cmd \in cmds

Operand == Head(job.args)

\* The handler goes on to its next operand.
NextOperand == job' = [job EXCEPT !.args = Tail(@)]

\* cp and mv with several sources need a directory to put them in.
NoDirectoryFor(l) == l.dest # NULL /\ ~IsDir(Resolve(l.dest)) /\ Len(l.args) > 1

\* cd and touch look at one operand only.
Started(l) ==
  LET at == IF l.dest = NULL THEN NULL ELSE Resolve(l.dest)
      into == IF IsDir(at) THEN at ELSE NULL
      args == IF l.cmd \in {"cd", "touch"} THEN SubSeq(l.args, 1, 1)
              ELSE IF NoDirectoryFor(l) THEN <<>> ELSE l.args
  IN [cmd |-> l.cmd, args |-> args, dest |-> l.dest, file |-> l.file, append |-> l.append,
      into |-> into, at |-> NULL, rest |-> <<>>]

Enter(l) ==
  /\ Prompt
  /\ job' = Started(l)
  /\ IF NoDirectoryFor(l) THEN Refuse ELSE UNCHANGED vars

CdOperand ==
  LET n == Resolve(Operand) IN
  /\ Running({"cd"}) /\ job.args # <<>>
  /\ IF n = NULL THEN Refuse ELSE Cd(n)
  /\ NextOperand

TouchOperand ==
  LET d == ParentDir(Operand) IN
  /\ Running({"touch"}) /\ job.args # <<>>
  /\ IF d = NULL THEN Refuse ELSE Touch(d, LeafName(Operand))
  /\ NextOperand

MkdirOperand ==
  LET d == ParentDir(Operand) IN
  /\ Running({"mkdir"}) /\ job.args # <<>>
  /\ IF d = NULL THEN Refuse ELSE Mkdir(d, LeafName(Operand))
  /\ NextOperand

\* mkdir -p cuts its operand as fs_resolve_path does, and looks up or creates one
\* piece after the other.
MkdirParentsBegin ==
  /\ Running({"mkdir -p"}) /\ job.args # <<>> /\ job.at = NULL
  /\ IF Operand.segs = <<>> /\ ~Operand.abs
     THEN Refuse /\ NextOperand
     ELSE /\ job' = [job EXCEPT !.at = Start(Operand), !.rest = Pieces(Operand)]
          /\ UNCHANGED vars

MkdirParentsPieceNoDots ==  \* mutant: ".." is looked up like any other name
  LET piece == Head(job.rest) IN
  /\ Running({"mkdir -p"}) /\ job.rest # <<>>
  /\ Mkdir(job.at, piece)
  /\ job' = IF EntryOk("dir", job.at, piece)
            THEN [job EXCEPT !.at = Entry(@, piece), !.rest = Tail(@)]
            ELSE [job EXCEPT !.at = NULL, !.rest = <<>>, !.args = Tail(@)]

MkdirParentsPieceGoesOn ==  \* mutant: a file in the way is entered
  LET piece == Head(job.rest) IN
  /\ Running({"mkdir -p"}) /\ job.rest # <<>>
  /\ IF piece \in {".", ".."} \/ Lookup(job.at, piece) # NULL
     THEN UNCHANGED vars /\ job' = [job EXCEPT !.at = Step(@, piece), !.rest = Tail(@)]
     ELSE /\ Mkdir(job.at, piece)
          /\ job' = IF CanAllocate /\ HasRoom(job.at)
                    THEN [job EXCEPT !.at = used + 1, !.rest = Tail(@)]
                    ELSE [job EXCEPT !.at = NULL, !.rest = <<>>, !.args = Tail(@)]

MkdirParentsPieceStays ==  \* mutant: the loop goes on without moving past "." and ".."
  LET piece == Head(job.rest) IN
  /\ Running({"mkdir -p"}) /\ job.rest # <<>>
  /\ IF piece \in {".", ".."}
     THEN job' = [job EXCEPT !.at = Step(@, piece)] /\ UNCHANGED vars
     ELSE /\ Mkdir(job.at, piece)
          /\ job' = IF EntryOk("dir", job.at, piece)
                    THEN [job EXCEPT !.at = Entry(@, piece), !.rest = Tail(@)]
                    ELSE [job EXCEPT !.at = NULL, !.rest = <<>>, !.args = Tail(@)]

MkdirParentsPiece ==
  LET piece == Head(job.rest) IN
  /\ Running({"mkdir -p"}) /\ job.rest # <<>>
  /\ IF piece \in {".", ".."}
     THEN /\ job' = [job EXCEPT !.at = Step(@, piece), !.rest = Tail(@)]
          /\ UNCHANGED vars
     ELSE /\ Mkdir(job.at, piece)
          /\ job' = IF EntryOk("dir", job.at, piece)
                    THEN [job EXCEPT !.at = Entry(@, piece), !.rest = Tail(@)]
                    ELSE [job EXCEPT !.at = NULL, !.rest = <<>>, !.args = Tail(@)]

MkdirParentsEnd ==
  /\ Running({"mkdir -p"}) /\ job.at # NULL /\ job.rest = <<>>
  /\ job' = [job EXCEPT !.at = NULL, !.args = Tail(@)]
  /\ UNCHANGED vars

RmdirOperand ==
  LET n == Resolve(Operand) IN
  /\ Running({"rmdir"}) /\ job.args # <<>>
  /\ IF n = NULL THEN Refuse ELSE Rmdir(n)
  /\ NextOperand

RmOperand ==
  LET n == Resolve(Operand) IN
  /\ Running({"rm", "rm -r"}) /\ job.args # <<>>
  /\ IF n = NULL THEN Refuse ELSE IF job.cmd = "rm -r" THEN RmRecursive(n) ELSE Rm(n)
  /\ NextOperand

\* Where cp and mv put node n, and under which name.
Target == IF job.into # NULL THEN job.into ELSE ParentDir(job.dest)

TargetName(n) == IF job.into # NULL THEN name[n] ELSE LeafName(job.dest)

CpOperand ==
  LET s == Resolve(Operand) IN
  /\ Running({"cp", "cp -r"}) /\ job.args # <<>>
  /\ IF s = NULL \/ Target = NULL THEN Refuse ELSE Cp(s, Target, TargetName(s), job.cmd = "cp -r")
  /\ NextOperand

MvOperand ==
  LET n == Resolve(Operand) IN
  /\ Running({"mv"}) /\ job.args # <<>>
  /\ IF n = NULL \/ Target = NULL THEN Refuse ELSE Mv(n, Target, TargetName(n))
  /\ NextOperand

\* The handler has returned: the captured output goes to the target of the
\* redirection, whose path is resolved only now.
Finish ==
  LET d == RedirectParent(job.file) IN
  /\ Running(Cmd) /\ job.args = <<>>
  /\ IF job.file = NULL THEN UNCHANGED vars
     ELSE IF d = NULL THEN Refuse
     ELSE \E out \in Text : Redirect(d, LeafName(job.file), out, job.append)
  /\ job' = NULL

Walk == (CopyStep \/ RemoveStep) /\ UNCHANGED job

HandlerStep ==
  \/ CdOperand \/ TouchOperand \/ MkdirOperand \/ RmdirOperand \/ RmOperand \/ CpOperand \/ MvOperand
  \/ MkdirParentsBegin \/ MkdirParentsPiece \/ MkdirParentsEnd
  \/ Finish

CommandsInit == Init /\ job = NULL

CommandsNext == (\E l \in Lines : Enter(l)) \/ HandlerStep \/ Walk

CommandsSpec == CommandsInit /\ [][CommandsNext]_cvars

\* A line is executed to its end before the next one is read.
CommandsFairSpec == CommandsSpec /\ WF_cvars(HandlerStep \/ Walk)
=============================================================================
