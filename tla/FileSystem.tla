----------------------------- MODULE FileSystem -----------------------------
(***************************************************************************)
(* The RAM filesystem of EnzOS (os/src/fs.c) and the handlers that change  *)
(* it (os/src/shell/commands.c, and the redirection of shell.c), once the  *)
(* paths on the command line are resolved: every action takes the nodes    *)
(* and the leaf name the resolution produced.  Paths are the business of   *)
(* module Commands, which implements this one.                             *)
(*                                                                         *)
(* The kernel has one thread and no interrupts, so a handler is one        *)
(* action.  fs_remove_recursive and fs_copy_recursive are the exception:   *)
(* both walk a tree they are changing, so each of their iterations is a    *)
(* step and the C call stack is a variable.                                *)
(***************************************************************************)
EXTENDS Naturals, SequencesExt

CONSTANTS
  MaxNodes,     \* FS_MAX_NODES: slots of node_pool, none ever given back
  MaxChildren,  \* length of FSNode.children
  PoolSize,     \* FS_CONTENT_POOL_SIZE, in bytes
  Name,         \* strings that fit FSNode.name, as a leaf or a path segment
  Char,         \* bytes a file may hold
  Text,         \* captured outputs that may be redirected to a file
  NULL

Root == 0                      \* root_node; slot k of node_pool is node k
Node == 0 .. MaxNodes
RootName == "/"
NoName == ""                   \* name of a slot of node_pool not handed out yet
FileName == Name \cup {RootName, NoName}

ASSUME SizeAssumption ==
  MaxNodes \in Nat /\ MaxChildren \in Nat /\ PoolSize \in Nat
ASSUME TextAssumption == Text \subseteq Seq(Char)
ASSUME NullAssumption == NULL \notin Node

VARIABLES
  used,       \* node_pool_used: nodes 1 .. used have been handed out
  type,       \* FSNode fields, one function each
  name,
  parent,
  children,
  content,    \* NULL, or the string in the pool that content points at
  poolUsed,   \* content_pool_used
  cwd,        \* current_working_directory
  copyStack,  \* active calls of fs_copy_recursive, innermost last
  rmStack,    \* active calls of fs_remove_recursive, innermost last
  ret         \* what the handler that ran last reported, error if it complained

tree == <<used, type, name, parent, children>>
data == <<content, poolUsed>>
stacks == <<copyStack, rmStack>>
vars == <<tree, data, cwd, stacks, ret>>

Nodes == 0 .. used             \* the root and the slots handed out
Type == {"file", "dir"}
Frame == [src : Node, dst : Node, next : Nat]
Ret == {"ok", "error"}

(***************************************************************************)
(* Reading the tree.                                                       *)
(***************************************************************************)
IsDir(n) == n # NULL /\ type[n] = "dir"

IsFile(n) == n # NULL /\ type[n] = "file"

HasEntryButLast(d, nm) ==  \* mutant: the scan stops one child short
  \E i \in 1 .. Len(children[d]) - 1 : name[children[d][i]] = nm

HasEntry(d, nm) == \E i \in DOMAIN children[d] : name[children[d][i]] = nm

\* The first child of directory d called nm.
Lookup(d, nm) ==
  IF IsDir(d) /\ HasEntry(d, nm)
  THEN children[d][CHOOSE i \in DOMAIN children[d] :
                     /\ name[children[d][i]] = nm
                     /\ \A j \in 1 .. i - 1 : name[children[d][j]] # nm]
  ELSE NULL

UpClosed(S) == \A m \in S : parent[m] # NULL => parent[m] \in S

DownClosed(S) == \A m \in S : \A i \in DOMAIN children[m] : children[m][i] \in S

\* a is n or is met on the way up from n: the least set holding n that the
\* parent pointers do not leave holds a.
IsAncestor(a, n) == \A S \in SUBSET Node : n \in S /\ UpClosed(S) => a \in S

\* The nodes a command can name: whatever some path reaches from the root or
\* from the working directory, through child links and "..".
Handles ==
  {n \in Node : \A S \in SUBSET Node :
                  (Root \in S /\ cwd \in S /\ UpClosed(S) /\ DownClosed(S)) => n \in S}

(***************************************************************************)
(* Changing the tree.                                                      *)
(***************************************************************************)
CanAllocateOneMore == used <= MaxNodes  \* mutant: off by one

CanAllocate == used < MaxNodes

HasRoom(d) == Len(children[d]) < MaxChildren

CreateNodeOrGiveBack(kind, d, nm) ==  \* mutant: the slot add_child refused is not counted
  IF CanAllocate
  THEN LET n == used + 1 IN
       /\ used' = IF HasRoom(d) THEN n ELSE used
       /\ type' = [type EXCEPT ![n] = kind]
       /\ name' = [name EXCEPT ![n] = nm]
       /\ parent' = [parent EXCEPT ![n] = d]
       /\ children' = IF HasRoom(d) THEN [children EXCEPT ![d] = Append(@, n)] ELSE children
  ELSE UNCHANGED tree

\* allocate_node and add_child: a slot is taken before it is known whether the
\* directory can list it; when it cannot, the slot keeps its parent pointer and
\* is lost.
CreateNode(kind, d, nm) ==
  IF CanAllocate
  THEN LET n == used + 1 IN
       /\ used' = n
       /\ type' = [type EXCEPT ![n] = kind]
       /\ name' = [name EXCEPT ![n] = nm]
       /\ parent' = [parent EXCEPT ![n] = d]
       /\ children' = IF HasRoom(d) THEN [children EXCEPT ![d] = Append(@, n)] ELSE children
  ELSE UNCHANGED tree

\* What "look it up, else create it" yields, and whether that is a node of the kind.
Entry(d, nm) == IF Lookup(d, nm) = NULL THEN used + 1 ELSE Lookup(d, nm)

EntryOkAnyKind(kind, d, nm) ==  \* mutant: what is found is not checked
  Lookup(d, nm) = NULL => CanAllocate /\ HasRoom(d)

EntryOk(kind, d, nm) ==
  IF Lookup(d, nm) = NULL THEN CanAllocate /\ HasRoom(d) ELSE type[Lookup(d, nm)] = kind

FindOrCreate(kind, d, nm) ==
  IF Lookup(d, nm) = NULL THEN CreateNode(kind, d, nm) ELSE UNCHANGED tree

Fits(text) == Len(text) + 1 <= PoolSize - poolUsed

\* Find or create file nm and store text in it; NULL stands for no data to store.
PutOk(d, nm, text) == EntryOk("file", d, nm) /\ (text # NULL => Fits(text))

PutFileUnterminated(d, nm, text) ==  \* mutant: the terminator is not counted
  /\ FindOrCreate("file", d, nm)
  /\ IF text # NULL /\ PutOk(d, nm, text)
     THEN /\ content' = [content EXCEPT ![Entry(d, nm)] = text]
          /\ poolUsed' = poolUsed + Len(text)
     ELSE UNCHANGED data

PutFile(d, nm, text) ==
  /\ FindOrCreate("file", d, nm)
  /\ IF text # NULL /\ PutOk(d, nm, text)
     THEN /\ content' = [content EXCEPT ![Entry(d, nm)] = text]
          /\ poolUsed' = poolUsed + Len(text) + 1
     ELSE UNCHANGED data

\* detach_child finds the node in the list of its parent.
IsLinked(n) ==
  /\ parent[n] # NULL
  /\ \E i \in DOMAIN children[parent[n]] : children[parent[n]][i] = n

CanRemove(n) == n # Root /\ (IsDir(n) => children[n] = <<>>) /\ IsLinked(n)

DetachLast(n) ==  \* mutant: the list of the parent is shortened, not shifted
  /\ children' = [children EXCEPT ![parent[n]] = Front(@)]
  /\ parent' = [parent EXCEPT ![n] = NULL]
  /\ UNCHANGED <<used, type, name>>

Detach(n) ==
  /\ children' = [children EXCEPT ![parent[n]] = RemoveFirst(@, n)]
  /\ parent' = [parent EXCEPT ![n] = NULL]
  /\ UNCHANGED <<used, type, name>>

FsRemove(n) == IF CanRemove(n) THEN Detach(n) ELSE UNCHANGED tree

(***************************************************************************)
(* The handlers.                                                           *)
(***************************************************************************)
Idle == copyStack = <<>> /\ rmStack = <<>>

Report(ok) == ret' = IF ok THEN "ok" ELSE "error"

Init ==
  /\ used = 0
  /\ type = [n \in Node |-> IF n = Root THEN "dir" ELSE "file"]
  /\ name = [n \in Node |-> IF n = Root THEN RootName ELSE NoName]
  /\ parent = [n \in Node |-> NULL]
  /\ children = [n \in Node |-> <<>>]
  /\ content = [n \in Node |-> NULL]
  /\ poolUsed = 0
  /\ cwd = Root
  /\ copyStack = <<>>
  /\ rmStack = <<>>
  /\ ret = "ok"

\* A command whose paths lead nowhere only complains.
Refuse ==
  /\ Idle
  /\ Report(FALSE)
  /\ UNCHANGED <<tree, data, cwd, stacks>>

Cd(n) ==
  /\ Idle
  /\ cwd' = IF IsDir(n) THEN n ELSE cwd
  /\ Report(IsDir(n))
  /\ UNCHANGED <<tree, data, stacks>>

\* command_touch drops the result of fs_create_file, so it only ever complains
\* about a directory in the way.
Touch(d, nm) ==
  /\ Idle
  /\ FindOrCreate("file", d, nm)
  /\ Report(~IsDir(Lookup(d, nm)))
  /\ UNCHANGED <<data, cwd, stacks>>

Mkdir(d, nm) ==
  /\ Idle
  /\ FindOrCreate("dir", d, nm)
  /\ Report(EntryOk("dir", d, nm))
  /\ UNCHANGED <<data, cwd, stacks>>

\* The file that receives the captured output; append extends what it holds.
Redirect(d, nm, out, append) ==
  LET f == Lookup(d, nm)
      old == IF append /\ IsFile(f) /\ content[f] # NULL THEN content[f] ELSE <<>>
  IN /\ Idle
     /\ PutFile(d, nm, old \o out)
     /\ Report(PutOk(d, nm, old \o out))
     /\ UNCHANGED <<cwd, stacks>>

Rmdir(n) ==
  /\ Idle
  /\ IF IsDir(n) THEN FsRemove(n) ELSE UNCHANGED tree
  /\ Report(IsDir(n) /\ CanRemove(n))
  /\ UNCHANGED <<data, cwd, stacks>>

Rm(n) ==
  /\ Idle
  /\ IF IsDir(n) THEN UNCHANGED tree ELSE FsRemove(n)
  /\ Report(~IsDir(n) /\ CanRemove(n))
  /\ UNCHANGED <<data, cwd, stacks>>

(***************************************************************************)
(* rm -r: fs_remove_recursive empties a directory from its last child.     *)
(***************************************************************************)
RmRecursiveAnywhere(n) ==  \* mutant: the root is not refused
  /\ Idle
  /\ rmStack' = <<n>>
  /\ Report(TRUE)
  /\ UNCHANGED <<tree, data, cwd, copyStack>>

RmRecursive(n) ==
  /\ Idle
  /\ rmStack' = IF n = Root THEN <<>> ELSE <<n>>
  /\ Report(n # Root)
  /\ UNCHANGED <<tree, data, cwd, copyStack>>

RemoveDescend ==
  LET n == Last(rmStack) IN
  /\ rmStack # <<>>
  /\ IsDir(n) /\ children[n] # <<>>
  /\ rmStack' = Append(rmStack, Last(children[n]))
  /\ UNCHANGED <<tree, data, cwd, copyStack, ret>>

RemoveReturnEarly ==  \* mutant: the directory need not be empty yet
  /\ rmStack # <<>>
  /\ FsRemove(Last(rmStack))
  /\ rmStack' = Front(rmStack)
  /\ Report(TRUE)
  /\ UNCHANGED <<data, cwd, copyStack>>

\* The call on the innermost node returns; a failure makes every caller return.
RemoveReturn ==
  LET n == Last(rmStack)
      rest == IF CanRemove(n) THEN Front(rmStack) ELSE <<>>
  IN /\ rmStack # <<>>
     /\ IsDir(n) => children[n] = <<>>
     /\ FsRemove(n)
     /\ rmStack' = rest
     /\ Report(CanRemove(n))
     /\ UNCHANGED <<data, cwd, copyStack>>

(***************************************************************************)
(* cp: fs_copy_recursive.  A frame copies the children of directory src    *)
(* into directory dst and has done the first `next` of them; the number of *)
(* children is read again at every iteration.                              *)
(***************************************************************************)
CopyOk(s, d, nm) ==
  IF IsFile(s) THEN PutOk(d, nm, content[s]) ELSE EntryOk("dir", d, nm)

\* The call fs_copy_recursive(s, d, nm) made with the frames of its callers.
CopyNode(s, d, nm, callers) ==
  /\ IF IsFile(s) THEN PutFile(d, nm, content[s])
                  ELSE FindOrCreate("dir", d, nm) /\ UNCHANGED data
  /\ copyStack' = IF ~CopyOk(s, d, nm) THEN <<>>
                  ELSE IF IsFile(s) THEN callers
                  ELSE Append(callers, [src |-> s, dst |-> Entry(d, nm), next |-> 0])
  /\ Report(CopyOk(s, d, nm))

CpRefusedNotBelow(s, d, recursive) ==  \* mutant: a directory may be copied into itself
  IsDir(s) /\ ~recursive

CpRefused(s, d, recursive) == (IsDir(s) /\ ~recursive) \/ IsAncestor(s, d)

Cp(s, d, nm, recursive) ==
  /\ Idle
  /\ IF CpRefused(s, d, recursive)
     THEN Report(FALSE) /\ UNCHANGED <<tree, data, copyStack>>
     ELSE CopyNode(s, d, nm, <<>>)
  /\ UNCHANGED <<cwd, rmStack>>

CopyChildHere ==  \* mutant: the child is copied to the working directory
  LET f == Last(copyStack)
      c == children[f.src][f.next + 1]
  IN /\ copyStack # <<>>
     /\ f.next < Len(children[f.src])
     /\ CopyNode(c, cwd, name[c], [copyStack EXCEPT ![Len(copyStack)].next = @ + 1])
     /\ UNCHANGED <<cwd, rmStack>>

CopyChildAgain ==  \* mutant: the loop does not advance
  LET f == Last(copyStack)
      c == children[f.src][f.next + 1]
  IN /\ copyStack # <<>>
     /\ f.next < Len(children[f.src])
     /\ CopyNode(c, f.dst, name[c], copyStack)
     /\ UNCHANGED <<cwd, rmStack>>

CopyChild ==
  LET f == Last(copyStack)
      c == children[f.src][f.next + 1]
      callers == [copyStack EXCEPT ![Len(copyStack)].next = @ + 1]
  IN /\ copyStack # <<>>
     /\ f.next < Len(children[f.src])
     /\ CopyNode(c, f.dst, name[c], callers)
     /\ UNCHANGED <<cwd, rmStack>>

CopyReturn ==
  /\ copyStack # <<>>
  /\ Last(copyStack).next >= Len(children[Last(copyStack).src])
  /\ copyStack' = Front(copyStack)
  /\ UNCHANGED <<tree, data, cwd, rmStack, ret>>

(***************************************************************************)
(* mv: move_node removes a file in the way, unlinks the node, renames it   *)
(* and only then tries to link it under its new parent.                    *)
(***************************************************************************)
MvRefusedNotBelow(n, t, nm) ==  \* mutant: a node may move into its own subtree
  \/ parent[n] = NULL
  \/ LET e == Lookup(t, nm) IN e # NULL /\ e # n /\ (IsDir(e) \/ IsDir(n))

MvRefusedOverFile(n, t, nm) ==  \* mutant: a directory in the way is replaced
  \/ parent[n] = NULL
  \/ IsAncestor(n, t)
  \/ LET e == Lookup(t, nm) IN e # NULL /\ e # n /\ IsDir(n)

MvRefused(n, t, nm) ==
  \/ parent[n] = NULL
  \/ IsAncestor(n, t)
  \/ LET e == Lookup(t, nm) IN e # NULL /\ e # n /\ (IsDir(e) \/ IsDir(n))

MvNode(n, t, nm) ==
  LET e == Lookup(t, nm)
      victim == IF e = n THEN NULL ELSE e
      removed == IF victim = NULL THEN children ELSE [children EXCEPT ![t] = RemoveFirst(@, victim)]
      unlinked == [removed EXCEPT ![parent[n]] = RemoveFirst(@, n)]
      linkable == /\ Len(unlinked[t]) < MaxChildren
                  /\ \A i \in DOMAIN unlinked[t] : name[unlinked[t][i]] # nm
  IN /\ name' = [name EXCEPT ![n] = nm]
     /\ children' = IF linkable THEN [unlinked EXCEPT ![t] = Append(@, n)] ELSE unlinked
     /\ parent' = [m \in Node |-> IF m = n THEN (IF linkable THEN t ELSE NULL)
                                  ELSE IF m = victim THEN NULL ELSE parent[m]]
     /\ UNCHANGED <<used, type>>
     /\ Report(linkable)

Mv(n, t, nm) ==
  /\ Idle
  /\ IF MvRefused(n, t, nm)
     THEN Report(FALSE) /\ UNCHANGED tree
     ELSE MvNode(n, t, nm)
  /\ UNCHANGED <<data, cwd, stacks>>

(***************************************************************************)
(* The specification.                                                      *)
(***************************************************************************)
CopyStep == CopyChild \/ CopyReturn

RemoveStep == RemoveDescend \/ RemoveReturn

\* Names a leaf may take: one typed, or that of the node copied or moved into
\* an existing directory.
Leaf(n) == Name \cup {name[n]}

\* Nodes but the slots that CreateNode lost: a parent, if there is one, lists them.
Kept(n) == n \in Nodes /\ (parent[n] # NULL => IsLinked(n))

\* What cp and mv find at their destination they keep for all operands, also when one of
\* them was an ancestor of the working directory and no path leads there any more.
Command ==
  LET H == Handles
      D == {n \in H : IsDir(n)}
      T == {n \in Nodes : IsDir(n) /\ Kept(n)}
  IN \/ Refuse
     \/ \E n \in H : Cd(n) \/ Rmdir(n) \/ Rm(n) \/ RmRecursive(n)
     \/ \E d \in D, nm \in Name : Touch(d, nm) \/ Mkdir(d, nm)
     \/ \E d \in D, nm \in Name, out \in Text, append \in BOOLEAN : Redirect(d, nm, out, append)
     \/ \E s \in H, d \in T : \E nm \in Leaf(s) : \E r \in BOOLEAN : Cp(s, d, nm, r)
     \/ \E n \in H, t \in T : \E nm \in Leaf(n) : Mv(n, t, nm)

Next == Command \/ CopyStep \/ RemoveStep

Spec == Init /\ [][Next]_vars

\* A handler that has started is run to its end: there is nothing else to run.
Fairness == WF_vars(CopyStep) /\ WF_vars(RemoveStep)

FairSpec == Spec /\ Fairness
=============================================================================
