------------------------ MODULE FileSystemProperties ------------------------
(***************************************************************************)
(* What the RAM filesystem of module FileSystem must keep.                 *)
(***************************************************************************)
EXTENDS FileSystem

(***************************************************************************)
(* Invariants.                                                             *)
(***************************************************************************)
\* Every field stays in its range: no index runs past a pool or a stack.
TypeOK ==
  /\ used \in 0 .. MaxNodes
  /\ type \in [Node -> Type]
  /\ name \in [Node -> FileName]
  /\ parent \in [Node -> Node \cup {NULL}]
  /\ children \in [Node -> Seq(Node)]
  /\ DOMAIN content = Node
  /\ \A n \in Node : content[n] = NULL \/ content[n] \in Seq(Char)
  /\ poolUsed \in 0 .. PoolSize
  /\ cwd \in Node
  /\ copyStack \in Seq(Frame)
  /\ rmStack \in Seq(Node)
  /\ ret \in Ret

\* Slots of node_pool that were never handed out are blank, and nothing points
\* at them: allocate_node never hands out a node that is already in the tree.
Unlinked(n) ==
  /\ parent[n] = NULL /\ children[n] = <<>>
  /\ \A m \in Node : parent[m] # n /\ \A i \in DOMAIN children[m] : children[m][i] # n

FreshUnlinked == \A n \in Node : n > used => Unlinked(n)

FreshBlank == FreshUnlinked /\ \A n \in Node : n > used => content[n] = NULL

\* The two directions of the tree agree: what a directory lists names that
\* directory as its parent, only directories list or are parents of anything, no
\* directory lists more than children[] has room for, and the root stays a
\* directory without a parent, which rm, mv and cp have to maintain between them,
\* one pointer at a time.
TreeLinks ==
  /\ \A d \in Node : \A i \in DOMAIN children[d] : parent[children[d][i]] = d
  /\ \A d \in Node : children[d] # <<>> => IsDir(d)
  /\ \A d \in Node : Len(children[d]) <= MaxChildren
  /\ \A n \in Node : parent[n] # NULL => IsDir(parent[n])
  /\ IsDir(Root) /\ parent[Root] = NULL

\* No directory holds two entries of one name, nor one node twice: the first
\* match of fs_lookup is the only one, and detaching a node leaves no other link.
UniqueNames ==
  \A d \in Node : \A i, j \in DOMAIN children[d] :
    name[children[d][i]] = name[children[d][j]] => i = j

\* No directory is its own ancestor, although mv re-parents whole subtrees:
\* is_ancestor, print_path, tree and rm -r, which follow parent or child pointers
\* without any bound, come to an end.
Acyclic == \A n \in Node : parent[n] # NULL => ~IsAncestor(n, parent[n])

\* The working directory and the calls in progress stay on live nodes although
\* the loops of cp -r and rm -r change the tree under them: a copy has a directory
\* on each side and never counts past the children of its source; a removal is
\* never on the root, and below its target each call is on the last child of the
\* node of its caller.
CopyCallOk(f) ==
  /\ f.src \in Nodes /\ IsDir(f.src) /\ f.next <= Len(children[f.src])
  /\ f.dst \in Nodes /\ IsDir(f.dst)

RemoveCallOk(k) ==
  /\ rmStack[k] \in Nodes \ {Root}
  /\ k > 1 => /\ children[rmStack[k - 1]] # <<>>
              /\ Last(children[rmStack[k - 1]]) = rmStack[k]

CallsOnTree ==
  /\ cwd \in Nodes /\ IsDir(cwd)
  /\ \A k \in DOMAIN copyStack : CopyCallOk(copyStack[k])
  /\ \A k \in DOMAIN rmStack : RemoveCallOk(k)
  /\ copyStack = <<>> \/ rmStack = <<>>

\* The bytes that a content needs with its terminator, and all of them together.
Bytes(text) == IF text = NULL THEN 0 ELSE Len(text) + 1

Needed(contents) ==
  LET upTo[n \in Node] == Bytes(contents[n]) + (IF n = 0 THEN 0 ELSE upTo[n - 1])
  IN upTo[MaxNodes]

\* The live contents and their terminators never need more than what has been
\* taken from content_pool, which never runs past its end: no two files share
\* bytes.
ContentFits == Needed(content) <= poolUsed

(***************************************************************************)
(* What the steps do to the whole tree.                                    *)
(***************************************************************************)
\* The nodes that paths from the root reach.
Reachable == {n \in Node : \A S \in SUBSET Node : Root \in S /\ DownClosed(S) => n \in S}

\* The node a relative path leads to from n.
At(n, path) == FoldLeft(Lookup, n, path)

\* Everything below s is also below d, a directory where s has one and a file of
\* the same content where s has a file that was ever written.
Mirrored(s, d) ==
  \A path \in BoundedSeq({name[n] : n \in Nodes \ {Root}}, used) :
    LET from == At(s, path)
        to == At(d, path)
    IN from # NULL => /\ to # NULL /\ type[to] = type[from]
                      /\ content[from] # NULL => content[to] = content[from]

\* mv that succeeds renames or relocates: the node answers to its new name, and
\* neither its subtree nor anything else stops being reachable, but for the one
\* file it replaces.
MvRelocates ==
  [][ret' = "ok" /\ UNCHANGED <<used, cwd, stacks>> =>
       \A t \in {d \in Reachable : IsDir(d)} : \A n \in Reachable : \A nm \in Leaf(n) :
         Mv(n, t, nm) => /\ Lookup(t, nm)' = n
                         /\ Reachable \ Reachable' \subseteq {Lookup(t, nm)} \ {n}]_vars

\* rm -r that returns has emptied its target and unlinked it, whatever the shape
\* of the subtree: it never stops half way, and it reports a failure only for a
\* target that no directory lists.
RemovalCompletes ==
  [][rmStack # <<>> /\ rmStack' = <<>> =>
       LET n == rmStack[1] IN
       /\ children'[n] = <<>>
       /\ parent'[n] = NULL
       /\ ret' = "error" => parent[n] = NULL]_vars

\* rm -r touches nothing outside the subtree it is given, but for the one link to
\* its target: the siblings of the target stay, in their order.
RemovalConfined ==
  [][rmStack # <<>> =>
       LET n == rmStack[1]
           shifted == {RemoveAt(children[parent[n]], i) : i \in {j \in DOMAIN children[parent[n]] :
                                                                  children[parent[n]][j] = n}}
       IN \A m \in Node :
            /\ parent'[m] # parent[m] => IsAncestor(n, m)
            /\ children'[m] # children[m] =>
                 IsAncestor(n, m) \/ (m = parent[n] /\ children'[m] \in shifted)]_vars

\* The copy of s into d has come to its end.
CopySucceeds(s, d) ==
  /\ copyStack # <<>> /\ copyStack[1].src = s /\ copyStack[1].dst = d
  /\ copyStack' = <<>> /\ ret' = "ok"

\* What has arrived when a copy reports success.
CopyArrives == \A s, d \in Node : CopySucceeds(s, d) /\ ~IsAncestor(d, s) => Mirrored(s, d)'

\* What a copy creates and overwrites on its way is not below its source.
SourceStays ==
  copyStack # <<>> =>
    LET s == copyStack[1].src
        d == copyStack[1].dst
    IN ~IsAncestor(d, s) =>
         \A m \in Nodes : IsAncestor(s, m) => children'[m] = children[m] /\ content'[m] = content[m]

\* cp -r that succeeds leaves at its destination everything it was given, also when the
\* destination already held some of it: all that its source holds in the end is there,
\* and no step on the way has changed the source.  Only a copy into an ancestor of its
\* source may do otherwise: it changes what it copies from while it copies.
CopyMirrors == [][CopyArrives /\ SourceStays]_vars

\* A copy in progress changes nothing outside its destination directory.
CopyConfined ==
  [][copyStack # <<>> =>
       \A m \in Nodes :
         children'[m] # children[m] \/ content'[m] # content[m] =>
           IsAncestor(copyStack[1].dst, m)]_vars

\* cp -r and rm -r come to an end, also when what they walk grows or shrinks as
\* they walk it.
WalksEnd == ~Idle ~> Idle

(***************************************************************************)
(* What the README says of the commands, and the code does not always do.  *)
(***************************************************************************)
\* README.md:22: mv "renames or relocates files and directories", so the node it is
\* given is still somewhere in the tree when it returns.
MvNeverLoses ==
  [][\A n, t \in Reachable : \A nm \in FileName : Mv(n, t, nm) => n \in Reachable']_vars
=============================================================================
