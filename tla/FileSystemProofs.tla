-------------------------- MODULE FileSystemProofs --------------------------
(***************************************************************************)
(* What holds of the RAM filesystem in every reachable state and at every  *)
(* step, for every size of the node pool, of the directories and of the    *)
(* content pool, and for every set of names and of outputs.  In order:     *)
(* creating, detaching and moving a node keep the tree a tree; the         *)
(* inductive invariant; no directory is below itself; from these, what mv, *)
(* cp -r and rm -r do to the tree; that the contents fit their pool; and   *)
(* that a copy holds what its source holds.                                *)
(***************************************************************************)
EXTENDS FileSystemProperties, Induction

(***************************************************************************)
(* Lists of children: what removing one entry leaves.                      *)
(***************************************************************************)
\* A list without repetitions loses exactly the entry detach_child shifts away,
\* and the others keep their order.
LEMMA RemoveFirstEntry ==
  ASSUME NEW S, NEW s \in Seq(S), NEW i \in 1 .. Len(s),
         \A j \in 1 .. Len(s) : s[j] = s[i] => j = i
  PROVE  /\ RemoveFirst(s, s[i]) \in Seq(S)
         /\ Len(RemoveFirst(s, s[i])) = Len(s) - 1
         /\ \A k \in 1 .. Len(s) - 1 :
              RemoveFirst(s, s[i])[k] = IF k < i THEN s[k] ELSE s[k + 1]
<1> DEFINE I == {j \in 1 .. Len(s) : s[j] = s[i]}
<1>1. I = {i}
  OBVIOUS
<1>2. Min(I) = i
  BY <1>1 DEF Min
<1>3. SelectInSeq(s, LAMBDA v : v = s[i]) = i
  BY <1>1, <1>2 DEF SelectInSeq
<1> DEFINE before == SubSeq(s, 1, i - 1)
           after == SubSeq(s, i + 1, Len(s))
<1>4. RemoveFirst(s, s[i]) = before \o after
  BY <1>3 DEF RemoveFirst, RemoveAt
<1>5. /\ before \in Seq(S) /\ Len(before) = i - 1
      /\ \A k \in 1 .. i - 1 : before[k] = s[k]
  OBVIOUS
<1>6. /\ after \in Seq(S) /\ Len(after) = Len(s) - i
      /\ \A k \in 1 .. Len(s) - i : after[k] = s[k + i]
  OBVIOUS
<1> HIDE DEF before, after
<1>7. /\ before \o after \in Seq(S)
      /\ Len(before \o after) = Len(s) - 1
      /\ \A k \in 1 .. Len(s) - 1 :
           (before \o after)[k] = IF k < i THEN before[k] ELSE after[k - (i - 1)]
  <2>1. Len(before) + Len(after) = Len(s) - 1
    BY <1>5, <1>6
  <2>2. \A k \in 1 .. Len(s) - 1 :
          (before \o after)[k] = IF k <= i - 1 THEN before[k] ELSE after[k - (i - 1)]
    BY <2>1, <1>5, <1>6, ConcatProperties
  <2>3. before \o after \in Seq(S) /\ Len(before \o after) = Len(s) - 1
    BY <2>1, <1>5, <1>6, ConcatProperties
  <2>4. \A k \in 1 .. Len(s) - 1 : k <= i - 1 <=> k < i
    OBVIOUS
  <2> QED
    BY <2>2, <2>3, <2>4
<1> QED
  BY <1>4, <1>5, <1>6, <1>7

\* The same, as a relation between the two lists, for an entry that need not be
\* there: nothing new is listed, nothing twice, and the entry is gone.
LEMMA RemoveFirstKeeps ==
  ASSUME NEW S, NEW s \in Seq(S), NEW e,
         \A i, j \in 1 .. Len(s) : s[i] = s[j] => i = j
  PROVE  /\ RemoveFirst(s, e) \in Seq(S)
         /\ Len(RemoveFirst(s, e)) <= Len(s)
         /\ \A k \in 1 .. Len(RemoveFirst(s, e)) :
              /\ RemoveFirst(s, e)[k] # e
              /\ \E j \in 1 .. Len(s) : RemoveFirst(s, e)[k] = s[j]
         /\ \A k, l \in 1 .. Len(RemoveFirst(s, e)) :
              RemoveFirst(s, e)[k] = RemoveFirst(s, e)[l] => k = l
<1>1. CASE \E i \in 1 .. Len(s) : s[i] = e
  <2>1. PICK i \in 1 .. Len(s) : s[i] = e
    BY <1>1
  <2> DEFINE r == RemoveFirst(s, s[i])
  <2>2. /\ r \in Seq(S) /\ Len(r) = Len(s) - 1
        /\ \A k \in 1 .. Len(s) - 1 : r[k] = IF k < i THEN s[k] ELSE s[k + 1]
    BY RemoveFirstEntry
  <2> HIDE DEF r
  <2>3. \A k \in 1 .. Len(r) : r[k] # s[i] /\ \E j \in 1 .. Len(s) : r[k] = s[j]
    <3> TAKE k \in 1 .. Len(r)
    <3>1. CASE k < i
      BY <3>1, <2>2
    <3>2. CASE ~(k < i)
      <4>1. k + 1 \in 1 .. Len(s) /\ k + 1 # i /\ r[k] = s[k + 1]
        BY <3>2, <2>2
      <4> QED
        BY <4>1
    <3> QED
      BY <3>1, <3>2
  <2>4. \A k, l \in 1 .. Len(r) : r[k] = r[l] => k = l
    <3> DEFINE at(k) == IF k < i THEN k ELSE k + 1
    <3>1. \A k \in 1 .. Len(r) : at(k) \in 1 .. Len(s) /\ r[k] = s[at(k)]
      BY <2>2
    <3>2. \A k, l \in 1 .. Len(r) : at(k) = at(l) => k = l
      BY <2>2
    <3> HIDE DEF at
    <3> QED
      BY <3>1, <3>2
  <2> QED
    BY <2>1, <2>2, <2>3, <2>4 DEF r
<1>2. CASE ~\E i \in 1 .. Len(s) : s[i] = e
  BY <1>2 DEF RemoveFirst
<1> QED
  BY <1>1, <1>2

(***************************************************************************)
(* The part of the inductive invariant that speaks of the tree alone, which *)
(* only creating, detaching and moving a node change.                      *)
(***************************************************************************)
TreeType ==
  /\ used \in 0 .. MaxNodes
  /\ type \in [Node -> Type]
  /\ name \in [Node -> FileName]
  /\ parent \in [Node -> Node \cup {NULL}]
  /\ children \in [Node -> Seq(Node)]

TreeInv == TreeType /\ FreshUnlinked /\ TreeLinks /\ UniqueNames

USE SizeAssumption, NullAssumption

\* No list of children repeats a node.
LEMMA ListsOnce ==
  ASSUME TreeInv
  PROVE  \A d \in Node : \A i, j \in 1 .. Len(children[d]) :
           children[d][i] = children[d][j] => i = j
BY DEF TreeInv, TreeType, UniqueNames

\* A handed out node is a node, and the root is one of them.
LEMMA NodesInRange ==
  ASSUME used \in 0 .. MaxNodes
  PROVE  Nodes \subseteq Node /\ Root \in Nodes
BY DEF Nodes, Node, Root

\* A new node under a name its directory does not list yet keeps the tree a tree,
\* whether or not the directory has room to list it.
LEMMA CreateNodeKeepsTree ==
  ASSUME TreeInv,
         NEW kind \in Type, NEW d \in Nodes, IsDir(d), NEW nm \in FileName,
         ~HasEntry(d, nm),
         CreateNode(kind, d, nm)
  PROVE  TreeInv'
<1>1. CASE ~CanAllocate
  BY <1>1 DEF CreateNode, TreeInv, TreeType, FreshUnlinked, Unlinked, TreeLinks, UniqueNames, tree, IsDir
<1>2. CASE CanAllocate
  <2> DEFINE n == used + 1
  <2>1. n \in Node /\ d \in Node /\ d # n /\ n # Root /\ Unlinked(n)
    BY <1>2 DEF CanAllocate, TreeInv, TreeType, FreshUnlinked, Nodes, Node, Root
  <2>2. /\ used' = n
        /\ type' = [type EXCEPT ![n] = kind]
        /\ name' = [name EXCEPT ![n] = nm]
        /\ parent' = [parent EXCEPT ![n] = d]
        /\ children' = IF HasRoom(d) THEN [children EXCEPT ![d] = Append(@, n)] ELSE children
    BY <1>2 DEF CreateNode
  <2>3. /\ \A m \in Node : m # d => children'[m] = children[m]
        /\ children'[d] = IF HasRoom(d) THEN Append(children[d], n) ELSE children[d]
    BY <2>1, <2>2 DEF TreeInv, TreeType
  <2>4. TreeType'
    BY <1>2, <2>1, <2>2 DEF TreeInv, TreeType, CanAllocate
  <2>5. \A m \in Node : \A i \in 1 .. Len(children'[m]) :
          \/ i \in 1 .. Len(children[m]) /\ children'[m][i] = children[m][i] /\ children[m][i] # n
          \/ m = d /\ HasRoom(d) /\ i = Len(children[d]) + 1 /\ children'[m][i] = n
    <3> TAKE m \in Node
    <3> TAKE i \in 1 .. Len(children'[m])
    <3>1. children[m] \in Seq(Node) /\ children'[m] \in Seq(Node)
      BY <2>4 DEF TreeInv, TreeType
    <3>2. \A j \in 1 .. Len(children[m]) : children[m][j] # n
      BY <2>1, <3>1 DEF Unlinked
    <3>3. CASE m # d \/ ~HasRoom(d)
      BY <2>3, <3>2, <3>3
    <3>4. CASE m = d /\ HasRoom(d)
      <4>1. children'[m] = Append(children[m], n)
        BY <2>3, <3>4
      <4> QED
        BY <2>1, <3>1, <3>2, <3>4, <4>1, AppendProperties
    <3> QED
      BY <3>3, <3>4
  <2>6. FreshUnlinked'
    BY <2>1, <2>2, <2>3, <2>4, <2>5 DEF FreshUnlinked, Unlinked, TreeInv, TreeType, Nodes
  <2>7. TreeLinks'
    BY <2>1, <2>2, <2>3, <2>4, <2>5 DEF TreeLinks, TreeInv, TreeType, IsDir, HasRoom, Unlinked
  <2>8. UniqueNames'
    <3>0. SUFFICES ASSUME NEW m \in Node,
                          NEW i \in 1 .. Len(children'[m]), NEW j \in 1 .. Len(children'[m]),
                          name'[children'[m][i]] = name'[children'[m][j]]
                   PROVE  i = j
      <4>1. \A m \in Node : children'[m] \in Seq(Node) /\ DOMAIN children'[m] = 1 .. Len(children'[m])
        BY <2>4 DEF TreeType
      <4> QED
        BY <4>1 DEF UniqueNames
    <3>1. children[m] \in Seq(Node) /\ children'[m] \in Seq(Node)
      BY <2>4 DEF TreeInv, TreeType
    <3>2. \A k \in 1 .. Len(children[m]) :
            name'[children[m][k]] = IF children[m][k] = n THEN nm ELSE name[children[m][k]]
      BY <2>1, <2>2, <3>1 DEF TreeInv, TreeType
    <3>3. \A k, l \in 1 .. Len(children[m]) :
            name[children[m][k]] = name[children[m][l]] => k = l
      BY <3>1 DEF TreeInv, UniqueNames
    <3>4. name'[n] = nm /\ (m = d => \A k \in 1 .. Len(children[m]) : name[children[m][k]] # nm)
      BY <2>1, <2>2, <3>1 DEF TreeInv, TreeType, HasEntry
    <3> QED
      <4>1. \A k \in 1 .. Len(children'[m]) :
              \/ /\ k \in 1 .. Len(children[m])
                 /\ name'[children'[m][k]] = name[children[m][k]]
              \/ /\ m = d /\ k = Len(children[d]) + 1
                 /\ name'[children'[m][k]] = nm
        BY <2>5, <3>2, <3>4
      <4> QED
        BY <4>1, <3>0, <3>3, <3>4
  <2> QED
    BY <2>4, <2>6, <2>7, <2>8 DEF TreeInv
<1> QED
  BY <1>1, <1>2

\* fs_lookup finds a child of that name if and only if there is one.
LEMMA LookupFinds ==
  ASSUME TreeInv, NEW d \in Node, IsDir(d), NEW nm
  PROVE  /\ HasEntry(d, nm) =>
              /\ Lookup(d, nm) \in Nodes /\ parent[Lookup(d, nm)] = d
              /\ name[Lookup(d, nm)] = nm
              /\ \E i \in 1 .. Len(children[d]) : children[d][i] = Lookup(d, nm)
         /\ Lookup(d, nm) = NULL <=> ~HasEntry(d, nm)
<1>1. children[d] \in Seq(Node)
  BY DEF TreeInv, TreeType
<1>2. CASE HasEntry(d, nm)
  <2> DEFINE First(i) == /\ name[children[d][i]] = nm
                         /\ \A j \in 1 .. i - 1 : name[children[d][j]] # nm
  <2>1. PICK i \in 1 .. Len(children[d]) : name[children[d][i]] = nm
    BY <1>1, <1>2 DEF HasEntry
  <2>2. First(i)
    BY <2>1, <1>1 DEF TreeInv, UniqueNames
  <2>3. \E k \in DOMAIN children[d] : First(k)
    BY <2>2, <1>1
  <2>4. Lookup(d, nm) = children[d][CHOOSE k \in DOMAIN children[d] : First(k)]
    BY <1>2 DEF Lookup
  <2> HIDE DEF First
  <2>5. PICK k \in DOMAIN children[d] : First(k) /\ Lookup(d, nm) = children[d][k]
    BY <2>3, <2>4
  <2>6. name[Lookup(d, nm)] = nm
    BY <2>5 DEF First
  <2>7. k \in 1 .. Len(children[d]) /\ Lookup(d, nm) \in Node /\ parent[Lookup(d, nm)] = d
    BY <2>5, <1>1 DEF TreeInv, TreeLinks
  <2>8. Lookup(d, nm) \in Nodes
    <3>1. ~Unlinked(Lookup(d, nm))
      BY <2>7 DEF Unlinked
    <3> QED
      BY <2>7, <3>1 DEF TreeInv, TreeType, FreshUnlinked, Nodes, Node
  <2> QED
    BY <1>2, <2>5, <2>6, <2>7, <2>8
<1>3. CASE ~HasEntry(d, nm)
  BY <1>3 DEF Lookup
<1> QED
  BY <1>2, <1>3

(***************************************************************************)
(* Taking nodes out of the lists of children and putting one back.         *)
(***************************************************************************)
\* The lists of `new` hold what those of `old` hold, or less, and nothing twice.
Sublists(new, old) ==
  /\ new \in [Node -> Seq(Node)]
  /\ \A m \in Node : Len(new[m]) <= Len(old[m])
  /\ \A m \in Node : \A k \in 1 .. Len(new[m]) :
       \E j \in 1 .. Len(old[m]) : new[m][k] = old[m][j]
  /\ \A m \in Node : \A k, l \in 1 .. Len(new[m]) : new[m][k] = new[m][l] => k = l

NotListed(lists, x) == \A m \in Node : \A k \in 1 .. Len(lists[m]) : lists[m][k] # x

LEMMA SublistsTransitive ==
  ASSUME NEW a, NEW b, NEW c, Sublists(b, a), Sublists(c, b), c \in [Node -> Seq(Node)],
         a \in [Node -> Seq(Node)]
  PROVE  Sublists(c, a)
<1>1. \A m \in Node : Len(a[m]) \in Nat /\ Len(b[m]) \in Nat /\ Len(c[m]) \in Nat
  BY DEF Sublists
<1>2. \A m \in Node : Len(c[m]) <= Len(a[m])
  BY <1>1 DEF Sublists
<1>3. ASSUME NEW m \in Node, NEW k \in 1 .. Len(c[m])
      PROVE  \E j \in 1 .. Len(a[m]) : c[m][k] = a[m][j]
  <2>1. \A l \in 1 .. Len(c[m]) : \E j \in 1 .. Len(b[m]) : c[m][l] = b[m][j]
    BY DEF Sublists
  <2>2. \A l \in 1 .. Len(b[m]) : \E j \in 1 .. Len(a[m]) : b[m][l] = a[m][j]
    BY DEF Sublists
  <2> QED
    BY <2>1, <2>2
<1> QED
  BY <1>2, <1>3 DEF Sublists

LEMMA SublistsNotListed ==
  ASSUME NEW a, NEW b, Sublists(b, a), NEW x, NotListed(a, x)
  PROVE  NotListed(b, x)
<1> SUFFICES ASSUME NEW m \in Node, NEW k \in 1 .. Len(b[m])
             PROVE  b[m][k] # x
  BY DEF NotListed
<1>1. PICK j \in 1 .. Len(a[m]) : b[m][k] = a[m][j]
  BY DEF Sublists
<1> QED
  BY <1>1 DEF NotListed

\* Shifting a node out of the only list that may hold it.
LEMMA UnlistKeeps ==
  ASSUME NEW lists \in [Node -> Seq(Node)],
         \A m \in Node : \A i, j \in 1 .. Len(lists[m]) : lists[m][i] = lists[m][j] => i = j,
         NEW p \in Node, NEW x,
         \A m \in Node : m # p => \A k \in 1 .. Len(lists[m]) : lists[m][k] # x,
         NEW rest, rest = [lists EXCEPT ![p] = RemoveFirst(@, x)]
  PROVE  Sublists(rest, lists) /\ NotListed(rest, x)
<1> DEFINE r == RemoveFirst(lists[p], x)
<1>1. /\ r \in Seq(Node) /\ Len(r) <= Len(lists[p])
      /\ \A k \in 1 .. Len(r) : r[k] # x /\ \E j \in 1 .. Len(lists[p]) : r[k] = lists[p][j]
      /\ \A k, l \in 1 .. Len(r) : r[k] = r[l] => k = l
  BY RemoveFirstKeeps
<1>2. \A m \in Node : rest[m] = IF m = p THEN r ELSE lists[m]
  OBVIOUS
<1>3. rest \in [Node -> Seq(Node)]
  BY <1>1
<1> HIDE DEF r
<1>4. ASSUME NEW m \in Node
      PROVE  /\ Len(rest[m]) <= Len(lists[m])
             /\ \A k \in 1 .. Len(rest[m]) :
                  rest[m][k] # x /\ \E j \in 1 .. Len(lists[m]) : rest[m][k] = lists[m][j]
             /\ \A k, l \in 1 .. Len(rest[m]) : rest[m][k] = rest[m][l] => k = l
  <2>1. CASE m = p
    BY <1>1, <1>2, <2>1
  <2>2. CASE m # p
    <3>1. rest[m] = lists[m] /\ Len(lists[m]) \in Nat
      BY <1>2, <2>2
    <3> QED
      BY <2>2, <3>1
  <2> QED
    BY <2>1, <2>2
<1> QED
  BY <1>3, <1>4 DEF Sublists, NotListed

\* The step both detaching and moving come down to: n leaves all lists, perhaps
\* with v, and comes back under the name nm at the end of the list of q, unless q
\* is NULL.
Relink(lists, n, v, nm, q) ==
  /\ Sublists(lists, children) /\ NotListed(lists, n) /\ NotListed(lists, v)
  /\ q # NULL => /\ IsDir(q) /\ Len(lists[q]) < MaxChildren
                 /\ \A k \in 1 .. Len(lists[q]) : name[lists[q][k]] # nm
  /\ UNCHANGED <<used, type>>
  /\ name' = [name EXCEPT ![n] = nm]
  /\ parent' = [m \in Node |-> IF m = n THEN q ELSE IF m = v THEN NULL ELSE parent[m]]
  /\ children' = IF q = NULL THEN lists ELSE [lists EXCEPT ![q] = Append(@, n)]

LEMMA RelinkKeepsTree ==
  ASSUME TreeInv,
         NEW lists, NEW n \in Nodes \ {Root}, NEW v, NEW nm \in FileName,
         NEW q \in Nodes \cup {NULL},
         Relink(lists, n, v, nm, q)
  PROVE  TreeInv'
<1>20. Sublists(lists, children) /\ NotListed(lists, n) /\ NotListed(lists, v)
  BY DEF Relink
<1>1. n \in Node /\ n <= used /\ (q # NULL => q \in Node /\ q <= used)
  BY NodesInRange DEF TreeInv, TreeType, Nodes
<1>2. lists \in [Node -> Seq(Node)]
  BY <1>20 DEF Sublists
<1>21. /\ \A m \in Node : parent'[m] = IF m = n THEN q ELSE IF m = v THEN NULL ELSE parent[m]
       /\ \A m \in Node : name'[m] = IF m = n THEN nm ELSE name[m]
       /\ used' = used /\ type' = type
  <2>1. /\ parent' = [m \in Node |-> IF m = n THEN q ELSE IF m = v THEN NULL ELSE parent[m]]
        /\ name' = [name EXCEPT ![n] = nm]
        /\ used' = used /\ type' = type
    BY DEF Relink
  <2>2. name \in [Node -> FileName]
    BY DEF TreeInv, TreeType
  <2> QED
    BY <2>1, <2>2, <1>1
<1>3. TreeType'
  <2>1. children' \in [Node -> Seq(Node)]
    BY <1>1, <1>2 DEF Relink
  <2>2. parent' \in [Node -> Node \cup {NULL}]
    BY <1>1 DEF Relink, TreeInv, TreeType
  <2>3. name' \in [Node -> FileName]
    BY <1>1 DEF Relink, TreeInv, TreeType
  <2> QED
    BY <2>1, <2>2, <2>3, <1>21 DEF TreeInv, TreeType
<1>4. /\ \A m \in Node : m # q => children'[m] = lists[m]
      /\ q # NULL => children'[q] = Append(lists[q], n)
  BY <1>1, <1>2 DEF Relink
<1>5. ASSUME NEW m \in Node, NEW k \in 1 .. Len(children'[m])
      PROVE  \/ k \in 1 .. Len(lists[m]) /\ children'[m][k] = lists[m][k]
             \/ m = q /\ k = Len(lists[q]) + 1 /\ children'[m][k] = n
  <2>1. lists[m] \in Seq(Node)
    BY <1>2
  <2>2. CASE m # q
    BY <1>4, <2>2
  <2>3. CASE m = q
    <3>1. children'[m] = Append(lists[m], n)
      BY <1>4, <2>3, NullAssumption
    <3> QED
      BY <1>1, <2>1, <2>3, <3>1, AppendProperties
  <2> QED
    BY <2>2, <2>3
<1>6. ASSUME NEW m \in Node, NEW k \in 1 .. Len(lists[m])
      PROVE  /\ lists[m][k] \in Node \ {n, v}
             /\ parent[lists[m][k]] = m
             /\ \E j \in 1 .. Len(children[m]) : lists[m][k] = children[m][j]
  <2>1. PICK j \in 1 .. Len(children[m]) : lists[m][k] = children[m][j]
    BY <1>20 DEF Sublists
  <2>2. children[m] \in Seq(Node)
    BY DEF TreeInv, TreeType
  <2>3. parent[children[m][j]] = m /\ children[m][j] \in Node
    BY <2>2 DEF TreeInv, TreeLinks
  <2> QED
    BY <1>20, <2>1, <2>3 DEF NotListed
<1>7. \A m \in Node : children'[m] \in Seq(Node) /\ DOMAIN children'[m] = 1 .. Len(children'[m])
  BY <1>3 DEF TreeType
<1>8. \A m \in Node : children[m] \in Seq(Node) /\ lists[m] \in Seq(Node)
  BY <1>2 DEF TreeInv, TreeType
<1>9. FreshUnlinked'
  <2> SUFFICES ASSUME NEW m \in Node, m > used
               PROVE  Unlinked(m)'
    BY <1>21 DEF FreshUnlinked
  <2>1. Unlinked(m) /\ m # n /\ m # q
    BY <1>1 DEF TreeInv, TreeType, FreshUnlinked, Node
  <2>2. parent'[m] = NULL /\ \A k \in Node : parent'[k] # m
    BY <1>21, <2>1 DEF Unlinked
  <2>3. children'[m] = <<>>
    <3>1. children'[m] = lists[m] /\ Len(lists[m]) <= Len(children[m])
      BY <2>1, <1>20, <1>4 DEF Sublists
    <3>2. Len(lists[m]) = 0
      BY <2>1, <3>1, <1>8 DEF Unlinked
    <3> QED
      BY <3>1, <3>2, <1>8
  <2>4. ASSUME NEW k \in Node, NEW i \in 1 .. Len(children'[k])
        PROVE  children'[k][i] # m
    <3>1. CASE i \in 1 .. Len(lists[k]) /\ children'[k][i] = lists[k][i]
      <4>1. PICK j \in 1 .. Len(children[k]) : lists[k][i] = children[k][j]
        BY <1>6, <3>1
      <4> QED
        BY <2>1, <3>1, <4>1, <1>8 DEF Unlinked
    <3> QED
      BY <1>5, <2>1, <3>1
  <2> QED
    BY <2>2, <2>3, <2>4, <1>7 DEF Unlinked
<1>10. TreeLinks'
  <2>1. ASSUME NEW d \in Node, NEW i \in 1 .. Len(children'[d])
        PROVE  parent'[children'[d][i]] = d
    BY <1>1, <1>5, <1>6, <1>21
  <2>2. ASSUME NEW d \in Node, children'[d] # <<>>
        PROVE  IsDir(d)'
    <3>1. CASE d = q
      BY <3>1, <1>1, <1>21 DEF IsDir, Relink
    <3>2. CASE d # q
      <4>1. children'[d] = lists[d] /\ Len(lists[d]) <= Len(children[d]) /\ lists[d] # <<>>
        BY <1>20, <1>4, <2>2, <3>2 DEF Sublists
      <4>2. Len(lists[d]) # 0
        BY <4>1, <1>8
      <4>3. children[d] # <<>>
        BY <4>1, <4>2, <1>8
      <4> QED
        BY <4>3, <1>21 DEF TreeInv, TreeLinks, IsDir
    <3> QED
      BY <3>1, <3>2
  <2>3. ASSUME NEW d \in Node
        PROVE  Len(children'[d]) <= MaxChildren
    <3>1. CASE d = q
      <4>1. Len(children'[d]) = Len(lists[d]) + 1 /\ Len(lists[d]) < MaxChildren
        BY <1>1, <1>4, <1>8, <3>1, AppendProperties DEF Relink
      <4> QED
        BY <4>1, <1>8
    <3>2. CASE d # q
      <4>1. Len(children'[d]) <= Len(children[d]) /\ Len(children[d]) <= MaxChildren
        BY <1>20, <1>4, <3>2 DEF TreeInv, TreeLinks, Sublists
      <4> QED
        BY <4>1, <1>7, <1>8
    <3> QED
      BY <3>1, <3>2
  <2>4. \A m \in Node : parent'[m] # NULL => IsDir(parent[m])'
    BY <1>21 DEF Relink, TreeInv, TreeLinks, IsDir
  <2>5. IsDir(Root)' /\ parent'[Root] = NULL
    BY <1>21, NodesInRange DEF TreeInv, TreeType, TreeLinks, IsDir
  <2> QED
    BY <2>1, <2>2, <2>3, <2>4, <2>5, <1>7 DEF TreeLinks
<1>11. UniqueNames'
  <2> SUFFICES ASSUME NEW d \in Node,
                      NEW i \in 1 .. Len(children'[d]), NEW j \in 1 .. Len(children'[d]),
                      name'[children'[d][i]] = name'[children'[d][j]]
               PROVE  i = j
    BY <1>7 DEF UniqueNames
  <2>1. name'[n] = nm /\ \A m \in Node : m # n => name'[m] = name[m]
    BY <1>1, <1>21
  <2>2. ASSUME NEW k \in 1 .. Len(lists[d]), NEW l \in 1 .. Len(lists[d]),
               name[lists[d][k]] = name[lists[d][l]]
        PROVE  k = l
    <3>1. PICK x \in 1 .. Len(children[d]) : lists[d][k] = children[d][x]
      BY <1>6
    <3>2. PICK y \in 1 .. Len(children[d]) : lists[d][l] = children[d][y]
      BY <1>6
    <3>3. x = y
      BY <2>2, <3>1, <3>2, <1>8 DEF TreeInv, UniqueNames
    <3> QED
      BY <1>20, <3>1, <3>2, <3>3 DEF Sublists
  <2>3. \A k \in 1 .. Len(children'[d]) :
          \/ k \in 1 .. Len(lists[d]) /\ name'[children'[d][k]] = name[lists[d][k]]
          \/ d = q /\ k = Len(lists[q]) + 1 /\ name'[children'[d][k]] = nm
    BY <1>5, <1>6, <2>1
  <2>4. d = q => \A k \in 1 .. Len(lists[d]) : name[lists[d][k]] # nm
    BY DEF Relink
  <2> QED
    BY <2>2, <2>3, <2>4
<1> QED
  BY <1>3, <1>9, <1>10, <1>11 DEF TreeInv

\* Detaching a node its parent lists keeps the tree a tree.
LEMMA DetachKeepsTree ==
  ASSUME TreeInv, NEW n \in Nodes, IsLinked(n), Detach(n)
  PROVE  TreeInv'
<1> DEFINE lists == [children EXCEPT ![parent[n]] = RemoveFirst(@, n)]
<1>1. n \in Nodes \ {Root} /\ n \in Node /\ parent[n] \in Node
  BY NodesInRange DEF IsLinked, TreeInv, TreeType, TreeLinks
<1>2. children \in [Node -> Seq(Node)]
  BY DEF TreeInv, TreeType
<1>3. \A m \in Node : m # parent[n] => \A k \in 1 .. Len(children[m]) : children[m][k] # n
  BY <1>1, <1>2 DEF TreeInv, TreeLinks
<1>4. Sublists(lists, children) /\ NotListed(lists, n)
  BY <1>1, <1>2, <1>3, ListsOnce, UnlistKeeps
<1>5. /\ children' = lists /\ parent' = [parent EXCEPT ![n] = NULL]
      /\ UNCHANGED <<used, type, name>>
  BY DEF Detach
<1> HIDE DEF lists
<1>6. parent' = [m \in Node |-> IF m = n THEN NULL ELSE IF m = n THEN NULL ELSE parent[m]]
  BY <1>1, <1>5 DEF TreeInv, TreeType
<1>7. name' = [name EXCEPT ![n] = name[n]] /\ name[n] \in FileName
  BY <1>1, <1>5 DEF TreeInv, TreeType
<1>8. Relink(lists, n, n, name[n], NULL)
  BY <1>4, <1>5, <1>6, <1>7 DEF Relink
<1> QED
  BY <1>1, <1>7, <1>8, RelinkKeepsTree

\* mv takes the node, and the file in its way, out of the lists that hold them and
\* lists the node under its new name, or leaves it out; either way the tree stays
\* a tree.
LEMMA MvKeepsTree ==
  ASSUME TreeInv, NEW n \in Nodes, NEW t \in Nodes, IsDir(t), NEW nm \in FileName,
         ~MvRefused(n, t, nm), MvNode(n, t, nm)
  PROVE  TreeInv'
<1> DEFINE e == Lookup(t, nm)
           victim == IF e = n THEN NULL ELSE e
           removed == IF victim = NULL THEN children
                      ELSE [children EXCEPT ![t] = RemoveFirst(@, victim)]
           unlinked == [removed EXCEPT ![parent[n]] = RemoveFirst(@, n)]
           linkable == /\ Len(unlinked[t]) < MaxChildren
                       /\ \A i \in DOMAIN unlinked[t] : name[unlinked[t][i]] # nm
           q == IF linkable THEN t ELSE NULL
<1>1. /\ n \in Nodes \ {Root} /\ n \in Node /\ t \in Node
      /\ parent[n] \in Node
      /\ children \in [Node -> Seq(Node)]
  BY NodesInRange DEF MvRefused, TreeInv, TreeType, TreeLinks
<1>2. victim # NULL => victim \in Node /\ victim # n /\ parent[victim] = t
  BY <1>1, LookupFinds, NodesInRange DEF TreeInv, TreeType
<1>3. \A m \in Node : \A k \in 1 .. Len(children[m]) :
        parent[children[m][k]] = m /\ children[m][k] \in Node
  BY <1>1 DEF TreeInv, TreeLinks
<1> HIDE DEF e, victim
<1>4. Sublists(removed, children) /\ NotListed(removed, victim)
  <2>1. CASE victim = NULL
    BY <2>1, <1>1, <1>3, ListsOnce DEF Sublists, NotListed
  <2>2. CASE victim # NULL
    <3>1. \A m \in Node : m # t => \A k \in 1 .. Len(children[m]) : children[m][k] # victim
      BY <1>2, <1>3, <2>2
    <3>2. removed = [children EXCEPT ![t] = RemoveFirst(@, victim)]
      BY <2>2
    <3> HIDE DEF removed
    <3> QED
      BY <1>1, <3>1, <3>2, ListsOnce, UnlistKeeps
  <2> QED
    BY <2>1, <2>2
<1>5. /\ removed \in [Node -> Seq(Node)]
      /\ \A m \in Node : \A i, j \in 1 .. Len(removed[m]) : removed[m][i] = removed[m][j] => i = j
  BY <1>4 DEF Sublists
<1> HIDE DEF removed
<1>6. \A m \in Node : m # parent[n] => \A k \in 1 .. Len(removed[m]) : removed[m][k] # n
  <2> SUFFICES ASSUME NEW m \in Node, m # parent[n], NEW k \in 1 .. Len(removed[m])
               PROVE  removed[m][k] # n
    OBVIOUS
  <2>1. PICK j \in 1 .. Len(children[m]) : removed[m][k] = children[m][j]
    BY <1>4 DEF Sublists
  <2> QED
    BY <1>3, <2>1
<1>7. Sublists(unlinked, removed) /\ NotListed(unlinked, n)
  BY <1>1, <1>5, <1>6, UnlistKeeps
<1>8. Sublists(unlinked, children) /\ NotListed(unlinked, victim)
  <2>1. unlinked \in [Node -> Seq(Node)]
    BY <1>7 DEF Sublists
  <2> HIDE DEF unlinked
  <2> QED
    BY <1>1, <1>4, <1>7, <2>1, SublistsTransitive, SublistsNotListed
<1>9. /\ name' = [name EXCEPT ![n] = nm]
      /\ children' = IF linkable THEN [unlinked EXCEPT ![t] = Append(@, n)] ELSE unlinked
      /\ parent' = [m \in Node |-> IF m = n THEN (IF linkable THEN t ELSE NULL)
                                   ELSE IF m = victim THEN NULL ELSE parent[m]]
      /\ UNCHANGED <<used, type>>
  BY DEF MvNode, removed, victim, e
<1>10. DOMAIN unlinked[t] = 1 .. Len(unlinked[t])
  BY <1>1, <1>8 DEF Sublists
<1> HIDE DEF unlinked
<1>11. Relink(unlinked, n, victim, nm, q)
  <2>1. q # NULL <=> linkable
    BY <1>1
  <2>2. linkable => /\ Len(unlinked[t]) < MaxChildren
                    /\ \A k \in 1 .. Len(unlinked[t]) : name[unlinked[t][k]] # nm
    BY <1>10
  <2> HIDE DEF linkable
  <2> QED
    BY <1>7, <1>8, <1>9, <2>1, <2>2 DEF Relink
<1> QED
  BY <1>1, <1>11, RelinkKeepsTree

USE SizeAssumption, NullAssumption

(***************************************************************************)
(* The inductive invariant.  None of its parts is inductive alone: links   *)
(* need fresh slots to be unlinked, unique names need the links, removal   *)
(* needs both to take out the one entry it means, and the calls in         *)
(* progress need all of them to stay on the tree.                          *)
(***************************************************************************)
IInv == TypeOK /\ FreshBlank /\ TreeLinks /\ UniqueNames /\ CallsOnTree

\* The part that content and the pool have in it.
DataInv ==
  /\ DOMAIN content = Node
  /\ \A n \in Node : content[n] = NULL \/ content[n] \in Seq(Char)
  /\ \A n \in Node : n > used => content[n] = NULL
  /\ poolUsed \in 0 .. PoolSize

\* The part that the working directory and the stacks have in it.
CallsInv ==
  /\ cwd \in Node /\ copyStack \in Seq(Frame) /\ rmStack \in Seq(Node) /\ ret \in Ret
  /\ CallsOnTree

LEMMA IInvParts == IInv <=> TreeInv /\ DataInv /\ CallsInv
BY DEF IInv, TreeInv, DataInv, CallsInv, TypeOK, TreeType, FreshBlank

\* boot leaves an empty root.
LEMMA InitIInv == Init => IInv
<1> SUFFICES ASSUME Init PROVE IInv
  OBVIOUS
<1>1. Root \in Node /\ Root \in Nodes
  BY DEF Init, Root, Node, Nodes
<1>2. TypeOK
  <2>1. \A n \in Node : content[n] = NULL
    BY DEF Init
  <2>2. children \in [Node -> Seq(Node)]
    BY DEF Init
  <2>3. name \in [Node -> FileName] /\ type \in [Node -> Type]
    BY DEF Init, FileName, Type
  <2>4. copyStack \in Seq(Frame) /\ rmStack \in Seq(Node)
    BY DEF Init
  <2> QED
    BY <1>1, <2>1, <2>2, <2>3, <2>4 DEF Init, TypeOK, Ret
<1>3. FreshBlank
  BY <1>1 DEF Init, FreshBlank, FreshUnlinked, Unlinked, Root
<1>4. TreeLinks
  BY <1>1 DEF Init, TreeLinks, IsDir
<1>5. UniqueNames
  BY DEF Init, UniqueNames
<1>6. CallsOnTree
  BY <1>1 DEF Init, CallsOnTree, IsDir, Nodes
<1> QED
  BY <1>2, <1>3, <1>4, <1>5, <1>6 DEF IInv

\* No path leads to a slot that was not handed out.
LEMMA HandlesAreNodes ==
  ASSUME IInv
  PROVE  Handles \subseteq Nodes
<1>1. Nodes \in SUBSET Node /\ Root \in Nodes
  BY NodesInRange DEF IInv, TypeOK
<1>2. cwd \in Nodes
  BY DEF IInv, CallsOnTree
<1>3. UpClosed(Nodes)
  BY <1>1 DEF IInv, TypeOK, FreshBlank, FreshUnlinked, Unlinked, UpClosed, Nodes, Node
<1>4. DownClosed(Nodes)
  <2> SUFFICES ASSUME NEW m \in Nodes, NEW i \in DOMAIN children[m]
               PROVE  children[m][i] \in Nodes
    BY DEF DownClosed
  <2>1. m \in Node /\ children[m][i] \in Node
    BY <1>1 DEF IInv, TypeOK
  <2>2. ~Unlinked(children[m][i])
    BY <2>1 DEF Unlinked
  <2> QED
    BY <2>1, <2>2 DEF IInv, TypeOK, FreshBlank, FreshUnlinked, Nodes, Node
<1> QED
  BY <1>1, <1>2, <1>3, <1>4 DEF Handles

(***************************************************************************)
(* Finding or creating an entry, and storing a text in it.                 *)
(***************************************************************************)
\* What a step that creates at most one node leaves as it was.
Grows ==
  /\ used' >= used
  /\ \A m \in Nodes : type'[m] = type[m] /\ Len(children'[m]) >= Len(children[m])

\* Besides keeping the tree, the entry that results is a node of the kind asked for.
LEMMA FindOrCreateKeepsTree ==
  ASSUME TreeInv, NEW kind \in Type, NEW d \in Nodes, IsDir(d), NEW nm \in FileName,
         FindOrCreate(kind, d, nm)
  PROVE  /\ TreeInv' /\ Grows
         /\ Entry(d, nm) \in Nat
         /\ EntryOk(kind, d, nm) => Entry(d, nm) \in Nodes' /\ type'[Entry(d, nm)] = kind
<1>1. d \in Node /\ used \in Nat /\ children \in [Node -> Seq(Node)] /\ Nodes \subseteq Node
  BY NodesInRange DEF TreeInv, TreeType
<1>2. CASE Lookup(d, nm) # NULL
  <2>1. UNCHANGED tree
    BY <1>2 DEF FindOrCreate
  <2>2. TreeInv'
    BY <2>1 DEF tree, TreeInv, TreeType, FreshUnlinked, Unlinked, TreeLinks, UniqueNames, IsDir
  <2>3. Grows
    BY <1>1, <2>1 DEF tree, Grows
  <2>4. Entry(d, nm) \in Nodes /\ Entry(d, nm) = Lookup(d, nm)
    BY <1>1, <1>2, LookupFinds DEF Entry
  <2> QED
    BY <1>1, <1>2, <2>1, <2>2, <2>3, <2>4 DEF EntryOk, tree, Nodes
<1>3. CASE Lookup(d, nm) = NULL
  <2>1. CreateNode(kind, d, nm) /\ ~HasEntry(d, nm) /\ Entry(d, nm) = used + 1
    BY <1>1, <1>3, LookupFinds DEF FindOrCreate, Entry
  <2>2. TreeInv'
    BY <2>1, CreateNodeKeepsTree
  <2>3. CASE ~CanAllocate
    BY <1>1, <1>3, <2>1, <2>2, <2>3 DEF CreateNode, tree, Grows, EntryOk
  <2>4. CASE CanAllocate
    <3>1. used + 1 \in Node /\ \A m \in Nodes : m # used + 1
      BY <1>1, <2>4 DEF CanAllocate, Node, Nodes
    <3>2. /\ used' = used + 1
          /\ type' = [type EXCEPT ![used + 1] = kind]
          /\ children' = IF HasRoom(d) THEN [children EXCEPT ![d] = Append(@, used + 1)] ELSE children
      BY <2>1, <2>4 DEF CreateNode
    <3>3. \A m \in Nodes : type'[m] = type[m] /\ Len(children'[m]) >= Len(children[m])
      BY <1>1, <3>1, <3>2
    <3>4. type'[used + 1] = kind
      BY <3>1, <3>2 DEF TreeInv, TreeType
    <3> QED
      BY <1>1, <2>1, <2>2, <3>2, <3>3, <3>4 DEF Grows, Nodes
  <2> QED
    BY <2>3, <2>4
<1> QED
  BY <1>2, <1>3

\* Storing a text, where it fits, keeps the contents typed and the pool in bounds.
LEMMA PutFileKeeps ==
  ASSUME TreeInv, DataInv, NEW d \in Nodes, IsDir(d), NEW nm \in FileName,
         NEW text \in Seq(Char) \cup {NULL},
         PutFile(d, nm, text)
  PROVE  TreeInv' /\ DataInv' /\ Grows
<1>1. FindOrCreate("file", d, nm) /\ "file" \in Type
  BY DEF PutFile, Type
<1>2. TreeInv' /\ Grows
  BY <1>1, FindOrCreateKeepsTree
<1>3. EntryOk("file", d, nm) => Entry(d, nm) \in Nodes'
  BY <1>1, FindOrCreateKeepsTree
<1>4. used \in Nat /\ used' \in Nat /\ used' >= used /\ Nodes' \subseteq Node
  BY <1>2, NodesInRange DEF TreeInv, TreeType, Grows, Nodes, Node
<1>5. CASE text # NULL /\ PutOk(d, nm, text)
  <2>1. /\ content' = [content EXCEPT ![Entry(d, nm)] = text]
        /\ poolUsed' = poolUsed + Len(text) + 1
        /\ Len(text) + 1 <= PoolSize - poolUsed
        /\ text \in Seq(Char) /\ Len(text) \in Nat
        /\ Entry(d, nm) \in Nodes'
    BY <1>3, <1>5 DEF PutFile, PutOk, Fits
  <2>2. poolUsed' \in 0 .. PoolSize
    BY <2>1 DEF DataInv
  <2>3. \A n \in Node : n > used' => content'[n] = NULL
    BY <1>4, <2>1 DEF DataInv, Nodes, Node
  <2>4. /\ DOMAIN content' = Node
        /\ \A n \in Node : content'[n] = NULL \/ content'[n] \in Seq(Char)
    BY <2>1 DEF DataInv
  <2> QED
    BY <1>2, <2>2, <2>3, <2>4 DEF DataInv
<1>6. CASE ~(text # NULL /\ PutOk(d, nm, text))
  <2>1. content' = content /\ poolUsed' = poolUsed
    BY <1>6 DEF PutFile, data
  <2>2. \A n \in Node : n > used' => content'[n] = NULL
    BY <1>4, <2>1 DEF DataInv, Node
  <2> QED
    BY <1>2, <2>1, <2>2 DEF DataInv
<1> QED
  BY <1>5, <1>6

(***************************************************************************)
(* The calls in progress.                                                  *)
(***************************************************************************)
\* Growing the tree disturbs no call of a copy.
LEMMA GrowsKeepsCopyCalls ==
  ASSUME TreeInv, TreeInv', Grows, NEW f \in Frame, CopyCallOk(f)
  PROVE  CopyCallOk(f)'
<1>1. /\ used \in Nat /\ used' \in Nat /\ used' >= used /\ Nodes \subseteq Node
      /\ f.src \in Nodes /\ f.dst \in Nodes /\ f.next \in Nat
  BY NodesInRange DEF TreeInv, TreeType, Grows, CopyCallOk, Frame
<1>2. /\ f.src \in Nodes' /\ f.dst \in Nodes'
  BY <1>1 DEF Nodes
<1>3. Len(children[f.src]) \in Nat /\ Len(children'[f.src]) \in Nat
  BY <1>1 DEF TreeInv, TreeType
<1>4. IsDir(f.src)' /\ IsDir(f.dst)'
  BY <1>1 DEF Grows, CopyCallOk, IsDir
<1>5. f.next <= Len(children'[f.src])
  BY <1>1, <1>3 DEF Grows, CopyCallOk
<1> QED
  BY <1>2, <1>4, <1>5 DEF CopyCallOk

\* Nor the working directory.
LEMMA GrowsKeepsCwd ==
  ASSUME TreeInv, TreeInv', Grows, UNCHANGED cwd, cwd \in Nodes, IsDir(cwd)
  PROVE  cwd' \in Nodes' /\ IsDir(cwd)'
<1>1. used \in Nat /\ used' \in Nat
  BY DEF TreeInv, TreeType
<1> QED
  BY <1>1 DEF Grows, Nodes, IsDir

\* A handler that runs in one step and only grows the tree.
LEMMA GrowsKeepsCalls ==
  ASSUME TreeInv, TreeInv', CallsInv, Grows, Idle, UNCHANGED <<cwd, copyStack, rmStack>>,
         ret' \in Ret
  PROVE  CallsInv'
<1>1. cwd' \in Nodes' /\ IsDir(cwd)'
  BY GrowsKeepsCwd DEF CallsInv, CallsOnTree
<1> QED
  BY <1>1 DEF CallsInv, CallsOnTree, Idle

\* The call of fs_copy_recursive on s, made by calls that are in order.
LEMMA CopyNodeKeeps ==
  ASSUME TreeInv, DataInv, CallsInv, NEW s \in Nodes, NEW d \in Nodes, IsDir(d),
         NEW nm \in FileName, NEW callers \in Seq(Frame),
         \A k \in 1 .. Len(callers) : CopyCallOk(callers[k]),
         CopyNode(s, d, nm, callers), rmStack = <<>>, UNCHANGED <<cwd, rmStack>>
  PROVE  TreeInv' /\ DataInv' /\ CallsInv'
<1>1. s \in Node /\ Nodes \subseteq Node /\ used \in Nat /\ Nodes \subseteq Nat
  BY NodesInRange DEF TreeInv, TreeType, Nodes, Node
<1>2. TreeInv' /\ DataInv' /\ Grows
  <2>1. CASE IsFile(s)
    <3>1. content[s] \in Seq(Char) \cup {NULL} /\ PutFile(d, nm, content[s])
      BY <1>1, <2>1 DEF CopyNode, DataInv
    <3> QED
      BY <3>1, PutFileKeeps
  <2>2. CASE ~IsFile(s)
    <3>1. FindOrCreate("dir", d, nm) /\ UNCHANGED data /\ "dir" \in Type
      BY <2>2 DEF CopyNode, Type
    <3>2. TreeInv' /\ Grows
      BY <3>1, FindOrCreateKeepsTree
    <3>3. used' \in Nat /\ used' >= used
      BY <3>2 DEF TreeInv, TreeType, Grows
    <3>4. content' = content /\ poolUsed' = poolUsed
      BY <3>1 DEF data
    <3>5. \A n \in Node : n > used' => n > used
      BY <1>1, <3>3 DEF Node
    <3> QED
      BY <3>2, <3>4, <3>5 DEF DataInv
  <2> QED
    BY <2>1, <2>2
<1>3. cwd' \in Nodes' /\ IsDir(cwd)' /\ cwd' \in Node
  BY <1>2, GrowsKeepsCwd DEF CallsInv, CallsOnTree
<1>4. \A k \in 1 .. Len(callers) : CopyCallOk(callers[k])'
  <2> SUFFICES ASSUME NEW k \in 1 .. Len(callers)
               PROVE  CopyCallOk(callers[k])'
    OBVIOUS
  <2>1. callers[k] \in Frame /\ CopyCallOk(callers[k])
    OBVIOUS
  <2> QED
    BY <1>2, <2>1, GrowsKeepsCopyCalls
<1>5. copyStack' \in Seq(Frame) /\ \A k \in 1 .. Len(copyStack') : CopyCallOk(copyStack[k])'
  <2>1. CASE ~CopyOk(s, d, nm)
    BY <2>1 DEF CopyNode
  <2>2. CASE CopyOk(s, d, nm) /\ IsFile(s)
    BY <1>4, <2>2 DEF CopyNode
  <2>3. CASE CopyOk(s, d, nm) /\ ~IsFile(s)
    <3>1. EntryOk("dir", d, nm) /\ FindOrCreate("dir", d, nm) /\ "dir" \in Type
      BY <2>3 DEF CopyOk, CopyNode, Type
    <3>2. PICK e \in Nodes' : e = Entry(d, nm) /\ type'[e] = "dir"
      BY <3>1, FindOrCreateKeepsTree
    <3>3. /\ e \in Node /\ s \in Nodes' /\ Len(children'[s]) \in Nat
      <4>1. used' \in 0 .. MaxNodes /\ used' >= used /\ children' \in [Node -> Seq(Node)]
        BY <1>2 DEF TreeInv, TreeType, Grows
      <4> QED
        BY <1>1, <4>1 DEF Nodes, Node
    <3> DEFINE f == [src |-> s, dst |-> e, next |-> 0]
    <3>4. f \in Frame /\ f.src = s /\ f.dst = e /\ f.next = 0
      BY <1>1, <3>3 DEF Frame
    <3>5. copyStack' = Append(callers, f)
      BY <2>3, <3>2 DEF CopyNode
    <3>6. type[s] = "dir" /\ type'[s] = "dir"
      <4>1. type[s] \in {"file", "dir"} /\ s # NULL
        BY <1>1, NullAssumption DEF TreeInv, TreeType, Type
      <4> QED
        BY <4>1, <1>2, <2>3 DEF IsFile, Grows
    <3> HIDE DEF f
    <3>7. CopyCallOk(f)'
      BY <1>1, <3>2, <3>3, <3>4, <3>6, NullAssumption DEF CopyCallOk, IsDir
    <3>8. /\ Append(callers, f) \in Seq(Frame)
          /\ Len(Append(callers, f)) = Len(callers) + 1
          /\ \A k \in 1 .. Len(callers) : Append(callers, f)[k] = callers[k]
          /\ Append(callers, f)[Len(callers) + 1] = f
      BY <3>4, AppendProperties
    <3>9. ASSUME NEW k \in 1 .. Len(copyStack')
          PROVE  CopyCallOk(copyStack[k])'
      <4>1. CASE k \in 1 .. Len(callers)
        BY <1>4, <3>5, <3>8, <4>1
      <4>2. CASE k = Len(callers) + 1
        BY <3>5, <3>7, <3>8, <4>2
      <4> QED
        BY <3>5, <3>8, <4>1, <4>2
    <3> QED
      BY <3>5, <3>8, <3>9
  <2> QED
    BY <2>1, <2>2, <2>3
<1>6. ret' \in Ret
  BY DEF CopyNode, Report, Ret
<1>7. rmStack' = <<>> /\ rmStack' \in Seq(Node)
  OBVIOUS
<1>8. DOMAIN copyStack' = 1 .. Len(copyStack')
  BY <1>5
<1> QED
  BY <1>2, <1>3, <1>5, <1>6, <1>7, <1>8 DEF CallsInv, CallsOnTree

\* A handler that runs in one step and leaves contents, kinds and slots alone.
LEMMA RewiringKeeps ==
  ASSUME TreeInv', DataInv, CallsInv, Idle, UNCHANGED <<used, type, data, copyStack, rmStack>>,
         cwd' \in Nodes, IsDir(cwd'), ret' \in Ret
  PROVE  TreeInv' /\ DataInv' /\ CallsInv'
<1>1. DataInv'
  BY DEF DataInv, data
<1>2. Nodes' = Nodes /\ Nodes \subseteq Node
  BY NodesInRange DEF Nodes, TreeInv, TreeType
<1>3. CallsInv'
  BY <1>2 DEF CallsInv, CallsOnTree, Idle, IsDir
<1> QED
  BY <1>1, <1>3

\* fs_remove detaches a node or does nothing.
LEMMA FsRemoveKeepsTree ==
  ASSUME TreeInv, NEW n \in Nodes, FsRemove(n)
  PROVE  TreeInv' /\ UNCHANGED <<used, type>>
<1>1. CASE CanRemove(n)
  <2>1. IsLinked(n) /\ Detach(n)
    BY <1>1 DEF CanRemove, FsRemove
  <2> QED
    BY <2>1, DetachKeepsTree DEF Detach
<1>2. CASE ~CanRemove(n)
  <2>1. UNCHANGED tree
    BY <1>2 DEF FsRemove
  <2> QED
    BY <2>1 DEF tree, TreeInv, TreeType, FreshUnlinked, Unlinked, TreeLinks, UniqueNames, IsDir
<1> QED
  BY <1>1, <1>2

\* A step that leaves the tree and the contents alone.
LEMMA SameTreeKeeps ==
  ASSUME TreeInv, DataInv, UNCHANGED <<tree, data>>
  PROVE  TreeInv' /\ DataInv'
BY DEF tree, data, TreeInv, TreeType, FreshUnlinked, Unlinked, TreeLinks, UniqueNames, IsDir, DataInv

(***************************************************************************)
(* One lemma per handler that runs in one step.                            *)
(***************************************************************************)
LEMMA CdKeeps ==
  ASSUME TreeInv, DataInv, CallsInv, NEW n \in Nodes, Refuse \/ Cd(n)
  PROVE  TreeInv' /\ DataInv' /\ CallsInv'
<1>1. TreeInv' /\ DataInv'
  BY SameTreeKeeps DEF Refuse, Cd
<1>2. cwd' \in Nodes /\ IsDir(cwd')
  BY DEF Refuse, Cd, CallsInv, CallsOnTree
<1>3. Idle /\ UNCHANGED <<used, type, data, copyStack, rmStack>> /\ ret' \in Ret
  BY DEF Refuse, Cd, tree, stacks, Report, Ret
<1> QED
  BY <1>1, <1>2, <1>3, RewiringKeeps

LEMMA TouchKeeps ==
  ASSUME TreeInv, DataInv, CallsInv, NEW d \in Nodes, IsDir(d), NEW nm \in FileName,
         Touch(d, nm) \/ Mkdir(d, nm)
  PROVE  TreeInv' /\ DataInv' /\ CallsInv'
<1>1. PICK kind \in Type : FindOrCreate(kind, d, nm)
  BY DEF Touch, Mkdir, Type
<1>2. TreeInv' /\ Grows
  BY <1>1, FindOrCreateKeepsTree
<1>3. Idle /\ UNCHANGED <<data, cwd, copyStack, rmStack>> /\ ret' \in Ret
  BY DEF Touch, Mkdir, stacks, Report, Ret
<1>4. CallsInv'
  BY <1>2, <1>3, GrowsKeepsCalls
<1>5. used \in Nat /\ used' \in Nat /\ used' >= used
  BY <1>2 DEF TreeInv, TreeType, Grows
<1>6. \A n \in Node : n > used' => n > used
  BY <1>5 DEF Node
<1>7. DataInv'
  BY <1>3, <1>6 DEF DataInv, data
<1> QED
  BY <1>2, <1>4, <1>7

LEMMA RedirectKeeps ==
  ASSUME TreeInv, DataInv, CallsInv, NEW d \in Nodes, IsDir(d), NEW nm \in FileName,
         NEW out \in Text, NEW append \in BOOLEAN, Redirect(d, nm, out, append)
  PROVE  TreeInv' /\ DataInv' /\ CallsInv'
<1> DEFINE f == Lookup(d, nm)
           old == IF append /\ IsFile(f) /\ content[f] # NULL THEN content[f] ELSE <<>>
<1>1. PICK text : text = old \o out
  OBVIOUS
<1>2. PutFile(d, nm, text) /\ Idle /\ UNCHANGED <<cwd, copyStack, rmStack>> /\ ret' \in Ret
  BY <1>1 DEF Redirect, stacks, Report, Ret
<1>3. f = NULL \/ f \in Node
  BY LookupFinds, NodesInRange DEF TreeInv, TreeType
<1>4. old \in Seq(Char) /\ out \in Seq(Char)
  BY <1>3, TextAssumption DEF DataInv, IsFile
<1>5. text \in Seq(Char)
  BY <1>1, <1>4
<1>6. TreeInv' /\ DataInv' /\ Grows
  BY <1>2, <1>5, PutFileKeeps
<1>7. CallsInv'
  BY <1>2, <1>6, GrowsKeepsCalls
<1> QED
  BY <1>6, <1>7

LEMMA RmKeeps ==
  ASSUME TreeInv, DataInv, CallsInv, NEW n \in Nodes, Rm(n) \/ Rmdir(n)
  PROVE  TreeInv' /\ DataInv' /\ CallsInv'
<1>1. TreeInv' /\ UNCHANGED <<used, type>>
  <2>1. CASE FsRemove(n)
    BY <2>1, FsRemoveKeepsTree
  <2>2. CASE UNCHANGED tree
    BY <2>2 DEF tree, TreeInv, TreeType, FreshUnlinked, Unlinked, TreeLinks, UniqueNames, IsDir
  <2> QED
    BY <2>1, <2>2 DEF Rm, Rmdir
<1>2. Idle /\ UNCHANGED <<data, cwd, copyStack, rmStack>> /\ ret' \in Ret
  BY DEF Rm, Rmdir, stacks, Report, Ret
<1>3. cwd' \in Nodes /\ IsDir(cwd')
  BY <1>2 DEF CallsInv, CallsOnTree
<1> QED
  BY <1>1, <1>2, <1>3, RewiringKeeps

LEMMA MvKeeps ==
  ASSUME TreeInv, DataInv, CallsInv, NEW n \in Nodes, NEW t \in Nodes, IsDir(t),
         NEW nm \in FileName, Mv(n, t, nm)
  PROVE  TreeInv' /\ DataInv' /\ CallsInv'
<1>1. TreeInv' /\ UNCHANGED <<used, type>> /\ ret' \in Ret
  <2>1. CASE MvRefused(n, t, nm)
    <3>1. UNCHANGED tree /\ Report(FALSE)
      BY <2>1 DEF Mv
    <3> QED
      BY <3>1 DEF tree, TreeInv, TreeType, FreshUnlinked, Unlinked, TreeLinks, UniqueNames, IsDir,
                  Report, Ret
  <2>2. CASE ~MvRefused(n, t, nm)
    <3>1. MvNode(n, t, nm)
      BY <2>2 DEF Mv
    <3>2. UNCHANGED <<used, type>> /\ ret' \in Ret
      BY <3>1 DEF MvNode, Report, Ret
    <3> QED
      BY <2>2, <3>1, <3>2, MvKeepsTree
  <2> QED
    BY <2>1, <2>2
<1>2. Idle /\ UNCHANGED <<data, cwd, copyStack, rmStack>>
  BY DEF Mv, stacks
<1>3. cwd' \in Nodes /\ IsDir(cwd')
  BY <1>2 DEF CallsInv, CallsOnTree
<1> QED
  BY <1>1, <1>2, <1>3, RewiringKeeps

(***************************************************************************)
(* rm -r.                                                                  *)
(***************************************************************************)
LEMMA RmRecursiveKeeps ==
  ASSUME TreeInv, DataInv, CallsInv, NEW n \in Nodes, RmRecursive(n)
  PROVE  TreeInv' /\ DataInv' /\ CallsInv'
<1>1. TreeInv' /\ DataInv'
  BY SameTreeKeeps DEF RmRecursive
<1>2. UNCHANGED <<used, type, cwd, copyStack>> /\ copyStack = <<>> /\ ret' \in Ret
  BY DEF RmRecursive, tree, Idle, Report, Ret
<1>3. n \in Node /\ Nodes' = Nodes
  BY <1>2, NodesInRange DEF TreeInv, TreeType, Nodes
<1>4. rmStack' \in Seq(Node) /\ \A k \in DOMAIN rmStack' : k = 1 /\ rmStack'[k] \in Nodes \ {Root}
  <2>1. CASE n = Root
    BY <2>1 DEF RmRecursive
  <2>2. CASE n # Root
    BY <1>3, <2>2 DEF RmRecursive
  <2> QED
    BY <2>1, <2>2
<1>5. \A k \in DOMAIN rmStack' : RemoveCallOk(k)'
  BY <1>3, <1>4 DEF RemoveCallOk
<1>6. cwd' \in Nodes' /\ IsDir(cwd)'
  BY <1>2, <1>3 DEF CallsInv, CallsOnTree, IsDir
<1> QED
  BY <1>1, <1>2, <1>4, <1>5, <1>6 DEF CallsInv, CallsOnTree

LEMMA RemoveDescendKeeps ==
  ASSUME TreeInv, DataInv, CallsInv, RemoveDescend
  PROVE  TreeInv' /\ DataInv' /\ CallsInv'
<1>1. TreeInv' /\ DataInv'
  BY SameTreeKeeps DEF RemoveDescend
<1>2. UNCHANGED <<used, type, children, cwd, copyStack, ret>> /\ copyStack = <<>> /\ Nodes' = Nodes
  BY DEF RemoveDescend, tree, CallsInv, CallsOnTree, Nodes
<1>3. rmStack \in Seq(Node) /\ Len(rmStack) \in Nat \ {0}
  BY DEF CallsInv, RemoveDescend
<1>4. PICK n \in Nodes \ {Root} : n = Last(rmStack) /\ n = rmStack[Len(rmStack)]
  BY <1>3 DEF CallsInv, CallsOnTree, RemoveCallOk, Last
<1>5. n \in Node /\ children[n] \in Seq(Node) /\ children[n] # <<>>
  BY <1>4, NodesInRange DEF TreeInv, TreeType, RemoveDescend
<1>6. PICK c \in Node : c = Last(children[n]) /\ c = children[n][Len(children[n])] /\ parent[c] = n
  <2>1. Len(children[n]) \in DOMAIN children[n]
    BY <1>5
  <2> QED
    BY <1>5, <2>1 DEF TreeInv, TreeLinks, Last
<1>7. c \in Nodes \ {Root}
  <2>1. ~Unlinked(c) /\ used \in Nat
    BY <1>4, <1>6, NullAssumption, NodesInRange DEF Unlinked, TreeInv, TreeType
  <2>2. parent[Root] = NULL /\ n # NULL
    BY <1>5, NullAssumption DEF TreeInv, TreeLinks
  <2> QED
    BY <1>6, <2>1, <2>2 DEF TreeInv, FreshUnlinked, Nodes, Node
<1>8. /\ rmStack' = Append(rmStack, c)
      /\ rmStack' \in Seq(Node) /\ Len(rmStack') = Len(rmStack) + 1
      /\ \A k \in 1 .. Len(rmStack) : rmStack'[k] = rmStack[k]
      /\ rmStack'[Len(rmStack) + 1] = c
  BY <1>3, <1>4, <1>6, AppendProperties DEF RemoveDescend
<1>9. ASSUME NEW k \in DOMAIN rmStack'
      PROVE  RemoveCallOk(k)'
  <2>1. CASE k \in 1 .. Len(rmStack)
    <3>1. RemoveCallOk(k) /\ (k > 1 => k - 1 \in 1 .. Len(rmStack)) /\ rmStack'[k] = rmStack[k]
      BY <1>3, <1>8, <2>1 DEF CallsInv, CallsOnTree
    <3>2. k > 1 => rmStack'[k - 1] = rmStack[k - 1]
      BY <1>8, <3>1
    <3> QED
      BY <1>2, <3>1, <3>2 DEF RemoveCallOk
  <2>2. CASE k = Len(rmStack) + 1
    <3>1. rmStack'[k] = c /\ rmStack'[k - 1] = n
      BY <1>3, <1>4, <1>8, <2>2
    <3> QED
      BY <1>2, <1>5, <1>6, <1>7, <3>1 DEF RemoveCallOk
  <2> QED
    BY <1>3, <1>8, <2>1, <2>2
<1>10. cwd' \in Nodes' /\ IsDir(cwd)'
  BY <1>2 DEF CallsInv, CallsOnTree, IsDir
<1> QED
  BY <1>1, <1>2, <1>8, <1>9, <1>10 DEF CallsInv, CallsOnTree

LEMMA FrontKeeps ==
  ASSUME NEW S, NEW s \in Seq(S), Len(s) \in Nat \ {0}
  PROVE  /\ Front(s) \in Seq(S) /\ Len(Front(s)) = Len(s) - 1
         /\ \A k \in 1 .. Len(Front(s)) : Front(s)[k] = s[k]
<1>1. PICK n \in Nat : n = Len(s) - 1
  OBVIOUS
<1>2. Front(s) = SubSeq(s, 1, n)
  BY <1>1 DEF Front
<1>3. \A i \in 1 .. n : s[i] \in S
  BY <1>1
<1>4. /\ SubSeq(s, 1, n) \in Seq(S)
      /\ Len(SubSeq(s, 1, n)) = IF 1 <= n THEN n - 1 + 1 ELSE 0
      /\ \A i \in 1 .. n - 1 + 1 : SubSeq(s, 1, n)[i] = s[1 + i - 1]
  BY <1>3, SubSeqProperties
<1> QED
  BY <1>1, <1>2, <1>4

\* The node of a call that returns is not the node of a call below it: it has no
\* children left, and theirs have.
LEMMA RemoveReturnKeeps ==
  ASSUME TreeInv, DataInv, CallsInv, RemoveReturn
  PROVE  TreeInv' /\ DataInv' /\ CallsInv'
<1>1. UNCHANGED <<data, cwd, copyStack>> /\ copyStack = <<>> /\ ret' \in Ret
  BY DEF RemoveReturn, CallsInv, CallsOnTree, Report, Ret
<1>2. rmStack \in Seq(Node) /\ Len(rmStack) \in Nat \ {0}
  BY DEF CallsInv, RemoveReturn
<1>3. PICK n \in Nodes \ {Root} : n = Last(rmStack) /\ n = rmStack[Len(rmStack)]
  BY <1>2 DEF CallsInv, CallsOnTree, RemoveCallOk, Last
<1>4. FsRemove(n) /\ (IsDir(n) => children[n] = <<>>)
  BY <1>3 DEF RemoveReturn
<1>5. TreeInv' /\ UNCHANGED <<used, type>>
  BY <1>4, FsRemoveKeepsTree
<1>6. Nodes' = Nodes /\ n \in Node
  BY <1>5, NodesInRange DEF Nodes, TreeInv, TreeType
<1>7. DataInv'
  BY <1>1, <1>5 DEF DataInv, data
<1>8. cwd' \in Nodes' /\ IsDir(cwd)'
  BY <1>1, <1>5, <1>6 DEF CallsInv, CallsOnTree, IsDir
<1>9. CASE ~CanRemove(n)
  <2>1. rmStack' = <<>>
    BY <1>3, <1>9 DEF RemoveReturn
  <2> QED
    BY <1>1, <1>5, <1>7, <1>8, <2>1 DEF CallsInv, CallsOnTree
<1>10. CASE CanRemove(n)
  <2>1. /\ rmStack' = Front(rmStack)
        /\ rmStack' \in Seq(Node) /\ Len(rmStack') = Len(rmStack) - 1
        /\ \A k \in 1 .. Len(rmStack') : rmStack'[k] = rmStack[k]
    <3>1. rmStack' = Front(rmStack)
      BY <1>3, <1>10 DEF RemoveReturn
    <3> QED
      BY <1>2, <3>1, FrontKeeps
  <2>2. children[n] = <<>>
    BY <1>4, <1>6 DEF TreeInv, TreeLinks
  <2>3. children' = [children EXCEPT ![parent[n]] = RemoveFirst(@, n)]
    BY <1>4, <1>10 DEF FsRemove, Detach
  <2>4. ASSUME NEW k \in DOMAIN rmStack'
        PROVE  RemoveCallOk(k)'
    <3>1. k \in 1 .. Len(rmStack) /\ k + 1 \in 1 .. Len(rmStack)
      BY <1>2, <2>1
    <3>2. RemoveCallOk(k) /\ RemoveCallOk(k + 1) /\ RemoveCallOk(Len(rmStack))
      BY <1>2, <3>1 DEF CallsInv, CallsOnTree
    <3>3. rmStack'[k] = rmStack[k] /\ children[rmStack[k]] # <<>>
      BY <2>1, <3>1, <3>2 DEF RemoveCallOk
    <3>4. ASSUME k > 1
          PROVE  children'[rmStack'[k - 1]] = children[rmStack[k - 1]]
      <4>1. k - 1 \in 1 .. Len(rmStack') /\ rmStack'[k - 1] = rmStack[k - 1]
        BY <1>2, <2>1, <3>4
      <4>2. Len(rmStack) - 1 \in 1 .. Len(rmStack) /\ Len(rmStack) > 1
        BY <1>2, <2>1, <4>1
      <4> DEFINE q == rmStack[Len(rmStack) - 1]
      <4>3. q \in Node /\ children[q] # <<>> /\ Last(children[q]) = n
        BY <1>2, <1>3, <3>2, <4>2 DEF RemoveCallOk
      <4>4. parent[n] = q
        <5>1. children[q] \in Seq(Node) /\ Len(children[q]) \in DOMAIN children[q]
          BY <4>3 DEF TreeInv, TreeType
        <5>2. children[q][Len(children[q])] = n
          BY <4>3 DEF Last
        <5> QED
          BY <4>3, <5>1, <5>2 DEF TreeInv, TreeLinks
      <4>5. rmStack[k - 1] # q
        <5>1. Last(children[rmStack[k - 1]]) = rmStack[k]
          BY <3>2, <3>4 DEF RemoveCallOk
        <5> QED
          BY <2>2, <3>3, <4>3, <5>1
      <4> QED
        BY <2>3, <4>1, <4>4, <4>5
    <3> QED
      <4>1. k > 1 => rmStack'[k - 1] = rmStack[k - 1]
        BY <1>2, <2>1
      <4> QED
        BY <1>6, <3>2, <3>3, <3>4, <4>1 DEF RemoveCallOk
  <2> QED
    BY <1>1, <1>5, <1>7, <1>8, <2>1, <2>4 DEF CallsInv, CallsOnTree
<1> QED
  BY <1>9, <1>10

(***************************************************************************)
(* cp -r.                                                                  *)
(***************************************************************************)
LEMMA CpKeeps ==
  ASSUME TreeInv, DataInv, CallsInv, NEW s \in Nodes, NEW d \in Nodes, IsDir(d),
         NEW nm \in FileName, NEW r \in BOOLEAN, Cp(s, d, nm, r)
  PROVE  TreeInv' /\ DataInv' /\ CallsInv'
<1>1. copyStack = <<>> /\ rmStack = <<>> /\ UNCHANGED <<cwd, rmStack>>
  BY DEF Cp, Idle
<1>2. CASE CpRefused(s, d, r)
  <2>1. UNCHANGED <<tree, data, copyStack>> /\ ret' \in Ret
    BY <1>2 DEF Cp, Report, Ret
  <2>2. TreeInv' /\ DataInv'
    BY <2>1, SameTreeKeeps
  <2>3. UNCHANGED <<used, type, data, copyStack, rmStack>> /\ cwd' \in Nodes /\ IsDir(cwd')
    BY <1>1, <2>1 DEF tree, CallsInv, CallsOnTree
  <2> QED
    BY <1>1, <2>1, <2>2, <2>3, RewiringKeeps DEF Idle
<1>3. CASE ~CpRefused(s, d, r)
  <2>1. CopyNode(s, d, nm, <<>>)
    BY <1>3 DEF Cp
  <2>2. <<>> \in Seq(Frame) /\ \A k \in 1 .. Len(<<>>) : CopyCallOk(<<>>[k])
    OBVIOUS
  <2> QED
    BY <1>1, <2>1, <2>2, CopyNodeKeeps
<1> QED
  BY <1>2, <1>3

LEMMA CopyChildKeeps ==
  ASSUME TreeInv, DataInv, CallsInv, CopyChild
  PROVE  TreeInv' /\ DataInv' /\ CallsInv'
<1>1. copyStack \in Seq(Frame) /\ Len(copyStack) \in Nat \ {0} /\ rmStack = <<>>
  BY DEF CallsInv, CallsOnTree, CopyChild
<1>2. PICK f \in Frame : f = Last(copyStack) /\ f = copyStack[Len(copyStack)] /\ CopyCallOk(f)
  BY <1>1 DEF CallsInv, CallsOnTree, Last
<1>3. /\ f.src \in Node /\ children[f.src] \in Seq(Node) /\ f.next \in Nat
      /\ f.next < Len(children[f.src]) /\ f.dst \in Nodes /\ IsDir(f.dst)
  BY <1>2, NodesInRange DEF CopyCallOk, CopyChild, TreeInv, TreeType, Frame
<1>4. PICK c \in Node : c = children[f.src][f.next + 1] /\ parent[c] = f.src
  <2>1. f.next + 1 \in DOMAIN children[f.src]
    BY <1>3
  <2> QED
    BY <1>3, <2>1 DEF TreeInv, TreeLinks
<1>5. c \in Nodes /\ name[c] \in FileName
  <2>1. ~Unlinked(c)
    BY <1>3, <1>4, NullAssumption DEF Unlinked
  <2> QED
    BY <2>1 DEF TreeInv, TreeType, FreshUnlinked, Nodes, Node
<1>6. PICK callers : callers = [copyStack EXCEPT ![Len(copyStack)].next = @ + 1]
  OBVIOUS
<1>7. callers = [copyStack EXCEPT ![Len(copyStack)] = [f EXCEPT !.next = @ + 1]]
  BY <1>1, <1>2, <1>6
<1>8. PICK g : g = [f EXCEPT !.next = @ + 1]
  OBVIOUS
<1>9. g \in Frame /\ g.src = f.src /\ g.dst = f.dst /\ g.next = f.next + 1
  BY <1>3, <1>8 DEF Frame
<1>10. CopyCallOk(g)
  BY <1>2, <1>3, <1>9 DEF CopyCallOk
<1>11. callers = [copyStack EXCEPT ![Len(copyStack)] = g]
  BY <1>7, <1>8
<1>12. /\ callers \in Seq(Frame) /\ Len(callers) = Len(copyStack)
       /\ \A k \in 1 .. Len(callers) : callers[k] = IF k = Len(copyStack) THEN g ELSE copyStack[k]
  BY <1>1, <1>9, <1>11
<1>13. \A k \in 1 .. Len(callers) : CopyCallOk(callers[k])
  BY <1>1, <1>10, <1>12 DEF CallsInv, CallsOnTree
<1>14. CopyNode(c, f.dst, name[c], callers) /\ UNCHANGED <<cwd, rmStack>>
  BY <1>2, <1>4, <1>6 DEF CopyChild
<1> QED
  BY <1>1, <1>3, <1>5, <1>12, <1>13, <1>14, CopyNodeKeeps

LEMMA CopyReturnKeeps ==
  ASSUME TreeInv, DataInv, CallsInv, CopyReturn
  PROVE  TreeInv' /\ DataInv' /\ CallsInv'
<1>1. copyStack \in Seq(Frame) /\ Len(copyStack) \in Nat \ {0} /\ rmStack = <<>>
  BY DEF CallsInv, CallsOnTree, CopyReturn
<1>2. UNCHANGED <<used, type, children, cwd, rmStack, ret>>
  BY DEF CopyReturn, tree
<1>3. TreeInv' /\ DataInv'
  BY SameTreeKeeps DEF CopyReturn
<1>4. Nodes' = Nodes
  BY <1>2 DEF Nodes
<1>5. /\ copyStack' \in Seq(Frame) /\ Len(copyStack') = Len(copyStack) - 1
      /\ \A k \in 1 .. Len(copyStack') : copyStack'[k] = copyStack[k]
  BY <1>1, FrontKeeps DEF CopyReturn
<1>6. ASSUME NEW k \in DOMAIN copyStack'
      PROVE  CopyCallOk(copyStack[k])'
  <2>1. k \in DOMAIN copyStack /\ copyStack'[k] = copyStack[k]
    BY <1>1, <1>5
  <2>2. CopyCallOk(copyStack[k])
    BY <2>1 DEF CallsInv, CallsOnTree
  <2> QED
    BY <1>2, <1>4, <2>1, <2>2 DEF CopyCallOk, IsDir
<1>7. cwd' \in Nodes' /\ IsDir(cwd)'
  BY <1>2, <1>4 DEF CallsInv, CallsOnTree, IsDir
<1> QED
  BY <1>1, <1>2, <1>3, <1>5, <1>6, <1>7 DEF CallsInv, CallsOnTree

(***************************************************************************)
(* The theorems.                                                           *)
(***************************************************************************)
LEMMA NextKeepsIInv == IInv /\ [Next]_vars => IInv'
<1> SUFFICES ASSUME IInv, [Next]_vars
             PROVE  IInv'
  OBVIOUS
<1>1. TreeInv /\ DataInv /\ CallsInv
  BY IInvParts
<1>2. SUFFICES TreeInv' /\ DataInv' /\ CallsInv'
  BY <1>2, IInvParts, PTL
<1>3. CASE UNCHANGED vars
  <2>1. UNCHANGED <<tree, data, cwd, copyStack, rmStack, ret, used, type, children>>
    BY <1>3 DEF vars, tree, stacks
  <2> QED
    BY <1>1, <2>1, SameTreeKeeps DEF CallsInv, CallsOnTree, CopyCallOk, RemoveCallOk, IsDir, Nodes
<1>4. CASE Command
  <2>1. Handles \subseteq Nodes /\ Nodes \subseteq Node
    BY HandlesAreNodes, NodesInRange DEF IInv, TypeOK
  <2>2. Name \subseteq FileName /\ \A n \in Nodes : Leaf(n) \subseteq FileName
    BY <1>1, <2>1 DEF FileName, Leaf, TreeInv, TreeType
  <2>8. ASSUME Refuse
        PROVE  TreeInv' /\ DataInv' /\ CallsInv'
    <3>1. Root \in Nodes
      BY NodesInRange DEF IInv, TypeOK
    <3> QED
      BY <1>1, <2>8, <3>1, CdKeeps
  <2>3. ASSUME NEW n \in Handles, Cd(n) \/ Rmdir(n) \/ Rm(n) \/ RmRecursive(n)
        PROVE  TreeInv' /\ DataInv' /\ CallsInv'
    BY <1>1, <2>1, <2>3, CdKeeps, RmKeeps, RmRecursiveKeeps
  <2>4. ASSUME NEW d \in Handles, IsDir(d), NEW nm \in Name, Touch(d, nm) \/ Mkdir(d, nm)
        PROVE  TreeInv' /\ DataInv' /\ CallsInv'
    BY <1>1, <2>1, <2>2, <2>4, TouchKeeps
  <2>5. ASSUME NEW d \in Handles, IsDir(d), NEW nm \in Name, NEW out \in Text,
               NEW append \in BOOLEAN, Redirect(d, nm, out, append)
        PROVE  TreeInv' /\ DataInv' /\ CallsInv'
    BY <1>1, <2>1, <2>2, <2>5, RedirectKeeps
  <2>6. ASSUME NEW s \in Handles, NEW d \in Nodes, IsDir(d), NEW nm \in Leaf(s),
               NEW r \in BOOLEAN, Cp(s, d, nm, r)
        PROVE  TreeInv' /\ DataInv' /\ CallsInv'
    BY <1>1, <2>1, <2>2, <2>6, CpKeeps
  <2>7. ASSUME NEW n \in Handles, NEW t \in Nodes, IsDir(t), NEW nm \in Leaf(n), Mv(n, t, nm)
        PROVE  TreeInv' /\ DataInv' /\ CallsInv'
    BY <1>1, <2>1, <2>2, <2>7, MvKeeps
  <2> QED
    BY <1>4, <2>8, <2>3, <2>4, <2>5, <2>6, <2>7 DEF Command
<1>5. CASE CopyStep
  BY <1>1, <1>5, CopyChildKeeps, CopyReturnKeeps DEF CopyStep
<1>6. CASE RemoveStep
  BY <1>1, <1>6, RemoveDescendKeeps, RemoveReturnKeeps DEF RemoveStep
<1> QED
  BY <1>3, <1>4, <1>5, <1>6 DEF Next

LEMMA SpecIInv == Spec => []IInv
BY InitIInv, NextKeepsIInv, PTL DEF Spec

\* No index of fs.c leaves its pool and no field its range, whatever the commands.
THEOREM TypeCorrect == Spec => []TypeOK
<1>1. IInv => TypeOK
  BY DEF IInv
<1> QED
  BY <1>1, SpecIInv, PTL

\* allocate_node only hands out slots that nothing in the tree points at.
THEOREM FreshSlotsBlank == Spec => []FreshBlank
<1>1. IInv => FreshBlank
  BY DEF IInv
<1> QED
  BY <1>1, SpecIInv, PTL

\* The parent pointers and the lists of children describe the same tree, within
\* the capacity of children[], after any sequence of commands and at every step of
\* cp -r and rm -r.
THEOREM LinksAgree == Spec => []TreeLinks
<1>1. IInv => TreeLinks
  BY DEF IInv
<1> QED
  BY <1>1, SpecIInv, PTL

\* No directory ever holds two entries of the same name.
THEOREM NamesUnique == Spec => []UniqueNames
<1>1. IInv => UniqueNames
  BY DEF IInv
<1> QED
  BY <1>1, SpecIInv, PTL

\* The working directory, and every call of cp -r and rm -r in progress, stays on
\* a live node while the tree changes under it.
THEOREM CallsStayOnTree == Spec => []CallsOnTree
<1>1. IInv => CallsOnTree
  BY DEF IInv
<1> QED
  BY <1>1, SpecIInv, PTL

(***************************************************************************)
(* No command of the RAM filesystem ever puts a directory below itself.    *)
(* Every step either drops parent pointers, or makes one node point at a   *)
(* directory that is not below it: a slot just taken, which nothing can be *)
(* above, or the node mv moves, which is_ancestor has checked.             *)
(***************************************************************************)
\* What a step may do to the parent pointers.
Drops == \A m \in Node : parent'[m] = parent[m] \/ parent'[m] = NULL

Relinks(n, t) ==
  /\ ~IsAncestor(n, t)
  /\ \A m \in Node : parent'[m] = parent[m] \/ parent'[m] = NULL \/ (m = n /\ parent'[m] = t)

\* The nodes met on the way up from n are a set that the parent pointers do not leave.
LEMMA AncestorsUpClosed ==
  ASSUME NEW n \in Node, parent \in [Node -> Node \cup {NULL}]
  PROVE  \E A \in SUBSET Node : n \in A /\ UpClosed(A) /\ \A a \in Node : a \in A <=> IsAncestor(a, n)
<1> DEFINE A == {a \in Node : IsAncestor(a, n)}
<1>1. n \in A
  BY DEF IsAncestor
<1>2. ASSUME NEW m \in A, parent[m] # NULL
      PROVE  parent[m] \in A
  <2>1. m \in Node /\ parent[m] \in Node
    BY <1>2
  <2>2. ASSUME NEW S \in SUBSET Node, n \in S, UpClosed(S)
        PROVE  parent[m] \in S
    BY <1>2, <2>2 DEF IsAncestor, UpClosed
  <2> QED
    BY <2>1, <2>2 DEF IsAncestor
<1>3. UpClosed(A)
  BY <1>2 DEF UpClosed
<1> QED
  BY <1>1, <1>3

\* A set that the parent pointers do not leave, with the parent of m but without
\* m, shows that m is not its own ancestor.
LEMMA DropsKeepsAcyclic ==
  ASSUME parent \in [Node -> Node \cup {NULL}], Acyclic, Drops
  PROVE  Acyclic'
<1> SUFFICES ASSUME NEW m \in Node, parent'[m] # NULL
             PROVE  \E S \in SUBSET Node : parent'[m] \in S /\ UpClosed(S)' /\ m \notin S
  BY DEF Acyclic, IsAncestor, UpClosed
<1>1. parent'[m] = parent[m]
  BY DEF Drops
<1>2. PICK S \in SUBSET Node : parent[m] \in S /\ UpClosed(S) /\ m \notin S
  BY <1>1 DEF Acyclic, IsAncestor
<1>3. UpClosed(S)'
  BY <1>2 DEF UpClosed, Drops
<1> QED
  BY <1>1, <1>2, <1>3

LEMMA RelinksKeepsAcyclic ==
  ASSUME parent \in [Node -> Node \cup {NULL}], Acyclic,
         NEW n \in Node, NEW t \in Node, Relinks(n, t)
  PROVE  Acyclic'
<1> SUFFICES ASSUME NEW m \in Node, parent'[m] # NULL
             PROVE  \E S \in SUBSET Node : parent'[m] \in S /\ UpClosed(S)' /\ m \notin S
  BY DEF Acyclic, IsAncestor, UpClosed
<1>0. PICK T \in SUBSET Node :
        t \in T /\ UpClosed(T) /\ \A a \in Node : a \in T <=> IsAncestor(a, t)
  BY AncestorsUpClosed
<1>1. n \notin T
  BY <1>0 DEF Relinks
<1>2. UpClosed(T)'
  <2> SUFFICES ASSUME NEW x \in T, parent'[x] # NULL
               PROVE  parent'[x] \in T
    BY DEF UpClosed
  <2>1. x \in Node /\ x # n
    BY <1>0, <1>1
  <2>2. parent'[x] = parent[x]
    BY <2>1 DEF Relinks
  <2> QED
    BY <1>0, <1>1, <2>2 DEF UpClosed
<1>3. CASE m = n /\ parent'[m] = t
  BY <1>0, <1>1, <1>2, <1>3
<1>4. CASE parent'[m] = parent[m]
  <2>1. parent[m] \in Node
    BY <1>4
  <2> DEFINE p == parent[m]
  <2>2. PICK P \in SUBSET Node :
          p \in P /\ UpClosed(P) /\ \A a \in Node : a \in P <=> IsAncestor(a, p)
    BY <2>1, AncestorsUpClosed
  <2>3. m \notin P
    BY <1>4, <2>2 DEF Acyclic
  <2>4. CASE n \notin P
    <3>1. UpClosed(P)'
      <4> SUFFICES ASSUME NEW x \in P, parent'[x] # NULL
                   PROVE  parent'[x] \in P
        BY DEF UpClosed
      <4>1. parent'[x] = parent[x]
        BY <2>2, <2>4 DEF Relinks
      <4> QED
        BY <2>2, <4>1 DEF UpClosed
    <3> QED
      BY <1>4, <2>2, <2>3, <3>1
  <2>5. CASE n \in P
    <3>1. m \notin T
      <4> SUFFICES ASSUME m \in T
                   PROVE  IsAncestor(n, t)
        BY DEF Relinks
      <4> SUFFICES ASSUME NEW S \in SUBSET Node, t \in S, UpClosed(S)
                   PROVE  n \in S
        BY DEF IsAncestor
      <4>1. m \in S
        BY <1>0 DEF IsAncestor
      <4>2. p \in S
        BY <1>4, <4>1 DEF UpClosed
      <4> QED
        BY <2>2, <2>5, <4>2 DEF IsAncestor
    <3> DEFINE S == P \cup T
    <3>2. UpClosed(S)'
      <4> SUFFICES ASSUME NEW x \in S, parent'[x] # NULL
                   PROVE  parent'[x] \in S
        BY DEF UpClosed
      <4>1. x \in Node
        BY <1>0, <1>1, <2>2
      <4>2. CASE parent'[x] = parent[x]
        BY <1>0, <1>1, <2>2, <4>2 DEF UpClosed
      <4>3. CASE parent'[x] = t
        BY <1>0, <1>1, <4>3
      <4> QED
        BY <4>1, <4>2, <4>3 DEF Relinks
    <3>3. S \in SUBSET Node /\ parent'[m] \in S /\ m \notin S
      BY <1>0, <1>1, <1>4, <2>2, <2>3, <3>1
    <3> QED
      BY <3>2, <3>3
  <2> QED
    BY <2>4, <2>5
<1> QED
  BY <1>3, <1>4 DEF Relinks

(***************************************************************************)
(* Every step drops parent pointers or sets one.                           *)
(***************************************************************************)
\* The slot allocate_node takes is above nothing: no live node is left by the
\* parent pointers for a slot not handed out yet.
LEMMA FindOrCreateRelinks ==
  ASSUME IInv, NEW kind, NEW d \in Nodes, NEW nm, FindOrCreate(kind, d, nm)
  PROVE  Drops \/ \E n, t \in Node : Relinks(n, t)
<1>1. Nodes \in SUBSET Node /\ d \in Node /\ parent \in [Node -> Node \cup {NULL}] /\ used \in Nat
  BY NodesInRange DEF IInv, TypeOK
<1>2. CASE UNCHANGED tree
  BY <1>2 DEF tree, Drops
<1>3. CASE CanAllocate /\ CreateNode(kind, d, nm)
  <2> DEFINE n == used + 1
  <2>1. n \in Node /\ n \notin Nodes /\ parent' = [parent EXCEPT ![n] = d]
    BY <1>1, <1>3 DEF CreateNode, CanAllocate, Node, Nodes
  <2>2. UpClosed(Nodes)
    BY <1>1 DEF IInv, TypeOK, FreshBlank, FreshUnlinked, Unlinked, UpClosed, Nodes, Node
  <2>3. ~IsAncestor(n, d)
    BY <1>1, <2>1, <2>2 DEF IsAncestor
  <2>4. Relinks(n, d)
    BY <1>1, <2>1, <2>3 DEF Relinks
  <2> QED
    BY <1>1, <2>1, <2>4
<1> QED
  BY <1>2, <1>3 DEF FindOrCreate, CreateNode

LEMMA FsRemoveDrops ==
  ASSUME IInv, NEW n \in Node, FsRemove(n)
  PROVE  Drops
<1>1. parent \in [Node -> Node \cup {NULL}]
  BY DEF IInv, TypeOK
<1> QED
  BY <1>1 DEF FsRemove, Detach, tree, Drops

LEMMA MvRelinks ==
  ASSUME IInv, NEW n \in Node, NEW t \in Node, NEW nm, Mv(n, t, nm)
  PROVE  Drops \/ Relinks(n, t)
<1>1. parent \in [Node -> Node \cup {NULL}]
  BY DEF IInv, TypeOK
<1>2. CASE MvRefused(n, t, nm)
  BY <1>2 DEF Mv, tree, Drops
<1>3. CASE ~MvRefused(n, t, nm)
  <2>1. ~IsAncestor(n, t) /\ MvNode(n, t, nm)
    BY <1>3 DEF Mv, MvRefused
  <2>2. \A m \in Node : parent'[m] = parent[m] \/ parent'[m] = NULL \/ (m = n /\ parent'[m] = t)
    BY <2>1 DEF MvNode
  <2> QED
    BY <2>1, <2>2 DEF Relinks
<1> QED
  BY <1>2, <1>3

LEMMA CopyNodeRelinks ==
  ASSUME IInv, NEW s, NEW d \in Nodes, NEW nm, NEW callers, CopyNode(s, d, nm, callers)
  PROVE  Drops \/ \E n, t \in Node : Relinks(n, t)
<1>1. FindOrCreate("file", d, nm) \/ FindOrCreate("dir", d, nm)
  BY DEF CopyNode, PutFile
<1> QED
  BY <1>1, FindOrCreateRelinks

LEMMA NextRelinks ==
  ASSUME IInv, [Next]_vars
  PROVE  Drops \/ \E n, t \in Node : Relinks(n, t)
<1>1. Handles \subseteq Nodes /\ Nodes \subseteq Node
  BY HandlesAreNodes, NodesInRange DEF IInv, TypeOK
<1>2. CASE UNCHANGED tree
  BY <1>2 DEF tree, Drops
<1>3. CASE Command
  <2>1. ASSUME NEW n \in Handles, Cd(n) \/ Rmdir(n) \/ Rm(n) \/ RmRecursive(n)
        PROVE  Drops
    <3>1. UNCHANGED tree \/ FsRemove(n)
      BY <2>1 DEF Cd, Rmdir, Rm, RmRecursive
    <3> QED
      BY <1>1, <3>1, FsRemoveDrops DEF tree, Drops
  <2>2. ASSUME NEW d \in Handles, NEW nm \in Name, Touch(d, nm) \/ Mkdir(d, nm)
        PROVE  Drops \/ \E n, t \in Node : Relinks(n, t)
    BY <1>1, <2>2, FindOrCreateRelinks DEF Touch, Mkdir
  <2>3. ASSUME NEW d \in Handles, NEW nm \in Name, NEW out \in Text, NEW append \in BOOLEAN,
               Redirect(d, nm, out, append)
        PROVE  Drops \/ \E n, t \in Node : Relinks(n, t)
    <3>1. FindOrCreate("file", d, nm)
      BY <2>3 DEF Redirect, PutFile
    <3> QED
      BY <1>1, <3>1, FindOrCreateRelinks
  <2>4. ASSUME NEW s \in Handles, NEW d \in Nodes, NEW nm \in Leaf(s), NEW r \in BOOLEAN,
               Cp(s, d, nm, r)
        PROVE  Drops \/ \E n, t \in Node : Relinks(n, t)
    <3>1. UNCHANGED tree \/ CopyNode(s, d, nm, <<>>)
      BY <2>4 DEF Cp
    <3> QED
      BY <1>1, <1>2, <3>1, CopyNodeRelinks
  <2>5. ASSUME NEW n \in Handles, NEW t \in Nodes, NEW nm \in Leaf(n), Mv(n, t, nm)
        PROVE  Drops \/ \E x, y \in Node : Relinks(x, y)
    BY <1>1, <2>5, MvRelinks
  <2>6. ASSUME Refuse
        PROVE  Drops
    BY <2>6 DEF Refuse, tree, Drops
  <2> QED
    BY <1>3, <2>1, <2>2, <2>3, <2>4, <2>5, <2>6 DEF Command
<1>4. CASE CopyStep
  <2>1. CASE CopyReturn
    BY <1>2, <2>1 DEF CopyReturn
  <2>2. CASE CopyChild
    <3>1. copyStack \in Seq(Frame) /\ copyStack # <<>>
      BY <2>2 DEF CopyChild, IInv, TypeOK
    <3>2. Last(copyStack).dst \in Nodes
      BY <3>1 DEF IInv, CallsOnTree, CopyCallOk, Last
    <3> QED
      BY <2>2, <3>2, CopyNodeRelinks DEF CopyChild
  <2> QED
    BY <1>4, <2>1, <2>2 DEF CopyStep
<1>5. CASE RemoveStep
  <2>1. CASE RemoveDescend
    BY <1>2, <2>1 DEF RemoveDescend
  <2>2. CASE RemoveReturn
    <3>1. rmStack \in Seq(Node) /\ rmStack # <<>> /\ FsRemove(Last(rmStack))
      BY <2>2 DEF RemoveReturn, IInv, TypeOK
    <3>2. Last(rmStack) \in Node
      BY <3>1 DEF Last
    <3> QED
      BY <3>1, <3>2, FsRemoveDrops
  <2> QED
    BY <1>5, <2>1, <2>2 DEF RemoveStep
<1>6. CASE UNCHANGED vars
  BY <1>2, <1>6 DEF vars
<1> QED
  BY <1>3, <1>4, <1>5, <1>6 DEF Next

LEMMA InitAcyclic == Init => Acyclic
BY DEF Init, Acyclic

\* No directory is ever its own ancestor, after any sequence of commands and at
\* every step of cp -r and rm -r: is_ancestor and print_path, which follow the
\* parent pointers with no bound, always come to an end.
THEOREM NoCycles == Spec => []Acyclic
<1>1. ASSUME IInv, Acyclic, [Next]_vars
      PROVE  Acyclic'
  <2>1. parent \in [Node -> Node \cup {NULL}]
    BY <1>1 DEF IInv, TypeOK
  <2> QED
    BY <1>1, <2>1, NextRelinks, DropsKeepsAcyclic, RelinksKeepsAcyclic
<1> QED
  BY <1>1, InitAcyclic, SpecIInv, PTL DEF Spec
-----------------------------------------------------------------------------
(***************************************************************************)
(* mv that succeeds relocates its operand and loses nothing.               *)
(***************************************************************************)
\* Removing an entry leaves the others in the list.
LEMMA RemoveFirstRest ==
  ASSUME NEW S, NEW s \in Seq(S), NEW e,
         \A i, j \in 1 .. Len(s) : s[i] = s[j] => i = j
  PROVE  \A i \in 1 .. Len(s) : s[i] # e =>
           \E k \in 1 .. Len(RemoveFirst(s, e)) : RemoveFirst(s, e)[k] = s[i]
<1>1. CASE \E i \in 1 .. Len(s) : s[i] = e
  <2>1. PICK at \in 1 .. Len(s) : s[at] = e
    BY <1>1
  <2> DEFINE r == RemoveFirst(s, s[at])
  <2>2. /\ Len(r) = Len(s) - 1
        /\ \A k \in 1 .. Len(s) - 1 : r[k] = IF k < at THEN s[k] ELSE s[k + 1]
    BY RemoveFirstEntry
  <2> HIDE DEF r
  <2>3. ASSUME NEW i \in 1 .. Len(s), s[i] # e
        PROVE  \E k \in 1 .. Len(r) : r[k] = s[i]
    <3>1. CASE i < at
      <4>1. i \in 1 .. Len(r) /\ r[i] = s[i]
        BY <3>1, <2>2
      <4> QED BY <4>1
    <3>2. CASE i > at
      <4>1. i - 1 \in 1 .. Len(r) /\ r[i - 1] = s[i - 1 + 1] /\ i - 1 + 1 = i
        BY <3>2, <2>2
      <4> QED BY <4>1
    <3>3. i # at
      BY <2>1, <2>3
    <3> QED BY <3>1, <3>2, <3>3
  <2> QED BY <2>1, <2>3 DEF r
<1>2. CASE ~\E i \in 1 .. Len(s) : s[i] = e
  <2>1. RemoveFirst(s, e) = s
    BY <1>2 DEF RemoveFirst
  <2> QED BY <2>1
<1> QED BY <1>1, <1>2

\* What a path from the root reaches has been handed out.
LEMMA ReachableAreNodes ==
  ASSUME TreeInv
  PROVE  Reachable \subseteq Nodes
<1>1. Nodes \in SUBSET Node /\ Root \in Nodes
  BY NodesInRange DEF TreeInv, TreeType
<1>2. DownClosed(Nodes)
  <2> SUFFICES ASSUME NEW m \in Nodes, NEW i \in DOMAIN children[m]
               PROVE  children[m][i] \in Nodes
    BY DEF DownClosed
  <2>1. m \in Node /\ children[m] \in Seq(Node)
    BY <1>1 DEF TreeInv, TreeType
  <2>2. children[m][i] \in Node /\ ~Unlinked(children[m][i])
    BY <2>1 DEF Unlinked
  <2> QED BY <2>2 DEF TreeInv, TreeType, FreshUnlinked, Nodes, Node
<1> QED BY <1>1, <1>2 DEF Reachable

\* The lists of children after a successful mv, entry by entry.
Relocates(n, t, victim, nm) ==
  /\ \A m \in Node : \A i \in DOMAIN children[m] :
       children[m][i] \in {n, victim} \/ \E k \in DOMAIN children'[m] : children'[m][k] = children[m][i]
  /\ \E k \in DOMAIN children'[t] : children'[t][k] = n
  /\ name' = [name EXCEPT ![n] = nm]

LEMMA MvNodeLists ==
  ASSUME TreeInv, NEW n \in Nodes, NEW t \in Nodes, IsDir(t), NEW nm \in FileName,
         ~MvRefused(n, t, nm), MvNode(n, t, nm)
  PROVE  /\ \A m \in Node : \A i \in DOMAIN children[m] :
              children[m][i] \in {n, Lookup(t, nm)} \/ \E k \in DOMAIN children'[m] : children'[m][k] = children[m][i]
         /\ ret' = "ok" => \E k \in DOMAIN children'[t] : children'[t][k] = n
<1> DEFINE e == Lookup(t, nm)
           victim == IF e = n THEN NULL ELSE e
           removed == IF victim = NULL THEN children
                      ELSE [children EXCEPT ![t] = RemoveFirst(@, victim)]
           unlinked == [removed EXCEPT ![parent[n]] = RemoveFirst(@, n)]
<1>1. /\ n \in Node /\ t \in Node /\ parent[n] \in Node /\ children \in [Node -> Seq(Node)]
  BY NodesInRange DEF MvRefused, TreeInv, TreeType
<1>2. /\ children' = [unlinked EXCEPT ![t] = Append(@, n)] \/ children' = unlinked
      /\ ret' = "ok" => children' = [unlinked EXCEPT ![t] = Append(@, n)]
  BY DEF MvNode, Report
<1> HIDE DEF e, victim
<1>3. /\ removed \in [Node -> Seq(Node)]
      /\ \A m \in Node : \A i, j \in 1 .. Len(removed[m]) : removed[m][i] = removed[m][j] => i = j
      /\ \A m \in Node : \A i \in 1 .. Len(children[m]) :
           children[m][i] # victim => \E k \in 1 .. Len(removed[m]) : removed[m][k] = children[m][i]
  <2>1. CASE victim = NULL
    BY <2>1, <1>1, ListsOnce
  <2>2. CASE victim # NULL
    <3>1. removed = [children EXCEPT ![t] = RemoveFirst(@, victim)]
      BY <2>2
    <3>2. /\ RemoveFirst(children[t], victim) \in Seq(Node)
          /\ \A k, l \in 1 .. Len(RemoveFirst(children[t], victim)) :
               RemoveFirst(children[t], victim)[k] = RemoveFirst(children[t], victim)[l] => k = l
      BY <1>1, ListsOnce, RemoveFirstKeeps
    <3>3. \A i \in 1 .. Len(children[t]) : children[t][i] # victim =>
            \E k \in 1 .. Len(RemoveFirst(children[t], victim)) :
              RemoveFirst(children[t], victim)[k] = children[t][i]
      <4>1. /\ children[t] \in Seq(Node)
            /\ \A i, j \in 1 .. Len(children[t]) : children[t][i] = children[t][j] => i = j
        BY <1>1, ListsOnce
      <4> QED BY <4>1, RemoveFirstRest
    <3> HIDE DEF removed
    <3>4. removed \in [Node -> Seq(Node)]
      BY <1>1, <3>1, <3>2
    <3>5. removed[t] = RemoveFirst(children[t], victim)
      BY <1>1, <3>1
    <3>6. \A m \in Node \ {t} : removed[m] = children[m]
      BY <1>1, <3>1
    <3>7. ASSUME NEW m \in Node
          PROVE  /\ \A i, j \in 1 .. Len(removed[m]) : removed[m][i] = removed[m][j] => i = j
                 /\ \A i \in 1 .. Len(children[m]) : children[m][i] # victim =>
                      \E k \in 1 .. Len(removed[m]) : removed[m][k] = children[m][i]
      <4>1. CASE m = t
        BY <4>1, <3>2, <3>3, <3>5
      <4>2. CASE m # t
        BY <4>2, <3>6, ListsOnce
      <4> QED BY <4>1, <4>2
    <3> QED BY <3>4, <3>7
  <2> QED BY <2>1, <2>2
<1> HIDE DEF removed
<1>4. /\ unlinked \in [Node -> Seq(Node)]
      /\ \A m \in Node : \A i \in 1 .. Len(removed[m]) :
           removed[m][i] # n => \E k \in 1 .. Len(unlinked[m]) : unlinked[m][k] = removed[m][i]
  <2> DEFINE p == parent[n]
  <2>1. RemoveFirst(removed[p], n) \in Seq(Node)
    BY <1>1, <1>3, RemoveFirstKeeps
  <2>2. \A i \in 1 .. Len(removed[p]) : removed[p][i] # n =>
          \E k \in 1 .. Len(RemoveFirst(removed[p], n)) : RemoveFirst(removed[p], n)[k] = removed[p][i]
    <3>1. /\ removed[p] \in Seq(Node)
          /\ \A i, j \in 1 .. Len(removed[p]) : removed[p][i] = removed[p][j] => i = j
      BY <1>1, <1>3
    <3> QED BY <3>1, RemoveFirstRest
  <2>3. p \in Node /\ removed \in [Node -> Seq(Node)]
    BY <1>1, <1>3
  <2>4. /\ unlinked \in [Node -> Seq(Node)] /\ unlinked[p] = RemoveFirst(removed[p], n)
        /\ \A m \in Node \ {p} : unlinked[m] = removed[m]
    <3>1. unlinked = [removed EXCEPT ![p] = RemoveFirst(@, n)]
      OBVIOUS
    <3> HIDE DEF p, unlinked
    <3> QED BY <2>1, <2>3, <3>1
  <2> HIDE DEF unlinked, p
  <2>5. ASSUME NEW m \in Node
        PROVE  \A i \in 1 .. Len(removed[m]) :
                 removed[m][i] # n => \E k \in 1 .. Len(unlinked[m]) : unlinked[m][k] = removed[m][i]
    <3>1. CASE m = p
      BY <3>1, <2>2, <2>4
    <3>2. CASE m # p
      BY <3>2, <2>4
    <3> QED BY <3>1, <3>2
  <2> QED BY <2>4, <2>5
<1> HIDE DEF unlinked
<1>5. /\ \A m \in Node : \A k \in 1 .. Len(unlinked[m]) :
           k \in DOMAIN children'[m] /\ children'[m][k] = unlinked[m][k]
      /\ ret' = "ok" => /\ Len(unlinked[t]) + 1 \in DOMAIN children'[t]
                        /\ children'[t][Len(unlinked[t]) + 1] = n
  <2>1. CASE children' = unlinked /\ ret' # "ok"
    BY <1>4, <2>1
  <2>2. CASE children' = [unlinked EXCEPT ![t] = Append(@, n)]
    <3>1. children'[t] = Append(unlinked[t], n) /\ unlinked[t] \in Seq(Node)
      BY <1>1, <1>4, <2>2
    <3>2. \A m \in Node \ {t} : children'[m] = unlinked[m] /\ unlinked[m] \in Seq(Node)
      BY <1>1, <1>4, <2>2
    <3>3. /\ Len(unlinked[t]) + 1 \in DOMAIN children'[t] /\ children'[t][Len(unlinked[t]) + 1] = n
          /\ \A k \in 1 .. Len(unlinked[t]) : k \in DOMAIN children'[t] /\ children'[t][k] = unlinked[t][k]
      BY <1>1, <3>1
    <3> QED BY <3>2, <3>3
  <2> QED BY <1>2, <2>1, <2>2
<1>6. ASSUME NEW m \in Node, NEW i \in DOMAIN children[m], children[m][i] \notin {n, Lookup(t, nm)}
      PROVE  \E k \in DOMAIN children'[m] : children'[m][k] = children[m][i]
  <2>1. i \in 1 .. Len(children[m]) /\ children[m][i] # victim
    <3>1. children[m][i] \in Node /\ i \in 1 .. Len(children[m])
      BY <1>1
    <3> QED BY <1>6, <3>1 DEF victim, e
  <2>2. PICK j \in 1 .. Len(removed[m]) : removed[m][j] = children[m][i]
    BY <1>3, <2>1
  <2>3. PICK k \in 1 .. Len(unlinked[m]) : unlinked[m][k] = children[m][i]
    BY <1>4, <1>6, <2>2
  <2> QED BY <1>5, <2>3
<1> QED BY <1>5, <1>6

LEMMA MvNodeRelocates ==
  ASSUME TreeInv, NEW n \in Nodes, NEW t \in Nodes, IsDir(t), NEW nm \in FileName,
         ~MvRefused(n, t, nm), MvNode(n, t, nm), ret' = "ok"
  PROVE  Relocates(n, t, Lookup(t, nm), nm)
<1>1. name' = [name EXCEPT ![n] = nm]
  BY DEF MvNode
<1> QED BY <1>1, MvNodeLists DEF Relocates

\* The set that shows that a node is no longer reached would, with the file that was
\* replaced, show that it was not reached before: the way down to the new directory
\* does not go through the node, for the directory is not below it.
LEMMA RelocatesKeepsReachable ==
  ASSUME TreeInv, NEW n \in Reachable, NEW t \in Reachable, IsDir(t), ~IsAncestor(n, t), NEW nm,
         LET e == Lookup(t, nm) IN e # NULL /\ e # n => ~IsDir(e),
         Relocates(n, t, Lookup(t, nm), nm)
  PROVE  Reachable \ Reachable' \subseteq {Lookup(t, nm)} \ {n}
<1> DEFINE e == Lookup(t, nm)
<1>0. e \in Node /\ e # n => ~IsDir(e)
  BY NullAssumption
<1>1. /\ parent \in [Node -> Node \cup {NULL}] /\ children \in [Node -> Seq(Node)]
      /\ n \in Node /\ t \in Node
  BY DEF TreeInv, TreeType, Reachable
<1>2. \A m \in Node : \A i \in DOMAIN children[m] : children[m][i] \in Node /\ parent[children[m][i]] = m
  BY <1>1 DEF TreeInv, TreeLinks
<1>3. e # n => \A m \in Node : m = e => children[m] = <<>> /\ \A x \in Node : parent[x] # m
  BY <1>0, <1>1 DEF TreeInv, TreeLinks
<1>4. /\ \A m \in Node : \A i \in DOMAIN children[m] :
           children[m][i] = n \/ children[m][i] = e \/ \E k \in DOMAIN children'[m] : children'[m][k] = children[m][i]
      /\ \E k \in DOMAIN children'[t] : children'[t][k] = n
  BY DEF Relocates
<1> HIDE DEF e
<1>5. ASSUME NEW S \in SUBSET Node, Root \in S, DownClosed(S)'
      PROVE  n \in S
  <2>1. PICK A \in SUBSET Node : t \in A /\ UpClosed(A) /\ \A a \in Node : a \in A <=> IsAncestor(a, t)
    BY <1>1, AncestorsUpClosed
  <2>2. n \notin A
    BY <1>1, <2>1
  <2>3. e # n => e \notin A
    <3> SUFFICES ASSUME e # n, e \in A PROVE FALSE
      OBVIOUS
    <3>1. t # e
      BY <1>0
    <3>2. A \ {e} \in SUBSET Node /\ t \in A \ {e} /\ UpClosed(A \ {e})
      BY <1>3, <2>1, <3>1 DEF UpClosed
    <3>3. IsAncestor(e, t)
      BY <2>1
    <3> QED BY <3>2, <3>3 DEF IsAncestor
  <2> DEFINE T == S \cup (Node \ A)
  <2>4. DownClosed(T)
    <3> SUFFICES ASSUME NEW m \in T, NEW i \in DOMAIN children[m], children[m][i] \in A
                 PROVE  children[m][i] \in S
      BY <1>2 DEF DownClosed
    <3>1. m \in Node /\ parent[children[m][i]] = m
      BY <1>2
    <3>2. m \in A
      BY <1>1, <2>1, <3>1, NullAssumption DEF UpClosed
    <3>3. children[m][i] # n /\ children[m][i] # e
      BY <2>2, <2>3
    <3>4. PICK k \in DOMAIN children'[m] : children'[m][k] = children[m][i]
      BY <1>4, <3>1, <3>3
    <3> QED BY <1>5, <3>2, <3>4 DEF DownClosed
  <2>5. t \in T
    BY <1>5, <2>4 DEF Reachable
  <2> QED BY <1>4, <1>5, <2>1, <2>5 DEF DownClosed
<1>6. ASSUME NEW m \in Reachable, m \notin {e} \ {n}
      PROVE  m \in Reachable'
  <2> SUFFICES ASSUME NEW S \in SUBSET Node, Root \in S, DownClosed(S)'
               PROVE  m \in S
    BY DEF Reachable
  <2>1. n \in S
    BY <1>5
  <2> DEFINE T == S \cup ({e} \cap Node)
  <2>2. DownClosed(T)
    <3> SUFFICES ASSUME NEW x \in T, NEW i \in DOMAIN children[x]
                 PROVE  children[x][i] \in T
      BY DEF DownClosed
    <3>1. x \in Node
      OBVIOUS
    <3>2. x \in S
      BY <1>3, <2>1, <3>1
    <3>3. children[x][i] \in Node
      BY <1>2, <3>1
    <3>4. CASE children[x][i] = n \/ children[x][i] = e
      BY <2>1, <3>3, <3>4
    <3>5. CASE \E k \in DOMAIN children'[x] : children'[x][k] = children[x][i]
      BY <3>2, <3>5 DEF DownClosed
    <3> QED BY <1>4, <3>1, <3>4, <3>5
  <2>3. m \in T
    BY <2>2 DEF Reachable
  <2> QED BY <1>6, <2>1, <2>3
<1> QED BY <1>6 DEF e
\* The node is the entry of its new name.
LEMMA RelocatesFinds ==
  ASSUME TreeInv, TreeInv', NEW n \in Node, NEW t \in Node, IsDir(t)', NEW nm, NEW victim,
         Relocates(n, t, victim, nm)
  PROVE  Lookup(t, nm)' = n
<1>1. PICK k \in DOMAIN children'[t] : children'[t][k] = n
  BY DEF Relocates
<1>2. name'[n] = nm
  BY DEF Relocates, TreeInv, TreeType
<1>3. \A i, j \in DOMAIN children'[t] : name'[children'[t][i]] = name'[children'[t][j]] => i = j
  BY DEF TreeInv, UniqueNames
<1>4. children'[t] \in Seq(Node)
  BY DEF TreeInv, TreeType
<1> DEFINE First(i) == /\ name'[children'[t][i]] = nm
                       /\ \A j \in 1 .. i - 1 : name'[children'[t][j]] # nm
<1>5. First(k)
  BY <1>1, <1>2, <1>3, <1>4
<1>6. \A i \in DOMAIN children'[t] : First(i) => i = k
  BY <1>1, <1>2, <1>3
<1>7. Lookup(t, nm)' = children'[t][CHOOSE i \in DOMAIN children'[t] : First(i)]
  BY <1>1, <1>2 DEF Lookup, HasEntry
<1> HIDE DEF First
<1>8. (CHOOSE i \in DOMAIN children'[t] : First(i)) = k
  BY <1>5, <1>6
<1> QED BY <1>1, <1>7, <1>8

\* mv that succeeds renames or relocates its operand, and nothing in the tree is lost
\* but the one file that it replaces, for every tree: it never moves a directory below
\* itself, where the root would not reach it.
THEOREM MvRelocatesItsOperand == Spec => MvRelocates
<1> DEFINE Moved(n, t, nm) == /\ Lookup(t, nm)' = n
                              /\ Reachable \ Reachable' \subseteq {Lookup(t, nm)} \ {n}
<1>1. ASSUME IInv, ret' = "ok", NEW t \in Reachable, IsDir(t), NEW n \in Reachable, NEW nm \in Leaf(n),
             Mv(n, t, nm)
      PROVE  Moved(n, t, nm)
  <2>1. TreeInv
    BY <1>1, IInvParts
  <2>2. n \in Nodes /\ t \in Nodes /\ Nodes \subseteq Node
    BY <2>1, ReachableAreNodes, NodesInRange DEF TreeInv, TreeType
  <2>3. nm \in FileName
    BY <2>1, <2>2 DEF Leaf, FileName, TreeInv, TreeType
  <2>4. ~MvRefused(n, t, nm) /\ MvNode(n, t, nm)
    BY <1>1 DEF Mv, Report
  <2>5. Relocates(n, t, Lookup(t, nm), nm)
    BY <1>1, <2>1, <2>2, <2>3, <2>4, MvNodeRelocates
  <2>6. TreeInv'
    BY <1>1, <2>1, <2>2, <2>3, <2>4, MvKeepsTree
  <2>7. IsDir(t)'
    BY <1>1, <2>4 DEF MvNode, IsDir
  <2>8. Lookup(t, nm)' = n
    BY <2>1, <2>2, <2>5, <2>6, <2>7, RelocatesFinds
  <2>9. ~IsAncestor(n, t) /\ LET e == Lookup(t, nm) IN e # NULL /\ e # n => ~IsDir(e)
    BY <2>4 DEF MvRefused
  <2>10. Reachable \ Reachable' \subseteq {Lookup(t, nm)} \ {n}
    BY <1>1, <2>1, <2>5, <2>9, RelocatesKeepsReachable
  <2> QED BY <2>8, <2>10
<1>2. ASSUME IInv
      PROVE  ret' = "ok" /\ UNCHANGED <<used, cwd, stacks>> =>
               \A t \in {d \in Reachable : IsDir(d)} : \A n \in Reachable : \A nm \in Leaf(n) :
                 Mv(n, t, nm) => Moved(n, t, nm)
  BY <1>1, <1>2
<1> QED BY <1>2, SpecIInv, PTL DEF MvRelocates
-----------------------------------------------------------------------------
(***************************************************************************)
(* rm -r stays below its target.                                           *)
(***************************************************************************)
LEMMA AncestorsTransitive ==
  ASSUME NEW a, NEW b, NEW c, IsAncestor(a, b), IsAncestor(b, c)
  PROVE  IsAncestor(a, c)
BY DEF IsAncestor

\* The calls in progress go down one path.
Chain == \A j, k \in DOMAIN rmStack : j <= k => IsAncestor(rmStack[j], rmStack[k])

LEMMA CallsAreChildren ==
  ASSUME IInv, NEW k \in DOMAIN rmStack, k > 1
  PROVE  /\ k - 1 \in DOMAIN rmStack
         /\ rmStack[k] \in Node /\ parent[rmStack[k]] = rmStack[k - 1]
         /\ IsLinked(rmStack[k])
<1>1. rmStack \in Seq(Node) /\ children \in [Node -> Seq(Node)] /\ k \in 1 .. Len(rmStack) /\ k - 1 \in 1 .. Len(rmStack)
  BY DEF IInv, TypeOK
<1>2. rmStack[k - 1] \in Node /\ rmStack[k] \in Node
  BY <1>1
<1> DEFINE list == children[rmStack[k - 1]]
<1>3. list \in Seq(Node) /\ list # <<>> /\ Last(list) = rmStack[k]
  BY <1>1, <1>2 DEF IInv, CallsOnTree, RemoveCallOk
<1> HIDE DEF list
<1>4. Len(list) \in DOMAIN list /\ list[Len(list)] = rmStack[k]
  BY <1>3 DEF Last
<1>5. parent[rmStack[k]] = rmStack[k - 1]
  BY <1>2, <1>4 DEF IInv, TreeLinks, list
<1> QED BY <1>1, <1>2, <1>4, <1>5, NullAssumption DEF IsLinked, list

\* What detaching a node does to the ancestors of others: those that are not below
\* it keep theirs.
LEMMA DetachKeepsAncestors ==
  ASSUME parent \in [Node -> Node \cup {NULL}], NEW n \in Node, NEW a \in Node, NEW b \in Node,
         Detach(n), IsAncestor(a, b), ~IsAncestor(n, b)
  PROVE  IsAncestor(a, b)'
<1> SUFFICES ASSUME NEW S \in SUBSET Node, b \in S, UpClosed(S)'
             PROVE  a \in S
  BY DEF IsAncestor
<1> DEFINE T == {x \in S : ~IsAncestor(n, x)}
<1>1. UpClosed(T)
  <2> SUFFICES ASSUME NEW x \in T, parent[x] # NULL PROVE parent[x] \in T
    BY DEF UpClosed
  <2>1. x \in Node /\ parent[x] \in Node
    OBVIOUS
  <2>2. x # n
    BY DEF IsAncestor
  <2>3. parent'[x] = parent[x]
    BY <2>2 DEF Detach
  <2>4. parent[x] \in S
    BY <2>3 DEF UpClosed
  <2>5. IsAncestor(parent[x], x)
    BY <2>1 DEF IsAncestor, UpClosed
  <2> QED BY <2>4, <2>5, AncestorsTransitive
<1> HIDE DEF T
<1>2. T \in SUBSET Node /\ b \in T
  BY DEF T
<1>3. a \in T
  BY <1>1, <1>2 DEF IsAncestor
<1> QED BY <1>3 DEF T

\* While a removal is in progress nothing else is.
LEMMA OnlyRemovals ==
  ASSUME IInv, [Next]_vars, rmStack # <<>>
  PROVE  RemoveStep \/ UNCHANGED vars
<1>1. copyStack = <<>>
  BY DEF IInv, CallsOnTree
<1>2. ~Idle
  BY DEF Idle
<1> QED BY <1>1, <1>2 DEF Next, Command, CopyStep, CopyChild, CopyReturn, Refuse, Cd, Rmdir, Rm, RmRecursive,
                          Touch, Mkdir, Redirect, Cp, Mv

\* The stack of removals grows by a child and shrinks by its last.
LEMMA RmStackSteps ==
  ASSUME IInv, [Next]_vars
  PROVE  \/ rmStack' = <<>>
         \/ \E n \in Node : rmStack' = <<n>>
         \/ rmStack' = rmStack /\ UNCHANGED parent
         \/ RemoveDescend
         \/ RemoveReturn
<1>1. CASE rmStack # <<>>
  BY <1>1, OnlyRemovals DEF RemoveStep, vars, tree, stacks
<1>2. CASE rmStack = <<>>
  <2>1. Handles \subseteq Node
    BY DEF Handles
  <2>2. CASE Command
    <3>1. ASSUME NEW n \in Handles, RmRecursive(n)
          PROVE  rmStack' = <<>> \/ \E m \in Node : rmStack' = <<m>>
      BY <2>1, <3>1 DEF RmRecursive
    <3> QED BY <1>2, <2>2, <3>1 DEF Command, Refuse, Cd, Rmdir, Rm, Touch, Mkdir, Redirect, Cp, Mv, stacks
  <2>3. CASE CopyStep
    BY <1>2, <2>3 DEF CopyStep, CopyChild, CopyReturn
  <2>4. CASE RemoveStep
    BY <2>4 DEF RemoveStep
  <2>5. CASE UNCHANGED vars
    BY <1>2, <2>5 DEF vars, stacks
  <2> QED BY <2>2, <2>3, <2>4, <2>5 DEF Next
<1> QED BY <1>1, <1>2

LEMMA NextKeepsChain ==
  ASSUME IInv, Acyclic, Chain, [Next]_vars
  PROVE  Chain'
<1>0. /\ rmStack \in Seq(Node) /\ parent \in [Node -> Node \cup {NULL}] /\ children \in [Node -> Seq(Node)]
      /\ rmStack' \in Seq(Node)
  BY NextKeepsIInv DEF IInv, TypeOK
<1>1. CASE rmStack' = <<>>
  BY <1>1 DEF Chain
<1>2. CASE \E n \in Node : rmStack' = <<n>>
  <2>1. PICK n \in Node : rmStack' = <<n>>
    BY <1>2
  <2>2. IsAncestor(n, n)'
    BY DEF IsAncestor
  <2>3. \A j \in DOMAIN rmStack' : rmStack'[j] = n
    BY <2>1
  <2> QED BY <2>2, <2>3 DEF Chain
<1>3. CASE rmStack' = rmStack /\ UNCHANGED parent
  BY <1>3 DEF Chain, IsAncestor, UpClosed
<1>4. CASE RemoveDescend
  <2> DEFINE top == Last(rmStack)
             c == Last(children[top])
  <2>1. rmStack' = Append(rmStack, c) /\ UNCHANGED parent
    BY <1>4 DEF RemoveDescend, tree
  <2>2. Len(rmStack) \in DOMAIN rmStack /\ top = rmStack[Len(rmStack)] /\ top \in Node
    BY <1>0, <1>4 DEF RemoveDescend, Last
  <2>3. Len(rmStack) + 1 \in DOMAIN rmStack' /\ rmStack'[Len(rmStack) + 1] = c /\ c \in Node
    BY <1>0, <2>1
  <2>4. children[top] \in Seq(Node) /\ children[top] # <<>>
    BY <1>0, <1>4, <2>2 DEF RemoveDescend
  <2>5. parent[c] = top
    BY <2>2, <2>4 DEF Last, IInv, TreeLinks
  <2>6. IsAncestor(top, c)
    BY <2>2, <2>3, <2>5, NullAssumption DEF IsAncestor, UpClosed
  <2>7. \A j \in DOMAIN rmStack : IsAncestor(rmStack[j], c)
    BY <1>0, <2>2, <2>6, AncestorsTransitive DEF Chain
  <2>8. IsAncestor(c, c)
    BY DEF IsAncestor
  <2>9. ASSUME NEW j \in DOMAIN rmStack', NEW k \in DOMAIN rmStack', j <= k
        PROVE  IsAncestor(rmStack'[j], rmStack'[k])
    <3> HIDE DEF c, top
    <3>1. \A i \in DOMAIN rmStack' : 
            \/ i \in DOMAIN rmStack /\ rmStack'[i] = rmStack[i]
            \/ i = Len(rmStack) + 1 /\ rmStack'[i] = c
      BY <1>0, <2>1, <2>3
    <3>2. DOMAIN rmStack = 1 .. Len(rmStack) /\ j \in Nat /\ k \in Nat
      BY <1>0
    <3>3. IsAncestor(c, c) /\ \A i \in DOMAIN rmStack : IsAncestor(rmStack[i], c)
      BY <2>7, <2>8
    <3>4. CASE k \in DOMAIN rmStack /\ rmStack'[k] = rmStack[k]
      <4>1. j \in DOMAIN rmStack /\ rmStack'[j] = rmStack[j]
        BY <1>0, <2>9, <3>1, <3>2, <3>4
      <4> QED BY <2>9, <3>4, <4>1 DEF Chain
    <3>5. CASE rmStack'[k] = c
      BY <3>1, <3>3, <3>5, Zenon
    <3> QED BY <3>1, <3>4, <3>5
  <2> QED BY <2>1, <2>9 DEF Chain, IsAncestor, UpClosed
<1>5. CASE RemoveReturn /\ rmStack' # <<>>
  <2> DEFINE top == Last(rmStack)
             N == Len(rmStack)
  <2>1. /\ rmStack # <<>> /\ CanRemove(top) /\ Detach(top) /\ rmStack' = Front(rmStack)
    BY <1>5 DEF RemoveReturn, FsRemove
  <2>2. /\ N \in DOMAIN rmStack /\ top = rmStack[N] /\ top \in Node /\ N > 1
        /\ \A k \in DOMAIN rmStack' : k \in DOMAIN rmStack /\ k <= N - 1 /\ rmStack'[k] = rmStack[k]
    <3>1. Len(rmStack) \in Nat \ {0}
      BY <1>0, <2>1
    <3>2. Len(rmStack') = N - 1 /\ \A k \in 1 .. Len(rmStack') : rmStack'[k] = rmStack[k]
      BY <1>0, <2>1, <3>1, FrontKeeps
    <3>3. Len(rmStack') # 0
      BY <1>0, <1>5
    <3>4. DOMAIN rmStack = 1 .. N /\ DOMAIN rmStack' = 1 .. Len(rmStack') /\ Len(rmStack') \in Nat
      BY <1>0
    <3>5. top = rmStack[N]
      BY DEF Last
    <3>6. N \in DOMAIN rmStack /\ N > 1
      BY <3>1, <3>2, <3>3, <3>4
    <3>7. top \in Node
      BY <1>0, <3>5, <3>6
    <3>8. \A k \in DOMAIN rmStack' : k \in DOMAIN rmStack /\ k <= N - 1 /\ rmStack'[k] = rmStack[k]
      BY <3>1, <3>2, <3>4
    <3> QED BY <3>5, <3>6, <3>7, <3>8
  <2>3. /\ N - 1 \in DOMAIN rmStack /\ parent[top] = rmStack[N - 1] /\ rmStack[N - 1] \in Node
    <3>1. \A k \in DOMAIN rmStack : k > 1 => k - 1 \in DOMAIN rmStack /\ parent[rmStack[k]] = rmStack[k - 1]
      BY CallsAreChildren
    <3>2. \A k \in DOMAIN rmStack : rmStack[k] \in Node
      BY <1>0
    <3> QED BY <2>2, <3>1, <3>2
  <2>4. ~IsAncestor(top, rmStack[N - 1])
    BY <2>2, <2>3, NullAssumption DEF Acyclic
  <2>5. \A k \in DOMAIN rmStack' : rmStack[k] \in Node /\ ~IsAncestor(top, rmStack[k])
    BY <1>0, <2>2, <2>3, <2>4, AncestorsTransitive DEF Chain
  <2>6. ASSUME NEW j \in DOMAIN rmStack', NEW k \in DOMAIN rmStack', j <= k
        PROVE  IsAncestor(rmStack[j], rmStack[k])'
    <3>1. /\ j \in DOMAIN rmStack /\ k \in DOMAIN rmStack
          /\ rmStack[j] \in Node /\ rmStack[k] \in Node /\ ~IsAncestor(top, rmStack[k])
      BY <2>2, <2>5
    <3>2. IsAncestor(rmStack[j], rmStack[k])
      BY <2>6, <3>1 DEF Chain
    <3>3. \A a, b \in Node : IsAncestor(a, b) /\ ~IsAncestor(top, b) => IsAncestor(a, b)'
      BY <1>0, <2>1, <2>2, DetachKeepsAncestors
    <3>4. \A S \in SUBSET Node : rmStack[k] \in S /\ UpClosed(S)' => rmStack[j] \in S
      BY <3>1, <3>2, <3>3 DEF IsAncestor
    <3> QED BY <2>2, <3>4 DEF IsAncestor
  <2> QED BY <2>2, <2>6 DEF Chain
<1> QED BY <1>1, <1>2, <1>3, <1>4, <1>5, RmStackSteps
LEMMA RemoveFirstIsRemoveAt ==
  ASSUME NEW S, NEW s \in Seq(S), NEW i \in 1 .. Len(s),
         \A j \in 1 .. Len(s) : s[j] = s[i] => j = i
  PROVE  RemoveFirst(s, s[i]) = RemoveAt(s, i)
<1> DEFINE I == {j \in 1 .. Len(s) : s[j] = s[i]}
<1>1. I = {i}
  OBVIOUS
<1>2. Min(I) = i
  BY <1>1 DEF Min
<1>3. SelectInSeq(s, LAMBDA v : v = s[i]) = i
  BY <1>1, <1>2 DEF SelectInSeq
<1> QED BY <1>3 DEF RemoveFirst

\* rm -r changes nothing outside the subtree of its target but the one list that holds
\* the target, in any tree and at every step of the recursion: each call is on a child
\* of the node of its caller, however much has been removed.
THEOREM RemovalStaysBelow == Spec => RemovalConfined
<1> DEFINE n == rmStack[1]
           shifted == {RemoveAt(children[parent[n]], i) : i \in {j \in DOMAIN children[parent[n]] :
                                                                  children[parent[n]][j] = n}}
           Confined == \A m \in Node :
             /\ parent'[m] # parent[m] => IsAncestor(n, m)
             /\ children'[m] # children[m] =>
                  IsAncestor(n, m) \/ (m = parent[n] /\ children'[m] \in shifted)
           top == Last(rmStack)
           N == Len(rmStack)
<1>1. ASSUME IInv, Chain, RemoveReturn, CanRemove(top)
      PROVE  Confined
  <2>1. /\ rmStack \in Seq(Node) /\ rmStack # <<>> /\ parent \in [Node -> Node \cup {NULL}]
        /\ children \in [Node -> Seq(Node)]
    BY <1>1 DEF RemoveReturn, IInv, TypeOK
  <2>2. 1 \in DOMAIN rmStack /\ N \in DOMAIN rmStack /\ 1 <= N /\ top = rmStack[N] /\ top \in Node
    BY <2>1 DEF Last
  <2>3. Detach(top) /\ IsLinked(top)
    BY <1>1 DEF RemoveReturn, FsRemove, CanRemove
  <2>4. IsAncestor(n, top)
    BY <1>1, <2>2 DEF Chain
  <2>5. \A m \in Node : parent'[m] # parent[m] => m = top
    BY <2>1, <2>2, <2>3 DEF Detach
  <2>6. \A m \in Node : children'[m] # children[m] =>
          m = parent[top] /\ children'[m] = RemoveFirst(children[m], top)
    BY <2>1, <2>2, <2>3 DEF Detach
  <2>7. CASE N = 1
    <3>1. top = n
      BY <2>2, <2>7
    <3> DEFINE list == children[parent[top]]
    <3>2. parent[top] \in Node /\ list \in Seq(Node)
      BY <2>1, <2>2, <2>3 DEF IsLinked
    <3>3. PICK i \in 1 .. Len(list) : list[i] = top
      BY <2>3, <3>2 DEF IsLinked
    <3>4. \A j \in 1 .. Len(list) : list[j] = list[i] => j = i
      BY <1>1, <3>2, <3>3, IInvParts, ListsOnce
    <3> HIDE DEF list
    <3>5. RemoveFirst(list, top) = RemoveAt(list, i)
      BY <3>2, <3>3, <3>4, RemoveFirstIsRemoveAt
    <3>6. RemoveFirst(list, top) \in {RemoveAt(list, j) : j \in {k \in DOMAIN list : list[k] = top}}
      BY <3>2, <3>3, <3>5
    <3>7. RemoveFirst(children[parent[top]], top) \in shifted
      BY <3>1, <3>6 DEF list
    <3> HIDE DEF n, top, N, shifted
    <3> QED BY <2>4, <2>5, <2>6, <3>1, <3>7
  <2>8. CASE N > 1
    <3>1. N - 1 \in DOMAIN rmStack /\ parent[top] = rmStack[N - 1]
      BY <1>1, <2>2, <2>8, CallsAreChildren
    <3>2. 1 <= N - 1
      BY <2>1, <2>8
    <3>3. IsAncestor(n, parent[top])
      BY <1>1, <2>2, <3>1, <3>2 DEF Chain
    <3> HIDE DEF n, top, N, shifted
    <3> QED BY <2>4, <2>5, <2>6, <3>3
  <2>9. N = 1 \/ N > 1
    <3>1. N \in Nat /\ 1 <= N
      BY <2>1, <2>2
    <3> HIDE DEF n, top, N, shifted, Confined
    <3> QED BY <3>1
  <2> HIDE DEF Confined
  <2> QED BY <2>7, <2>8, <2>9
<1>2. ASSUME IInv, Chain, [Next]_vars, rmStack # <<>>
      PROVE  Confined
  <2>1. CASE UNCHANGED tree
    BY <2>1 DEF tree
  <2>2. CASE RemoveReturn /\ CanRemove(top)
    BY <1>1, <1>2, <2>2
  <2>3. (RemoveReturn /\ CanRemove(top)) \/ UNCHANGED tree
    BY <1>2, OnlyRemovals DEF RemoveStep, RemoveDescend, RemoveReturn, FsRemove, vars
  <2> QED BY <2>1, <2>2, <2>3
<1>3. IInv /\ Chain /\ [Next]_vars => (rmStack # <<>> => Confined)
  BY <1>2
<1>4. Init => Chain
  BY DEF Init, Chain
<1>5. IInv /\ Acyclic /\ Chain /\ [Next]_vars => Chain'
  BY NextKeepsChain
<1> HIDE DEF Confined
<1>6. Spec => [](IInv /\ Acyclic /\ Chain)
  BY <1>4, <1>5, SpecIInv, NoCycles, PTL DEF Spec
<1>7. Spec => [][rmStack # <<>> => Confined]_vars
  BY <1>3, <1>6, PTL DEF Spec
<1> QED BY <1>7, PTL DEF RemovalConfined, Confined, n, shifted
-----------------------------------------------------------------------------
(***************************************************************************)
(* cp -r stays below its destination.                                      *)
(***************************************************************************)
\* The directories that the calls of a copy in progress copy into go down one path.
CopyChain == \A k \in DOMAIN copyStack : IsAncestor(copyStack[1].dst, copyStack[k].dst)

\* What is created points at its directory, and what was there keeps its ancestors; only
\* the list of that directory grows.
LEMMA FindOrCreateGrows ==
  ASSUME IInv, NEW kind, NEW d \in Nodes, IsDir(d), NEW nm, FindOrCreate(kind, d, nm)
  PROVE  /\ \A a \in Node, b \in Nodes : IsAncestor(a, b) => IsAncestor(a, b)'
         /\ \A m \in Nodes : children'[m] # children[m] => m = d
         /\ EntryOk(kind, d, nm) => Entry(d, nm) \in Node /\ parent'[Entry(d, nm)] = d
<1>0. /\ Nodes \in SUBSET Node /\ d \in Node /\ parent \in [Node -> Node \cup {NULL}] /\ used \in 0 .. MaxNodes
      /\ children \in [Node -> Seq(Node)] /\ TreeInv
  BY NodesInRange, IInvParts DEF IInv, TypeOK
<1>1. CASE UNCHANGED tree /\ ~(Lookup(d, nm) = NULL /\ CanAllocate)
  <2>1. \A a \in Node, b \in Nodes : IsAncestor(a, b) => IsAncestor(a, b)'
    BY <1>1 DEF tree, IsAncestor, UpClosed
  <2>2. EntryOk(kind, d, nm) => Entry(d, nm) \in Node /\ parent'[Entry(d, nm)] = d
    <3> SUFFICES ASSUME EntryOk(kind, d, nm) PROVE Entry(d, nm) \in Node /\ parent'[Entry(d, nm)] = d
      OBVIOUS
    <3>1. Lookup(d, nm) # NULL
      BY <1>1 DEF EntryOk
    <3> QED BY <1>0, <1>1, <3>1, LookupFinds DEF Entry, tree
  <2> QED BY <1>1, <2>1, <2>2 DEF tree
<1>2. CASE Lookup(d, nm) = NULL /\ CanAllocate /\ CreateNode(kind, d, nm)
  <2> DEFINE n == used + 1
  <2>1. n \in Node /\ n \notin Nodes /\ n > used
    BY <1>0, <1>2 DEF CanAllocate, Node, Nodes
  <2>2. parent' = [parent EXCEPT ![n] = d]
        /\ (children' = children \/ children' = [children EXCEPT ![d] = Append(@, n)])
    BY <1>2 DEF CreateNode
  <2>3. \A m \in Node : parent[m] # n
    BY <2>1 DEF IInv, FreshBlank, FreshUnlinked, Unlinked
  <2>4. ASSUME NEW a \in Node, NEW b \in Nodes, IsAncestor(a, b)
        PROVE  IsAncestor(a, b)'
    <3> SUFFICES ASSUME NEW S \in SUBSET Node, b \in S, UpClosed(S)' PROVE a \in S
      BY DEF IsAncestor
    <3> DEFINE T == S \ {n}
    <3>1. UpClosed(T)
      <4> HIDE DEF n
      <4>1. ASSUME NEW m \in T, parent[m] # NULL PROVE parent[m] \in T
        BY <1>0, <2>2, <2>3, <4>1 DEF UpClosed
      <4> QED BY <4>1 DEF UpClosed
    <3>2. b \in T /\ T \in SUBSET Node
      BY <2>1
    <3> HIDE DEF T, n
    <3>3. a \in T
      BY <2>4, <3>1, <3>2 DEF IsAncestor
    <3> QED BY <3>3 DEF T
  <2>5. Entry(d, nm) = n
    BY <1>2 DEF Entry
  <2> HIDE DEF n
  <2> QED BY <1>0, <2>1, <2>2, <2>4, <2>5
<1>3. UNCHANGED tree \/ (CanAllocate /\ CreateNode(kind, d, nm))
  BY DEF FindOrCreate, CreateNode
<1> QED BY <1>1, <1>2, <1>3 DEF FindOrCreate, CreateNode

\* The stack after `callers` has called for directory s, to be copied into e.
Called(callers, s, e) == Append(callers, [src |-> s, dst |-> e, next |-> 0])

LEMMA CopyNodeGrows ==
  ASSUME IInv, NEW s, NEW d \in Nodes, IsDir(d), NEW nm, NEW callers, CopyNode(s, d, nm, callers)
  PROVE  /\ \A a \in Node, b \in Nodes : IsAncestor(a, b) => IsAncestor(a, b)'
         /\ \A m \in Nodes : children'[m] # children[m] => m = d
         /\ \A m \in Nodes : content'[m] # content[m] => parent[m] = d
         /\ \/ copyStack' \in {<<>>, callers}
            \/ \E e \in Node : parent'[e] = d /\ copyStack' = Called(callers, s, e)
<1>0. /\ Nodes \in SUBSET Node /\ d \in Node /\ parent \in [Node -> Node \cup {NULL}] /\ used \in 0 .. MaxNodes
      /\ DOMAIN content = Node /\ TreeInv
  BY NodesInRange, IInvParts DEF IInv, TypeOK
<1>1. \E kind : FindOrCreate(kind, d, nm)
  BY DEF CopyNode, PutFile
<1>2. /\ \A a \in Node, b \in Nodes : IsAncestor(a, b) => IsAncestor(a, b)'
      /\ \A m \in Nodes : children'[m] # children[m] => m = d
  BY <1>1, FindOrCreateGrows
<1>3. ASSUME NEW m \in Nodes, content'[m] # content[m]
      PROVE  parent[m] = d
  <2>1. content' = [content EXCEPT ![Entry(d, nm)] = content[s]]
    BY <1>3 DEF CopyNode, PutFile, data
  <2>2. m = Entry(d, nm)
    BY <1>0, <1>3, <2>1
  <2>3. Lookup(d, nm) # NULL /\ m = Lookup(d, nm)
    BY <1>0, <2>2 DEF Entry, Nodes
  <2> QED BY <1>0, <2>3, LookupFinds
<1>4. CASE IsFile(s)
  BY <1>2, <1>3, <1>4 DEF CopyNode
<1>5. CASE ~IsFile(s) /\ ~CopyOk(s, d, nm)
  BY <1>2, <1>3, <1>5 DEF CopyNode
<1>6. CASE ~IsFile(s) /\ CopyOk(s, d, nm)
  <2>1. Entry(d, nm) \in Node /\ parent'[Entry(d, nm)] = d
    BY <1>6, FindOrCreateGrows DEF CopyNode, CopyOk
  <2>2. copyStack' = Append(callers, [src |-> s, dst |-> Entry(d, nm), next |-> 0])
    BY <1>6 DEF CopyNode
  <2>3. copyStack' = Called(callers, s, Entry(d, nm))
    BY <2>2 DEF Called
  <2> QED BY <1>2, <1>3, <2>1, <2>3
<1> QED BY <1>4, <1>5, <1>6


\* While a copy is in progress nothing else is.
LEMMA OnlyCopies ==
  ASSUME IInv, [Next]_vars, copyStack # <<>>
  PROVE  CopyChild \/ CopyReturn \/ UNCHANGED vars
<1>1. rmStack = <<>>
  BY DEF IInv, CallsOnTree
<1>2. ~Idle
  BY DEF Idle
<1> QED BY <1>1, <1>2 DEF Next, Command, CopyStep, RemoveStep, RemoveDescend, RemoveReturn, Refuse, Cd, Rmdir,
                          Rm, RmRecursive, Touch, Mkdir, Redirect, Cp, Mv

\* A copy starts with one call, and each further call is made by the innermost.
LEMMA CopyStackSteps ==
  ASSUME IInv, [Next]_vars
  PROVE  \/ Len(copyStack') <= 1
         \/ copyStack' = copyStack /\ UNCHANGED parent
         \/ CopyChild
         \/ CopyReturn
<1>0. Len(copyStack) \in Nat
  BY DEF IInv, TypeOK
<1>1. CASE copyStack # <<>>
  BY <1>1, OnlyCopies DEF vars, tree, stacks
<1>2. CASE copyStack = <<>>
  <2>1. CASE Command
    <3>1. ASSUME NEW s \in Handles, NEW d \in Nodes, NEW nm \in Leaf(s), NEW r \in BOOLEAN, Cp(s, d, nm, r)
          PROVE  copyStack' = <<>> \/ \E f : copyStack' = <<f>>
      <4>1. copyStack' = copyStack \/ CopyNode(s, d, nm, <<>>)
        BY <3>1 DEF Cp
      <4>2. \A f : Append(<<>>, f) = <<f>>
        OBVIOUS
      <4> QED BY <1>2, <4>1, <4>2 DEF CopyNode
    <3>2. copyStack' = <<>> \/ \E f : copyStack' = <<f>>
      BY <1>2, <2>1, <3>1 DEF Command, Refuse, Cd, Rmdir, Rm, Touch, Mkdir, Redirect, RmRecursive, Mv, stacks
    <3> QED BY <3>2
  <2>2. CASE RemoveStep
    BY <1>2, <2>2 DEF RemoveStep, RemoveDescend, RemoveReturn
  <2>3. CASE CopyStep
    BY <1>2, <2>3 DEF CopyStep, CopyChild, CopyReturn
  <2>4. CASE UNCHANGED vars
    BY <1>2, <2>4 DEF vars, stacks
  <2> QED BY <2>1, <2>2, <2>3, <2>4 DEF Next
<1> QED BY <1>1, <1>2

\* What one iteration of the innermost call changes.
LEMMA CopyChildGrows ==
  ASSUME IInv, CopyChild
  PROVE  LET N == Len(copyStack)
             d == copyStack[N].dst
         IN /\ N \in 1 .. N /\ d \in Nodes /\ copyStack \in Seq(Frame)
            /\ \A a \in Node, b \in Nodes : IsAncestor(a, b) => IsAncestor(a, b)'
            /\ \A m \in Nodes : children'[m] # children[m] => m = d
            /\ \A m \in Nodes : content'[m] # content[m] => parent[m] = d
            /\ \/ copyStack' = <<>>
               \/ /\ Len(copyStack') = N
                  /\ \A k \in 1 .. N : copyStack'[k].dst = copyStack[k].dst
               \/ /\ Len(copyStack') = N + 1
                  /\ \A k \in 1 .. N : copyStack'[k].dst = copyStack[k].dst
                  /\ copyStack'[N + 1].dst \in Node /\ parent'[copyStack'[N + 1].dst] = d
<1> DEFINE N == Len(copyStack)
<1>1. copyStack \in Seq(Frame) /\ N \in 1 .. N
  BY DEF IInv, TypeOK, CopyChild
<1>2. PICK f \in Frame : f = copyStack[N] /\ f = Last(copyStack) /\ CopyCallOk(f) /\ f.next \in Nat
  <2>1. copyStack[N] \in Frame /\ N \in DOMAIN copyStack
    BY <1>1
  <2>2. CopyCallOk(copyStack[N]) /\ copyStack[N] = Last(copyStack)
    BY <2>1 DEF IInv, CallsOnTree, Last
  <2> QED BY <2>1, <2>2 DEF Frame
<1>3. PICK d \in Nodes : d = f.dst /\ IsDir(d)
  BY <1>2 DEF CopyCallOk
<1>4. PICK c, nm, callers :
        c = children[f.src][f.next + 1] /\ nm = name[c] /\ callers = [copyStack EXCEPT ![N].next = @ + 1]
  OBVIOUS
<1>5. PICK g : g = [f EXCEPT !.next = @ + 1]
  OBVIOUS
<1>6. g \in Frame /\ g.dst = f.dst
  BY <1>2, <1>5 DEF Frame
<1>7. callers = [copyStack EXCEPT ![N] = g]
  BY <1>1, <1>2, <1>4, <1>5
<1>8. callers \in Seq(Frame) /\ Len(callers) = N /\ \A k \in 1 .. N : callers[k].dst = copyStack[k].dst
  <2>1. copyStack \in Seq(Frame) /\ N \in Nat \ {0} /\ N = Len(copyStack)
    BY <1>1
  <2> HIDE DEF N
  <2>2. /\ callers \in Seq(Frame) /\ Len(callers) = N
        /\ \A k \in 1 .. N : callers[k] = IF k = N THEN g ELSE copyStack[k]
    BY <1>6, <1>7, <2>1
  <2> QED BY <1>2, <1>6, <2>2
<1>9. CopyNode(c, d, nm, callers)
  BY <1>2, <1>3, <1>4 DEF CopyChild
<1>10. /\ \A a \in Node, b \in Nodes : IsAncestor(a, b) => IsAncestor(a, b)'
       /\ \A m \in Nodes : children'[m] # children[m] => m = d
       /\ \A m \in Nodes : content'[m] # content[m] => parent[m] = d
       /\ \/ copyStack' \in {<<>>, callers}
          \/ \E e \in Node : parent'[e] = d /\ copyStack' = Called(callers, c, e)
  <2> HIDE DEF N
  <2>0. IInv /\ d \in Nodes /\ IsDir(d) /\ CopyNode(c, d, nm, callers)
    BY <1>3, <1>9
  <2>1. \A a \in Node, b \in Nodes : IsAncestor(a, b) => IsAncestor(a, b)'
    BY <2>0, CopyNodeGrows
  <2>2. \A m \in Nodes : children'[m] # children[m] => m = d
    BY <2>0, CopyNodeGrows
  <2>3. \A m \in Nodes : content'[m] # content[m] => parent[m] = d
    BY <2>0, CopyNodeGrows
  <2>4. \/ copyStack' \in {<<>>, callers}
        \/ \E e \in Node : parent'[e] = d /\ copyStack' = Called(callers, c, e)
    BY <2>0, CopyNodeGrows
  <2> QED BY <2>1, <2>2, <2>3, <2>4
<1>11. ASSUME NEW e \in Node, parent'[e] = d, copyStack' = Called(callers, c, e)
       PROVE  /\ Len(copyStack') = N + 1
              /\ \A k \in 1 .. N : copyStack'[k].dst = copyStack[k].dst
              /\ copyStack'[N + 1].dst \in Node /\ parent'[copyStack'[N + 1].dst] = d
  <2>1. PICK h : h = [src |-> c, dst |-> e, next |-> 0]
    OBVIOUS
  <2>2. Len(callers) \in Nat /\ N \in Nat
    BY <1>1
  <2>3. /\ Len(Append(callers, h)) = N + 1 /\ Append(callers, h)[N + 1] = h
        /\ \A k \in 1 .. N : Append(callers, h)[k] = callers[k]
    BY <1>8, <2>2
  <2>4. copyStack' = Append(callers, h) /\ h.dst = e
    BY <1>11, <2>1 DEF Called
  <2> QED BY <1>8, <1>11, <2>3, <2>4
<1>12. copyStack[N].dst = d
  BY <1>2, <1>3
<1>13. \/ copyStack' = <<>>
       \/ /\ Len(copyStack') = N
          /\ \A k \in 1 .. N : copyStack'[k].dst = copyStack[k].dst
       \/ /\ Len(copyStack') = N + 1
          /\ \A k \in 1 .. N : copyStack'[k].dst = copyStack[k].dst
          /\ copyStack'[N + 1].dst \in Node /\ parent'[copyStack'[N + 1].dst] = d
  BY <1>8, <1>10, <1>11
<1> QED BY <1>1, <1>10, <1>12, <1>13

\* The same of two nodes in the next state, when they are named by this one.
AncestorAfter(a, b) == \A S \in SUBSET Node : b \in S /\ UpClosed(S)' => a \in S

LEMMA CopyChainAfter ==
  ASSUME \A k \in DOMAIN copyStack' : AncestorAfter(copyStack'[1].dst, copyStack'[k].dst)
  PROVE  CopyChain'
BY DEF CopyChain, IsAncestor, AncestorAfter, UpClosed

LEMMA NextKeepsCopyChain ==
  ASSUME IInv, CopyChain, [Next]_vars
  PROVE  CopyChain'
<1>0. copyStack \in Seq(Frame) /\ copyStack' \in Seq(Frame) /\ Nodes \subseteq Node
      /\ DOMAIN copyStack = 1 .. Len(copyStack) /\ DOMAIN copyStack' = 1 .. Len(copyStack')
  BY NextKeepsIInv, NodesInRange DEF IInv, TypeOK
<1>1. CASE Len(copyStack') <= 1
  <2>1. \A k \in DOMAIN copyStack' : k = 1
    BY <1>0, <1>1
  <2> QED BY <2>1 DEF CopyChain, IsAncestor
<1>2. CASE copyStack' = copyStack /\ UNCHANGED parent
  BY <1>2 DEF CopyChain, IsAncestor, UpClosed
<1>3. CASE CopyReturn
  <2>1. copyStack' = Front(copyStack) /\ copyStack # <<>> /\ UNCHANGED parent
    BY <1>3 DEF CopyReturn, tree
  <2>2. \A k \in DOMAIN copyStack' : k \in DOMAIN copyStack /\ copyStack'[k] = copyStack[k]
    BY <1>0, <2>1, FrontKeeps
  <2>3. \A k \in DOMAIN copyStack' : 1 \in DOMAIN copyStack'
    BY <1>0
  <2> QED BY <2>1, <2>2, <2>3 DEF CopyChain, IsAncestor, UpClosed
<1>4. CASE CopyChild
  <2> DEFINE N == Len(copyStack)
             d == copyStack[N].dst
             top == copyStack[1].dst
  <2>1. /\ N \in 1 .. N /\ d \in Nodes /\ \A k \in 1 .. N : copyStack[k].dst \in Nodes
        /\ \A a \in Node, b \in Nodes : IsAncestor(a, b) => IsAncestor(a, b)'
    BY <1>0, <1>4, CopyChildGrows DEF IInv, CallsOnTree, CopyCallOk
  <2>2. \A a, b \in Node : b \in Nodes /\ IsAncestor(a, b) => AncestorAfter(a, b)
    BY <2>1 DEF IsAncestor, AncestorAfter
  <2>3. \A k \in 1 .. N : copyStack[k].dst \in Node /\ AncestorAfter(top, copyStack[k].dst)
    BY <1>0, <2>1, <2>2 DEF CopyChain
  <2>4. CASE copyStack' = <<>>
    BY <2>4 DEF CopyChain
  <2>5. CASE Len(copyStack') = N /\ \A k \in 1 .. N : copyStack'[k].dst = copyStack[k].dst
    <3>1. \A k \in DOMAIN copyStack' : AncestorAfter(copyStack'[1].dst, copyStack'[k].dst)
      BY <1>0, <2>1, <2>3, <2>5
    <3> QED BY <3>1, CopyChainAfter
  <2>6. CASE /\ Len(copyStack') = N + 1
             /\ \A k \in 1 .. N : copyStack'[k].dst = copyStack[k].dst
             /\ copyStack'[N + 1].dst \in Node /\ parent'[copyStack'[N + 1].dst] = d
    <3> DEFINE e == copyStack'[N + 1].dst
    <3>1. AncestorAfter(d, e)
      BY <1>0, <2>1, <2>6, NullAssumption DEF AncestorAfter, UpClosed
    <3>2. AncestorAfter(top, e)
      BY <2>1, <2>3, <3>1 DEF AncestorAfter
    <3> HIDE DEF e, top, d
    <3>3. \A k \in DOMAIN copyStack' : AncestorAfter(copyStack'[1].dst, copyStack'[k].dst)
      <4>1. copyStack'[1].dst = top
        BY <2>1, <2>6 DEF top
      <4>2. ASSUME NEW k \in 1 .. N + 1 PROVE AncestorAfter(top, copyStack'[k].dst)
        <5>1. CASE k \in 1 .. N
          BY <2>3, <2>6, <5>1
        <5>2. CASE k = N + 1
          BY <3>2, <5>2 DEF e
        <5> QED BY <1>0, <2>1, <5>1, <5>2
      <4> QED BY <1>0, <2>6, <4>1, <4>2
    <3> QED BY <3>3, CopyChainAfter
  <2> QED BY <1>4, <2>4, <2>5, <2>6, CopyChildGrows
<1> QED BY <1>1, <1>2, <1>3, <1>4, CopyStackSteps

\* A copy in progress changes no list and no content outside the directory it was
\* started on, in any tree: each call copies into a child of the directory of its caller,
\* also when what is copied lies below the copy.
THEOREM CopyStaysBelow == Spec => CopyConfined
<1> DEFINE Confined == \A m \in Nodes : children'[m] # children[m] \/ content'[m] # content[m] =>
                         IsAncestor(copyStack[1].dst, m)
<1>1. ASSUME IInv, CopyChain, [Next]_vars, copyStack # <<>>
      PROVE  Confined
  <2>1. CASE UNCHANGED <<tree, data>>
    BY <2>1 DEF tree, data
  <2>2. CASE CopyChild
    <3>1. copyStack \in Seq(Frame) /\ Nodes \subseteq Node /\ parent \in [Node -> Node \cup {NULL}]
      BY <1>1, NodesInRange DEF IInv, TypeOK
    <3>2. PICK d \in Nodes : /\ d = copyStack[Len(copyStack)].dst /\ Len(copyStack) \in 1 .. Len(copyStack)
                             /\ \A m \in Nodes : children'[m] # children[m] => m = d
                             /\ \A m \in Nodes : content'[m] # content[m] => parent[m] = d
      BY <1>1, <2>2, CopyChildGrows
    <3>3. PICK top : top = copyStack[1].dst
      OBVIOUS
    <3>4. IsAncestor(top, d)
      BY <1>1, <3>1, <3>2, <3>3 DEF CopyChain
    <3>5. \A m \in Nodes : parent[m] = d => IsAncestor(top, m)
      BY <3>1, <3>2, <3>4, NullAssumption DEF IsAncestor, UpClosed
    <3> QED BY <3>2, <3>3, <3>4, <3>5
  <2>3. CopyChild \/ UNCHANGED <<tree, data>>
    BY <1>1, OnlyCopies DEF CopyReturn, vars
  <2> QED BY <2>1, <2>2, <2>3
<1>2. IInv /\ CopyChain /\ [Next]_vars => (copyStack # <<>> => Confined)
  BY <1>1
<1>3. Init => CopyChain
  BY DEF Init, CopyChain
<1>4. IInv /\ CopyChain /\ [Next]_vars => CopyChain'
  BY NextKeepsCopyChain
<1> HIDE DEF Confined
<1>5. Spec => [](IInv /\ CopyChain)
  BY <1>3, <1>4, SpecIInv, PTL DEF Spec
<1>6. Spec => [][copyStack # <<>> => Confined]_vars
  BY <1>2, <1>5, PTL DEF Spec
<1> QED BY <1>6, PTL DEF CopyConfined, Confined
-----------------------------------------------------------------------------
(***************************************************************************)
(* rm -r that returns has done all of its work.                            *)
(***************************************************************************)
\* Lost slots are out of the way: they are neither the working directory nor the parent
\* of anything, and no call in progress creates below them or set out to remove them.
LostApart ==
  /\ Kept(cwd)
  /\ \A m \in Node : parent[m] # NULL => Kept(parent[m])
  /\ \A k \in DOMAIN copyStack : Kept(copyStack[k].dst)
  /\ \A k \in DOMAIN rmStack : Kept(rmStack[k])

\* No path leads to a lost slot.
LEMMA HandlesAreKept ==
  ASSUME IInv, LostApart
  PROVE  \A n \in Handles : Kept(n)
<1> DEFINE S == {n \in Node : Kept(n)}
<1>0. /\ Nodes \subseteq Node /\ Root \in Nodes /\ parent \in [Node -> Node \cup {NULL}]
      /\ children \in [Node -> Seq(Node)]
  BY NodesInRange DEF IInv, TypeOK
<1>1. Root \in S
  BY <1>0 DEF Kept, IInv, TreeLinks
<1>2. cwd \in S
  BY <1>0 DEF LostApart, Kept
<1>3. UpClosed(S)
  BY <1>0 DEF UpClosed, LostApart
<1>4. DownClosed(S)
  <2> SUFFICES ASSUME NEW m \in S, NEW i \in DOMAIN children[m] PROVE children[m][i] \in S
    BY DEF DownClosed
  <2>1. m \in Node /\ children[m] \in Seq(Node) /\ children[m][i] \in Node
    BY <1>0
  <2>2. parent[children[m][i]] = m
    BY <2>1 DEF IInv, TreeLinks
  <2>3. IsLinked(children[m][i])
    BY <2>1, <2>2, NullAssumption DEF IsLinked
  <2>4. ~Unlinked(children[m][i])
    BY <2>1, <2>2, NullAssumption DEF Unlinked
  <2>5. children[m][i] \in Nodes
    BY <2>1, <2>4 DEF IInv, TypeOK, FreshBlank, FreshUnlinked, Nodes, Node
  <2> QED BY <2>1, <2>3, <2>5 DEF Kept
<1> HIDE DEF S
<1>5. S \in SUBSET Node
  BY DEF S
<1>6. \A n \in Handles : n \in S
  BY <1>1, <1>2, <1>3, <1>4, <1>5 DEF Handles
<1> QED BY <1>6 DEF S

\* A step that loses no node but new ones, and hangs nothing below a lost one.
LosesNone ==
  /\ \A n \in Node : Kept(n) => Kept(n)'
  /\ \A m \in Node : parent'[m] # NULL => parent'[m] = parent[m] \/ \E d \in Node : parent'[m] = d /\ Kept(d)

LEMMA SameTreeLosesNone ==
  ASSUME UNCHANGED tree
  PROVE  LosesNone
BY DEF tree, LosesNone, Kept, IsLinked, Nodes

LEMMA FindOrCreateLosesNone ==
  ASSUME IInv, NEW kind, NEW d \in Nodes, Kept(d), IsDir(d), NEW nm, FindOrCreate(kind, d, nm)
  PROVE  /\ LosesNone
         /\ EntryOk(kind, d, nm) => \A e \in Node : e = Entry(d, nm) => Kept(e)'
<1>0. /\ Nodes \in SUBSET Node /\ d \in Node /\ parent \in [Node -> Node \cup {NULL}] /\ used \in 0 .. MaxNodes
      /\ children \in [Node -> Seq(Node)] /\ TreeInv
  BY NodesInRange, IInvParts DEF IInv, TypeOK
<1>1. CASE UNCHANGED tree /\ ~(Lookup(d, nm) = NULL /\ CanAllocate)
  <2>1. ASSUME EntryOk(kind, d, nm) PROVE Kept(Entry(d, nm))
    <3>1. Lookup(d, nm) # NULL
      BY <1>1, <2>1 DEF EntryOk
    <3>2. PICK e : e = Lookup(d, nm) /\ e = Entry(d, nm)
      BY <3>1 DEF Entry
    <3>5. HasEntry(d, nm)
      BY <1>0, <3>1, LookupFinds
    <3>6. /\ Lookup(d, nm) \in Nodes /\ parent[Lookup(d, nm)] = d
          /\ \E i \in 1 .. Len(children[d]) : children[d][i] = Lookup(d, nm)
      BY <1>0, <3>5, LookupFinds
    <3>3. e \in Nodes /\ parent[e] = d /\ \E i \in 1 .. Len(children[d]) : children[d][i] = e
      BY <3>2, <3>6
    <3>4. IsLinked(e)
      BY <1>0, <3>3, NullAssumption DEF IsLinked
    <3> QED BY <3>2, <3>3, <3>4 DEF Kept
  <2>2. LosesNone
    BY <1>1, SameTreeLosesNone
  <2>3. \A e \in Node : Kept(e) => Kept(e)'
    BY <2>2 DEF LosesNone
  <2> QED BY <2>1, <2>2, <2>3
<1>2. CASE Lookup(d, nm) = NULL /\ CanAllocate /\ CreateNode(kind, d, nm)
  <2>0. PICK n : n = used + 1
    OBVIOUS
  <2>1. n \in Node /\ n \notin Nodes /\ n > used /\ Nodes' = Nodes \cup {n}
    BY <1>0, <1>2, <2>0 DEF CanAllocate, Node, Nodes, CreateNode
  <2>2. /\ parent' = [parent EXCEPT ![n] = d]
        /\ children' = IF HasRoom(d) THEN [children EXCEPT ![d] = Append(@, n)] ELSE children
        /\ Entry(d, nm) = n
    BY <1>2, <2>0 DEF CreateNode, Entry
  <2>3. \A m \in Node : \A i \in DOMAIN children[m] : i \in DOMAIN children'[m] /\ children'[m][i] = children[m][i]
    BY <1>0, <2>1, <2>2
  <2>4. ASSUME NEW m \in Node, Kept(m) PROVE Kept(m)'
    <3>1. m # n /\ parent'[m] = parent[m] /\ m \in Nodes'
      BY <1>0, <2>1, <2>2, <2>4 DEF Kept
    <3>2. CASE parent[m] # NULL
      <4>1. PICK p \in Node : p = parent[m] /\ \E i \in DOMAIN children[p] : children[p][i] = m
        BY <1>0, <2>4, <3>2 DEF Kept, IsLinked
      <4>2. \E i \in DOMAIN children'[p] : children'[p][i] = m
        BY <2>3, <4>1
      <4> QED BY <3>1, <4>1, <4>2, NullAssumption DEF Kept, IsLinked
    <3>3. CASE parent[m] = NULL
      BY <3>1, <3>3 DEF Kept
    <3> QED BY <3>2, <3>3
  <2>5. ASSUME NEW m \in Node, parent'[m] # NULL
        PROVE  parent'[m] = parent[m] \/ \E p \in Node : parent'[m] = p /\ Kept(p)
    BY <1>0, <2>2
  <2>6. ASSUME HasRoom(d) PROVE Kept(n)'
    <3>1. children' = [children EXCEPT ![d] = Append(@, n)]
      BY <2>2, <2>6
    <3>2. Len(children[d]) + 1 \in DOMAIN children'[d] /\ children'[d][Len(children[d]) + 1] = n
      BY <1>0, <2>1, <3>1
    <3>3. parent'[n] = d
      BY <1>0, <2>1, <2>2
    <3> QED BY <1>0, <2>1, <3>2, <3>3, NullAssumption DEF Kept, IsLinked
  <2>7. EntryOk(kind, d, nm) => HasRoom(d)
    BY <1>2 DEF EntryOk
  <2> QED BY <2>2, <2>4, <2>5, <2>6, <2>7 DEF LosesNone
<1>3. UNCHANGED tree \/ (CanAllocate /\ CreateNode(kind, d, nm))
  BY DEF FindOrCreate, CreateNode
<1> QED BY <1>1, <1>2, <1>3 DEF FindOrCreate, CreateNode

\* A step that unlinks some nodes from their parents and leaves the others listed, and
\* perhaps lists one elsewhere.
LEMMA RewiringLosesNone ==
  ASSUME IInv, UNCHANGED used, NEW X, NEW t \in Node, Kept(t),
         \A m \in Node : \A i \in DOMAIN children[m] :
           children[m][i] \in X \/ \E k \in DOMAIN children'[m] : children'[m][k] = children[m][i],
         \A m \in Node : m \notin X => parent'[m] = parent[m],
         \A m \in Node : m \in X => parent'[m] = NULL \/ (parent'[m] = t /\ \E k \in DOMAIN children'[t] : children'[t][k] = m)
  PROVE  LosesNone
<1>0. /\ Nodes \in SUBSET Node /\ parent \in [Node -> Node \cup {NULL}] /\ Nodes' = Nodes
  BY NodesInRange DEF IInv, TypeOK, Nodes
<1>1. ASSUME NEW m \in Node, Kept(m) PROVE Kept(m)'
  <2>1. m \in Nodes'
    BY <1>0, <1>1 DEF Kept
  <2>2. CASE m \in X
    BY <2>1, <2>2 DEF Kept, IsLinked
  <2>3. CASE m \notin X /\ parent[m] # NULL
    <3>1. PICK p \in Node : p = parent[m] /\ \E i \in DOMAIN children[p] : children[p][i] = m
      BY <1>0, <1>1, <2>3 DEF Kept, IsLinked
    <3>2. \E k \in DOMAIN children'[p] : children'[p][k] = m
      BY <2>3, <3>1
    <3> QED BY <2>1, <2>3, <3>1, <3>2 DEF Kept, IsLinked
  <2>4. CASE m \notin X /\ parent[m] = NULL
    BY <2>1, <2>4 DEF Kept
  <2> QED BY <2>2, <2>3, <2>4
<1>2. ASSUME NEW m \in Node, parent'[m] # NULL
      PROVE  parent'[m] = parent[m] \/ \E p \in Node : parent'[m] = p /\ Kept(p)
  BY <1>2
<1> QED BY <1>1, <1>2 DEF LosesNone

LEMMA FsRemoveLosesNone ==
  ASSUME IInv, LostApart, NEW n \in Nodes, FsRemove(n)
  PROVE  LosesNone
<1>0. /\ Nodes \in SUBSET Node /\ n \in Node /\ parent \in [Node -> Node \cup {NULL}] /\ TreeInv
      /\ children \in [Node -> Seq(Node)] /\ cwd \in Node /\ Kept(cwd)
  BY NodesInRange, IInvParts DEF IInv, TypeOK, LostApart
<1>1. CASE UNCHANGED tree
  BY <1>1, SameTreeLosesNone
<1>2. CASE Detach(n) /\ IsLinked(n)
  <2>1. PICK p \in Node : p = parent[n] /\ children' = [children EXCEPT ![p] = RemoveFirst(@, n)]
    BY <1>0, <1>2 DEF IsLinked, Detach
  <2>2. \A m \in Node : parent'[m] = IF m = n THEN NULL ELSE parent[m]
    BY <1>0, <1>2 DEF Detach
  <2>3. ASSUME NEW m \in Node, NEW i \in DOMAIN children[m]
        PROVE  children[m][i] = n \/ \E k \in DOMAIN children'[m] : children'[m][k] = children[m][i]
    <3>1. CASE m # p
      BY <1>0, <2>1, <3>1
    <3>2. CASE m = p
      <4>1. children[p] \in Seq(Node) /\ children'[p] = RemoveFirst(children[p], n)
        BY <1>0, <2>1
      <4>2. \A j, l \in 1 .. Len(children[p]) : children[p][j] = children[p][l] => j = l
        BY <1>0, ListsOnce
      <4>3. RemoveFirst(children[p], n) \in Seq(Node)
        BY <4>1, <4>2, RemoveFirstKeeps
      <4>4. children[p][i] # n => \E k \in 1 .. Len(children'[p]) : children'[p][k] = children[p][i]
        BY <3>2, <4>1, <4>2, RemoveFirstRest
      <4>5. DOMAIN children'[p] = 1 .. Len(children'[p])
        BY <4>1, <4>3
      <4> QED BY <3>2, <4>4, <4>5
    <3> QED BY <3>1, <3>2
  <2>4. used' = used
    BY <1>2 DEF Detach
  <2> DEFINE X == {n}
  <2>5. \A m \in Node : \A i \in DOMAIN children[m] :
          children[m][i] \in X \/ \E k \in DOMAIN children'[m] : children'[m][k] = children[m][i]
    BY <2>3
  <2>6. /\ \A m \in Node : m \notin X => parent'[m] = parent[m]
        /\ \A m \in Node : m \in X => parent'[m] = NULL
    BY <2>2
  <2> HIDE DEF X
  <2>7. PICK t \in Node : Kept(t)
    BY <1>0
  <2> QED BY <2>4, <2>5, <2>6, <2>7, RewiringLosesNone
<1> QED BY <1>1, <1>2 DEF FsRemove, CanRemove

LEMMA MvLosesNone ==
  ASSUME IInv, NEW n \in Nodes, NEW t \in Nodes, Kept(t), IsDir(t), NEW nm \in FileName, Mv(n, t, nm)
  PROVE  LosesNone
<1>0. /\ Nodes \in SUBSET Node /\ parent \in [Node -> Node \cup {NULL}] /\ TreeInv
  BY NodesInRange, IInvParts DEF IInv, TypeOK
<1>1. CASE MvRefused(n, t, nm)
  BY <1>1, SameTreeLosesNone DEF Mv
<1>2. CASE ~MvRefused(n, t, nm)
  <2>1. MvNode(n, t, nm) /\ used' = used
    BY <1>2 DEF Mv, MvNode
  <2> DEFINE X == {n} \cup ({Lookup(t, nm)} \ {NULL})
  <2>2. \A m \in Node : \A i \in DOMAIN children[m] :
          children[m][i] \in X \/ \E k \in DOMAIN children'[m] : children'[m][k] = children[m][i]
    <3>1. \A m \in Node : \A i \in DOMAIN children[m] : children[m][i] # NULL
      BY <1>0, NullAssumption DEF TreeInv, TreeType
    <3> QED BY <1>0, <1>2, <2>1, <3>1, MvNodeLists
  <2>3. \A m \in Node : m \notin X => parent'[m] = parent[m]
    BY <1>0, <2>1 DEF MvNode
  <2>4. ret' = "ok" \/ ret' = "error"
    BY <2>1 DEF MvNode, Report
  <2>5. parent'[n] = IF ret' = "ok" THEN t ELSE NULL
    BY <1>0, <2>1 DEF MvNode, Report
  <2>6. \A m \in Node : m \in X /\ m # n => parent'[m] = NULL
    BY <1>0, <2>1 DEF MvNode
  <2>7. ret' = "ok" => \E k \in DOMAIN children'[t] : children'[t][k] = n
    BY <1>0, <1>2, <2>1, MvNodeLists
  <2> HIDE DEF X
  <2>8. \A m \in Node : m \in X =>
          parent'[m] = NULL \/ (parent'[m] = t /\ \E k \in DOMAIN children'[t] : children'[t][k] = m)
    BY <2>4, <2>5, <2>6, <2>7
  <2> QED BY <1>0, <2>1, <2>2, <2>3, <2>8, RewiringLosesNone
<1> QED BY <1>1, <1>2

\* The call of fs_copy_recursive goes on in a directory that its parent lists.
LEMMA CopyNodeLosesNone ==
  ASSUME IInv, NEW s, NEW d \in Nodes, Kept(d), IsDir(d), NEW nm, NEW callers, CopyNode(s, d, nm, callers)
  PROVE  /\ LosesNone
         /\ \/ copyStack' \in {<<>>, callers}
            \/ \E e \in Node : Kept(e)' /\ copyStack' = Called(callers, s, e)
<1>1. CASE IsFile(s)
  <2>1. FindOrCreate("file", d, nm) /\ copyStack' \in {<<>>, callers}
    BY <1>1 DEF CopyNode, PutFile
  <2> QED BY <2>1, FindOrCreateLosesNone
<1>2. CASE ~IsFile(s) /\ ~CopyOk(s, d, nm)
  <2>1. FindOrCreate("dir", d, nm) /\ copyStack' = <<>>
    BY <1>2 DEF CopyNode
  <2> QED BY <2>1, FindOrCreateLosesNone
<1>3. CASE ~IsFile(s) /\ CopyOk(s, d, nm)
  <2>1. FindOrCreate("dir", d, nm) /\ EntryOk("dir", d, nm)
    BY <1>3 DEF CopyNode, CopyOk
  <2>2. Entry(d, nm) \in Node
    BY <1>3, FindOrCreateGrows, <2>1
  <2>3. PICK e \in Node : e = Entry(d, nm) /\ Kept(e)'
    BY <2>1, <2>2, FindOrCreateLosesNone
  <2>4. copyStack' = Called(callers, s, e)
    BY <1>3, <2>3 DEF CopyNode, Called
  <2> QED BY <2>1, <2>3, <2>4, FindOrCreateLosesNone
<1> QED BY <1>1, <1>2, <1>3

\* The directories that a copy creates in after a step were kept before it, or it has
\* just created them.
DstsKept == \A k \in DOMAIN copyStack' : \E e \in Node : copyStack'[k].dst = e /\ (Kept(e) \/ Kept(e)')

LEMMA FrameDst ==
  ASSUME NEW s \in Seq(Frame)
  PROVE  \A k \in 1 .. Len(s) : s[k].dst \in Node
<1>1. \A f \in Frame : f.dst \in Node
  BY DEF Frame
<1>2. \A k \in 1 .. Len(s) : s[k] \in Frame
  OBVIOUS
<1> QED BY <1>1, <1>2

LEMMA CalledKeepsDsts ==
  ASSUME NEW callers \in Seq(Frame), NEW s, NEW e \in Node, Kept(e)', copyStack' = Called(callers, s, e),
         \A k \in 1 .. Len(callers) : Kept(callers[k].dst)
  PROVE  DstsKept
<1>1. PICK h : h = [src |-> s, dst |-> e, next |-> 0]
  OBVIOUS
<1>2. copyStack' = Append(callers, h) /\ h.dst = e
  BY <1>1 DEF Called
<1>3. \A k \in DOMAIN copyStack' : copyStack'[k] = h \/ (k \in 1 .. Len(callers) /\ copyStack'[k] = callers[k])
  BY <1>2
<1>4. \A k \in 1 .. Len(callers) : callers[k].dst \in Node
  BY FrameDst
<1> QED BY <1>2, <1>3, <1>4 DEF DstsKept

LEMMA CopyChildLosesNone ==
  ASSUME IInv, LostApart, CopyChild
  PROVE  LosesNone /\ DstsKept
<1> DEFINE N == Len(copyStack)
<1>1. copyStack \in Seq(Frame) /\ N \in 1 .. N
  BY DEF IInv, TypeOK, CopyChild
<1>2. PICK f \in Frame : f = copyStack[N] /\ f = Last(copyStack) /\ CopyCallOk(f) /\ f.next \in Nat /\ Kept(f.dst)
  <2>1. copyStack[N] \in Frame /\ N \in DOMAIN copyStack
    BY <1>1
  <2>2. CopyCallOk(copyStack[N]) /\ copyStack[N] = Last(copyStack) /\ Kept(copyStack[N].dst)
    BY <2>1 DEF IInv, CallsOnTree, Last, LostApart
  <2> QED BY <2>1, <2>2 DEF Frame
<1>3. PICK d \in Nodes : d = f.dst /\ IsDir(d) /\ Kept(d)
  BY <1>2 DEF CopyCallOk
<1>4. PICK c, nm, callers :
        c = children[f.src][f.next + 1] /\ nm = name[c] /\ callers = [copyStack EXCEPT ![N].next = @ + 1]
  OBVIOUS
<1>5. PICK g : g = [f EXCEPT !.next = @ + 1]
  OBVIOUS
<1>6. g \in Frame /\ g.dst = f.dst
  BY <1>2, <1>5 DEF Frame
<1>7. callers = [copyStack EXCEPT ![N] = g]
  BY <1>1, <1>2, <1>4, <1>5
<1>8. callers \in Seq(Frame) /\ \A k \in 1 .. Len(callers) : Kept(callers[k].dst) /\ callers[k].dst \in Node
  <2>1. copyStack \in Seq(Frame) /\ N \in Nat \ {0} /\ N = Len(copyStack)
    BY <1>1
  <2> HIDE DEF N
  <2>2. /\ callers \in Seq(Frame) /\ Len(callers) = N
        /\ \A k \in 1 .. N : callers[k] = IF k = N THEN g ELSE copyStack[k]
    BY <1>6, <1>7, <2>1
  <2>3. \A k \in 1 .. N : Kept(copyStack[k].dst)
    BY <2>1 DEF LostApart
  <2>4. \A k \in 1 .. N : callers[k].dst \in Node
    BY <2>2, FrameDst
  <2> QED BY <1>2, <1>6, <2>2, <2>3, <2>4
<1>9. CopyNode(c, d, nm, callers)
  BY <1>2, <1>3, <1>4 DEF CopyChild
<1> HIDE DEF N
<1>10. LosesNone
  BY <1>3, <1>9, CopyNodeLosesNone
<1>11. CASE copyStack' = <<>>
  BY <1>10, <1>11 DEF DstsKept
<1>12. CASE copyStack' = callers
  <2>1. DOMAIN copyStack' = 1 .. Len(callers)
    BY <1>8, <1>12
  <2> QED BY <1>8, <1>10, <1>12, <2>1 DEF DstsKept
<1>13. CASE \E e \in Node : Kept(e)' /\ copyStack' = Called(callers, c, e)
  <2>1. PICK e \in Node : Kept(e)' /\ copyStack' = Called(callers, c, e)
    BY <1>13
  <2> QED BY <1>8, <1>10, <2>1, CalledKeepsDsts
<1>14. \/ copyStack' \in {<<>>, callers}
       \/ \E e \in Node : Kept(e)' /\ copyStack' = Called(callers, c, e)
  BY <1>3, <1>9, CopyNodeLosesNone
<1> QED BY <1>11, <1>12, <1>13, <1>14

LEMMA CpLosesNone ==
  ASSUME IInv, LostApart, NEW s, NEW d \in Nodes, IsDir(d), Kept(d), NEW nm, NEW r, Cp(s, d, nm, r)
  PROVE  LosesNone /\ DstsKept
<1>1. CASE CpRefused(s, d, r)
  BY <1>1, SameTreeLosesNone DEF Cp, Idle, DstsKept
<1>2. CASE ~CpRefused(s, d, r)
  <2>1. CopyNode(s, d, nm, <<>>) /\ <<>> \in Seq(Frame) /\ Len(<<>>) = 0
    BY <1>2 DEF Cp
  <2>2. PICK callers \in Seq(Frame) : callers = <<>> /\ CopyNode(s, d, nm, callers) /\ Len(callers) = 0
    BY <2>1
  <2>3. LosesNone
    BY <2>2, CopyNodeLosesNone
  <2>4. CASE copyStack' = <<>>
    BY <2>3, <2>4 DEF DstsKept
  <2>5. CASE \E e \in Node : Kept(e)' /\ copyStack' = Called(callers, s, e)
    <3>1. PICK e \in Node : Kept(e)' /\ copyStack' = Called(callers, s, e)
      BY <2>5
    <3>2. \A k \in 1 .. Len(callers) : Kept(callers[k].dst)
      BY <2>2
    <3> QED BY <2>3, <3>1, <3>2, CalledKeepsDsts
  <2>6. \/ copyStack' \in {<<>>, callers}
        \/ \E e \in Node : Kept(e)' /\ copyStack' = Called(callers, s, e)
    BY <2>2, CopyNodeLosesNone
  <2> QED BY <2>2, <2>4, <2>5, <2>6
<1> QED BY <1>1, <1>2

LEMMA NextLosesNone ==
  ASSUME IInv, LostApart, [Next]_vars
  PROVE  /\ LosesNone /\ DstsKept
         /\ Kept(cwd') \/ cwd' = cwd
         /\ \A k \in DOMAIN rmStack' : Kept(rmStack'[k])
<1>0. /\ Handles \subseteq Nodes /\ Nodes \subseteq Node /\ \A n \in Handles : Kept(n)
      /\ copyStack \in Seq(Frame) /\ rmStack \in Seq(Node) /\ TreeInv
  BY HandlesAreNodes, NodesInRange, HandlesAreKept, IInvParts DEF IInv, TypeOK
<1>1. copyStack' = copyStack => DstsKept
  <2> SUFFICES ASSUME copyStack' = copyStack, NEW k \in DOMAIN copyStack
               PROVE  \E e \in Node : copyStack[k].dst = e /\ Kept(e)
    BY DEF DstsKept
  <2>1. Kept(copyStack[k].dst)
    BY DEF LostApart
  <2>2. copyStack[k].dst \in Node
    BY <1>0, <2>1 DEF Kept
  <2> QED BY <2>1, <2>2
<1>2. rmStack' = rmStack => \A k \in DOMAIN rmStack' : Kept(rmStack'[k])
  BY DEF LostApart
<1>3. CASE Command
  <2>1. CASE Refuse
    BY <1>1, <1>2, <2>1, SameTreeLosesNone DEF Refuse, stacks
  <2>2. ASSUME NEW n \in Handles, Cd(n)
        PROVE  LosesNone /\ UNCHANGED stacks /\ (Kept(cwd') \/ cwd' = cwd)
    BY <1>0, <2>2, SameTreeLosesNone DEF Cd
  <2>3. ASSUME NEW n \in Handles, Rmdir(n) \/ Rm(n)
        PROVE  LosesNone /\ UNCHANGED stacks /\ cwd' = cwd
    <3>1. UNCHANGED tree \/ FsRemove(n)
      BY <2>3 DEF Rmdir, Rm
    <3> QED BY <1>0, <2>3, <3>1, SameTreeLosesNone, FsRemoveLosesNone DEF Rmdir, Rm
  <2>4. ASSUME NEW n \in Handles, RmRecursive(n)
        PROVE  LosesNone /\ copyStack' = copyStack /\ cwd' = cwd /\ \A k \in DOMAIN rmStack' : Kept(rmStack'[k])
    <3>1. LosesNone /\ copyStack' = copyStack /\ cwd' = cwd
      BY <2>4, SameTreeLosesNone DEF RmRecursive
    <3>2. rmStack' = <<>> \/ rmStack' = <<n>>
      BY <2>4 DEF RmRecursive
    <3>3. Kept(n)
      BY <1>0
    <3> QED BY <3>1, <3>2, <3>3
  <2>5. ASSUME NEW d \in Handles, IsDir(d), NEW nm \in Name, Touch(d, nm) \/ Mkdir(d, nm)
        PROVE  LosesNone /\ UNCHANGED stacks /\ cwd' = cwd
    BY <1>0, <2>5, FindOrCreateLosesNone DEF Touch, Mkdir
  <2>6. ASSUME NEW d \in Handles, IsDir(d), NEW nm \in Name, NEW out \in Text, NEW append \in BOOLEAN,
               Redirect(d, nm, out, append)
        PROVE  LosesNone /\ UNCHANGED stacks /\ cwd' = cwd
    <3>1. FindOrCreate("file", d, nm) /\ UNCHANGED stacks /\ cwd' = cwd
      BY <2>6 DEF Redirect, PutFile
    <3> QED BY <1>0, <2>6, <3>1, FindOrCreateLosesNone
  <2>7. ASSUME NEW s \in Handles, NEW d \in Nodes, IsDir(d), Kept(d), NEW nm \in Leaf(s), NEW r \in BOOLEAN,
               Cp(s, d, nm, r)
        PROVE  LosesNone /\ DstsKept /\ rmStack' = rmStack /\ cwd' = cwd
    <3>1. rmStack' = rmStack /\ cwd' = cwd
      BY <2>7 DEF Cp
    <3> QED BY <1>0, <2>7, <3>1, CpLosesNone
  <2>8. ASSUME NEW n \in Handles, NEW t \in Nodes, IsDir(t), Kept(t), NEW nm \in Leaf(n), Mv(n, t, nm)
        PROVE  LosesNone /\ UNCHANGED stacks /\ cwd' = cwd
    <3>1. nm \in FileName
      BY <1>0, <2>8 DEF Leaf, FileName, TreeInv, TreeType
    <3>2. UNCHANGED stacks /\ cwd' = cwd
      BY <2>8 DEF Mv
    <3> QED BY <1>0, <2>8, <3>1, <3>2, MvLosesNone
  <2>9. UNCHANGED stacks => copyStack' = copyStack /\ rmStack' = rmStack
    BY DEF stacks
  <2> QED BY <1>1, <1>2, <1>3, <2>1, <2>2, <2>3, <2>4, <2>5, <2>6, <2>7, <2>8, <2>9 DEF Command
<1>4. CASE CopyChild
  BY <1>2, <1>4, CopyChildLosesNone DEF CopyChild
<1>5. CASE CopyReturn
  <2>1. copyStack' = Front(copyStack) /\ copyStack # <<>> /\ UNCHANGED <<tree, cwd, rmStack>>
    BY <1>5 DEF CopyReturn
  <2>2. \A k \in DOMAIN copyStack' : k \in DOMAIN copyStack /\ copyStack'[k] = copyStack[k]
    <3>1. Len(copyStack) \in Nat \ {0}
      BY <1>0, <2>1
    <3> QED BY <1>0, <2>1, <3>1, FrontKeeps
  <2>3. DstsKept
    <3>1. \A k \in DOMAIN copyStack : Kept(copyStack[k].dst) /\ copyStack[k].dst \in Node
      BY <1>0 DEF LostApart, Kept
    <3> QED BY <2>2, <3>1 DEF DstsKept
  <2> QED BY <1>2, <2>1, <2>3, SameTreeLosesNone
<1>6. CASE RemoveDescend
  <2> DEFINE n == Last(rmStack)
  <2>1. /\ UNCHANGED <<tree, cwd, copyStack>> /\ rmStack # <<>> /\ children[n] # <<>>
        /\ rmStack' = Append(rmStack, Last(children[n]))
    BY <1>6 DEF RemoveDescend
  <2>2. n \in Node
    BY <1>0, <2>1 DEF Last
  <2>3. PICK list \in Seq(Node) : list = children[n]
    BY <1>0, <2>2 DEF TreeInv, TreeType
  <2>4. PICK c \in Node : c = Last(list) /\ Len(list) \in DOMAIN list /\ list[Len(list)] = c
    BY <2>1, <2>3 DEF Last
  <2>5. parent[c] = n
    BY <1>0, <2>2, <2>3, <2>4 DEF TreeInv, TreeLinks
  <2>6. Kept(c)
    <3>1. ~Unlinked(c)
      BY <2>2, <2>5, NullAssumption DEF Unlinked
    <3>2. c \in Nodes
      BY <1>0, <2>4, <3>1 DEF TreeInv, TreeType, FreshUnlinked, Nodes, Node
    <3> QED BY <2>2, <2>3, <2>4, <2>5, <3>2, NullAssumption DEF Kept, IsLinked
  <2> HIDE DEF n
  <2>7. rmStack' = Append(rmStack, c)
    BY <2>1, <2>3, <2>4
  <2>8. \A k \in DOMAIN rmStack' : rmStack'[k] = c \/ (k \in DOMAIN rmStack /\ rmStack'[k] = rmStack[k])
    BY <1>0, <2>7
  <2>9. \A k \in DOMAIN rmStack' : Kept(rmStack'[k])
    BY <2>6, <2>8 DEF LostApart
  <2> QED BY <1>1, <2>1, <2>9, SameTreeLosesNone
<1>7. CASE RemoveReturn
  <2>1. /\ UNCHANGED <<cwd, copyStack>> /\ rmStack # <<>> /\ FsRemove(Last(rmStack))
        /\ rmStack' \in {<<>>, Front(rmStack)}
    BY <1>7 DEF RemoveReturn
  <2>2. Len(rmStack) \in Nat \ {0}
    BY <1>0, <2>1
  <2>3. \A k \in DOMAIN Front(rmStack) : k \in DOMAIN rmStack /\ Front(rmStack)[k] = rmStack[k]
    BY <1>0, <2>2, FrontKeeps
  <2>4. \A k \in DOMAIN rmStack' : Kept(rmStack'[k])
    BY <2>1, <2>3 DEF LostApart
  <2>5. PICK n : n = Last(rmStack) /\ n = rmStack[Len(rmStack)]
    BY DEF Last
  <2>6. n \in Nodes
    BY <1>0, <2>2, <2>5 DEF LostApart, Kept
  <2>7. LosesNone
    BY <2>1, <2>5, <2>6, FsRemoveLosesNone
  <2> QED BY <1>1, <2>1, <2>4, <2>7
<1>8. CASE UNCHANGED vars
  BY <1>1, <1>2, <1>8, SameTreeLosesNone DEF vars, stacks
<1> QED BY <1>3, <1>4, <1>5, <1>6, <1>7, <1>8 DEF Next, CopyStep, RemoveStep

LEMMA NextKeepsLostApart ==
  ASSUME IInv, LostApart, [Next]_vars
  PROVE  LostApart'
<1>0. /\ \A n \in Node : Kept(n) => Kept(n)' /\ LosesNone /\ DstsKept
      /\ Nodes \subseteq Node /\ parent' \in [Node -> Node \cup {NULL}] /\ cwd' \in Node
      /\ rmStack' \in Seq(Node)
  BY NextLosesNone, NodesInRange, NextKeepsIInv DEF LosesNone, IInv, TypeOK
<1>5. DstsKept /\ LosesNone
  BY NextLosesNone
<1>1. Kept(cwd)'
  <2>1. PICK n \in Node : n = cwd'
    BY <1>0
  <2>2. Kept(n)
    BY <2>1, NextLosesNone DEF LostApart
  <2> QED BY <1>0, <2>1, <2>2 DEF Kept, IsLinked
<1>2. ASSUME NEW m \in Node, parent'[m] # NULL PROVE Kept(parent[m])'
  <2>1. PICK p \in Node : p = parent'[m]
    BY <1>0, <1>2
  <2>2. CASE p = parent[m]
    <3>1. Kept(p)
      BY <1>2, <2>1, <2>2 DEF LostApart
    <3> QED BY <1>0, <2>1, <3>1 DEF Kept, IsLinked
  <2>3. CASE \E d \in Node : p = d /\ Kept(d)
    <3>1. Kept(p)
      BY <2>3
    <3> QED BY <1>0, <2>1, <3>1 DEF Kept, IsLinked
  <2>4. p = parent[m] \/ \E d \in Node : p = d /\ Kept(d)
    BY <1>2, <1>5, <2>1 DEF LosesNone
  <2> QED BY <2>2, <2>3, <2>4
<1>3. ASSUME NEW k \in DOMAIN copyStack' PROVE Kept(copyStack[k].dst)'
  <2>1. PICK e \in Node : copyStack'[k].dst = e /\ (Kept(e) \/ Kept(e)')
    BY <1>3, <1>5 DEF DstsKept
  <2>2. Kept(e)'
    BY <1>0, <2>1
  <2> QED BY <2>1, <2>2 DEF Kept, IsLinked
<1>4. ASSUME NEW k \in DOMAIN rmStack' PROVE Kept(rmStack[k])'
  <2>1. PICK n \in Node : n = rmStack'[k]
    BY <1>0
  <2>2. Kept(n)
    BY <2>1, NextLosesNone
  <2> QED BY <1>0, <2>1, <2>2 DEF Kept, IsLinked
<1> QED BY <1>1, <1>2, <1>3, <1>4 DEF LostApart

LEMMA InitLostApart == Init => LostApart
<1> SUFFICES ASSUME Init PROVE LostApart
  OBVIOUS
<1>1. Root \in Node /\ Root \in Nodes
  BY DEF Init, Root, Node, Nodes
<1> QED BY <1>1 DEF Init, LostApart, Kept

\* rm -r that returns, on a success or on a failure, leaves its target empty and in no
\* directory, for every shape of the tree below it: no call on a child can fail, for its
\* parent lists it, and what may fail is only the unlinking of a target that has no
\* parent.
THEOREM RemovalDoesItsWork == Spec => RemovalCompletes
<1> DEFINE Done == LET n == rmStack[1] IN
                   /\ children'[n] = <<>>
                   /\ parent'[n] = NULL
                   /\ ret' = "error" => parent[n] = NULL
<1>1. ASSUME IInv, Acyclic, LostApart, [Next]_vars, rmStack # <<>>, rmStack' = <<>>
      PROVE  Done
  <2>0. /\ rmStack \in Seq(Node) /\ parent \in [Node -> Node \cup {NULL}] /\ children \in [Node -> Seq(Node)]
        /\ Len(rmStack) \in Nat \ {0} /\ 1 \in DOMAIN rmStack
    BY <1>1 DEF IInv, TypeOK
  <2>10. rmStack \in Seq(Node) /\ Len(rmStack) \in Nat \ {0}
    BY <2>0
  <2>1. RemoveReturn
    <3>1. RemoveStep
      BY <1>1, OnlyRemovals DEF vars, stacks
    <3>2. ~RemoveDescend
      <4>1. \A e : Append(rmStack, e) # <<>>
        BY <2>10
      <4> QED BY <1>1, <4>1 DEF RemoveDescend
    <3> QED BY <3>1, <3>2 DEF RemoveStep
  <2>2. PICK top \in Node : /\ top = Last(rmStack) /\ top = rmStack[Len(rmStack)]
                            /\ Kept(top) /\ top # Root
    BY <1>1, <2>0 DEF Last, LostApart, IInv, CallsOnTree, RemoveCallOk
  <2>3. /\ IsDir(top) => children[top] = <<>>
        /\ FsRemove(top) /\ (ret' = "error" <=> ~CanRemove(top))
        /\ CanRemove(top) => rmStack' = Front(rmStack)
    BY <2>1, <2>2 DEF RemoveReturn, Report
  <2>4. children[top] = <<>>
    BY <1>1, <2>2, <2>3 DEF IInv, TreeLinks
  <2>5. CanRemove(top) <=> parent[top] # NULL
    BY <2>2, <2>3 DEF CanRemove, Kept, IsLinked
  <2>6. Len(rmStack) = 1
    <3>1. CASE CanRemove(top)
      <4>1. Len(Front(rmStack)) = Len(rmStack) - 1 /\ Len(<<>>) = 0
        BY <2>0, FrontKeeps
      <4>2. Front(rmStack) = <<>>
        BY <1>1, <2>3, <3>1
      <4>3. Len(rmStack) - 1 = 0
        BY <4>1, <4>2
      <4> QED BY <2>0, <4>3
    <3>2. CASE ~CanRemove(top) /\ Len(rmStack) > 1
      <4>1. Len(rmStack) \in DOMAIN rmStack
        BY <2>0
      <4>2. IsLinked(top)
        BY <1>1, <2>2, <3>2, <4>1, CallsAreChildren
      <4> QED BY <2>5, <3>2, <4>2 DEF IsLinked
    <3>3. \A N \in Nat \ {0} : N = 1 \/ N > 1
      OBVIOUS
    <3>4. Len(rmStack) = 1 \/ Len(rmStack) > 1
      BY <2>10, <3>3
    <3> QED BY <3>1, <3>2, <3>4
  <2>7. top = rmStack[1]
    BY <2>2, <2>6
  <2>8. CASE CanRemove(top)
    <3>1. Detach(top) /\ parent[top] \in Node
      BY <2>0, <2>2, <2>3, <2>5, <2>8 DEF FsRemove
    <3>2. parent[top] # top
      BY <1>1, <2>2, <2>5, <2>8 DEF Acyclic, IsAncestor
    <3>3. children'[top] = <<>> /\ parent'[top] = NULL
      BY <2>0, <2>2, <2>4, <3>1, <3>2 DEF Detach
    <3> QED BY <2>3, <2>7, <2>8, <3>3
  <2>9. CASE ~CanRemove(top)
    BY <2>3, <2>4, <2>5, <2>7, <2>9 DEF FsRemove, tree
  <2> QED BY <2>8, <2>9
<1>2. IInv /\ Acyclic /\ LostApart /\ [Next]_vars => (rmStack # <<>> /\ rmStack' = <<>> => Done)
  BY <1>1
<1>3. IInv /\ LostApart /\ [Next]_vars => LostApart'
  BY NextKeepsLostApart
<1> HIDE DEF Done
<1>4. Spec => [](IInv /\ Acyclic /\ LostApart)
  BY <1>3, InitLostApart, SpecIInv, NoCycles, PTL DEF Spec
<1>5. Spec => [][rmStack # <<>> /\ rmStack' = <<>> => Done]_vars
  BY <1>2, <1>4, PTL DEF Spec
<1> QED BY <1>5, PTL DEF RemovalCompletes, Done

-----------------------------------------------------------------------------
(***************************************************************************)
(* The content pool.                                                       *)
(***************************************************************************)
\* f adds up the bytes of contents, node by node.
AddsUp(f, contents) ==
  /\ Needed(contents) = f[MaxNodes]
  /\ f[0] = Bytes(contents[0])
  /\ \A n \in 1 .. MaxNodes : f[n] = Bytes(contents[n]) + f[n - 1]

\* The function that Needed is defined by exists, and takes natural numbers.
LEMMA NeededSteps ==
  ASSUME NEW contents, \A n \in Node : Bytes(contents[n]) \in Nat
  PROVE  \E f \in [Node -> Nat] : AddsUp(f, contents)
<1>0. MaxNodes \in Nat
  BY SizeAssumption
<1> DEFINE B(n) == Bytes(contents[n])
           Eq(h) == h = [n \in Node |-> B(n) + (IF n = 0 THEN 0 ELSE h[n - 1])]
           f == CHOOSE h : Eq(h)
<1>1. Needed(contents) = f[MaxNodes]
  BY DEF Needed
<1>2. \A n \in Node : B(n) \in Nat
  OBVIOUS
<1> HIDE DEF B
<1>3. \E h : Eq(h)
  <2> DEFINE G == [p \in Nat \X (1 .. MaxNodes + 1) |-> B(p[2] - 1) + p[1]]
  <2>1. PICK m \in Nat : m = MaxNodes + 1
    BY <1>0
  <2>2. \A k \in 1 .. m : k - 1 \in Node
    BY <1>0, <2>1 DEF Node
  <2>3. G \in [Nat \X (1 .. m) -> Nat]
    BY <1>2, <2>1, <2>2
  <2>4. \A v \in Nat, k \in 1 .. m : G[<<v, k>>] = B(k - 1) + v
    BY <2>1
  <2>5. PICK GG : GG = G
    OBVIOUS
  <2> HIDE DEF G
  <2>6. B(0) \in Nat
    BY <1>0, <1>2 DEF Node
  <2>7. PICK x \in Nat : x = B(0)
    BY <2>6
  <2>8. \E g \in [1 .. m -> Nat] : Iterates(g, m, x, GG)
    <3>1. GG \in [Nat \X (1 .. m) -> Nat] /\ x \in Nat
      BY <2>3, <2>5
    <3> QED BY ONLY <3>1, IterationExists, Zenon
  <2>9. PICK g \in [1 .. m -> Nat] : \A k \in 1 .. m : g[k] = IF k = 1 THEN x ELSE GG[<<g[k - 1], k>>]
    BY <2>8 DEF Iterates
  <2> DEFINE h == [n \in Node |-> g[n + 1]]
  <2>10. \A n \in Node : h[n] = B(n) + (IF n = 0 THEN 0 ELSE h[n - 1])
    <3> SUFFICES ASSUME NEW n \in Node PROVE h[n] = B(n) + (IF n = 0 THEN 0 ELSE h[n - 1])
      OBVIOUS
    <3>1. n + 1 \in 1 .. m /\ (n + 1) - 1 = n /\ n \in Nat
      BY <1>0, <2>1 DEF Node
    <3>2. CASE n = 0
      <4>0. h[n] = g[n + 1] /\ n + 1 = 1
        BY <3>1, <3>2
      <4>1. h[n] = x
        BY <2>9, <3>1, <4>0
      <4> QED BY <2>6, <2>7, <3>2, <4>1
    <3>3. CASE n # 0
      <4>1. n - 1 \in Node /\ (n - 1) + 1 = n /\ n \in 1 .. m
        BY <1>0, <2>1, <3>1, <3>3 DEF Node
      <4>2. h[n - 1] = g[n] /\ g[n] \in Nat /\ h[n] = g[n + 1]
        BY <4>1
      <4>3. g[n + 1] = GG[<<g[n], n + 1>>]
        BY <2>9, <3>1, <3>3
      <4>4. GG[<<g[n], n + 1>>] = B(n) + g[n]
        BY <2>4, <2>5, <3>1, <4>2
      <4> HIDE DEF h
      <4> QED BY <3>3, <4>2, <4>3, <4>4
    <3> QED BY <3>2, <3>3
  <2>11. h = [n \in Node |-> B(n) + (IF n = 0 THEN 0 ELSE h[n - 1])]
    <3>1. h = [n \in Node |-> h[n]]
      OBVIOUS
    <3> HIDE DEF h
    <3> QED BY <2>10, <3>1
  <2> HIDE DEF h
  <2> QED BY <2>11
<1>4. Eq(f)
  BY <1>3
<1> HIDE DEF f
<1>5. \A n \in Node : f[n] = B(n) + (IF n = 0 THEN 0 ELSE f[n - 1])
  BY <1>4
<1>6. 0 \in Node /\ MaxNodes \in Node /\ \A n \in 1 .. MaxNodes : n \in Node /\ n # 0
  BY <1>0 DEF Node
<1>7. f[0] = B(0) /\ \A n \in 1 .. MaxNodes : f[n] = B(n) + f[n - 1]
  BY <1>2, <1>5, <1>6
<1>8. f \in [Node -> Nat]
  <2> DEFINE T == {n \in 0 .. MaxNodes : f[n] \in Nat}
  <2>1. 0 \in T
    BY <1>0, <1>2, <1>6, <1>7
  <2>2. \A k \in 0 .. MaxNodes - 1 : k \in T => k + 1 \in T
    <3> SUFFICES ASSUME NEW k \in 0 .. MaxNodes - 1, f[k] \in Nat PROVE k + 1 \in 0 .. MaxNodes /\ f[k + 1] \in Nat
      OBVIOUS
    <3>1. k + 1 \in 1 .. MaxNodes /\ k + 1 \in 0 .. MaxNodes /\ (k + 1) - 1 = k
      BY <1>0
    <3>2. f[k + 1] = B(k + 1) + f[k] /\ B(k + 1) \in Nat
      BY <1>2, <1>6, <1>7, <3>1
    <3> QED BY <3>1, <3>2
  <2>3. PICK TT : TT = T
    OBVIOUS
  <2> HIDE DEF T
  <2>4. 0 .. MaxNodes \subseteq TT
    <3>1. MaxNodes \in Nat /\ 0 \in TT /\ \A k \in 0 .. MaxNodes - 1 : k \in TT => k + 1 \in TT
      BY <1>0, <2>1, <2>2, <2>3
    <3> QED BY ONLY <3>1, UpTo
  <2>5. \A n \in Node : f[n] \in Nat
    BY <2>3, <2>4 DEF T, Node
  <2>6. f = [n \in Node |-> f[n]]
    <3>1. f = [n \in Node |-> B(n) + (IF n = 0 THEN 0 ELSE f[n - 1])]
      BY <1>4
    <3> QED BY <3>1
  <2> QED BY <2>5, <2>6
<1>9. AddsUp(f, contents)
  BY <1>1, <1>7 DEF AddsUp, B
<1> QED BY <1>8, <1>9

\* A new content needs no more than its own bytes.
LEMMA NeededGrows ==
  ASSUME NEW old, NEW new, NEW e \in Node,
         \A n \in Node : Bytes(old[n]) \in Nat, \A n \in Node : Bytes(new[n]) \in Nat,
         \A n \in Node \ {e} : new[n] = old[n]
  PROVE  Needed(new) <= Needed(old) + Bytes(new[e]) /\ Needed(new) \in Nat /\ Needed(old) \in Nat
<1>0. MaxNodes \in Nat /\ e \in Nat /\ MaxNodes \in Node
  BY SizeAssumption DEF Node
<1>1. PICK f \in [Node -> Nat] : AddsUp(f, old)
  BY NeededSteps
<1>2. PICK g \in [Node -> Nat] : AddsUp(g, new)
  BY NeededSteps
<1>3. PICK b \in Nat : b = Bytes(new[e])
  OBVIOUS
<1> DEFINE T == {n \in 0 .. MaxNodes : (n < e => g[n] = f[n]) /\ g[n] <= f[n] + b}
<1>4. 0 \in T
  <2>1. 0 \in Node /\ f[0] \in Nat /\ g[0] \in Nat /\ f[0] = Bytes(old[0]) /\ g[0] = Bytes(new[0])
    BY <1>0, <1>1, <1>2 DEF AddsUp, Node
  <2>2. CASE e = 0
    BY <1>0, <1>3, <2>1, <2>2
  <2>3. CASE e # 0
    <3>1. new[0] = old[0]
      BY <2>1, <2>3
    <3> QED BY <1>0, <2>1, <3>1
  <2> QED BY <2>2, <2>3
<1>5. ASSUME NEW k \in 0 .. MaxNodes - 1, k \in T PROVE k + 1 \in T
  <2>1. k + 1 \in 1 .. MaxNodes /\ k + 1 \in 0 .. MaxNodes /\ (k + 1) - 1 = k /\ k \in Node /\ k + 1 \in Node /\ k \in Nat
    BY <1>0 DEF Node
  <2>2. PICK fk \in Nat, gk \in Nat : fk = f[k] /\ gk = g[k]
    BY <2>1
  <2>3. (k < e => gk = fk) /\ gk <= fk + b
    BY <1>5, <2>2
  <2>4. PICK x \in Nat, y \in Nat : x = Bytes(old[k + 1]) /\ y = Bytes(new[k + 1])
    BY <2>1
  <2>5. f[k + 1] = x + fk /\ g[k + 1] = y + gk
    BY <1>1, <1>2, <2>1, <2>2, <2>4 DEF AddsUp
  <2>6. CASE k + 1 = e
    <3>1. y = b /\ gk = fk
      BY <1>0, <1>3, <2>1, <2>3, <2>4, <2>6
    <3> QED BY <1>0, <2>1, <2>5, <2>6, <3>1
  <2>7. CASE k + 1 # e
    <3>1. y = x
      BY <2>1, <2>4, <2>7
    <3> QED BY <1>0, <2>1, <2>3, <2>5, <2>7, <3>1
  <2> QED BY <2>6, <2>7
<1>6. PICK TT : TT = T
  OBVIOUS
<1> HIDE DEF T
<1>7. MaxNodes \in TT
  <2>1. MaxNodes \in Nat /\ 0 \in TT /\ \A k \in 0 .. MaxNodes - 1 : k \in TT => k + 1 \in TT
    BY <1>0, <1>4, <1>5, <1>6
  <2>2. 0 .. MaxNodes \subseteq TT
    BY ONLY <2>1, UpTo
  <2> QED BY <1>0, <2>2
<1>8. g[MaxNodes] <= f[MaxNodes] + b
  BY <1>6, <1>7 DEF T
<1>9. Needed(new) = g[MaxNodes] /\ Needed(old) = f[MaxNodes] /\ g[MaxNodes] \in Nat /\ f[MaxNodes] \in Nat
  BY <1>0, <1>1, <1>2 DEF AddsUp
<1> QED BY <1>3, <1>8, <1>9

\* A content is stored in a file, and the pool used up with it.
Stores(e, text) ==
  /\ text # NULL
  /\ content' = [content EXCEPT ![e] = text]
  /\ poolUsed' = poolUsed + Len(text) + 1
  /\ type'[e] = "file"

\* A step stores one content or none.
StoresOne == UNCHANGED data \/ \E e \in Node : \E text : Stores(e, text)

LEMMA PutFileStores ==
  ASSUME IInv, NEW d \in Node, NEW nm, NEW text, PutFile(d, nm, text)
  PROVE  StoresOne
<1>1. TreeInv /\ used \in Nat /\ MaxNodes \in Nat
  BY IInvParts, SizeAssumption DEF TreeInv, TreeType
<1>2. CASE text # NULL /\ PutOk(d, nm, text)
  <2>1. EntryOk("file", d, nm) /\ FindOrCreate("file", d, nm)
    BY <1>2, Zenon DEF PutFile, PutOk
  <2>2. Entry(d, nm) \in Node /\ type'[Entry(d, nm)] = "file"
    <3>1. CASE Lookup(d, nm) = NULL
      <4>1. used < MaxNodes /\ Entry(d, nm) = used + 1
        BY <2>1, <3>1 DEF EntryOk, CanAllocate, Entry
      <4>2. type' = [type EXCEPT ![used + 1] = "file"]
        BY <2>1, <3>1, Zenon DEF EntryOk, FindOrCreate, CreateNode
      <4> QED BY <1>1, <4>1, <4>2 DEF Node, TreeInv, TreeType
    <3>2. CASE Lookup(d, nm) # NULL
      <4>1. IsDir(d) /\ HasEntry(d, nm)
        BY <3>2, Zenon DEF Lookup
      <4>2. Lookup(d, nm) \in Nodes
        BY <1>1, <4>1, LookupFinds
      <4>3. type' = type /\ type[Lookup(d, nm)] = "file"
        BY <2>1, <3>2, Zenon DEF EntryOk, FindOrCreate, tree
      <4> QED BY <1>1, <3>2, <4>2, <4>3 DEF Entry, Nodes, Node, TreeInv, TreeType
    <3> QED BY <3>1, <3>2
  <2>3. Stores(Entry(d, nm), text)
    BY <1>2, <2>2, Zenon DEF PutFile, Stores
  <2> QED BY <2>2, <2>3, Zenon DEF StoresOne
<1>3. CASE ~(text # NULL /\ PutOk(d, nm, text))
  BY <1>3, Zenon DEF PutFile, StoresOne
<1> QED BY <1>2, <1>3, Zenon

LEMMA CopyNodeStores ==
  ASSUME IInv, NEW s, NEW d \in Node, NEW nm, NEW callers, CopyNode(s, d, nm, callers)
  PROVE  StoresOne
<1>1. (\E text : PutFile(d, nm, text)) \/ UNCHANGED data
  BY Zenon DEF CopyNode
<1> QED BY <1>1, PutFileStores, Zenon DEF StoresOne

LEMMA NextStores ==
  ASSUME IInv, [Next]_vars
  PROVE  StoresOne
<1>1. Handles \subseteq Node /\ Nodes \subseteq Node
  BY HandlesAreNodes, NodesInRange DEF IInv, TypeOK
<1>2. CASE UNCHANGED data
  BY <1>2, Zenon DEF StoresOne
<1>3. CASE Command
  <2>1. ASSUME NEW n, Cd(n) \/ Rmdir(n) \/ Rm(n) \/ RmRecursive(n) \/ Refuse PROVE UNCHANGED data
    BY <2>1, Zenon DEF Cd, Rmdir, Rm, RmRecursive, Refuse
  <2>2. ASSUME NEW d, NEW nm, Touch(d, nm) \/ Mkdir(d, nm) PROVE UNCHANGED data
    BY <2>2, Zenon DEF Touch, Mkdir
  <2>3. ASSUME NEW d \in Handles, NEW nm, NEW out, NEW append, Redirect(d, nm, out, append) PROVE StoresOne
    <3>1. \E text : PutFile(d, nm, text)
      BY <2>3, Zenon DEF Redirect
    <3> QED BY <1>1, <3>1, PutFileStores, Zenon
  <2>4. ASSUME NEW s, NEW d \in Nodes, NEW nm, NEW r, Cp(s, d, nm, r) PROVE StoresOne
    <3>1. UNCHANGED data \/ CopyNode(s, d, nm, <<>>)
      BY <2>4, Zenon DEF Cp
    <3> QED BY <1>1, <1>2, <3>1, CopyNodeStores, Zenon
  <2>5. ASSUME NEW n, NEW t, NEW nm, Mv(n, t, nm) PROVE UNCHANGED data
    BY <2>5, Zenon DEF Mv
  <2> QED BY <1>2, <1>3, <2>1, <2>2, <2>3, <2>4, <2>5, Zenon DEF Command
<1>4. CASE CopyStep
  <2>1. CASE CopyReturn
    BY <1>2, <2>1, Zenon DEF CopyReturn
  <2>2. CASE CopyChild
    <3>1. copyStack \in Seq(Frame) /\ copyStack # <<>>
      BY <2>2 DEF CopyChild, IInv, TypeOK
    <3>2. Last(copyStack).dst \in Node
      BY <1>1, <3>1 DEF IInv, CallsOnTree, CopyCallOk, Last
    <3>3. PICK f : f = Last(copyStack)
      OBVIOUS
    <3>4. \E c, callers : CopyNode(c, f.dst, name[c], callers)
      BY <2>2, <3>3, Zenon DEF CopyChild
    <3>5. PICK c, callers : CopyNode(c, f.dst, name[c], callers)
      BY <3>4
    <3>6. PICK d \in Node : d = f.dst
      BY <3>2, <3>3
    <3> QED BY <3>5, <3>6, CopyNodeStores, Zenon
  <2> QED BY <1>4, <2>1, <2>2 DEF CopyStep
<1>5. CASE RemoveStep
  BY <1>2, <1>5, Zenon DEF RemoveStep, RemoveDescend, RemoveReturn
<1>6. CASE UNCHANGED vars
  BY <1>2, <1>6, Zenon DEF vars
<1> QED BY <1>3, <1>4, <1>5, <1>6, Zenon DEF Next

\* The bytes of a content are counted.
LEMMA BytesNat ==
  ASSUME DataInv
  PROVE  \A n \in Node : Bytes(content[n]) \in Nat
BY DEF DataInv, Bytes

\* content_pool holds all the contents there are with their terminators, each in bytes of its
\* own, for every size of the pool: what overwrites or extends a content takes new bytes.
THEOREM ContentsFitThePool == Spec => []ContentFits
<1>1. Init => ContentFits
  <2> SUFFICES ASSUME Init PROVE ContentFits
    OBVIOUS
  <2>1. \A n \in Node : Bytes(content[n]) = 0
    BY DEF Init, Bytes
  <2>2. \A n \in Node : Bytes(content[n]) \in Nat
    BY <2>1
  <2>3. PICK f \in [Node -> Nat] : AddsUp(f, content)
    BY <2>2, NeededSteps
  <2>4. MaxNodes \in Nat
    BY SizeAssumption
  <2> DEFINE T == {n \in 0 .. MaxNodes : f[n] = 0}
  <2>5. 0 \in T
    BY <2>1, <2>3, <2>4 DEF AddsUp, Node
  <2>6. \A k \in 0 .. MaxNodes - 1 : k \in T => k + 1 \in T
    <3> SUFFICES ASSUME NEW k \in 0 .. MaxNodes - 1, f[k] = 0 PROVE k + 1 \in 0 .. MaxNodes /\ f[k + 1] = 0
      OBVIOUS
    <3>1. k + 1 \in 1 .. MaxNodes /\ (k + 1) - 1 = k /\ k + 1 \in Node /\ k + 1 \in 0 .. MaxNodes
      BY <2>4 DEF Node
    <3>2. f[k + 1] = Bytes(content[k + 1]) + f[k]
      BY <2>3, <3>1 DEF AddsUp
    <3> QED BY <2>1, <3>1, <3>2
  <2>7. PICK TT : TT = T
    OBVIOUS
  <2> HIDE DEF T
  <2>8. MaxNodes \in TT
    <3>1. MaxNodes \in Nat /\ 0 \in TT /\ \A k \in 0 .. MaxNodes - 1 : k \in TT => k + 1 \in TT
      BY <2>4, <2>5, <2>6, <2>7
    <3>2. 0 .. MaxNodes \subseteq TT
      BY ONLY <3>1, UpTo
    <3> QED BY <2>4, <3>2
  <2>9. Needed(content) = 0
    BY <2>3, <2>7, <2>8 DEF AddsUp, T
  <2> QED BY <2>9 DEF Init, ContentFits
<1>2. IInv /\ IInv' /\ ContentFits /\ [Next]_vars => ContentFits'
  <2> SUFFICES ASSUME IInv, IInv', ContentFits, [Next]_vars PROVE ContentFits'
    OBVIOUS
  <2>1. DataInv /\ DataInv'
    <3>1. DataInv
      BY IInvParts
    <3>2. IInv' => DataInv'
      BY IInvParts, PTL
    <3> QED BY <3>1, <3>2
  <2>2. CASE UNCHANGED data
    BY <2>2, Zenon DEF ContentFits, data
  <2>3. ASSUME NEW e \in Node, NEW text, Stores(e, text) PROVE ContentFits'
    <3>1. /\ text # NULL /\ content' = [content EXCEPT ![e] = text]
          /\ poolUsed' = poolUsed + Len(text) + 1
      BY <2>3, Zenon DEF Stores
    <3>2. PICK old, new : old = content /\ new = content'
      OBVIOUS
    <3>3. /\ DOMAIN old = Node
          /\ \A n \in Node : Bytes(old[n]) \in Nat
          /\ \A n \in Node : Bytes(new[n]) \in Nat
      <4>1. \A n \in Node : Bytes(content[n]) \in Nat
        BY <2>1, BytesNat
      <4>2. DataInv' => (\A n \in Node : Bytes(content[n]) \in Nat)'
        BY BytesNat, PTL
      <4>3. \A n \in Node : Bytes(content'[n]) \in Nat
        BY <2>1, <4>2
      <4> QED BY <2>1, <3>2, <4>1, <4>3, Zenon DEF DataInv
    <3>4. poolUsed \in Nat /\ poolUsed' \in Nat
      BY <2>1 DEF DataInv
    <3>5. Needed(old) <= poolUsed
      BY <3>2, Zenon DEF ContentFits
    <3>6. new[e] = text /\ \A n \in Node \ {e} : new[n] = old[n]
      BY <3>1, <3>2, <3>3
    <3>7. /\ Needed(new) <= Needed(old) + Bytes(new[e])
          /\ Needed(new) \in Nat /\ Needed(old) \in Nat
      BY <3>3, <3>6, NeededGrows
    <3>8. Bytes(new[e]) = Len(text) + 1 /\ Bytes(new[e]) \in Nat
      BY <3>1, <3>3, <3>6 DEF Bytes
    <3>9. poolUsed' = poolUsed + Bytes(new[e])
      <4>1. new[e] \in Seq(Char)
        BY <2>1, <3>1, <3>2, <3>6 DEF DataInv
      <4>2. Len(text) \in Nat
        BY <3>6, <4>1
      <4> QED BY <3>1, <3>4, <3>8, <4>2
    <3>10. Needed(new) <= poolUsed'
      BY <3>4, <3>5, <3>7, <3>8, <3>9
    <3> QED BY <3>2, <3>10, Zenon DEF ContentFits
  <2> QED BY <2>2, <2>3, NextStores, Zenon DEF StoresOne
<1> QED BY <1>1, <1>2, SpecIInv, PTL DEF Spec
-----------------------------------------------------------------------------
(***************************************************************************)
(* Contents are in files.                                                  *)
(***************************************************************************)
\* A directory has no content.
OnlyFilesHold == \A n \in Node : content[n] # NULL => type[n] = "file"

\* No step changes what a slot that was handed out is.
TypesStay == \A n \in Nodes : type'[n] = type[n]

LEMMA FindOrCreateTypesStay ==
  ASSUME TreeInv, NEW kind, NEW d, NEW nm, FindOrCreate(kind, d, nm)
  PROVE  TypesStay
<1>1. used \in Nat /\ type \in [Node -> Type] /\ Nodes \subseteq Node /\ Nodes = 0 .. used
  BY NodesInRange DEF TreeInv, TreeType, Nodes
<1>2. type' = type \/ type' = [type EXCEPT ![used + 1] = kind]
  BY Zenon DEF FindOrCreate, CreateNode, tree
<1>3. \A n \in Nodes : n # used + 1 /\ n \in Node
  BY <1>1
<1> QED BY <1>1, <1>2, <1>3 DEF TypesStay

LEMMA NextTypesStay ==
  ASSUME IInv, [Next]_vars
  PROVE  TypesStay
<1>1. TreeInv
  BY IInvParts
<1>2. CASE type' = type
  BY <1>2 DEF TypesStay
<1>3. ASSUME NEW kind, NEW d, NEW nm, FindOrCreate(kind, d, nm) PROVE TypesStay
  BY <1>1, <1>3, FindOrCreateTypesStay
<1>4. ASSUME NEW s, NEW d, NEW nm, NEW callers, CopyNode(s, d, nm, callers) PROVE TypesStay
  BY <1>3, <1>4, Zenon DEF CopyNode, PutFile
<1>5. CASE Command
  <2>1. ASSUME NEW n, Cd(n) \/ Rmdir(n) \/ Rm(n) \/ RmRecursive(n) \/ Refuse PROVE type' = type
    BY <2>1, Zenon DEF Cd, Rmdir, Rm, RmRecursive, Refuse, FsRemove, Detach, tree
  <2>2. ASSUME NEW d, NEW nm, Touch(d, nm) \/ Mkdir(d, nm) PROVE TypesStay
    BY <1>3, <2>2, Zenon DEF Touch, Mkdir
  <2>3. ASSUME NEW d, NEW nm, NEW out, NEW append, Redirect(d, nm, out, append) PROVE TypesStay
    BY <1>3, <2>3, Zenon DEF Redirect, PutFile
  <2>4. ASSUME NEW s, NEW d, NEW nm, NEW r, Cp(s, d, nm, r) PROVE TypesStay
    BY <1>2, <1>4, <2>4, Zenon DEF Cp, tree
  <2>5. ASSUME NEW n, NEW t, NEW nm, Mv(n, t, nm) PROVE type' = type
    BY <2>5, Zenon DEF Mv, MvNode, tree
  <2> QED BY <1>2, <1>5, <2>1, <2>2, <2>3, <2>4, <2>5, Zenon DEF Command
<1>6. CASE CopyStep
  BY <1>2, <1>4, <1>6, Zenon DEF CopyStep, CopyReturn, CopyChild, tree
<1>7. CASE RemoveStep
  BY <1>2, <1>7, Zenon DEF RemoveStep, RemoveDescend, RemoveReturn, FsRemove, Detach, tree
<1>8. CASE UNCHANGED vars
  BY <1>2, <1>8, Zenon DEF vars, tree
<1> QED BY <1>5, <1>6, <1>7, <1>8, Zenon DEF Next

LEMMA NextKeepsOnlyFilesHold ==
  ASSUME IInv, IInv', OnlyFilesHold, [Next]_vars
  PROVE  OnlyFilesHold'
<1>1. /\ \A n \in Nodes : type'[n] = type[n]
      /\ \A n \in Node : n \notin Nodes => content[n] = NULL
      /\ DOMAIN content = Node
  <2>1. \A n \in Nodes : type'[n] = type[n]
    BY NextTypesStay DEF TypesStay
  <2>2. DOMAIN content = Node /\ used \in Nat /\ \A n \in Node : n > used => content[n] = NULL
    BY DEF IInv, TypeOK, FreshBlank
  <2> QED BY <2>1, <2>2 DEF Nodes, Node
<1>2. \A n \in Node : content[n] # NULL => type'[n] = "file"
  BY <1>1 DEF OnlyFilesHold
<1>3. CASE UNCHANGED data
  BY <1>2, <1>3 DEF OnlyFilesHold, data
<1>4. ASSUME NEW e \in Node, NEW text, Stores(e, text) PROVE OnlyFilesHold'
  <2>1. content' = [content EXCEPT ![e] = text] /\ type'[e] = "file"
    BY <1>4 DEF Stores
  <2>2. \A n \in Node : content'[n] # NULL => n = e \/ content[n] # NULL
    BY <1>1, <2>1
  <2> QED BY <1>2, <2>1, <2>2 DEF OnlyFilesHold
<1> QED BY <1>3, <1>4, NextStores DEF StoresOne

LEMMA InitOnlyFilesHold == Init => OnlyFilesHold
BY DEF Init, OnlyFilesHold

(***************************************************************************)
(* Paths down the tree.                                                    *)
(***************************************************************************)
\* A name leads from a node to a node, or nowhere.
LEMMA LookupType ==
  ASSUME TreeInv, NEW n \in Node \cup {NULL}, NEW nm
  PROVE  Lookup(n, nm) \in Node \cup {NULL}
<1>1. CASE IsDir(n)
  <2>1. n \in Node
    BY <1>1 DEF IsDir
  <2>2. used \in 0 .. MaxNodes
    BY DEF TreeInv, TreeType
  <2> QED BY <1>1, <2>1, <2>2, LookupFinds, NodesInRange
<1>2. CASE ~IsDir(n)
  BY <1>2 DEF Lookup
<1> QED BY <1>1, <1>2

\* h[k] is where the first k names of path lead from n.
DownBy(h, n, path) ==
  /\ h[0] = n /\ h[Len(path)] = At(n, path)
  /\ \A k \in 1 .. Len(path) : h[k] = Lookup(h[k - 1], path[k])

\* A path can be followed name by name.
PathsGoDown == \A n \in Node : \A D : \A path \in Seq(D) : \E h : DownBy(h, n, path)

LEMMA DownSteps == TreeInv => PathsGoDown
<1> SUFFICES ASSUME TreeInv, NEW b \in Node, NEW D, NEW s \in Seq(D)
             PROVE  \E h : DownBy(h, b, s)
  BY DEF PathsGoDown
<1>0. PICK n \in Nat : n = Len(s) /\ DOMAIN s = 1 .. n
  OBVIOUS
<1> DEFINE V == Node \cup {NULL}
           G == [p \in V \X (1 .. n) |-> Lookup(p[1], s[p[2]])]
           Eq(f) == f = [S \in SUBSET (1 .. n) |->
                           IF S = {} THEN b ELSE Lookup(f[S \ {Max(S)}], s[Max(S)])]
           f == CHOOSE f : Eq(f)
<1>1. At(b, s) = f[1 .. n]
  BY <1>0 DEF At, FoldLeft, MapThenFoldSet
<1>2. \E g : Eq(g)
  <2>1. \A v \in V, k \in 1 .. n : G[<<v, k>>] = Lookup(v, s[k]) /\ Lookup(v, s[k]) \in V
    <3> TAKE v \in V, k \in 1 .. n
    <3>1. Lookup(v, s[k]) \in V
      BY LookupType
    <3> QED BY <3>1
  <2>2. G \in [V \X (1 .. n) -> V]
    <3>1. \A p \in V \X (1 .. n) : Lookup(p[1], s[p[2]]) \in V
      <4> TAKE p \in V \X (1 .. n)
      <4>1. p[1] \in V
        OBVIOUS
      <4> QED BY <4>1, LookupType
    <3> QED BY <3>1
  <2>a. PICK GG, VV : GG = G /\ VV = V
    OBVIOUS
  <2>d. b \in V
    OBVIOUS
  <2> HIDE DEF G, V
  <2>b. n \in Nat /\ b \in VV /\ GG \in [VV \X (1 .. n) -> VV]
    BY <1>0, <2>a, <2>d, <2>2
  <2>c. \E g \in [SUBSET (1 .. n) -> VV] : FoldEquation(g, n, b, GG)
    BY ONLY <2>b, FoldExists, Zenon
  <2>3. PICK g \in [SUBSET (1 .. n) -> V] :
          \A S \in SUBSET (1 .. n) : g[S] = IF S = {} THEN b ELSE G[<<g[S \ {Max(S)}], Max(S)>>]
    BY <2>a, <2>c DEF FoldEquation
  <2>4. \A S \in SUBSET (1 .. n) : S # {} => Max(S) \in 1 .. n
    BY MaxInside
  <2>5. \A S \in SUBSET (1 .. n) : g[S] = IF S = {} THEN b ELSE Lookup(g[S \ {Max(S)}], s[Max(S)])
    BY <2>1, <2>3, <2>4
  <2>6. g = [S \in SUBSET (1 .. n) |-> IF S = {} THEN b ELSE Lookup(g[S \ {Max(S)}], s[Max(S)])]
    BY <2>5
  <2> QED BY <2>6
<1>3. Eq(f)
  BY <1>2
<1> HIDE DEF f
<1>4. f[1 .. 0] = b
  <2>1. 1 .. 0 = {} /\ {} \in SUBSET (1 .. n)
    OBVIOUS
  <2> QED BY <1>3, <2>1
<1>5. ASSUME NEW k \in 1 .. n PROVE f[1 .. k] = Lookup(f[1 .. k - 1], s[k])
  <2>1. k \in Nat /\ k \in 1 .. k /\ k <= n
    OBVIOUS
  <2>2. 1 .. k \in SUBSET (1 .. n) /\ 1 .. k # {} /\ (1 .. k) \ {k} = 1 .. k - 1
    <3>1. \A i \in 1 .. k : i \in 1 .. n
      BY <1>0, <2>1
    <3>2. \A i : i \in (1 .. k) \ {k} <=> i \in 1 .. k - 1
      BY <2>1
    <3> QED BY <2>1, <3>1, <3>2
  <2>3. Max(1 .. k) = k
    BY <2>1, MaxIsTop
  <2> QED BY <1>3, <2>2, <2>3
<1> DEFINE h == [k \in 0 .. n |-> f[1 .. k]]
<1>6. h[0] = b /\ \A k \in 1 .. n : h[k] = Lookup(h[k - 1], s[k])
  <2>1. 0 \in 0 .. n /\ \A k \in 1 .. n : k \in 0 .. n /\ k - 1 \in 0 .. n
    BY <1>0
  <2> QED BY <1>4, <1>5, <2>1
<1>7. h[n] = At(b, s)
  BY <1>0, <1>1
<1> HIDE DEF h
<1>8. DownBy(h, b, s)
  BY <1>0, <1>6, <1>7 DEF DownBy
<1> QED BY <1>8, Zenon

\* The entry of a name is the one that fs_lookup finds.
EntriesFound ==
  \A n \in Node : \A nm : \A i \in 1 .. Len(children[n]) :
    IsDir(n) /\ name[children[n][i]] = nm => Lookup(n, nm) = children[n][i]

LEMMA LookupIsEntry == TreeInv => EntriesFound
<1> SUFFICES ASSUME TreeInv, NEW n \in Node, NEW nm, NEW i \in 1 .. Len(children[n]),
                    IsDir(n), name[children[n][i]] = nm
             PROVE  Lookup(n, nm) = children[n][i]
  BY DEF EntriesFound
<1>1. children[n] \in Seq(Node)
  BY DEF TreeInv, TreeType
<1>2. HasEntry(n, nm)
  BY <1>1 DEF HasEntry
<1>3. PICK j \in 1 .. Len(children[n]) : children[n][j] = Lookup(n, nm) /\ name[children[n][j]] = nm
  BY <1>2, LookupFinds
<1>4. \A a, b \in DOMAIN children[n] : name[children[n][a]] = name[children[n][b]] => a = b
  BY DEF TreeInv, UniqueNames
<1>5. i = j
  <2>1. i \in DOMAIN children[n] /\ j \in DOMAIN children[n]
    BY <1>1
  <2> QED BY <1>3, <1>4, <2>1
<1> QED BY <1>3, <1>5

(***************************************************************************)
(* What cp -r leaves at its destination: a relation between the nodes that *)
(* were copied and their copies, which the copy builds up.                 *)
(***************************************************************************)
\* y is a copy of x, as far as the two nodes alone go.
Alike(x, y) == type[y] = type[x] /\ (content[x] # NULL => content[y] = content[x])

\* The first k entries of x have entries of y as their copies.
Matched(R, x, y, k) ==
  \A i \in 1 .. Len(children[x]) : i <= k =>
    \E j \in 1 .. Len(children[y]) : /\ name[children[y][j]] = name[children[x][i]]
                                     /\ <<children[x][i], children[y][j]>> \in R

\* All of a tree was copied.
Corresponds(R) ==
  /\ R \in SUBSET (Node \X Node)
  /\ \A x, y \in Node : <<x, y>> \in R => Alike(x, y) /\ Matched(R, x, y, Len(children[x]))

MirrorsAll == \A R : Corresponds(R) => \A s, d \in Node : <<s, d>> \in R => Mirrored(s, d)

\* Then every path leads from a copy to a copy.
LEMMA CorrespondingMirrors == TreeInv => MirrorsAll
<1> SUFFICES ASSUME TreeInv, NEW R, Corresponds(R), NEW s \in Node, NEW d \in Node, <<s, d>> \in R,
                    NEW path \in BoundedSeq({name[n] : n \in Nodes \ {Root}}, used),
                    At(s, path) # NULL
             PROVE  /\ At(d, path) # NULL /\ type[At(d, path)] = type[At(s, path)]
                    /\ content[At(s, path)] # NULL => content[At(d, path)] = content[At(s, path)]
  BY DEF MirrorsAll, Mirrored
<1>1. PICK D, q : path \in Seq(D) /\ q = path
  <2>1. path \in Seq({name[n] : n \in Nodes \ {Root}})
    <3>1. PICK S : S = {name[n] : n \in Nodes \ {Root}}
      OBVIOUS
    <3>2. PICK m \in 0 .. used : path \in [1 .. m -> S]
      BY <3>1 DEF BoundedSeq, SeqOf
    <3>3. m \in Nat
      BY DEF TreeInv, TreeType
    <3> QED BY <3>1, <3>2, <3>3
  <2> QED BY <2>1
<1>2. PICK n \in Nat : n = Len(q)
  BY <1>1
<1>3. PICK h : h[0] = s /\ h[n] = At(s, q) /\ \A k \in 1 .. n : h[k] = Lookup(h[k - 1], q[k])
  BY <1>1, <1>2, DownSteps DEF PathsGoDown, DownBy
<1>4. PICK g : g[0] = d /\ g[n] = At(d, q) /\ \A k \in 1 .. n : g[k] = Lookup(g[k - 1], q[k])
  BY <1>1, <1>2, DownSteps DEF PathsGoDown, DownBy
<1>5. PICK T : T = {k \in 0 .. n : h[k] = NULL \/ (h[k] \in Node /\ g[k] \in Node /\ <<h[k], g[k]>> \in R)}
  OBVIOUS
<1>6. 0 \in T
  BY <1>2, <1>3, <1>4, <1>5
<1>7. \A k \in 0 .. n - 1 : k \in T => k + 1 \in T
  <2> SUFFICES ASSUME NEW k \in 0 .. n - 1, k \in T PROVE k + 1 \in T
    OBVIOUS
  <2>1. k + 1 \in 1 .. n /\ k + 1 \in 0 .. n /\ (k + 1) - 1 = k
    BY <1>2
  <2>2. PICK x, y, nm : x = h[k] /\ y = g[k] /\ nm = q[k + 1]
    OBVIOUS
  <2>3. h[k + 1] = Lookup(x, nm) /\ g[k + 1] = Lookup(y, nm)
    BY <1>3, <1>4, <2>1, <2>2
  <2>4. CASE Lookup(x, nm) = NULL
    BY <1>5, <2>1, <2>3, <2>4
  <2>5. CASE Lookup(x, nm) # NULL
    <3>1. IsDir(x) /\ HasEntry(x, nm)
      BY <2>5, Zenon DEF Lookup
    <3>2. x \in Node /\ y \in Node /\ <<x, y>> \in R
      BY <1>5, <2>2, <3>1 DEF IsDir
    <3>3. PICK i \in 1 .. Len(children[x]) : children[x][i] = Lookup(x, nm) /\ name[children[x][i]] = nm
      BY <3>1, <3>2, LookupFinds
    <3>4. Alike(x, y) /\ Matched(R, x, y, Len(children[x])) /\ R \in SUBSET (Node \X Node)
      BY <3>2 DEF Corresponds
    <3>5. Len(children[x]) \in Nat
      BY <3>2 DEF TreeInv, TreeType
    <3>6. PICK j \in 1 .. Len(children[y]) : /\ name[children[y][j]] = nm
                                             /\ <<children[x][i], children[y][j]>> \in R
      BY <3>3, <3>4, <3>5 DEF Matched
    <3>7. IsDir(y)
      BY <3>1, <3>2, <3>4, NullAssumption DEF IsDir, Alike
    <3>8. Lookup(y, nm) = children[y][j]
      BY <3>2, <3>6, <3>7, LookupIsEntry DEF EntriesFound
    <3>9. children[x][i] \in Node /\ children[y][j] \in Node
      BY <3>4, <3>6
    <3> QED BY <1>5, <2>1, <2>3, <3>3, <3>6, <3>8, <3>9
  <2> QED BY <2>4, <2>5
<1>8. 0 .. n \subseteq T
  BY ONLY n \in Nat, <1>6, <1>7, UpTo
<1>9. n \in T
  BY <1>8
<1>10. h[n] # NULL
  BY <1>1, <1>3
<1>11. PICK x \in Node, y \in Node : x = h[n] /\ y = g[n] /\ <<x, y>> \in R
  BY <1>5, <1>9, <1>10
<1>12. Alike(x, y)
  BY <1>11 DEF Corresponds
<1>13. At(s, path) = x /\ At(d, path) = y
  BY <1>1, <1>3, <1>4, <1>11
<1>14. y # NULL
  BY NullAssumption
<1> QED BY <1>12, <1>13, <1>14, Zenon DEF Alike

\* What the copy of one entry does to the tree: it finds or makes entry e of name nm and
\* of the kind asked for in d, and leaves the rest as it is.
Extends(kind, d, e, nm) ==
  /\ Nodes \subseteq Nodes' /\ e \in Nodes' /\ e \in Node
  /\ type'[e] = kind /\ name'[e] = nm /\ parent'[e] = d
  /\ \A m \in Nodes : type'[m] = type[m] /\ name'[m] = name[m] /\ parent'[m] = parent[m]
  /\ \A m \in Node : m # e => parent'[m] = parent[m]
  /\ \A m \in Nodes \ {d} : children'[m] = children[m]
  /\ \A i \in 1 .. Len(children[d]) : i \in 1 .. Len(children'[d]) /\ children'[d][i] = children[d][i]
  /\ \E i \in 1 .. Len(children'[d]) : children'[d][i] = e
  /\ e \in Nodes => parent[e] = d /\ name[e] = nm

LEMMA FindOrCreateExtends ==
  ASSUME TreeInv, NEW kind, NEW d \in Nodes, IsDir(d), NEW nm, FindOrCreate(kind, d, nm),
         EntryOk(kind, d, nm)
  PROVE  Extends(kind, d, Entry(d, nm), nm)
<1>0. /\ Nodes \subseteq Node /\ d \in Node /\ used \in 0 .. MaxNodes
      /\ children \in [Node -> Seq(Node)] /\ parent \in [Node -> Node \cup {NULL}]
      /\ type \in [Node -> Type] /\ name \in [Node -> FileName]
  BY NodesInRange DEF TreeInv, TreeType
<1>1. CASE Lookup(d, nm) # NULL
  <2>1. PICK e : e = Lookup(d, nm) /\ e = Entry(d, nm)
    BY <1>1 DEF Entry
  <2>2. UNCHANGED tree /\ type[e] = kind
    BY <1>1, <2>1, Zenon DEF FindOrCreate, EntryOk
  <2>3. HasEntry(d, nm)
    BY <1>1, Zenon DEF Lookup
  <2>4. e \in Nodes /\ parent[e] = d /\ name[e] = nm /\ \E i \in 1 .. Len(children[d]) : children[d][i] = e
    <3>1. /\ Lookup(d, nm) \in Nodes /\ parent[Lookup(d, nm)] = d /\ name[Lookup(d, nm)] = nm
          /\ \E i \in 1 .. Len(children[d]) : children[d][i] = Lookup(d, nm)
      BY <1>0, <2>3, LookupFinds
    <3> QED BY <2>1, <3>1
  <2>5. Nodes' = Nodes
    BY <2>2 DEF Nodes, tree
  <2> QED BY <1>0, <2>1, <2>2, <2>4, <2>5 DEF Extends, tree
<1>2. CASE Lookup(d, nm) = NULL
  <2>1. PICK e : e = used + 1 /\ e = Entry(d, nm)
    BY <1>2 DEF Entry
  <2>2. CanAllocate /\ HasRoom(d) /\ CreateNode(kind, d, nm)
    BY <1>2, Zenon DEF FindOrCreate, EntryOk
  <2>3. /\ used' = e
        /\ type' = [type EXCEPT ![e] = kind]
        /\ name' = [name EXCEPT ![e] = nm]
        /\ parent' = [parent EXCEPT ![e] = d]
        /\ children' = [children EXCEPT ![d] = Append(@, e)]
    BY <2>1, <2>2 DEF CreateNode
  <2>4. e \in Node /\ e \notin Nodes /\ Nodes \subseteq Nodes' /\ e \in Nodes'
    BY <1>0, <2>1, <2>2, <2>3 DEF CanAllocate, Node, Nodes
  <2>5. PICK list \in Seq(Node) : list = children[d]
    BY <1>0
  <2>6. children'[d] = Append(list, e) /\ \A m \in Nodes \ {d} : children'[m] = children[m]
    BY <1>0, <2>3, <2>5
  <2>7. /\ \A i \in 1 .. Len(list) : i \in 1 .. Len(Append(list, e)) /\ Append(list, e)[i] = list[i]
        /\ \E i \in 1 .. Len(Append(list, e)) : Append(list, e)[i] = e
    <3>1. Len(Append(list, e)) = Len(list) + 1 /\ Append(list, e)[Len(list) + 1] = e /\ Len(list) \in Nat
      BY <2>4
    <3>2. Len(list) + 1 \in 1 .. Len(Append(list, e))
      BY <3>1
    <3>3. \A i \in 1 .. Len(list) : i \in 1 .. Len(Append(list, e)) /\ Append(list, e)[i] = list[i]
      BY <2>4, <3>1
    <3> QED BY <3>1, <3>2, <3>3
  <2>8. type'[e] = kind /\ name'[e] = nm /\ parent'[e] = d
    BY <1>0, <2>3, <2>4
  <2>9. /\ \A m \in Nodes : type'[m] = type[m] /\ name'[m] = name[m] /\ parent'[m] = parent[m]
        /\ \A m \in Node : m # e => parent'[m] = parent[m]
    BY <1>0, <2>3, <2>4
  <2> QED BY <2>1, <2>4, <2>5, <2>6, <2>7, <2>8, <2>9 DEF Extends
<1> QED BY <1>1, <1>2

\* The same of the contents.
LEMMA CopyNodeExtends ==
  ASSUME TreeInv, DOMAIN content = Node, NEW s \in Node, NEW d \in Nodes, IsDir(d), NEW nm, NEW callers,
         CopyNode(s, d, nm, callers), CopyOk(s, d, nm), NEW e, e = Entry(d, nm)
  PROVE  /\ Extends(type[s], d, e, nm)
         /\ \A m \in Node : m # e => content'[m] = content[m]
         /\ IsFile(s) /\ content[s] # NULL => content'[e] = content[s]
         /\ IsFile(s) => copyStack' = callers
         /\ ~IsFile(s) => copyStack' = Called(callers, s, e)
<1>1. type[s] \in {"file", "dir"} /\ s # NULL
  BY NullAssumption DEF TreeInv, TreeType, Type
<1>2. CASE IsFile(s)
  <2>1. type[s] = "file" /\ PutFile(d, nm, content[s]) /\ PutOk(d, nm, content[s]) /\ copyStack' = callers
    BY <1>2, Zenon DEF CopyNode, CopyOk, IsFile
  <2>2. FindOrCreate("file", d, nm) /\ EntryOk("file", d, nm)
    BY <2>1, Zenon DEF PutFile, PutOk
  <2>3. Extends("file", d, e, nm)
    BY <2>2, FindOrCreateExtends
  <2>4. content' = (IF content[s] # NULL THEN [content EXCEPT ![e] = content[s]] ELSE content)
    BY <2>1, Zenon DEF PutFile, data
  <2>5. e \in Node
    BY <2>3 DEF Extends
  <2> QED BY <1>2, <2>1, <2>3, <2>4, <2>5
<1>3. CASE ~IsFile(s)
  <2>1. type[s] = "dir"
    BY <1>1, <1>3 DEF IsFile
  <2>2. FindOrCreate("dir", d, nm) /\ EntryOk("dir", d, nm) /\ UNCHANGED content
    BY <1>3, Zenon DEF CopyNode, CopyOk, data
  <2>3. Extends("dir", d, e, nm)
    BY <2>2, FindOrCreateExtends
  <2>4. copyStack' = Called(callers, s, e)
    BY <1>3, Zenon DEF CopyNode, Called
  <2> QED BY <1>3, <2>1, <2>2, <2>3, <2>4
<1> QED BY <1>2, <1>3

(***************************************************************************)
(* While a copy is in progress: A is the tree that is copied, R what was   *)
(* copied so far.  No copy lands in A, and none is made twice, unless the  *)
(* copy goes into an ancestor of its source.                               *)
(***************************************************************************)
\* A is all that is below s.
Subtree(A, s) ==
  /\ A \subseteq Nodes /\ s \in A
  /\ \A m \in Node : parent[m] \in A => m \in A
  /\ \A m \in A : m = s \/ parent[m] \in A

\* x was copied to y because the parent of the one was copied to that of the other.
Below(R, x, y) ==
  /\ <<parent[x], parent[y]>> \in R /\ name[y] = name[x]
  /\ \E i \in 1 .. Len(children[parent[x]]) : children[parent[x]][i] = x

\* Each pair is of a node of A and a copy of it outside of A, which is of no other node.
Paired(A, R, s, d) ==
  /\ R \in SUBSET (A \X (Nodes \ A)) /\ <<s, d>> \in R
  /\ \A x, z, y \in Node : <<x, y>> \in R /\ <<z, y>> \in R => x = z
  /\ \A x, y \in Node : <<x, y>> \in R => (x = s /\ y = d) \/ Below(R, x, y)

AllAlike(R) == \A x, y \in Node : <<x, y>> \in R => Alike(x, y)

\* The calls in progress are of pairs, and what they have not copied yet is all that is
\* missing.
Pending(R, x, y) ==
  \E k \in 1 .. Len(copyStack) :
    copyStack[k].src = x /\ copyStack[k].dst = y /\ Matched(R, x, y, copyStack[k].next)

SoFar(R) ==
  /\ \A k \in 1 .. Len(copyStack) : <<copyStack[k].src, copyStack[k].dst>> \in R
  /\ \A x, y \in Node : <<x, y>> \in R => Matched(R, x, y, Len(children[x])) \/ Pending(R, x, y)

Copied(A, R, s, d) == Subtree(A, s) /\ Paired(A, R, s, d) /\ AllAlike(R) /\ SoFar(R)

CopyInv ==
  copyStack # <<>> => \/ IsAncestor(copyStack[1].dst, copyStack[1].src)
                      \/ \E A, R : Copied(A, R, copyStack[1].src, copyStack[1].dst)

\* The nodes below s are a subtree.
LEMMA BelowIsSubtree ==
  ASSUME TreeInv, NEW s \in Nodes
  PROVE  \E A \in SUBSET Nodes : Subtree(A, s) /\ \A m \in Nodes : m \in A <=> IsAncestor(s, m)
<1>0. /\ Nodes \subseteq Node /\ used \in 0 .. MaxNodes /\ parent \in [Node -> Node \cup {NULL}]
  BY NodesInRange DEF TreeInv, TreeType
<1>1. PICK A \in SUBSET Nodes : A = {m \in Nodes : IsAncestor(s, m)}
  OBVIOUS
<1>2. s \in A
  BY <1>1 DEF IsAncestor
<1>3. \A m \in Node : parent[m] # NULL => m \in Nodes /\ parent[m] \in Nodes
  <2> TAKE m \in Node
  <2> HAVE parent[m] # NULL
  <2>1. m \in Nodes
    BY <1>0 DEF TreeInv, FreshUnlinked, Unlinked, Nodes, Node
  <2>2. parent[m] \in Nodes
    BY <1>0 DEF TreeInv, FreshUnlinked, Unlinked, Nodes, Node
  <2> QED BY <2>1, <2>2
<1>4. ASSUME NEW m \in Node, parent[m] \in A PROVE m \in A
  <2>1. parent[m] # NULL /\ IsAncestor(s, parent[m])
    BY <1>0, <1>1, <1>4, NullAssumption
  <2>2. IsAncestor(s, m)
    BY <2>1 DEF IsAncestor, UpClosed
  <2> QED BY <1>1, <1>3, <2>1, <2>2
<1>5. ASSUME NEW m \in A, m # s PROVE parent[m] \in A
  <2>1. IsAncestor(s, m) /\ m \in Node
    BY <1>0, <1>1
  <2>2. parent[m] # NULL
    <3> SUFFICES ASSUME parent[m] = NULL PROVE FALSE
      OBVIOUS
    <3>1. {m} \in SUBSET Node /\ m \in {m} /\ UpClosed({m})
      BY <2>1 DEF UpClosed
    <3>2. s \in {m}
      BY <2>1, <3>1 DEF IsAncestor
    <3> QED BY <1>5, <3>2
  <2>3. ASSUME NEW S \in SUBSET Node, parent[m] \in S, UpClosed(S) PROVE s \in S
    <3>1. S \cup {m} \in SUBSET Node /\ m \in S \cup {m} /\ UpClosed(S \cup {m})
      BY <2>1, <2>3 DEF UpClosed
    <3>2. s \in S \cup {m}
      BY <2>1, <3>1 DEF IsAncestor
    <3> QED BY <1>5, <3>2
  <2>4. IsAncestor(s, parent[m])
    BY <2>3 DEF IsAncestor
  <2> QED BY <1>1, <1>3, <2>1, <2>2, <2>4
<1>6. Subtree(A, s)
  BY <1>0, <1>2, <1>4, <1>5 DEF Subtree
<1> QED BY <1>1, <1>6

\* The entry of a copy is not in the tree that is copied, which stays what it is.
LEMMA ExtendsSubtree ==
  ASSUME TreeInv, NEW A, NEW s, Subtree(A, s), NEW kind, NEW d, NEW e, NEW nm,
         Extends(kind, d, e, nm), d \notin A, e \notin A
  PROVE  Subtree(A, s)'
<1>1. A \subseteq Nodes' /\ s \in A
  BY DEF Subtree, Extends
<1>2. \A m \in Node : parent'[m] \in A => m \in A
  <2> TAKE m \in Node
  <2>1. CASE m = e
    BY <2>1 DEF Extends
  <2>2. CASE m # e
    BY <2>2 DEF Extends, Subtree
  <2> QED BY <2>1, <2>2
<1>3. \A m \in A : m = s \/ parent'[m] \in A
  BY DEF Subtree, Extends
<1> QED BY <1>1, <1>2, <1>3 DEF Subtree

\* How a copy begins.
LEMMA CopyStarts ==
  ASSUME IInv, OnlyFilesHold, NEW s \in Nodes, NEW d \in Nodes, IsDir(d), ~IsAncestor(s, d),
         NEW nm, CopyNode(s, d, nm, <<>>), copyStack' # <<>>
  PROVE  CopyInv'
<1>0. TreeInv /\ DOMAIN content = Node /\ Nodes \subseteq Node
  BY IInvParts, NodesInRange DEF IInv, TypeOK
<1>1. CopyOk(s, d, nm)
  BY Zenon DEF CopyNode
<1>2. PICK e : e = Entry(d, nm)
  OBVIOUS
<1>3. s \in Node /\ CopyNode(s, d, nm, <<>>)
  BY <1>0
<1>4. /\ Extends(type[s], d, e, nm)
      /\ \A m \in Node : m # e => content'[m] = content[m]
      /\ IsFile(s) => copyStack' = <<>>
      /\ ~IsFile(s) => copyStack' = Called(<<>>, s, e)
  BY <1>0, <1>1, <1>2, <1>3, CopyNodeExtends
<1>5. PICK f : f = [src |-> s, dst |-> e, next |-> 0]
  OBVIOUS
<1>6. ~IsFile(s) /\ copyStack' = <<f>> /\ f.src = s /\ f.dst = e /\ f.next = 0
  <2>1. Append(<<>>, f) = <<f>>
    OBVIOUS
  <2> QED BY <1>4, <1>5, <2>1 DEF Called
<1>7. Len(copyStack') = 1 /\ copyStack'[1] = f
  BY <1>6
<1>8. CASE e = s
  BY <1>6, <1>7, <1>8 DEF CopyInv, IsAncestor
<1>9. CASE e # s
  <2>1. PICK A \in SUBSET Nodes : Subtree(A, s) /\ \A m \in Nodes : m \in A <=> IsAncestor(s, m)
    BY <1>0, BelowIsSubtree
  <2>2. d \notin A
    BY <2>1
  <2>3. e \notin A
    <3> SUFFICES ASSUME e \in A PROVE FALSE
      OBVIOUS
    <3>1. e \in Nodes /\ parent[e] = d
      BY <1>4, <2>1 DEF Extends
    <3> QED BY <1>9, <2>1, <2>2, <3>1 DEF Subtree
  <2>4. Subtree(A, s)'
    BY <1>0, <1>4, <2>1, <2>2, <2>3, ExtendsSubtree
  <2>5. PICK R : R = {<<s, e>>}
    OBVIOUS
  <2>6. Paired(A, R, s, e)'
    <3>1. s \in A /\ e \in Nodes'
      BY <1>4, <2>1 DEF Extends, Subtree
    <3>2. R \in SUBSET (A \X (Nodes' \ A)) /\ <<s, e>> \in R
      BY <2>3, <2>5, <3>1
    <3>3. \A x, y : <<x, y>> \in R => x = s /\ y = e
      BY <2>5
    <3> QED BY <3>2, <3>3 DEF Paired
  <2>7. AllAlike(R)'
    <3>1. type[s] # "file" /\ s # e
      BY <1>3, <1>6, <1>9, NullAssumption DEF IsFile
    <3>2. content[s] = NULL /\ content'[s] = content[s] /\ type'[s] = type[s] /\ type'[e] = type[s]
      BY <1>3, <1>4, <3>1 DEF Extends, OnlyFilesHold
    <3>3. \A x, y : <<x, y>> \in R => x = s /\ y = e
      BY <2>5
    <3> QED BY <3>2, <3>3 DEF AllAlike, Alike
  <2>8. SoFar(R)'
    <3>1. \A x, y : <<x, y>> \in R => x = s /\ y = e
      BY <2>5
    <3>2. Matched(R, s, e, f.next)'
      BY <1>6 DEF Matched
    <3>3. Pending(R, s, e)'
      BY <1>6, <1>7, <3>2 DEF Pending
    <3> QED BY <1>6, <1>7, <2>5, <3>1, <3>3 DEF SoFar
  <2>9. Copied(A, R, s, e)'
    BY <2>4, <2>6, <2>7, <2>8 DEF Copied
  <2> QED BY <1>6, <1>7, <2>9 DEF CopyInv
<1> QED BY <1>8, <1>9

\* One iteration of the innermost call: child c of x, where x is copied to y, is copied
\* to e.  The calls made so far stay, the innermost of them one child further.
CopiesChild(x, y, c, e) ==
  LET N == Len(copyStack) IN
  /\ N \in Nat \ {0} /\ x \in Nodes /\ y \in Nodes /\ c \in Nodes /\ e \in Node
  /\ copyStack[N].src = x /\ copyStack[N].dst = y
  /\ copyStack[N].next + 1 \in 1 .. Len(children[x]) /\ children[x][copyStack[N].next + 1] = c
  /\ parent[c] = x
  /\ Extends(type[c], y, e, name[c])
  /\ \A m \in Node : m # e => content'[m] = content[m]
  /\ type[c] = "file" /\ content[c] # NULL => content'[e] = content[c]
  /\ Len(copyStack') \in {N, N + 1}
  /\ \A k \in 1 .. N : /\ copyStack'[k].src = copyStack[k].src /\ copyStack'[k].dst = copyStack[k].dst
                       /\ k # N => copyStack'[k].next = copyStack[k].next
  /\ copyStack'[N].next = copyStack[N].next + 1
  /\ type[c] = "dir" => Len(copyStack') = N + 1
  /\ Len(copyStack') = N + 1 =>
       copyStack'[N + 1].src = c /\ copyStack'[N + 1].dst = e /\ copyStack'[N + 1].next = 0

LEMMA CopyChildCopies ==
  ASSUME IInv, CopyChild, copyStack' # <<>>
  PROVE  \E x, y, c, e : CopiesChild(x, y, c, e)
<1>0. TreeInv /\ DOMAIN content = Node /\ Nodes \subseteq Node
  BY IInvParts, NodesInRange DEF IInv, TypeOK
<1>1. PICK N \in Nat \ {0} : N = Len(copyStack) /\ copyStack \in Seq(Frame)
  <2>1. copyStack \in Seq(Frame) /\ copyStack # <<>>
    BY DEF IInv, TypeOK, CopyChild
  <2>2. Len(copyStack) \in Nat \ {0}
    BY <2>1
  <2> QED BY <2>1, <2>2
<1>2. PICK f \in Frame : f = copyStack[N] /\ f = Last(copyStack) /\ CopyCallOk(f) /\ f.next \in Nat
  <2>1. copyStack[N] \in Frame /\ N \in DOMAIN copyStack
    BY <1>1
  <2>2. CopyCallOk(copyStack[N]) /\ copyStack[N] = Last(copyStack)
    BY <1>1, <2>1 DEF IInv, CallsOnTree, Last
  <2> QED BY <2>1, <2>2 DEF Frame
<1>3. PICK x \in Nodes, y \in Nodes : x = f.src /\ y = f.dst /\ IsDir(y)
  BY <1>2 DEF CopyCallOk
<1>4. PICK c, nm, callers :
        c = children[x][f.next + 1] /\ nm = name[c] /\ callers = [copyStack EXCEPT ![N].next = @ + 1]
  OBVIOUS
<1>5. f.next < Len(children[x]) /\ CopyNode(c, y, nm, callers)
  BY <1>1, <1>2, <1>3, <1>4 DEF CopyChild
<1>6. f.next + 1 \in 1 .. Len(children[x]) /\ c \in Node /\ parent[c] = x
  <2>1. children[x] \in Seq(Node) /\ x \in Node
    BY <1>0 DEF TreeInv, TreeType
  <2>2. f.next + 1 \in 1 .. Len(children[x])
    BY <1>2, <1>5, <2>1
  <2> QED BY <1>4, <2>1, <2>2, <1>0 DEF TreeInv, TreeLinks
<1>7. c \in Nodes
  <2>1. ~Unlinked(c)
    BY <1>0, <1>3, <1>6, NullAssumption DEF Unlinked
  <2> QED BY <1>0, <1>6, <2>1 DEF TreeInv, TreeType, FreshUnlinked, Nodes, Node
<1>8. PICK g : g = [f EXCEPT !.next = @ + 1]
  OBVIOUS
<1>9. g \in Frame /\ g.src = x /\ g.dst = y /\ g.next = f.next + 1
  BY <1>2, <1>3, <1>8 DEF Frame
<1>10. callers = [copyStack EXCEPT ![N] = g]
  BY <1>1, <1>2, <1>4, <1>8
<1>11. /\ callers \in Seq(Frame) /\ Len(callers) = N
       /\ \A k \in 1 .. N : callers[k] = IF k = N THEN g ELSE copyStack[k]
  BY <1>1, <1>9, <1>10
<1>12. CopyOk(c, y, nm)
  BY <1>5, Zenon DEF CopyNode
<1>13. PICK e : e = Entry(y, nm)
  OBVIOUS
<1>14. /\ Extends(type[c], y, e, nm)
       /\ \A m \in Node : m # e => content'[m] = content[m]
       /\ IsFile(c) /\ content[c] # NULL => content'[e] = content[c]
       /\ IsFile(c) => copyStack' = callers
       /\ ~IsFile(c) => copyStack' = Called(callers, c, e)
  BY <1>0, <1>3, <1>5, <1>6, <1>12, <1>13, CopyNodeExtends
<1>15. PICK h : h = [src |-> c, dst |-> e, next |-> 0]
  OBVIOUS
<1>16. /\ Len(Append(callers, h)) = N + 1 /\ Append(callers, h)[N + 1] = h
       /\ \A k \in 1 .. N : Append(callers, h)[k] = callers[k]
  BY <1>11
<1>17. /\ IsFile(c) <=> type[c] = "file"
       /\ h.src = c /\ h.dst = e /\ h.next = 0
  BY <1>6, <1>15, NullAssumption DEF IsFile
<1>18. /\ Len(copyStack') \in {N, N + 1}
       /\ \A k \in 1 .. N : copyStack'[k] = callers[k]
       /\ type[c] = "dir" => Len(copyStack') = N + 1
       /\ Len(copyStack') = N + 1 => copyStack'[N + 1] = h
  <2>1. CASE IsFile(c)
    BY <1>11, <1>14, <1>17, <2>1
  <2>2. CASE ~IsFile(c)
    <3>1. copyStack' = Append(callers, h)
      BY <1>14, <1>15, <2>2 DEF Called
    <3> QED BY <1>16, <3>1
  <2> QED BY <2>1, <2>2
<1>19. e \in Node
  BY <1>14 DEF Extends
<1>20. /\ \A k \in 1 .. N : /\ copyStack'[k].src = copyStack[k].src /\ copyStack'[k].dst = copyStack[k].dst
                            /\ k # N => copyStack'[k].next = copyStack[k].next
       /\ copyStack'[N].next = copyStack[N].next + 1
  <2>1. ASSUME NEW k \in 1 .. N PROVE copyStack'[k] = IF k = N THEN g ELSE copyStack[k]
    BY <1>11, <1>18
  <2>2. copyStack[N].src = x /\ copyStack[N].dst = y /\ N \in 1 .. N
    BY <1>2, <1>3
  <2>3. copyStack'[N] = g
    BY <2>1, <2>2
  <2>4. \A k \in 1 .. N : k # N => copyStack'[k] = copyStack[k]
    BY <2>1
  <2> QED BY <1>2, <1>9, <2>2, <2>3, <2>4
<1>21. type[c] = "file" /\ content[c] # NULL => content'[e] = content[c]
  BY <1>14, <1>17
<1>22. copyStack[N].src = x /\ copyStack[N].dst = y
       /\ copyStack[N].next + 1 \in 1 .. Len(children[x]) /\ children[x][copyStack[N].next + 1] = c
  BY <1>2, <1>3, <1>4, <1>6
<1>23. Len(copyStack') = N + 1 =>
         copyStack'[N + 1].src = c /\ copyStack'[N + 1].dst = e /\ copyStack'[N + 1].next = 0
  BY <1>17, <1>18
<1>24. CopiesChild(x, y, c, e)
  BY <1>1, <1>4, <1>6, <1>7, <1>14, <1>18, <1>19, <1>20, <1>21, <1>22, <1>23 DEF CopiesChild
<1> QED BY <1>24

\* Unless the copy goes into an ancestor of its source, the entry that is found or made
\* is not in the tree that is copied, and it is a copy of nothing else.
LEMMA EntryIsApart ==
  ASSUME IInv, Acyclic, CopyChain, NEW A, NEW R, NEW s, NEW d, Subtree(A, s), Paired(A, R, s, d), SoFar(R),
         s = copyStack[1].src, d = copyStack[1].dst, ~IsAncestor(d, s),
         NEW x, NEW y, NEW c, NEW e, CopiesChild(x, y, c, e)
  PROVE  /\ <<x, y>> \in R /\ x \in A /\ y \notin A /\ c \in A /\ e \notin A
         /\ \A z \in Node : <<z, e>> \in R => z = c
<1>0. /\ TreeInv /\ Nodes \subseteq Node /\ parent \in [Node -> Node \cup {NULL}]
      /\ children \in [Node -> Seq(Node)]
  BY IInvParts, NodesInRange DEF IInv, TypeOK
<1>1. PICK N \in Nat \ {0} : N = Len(copyStack) /\ copyStack[N].src = x /\ copyStack[N].dst = y
  BY DEF CopiesChild
<1>2. <<x, y>> \in R
  BY <1>1 DEF SoFar
<1>3. x \in A /\ y \in Nodes \ A /\ x \in Nodes
  BY <1>2 DEF Paired, Subtree
<1>4. c \in Nodes /\ parent[c] = x /\ e \in Node
  BY DEF CopiesChild
<1>5. c \in A
  BY <1>0, <1>3, <1>4 DEF Subtree
<1>6. IsAncestor(d, y)
  <2>1. N \in DOMAIN copyStack
    BY <1>1 DEF IInv, TypeOK
  <2> QED BY <1>1, <2>1 DEF CopyChain
<1>7. ASSUME e \in Nodes PROVE parent[e] = y /\ name[e] = name[c]
  BY <1>7 DEF CopiesChild, Extends
<1>8. e \notin A
  <2> SUFFICES ASSUME e \in A PROVE FALSE
    OBVIOUS
  <2>1. parent[e] = y
    BY <1>7 DEF Subtree
  <2>2. e = s
    BY <1>3, <2>1 DEF Subtree
  <2>3. IsAncestor(d, e)
    BY <1>0, <1>3, <1>4, <1>6, <2>1, NullAssumption DEF IsAncestor, UpClosed
  <2> QED BY <2>2, <2>3
<1>9. ASSUME NEW z \in Node, <<z, e>> \in R PROVE z = c
  <2>1. e \in Nodes
    BY <1>9 DEF Paired
  <2>2. parent[e] = y /\ name[e] = name[c] /\ parent[e] # NULL
    BY <1>0, <1>3, <1>7, <2>1, NullAssumption
  <2>3. e # d
    BY <1>4, <1>6, <2>2 DEF Acyclic
  <2>4. Below(R, z, e)
    BY <1>4, <1>9, <2>3 DEF Paired
  <2>5. parent[z] = x
    <3>1. <<parent[z], y>> \in R /\ R \in SUBSET (A \X (Nodes \ A))
      BY <2>2, <2>4 DEF Below, Paired
    <3>2. parent[z] \in Node /\ x \in Node /\ y \in Node
      BY <1>0, <1>3, <3>1 DEF Subtree
    <3> QED BY <1>2, <3>1, <3>2 DEF Paired
  <2>6. PICK i \in 1 .. Len(children[x]) : children[x][i] = z
    BY <2>4, <2>5 DEF Below
  <2>7. PICK j \in 1 .. Len(children[x]) : children[x][j] = c
    BY DEF CopiesChild
  <2>8. name[z] = name[c]
    BY <2>2, <2>4 DEF Below
  <2>9. i \in DOMAIN children[x] /\ j \in DOMAIN children[x] /\ x \in Node
    BY <1>0, <1>3, <2>6, <2>7
  <2>10. i = j
    BY <1>0, <2>6, <2>7, <2>8, <2>9 DEF TreeInv, UniqueNames
  <2> QED BY <2>6, <2>7, <2>10
<1> QED BY <1>2, <1>3, <1>5, <1>8, <1>9

\* The pairs after the iteration.
LEMMA CopiesChildPaired ==
  ASSUME TreeInv, NEW A, NEW R, NEW s, NEW d, Subtree(A, s), Paired(A, R, s, d),
         NEW x, NEW y, NEW c, NEW e, CopiesChild(x, y, c, e),
         <<x, y>> \in R, x \in A, y \notin A, c \in A, e \notin A, \A z \in Node : <<z, e>> \in R => z = c
  PROVE  Paired(A, R \cup {<<c, e>>}, s, d)'
<1>0. Nodes \subseteq Node
  BY NodesInRange DEF TreeInv, TreeType
<1>1. /\ Extends(type[c], y, e, name[c]) /\ parent[c] = x /\ c \in Nodes /\ e \in Node
      /\ \E i \in 1 .. Len(children[x]) : children[x][i] = c
  BY DEF CopiesChild
<1>2. Nodes \subseteq Nodes' /\ e \in Nodes'
  BY <1>1 DEF Extends
<1>3. PICK Q : Q = R \cup {<<c, e>>}
  OBVIOUS
<1>4. Q \in SUBSET (A \X (Nodes' \ A)) /\ <<s, d>> \in Q
  BY <1>2, <1>3 DEF Paired
<1>5. \A u, w, v \in Node : <<u, v>> \in Q /\ <<w, v>> \in Q => u = w
  BY <1>1, <1>3 DEF Paired
<1>6. ASSUME NEW u \in Node, NEW v \in Node, <<u, v>> \in Q, ~(u = s /\ v = d) PROVE Below(Q, u, v)'
  <2>1. CASE <<u, v>> \in R
    <3>1. u \in A /\ u \in Nodes /\ v \in Nodes /\ Below(R, u, v)
      BY <1>6, <2>1 DEF Paired, Subtree
    <3>2. <<parent[u], parent[v]>> \in Q /\ parent[u] \in A
      BY <1>3, <3>1 DEF Below, Paired
    <3>3. parent'[u] = parent[u] /\ parent'[v] = parent[v] /\ name'[u] = name[u] /\ name'[v] = name[v]
      BY <1>1, <3>1 DEF Extends
    <3>4. children'[parent[u]] = children[parent[u]]
      BY <1>1, <3>2 DEF Extends, Subtree
    <3> QED BY <3>1, <3>2, <3>3, <3>4 DEF Below
  <2>2. CASE u = c /\ v = e
    <3>1. parent'[u] = x /\ parent'[v] = y /\ name'[u] = name'[v] /\ <<x, y>> \in Q
      BY <1>1, <1>3, <2>2 DEF Extends
    <3>2. children'[x] = children[x]
      BY <1>1 DEF Extends, Subtree
    <3> QED BY <1>1, <2>2, <3>1, <3>2 DEF Below
  <2> QED BY <1>3, <1>6, <2>1, <2>2
<1>7. Paired(A, Q, s, d)'
  BY <1>4, <1>5, <1>6 DEF Paired
<1> QED BY <1>3, <1>7

\* Only the new copy changes its content, and it gets that of its source.
LEMMA CopiesChildAlike ==
  ASSUME TreeInv, OnlyFilesHold, NEW A, NEW R, NEW s, NEW d, Subtree(A, s), Paired(A, R, s, d), AllAlike(R),
         NEW x, NEW y, NEW c, NEW e, CopiesChild(x, y, c, e),
         c \in A, e \notin A, \A z \in Node : <<z, e>> \in R => z = c
  PROVE  AllAlike(R \cup {<<c, e>>})'
<1>0. Nodes \subseteq Node
  BY NodesInRange DEF TreeInv, TreeType
<1>1. /\ Extends(type[c], y, e, name[c]) /\ c \in Nodes /\ e \in Node
      /\ \A m \in Node : m # e => content'[m] = content[m]
      /\ content[c] # NULL => content'[e] = content[c]
  BY <1>0 DEF CopiesChild, OnlyFilesHold
<1>2. Alike(c, e)'
  BY <1>0, <1>1 DEF Alike, Extends
<1>3. ASSUME NEW u \in Node, NEW v \in Node, <<u, v>> \in R, v # e PROVE Alike(u, v)'
  <2>1. u \in A /\ u \in Nodes /\ v \in Nodes /\ Alike(u, v)
    BY <1>3 DEF Paired, Subtree, AllAlike
  <2> QED BY <1>1, <1>3, <2>1 DEF Alike, Extends
<1>4. ASSUME NEW u \in Node, NEW v \in Node, <<u, v>> \in R \cup {<<c, e>>} PROVE Alike(u, v)'
  <2>1. (u = c /\ v = e) \/ (<<u, v>> \in R /\ v # e)
    BY <1>4
  <2> QED BY <1>2, <1>3, <2>1
<1> QED BY <1>4 DEF AllAlike

\* What was matched stays matched.
LEMMA CopiesChildMatched ==
  ASSUME TreeInv, NEW A, NEW R, NEW s, NEW d, Subtree(A, s), Paired(A, R, s, d),
         NEW x, NEW y, NEW c, NEW e, CopiesChild(x, y, c, e), y \notin A,
         NEW u \in Node, NEW v \in Node, <<u, v>> \in R, NEW Q, R \subseteq Q, NEW k, Matched(R, u, v, k)
  PROVE  Matched(Q, u, v, k)' /\ children'[u] = children[u]
<1>0. Nodes \subseteq Node /\ children \in [Node -> Seq(Node)]
  BY NodesInRange DEF TreeInv, TreeType
<1>1. Extends(type[c], y, e, name[c])
  BY DEF CopiesChild
<1>2. u \in A /\ u \in Nodes /\ v \in Nodes
  BY DEF Paired, Subtree
<1>3. children'[u] = children[u]
  BY <1>1, <1>2 DEF Extends
<1>4. ASSUME NEW j \in 1 .. Len(children[v])
      PROVE  j \in 1 .. Len(children'[v]) /\ children'[v][j] = children[v][j]
  BY <1>1, <1>2 DEF Extends
<1>5. ASSUME NEW i \in 1 .. Len(children'[u]), i <= k
      PROVE  \E j \in 1 .. Len(children'[v]) : /\ name'[children'[v][j]] = name'[children'[u][i]]
                                               /\ <<children'[u][i], children'[v][j]>> \in Q
  <2>1. PICK j \in 1 .. Len(children[v]) : /\ name[children[v][j]] = name[children[u][i]]
                                           /\ <<children[u][i], children[v][j]>> \in R
    BY <1>3, <1>5 DEF Matched
  <2>2. children[u][i] \in Nodes /\ children[v][j] \in Nodes
    BY <2>1 DEF Paired, Subtree
  <2>3. name'[children[u][i]] = name[children[u][i]] /\ name'[children[v][j]] = name[children[v][j]]
    BY <1>1, <2>2 DEF Extends
  <2> QED BY <1>3, <1>4, <2>1, <2>3
<1> QED BY <1>3, <1>5 DEF Matched

\* The innermost call has one child more behind it.
LEMMA CopiesChildSoFar ==
  ASSUME TreeInv, NEW A, NEW R, NEW s, NEW d, Subtree(A, s), Paired(A, R, s, d), SoFar(R),
         NEW x, NEW y, NEW c, NEW e, CopiesChild(x, y, c, e),
         <<x, y>> \in R, x \in A, y \notin A, c \in A, e \notin A,
         copyStack \in Seq(Frame)
  PROVE  SoFar(R \cup {<<c, e>>})'
<1>0. Nodes \subseteq Node /\ children \in [Node -> Seq(Node)] /\ type \in [Node -> Type]
  BY NodesInRange DEF TreeInv, TreeType
<1>1. PICK Q : Q = R \cup {<<c, e>>}
  OBVIOUS
<1>2. PICK N \in Nat \ {0} : N = Len(copyStack)
  BY DEF CopiesChild
<1>3. /\ copyStack[N].src = x /\ copyStack[N].dst = y
      /\ copyStack[N].next + 1 \in 1 .. Len(children[x]) /\ children[x][copyStack[N].next + 1] = c
      /\ Extends(type[c], y, e, name[c]) /\ c \in Nodes /\ e \in Node
      /\ Len(copyStack') \in {N, N + 1}
      /\ \A k \in 1 .. N : copyStack'[k].src = copyStack[k].src /\ copyStack'[k].dst = copyStack[k].dst
      /\ \A k \in 1 .. N : k # N => copyStack'[k].next = copyStack[k].next
      /\ copyStack'[N].next = copyStack[N].next + 1
      /\ type[c] = "dir" => Len(copyStack') = N + 1
      /\ Len(copyStack') = N + 1 =>
           copyStack'[N + 1].src = c /\ copyStack'[N + 1].dst = e /\ copyStack'[N + 1].next = 0
  BY <1>2 DEF CopiesChild
<1>4. ASSUME NEW k \in 1 .. Len(copyStack') PROVE <<copyStack'[k].src, copyStack'[k].dst>> \in Q
  <2>1. k \in 1 .. N \/ (k = N + 1 /\ Len(copyStack') = N + 1)
    BY <1>2, <1>3
  <2>2. CASE k \in 1 .. N
    BY <1>1, <1>2, <1>3, <2>2 DEF SoFar
  <2> QED BY <1>1, <1>3, <2>1, <2>2
<1>5. \A k \in 1 .. N : k \in 1 .. Len(copyStack')
  BY <1>2, <1>3
<1>6. ASSUME NEW u \in Node, NEW v \in Node, <<u, v>> \in R
      PROVE  Matched(Q, u, v, Len(children[u]))' \/ Pending(Q, u, v)'
  <2>1. CASE Matched(R, u, v, Len(children[u]))
    <3>1. PICK k : k = Len(children[u])
      OBVIOUS
    <3>2. Matched(Q, u, v, k)' /\ children'[u] = children[u]
      BY <1>1, <1>6, <2>1, <3>1, CopiesChildMatched
    <3>3. Matched(Q, u, v, Len(children[u]))'
      BY <3>1, <3>2 DEF Matched
    <3> QED BY <3>3
  <2>2. CASE Pending(R, u, v)
    <3>1. PICK k \in 1 .. N : copyStack[k].src = u /\ copyStack[k].dst = v /\ Matched(R, u, v, copyStack[k].next)
      BY <1>2, <2>2 DEF Pending
    <3>2. PICK n : n = copyStack[k].next
      OBVIOUS
    <3>3. Matched(Q, u, v, n)' /\ children'[u] = children[u]
      BY <1>1, <1>6, <3>1, <3>2, CopiesChildMatched
    <3>4. CASE k # N
      <4>1. copyStack'[k].next = n /\ copyStack'[k].src = u /\ copyStack'[k].dst = v
        BY <1>3, <3>1, <3>2, <3>4
      <4>2. Matched(Q, u, v, copyStack[k].next)'
        BY <3>3, <4>1 DEF Matched
      <4> QED BY <1>5, <4>1, <4>2 DEF Pending
    <3>5. CASE k = N
      <4>1. u = x /\ v = y /\ copyStack'[N].next = n + 1 /\ n + 1 \in 1 .. Len(children[x])
            /\ children[x][n + 1] = c
        BY <1>3, <3>1, <3>2, <3>5
      <4>2. n \in Nat
        <5>1. copyStack[N] \in Frame
          BY <1>2
        <5> QED BY <3>2, <3>5, <5>1 DEF Frame
      <4>3. PICK j \in 1 .. Len(children'[y]) : children'[y][j] = e
        BY <1>3 DEF Extends
      <4>4. name'[e] = name'[c] /\ <<c, e>> \in Q
        BY <1>1, <1>3 DEF Extends
      <4>5. ASSUME NEW i \in 1 .. Len(children'[u]), i <= n + 1
            PROVE  \E b \in 1 .. Len(children'[v]) : /\ name'[children'[v][b]] = name'[children'[u][i]]
                                                     /\ <<children'[u][i], children'[v][b]>> \in Q
        <5>1. CASE i <= n
          BY <3>3, <5>1 DEF Matched
        <5>2. CASE i = n + 1
          BY <3>3, <4>1, <4>3, <4>4, <5>2
        <5> QED BY <4>2, <4>5, <5>1, <5>2
      <4>6. Matched(Q, u, v, copyStack[N].next)'
        BY <4>1, <4>5 DEF Matched
      <4> QED BY <1>3, <1>5, <3>1, <3>5, <4>1, <4>6 DEF Pending
    <3> QED BY <3>4, <3>5
  <2> QED BY <1>6, <2>1, <2>2 DEF SoFar
<1>7. Matched(Q, c, e, Len(children[c]))' \/ Pending(Q, c, e)'
  <2>1. CASE type[c] = "dir"
    <3>1. N + 1 \in 1 .. Len(copyStack') /\ copyStack'[N + 1].src = c /\ copyStack'[N + 1].dst = e
          /\ copyStack'[N + 1].next = 0
      BY <1>2, <1>3, <2>1
    <3>2. Matched(Q, c, e, copyStack[N + 1].next)'
      BY <3>1 DEF Matched
    <3> QED BY <3>1, <3>2 DEF Pending
  <2>2. CASE type[c] # "dir"
    <3>1. c \in Node /\ children[c] = <<>>
      BY <1>0, <1>3, <2>2 DEF TreeInv, TreeLinks, IsDir
    <3>2. children'[c] = children[c]
      BY <1>3 DEF Extends
    <3> QED BY <3>1, <3>2 DEF Matched
  <2> QED BY <2>1, <2>2
<1>8. SoFar(Q)'
  BY <1>1, <1>4, <1>6, <1>7 DEF SoFar
<1> QED BY <1>1, <1>8

\* One iteration keeps the relation.
LEMMA CopyChildKeepsCopyInv ==
  ASSUME IInv, Acyclic, CopyChain, OnlyFilesHold, CopyInv, CopyChild, copyStack' # <<>>
  PROVE  CopyInv'
<1>0. /\ TreeInv /\ Nodes \subseteq Node /\ copyStack \in Seq(Frame) /\ copyStack # <<>>
      /\ parent \in [Node -> Node \cup {NULL}]
  BY IInvParts, NodesInRange DEF IInv, TypeOK, CopyChild
<1>1. PICK x, y, c, e : CopiesChild(x, y, c, e)
  BY CopyChildCopies
<1>2. PICK s, d : s = copyStack[1].src /\ d = copyStack[1].dst
  OBVIOUS
<1>3. s \in Nodes /\ d \in Node /\ copyStack'[1].src = s /\ copyStack'[1].dst = d
  <2>1. 1 \in DOMAIN copyStack /\ 1 \in 1 .. Len(copyStack)
    BY <1>0
  <2>2. CopyCallOk(copyStack[1])
    BY <2>1 DEF IInv, CallsOnTree
  <2> QED BY <1>0, <1>1, <1>2, <2>1, <2>2 DEF CopiesChild, CopyCallOk
<1>4. CASE IsAncestor(d, s)
  <2>1. \A a \in Node, b \in Nodes : IsAncestor(a, b) => IsAncestor(a, b)'
    BY CopyChildGrows
  <2>2. IsAncestor(d, s)'
    BY <1>3, <1>4, <2>1
  <2> QED BY <1>3, <2>2 DEF CopyInv, IsAncestor
<1>5. CASE ~IsAncestor(d, s)
  <2>1. PICK A, R : Copied(A, R, s, d)
    BY <1>0, <1>2, <1>5 DEF CopyInv
  <2>2. Subtree(A, s) /\ Paired(A, R, s, d) /\ AllAlike(R) /\ SoFar(R)
    BY <2>1 DEF Copied
  <2>3. /\ <<x, y>> \in R /\ x \in A /\ y \notin A /\ c \in A /\ e \notin A
        /\ \A z \in Node : <<z, e>> \in R => z = c
    BY <1>1, <1>2, <1>5, <2>2, EntryIsApart
  <2>4. PICK Q : Q = R \cup {<<c, e>>}
    OBVIOUS
  <2>5. Subtree(A, s)'
    <3>1. Extends(type[c], y, e, name[c])
      BY <1>1 DEF CopiesChild
    <3> QED BY <1>0, <2>2, <2>3, <3>1, ExtendsSubtree
  <2>6. Paired(A, R \cup {<<c, e>>}, s, d)'
    BY <1>0, <1>1, <2>2, <2>3, CopiesChildPaired
  <2>7. AllAlike(R \cup {<<c, e>>})'
    BY <1>0, <1>1, <2>2, <2>3, CopiesChildAlike
  <2>8. SoFar(R \cup {<<c, e>>})'
    BY <1>0, <1>1, <2>2, <2>3, CopiesChildSoFar
  <2>9. Copied(A, R \cup {<<c, e>>}, s, d)'
    BY <2>5, <2>6, <2>7, <2>8 DEF Copied
  <2> QED BY <1>3, <2>9 DEF CopyInv
<1> QED BY <1>4, <1>5

\* When the innermost call returns all of its source is copied.
LEMMA CopyReturnFinishes ==
  ASSUME IInv, CopyReturn, NEW A, NEW R, NEW s, NEW d, Copied(A, R, s, d),
         NEW u \in Node, NEW v \in Node, <<u, v>> \in R
  PROVE  \/ Matched(R, u, v, Len(children[u]))
         \/ \E k \in 1 .. Len(copyStack') : /\ copyStack'[k].src = u /\ copyStack'[k].dst = v
                                            /\ Matched(R, u, v, copyStack'[k].next)
<1>0. copyStack \in Seq(Frame) /\ children \in [Node -> Seq(Node)]
  BY DEF IInv, TypeOK
<1>1. PICK N \in Nat \ {0} : N = Len(copyStack) /\ copyStack[N].next >= Len(children[copyStack[N].src])
  <2>1. copyStack # <<>> /\ Last(copyStack).next >= Len(children[Last(copyStack).src])
    BY DEF CopyReturn
  <2>2. Len(copyStack) \in Nat \ {0} /\ Last(copyStack) = copyStack[Len(copyStack)]
    BY <1>0, <2>1 DEF Last
  <2> QED BY <2>1, <2>2
<1>2. Len(copyStack') = N - 1 /\ \A k \in 1 .. N - 1 : copyStack'[k] = copyStack[k]
  <2>1. copyStack' = Front(copyStack) /\ copyStack # <<>> /\ Len(copyStack) = N
    BY <1>1 DEF CopyReturn
  <2>2. /\ Len(Front(copyStack)) = Len(copyStack) - 1
        /\ \A k \in 1 .. Len(Front(copyStack)) : Front(copyStack)[k] = copyStack[k]
    BY <1>0, <2>1, FrontKeeps
  <2> QED BY <2>1, <2>2
<1>3. CASE Pending(R, u, v)
  <2>1. PICK k \in 1 .. N : copyStack[k].src = u /\ copyStack[k].dst = v /\ Matched(R, u, v, copyStack[k].next)
    BY <1>1, <1>3 DEF Pending
  <2>2. CASE k = N
    <3>1. copyStack[N].next \in Nat
      <4>1. copyStack[N] \in Frame
        BY <1>0, <1>1
      <4> QED BY <4>1 DEF Frame
    <3>2. PICK n \in Nat : n = copyStack[N].next /\ n >= Len(children[u]) /\ Matched(R, u, v, n)
      BY <1>1, <2>1, <2>2, <3>1
    <3>3. \A i \in 1 .. Len(children[u]) : i <= n
      BY <1>0, <3>2
    <3>4. Matched(R, u, v, Len(children[u]))
      BY <3>2, <3>3 DEF Matched
    <3> QED BY <3>4
  <2>3. CASE k # N
    <3>1. k \in 1 .. Len(copyStack') /\ copyStack'[k] = copyStack[k]
      BY <1>1, <1>2, <2>3
    <3> QED BY <2>1, <3>1
  <2> QED BY <2>2, <2>3
<1> QED BY <1>3 DEF Copied, SoFar

LEMMA CopyReturnKeepsCopyInv ==
  ASSUME IInv, CopyInv, CopyReturn, copyStack' # <<>>
  PROVE  CopyInv'
<1>0. copyStack \in Seq(Frame) /\ copyStack' = Front(copyStack) /\ copyStack # <<>>
      /\ UNCHANGED <<used, type, name, parent, children, content>>
  BY DEF IInv, TypeOK, CopyReturn, tree, data
<1>1. Len(copyStack') = Len(copyStack) - 1 /\ \A k \in 1 .. Len(copyStack') : copyStack'[k] = copyStack[k]
  BY <1>0, FrontKeeps
<1>2. PICK s, d : s = copyStack[1].src /\ d = copyStack[1].dst
  OBVIOUS
<1>3. 1 \in 1 .. Len(copyStack') /\ copyStack'[1].src = s /\ copyStack'[1].dst = d
  <2>1. copyStack' \in Seq(Frame)
    BY <1>0, FrontKeeps
  <2> QED BY <1>1, <1>2, <2>1
<1>4. CASE IsAncestor(d, s)
  BY <1>0, <1>3, <1>4 DEF CopyInv, IsAncestor, UpClosed
<1>5. CASE ~IsAncestor(d, s)
  <2>1. PICK A, R : Copied(A, R, s, d)
    BY <1>0, <1>2, <1>5 DEF CopyInv
  <2>2. Subtree(A, s)' /\ Paired(A, R, s, d)' /\ AllAlike(R)'
    BY <1>0, <2>1 DEF Copied, Subtree, Paired, Below, AllAlike, Alike, Nodes
  <2>3. ASSUME NEW u \in Node, NEW v \in Node, <<u, v>> \in R
        PROVE  Matched(R, u, v, Len(children[u]))' \/ Pending(R, u, v)'
    <3>1. \/ Matched(R, u, v, Len(children[u]))
          \/ \E k \in 1 .. Len(copyStack') : /\ copyStack'[k].src = u /\ copyStack'[k].dst = v
                                             /\ Matched(R, u, v, copyStack'[k].next)
      BY <2>1, <2>3, CopyReturnFinishes
    <3>3. CASE Matched(R, u, v, Len(children[u]))
      BY <1>0, <3>3 DEF Matched
    <3>4. ASSUME NEW k \in 1 .. Len(copyStack'), copyStack'[k].src = u, copyStack'[k].dst = v,
                 Matched(R, u, v, copyStack'[k].next)
          PROVE  Pending(R, u, v)'
      <4>1. PICK n : n = copyStack'[k].next
        OBVIOUS
      <4>2. Matched(R, u, v, n)'
        BY <1>0, <3>4, <4>1 DEF Matched
      <4>3. Matched(R, u, v, copyStack[k].next)'
        BY <4>1, <4>2 DEF Matched
      <4>4. k \in 1 .. Len(copyStack') /\ copyStack'[k].src = u /\ copyStack'[k].dst = v
        BY <3>4
      <4> QED BY <4>3, <4>4 DEF Pending
    <3> QED BY <3>1, <3>3, <3>4
  <2>4. SoFar(R)'
    <3>1. \A k \in 1 .. Len(copyStack') : <<copyStack'[k].src, copyStack'[k].dst>> \in R
      <4> TAKE k \in 1 .. Len(copyStack')
      <4>1. k \in 1 .. Len(copyStack) /\ copyStack'[k] = copyStack[k]
        BY <1>0, <1>1
      <4> QED BY <2>1, <4>1 DEF Copied, SoFar
    <3> QED BY <2>3, <3>1 DEF SoFar
  <2>5. Copied(A, R, s, d)'
    BY <2>2, <2>4 DEF Copied
  <2> QED BY <1>3, <2>5 DEF CopyInv
<1> QED BY <1>4, <1>5

\* Only cp starts a copy.
LEMMA OnlyCpStarts ==
  ASSUME IInv, [Next]_vars, copyStack = <<>>, copyStack' # <<>>
  PROVE  \E s, d \in Nodes : \E nm : IsDir(d) /\ ~IsAncestor(s, d) /\ CopyNode(s, d, nm, <<>>)
<1>1. Handles \subseteq Nodes
  BY HandlesAreNodes
<1>2. CASE Command
  <2>1. ASSUME NEW s \in Handles, NEW d \in Nodes, IsDir(d), NEW nm, NEW r, Cp(s, d, nm, r)
        PROVE  \E a, b \in Nodes : \E x : IsDir(b) /\ ~IsAncestor(a, b) /\ CopyNode(a, b, x, <<>>)
    BY <1>1, <2>1 DEF Cp, CpRefused
  <2> QED BY <1>2, <2>1 DEF Command, Refuse, Cd, Rmdir, Rm, Touch, Mkdir, Redirect, RmRecursive, Mv, stacks
<1>3. CASE RemoveStep
  BY <1>3 DEF RemoveStep, RemoveDescend, RemoveReturn
<1>4. CASE CopyStep
  BY <1>4 DEF CopyStep, CopyChild, CopyReturn
<1>5. CASE UNCHANGED vars
  BY <1>5 DEF vars, stacks
<1> QED BY <1>2, <1>3, <1>4, <1>5 DEF Next

LEMMA NextKeepsCopyInv ==
  ASSUME IInv, Acyclic, CopyChain, OnlyFilesHold, CopyInv, [Next]_vars
  PROVE  CopyInv'
<1>1. CASE copyStack' = <<>>
  BY <1>1 DEF CopyInv
<1>2. CASE copyStack = <<>> /\ copyStack' # <<>>
  <2>1. PICK s \in Nodes, d \in Nodes : \E nm : IsDir(d) /\ ~IsAncestor(s, d) /\ CopyNode(s, d, nm, <<>>)
    BY <1>2, OnlyCpStarts
  <2>2. PICK nm : IsDir(d) /\ ~IsAncestor(s, d) /\ CopyNode(s, d, nm, <<>>)
    BY <2>1
  <2> QED BY <1>2, <2>2, CopyStarts
<1>3. CASE copyStack # <<>> /\ copyStack' # <<>>
  <2>1. CASE UNCHANGED vars
    <3>1. UNCHANGED <<used, type, name, parent, children, content, copyStack>>
      BY <2>1 DEF vars, tree, data, stacks
    <3>2. PICK s, d : s = copyStack[1].src /\ d = copyStack[1].dst
      OBVIOUS
    <3>3. IsAncestor(d, s) => IsAncestor(d, s)'
      BY <3>1 DEF IsAncestor, UpClosed
    <3>4. ASSUME NEW A, NEW R, Copied(A, R, s, d) PROVE Copied(A, R, s, d)'
      <4>1. Subtree(A, s)' /\ Paired(A, R, s, d)' /\ AllAlike(R)'
        BY <3>1, <3>4 DEF Copied, Subtree, Paired, Below, AllAlike, Alike, Nodes
      <4>2. SoFar(R)'
        BY <3>1, <3>4 DEF Copied, SoFar, Pending, Matched
      <4> QED BY <4>1, <4>2 DEF Copied
    <3>5. copyStack'[1].src = s /\ copyStack'[1].dst = d
      BY <3>1, <3>2
    <3>6. IsAncestor(d, s) \/ \E A, R : Copied(A, R, s, d)
      BY <1>3, <3>2 DEF CopyInv
    <3>7. IsAncestor(d, s)' \/ \E A, R : Copied(A, R, s, d)'
      BY <3>3, <3>4, <3>6
    <3> QED BY <3>5, <3>7 DEF CopyInv, IsAncestor
  <2> QED BY <1>3, <2>1, OnlyCopies, CopyChildKeepsCopyInv, CopyReturnKeepsCopyInv
<1> QED BY <1>1, <1>2, <1>3

LEMMA SpecCopyInv == Spec => [](CopyChain /\ CopyInv)
<1>1. Init => CopyChain /\ OnlyFilesHold /\ CopyInv
  BY InitOnlyFilesHold DEF Init, CopyChain, CopyInv
<1>2. IInv /\ CopyChain /\ [Next]_vars => CopyChain'
  BY NextKeepsCopyChain
<1>3. IInv /\ IInv' /\ OnlyFilesHold /\ [Next]_vars => OnlyFilesHold'
  BY NextKeepsOnlyFilesHold
<1>4. IInv /\ Acyclic /\ CopyChain /\ OnlyFilesHold /\ CopyInv /\ [Next]_vars => CopyInv'
  BY NextKeepsCopyInv
<1>5. Spec => []CopyChain
  BY <1>1, <1>2, SpecIInv, PTL DEF Spec
<1>6. Spec => []OnlyFilesHold
  BY <1>1, <1>3, SpecIInv, PTL DEF Spec
<1>7. Spec => []CopyInv
  BY <1>1, <1>4, <1>5, <1>6, SpecIInv, NoCycles, PTL DEF Spec
<1> QED BY <1>5, <1>7, PTL

\* Whatever cp -r copies, and however much of it the destination already held: when it
\* reports success every path below the source leads, below the destination, to an entry
\* of the same kind and of the same content.
LEMMA CopyLeavesAll == Spec => [][CopyArrives]_vars
<1>1. ASSUME IInv, IInv', CopyInv, [Next]_vars, NEW s \in Node, NEW d \in Node, CopySucceeds(s, d),
             ~IsAncestor(d, s)
      PROVE  Mirrored(s, d)'
  <2>0. copyStack # <<>> /\ copyStack' = <<>> /\ ret' = "ok" /\ copyStack[1].src = s /\ copyStack[1].dst = d
    BY <1>1 DEF CopySucceeds
  <2>1. CopyReturn
    <3>1. ~CopyChild
      <4> SUFFICES ASSUME CopyChild PROVE FALSE
        OBVIOUS
      <4>1. PICK c, y, nm, callers :
              CopyNode(c, y, nm, callers) /\ callers = [copyStack EXCEPT ![Len(copyStack)].next = @ + 1]
        BY DEF CopyChild
      <4>2. CopyOk(c, y, nm)
        BY <2>0, <4>1 DEF CopyNode, Report
      <4>3. copyStack' = callers \/ \E f : copyStack' = Append(callers, f)
        BY <4>1, <4>2 DEF CopyNode
      <4>4. copyStack \in Seq(Frame)
        BY <1>1 DEF IInv, TypeOK
      <4>5. Len(copyStack) \in DOMAIN copyStack
        BY <2>0, <4>4
      <4>6. DOMAIN callers = DOMAIN copyStack /\ DOMAIN copyStack = 1 .. Len(copyStack)
        BY <4>1, <4>4
      <4> QED BY <2>0, <4>3, <4>5, <4>6
    <3>2. ~UNCHANGED vars
      BY <2>0 DEF vars, stacks
    <3> QED BY <1>1, <2>0, <3>1, <3>2, OnlyCopies
  <2>2. PICK A, R : Copied(A, R, s, d)
    BY <1>1, <2>0 DEF CopyInv
  <2>3. UNCHANGED <<used, type, name, parent, children, content>>
    BY <2>1 DEF CopyReturn, tree, data
  <2>4. \A u, v \in Node : <<u, v>> \in R => Alike(u, v) /\ Matched(R, u, v, Len(children[u]))
    <3> TAKE u, v \in Node
    <3> HAVE <<u, v>> \in R
    <3>1. 1 .. Len(copyStack') = {}
      BY <2>0
    <3>2. Matched(R, u, v, Len(children[u]))
      BY <1>1, <2>1, <2>2, <3>1, CopyReturnFinishes
    <3> QED BY <2>2, <3>2 DEF Copied, AllAlike
  <2>5. <<s, d>> \in R /\ R \in SUBSET (Node \X Node)
    <3>1. Nodes \subseteq Node
      BY <1>1, NodesInRange DEF IInv, TypeOK
    <3> QED BY <2>2, <3>1 DEF Copied, Paired, Subtree
  <2>6. Corresponds(R)'
    BY <2>3, <2>4, <2>5 DEF Corresponds, Alike, Matched
  <2>7. MirrorsAll'
    <3>1. TreeInv'
      BY <1>1, IInvParts, PTL
    <3> QED BY <3>1, CorrespondingMirrors, PTL
  <2> QED BY <2>5, <2>6, <2>7 DEF MirrorsAll
<1>2. IInv /\ IInv' /\ CopyInv /\ [Next]_vars => CopyArrives
  BY <1>1 DEF CopyArrives
<1> QED BY <1>2, SpecCopyInv, SpecIInv, PTL DEF Spec

\* Unless it goes into an ancestor of its source, a copy changes no list and no content
\* below what it copies, whatever it finds at its destination.
LEMMA CopyKeepsSource == Spec => [][SourceStays]_vars
<1> DEFINE Stays(s) == \A m \in Nodes : IsAncestor(s, m) => children'[m] = children[m] /\ content'[m] = content[m]
           SourceKept == LET s == copyStack[1].src
                        d == copyStack[1].dst
                    IN ~IsAncestor(d, s) => Stays(s)
<1>1. ASSUME IInv, CopyChain, CopyInv, [Next]_vars, copyStack # <<>> PROVE SourceKept
  <2>1. CASE CopyChild
    <3>1. PICK s, d : s = copyStack[1].src /\ d = copyStack[1].dst
      OBVIOUS
    <3> SUFFICES ASSUME ~IsAncestor(d, s), NEW m \in Nodes, IsAncestor(s, m)
                 PROVE  children'[m] = children[m] /\ content'[m] = content[m]
      BY <3>1
    <3>2. PICK A, R : Subtree(A, s) /\ Paired(A, R, s, d) /\ SoFar(R)
      BY <1>1, <3>1 DEF CopyInv, Copied
    <3>3. /\ Nodes \subseteq Node /\ parent \in [Node -> Node \cup {NULL}]
          /\ copyStack \in Seq(Frame)
      BY <1>1, NodesInRange DEF IInv, TypeOK
    <3>4. m \in A
      <4> SUFFICES ASSUME m \notin A PROVE FALSE
        OBVIOUS
      <4>1. UpClosed(Node \ A)
        BY <3>2, <3>3 DEF UpClosed, Subtree
      <4>2. s \in Node \ A
        BY <3>3, <4>1 DEF IsAncestor
      <4> QED BY <3>2, <4>2 DEF Subtree
    <3>5. PICK N \in Nat, y \in Nodes :
            /\ N = Len(copyStack) /\ N \in 1 .. N /\ y = copyStack[N].dst
            /\ \A n \in Nodes : children'[n] # children[n] => n = y
            /\ \A n \in Nodes : content'[n] # content[n] => parent[n] = y
      BY <1>1, <2>1, <3>3, CopyChildGrows
    <3>6. y \notin A
      <4>1. <<copyStack[N].src, y>> \in R
        BY <3>2, <3>5 DEF SoFar
      <4> QED BY <3>2, <4>1 DEF Paired
    <3>7. IsAncestor(d, y)
      BY <1>1, <3>1, <3>3, <3>5 DEF CopyChain
    <3>8. parent[m] # y
      <4> SUFFICES ASSUME parent[m] = y PROVE FALSE
        OBVIOUS
      <4>1. m = s
        BY <3>2, <3>4, <3>6 DEF Subtree
      <4>2. IsAncestor(d, m)
        BY <3>3, <3>5, <3>7, NullAssumption DEF IsAncestor, UpClosed
      <4> QED BY <4>1, <4>2
    <3> QED BY <3>4, <3>5, <3>6, <3>8
  <2>2. CASE UNCHANGED <<tree, data>>
    BY <2>2 DEF tree, data
  <2>3. CopyChild \/ UNCHANGED <<tree, data>>
    BY <1>1, OnlyCopies DEF CopyReturn, vars
  <2> QED BY <2>1, <2>2, <2>3
<1>2. IInv /\ CopyChain /\ CopyInv /\ [Next]_vars => SourceStays
  BY <1>1 DEF SourceStays
<1> QED BY <1>2, SpecCopyInv, SpecIInv, PTL DEF Spec

\* cp -r that reports success mirrors what it was given, for trees of every size and depth:
\* all of the source has arrived, and no step on the way has changed the source, unless the
\* copy went into an ancestor of it.
THEOREM CopiesMirror == Spec => CopyMirrors
<1> QED BY CopyLeavesAll, CopyKeepsSource, PTL DEF CopyMirrors
=============================================================================
