--------------------------- MODULE CommandsProofs ---------------------------
(***************************************************************************)
(* What holds of the command lines of module Commands for every set of     *)
(* lines, every depth of the paths in them and every size of the pools.    *)
(*                                                                         *)
(* A path is a fold over its pieces, so what is proved of paths goes       *)
(* through the intermediate nodes of that fold: that no path leaves the    *)
(* nodes that FileSystem gives its handlers, that creating a node changes  *)
(* no path that led somewhere, and where a path of one more piece leads.   *)
(* The inductive invariant adds to that of FileSystem what a line being    *)
(* executed keeps from one operand, or one piece of mkdir -p, to the next. *)
(***************************************************************************)
EXTENDS CommandsProperties, FileSystemProofs

-----------------------------------------------------------------------------
(***************************************************************************)
(* Paths.                                                                  *)
(***************************************************************************)
\* A path leads from a node to a node, or nowhere.
LEMMA StepType ==
  ASSUME TreeInv, NEW n \in Node \cup {NULL}, NEW piece
  PROVE  Step(n, piece) \in Node \cup {NULL}
<1>1. Lookup(n, piece) \in Node \cup {NULL}
  <2>1. CASE IsDir(n)
    <3>1. n \in Node
      BY <2>1 DEF IsDir
    <3>2. used \in 0 .. MaxNodes
      BY DEF TreeInv, TreeType
    <3> QED BY <2>1, <3>1, <3>2, LookupFinds, NodesInRange
  <2>2. CASE ~IsDir(n)
    BY <2>2 DEF Lookup
  <2> QED BY <2>1, <2>2
<1>2. StepUp(n) \in Node \cup {NULL}
  BY DEF StepUp, TreeInv, TreeType
<1> QED BY <1>1, <1>2 DEF Step

\* h[k] is where the first k pieces of s lead from b.
LedBy(h, b, s) ==
  /\ h[0] = b /\ h[Len(s)] = FoldLeft(Step, b, s)
  /\ \A k \in 1 .. Len(s) : h[k] = Step(h[k - 1], s[k])

\* A path can be followed piece by piece.
PathsLead ==
  \A b \in Node \cup {NULL} : \A D : \A s \in Seq(D) :
    \E h \in [0 .. Len(s) -> Node \cup {NULL}] : LedBy(h, b, s)

LEMMA LedSteps == TreeInv => PathsLead
<1> SUFFICES ASSUME TreeInv, NEW b \in Node \cup {NULL}, NEW D, NEW s \in Seq(D)
             PROVE  \E h \in [0 .. Len(s) -> Node \cup {NULL}] : LedBy(h, b, s)
  BY DEF PathsLead
<1>0. PICK n \in Nat : n = Len(s) /\ DOMAIN s = 1 .. n
  OBVIOUS
<1> DEFINE V == Node \cup {NULL}
           G == [p \in V \X (1 .. n) |-> Step(p[1], s[p[2]])]
           Eq(f) == f = [S \in SUBSET (1 .. n) |->
                           IF S = {} THEN b ELSE Step(f[S \ {Max(S)}], s[Max(S)])]
           f == CHOOSE f : Eq(f)
<1>1. FoldLeft(Step, b, s) = f[1 .. n]
  BY <1>0 DEF FoldLeft, MapThenFoldSet
<1>2. \E g : Eq(g)
  <2>1. \A v \in V, k \in 1 .. n : G[<<v, k>>] = Step(v, s[k]) /\ Step(v, s[k]) \in V
    <3> TAKE v \in V, k \in 1 .. n
    <3>1. Step(v, s[k]) \in V
      BY StepType
    <3> QED BY <3>1
  <2>2. G \in [V \X (1 .. n) -> V]
    <3>1. \A p \in V \X (1 .. n) : Step(p[1], s[p[2]]) \in V
      <4> TAKE p \in V \X (1 .. n)
      <4>1. p[1] \in V
        OBVIOUS
      <4> QED BY <4>1, StepType
    <3> QED BY <3>1
  <2>a. PICK GG, VV : GG = G /\ VV = V
    OBVIOUS
  <2>d. b \in V
    OBVIOUS
  <2> HIDE DEF G, V
  <2>b. n \in Nat /\ b \in VV /\ GG \in [VV \X (1 .. n) -> VV]
    BY <1>0, <2>a, <2>d, <2>2
  <2>c. \E g \in [SUBSET (1 .. n) -> VV] : FoldEquation(g, n, b, GG)
    BY ONLY <2>b, FoldExists, Zenon
  <2>3. PICK g \in [SUBSET (1 .. n) -> V] :
          \A S \in SUBSET (1 .. n) : g[S] = IF S = {} THEN b ELSE G[<<g[S \ {Max(S)}], Max(S)>>]
    BY <2>a, <2>c DEF FoldEquation
  <2>4. \A S \in SUBSET (1 .. n) : S # {} => Max(S) \in 1 .. n
    BY MaxInside
  <2>5. \A S \in SUBSET (1 .. n) : g[S] = IF S = {} THEN b ELSE Step(g[S \ {Max(S)}], s[Max(S)])
    BY <2>1, <2>3, <2>4
  <2>6. g = [S \in SUBSET (1 .. n) |-> IF S = {} THEN b ELSE Step(g[S \ {Max(S)}], s[Max(S)])]
    BY <2>5
  <2> QED BY <2>6
<1>3. Eq(f)
  BY <1>2
<1> HIDE DEF f
<1>4. f[1 .. 0] = b
  <2>1. 1 .. 0 = {} /\ {} \in SUBSET (1 .. n)
    OBVIOUS
  <2> QED BY <1>3, <2>1
<1>5. ASSUME NEW k \in 1 .. n PROVE f[1 .. k] = Step(f[1 .. k - 1], s[k])
  <2>2. k \in Nat /\ k \in 1 .. k /\ k <= n
    OBVIOUS
  <2>1. 1 .. k \in SUBSET (1 .. n) /\ 1 .. k # {} /\ (1 .. k) \ {k} = 1 .. k - 1
    <3>1. \A i \in 1 .. k : i \in 1 .. n
      BY <1>0, <2>2
    <3>2. \A i : i \in (1 .. k) \ {k} <=> i \in 1 .. k - 1
      BY <2>2
    <3> QED BY <2>2, <3>1, <3>2
  <2>3. Max(1 .. k) = k
    BY <2>2, MaxIsTop
  <2> QED BY <1>3, <2>1, <2>3
<1> DEFINE h == [k \in 0 .. n |-> f[1 .. k]]
<1>6. h[0] = b /\ \A k \in 1 .. n : h[k] = Step(h[k - 1], s[k])
  <2>1. 0 \in 0 .. n /\ \A k \in 1 .. n : k \in 0 .. n /\ k - 1 \in 0 .. n
    BY <1>0
  <2> QED BY <1>4, <1>5, <2>1
<1>7. h[n] = FoldLeft(Step, b, s)
  BY <1>0, <1>1
<1> HIDE DEF h
<1>8. h \in [0 .. n -> V]
  <2> DEFINE T == {k \in 0 .. n : h[k] \in V}
  <2>1. 0 \in T
    <3>1. b \in V /\ 0 \in 0 .. n
      BY <1>0
    <3> QED BY <1>6, <3>1
  <2>2. ASSUME NEW k \in 0 .. n - 1, k \in T PROVE k + 1 \in T
    <3>1. k + 1 \in 1 .. n /\ k + 1 \in 0 .. n /\ (k + 1) - 1 = k
      BY <1>0
    <3>2. h[k] \in V
      BY <2>2
    <3>3. h[k + 1] = Step(h[k], s[k + 1])
      BY <1>6, <3>1
    <3>4. h[k + 1] \in V
      BY <3>2, <3>3, StepType
    <3> QED BY <3>1, <3>4
  <2>3. PICK TT : TT = T
    OBVIOUS
  <2> HIDE DEF T
  <2>4. n \in Nat /\ 0 \in TT /\ \A k \in 0 .. n - 1 : k \in TT => k + 1 \in TT
    BY <1>0, <2>1, <2>2, <2>3
  <2>5. 0 .. n \subseteq TT
    BY ONLY <2>4, UpTo
  <2>6. \A k \in 0 .. n : h[k] \in V
    BY <2>3, <2>5 DEF T
  <2>7. h = [k \in 0 .. n |-> h[k]]
    BY DEF h
  <2> QED BY <2>6, <2>7
<1> QED BY <1>0, <1>6, <1>7, <1>8 DEF LedBy

\* The empty path leads nowhere else, and one piece more is one step more.
LEMMA LedEmpty ==
  TreeInv => \A b \in Node \cup {NULL} : FoldLeft(Step, b, <<>>) = b
<1> SUFFICES ASSUME TreeInv, NEW b \in Node \cup {NULL} PROVE FoldLeft(Step, b, <<>>) = b
  OBVIOUS
<1>1. <<>> \in Seq({}) /\ Len(<<>>) = 0
  OBVIOUS
<1>2. PICK h : LedBy(h, b, <<>>)
  BY <1>1, LedSteps DEF PathsLead
<1> QED BY <1>1, <1>2 DEF LedBy

PathsGoOn ==
  \A b \in Node \cup {NULL} : \A D : \A s \in Seq(D) : \A k \in 0 .. Len(s) - 1 :
    FoldLeft(Step, b, SubSeq(s, 1, k + 1)) = Step(FoldLeft(Step, b, SubSeq(s, 1, k)), s[k + 1])

LEMMA LedMore == TreeInv => PathsGoOn
<1> SUFFICES ASSUME TreeInv, NEW b \in Node \cup {NULL}, NEW D, NEW s \in Seq(D), NEW k \in 0 .. Len(s) - 1
             PROVE  FoldLeft(Step, b, SubSeq(s, 1, k + 1)) = Step(FoldLeft(Step, b, SubSeq(s, 1, k)), s[k + 1])
  BY DEF PathsGoOn
<1>1. PICK a, c : a = SubSeq(s, 1, k) /\ c = SubSeq(s, 1, k + 1)
  OBVIOUS
<1>2. k \in Nat /\ k + 1 \in Nat /\ k + 1 \in 1 .. Len(s) /\ (k + 1) - 1 = k /\ k + 1 \in 1 .. k + 1
  OBVIOUS
<1>3. /\ a \in Seq(D) /\ Len(a) = k /\ \A i \in 1 .. k : a[i] = s[i]
      /\ c \in Seq(D) /\ Len(c) = k + 1 /\ \A i \in 1 .. k + 1 : c[i] = s[i]
  BY <1>1, <1>2
<1>4. PICK g : LedBy(g, b, a)
  BY <1>3, LedSteps DEF PathsLead
<1>5. PICK h : LedBy(h, b, c)
  BY <1>3, LedSteps DEF PathsLead
<1>6. \A i \in 1 .. k : i \in 1 .. k + 1
  BY <1>2
<1>7. \A i \in 1 .. k : g[i - 1] = h[i - 1] => g[i] = h[i]
  <2> TAKE i \in 1 .. k
  <2>1. g[i] = Step(g[i - 1], a[i])
    BY <1>3, <1>4 DEF LedBy
  <2>2. h[i] = Step(h[i - 1], c[i])
    BY <1>3, <1>5, <1>6 DEF LedBy
  <2>3. a[i] = c[i]
    BY <1>3, <1>6
  <2> QED BY <2>1, <2>2, <2>3
<1>8. g[0] = h[0]
  BY <1>4, <1>5 DEF LedBy
<1>9. g[k] = h[k]
  <2>1. \A i \in 0 .. k : g[i] = h[i]
    <3>1. k \in Nat /\ BuiltAlike(k, g, h)
      BY <1>2, <1>7, <1>8 DEF BuiltAlike
    <3> QED BY <3>1, StepsAgree DEF AgreeUpTo
  <2> QED BY <1>2, <2>1
<1>10. h[k + 1] = Step(h[k], s[k + 1])
  BY <1>2, <1>3, <1>5 DEF LedBy
<1>11. h[k + 1] = FoldLeft(Step, b, c) /\ g[k] = FoldLeft(Step, b, a)
  BY <1>3, <1>4, <1>5 DEF LedBy
<1> QED BY <1>1, <1>9, <1>10, <1>11

\* No path leaves a set of nodes that no step leaves.
LEMMA LedInside ==
  ASSUME TreeInv, NEW S \in SUBSET (Node \cup {NULL}), \A n \in S : \A piece : Step(n, piece) \in S,
         NEW b \in S, NEW D, NEW s \in Seq(D),
         NEW h, LedBy(h, b, s)
  PROVE  \A k \in 0 .. Len(s) : h[k] \in S
<1>0. PICK n \in Nat : n = Len(s)
  OBVIOUS
<1>1. PICK T : T = {k \in 0 .. n : h[k] \in S}
  OBVIOUS
<1>2. 0 \in T
  <2>1. h[0] = b /\ 0 \in 0 .. n
    BY <1>0 DEF LedBy
  <2> QED BY <1>1, <2>1
<1>3. \A k \in 0 .. n - 1 : k \in T => k + 1 \in T
  <2> SUFFICES ASSUME NEW k \in 0 .. n - 1, k \in T PROVE k + 1 \in T
    OBVIOUS
  <2>1. k + 1 \in 1 .. n /\ k + 1 \in 0 .. n /\ (k + 1) - 1 = k
    BY <1>0
  <2>2. h[k + 1] = Step(h[k], s[k + 1])
    BY <1>0, <2>1 DEF LedBy
  <2>3. h[k + 1] \in S
    BY <1>1, <2>2
  <2> QED BY <1>1, <2>1, <2>3
<1>4. 0 .. n \subseteq T
  BY ONLY <1>0, <1>2, <1>3, UpTo
<1> QED BY <1>0, <1>1, <1>4

\* Where a path leads from a handle, a handle is.
LEMMA StepInHandles ==
  ASSUME TreeInv
  PROVE  \A n \in Handles \cup {NULL} : \A piece : Step(n, piece) \in Handles \cup {NULL}
<1> SUFFICES ASSUME NEW n \in Handles \cup {NULL}, NEW piece
             PROVE  Step(n, piece) \in Handles \cup {NULL}
  OBVIOUS
<1>0. n \in Node \cup {NULL}
  BY DEF Handles
<1>1. Step(n, piece) \in Node \cup {NULL}
  BY <1>0, StepType
<1>2. CASE n = NULL
  BY <1>2 DEF Step, StepUp, Lookup, IsDir
<1>3. CASE n \in Handles /\ Step(n, piece) # NULL
  <2>0. Handles \subseteq Node
    BY DEF Handles
  <2>1. n \in Node /\ n # NULL
    BY <1>3, <2>0, NullAssumption
  <2>2. ASSUME NEW S \in SUBSET Node, Root \in S /\ cwd \in S /\ UpClosed(S) /\ DownClosed(S)
        PROVE  Step(n, piece) \in S
    <3>1. n \in S
      BY <1>3, <2>2 DEF Handles
    <3>2. CASE piece \in {".", ".."}
      BY <2>2, <3>1, <3>2 DEF Step, StepUp, UpClosed
    <3>3. CASE piece \notin {".", ".."}
      <4>1. Step(n, piece) = Lookup(n, piece)
        BY <3>3 DEF Step
      <4>2. IsDir(n) /\ HasEntry(n, piece)
        BY <1>3, <4>1 DEF Lookup
      <4>3. PICK i \in 1 .. Len(children[n]) : children[n][i] = Lookup(n, piece)
        BY <2>1, <4>2, LookupFinds
      <4>4. children[n] \in Seq(Node)
        BY <2>1 DEF TreeInv, TreeType
      <4> QED BY <2>2, <3>1, <4>1, <4>3, <4>4 DEF DownClosed
    <3> QED BY <3>2, <3>3
  <2> QED BY <1>1, <1>3, <2>2 DEF Handles
<1> QED BY <1>2, <1>3

LEMMA LedToHandles ==
  ASSUME TreeInv, NEW b \in Handles \cup {NULL}, NEW D, NEW s \in Seq(D)
  PROVE  FoldLeft(Step, b, s) \in Handles \cup {NULL}
<1>1. PICK H : H = Handles \cup {NULL}
  OBVIOUS
<1>2. H \in SUBSET (Node \cup {NULL})
  BY <1>1 DEF Handles
<1>3. \A n \in H : \A piece : Step(n, piece) \in H
  BY <1>1, StepInHandles
<1>4. b \in Node \cup {NULL} /\ b \in H
  BY <1>1, <1>2
<1>5. PICK h : LedBy(h, b, s)
  BY <1>4, LedSteps DEF PathsLead
<1>6. \A k \in 0 .. Len(s) : h[k] \in H
  BY <1>2, <1>3, <1>4, <1>5, LedInside
<1>7. h[Len(s)] \in H
  BY <1>6
<1> QED BY <1>1, <1>5, <1>7 DEF LedBy

\* Paths as they are typed lead to handles.
LEMMA StartInHandles ==
  ASSUME IInv
  PROVE  Root \in Handles /\ cwd \in Handles /\ \A p : Start(p) \in Handles
BY NodesInRange DEF IInv, TypeOK, Handles, Start

LEMMA PiecesType ==
  ASSUME NEW p \in Path
  PROVE  Pieces(p) \in Seq(Piece)
<1>1. p.segs \in Seq(Seq(Piece))
  BY DEF Path
<1> QED BY <1>1, FlattenType DEF Pieces

LEMMA ResolveInHandles ==
  ASSUME IInv, NEW p \in Path
  PROVE  Resolve(p) \in Handles \cup {NULL}
<1>1. TreeInv /\ Start(p) \in Handles
  BY IInvParts, StartInHandles
<1>2. Pieces(p) \in Seq(Piece)
  BY PiecesType
<1> QED BY <1>1, <1>2, LedToHandles DEF Resolve

LEMMA ParentDirInHandles ==
  ASSUME IInv, NEW p \in Path, ParentDir(p) # NULL
  PROVE  ParentDir(p) \in Handles /\ IsDir(ParentDir(p)) /\ (p.segs # <<>> \/ ~p.abs)
<1>1. CASE p.segs = <<>>
  BY <1>1, StartInHandles DEF ParentDir, IInv, CallsOnTree
<1>2. CASE p.segs # <<>>
  <2>1. p.segs \in Seq(Seq(Piece)) /\ p.abs \in BOOLEAN /\ p.slash \in BOOLEAN
    BY DEF Path
  <2>2. PICK q : q = [p EXCEPT !.segs = Front(p.segs)]
    OBVIOUS
  <2>3. Len(p.segs) \in Nat \ {0}
    BY <1>2, <2>1, EmptySeq
  <2>4. Front(p.segs) \in Seq(Seq(Piece))
    BY <2>1, <2>3, FrontKeeps
  <2>5. q \in Path
    BY <2>2, <2>4 DEF Path
  <2>6. Resolve(q) \in Handles \cup {NULL}
    BY <2>5, ResolveInHandles
  <2>7. ParentDir(p) = IF IsDir(Resolve(q)) THEN Resolve(q) ELSE NULL
    BY <1>2, <2>2 DEF ParentDir
  <2> QED BY <1>2, <2>6, <2>7
<1> QED BY <1>1, <1>2

\* A step that takes no node back and turns no directory into a file, or the reverse.
KindsStay == \A n \in Nodes : n \in Nodes' /\ type'[n] = type[n]

LEMMA SameKindsStay ==
  ASSUME UNCHANGED <<used, type>>
  PROVE  KindsStay
BY DEF KindsStay, Nodes

LEMMA FindOrCreateKinds ==
  ASSUME TreeInv, NEW kind, NEW d, NEW nm, FindOrCreate(kind, d, nm)
  PROVE  KindsStay
<1>1. CASE UNCHANGED tree
  BY <1>1, SameKindsStay DEF tree
<1>2. CASE CreateNode(kind, d, nm) /\ CanAllocate
  <2>1. used' = used + 1 /\ type' = [type EXCEPT ![used + 1] = kind]
    BY <1>2 DEF CreateNode
  <2>2. used \in Nat /\ MaxNodes \in Nat /\ used < MaxNodes
    BY <1>2, SizeAssumption DEF TreeInv, TreeType, CanAllocate
  <2>3. \A n \in Nodes : n \in Nodes' /\ n # used + 1
    BY <2>1, <2>2 DEF Nodes
  <2> QED BY <2>1, <2>3 DEF KindsStay
<1> QED BY <1>1, <1>2 DEF FindOrCreate, CreateNode

LEMMA NextKinds ==
  ASSUME IInv, [Next]_vars
  PROVE  KindsStay
<1>0. TreeInv
  BY IInvParts
<1>1. ASSUME NEW n, FsRemove(n) PROVE UNCHANGED <<used, type>>
  BY <1>1 DEF FsRemove, Detach, tree
<1>2. ASSUME NEW s, NEW d, NEW nm, NEW callers, CopyNode(s, d, nm, callers) PROVE KindsStay
  <2>1. \E kind : FindOrCreate(kind, d, nm)
    BY <1>2 DEF CopyNode, PutFile
  <2> QED BY <1>0, <2>1, FindOrCreateKinds
<1>3. UNCHANGED tree => UNCHANGED <<used, type>>
  BY DEF tree
<1>4. CASE Command
  <2>1. CASE Refuse
    BY <1>3, <2>1, SameKindsStay DEF Refuse
  <2>2. ASSUME NEW n, Cd(n) \/ Rmdir(n) \/ Rm(n) \/ RmRecursive(n) PROVE KindsStay
    BY <1>1, <1>3, <2>2, SameKindsStay DEF Cd, Rmdir, Rm, RmRecursive
  <2>3. ASSUME NEW d, NEW nm, Touch(d, nm) \/ Mkdir(d, nm) PROVE KindsStay
    BY <1>0, <2>3, FindOrCreateKinds DEF Touch, Mkdir
  <2>4. ASSUME NEW d, NEW nm, NEW out, NEW append, Redirect(d, nm, out, append) PROVE KindsStay
    <3>1. FindOrCreate("file", d, nm)
      BY <2>4 DEF Redirect, PutFile
    <3> QED BY <1>0, <3>1, FindOrCreateKinds
  <2>5. ASSUME NEW s, NEW d, NEW nm, NEW r, Cp(s, d, nm, r) PROVE KindsStay
    BY <1>2, <1>3, <2>5, SameKindsStay DEF Cp
  <2>6. ASSUME NEW n, NEW t, NEW nm, Mv(n, t, nm) PROVE KindsStay
    <3>1. UNCHANGED <<used, type>>
      BY <1>3, <2>6 DEF Mv, MvNode
    <3> QED BY <3>1, SameKindsStay
  <2> QED BY <1>4, <2>1, <2>2, <2>3, <2>4, <2>5, <2>6 DEF Command
<1>5. CASE CopyStep
  <2>1. CASE CopyChild
    BY <1>2, <2>1 DEF CopyChild
  <2>2. CASE CopyReturn
    BY <1>3, <2>2, SameKindsStay DEF CopyReturn
  <2> QED BY <1>5, <2>1, <2>2 DEF CopyStep
<1>6. CASE RemoveStep
  BY <1>1, <1>3, <1>6, SameKindsStay DEF RemoveStep, RemoveDescend, RemoveReturn
<1>7. CASE UNCHANGED vars
  BY <1>3, <1>7, SameKindsStay DEF vars
<1> QED BY <1>4, <1>5, <1>6, <1>7 DEF Next

\* If p has a leaf to create or to look up, the leaf can be the name of a node.
LeafOk(p) == p.segs # <<>> \/ ~p.abs => LeafName(p) \in Name

\* Where mkdir -p is: the pieces it has done lead there, and the others are left.
Follows(at, rest, p) ==
  \E done \in 0 .. Len(Pieces(p)) :
    /\ at = FoldLeft(Step, Start(p), SubSeq(Pieces(p), 1, done))
    /\ rest = SubSeq(Pieces(p), done + 1, Len(Pieces(p)))

(***************************************************************************)
(* What the handlers rely on from one operand to the next.  The directory  *)
(* found at the destination need not be one that a path leads to any more, *)
(* but it is no lost slot; mkdir -p is in a directory that a path leads    *)
(* to, and nothing runs between its pieces.                                *)
(***************************************************************************)
JobInv ==
  job # NULL =>
    /\ job \in Job
    /\ \A i \in DOMAIN job.args : LeafOk(job.args[i])
    /\ job.dest # NULL => LeafOk(job.dest)
    /\ job.file # NULL => LeafOk(job.file)
    /\ job.cmd \in {"cp", "cp -r", "mv"} <=> job.dest # NULL
    /\ job.into # NULL => job.dest # NULL /\ IsDir(job.into) /\ Kept(job.into)
    /\ job.at # NULL => /\ job.cmd = "mkdir -p" /\ job.args # <<>> /\ Idle
                        /\ job.at \in Handles /\ IsDir(job.at)
                        /\ Follows(job.at, job.rest, Operand)
    /\ job.rest # <<>> => job.at # NULL

\* Between operands the invariant only speaks of the destination directory.
LEMMA JobGoesOn ==
  ASSUME JobInv, KindsStay, LosesNone, job # NULL, used \in 0 .. MaxNodes,
         job'.cmd = job.cmd, job'.dest = job.dest, job'.file = job.file, job'.into = job.into,
         job'.append = job.append, job' \in Job,
         job'.args = job.args \/ (job.args # <<>> /\ job'.args = Tail(job.args)),
         job'.at = NULL, job'.rest = <<>>
  PROVE  JobInv'
<1>0. job \in Job /\ job.args \in Seq(Path)
  BY DEF JobInv, Job
<1>1. \A i \in DOMAIN job'.args : LeafOk(job'.args[i])
  <2>1. CASE job'.args = job.args
    BY <2>1 DEF JobInv
  <2>2. CASE job.args # <<>> /\ job'.args = Tail(job.args)
    <3>1. PICK s \in Seq(Path) : s = job.args
      BY <1>0
    <3>2. \A i \in 1 .. Len(Tail(s)) : i + 1 \in 1 .. Len(s) /\ Tail(s)[i] = s[i + 1]
      BY <2>2, <3>1
    <3>3. DOMAIN Tail(s) = 1 .. Len(Tail(s))
      BY <2>2, <3>1
    <3>a. \A i \in DOMAIN job.args : LeafOk(job.args[i])
      BY DEF JobInv
    <3>4. \A i \in 1 .. Len(s) : LeafOk(s[i])
      <4>1. DOMAIN s = 1 .. Len(s)
        OBVIOUS
      <4> QED BY <3>1, <3>a, <4>1
    <3>5. \A i \in 1 .. Len(Tail(s)) : LeafOk(Tail(s)[i])
      BY <3>2, <3>4
    <3>6. job'.args = Tail(s)
      BY <2>2, <3>1
    <3> QED BY ONLY <3>3, <3>5, <3>6
  <2> QED BY <2>1, <2>2
<1>2. job'.into # NULL => job'.dest # NULL /\ IsDir(job.into)' /\ Kept(job.into)'
  <2> SUFFICES ASSUME job.into # NULL PROVE job'.dest # NULL /\ IsDir(job.into)' /\ Kept(job.into)'
    OBVIOUS
  <2>1. PICK d : d = job.into
    OBVIOUS
  <2>2. d # NULL /\ IsDir(d) /\ Kept(d) /\ job.dest # NULL
    BY <2>1 DEF JobInv
  <2>3. d \in Nodes /\ d \in Node
    BY <2>2, NodesInRange DEF Kept
  <2>4. Kept(d)'
    BY <2>2, <2>3 DEF LosesNone
  <2>5. IsDir(d)'
    BY <2>2, <2>3 DEF KindsStay, IsDir
  <2>6. d = job'.into
    BY <2>1
  <2> QED BY <2>2, <2>4, <2>5, <2>6 DEF Kept, IsLinked, IsDir
<1>3. /\ job'.dest # NULL => LeafOk(job'.dest)
      /\ job'.file # NULL => LeafOk(job'.file)
      /\ job'.cmd \in {"cp", "cp -r", "mv"} <=> job'.dest # NULL
  BY DEF JobInv
<1>4. /\ job'.at # NULL => FALSE
      /\ job'.rest # <<>> => job'.at # NULL
  OBVIOUS
<1>5. \A p : LeafOk(p)' <=> LeafOk(p)
  BY DEF LeafOk
<1> QED BY <1>1, <1>2, <1>3, <1>4, <1>5 DEF JobInv

(***************************************************************************)
(* Every operand is a handler of FileSystem.                               *)
(***************************************************************************)
LEMMA OperandIsPath ==
  ASSUME JobInv, job # NULL, job.args # <<>>
  PROVE  Operand \in Path /\ LeafOk(Operand)
<1>1. PICK s \in Seq(Path) : s = job.args
  BY DEF JobInv, Job
<1>2. 1 \in DOMAIN s /\ s[1] \in Path /\ Operand = s[1]
  BY <1>1 DEF Operand
<1>3. LeafOk(s[1])
  BY <1>1, <1>2 DEF JobInv
<1> QED BY <1>2, <1>3

\* A directory that shall hold the leaf of p is one that paths lead to, and the leaf is a name.
LEMMA ParentDirOk ==
  ASSUME IInv, NEW p \in Path, LeafOk(p), ParentDir(p) # NULL
  PROVE  ParentDir(p) \in {n \in Handles : IsDir(n)} /\ LeafName(p) \in Name
BY ParentDirInHandles DEF LeafOk

\* So is the target of cp and mv, but that the directory found at their destination may be
\* one that no path leads to any more.
LEMMA TargetOk ==
  ASSUME IInv, LostApart, JobInv, job # NULL, job.cmd \in {"cp", "cp -r", "mv"}, Target # NULL, NEW n
  PROVE  Target \in {m \in Nodes : IsDir(m) /\ Kept(m)} /\ TargetName(n) \in Leaf(n)
<1>1. CASE job.into # NULL
  BY <1>1 DEF JobInv, Target, TargetName, Leaf, Kept
<1>2. CASE job.into = NULL
  <2>1. job.dest \in Path /\ LeafOk(job.dest)
    BY DEF JobInv, Job
  <2>2. PICK p \in Path : p = job.dest
    BY <2>1
  <2>3. Target = ParentDir(p) /\ TargetName(n) = LeafName(p)
    BY <1>2, <2>2 DEF Target, TargetName
  <2>4. Target \in Handles /\ IsDir(Target) /\ LeafName(p) \in Name
    BY <2>1, <2>2, <2>3, ParentDirOk
  <2>5. Target \in Nodes /\ Kept(Target)
    BY <2>4, HandlesAreKept, HandlesAreNodes
  <2> QED BY <2>3, <2>4, <2>5 DEF Leaf
<1> QED BY <1>1, <1>2

\* The handlers of FileSystem, one by one.
LEMMA CommandCases ==
  /\ Refuse => Command
  /\ \A n \in Handles : Cd(n) \/ Rmdir(n) \/ Rm(n) \/ RmRecursive(n) => Command
  /\ \A d \in {n \in Handles : IsDir(n)}, nm \in Name : Touch(d, nm) \/ Mkdir(d, nm) => Command
  /\ \A d \in {n \in Handles : IsDir(n)}, nm \in Name, out \in Text, append \in BOOLEAN :
       Redirect(d, nm, out, append) => Command
  /\ \A s \in Handles, d \in {m \in Nodes : IsDir(m) /\ Kept(m)} : \A nm \in Leaf(s), r \in BOOLEAN :
       Cp(s, d, nm, r) => Command
  /\ \A n \in Handles, t \in {m \in Nodes : IsDir(m) /\ Kept(m)} : \A nm \in Leaf(n) :
       Mv(n, t, nm) => Command
<1>1. Refuse => Command
  BY Zenon DEF Command
<1>2. \A n \in Handles : Cd(n) \/ Rmdir(n) \/ Rm(n) \/ RmRecursive(n) => Command
  BY Zenon DEF Command
<1>3. \A d \in {n \in Handles : IsDir(n)}, nm \in Name : Touch(d, nm) \/ Mkdir(d, nm) => Command
  BY Zenon DEF Command
<1>4. \A d \in {n \in Handles : IsDir(n)}, nm \in Name, out \in Text, append \in BOOLEAN :
        Redirect(d, nm, out, append) => Command
  BY Zenon DEF Command
<1>5. \A s \in Handles, d \in {m \in Nodes : IsDir(m) /\ Kept(m)} : \A nm \in Leaf(s), r \in BOOLEAN :
        Cp(s, d, nm, r) => Command
  BY Zenon DEF Command
<1>6. \A n \in Handles, t \in {m \in Nodes : IsDir(m) /\ Kept(m)} : \A nm \in Leaf(n) :
        Mv(n, t, nm) => Command
  BY Zenon DEF Command
<1> QED BY <1>1, <1>2, <1>3, <1>4, <1>5, <1>6

LEMMA OperandIsCommand ==
  ASSUME IInv, LostApart, JobInv,
         CdOperand \/ TouchOperand \/ MkdirOperand \/ RmdirOperand \/ RmOperand \/ CpOperand \/ MvOperand
  PROVE  /\ Command /\ NextOperand
         /\ job # NULL /\ job.args # <<>> /\ job.cmd # "mkdir -p"
<1>1. /\ NextOperand /\ job # NULL /\ job.args # <<>> /\ job.cmd # "mkdir -p"
  BY DEF CdOperand, TouchOperand, MkdirOperand, RmdirOperand, RmOperand, CpOperand, MvOperand, Running
<1>2. PICK p \in Path : p = Operand /\ LeafOk(p)
  BY <1>1, OperandIsPath
<1>3. PICK n : n = Resolve(p)
  OBVIOUS
<1>4. n # NULL => n \in Handles
  BY <1>3, ResolveInHandles
<1>5. PICK d, nm : d = ParentDir(p) /\ nm = LeafName(p)
  OBVIOUS
<1>6. d # NULL => d \in {m \in Handles : IsDir(m)} /\ nm \in Name
  BY <1>2, <1>5, ParentDirOk
<1>7. PICK t, ln : t = Target /\ ln = TargetName(n)
  OBVIOUS
<1>8. job.cmd \in {"cp", "cp -r", "mv"} /\ t # NULL => t \in {m \in Nodes : IsDir(m) /\ Kept(m)} /\ ln \in Leaf(n)
  BY <1>1, <1>7, TargetOk
<1>9. CASE Refuse
  BY <1>1, <1>9, CommandCases, Zenon
<1>10. CASE CdOperand \/ RmdirOperand \/ RmOperand
  <2>1. Refuse \/ (n # NULL /\ (Cd(n) \/ Rmdir(n) \/ Rm(n) \/ RmRecursive(n)))
    BY <1>2, <1>3, <1>10 DEF CdOperand, RmdirOperand, RmOperand
  <2> QED BY <1>1, <1>4, <1>9, <2>1, CommandCases, Zenon
<1>11. CASE TouchOperand \/ MkdirOperand
  <2>1. Refuse \/ (d # NULL /\ (Touch(d, nm) \/ Mkdir(d, nm)))
    BY <1>2, <1>5, <1>11 DEF TouchOperand, MkdirOperand
  <2> QED BY <1>1, <1>6, <1>9, <2>1, CommandCases, Zenon
<1>12. CASE CpOperand
  <2>1. job.cmd \in {"cp", "cp -r", "mv"} /\ (Refuse \/ (n # NULL /\ t # NULL /\ Cp(n, t, ln, job.cmd = "cp -r")))
    BY <1>2, <1>3, <1>7, <1>12 DEF CpOperand, Running
  <2>2. PICK r \in BOOLEAN : r = (job.cmd = "cp -r")
    OBVIOUS
  <2>3. Refuse \/ (n \in Handles /\ t \in {m \in Nodes : IsDir(m) /\ Kept(m)} /\ ln \in Leaf(n) /\ Cp(n, t, ln, r))
    BY <1>4, <1>8, <2>1, <2>2
  <2> QED BY <1>1, <1>9, <2>3, CommandCases, Zenon
<1>13. CASE MvOperand
  <2>1. job.cmd \in {"cp", "cp -r", "mv"} /\ (Refuse \/ (n # NULL /\ t # NULL /\ Mv(n, t, ln)))
    BY <1>2, <1>3, <1>7, <1>13 DEF MvOperand, Running
  <2>3. Refuse \/ (n \in Handles /\ t \in {m \in Nodes : IsDir(m) /\ Kept(m)} /\ ln \in Leaf(n) /\ Mv(n, t, ln))
    BY <1>4, <1>8, <2>1
  <2> QED BY <1>1, <1>9, <2>3, CommandCases, Zenon
<1> QED BY <1>1, <1>10, <1>11, <1>12, <1>13

LEMMA OperandKeepsJob ==
  ASSUME IInv, LostApart, JobInv,
         CdOperand \/ TouchOperand \/ MkdirOperand \/ RmdirOperand \/ RmOperand \/ CpOperand \/ MvOperand
  PROVE  JobInv'
<1>1. Command /\ NextOperand /\ job # NULL /\ job.args # <<>> /\ job.cmd # "mkdir -p"
  BY OperandIsCommand
<1>2. [Next]_vars
  BY <1>1 DEF Next
<1>3. KindsStay /\ LosesNone /\ used \in 0 .. MaxNodes
  BY <1>2, NextKinds, NextLosesNone DEF IInv, TypeOK
<1>4. job \in Job /\ job.at = NULL /\ job.rest = <<>>
  BY <1>1 DEF JobInv
<1>5. Tail(job.args) \in Seq(Path)
  <2>1. PICK s \in Seq(Path) : s = job.args
    BY <1>4 DEF Job
  <2>2. Tail(s) \in Seq(Path)
    <3>1. s # <<>>
      BY <1>1, <2>1
    <3> QED BY <3>1
  <2> QED BY <2>1, <2>2
<1>a. job.args # <<>> /\ job # NULL
  BY <1>1
<1>6. job' = [job EXCEPT !.args = Tail(job.args)]
  BY <1>1 DEF NextOperand
<1>7. job' \in Job
  BY <1>4, <1>5, <1>6 DEF Job
<1>8. /\ job'.args = Tail(job.args) /\ job'.cmd = job.cmd /\ job'.dest = job.dest /\ job'.file = job.file
      /\ job'.append = job.append
      /\ job'.into = job.into /\ job'.at = NULL /\ job'.rest = <<>>
  BY <1>4, <1>6 DEF Job
<1> QED BY <1>a, <1>3, <1>7, <1>8, JobGoesOn

(***************************************************************************)
(* Starting and finishing a line.                                          *)
(***************************************************************************)
LEMMA LineLeafs ==
  ASSUME NEW l \in Lines
  PROVE  /\ l \in Line /\ l.args \in Seq(Path) /\ l.args # <<>>
         /\ l.dest # NULL <=> l.cmd \in {"cp", "cp -r", "mv"}
         /\ \A i \in DOMAIN l.args : LeafOk(l.args[i])
         /\ l.dest # NULL => LeafOk(l.dest)
         /\ l.file # NULL => LeafOk(l.file)
<1>1. l \in Line /\ l.args # <<>> /\ (l.dest # NULL <=> l.cmd \in {"cp", "cp -r", "mv"})
  BY LinesAssumption
<1>2. \A p \in ToSet(l.args) \cup ({l.dest, l.file} \ {NULL}) : LeafOk(p)
  BY LeafAssumption DEF LeafOk
<1>3. \A i \in DOMAIN l.args : l.args[i] \in ToSet(l.args)
  BY DEF ToSet
<1>4. l.args \in Seq(Path)
  BY <1>1 DEF Line
<1> QED BY <1>1, <1>2, <1>3, <1>4

LEMMA StartedOk ==
  ASSUME IInv, NEW l \in Lines
  PROVE  /\ Started(l) \in Job
         /\ Started(l).cmd = l.cmd /\ Started(l).dest = l.dest /\ Started(l).file = l.file
         /\ Started(l).at = NULL /\ Started(l).rest = <<>>
         /\ \A i \in DOMAIN Started(l).args : LeafOk(Started(l).args[i])
         /\ Started(l).into # NULL => l.dest # NULL /\ Started(l).into \in Handles /\ IsDir(Started(l).into)
<1> DEFINE at == IF l.dest = NULL THEN NULL ELSE Resolve(l.dest)
           into == IF IsDir(at) THEN at ELSE NULL
           args == IF l.cmd \in {"cd", "touch"} THEN SubSeq(l.args, 1, 1)
                   ELSE IF NoDirectoryFor(l) THEN <<>> ELSE l.args
<1>1. Started(l) = [cmd |-> l.cmd, args |-> args, dest |-> l.dest, file |-> l.file, append |-> l.append,
                    into |-> into, at |-> NULL, rest |-> <<>>]
  BY DEF Started
<1>2. l \in Line /\ l.args \in Seq(Path) /\ l.args # <<>> /\ \A i \in DOMAIN l.args : LeafOk(l.args[i])
  BY LineLeafs
<1>3. into # NULL => l.dest # NULL /\ into \in Handles /\ IsDir(into)
  <2>1. l.dest # NULL => l.dest \in Path
    BY <1>2 DEF Line
  <2>2. l.dest # NULL => at \in Handles \cup {NULL}
    BY <2>1, ResolveInHandles
  <2>3. IsDir(at) => at # NULL
    BY DEF IsDir
  <2> QED BY <2>2, <2>3
<1> HIDE DEF at, into
<1>4. args \in Seq(Path) /\ \A i \in DOMAIN args : LeafOk(args[i])
  <2>1. PICK s \in Seq(Path) : s = l.args /\ s # <<>> /\ \A i \in DOMAIN s : LeafOk(s[i])
    BY <1>2
  <2>2. 1 \in DOMAIN s /\ s[1] \in Path /\ 1 \in 1 .. Len(s)
    BY <2>1
  <2>a. PICK t : t = SubSeq(s, 1, 1)
    OBVIOUS
  <2>b. t \in Seq(Path) /\ \A i \in DOMAIN t : i = 1 /\ t[i] = s[1]
    BY <2>1, <2>2, <2>a
  <2>3. SubSeq(s, 1, 1) \in Seq(Path) /\ \A i \in DOMAIN SubSeq(s, 1, 1) : LeafOk(SubSeq(s, 1, 1)[i])
    BY <2>1, <2>2, <2>a, <2>b
  <2>4. <<>> \in Seq(Path) /\ \A i \in DOMAIN <<>> : FALSE
    <3>1. <<>> \in Seq(Path)
      OBVIOUS
    <3>2. \A i \in DOMAIN <<>> : FALSE
      OBVIOUS
    <3> QED BY <3>1, <3>2
  <2>5. args \in {SubSeq(s, 1, 1), s, <<>>}
    BY <2>1
  <2> HIDE DEF args
  <2> QED BY <2>1, <2>3, <2>4, <2>5
<1> HIDE DEF args
<1>5. Started(l) \in Job
  <2>1. l.cmd \in Cmd /\ l.dest \in Path \cup {NULL} /\ l.file \in Path \cup {NULL} /\ l.append \in BOOLEAN
    BY <1>2 DEF Line
  <2>2. into \in Node \cup {NULL}
    BY <1>3 DEF Handles
  <2>3. <<>> \in Seq(Piece)
    OBVIOUS
  <2> QED BY <1>1, <1>4, <2>1, <2>2, <2>3 DEF Job
<1> QED BY <1>1, <1>3, <1>4, <1>5

LEMMA EnterKeepsJob ==
  ASSUME IInv, LostApart, NEW l \in Lines, Enter(l)
  PROVE  JobInv' /\ (Refuse \/ UNCHANGED vars)
<1>0. PICK j : j = Started(l)
  OBVIOUS
<1>1. job' = j /\ UNCHANGED <<tree, cwd>> /\ (Refuse \/ UNCHANGED vars)
  BY <1>0 DEF Enter, Refuse, vars
<1>2. /\ j \in Job /\ j.cmd = l.cmd /\ j.dest = l.dest /\ j.file = l.file
      /\ j.at = NULL /\ j.rest = <<>>
      /\ \A i \in DOMAIN j.args : LeafOk(j.args[i])
      /\ j.into # NULL => l.dest # NULL /\ j.into \in Handles /\ IsDir(j.into)
  BY <1>0, StartedOk
<1>3. /\ l.dest # NULL <=> l.cmd \in {"cp", "cp -r", "mv"}
      /\ l.dest # NULL => LeafOk(l.dest)
      /\ l.file # NULL => LeafOk(l.file)
  BY LineLeafs
<1>4. j.into # NULL => IsDir(j.into)' /\ Kept(j.into)'
  <2> SUFFICES ASSUME j.into # NULL PROVE IsDir(j.into)' /\ Kept(j.into)'
    OBVIOUS
  <2>1. Kept(j.into) /\ IsDir(j.into)
    BY <1>2, HandlesAreKept
  <2> QED BY <1>1, <2>1 DEF Kept, IsLinked, IsDir, Nodes, tree
<1>5. \A p : LeafOk(p)' <=> LeafOk(p)
  BY DEF LeafOk
<1>6. j.into # NULL => IsDir(job.into)' /\ Kept(job.into)'
  BY <1>1, <1>4 DEF Kept, IsLinked, IsDir
<1> QED BY <1>1, <1>2, <1>3, <1>5, <1>6 DEF JobInv

LEMMA FinishIsStep ==
  ASSUME IInv, JobInv, Finish
  PROVE  JobInv' /\ (Command \/ UNCHANGED vars)
<1>1. job' = NULL /\ job # NULL
  BY DEF Finish, Running
<1>2. JobInv'
  BY <1>1 DEF JobInv
<1>3. CASE job.file = NULL
  BY <1>2, <1>3 DEF Finish
<1>4. CASE job.file # NULL
  <2>1. PICK p \in Path : p = job.file /\ LeafOk(p)
    BY <1>1, <1>4 DEF JobInv, Job
  <2>2. PICK d, nm, append : d = ParentDir(p) /\ nm = LeafName(p) /\ append = job.append
    OBVIOUS
  <2>3. append \in BOOLEAN
    BY <1>1, <2>2 DEF JobInv, Job
  <2>4. Refuse \/ (d # NULL /\ \E out \in Text : Redirect(d, nm, out, append))
    BY <1>4, <2>1, <2>2 DEF Finish, RedirectParent
  <2>5. d # NULL => d \in {n \in Handles : IsDir(n)} /\ nm \in Name
    BY <2>1, <2>2, ParentDirOk
  <2>6. Command
    BY <2>3, <2>4, <2>5, CommandCases, Zenon
  <2> QED BY <1>2, <2>6
<1> QED BY <1>3, <1>4

LEMMA WalkIsStep ==
  ASSUME IInv, LostApart, JobInv, Walk
  PROVE  JobInv' /\ Next
<1>1. Next /\ job' = job /\ ~Idle
  <2>1. (CopyStep \/ RemoveStep) /\ job' = job
    BY DEF Walk
  <2> QED BY <2>1 DEF Next, CopyStep, RemoveStep, CopyChild, CopyReturn, RemoveDescend, RemoveReturn, Idle
<1>2. KindsStay /\ LosesNone /\ used \in 0 .. MaxNodes
  BY <1>1, NextKinds, NextLosesNone DEF IInv, TypeOK
<1>3. CASE job = NULL
  BY <1>1, <1>3 DEF JobInv
<1>4. CASE job # NULL
  <2>1. job.at = NULL /\ job.rest = <<>> /\ job \in Job
    BY <1>1, <1>4 DEF JobInv
  <2>2. JobInv'
    BY <1>1, <1>2, <1>4, <2>1, JobGoesOn
  <2> QED BY <1>1, <2>2
<1> QED BY <1>1, <1>3, <1>4

(***************************************************************************)
(* Creating a node changes no path that led somewhere.                     *)
(***************************************************************************)
LEMMA StepKeeps ==
  ASSUME IInv, TreeInv', NEW kind, NEW d \in Nodes, NEW nm, FindOrCreate(kind, d, nm),
         NEW n \in Nodes, NEW piece, Step(n, piece) # NULL
  PROVE  Step(n, piece)' = Step(n, piece) /\ Step(n, piece) \in Nodes
<1>0. /\ TreeInv /\ Nodes \subseteq Node /\ used \in Nat /\ used <= MaxNodes /\ MaxNodes \in Nat
      /\ children \in [Node -> Seq(Node)] /\ parent \in [Node -> Node \cup {NULL}]
      /\ type \in [Node -> Type] /\ name \in [Node -> FileName]
  BY IInvParts, NodesInRange, SizeAssumption DEF IInv, TypeOK
<1>1. \A m \in Node : \A i \in 1 .. Len(children[m]) : children[m][i] \in Nodes
  <2> TAKE m \in Node
  <2> TAKE i \in 1 .. Len(children[m])
  <2>1. children[m][i] \in Node /\ i \in DOMAIN children[m]
    BY <1>0
  <2>2. ~Unlinked(children[m][i])
    BY <2>1 DEF Unlinked
  <2> QED BY <1>0, <2>1, <2>2 DEF TreeInv, FreshUnlinked, Nodes, Node
<1>2. \A m \in Node : parent[m] # NULL => parent[m] \in Nodes
  <2> TAKE m \in Node
  <2> HAVE parent[m] # NULL
  <2>1. parent[m] \in Node
    BY <1>0
  <2>2. ~Unlinked(parent[m])
    BY <2>1 DEF Unlinked
  <2> QED BY <1>0, <2>1, <2>2 DEF TreeInv, FreshUnlinked, Nodes, Node
<1>3. Step(n, piece) \in Nodes
  <2>1. CASE piece \in {".", ".."}
    BY <1>0, <1>2, <2>1 DEF Step, StepUp
  <2>2. CASE piece \notin {".", ".."}
    <3>1. Step(n, piece) = Lookup(n, piece)
      BY <2>2 DEF Step
    <3>2. IsDir(n)
      BY <3>1 DEF Lookup
    <3>3. n \in Node
      BY <1>0
    <3> QED BY <1>0, <3>1, <3>2, <3>3, LookupFinds
  <2> QED BY <2>1, <2>2
<1>4. CASE UNCHANGED tree
  BY <1>3, <1>4 DEF tree, Step, StepUp, Lookup, HasEntry, IsDir
<1>5. CASE CreateNode(kind, d, nm) /\ CanAllocate
  <2> DEFINE new == used + 1
  <2>1. /\ type' = [type EXCEPT ![new] = kind]
        /\ name' = [name EXCEPT ![new] = nm]
        /\ parent' = [parent EXCEPT ![new] = d]
        /\ children' = IF HasRoom(d) THEN [children EXCEPT ![d] = Append(@, new)] ELSE children
    BY <1>5 DEF CreateNode
  <2>2. new \in Node /\ \A m \in Nodes : m # new
    BY <1>0, <1>5 DEF CanAllocate, Node, Nodes
  <2> HIDE DEF new
  <2>3. \A m \in Nodes : type'[m] = type[m] /\ name'[m] = name[m] /\ parent'[m] = parent[m]
    BY <1>0, <2>1, <2>2
  <2>4. \A m \in Nodes : \A i \in 1 .. Len(children[m]) :
          i \in 1 .. Len(children'[m]) /\ children'[m][i] = children[m][i]
    <3> TAKE m \in Nodes
    <3>1. PICK s \in Seq(Node) : s = children[m]
      BY <1>0
    <3>2. children'[m] = s \/ children'[m] = Append(s, new)
      BY <1>0, <2>1, <3>1
    <3>3. \A i \in 1 .. Len(s) : i \in 1 .. Len(Append(s, new)) /\ Append(s, new)[i] = s[i]
      BY <2>2, <3>1
    <3> QED BY <3>1, <3>2, <3>3
  <2>5. CASE piece \in {".", ".."}
    BY <1>0, <1>3, <2>3, <2>5 DEF Step, StepUp
  <2>6. CASE piece \notin {".", ".."}
    <3>1. Step(n, piece) = Lookup(n, piece) /\ Step(n, piece)' = Lookup(n, piece)'
      BY <2>6 DEF Step
    <3>2. IsDir(n) /\ HasEntry(n, piece) /\ n \in Node
      BY <1>0, <3>1 DEF Lookup
    <3>a. TreeInv
      BY <1>0
    <3>b. name[Lookup(n, piece)] = piece /\ \E i \in 1 .. Len(children[n]) : children[n][i] = Lookup(n, piece)
      BY ONLY <3>a, <3>2, LookupFinds
    <3>3. PICK i \in 1 .. Len(children[n]) : children[n][i] = Lookup(n, piece) /\ name[children[n][i]] = piece
      BY <3>b
    <3>4. PICK c : c = children[n][i]
      OBVIOUS
    <3>5. c \in Nodes /\ name'[c] = piece /\ children'[n][i] = c /\ i \in 1 .. Len(children'[n])
      BY <1>1, <2>3, <2>4, <3>2, <3>3, <3>4
    <3>6. IsDir(n)'
      BY <2>3, <3>2 DEF IsDir
    <3>7. (TreeInv => EntriesFound)'
      BY LookupIsEntry, PTL
    <3>8. Lookup(n, piece)' = c
      BY <3>2, <3>5, <3>6, <3>7 DEF EntriesFound
    <3> QED BY <1>3, <3>1, <3>3, <3>4, <3>8
  <2> QED BY <2>5, <2>6
<1> QED BY <1>4, <1>5 DEF FindOrCreate, CreateNode

LEMMA LedKeeps ==
  ASSUME IInv, IInv', NEW kind, NEW d \in Nodes, NEW nm, FindOrCreate(kind, d, nm),
         NEW b \in Nodes, NEW D, NEW s \in Seq(D), FoldLeft(Step, b, s) # NULL
  PROVE  FoldLeft(Step, b, s)' = FoldLeft(Step, b, s)
<1>a. (IInv <=> TreeInv /\ DataInv /\ CallsInv)'
  BY IInvParts, PTL
<1>0. TreeInv /\ TreeInv' /\ b \in Node /\ b # NULL
  BY <1>a, IInvParts, NodesInRange, NullAssumption DEF IInv, TypeOK
<1>1. PICK h : LedBy(h, b, s)
  BY <1>0, LedSteps DEF PathsLead
<1>2. PICK n \in Nat : n = Len(s)
  OBVIOUS
<1>3. PICK g : g[0] = b /\ g[n] = FoldLeft(Step, b, s)' /\ \A k \in 1 .. n : g[k] = Step(g[k - 1], s[k])'
  <2>1. (TreeInv => PathsLead)'
    BY LedSteps, PTL
  <2>2. \E hh \in [0 .. Len(s) -> Node \cup {NULL}] : LedBy(hh, b, s)'
    BY <1>0, <2>1 DEF PathsLead
  <2> QED BY <1>2, <2>2 DEF LedBy
<1>4. h[0] = b /\ h[n] # NULL /\ h[n] = FoldLeft(Step, b, s) /\ \A k \in 1 .. n : h[k] = Step(h[k - 1], s[k])
  BY <1>1, <1>2 DEF LedBy
<1>5. PICK T : T = {k \in 0 .. n : h[k] = NULL \/ (h[k] \in Nodes /\ g[k] = h[k])}
  OBVIOUS
<1>6. 0 \in T
  BY <1>2, <1>3, <1>4, <1>5
<1>7. \A k \in 0 .. n - 1 : k \in T => k + 1 \in T
  <2> SUFFICES ASSUME NEW k \in 0 .. n - 1, k \in T PROVE k + 1 \in T
    OBVIOUS
  <2>1. k + 1 \in 1 .. n /\ k + 1 \in 0 .. n /\ (k + 1) - 1 = k
    BY <1>2
  <2>2. PICK a, piece : a = h[k] /\ piece = s[k + 1]
    OBVIOUS
  <2>3. h[k + 1] = Step(a, piece)
    BY <1>4, <2>1, <2>2
  <2>4. CASE a = NULL
    <3>1. Step(a, piece) = NULL
      BY <2>4 DEF Step, StepUp, Lookup, IsDir
    <3> QED BY <1>5, <2>1, <2>3, <3>1
  <2>5. CASE a \in Nodes /\ g[k] = a /\ Step(a, piece) # NULL
    <3>1. Step(a, piece)' = Step(a, piece) /\ Step(a, piece) \in Nodes
      BY <1>0, <2>5, StepKeeps
    <3>2. g[k + 1] = Step(a, piece)'
      BY <1>3, <2>1, <2>2, <2>5
    <3> QED BY <1>5, <2>1, <2>3, <3>1, <3>2
  <2> QED BY <1>5, <2>1, <2>2, <2>3, <2>4, <2>5
<1>8. 0 .. n \subseteq T
  BY ONLY n \in Nat, <1>6, <1>7, UpTo
<1>9. n \in T
  BY <1>8
<1> QED BY <1>3, <1>4, <1>5, <1>9

\* Paths lead where they led as long as the tree stays as it is.
LEMMA LedSame ==
  ASSUME TreeInv, UNCHANGED tree, NEW b \in Node \cup {NULL}, NEW D, NEW s \in Seq(D)
  PROVE  FoldLeft(Step, b, s)' = FoldLeft(Step, b, s)
<1>1. PICK h : LedBy(h, b, s)
  BY LedSteps DEF PathsLead
<1>2. TreeInv'
  BY DEF tree, TreeInv, TreeType, FreshUnlinked, Unlinked, TreeLinks, UniqueNames, IsDir
<1>3. (TreeInv => PathsLead)'
  BY LedSteps, PTL
<1>4. PICK g : LedBy(g, b, s)'
  BY <1>2, <1>3 DEF PathsLead
<1>5. \A n, piece : Step(n, piece)' = Step(n, piece)
  BY DEF Step, StepUp, Lookup, HasEntry, IsDir, tree
<1>6. PICK n \in Nat : n = Len(s)
  OBVIOUS
<1>7. /\ g[0] = b /\ g[n] = FoldLeft(Step, b, s)' /\ \A k \in 1 .. n : g[k] = Step(g[k - 1], s[k])'
      /\ h[0] = b /\ h[n] = FoldLeft(Step, b, s) /\ \A k \in 1 .. n : h[k] = Step(h[k - 1], s[k])
  BY <1>1, <1>4, <1>6 DEF LedBy
<1>8. \A k \in 1 .. n : g[k - 1] = h[k - 1] => g[k] = h[k]
  BY <1>5, <1>7
<1>9. \A k \in 0 .. n : g[k] = h[k]
  <2>1. g[0] = h[0] /\ n \in Nat
    BY <1>7
  <2>2. BuiltAlike(n, g, h)
    BY <1>8, <2>1 DEF BuiltAlike
  <2> QED BY <2>1, <2>2, StepsAgree DEF AgreeUpTo
<1> QED BY <1>6, <1>7, <1>9

\* What can be named can still be named when a node was added.
LEMMA HandlesGrow ==
  ASSUME IInv, NEW kind, NEW d \in Nodes, NEW nm, FindOrCreate(kind, d, nm), cwd' = cwd
  PROVE  Handles \subseteq Handles'
<1>0. /\ TreeInv /\ Nodes \subseteq Node /\ used \in Nat /\ used <= MaxNodes /\ MaxNodes \in Nat
      /\ children \in [Node -> Seq(Node)] /\ parent \in [Node -> Node \cup {NULL}] /\ d \in Node
  BY IInvParts, NodesInRange, SizeAssumption DEF IInv, TypeOK
<1>1. CASE UNCHANGED tree
  BY <1>1 DEF Handles, UpClosed, DownClosed, tree
<1>2. CASE CreateNode(kind, d, nm) /\ CanAllocate
  <2> DEFINE new == used + 1
  <2>1. /\ parent' = [parent EXCEPT ![new] = d]
        /\ children' = IF HasRoom(d) THEN [children EXCEPT ![d] = Append(@, new)] ELSE children
    BY <1>2 DEF CreateNode
  <2>2. new \in Node /\ new > used
    BY <1>0, <1>2 DEF CanAllocate, Node
  <2> HIDE DEF new
  <2>3. \A m \in Node : parent[m] # NULL => parent'[m] = parent[m]
    <3>1. parent[new] = NULL
      BY <1>0, <2>2 DEF TreeInv, FreshUnlinked, Unlinked
    <3> QED BY <1>0, <2>1, <3>1
  <2>4. \A m \in Node : \A i \in DOMAIN children[m] :
          i \in DOMAIN children'[m] /\ children'[m][i] = children[m][i]
    <3> TAKE m \in Node
    <3>1. PICK s \in Seq(Node) : s = children[m]
      BY <1>0
    <3>2. children'[m] = s \/ children'[m] = Append(s, new)
      BY <1>0, <2>1, <3>1
    <3>3. \A i \in DOMAIN s : i \in DOMAIN Append(s, new) /\ Append(s, new)[i] = s[i]
      BY <2>2, <3>1
    <3> QED BY <3>1, <3>2, <3>3
  <2> SUFFICES ASSUME NEW n \in Handles, NEW S \in SUBSET Node,
                      Root \in S, cwd' \in S, UpClosed(S)', DownClosed(S)'
               PROVE  n \in S
    BY DEF Handles
  <2>5. UpClosed(S)
    BY <2>3 DEF UpClosed
  <2>6. DownClosed(S)
    BY <2>4 DEF DownClosed
  <2> QED BY <2>5, <2>6 DEF Handles
<1> QED BY <1>1, <1>2 DEF FindOrCreate, CreateNode

\* The entry that was found or created is listed under its name.
LEMMA EntryListed ==
  ASSUME IInv, NEW kind, NEW d \in Nodes, IsDir(d), NEW nm, FindOrCreate(kind, d, nm), EntryOk(kind, d, nm)
  PROVE  \E i \in 1 .. Len(children'[d]) : children'[d][i] = Entry(d, nm) /\ name'[Entry(d, nm)] = nm
<1>0. /\ TreeInv /\ used \in Nat /\ used <= MaxNodes /\ MaxNodes \in Nat
      /\ children \in [Node -> Seq(Node)] /\ name \in [Node -> FileName] /\ d \in Node
  BY IInvParts, NodesInRange, SizeAssumption DEF IInv, TypeOK
<1>1. CASE Lookup(d, nm) # NULL
  <2>1. HasEntry(d, nm) /\ Entry(d, nm) = Lookup(d, nm) /\ UNCHANGED tree
    BY <1>1 DEF Lookup, Entry, FindOrCreate
  <2>2. TreeInv /\ d \in Node /\ IsDir(d)
    BY <1>0
  <2>3. name[Lookup(d, nm)] = nm /\ \E i \in 1 .. Len(children[d]) : children[d][i] = Lookup(d, nm)
    BY ONLY <2>1, <2>2, LookupFinds
  <2> QED BY <2>1, <2>3 DEF tree
<1>2. CASE Lookup(d, nm) = NULL
  <2>1. CreateNode(kind, d, nm) /\ CanAllocate /\ HasRoom(d) /\ Entry(d, nm) = used + 1
    BY <1>2 DEF FindOrCreate, Entry, EntryOk
  <2>2. /\ name' = [name EXCEPT ![used + 1] = nm]
        /\ children' = [children EXCEPT ![d] = Append(@, used + 1)]
    BY <2>1 DEF CreateNode
  <2>3. used + 1 \in Node
    BY <1>0, <2>1 DEF CanAllocate, Node
  <2>4. PICK s \in Seq(Node) : s = children[d]
    BY <1>0
  <2>5. children'[d] = Append(s, used + 1) /\ name'[used + 1] = nm
    BY <1>0, <2>2, <2>3, <2>4
  <2>6. Len(s) + 1 \in 1 .. Len(Append(s, used + 1)) /\ Append(s, used + 1)[Len(s) + 1] = used + 1
    BY <2>3, <2>4
  <2> QED BY <2>1, <2>5, <2>6
<1> QED BY <1>1, <1>2

(***************************************************************************)
(* mkdir -p, piece by piece.                                               *)
(***************************************************************************)
\* mkdir -p has moved to node a and has r left to do of its operand p.
LEMMA MkdirGoesOn ==
  ASSUME JobInv, job # NULL, job.cmd = "mkdir -p", job.args # <<>>,
         NEW a \in Node, NEW r \in Seq(Piece), job' = [job EXCEPT !.at = a, !.rest = r],
         Idle', (a \in Handles)', IsDir(a)', NEW p, p = Operand, Follows(a, r, p)'
  PROVE  JobInv'
<1>0. job \in Job
  BY DEF JobInv
<1>1. job' \in Job
  BY <1>0 DEF Job
<1>2. /\ job'.cmd = job.cmd /\ job'.args = job.args /\ job'.dest = job.dest /\ job'.file = job.file
      /\ job'.into = job.into /\ job'.at = a /\ job'.rest = r
  BY <1>0 DEF Job
<1>3. job.into = NULL /\ job.dest = NULL
  BY DEF JobInv
<1>4. /\ \A i \in DOMAIN job.args : LeafOk(job.args[i])
      /\ job.file # NULL => LeafOk(job.file)
  BY DEF JobInv
<1>5. \A q : LeafOk(q)' <=> LeafOk(q)
  BY DEF LeafOk
<1>6. a # NULL
  BY NullAssumption
<1>7. Operand' = p
  BY <1>2 DEF Operand
<1>8. job'.at \in Handles' /\ IsDir(job.at)' /\ Follows(job.at, job.rest, Operand)'
  <2>1. job'.at \in Handles' /\ IsDir(job.at)'
    BY <1>2 DEF IsDir
  <2>2. Follows(job.at, job.rest, Operand)'
    BY <1>2, <1>7 DEF Follows
  <2> QED BY <2>1, <2>2
<1> QED BY <1>1, <1>2, <1>3, <1>4, <1>5, <1>6, <1>8 DEF JobInv

LEMMA MkdirBeginIsStep ==
  ASSUME IInv, LostApart, JobInv, MkdirParentsBegin
  PROVE  JobInv' /\ (Command \/ UNCHANGED vars)
<1>0. job # NULL /\ Idle /\ job.cmd = "mkdir -p" /\ job.args # <<>> /\ job.at = NULL /\ job.rest = <<>> /\ job \in Job
  BY DEF MkdirParentsBegin, Running, JobInv
<1>1. PICK p \in Path : p = Operand
  BY <1>0, OperandIsPath
<1>2. CASE Refuse /\ NextOperand
  <2>1. Command
    BY <1>2, CommandCases, Zenon
  <2>2. KindsStay /\ LosesNone /\ used \in 0 .. MaxNodes
    <3>1. [Next]_vars
      BY <2>1 DEF Next
    <3> QED BY <3>1, NextKinds, NextLosesNone DEF IInv, TypeOK
  <2>3. PICK s \in Seq(Path) : s = job.args
    BY <1>0 DEF Job
  <2>4. Tail(s) \in Seq(Path)
    <3>1. s # <<>>
      BY <1>0, <2>3
    <3> QED BY <3>1
  <2>5. job' = [job EXCEPT !.args = Tail(s)]
    BY <1>2, <2>3 DEF NextOperand
  <2>6. job' \in Job
    BY <1>0, <2>4, <2>5 DEF Job
  <2>7. /\ job'.args = Tail(job.args) /\ job'.cmd = job.cmd /\ job'.dest = job.dest /\ job'.file = job.file
        /\ job'.append = job.append
        /\ job'.into = job.into /\ job'.at = NULL /\ job'.rest = <<>>
    BY <1>0, <2>3, <2>5 DEF Job
  <2>8. JobInv'
    BY <1>0, <2>2, <2>6, <2>7, JobGoesOn
  <2> QED BY <2>1, <2>8
<1>3. CASE job' = [job EXCEPT !.at = Start(Operand), !.rest = Pieces(Operand)] /\ UNCHANGED vars
  <2>1. PICK a, r : a = Start(p) /\ r = Pieces(p)
    OBVIOUS
  <2>2. a \in Handles /\ a \in Node /\ r \in Seq(Piece) /\ IsDir(a)
    <3>1. a \in Handles /\ r \in Seq(Piece)
      BY <2>1, StartInHandles, PiecesType
    <3>2. IsDir(a)
      BY <2>1 DEF Start, IInv, TreeLinks, CallsOnTree
    <3> QED BY <3>1, <3>2 DEF Handles
  <2>3. (a \in Handles)' /\ IsDir(a)' /\ Idle'
    BY <1>0, <1>3, <2>2 DEF Handles, UpClosed, DownClosed, IsDir, Idle, vars, tree, stacks
  <2>4. TreeInv /\ UNCHANGED tree /\ Start(p)' = a
    BY <1>3, <2>1, IInvParts DEF vars, Start
  <2>5. a = FoldLeft(Step, a, <<>>)'
    <3>1. <<>> \in Seq(Piece) /\ a \in Node \cup {NULL}
      BY <2>2
    <3>2. FoldLeft(Step, a, <<>>) = a
      BY <2>4, <3>1, LedEmpty
    <3> QED BY <2>4, <3>1, <3>2, LedSame
  <2>6. Follows(a, r, p)'
    <3>1. Pieces(p)' = r /\ 0 \in 0 .. Len(r)
      BY <2>1, <2>2 DEF Pieces
    <3>2. SubSeq(r, 1, 0) = <<>> /\ SubSeq(r, 0 + 1, Len(r)) = r
      BY <2>2, WholeOf
    <3> QED BY <2>4, <2>5, <3>1, <3>2 DEF Follows
  <2>7. job' = [job EXCEPT !.at = a, !.rest = r]
    BY <1>1, <1>3, <2>1
  <2> QED BY <1>0, <1>1, <1>3, <2>2, <2>3, <2>6, <2>7, MkdirGoesOn
<1> QED BY <1>2, <1>3 DEF MkdirParentsBegin

\* The handler of mkdir -p gives up its operand: it is done, or a piece was refused.
LEMMA MkdirGivesUp ==
  ASSUME JobInv, KindsStay, LosesNone, used \in 0 .. MaxNodes, job # NULL, job.args # <<>>,
         job' = [job EXCEPT !.at = NULL, !.rest = <<>>, !.args = Tail(@)]
  PROVE  JobInv'
<1>0. job \in Job
  BY DEF JobInv
<1>1. PICK s \in Seq(Path) : s = job.args
  BY <1>0 DEF Job
<1>2. Tail(s) \in Seq(Path)
  <2>1. s # <<>>
    BY <1>1
  <2> QED BY <2>1
<1>3. job' = [job EXCEPT !.at = NULL, !.rest = <<>>, !.args = Tail(s)] /\ <<>> \in Seq(Piece)
  BY <1>1
<1>4. job' \in Job
  BY <1>0, <1>2, <1>3 DEF Job
<1>5. /\ job'.args = Tail(job.args) /\ job'.cmd = job.cmd /\ job'.dest = job.dest /\ job'.file = job.file
      /\ job'.append = job.append
      /\ job'.into = job.into /\ job'.at = NULL /\ job'.rest = <<>>
  BY <1>0, <1>1, <1>3 DEF Job
<1> QED BY <1>4, <1>5, JobGoesOn

\* Where mkdir -p is in its operand.
LEMMA MkdirAt ==
  ASSUME JobInv, job # NULL, job.at # NULL
  PROVE  /\ job \in Job /\ Idle /\ job.args # <<>> /\ job.cmd = "mkdir -p"
         /\ job.at \in Handles /\ IsDir(job.at)
         /\ Operand \in Path /\ Pieces(Operand) \in Seq(Piece)
         /\ Follows(job.at, job.rest, Operand)
<1>1. /\ job \in Job /\ Idle /\ job.args # <<>> /\ job.cmd = "mkdir -p"
      /\ job.at \in Handles /\ IsDir(job.at)
      /\ Follows(job.at, job.rest, Operand)
  BY DEF JobInv
<1>2. Operand \in Path
  BY <1>1, OperandIsPath
<1> QED BY <1>1, <1>2, PiecesType

LEMMA MkdirPieceIsStep ==
  ASSUME IInv, LostApart, JobInv, MkdirParentsPiece
  PROVE  JobInv' /\ (Command \/ UNCHANGED vars)
<1>0. job # NULL /\ job.at # NULL /\ job.rest # <<>>
  BY DEF MkdirParentsPiece, Running, JobInv
<1>1. /\ job \in Job /\ Idle /\ job.args # <<>> /\ job.cmd = "mkdir -p"
      /\ job.at \in Handles /\ IsDir(job.at)
      /\ Operand \in Path /\ Pieces(Operand) \in Seq(Piece)
      /\ Follows(job.at, job.rest, Operand)
  BY <1>0, MkdirAt
<1>a. PICK r, piece : r = job.rest /\ piece = Head(r)
  OBVIOUS
<1>2. PICK p \in Path, ps \in Seq(Piece), d \in Handles :
        p = Operand /\ ps = Pieces(p) /\ d = job.at /\ r = job.rest /\ piece = Head(r)
  BY <1>1, <1>a
<1>3. PICK done \in 0 .. Len(ps) :
        d = FoldLeft(Step, Start(p), SubSeq(ps, 1, done)) /\ r = SubSeq(ps, done + 1, Len(ps))
  BY <1>1, <1>2 DEF Follows
<1>4. /\ done < Len(ps) /\ done + 1 \in 0 .. Len(ps) /\ done \in 0 .. Len(ps) - 1
      /\ piece = ps[done + 1] /\ piece \in Piece
      /\ Tail(r) = SubSeq(ps, (done + 1) + 1, Len(ps)) /\ Tail(r) \in Seq(Piece)
  <2>1. r # <<>>
    BY <1>0, <1>2
  <2>2. done < Len(ps) /\ piece = ps[done + 1] /\ Tail(r) = SubSeq(ps, (done + 1) + 1, Len(ps)) /\ Tail(r) \in Seq(Piece)
    <3>1. ps \in Seq(Piece) /\ done \in 0 .. Len(ps) /\ r = SubSeq(ps, done + 1, Len(ps)) /\ r # <<>>
      BY <1>2, <1>3, <2>1
    <3>2. done < Len(ps) /\ Head(r) = ps[done + 1] /\ Tail(r) = SubSeq(ps, (done + 1) + 1, Len(ps)) /\ Tail(r) \in Seq(Piece)
      BY ONLY <3>1, RestOf
    <3> QED BY <1>2, <3>2
  <2>3. done + 1 \in 1 .. Len(ps) /\ done + 1 \in 0 .. Len(ps) /\ done \in 0 .. Len(ps) - 1
    BY <2>2
  <2>4. piece \in Piece
    BY <2>2, <2>3
  <2> QED BY <2>2, <2>3, <2>4
<1>5. TreeInv /\ d \in Nodes /\ d \in Node /\ d # NULL /\ IsDir(d) /\ Handles \subseteq Nodes /\ Nodes \subseteq Node
  BY <1>1, <1>2, IInvParts, HandlesAreNodes, NodesInRange, NullAssumption DEF IInv, TypeOK
<1>6. PICK b : b = Start(p)
  OBVIOUS
<1>7. b \in Handles /\ b \in Nodes /\ b \in Node
  BY <1>5, <1>6, StartInHandles
<1>8. FoldLeft(Step, b, SubSeq(ps, 1, done + 1)) = Step(d, piece)
  BY <1>3, <1>4, <1>5, <1>6, <1>7, LedMore DEF PathsGoOn
<1>9. CASE piece \in {".", ".."}
  <2>1. /\ job' = [job EXCEPT !.at = Step(d, piece), !.rest = Tail(r)]
        /\ UNCHANGED vars
    BY <1>2, <1>9 DEF MkdirParentsPiece
  <2>2. PICK a : a = Step(d, piece)
    OBVIOUS
  <2>3. a \in Handles /\ IsDir(a)
    <3>1. a \in Handles \cup {NULL}
      BY <1>5, <2>2, StepInHandles
    <3>2. a = d \/ (a = parent[d] /\ parent[d] # NULL)
      BY <1>9, <2>2 DEF Step, StepUp
    <3>a. parent[d] # NULL => IsDir(parent[d])
      BY <1>5 DEF TreeInv, TreeLinks
    <3>3. a # NULL /\ IsDir(a)
      BY <1>5, <3>2, <3>a
    <3> QED BY <3>1, <3>3
  <2>4. (a \in Handles)' /\ IsDir(a)' /\ Idle'
    BY <1>1, <2>1, <2>3 DEF Handles, UpClosed, DownClosed, IsDir, Idle, vars, tree, stacks
  <2>5. UNCHANGED tree /\ Start(p)' = b
    BY <1>6, <2>1 DEF vars, Start
  <2>6. SubSeq(ps, 1, done + 1) \in Seq(Piece)
    BY <1>4
  <2>7. FoldLeft(Step, b, SubSeq(ps, 1, done + 1))' = a
    <3>1. PICK s \in Seq(Piece) : s = SubSeq(ps, 1, done + 1)
      BY <2>6
    <3>2. FoldLeft(Step, b, s)' = FoldLeft(Step, b, s)
      BY <1>5, <1>7, <2>5, LedSame
    <3> QED BY <1>8, <2>2, <3>1, <3>2
  <2>8. Follows(a, Tail(r), p)'
    BY <1>2, <1>4, <2>5, <2>7 DEF Follows, Pieces
  <2>9. a \in Node
    BY <2>3 DEF Handles
  <2>10. PICK rest \in Seq(Piece) : rest = Tail(r)
    BY <1>4
  <2>11. job' = [job EXCEPT !.at = a, !.rest = rest] /\ Follows(a, rest, p)'
    BY <2>1, <2>2, <2>8, <2>10
  <2>12. JobInv'
    BY <1>0, <1>1, <1>2, <2>4, <2>9, <2>11, MkdirGoesOn
  <2> QED BY <2>1, <2>12
<1>10. CASE piece \notin {".", ".."}
  <2>1. /\ Mkdir(d, piece)
        /\ job' = IF EntryOk("dir", d, piece)
                  THEN [job EXCEPT !.at = Entry(d, piece), !.rest = Tail(r)]
                  ELSE [job EXCEPT !.at = NULL, !.rest = <<>>, !.args = Tail(@)]
    BY <1>2, <1>10 DEF MkdirParentsPiece
  <2>2. piece \in Name
    BY <1>4, <1>10 DEF Piece
  <2>3. Command
    BY <1>5, <2>1, <2>2, CommandCases, Zenon
  <2>4. [Next]_vars
    BY <2>3 DEF Next
  <2>5. KindsStay /\ LosesNone /\ used \in 0 .. MaxNodes /\ IInv'
    BY <2>4, NextKinds, NextLosesNone, NextKeepsIInv DEF IInv, TypeOK
  <2>6. CASE ~EntryOk("dir", d, piece)
    <3>1. JobInv'
      BY <1>0, <1>1, <2>1, <2>5, <2>6, MkdirGivesUp
    <3> QED BY <2>3, <3>1
  <2>7. CASE EntryOk("dir", d, piece)
    <3>1. FindOrCreate("dir", d, piece) /\ cwd' = cwd /\ Idle'
      BY <2>1 DEF Mkdir, stacks, Idle
    <3>2. PICK a : a = Entry(d, piece)
      OBVIOUS
    <3>3. PICK i \in 1 .. Len(children'[d]) : children'[d][i] = a /\ name'[a] = piece
      BY <1>5, <2>7, <3>1, <3>2, EntryListed
    <3>4. a \in Nodes' /\ type'[a] = "dir"
      <4>1. "dir" \in Type /\ piece \in FileName
        BY <2>2 DEF Type, FileName
      <4> QED BY <1>5, <2>7, <3>1, <3>2, <4>1, FindOrCreateKeepsTree
    <3>5. TreeInv' /\ children' \in [Node -> Seq(Node)] /\ Nodes' \subseteq Node
      <4>1. (IInv <=> TreeInv /\ DataInv /\ CallsInv)'
        BY IInvParts, PTL
      <4>2. TreeInv'
        BY <2>5, <4>1
      <4>3. used' \in 0 .. MaxNodes /\ children' \in [Node -> Seq(Node)]
        BY <4>2 DEF TreeInv, TreeType
      <4>4. Nodes' \subseteq Node
        BY <4>3, SizeAssumption DEF Nodes, Node
      <4> QED BY <4>2, <4>3, <4>4
    <3>6. d \in Handles'
      BY <1>5, <3>1, HandlesGrow
    <3>7. a \in Node /\ IsDir(a)' /\ a # NULL /\ IsDir(d)'
      <4>1. a \in Node
        BY <3>4, <3>5
      <4>2. type'[d] = type[d]
        BY <1>5, <2>5 DEF KindsStay
      <4> QED BY <1>5, <3>4, <4>1, <4>2, NullAssumption DEF IsDir
    <3>8. a \in Handles'
      <4>1. i \in DOMAIN children'[d]
        BY <1>5, <3>5
      <4> QED BY <3>3, <3>6, <3>7, <4>1 DEF Handles, DownClosed
    <3>9. Lookup(d, piece)' = a
      <4>1. (TreeInv => EntriesFound)'
        BY LookupIsEntry, PTL
      <4> QED BY <1>5, <3>3, <3>5, <3>7, <4>1 DEF EntriesFound
    <3>10. Step(d, piece)' = a
      BY <1>10, <3>9 DEF Step
    <3>11. PICK s \in Seq(Piece) : s = SubSeq(ps, 1, done)
      <4>1. SubSeq(ps, 1, done) \in Seq(Piece)
        BY <1>4
      <4> QED BY <4>1
    <3>12. FoldLeft(Step, b, s)' = d
      <4>1. FoldLeft(Step, b, s) = d
        BY <1>3, <1>6, <3>11
      <4> QED BY <1>5, <1>7, <2>5, <3>1, <4>1, LedKeeps
    <3>13. FoldLeft(Step, b, SubSeq(ps, 1, done + 1))' = a
      <4>1. (TreeInv => PathsGoOn)'
        BY LedMore, PTL
      <4>2. FoldLeft(Step, b, SubSeq(ps, 1, done + 1))' = Step(d, piece)'
        BY <1>4, <1>7, <3>5, <3>11, <3>12, <4>1 DEF PathsGoOn
      <4> QED BY <3>10, <4>2
    <3>14. Start(p)' = b
      BY <1>6, <3>1 DEF Start
    <3>15. PICK rest \in Seq(Piece) : rest = Tail(r)
      BY <1>4
    <3>16. Follows(a, rest, p)'
      BY <1>2, <1>4, <3>13, <3>14, <3>15 DEF Follows, Pieces
    <3>17. job' = [job EXCEPT !.at = a, !.rest = rest]
      BY <2>1, <2>7, <3>2, <3>15
    <3>18. JobInv'
      BY <1>0, <1>1, <1>2, <3>1, <3>7, <3>8, <3>16, <3>17, MkdirGoesOn
    <3> QED BY <2>3, <3>18
  <2> QED BY <2>6, <2>7
<1> QED BY <1>9, <1>10

LEMMA MkdirEndIsStep ==
  ASSUME IInv, LostApart, JobInv, MkdirParentsEnd
  PROVE  JobInv' /\ UNCHANGED vars
<1>0. /\ job # NULL /\ job.at # NULL /\ job.rest = <<>> /\ UNCHANGED vars
      /\ job' = [job EXCEPT !.at = NULL, !.args = Tail(@)]
  BY DEF MkdirParentsEnd, Running
<1>1. job \in Job /\ job.args # <<>>
  BY <1>0 DEF JobInv
<1>2. job' = [job EXCEPT !.at = NULL, !.rest = <<>>, !.args = Tail(@)]
  BY <1>0, <1>1 DEF Job
<1>3. KindsStay /\ LosesNone /\ used \in 0 .. MaxNodes
  BY <1>0, SameKindsStay, SameTreeLosesNone DEF IInv, TypeOK, vars, tree
<1> QED BY <1>0, <1>1, <1>2, <1>3, MkdirGivesUp

\* Every step of the command lines is a step of FileSystem, or none.
LEMMA CommandsStep ==
  ASSUME IInv, LostApart, JobInv, [CommandsNext]_cvars
  PROVE  JobInv' /\ [Next]_vars
<1>1. ASSUME NEW l \in Lines, Enter(l) PROVE JobInv' /\ [Next]_vars
  <2>1. JobInv' /\ (Command \/ UNCHANGED vars)
    BY <1>1, EnterKeepsJob, CommandCases
  <2> QED BY <2>1 DEF Next
<1>2. CASE CdOperand \/ TouchOperand \/ MkdirOperand \/ RmdirOperand \/ RmOperand \/ CpOperand \/ MvOperand
  <2>1. JobInv' /\ Command
    BY <1>2, OperandKeepsJob, OperandIsCommand
  <2> QED BY <2>1 DEF Next
<1>3. CASE MkdirParentsBegin \/ MkdirParentsPiece \/ MkdirParentsEnd \/ Finish
  <2>1. JobInv' /\ (Command \/ UNCHANGED vars)
    BY <1>3, MkdirBeginIsStep, MkdirPieceIsStep, MkdirEndIsStep, FinishIsStep
  <2> QED BY <2>1 DEF Next
<1>4. CASE Walk
  BY <1>4, WalkIsStep
<1>5. CASE UNCHANGED cvars
  <2>1. UNCHANGED vars /\ job' = job
    BY <1>5 DEF cvars
  <2>2. TreeInv /\ UNCHANGED tree /\ UNCHANGED <<cwd, copyStack, rmStack>>
    BY <2>1, IInvParts DEF vars, stacks
  <2>3. CASE job = NULL
    BY <2>1, <2>3 DEF JobInv
  <2>4. CASE job # NULL
    <3>1. CASE job.at = NULL
      <4>1. KindsStay /\ LosesNone /\ used \in 0 .. MaxNodes
        BY <2>2, SameKindsStay, SameTreeLosesNone DEF IInv, TypeOK, tree
      <4>2. job \in Job /\ job.rest = <<>>
        BY <2>4, <3>1 DEF JobInv
      <4>3. JobInv'
        BY <2>1, <2>4, <3>1, <4>1, <4>2, JobGoesOn
      <4> QED BY <2>1, <4>3
    <3>2. CASE job.at # NULL
      <4>1. /\ job \in Job /\ Idle /\ job.args # <<>> /\ job.cmd = "mkdir -p"
            /\ job.at \in Handles /\ IsDir(job.at)
            /\ Operand \in Path /\ Pieces(Operand) \in Seq(Piece)
            /\ Follows(job.at, job.rest, Operand)
        BY <2>4, <3>2, MkdirAt
      <4>2. PICK a \in Handles, r \in Seq(Piece), p \in Path : a = job.at /\ r = job.rest /\ p = Operand
        BY <4>1 DEF Job
      <4>3. (a \in Handles)' /\ IsDir(a)' /\ Idle' /\ Start(p)' = Start(p)
        BY <2>2, <4>1, <4>2 DEF Handles, UpClosed, DownClosed, IsDir, Idle, tree, Start
      <4>a. Pieces(p) \in Seq(Piece)
        BY <4>1, <4>2
      <4>4. PICK done \in 0 .. Len(Pieces(p)) :
              /\ a = FoldLeft(Step, Start(p), SubSeq(Pieces(p), 1, done))
              /\ r = SubSeq(Pieces(p), done + 1, Len(Pieces(p)))
        BY <4>1, <4>2 DEF Follows
      <4>5. PICK b, s : b = Start(p) /\ s = SubSeq(Pieces(p), 1, done)
        OBVIOUS
      <4>6. b \in Node /\ s \in Seq(Piece)
        <5>1. b \in Handles
          BY <4>5, StartInHandles
        <5>2. s \in Seq(Piece)
          <6>1. PICK ps \in Seq(Piece) : ps = Pieces(p)
            BY <4>a
          <6>2. done \in 0 .. Len(ps) /\ s = SubSeq(ps, 1, done)
            BY <4>5, <6>1
          <6> QED BY <6>2
        <5> QED BY <5>1, <5>2 DEF Handles
      <4>7. FoldLeft(Step, b, s)' = a
        BY <2>2, <4>4, <4>5, <4>6, LedSame
      <4>8. Follows(a, r, p)'
        BY <4>3, <4>4, <4>5, <4>7 DEF Follows, Pieces
      <4>9. a \in Node
        BY DEF Handles
      <4>10. job' = [job EXCEPT !.at = a, !.rest = r]
        BY <2>1, <4>1, <4>2 DEF Job
      <4>11. JobInv'
        BY <2>4, <4>1, <4>2, <4>3, <4>8, <4>9, <4>10, MkdirGoesOn
      <4> QED BY <2>1, <4>11
    <3> QED BY <3>1, <3>2
  <2> QED BY <2>3, <2>4
<1> QED BY <1>1, <1>2, <1>3, <1>4, <1>5 DEF CommandsNext, HandlerStep

-----------------------------------------------------------------------------
\* The inductive invariant: that of FileSystem, and that of the line being executed.
CInv == IInv /\ LostApart /\ JobInv

LEMMA CommandsInv == CommandsSpec => []CInv
<1>1. CommandsInit => CInv
  <2> SUFFICES ASSUME CommandsInit PROVE CInv
    OBVIOUS
  <2>1. Init /\ job = NULL
    BY DEF CommandsInit
  <2> QED BY <2>1, InitIInv, InitLostApart DEF CInv, JobInv
<1>2. CInv /\ [CommandsNext]_cvars => CInv'
  <2> SUFFICES ASSUME CInv, [CommandsNext]_cvars PROVE CInv'
    OBVIOUS
  <2>1. JobInv' /\ [Next]_vars
    BY CommandsStep DEF CInv
  <2> QED BY <2>1, NextKeepsIInv, NextKeepsLostApart DEF CInv
<1> QED BY <1>1, <1>2, PTL DEF CommandsSpec

\* Whatever lines are typed, with whatever paths: resolving them, taking their operands one
\* by one and redirecting their output makes the tree go only through steps that FileSystem
\* has, so that what is proved of FileSystem holds of the shell's commands.
THEOREM CommandsAreFileSystemSteps == CommandsSpec => ImplementsFileSystem
<1>1. CommandsInit => Init
  BY DEF CommandsInit
<1>2. CInv /\ [CommandsNext]_cvars => [Next]_vars
  BY CommandsStep DEF CInv
<1> QED BY <1>1, <1>2, CommandsInv, PTL DEF CommandsSpec, ImplementsFileSystem, Spec

\* mkdir -p cuts and follows its operands with code of its own; it is always where
\* fs_resolve_path would be after as many pieces, although it changes the tree on the way.
THEOREM MkdirStaysOnPath == CommandsSpec => []MkdirFollowsPath
<1>1. CInv => MkdirFollowsPath
  <2> SUFFICES ASSUME CInv, job # NULL, job.at # NULL
               PROVE  job.at = FoldLeft(Step, Start(Operand),
                                        SubSeq(Pieces(Operand), 1, Len(Pieces(Operand)) - Len(job.rest)))
    BY DEF MkdirFollowsPath
  <2>1. Pieces(Operand) \in Seq(Piece) /\ Follows(job.at, job.rest, Operand)
    BY MkdirAt DEF CInv
  <2>a. PICK r : r = job.rest
    OBVIOUS
  <2>2. PICK ps \in Seq(Piece) : ps = Pieces(Operand) /\ r = job.rest
    BY <2>1, <2>a
  <2>3. PICK done \in 0 .. Len(ps) :
          job.at = FoldLeft(Step, Start(Operand), SubSeq(ps, 1, done)) /\ r = SubSeq(ps, done + 1, Len(ps))
    BY <2>1, <2>2 DEF Follows
  <2>4. Len(r) = Len(ps) - done
    BY <2>3, RestOf
  <2>5. Len(ps) - Len(r) = done
    BY <2>4
  <2> QED BY <2>2, <2>3, <2>5
<1> QED BY <1>1, CommandsInv, PTL

\* When mkdir -p is through with an operand, the whole path leads to a directory.
THEOREM MkdirParentsDoesItsWork == CommandsSpec => MkdirParentsCreates
<1>1. CInv /\ [CommandsNext]_cvars => [job # NULL /\ MkdirParentsEnd => IsDir(Resolve(Operand))]_cvars
  <2> SUFFICES ASSUME CInv, job # NULL, MkdirParentsEnd PROVE IsDir(Resolve(Operand))
    OBVIOUS
  <2>1. job.at # NULL /\ job.rest = <<>>
    BY DEF MkdirParentsEnd
  <2>2. Pieces(Operand) \in Seq(Piece) /\ Follows(job.at, job.rest, Operand) /\ IsDir(job.at)
    BY <2>1, MkdirAt DEF CInv
  <2>a. PICK r : r = job.rest
    OBVIOUS
  <2>3. PICK ps \in Seq(Piece) : ps = Pieces(Operand) /\ r = job.rest
    BY <2>2, <2>a
  <2>4. PICK done \in 0 .. Len(ps) :
          job.at = FoldLeft(Step, Start(Operand), SubSeq(ps, 1, done)) /\ r = SubSeq(ps, done + 1, Len(ps))
    BY <2>2, <2>3 DEF Follows
  <2>5. done = Len(ps)
    <3>1. ~(done < Len(ps))
      BY <2>1, <2>3, <2>4, RestOf
    <3> QED BY <3>1
  <2>6. SubSeq(ps, 1, done) = ps
    BY <2>5, WholeOf
  <2>7. job.at = Resolve(Operand)
    BY <2>3, <2>4, <2>6 DEF Resolve
  <2> QED BY <2>2, <2>7
<1> QED BY <1>1, CommandsInv, PTL DEF CommandsSpec, MkdirParentsCreates

\* The ancestors of a directory are directories.
LEMMA AncestorsAreDirs ==
  ASSUME TreeInv, NEW d \in Node, IsDir(d)
  PROVE  \A m \in Node : IsAncestor(m, d) => IsDir(m)
<1>1. PICK S : S = {m \in Node : IsDir(m)}
  OBVIOUS
<1>2. S \in SUBSET Node /\ d \in S
  BY <1>1
<1>3. UpClosed(S)
  BY <1>1 DEF UpClosed, TreeInv, TreeType, TreeLinks
<1> QED BY <1>1, <1>2, <1>3 DEF IsAncestor

\* mv takes no ancestor away from the directory it moves to: neither the node it moves nor
\* the file it replaces is one.
LEMMA MvKeepsPath ==
  ASSUME IInv, NEW n \in Nodes, NEW t \in Nodes, IsDir(t), NEW nm, Mv(n, t, nm), IsAncestor(Root, t)
  PROVE  IsAncestor(Root, t)'
<1>0. TreeInv /\ Nodes \subseteq Node /\ parent \in [Node -> Node \cup {NULL}] /\ t \in Node /\ n \in Node
  BY IInvParts, NodesInRange DEF IInv, TypeOK
<1>1. CASE MvRefused(n, t, nm)
  BY <1>1 DEF Mv, tree, IsAncestor, UpClosed
<1>2. CASE ~MvRefused(n, t, nm)
  <2> DEFINE e == Lookup(t, nm)
             victim == IF e = n THEN NULL ELSE e
  <2>1. MvNode(n, t, nm) /\ ~IsAncestor(n, t) /\ (e # NULL /\ e # n => ~IsDir(e))
    BY <1>2 DEF Mv, MvRefused
  <2>2. \A m \in Node : m # n /\ m # victim => parent'[m] = parent[m]
    BY <2>1 DEF MvNode
  <2>3. \A m \in Node : IsAncestor(m, t) => m # n /\ m # victim
    BY <1>0, <2>1, AncestorsAreDirs, NullAssumption
  <2>4. PICK U \in SUBSET Node : t \in U /\ UpClosed(U) /\ \A a \in Node : a \in U <=> IsAncestor(a, t)
    BY <1>0, AncestorsUpClosed
  <2> HIDE DEF victim
  <2> SUFFICES ASSUME NEW S \in SUBSET Node, t \in S, UpClosed(S)'
               PROVE  Root \in S
    BY DEF IsAncestor
  <2>5. PICK W : W = S \cap U
    OBVIOUS
  <2>6. UpClosed(W)
    <3> SUFFICES ASSUME NEW m \in W, parent[m] # NULL PROVE parent[m] \in W
      BY DEF UpClosed
    <3>1. m \in Node /\ m \in S /\ m \in U /\ parent'[m] = parent[m]
      BY <2>2, <2>3, <2>4, <2>5
    <3>2. parent[m] \in S /\ parent[m] \in U
      BY <2>4, <3>1 DEF UpClosed
    <3> QED BY <2>5, <3>2
  <2>7. t \in W /\ W \in SUBSET Node
    BY <2>4, <2>5
  <2> QED BY <2>5, <2>6, <2>7 DEF IsAncestor
<1> QED BY <1>1, <1>2

\* rm -r is not at work while a destination is kept.
RmApart == job # NULL /\ job.into # NULL => rmStack = <<>>

LEMMA KeepsRmApart ==
  ASSUME CInv, RmApart, [CommandsNext]_cvars
  PROVE  RmApart'
<1>1. ASSUME NEW l \in Lines, Enter(l) PROVE RmApart'
  BY <1>1 DEF Enter, Refuse, Prompt, Idle, RmApart, vars, stacks
<1>2. CASE CpOperand \/ MvOperand
  <2>1. rmStack = <<>> /\ rmStack' = rmStack
    BY <1>2 DEF CpOperand, MvOperand, Refuse, Cp, Mv, Idle, stacks
  <2> QED BY <2>1 DEF RmApart
<1>3. CASE CdOperand \/ TouchOperand \/ MkdirOperand \/ RmdirOperand \/ RmOperand
  <2>1. job # NULL /\ job.cmd \in Cmd \ {"cp", "cp -r", "mv"} /\ NextOperand
    BY <1>3 DEF CdOperand, TouchOperand, MkdirOperand, RmdirOperand, RmOperand, Running, Cmd
  <2>2. job.into = NULL /\ job \in Job
    BY <2>1 DEF CInv, JobInv
  <2>3. job'.into = NULL
    BY <2>1, <2>2 DEF NextOperand, Job
  <2> QED BY <2>3 DEF RmApart
<1>4. CASE MkdirParentsBegin \/ MkdirParentsPiece \/ MkdirParentsEnd
  <2>1. job # NULL /\ job.cmd = "mkdir -p"
    BY <1>4 DEF MkdirParentsBegin, MkdirParentsPiece, MkdirParentsEnd, Running
  <2>2. job.into = NULL /\ job \in Job
    BY <2>1 DEF CInv, JobInv
  <2>3. job'.into = job.into
    BY <1>4, <2>2 DEF MkdirParentsBegin, MkdirParentsPiece, MkdirParentsEnd, NextOperand, Job
  <2> QED BY <2>2, <2>3 DEF RmApart
<1>5. CASE Finish
  BY <1>5 DEF Finish, RmApart
<1>6. CASE Walk
  BY <1>6 DEF Walk, CopyStep, CopyChild, CopyReturn, RemoveStep, RemoveDescend, RemoveReturn, RmApart
<1>7. CASE UNCHANGED cvars
  BY <1>7 DEF cvars, vars, stacks, RmApart
<1> QED BY <1>1, <1>2, <1>3, <1>4, <1>5, <1>6, <1>7 DEF CommandsNext, HandlerStep

\* The directory that cp and mv found at their destination stays in the tree while they take
\* their operands, if it was: a copy only adds to the tree, a move takes neither the
\* directory nor one of its ancestors, and nothing else runs.
THEOREM DestinationIsNotLost == CommandsSpec => DestinationStays
<1>1. CommandsInit => RmApart
  BY DEF CommandsInit, RmApart
<1>2. CInv /\ RmApart /\ [CommandsNext]_cvars => RmApart'
  BY KeepsRmApart
<1>3. ASSUME CInv, RmApart, [CommandsNext]_cvars, NEW d \in Node,
             job # NULL, job.into = d, IsAncestor(Root, d)
      PROVE  IsAncestor(Root, d)'
  <2>0. /\ IInv /\ LostApart /\ JobInv /\ TreeInv /\ d # NULL /\ Root \in Node
        /\ Handles \subseteq Nodes /\ Nodes \subseteq Node /\ rmStack = <<>>
    BY <1>3, IInvParts, HandlesAreNodes, NodesInRange, NullAssumption DEF CInv, RmApart, IInv, TypeOK
  <2>1. job \in Job /\ job.cmd \in {"cp", "cp -r", "mv"} /\ IsDir(d) /\ d \in Nodes
    BY <1>3, <2>0 DEF JobInv, Kept
  <2>2. UNCHANGED tree => IsAncestor(Root, d)'
    BY <1>3 DEF IsAncestor, UpClosed, tree
  <2>3. CASE CpOperand
    <3>1. PICK s, nm, r : Refuse \/ (s # NULL /\ Cp(s, d, nm, r))
      BY <1>3, <2>0, <2>3 DEF CpOperand, Target
    <3>2. UNCHANGED tree \/ CopyNode(s, d, nm, <<>>)
      BY <3>1 DEF Refuse, Cp
    <3>3. CopyNode(s, d, nm, <<>>) => IsAncestor(Root, d)'
      BY <1>3, <2>0, <2>1, CopyNodeGrows
    <3> QED BY <2>2, <3>2, <3>3
  <2>4. CASE MvOperand
    <3>1. Operand \in Path
      BY <1>3, <2>0, <2>4, OperandIsPath DEF MvOperand, Running
    <3>2. Resolve(Operand) \in Handles \cup {NULL}
      BY <2>0, <3>1, ResolveInHandles
    <3>3. PICK n, nm : n = Resolve(Operand) /\ (Refuse \/ (n # NULL /\ Mv(n, d, nm)))
      BY <1>3, <2>0, <2>4 DEF MvOperand, Target
    <3>4. CASE Refuse
      BY <2>2, <3>4 DEF Refuse
    <3>5. CASE n # NULL /\ Mv(n, d, nm)
      <4>1. n \in Nodes
        BY <2>0, <3>2, <3>3, <3>5
      <4> QED BY <1>3, <2>0, <2>1, <3>5, <4>1, MvKeepsPath
    <3> QED BY <3>3, <3>4, <3>5
  <2>5. CASE Finish
    <3>1. PICK p, x : UNCHANGED vars \/ Refuse \/ (ParentDir(p) # NULL /\ p \in Path /\ FindOrCreate("file", ParentDir(p), x))
      <4>1. job.file # NULL => job.file \in Path
        BY <2>1 DEF Job
      <4> QED BY <2>5, <4>1 DEF Finish, Redirect, PutFile, RedirectParent
    <3>2. CASE UNCHANGED vars \/ Refuse
      BY <2>2, <3>2 DEF vars, Refuse
    <3>3. CASE ParentDir(p) # NULL /\ p \in Path /\ FindOrCreate("file", ParentDir(p), x)
      <4>1. PICK q : q = ParentDir(p)
        OBVIOUS
      <4>2. q \in Nodes /\ IsDir(q)
        BY <2>0, <3>3, <4>1, ParentDirInHandles
      <4>3. FindOrCreate("file", q, x)
        BY <3>3, <4>1
      <4> QED BY <1>3, <2>0, <2>1, <4>2, <4>3, FindOrCreateGrows
    <3> QED BY <3>1, <3>2, <3>3
  <2>6. CASE Walk
    <3>1. CopyStep
      BY <2>0, <2>6 DEF Walk, RemoveStep, RemoveDescend, RemoveReturn
    <3>2. CASE CopyReturn
      BY <2>2, <3>2 DEF CopyReturn
    <3>3. CASE CopyChild
      <4>1. PICK f \in Frame : f = Last(copyStack) /\ CopyCallOk(f)
        <5>1. copyStack \in Seq(Frame) /\ copyStack # <<>>
          BY <2>0, <3>3 DEF CopyChild, IInv, TypeOK
        <5>2. Len(copyStack) \in DOMAIN copyStack /\ copyStack[Len(copyStack)] \in Frame
          BY <5>1
        <5>3. CopyCallOk(copyStack[Len(copyStack)])
          BY <2>0, <5>2 DEF IInv, CallsOnTree
        <5> QED BY <5>2, <5>3 DEF Last
      <4>2. PICK c, to, nm, callers : to = f.dst /\ CopyNode(c, to, nm, callers)
        BY <3>3, <4>1 DEF CopyChild
      <4>3. to \in Nodes /\ IsDir(to)
        BY <4>1, <4>2 DEF CopyCallOk
      <4> QED BY <1>3, <2>0, <2>1, <4>2, <4>3, CopyNodeGrows
    <3> QED BY <3>1, <3>2, <3>3 DEF CopyStep
  <2>7. CASE UNCHANGED cvars
    BY <2>2, <2>7 DEF cvars, vars
  <2>8. ~(\E l \in Lines : Enter(l))
    BY <1>3 DEF Enter, Prompt
  <2>9. ~(CdOperand \/ TouchOperand \/ MkdirOperand \/ RmdirOperand \/ RmOperand
           \/ MkdirParentsBegin \/ MkdirParentsPiece \/ MkdirParentsEnd)
    BY <2>1 DEF CdOperand, TouchOperand, MkdirOperand, RmdirOperand, RmOperand,
                MkdirParentsBegin, MkdirParentsPiece, MkdirParentsEnd, Running
  <2> QED BY <1>3, <2>3, <2>4, <2>5, <2>6, <2>7, <2>8, <2>9 DEF CommandsNext, HandlerStep
<1>4. CInv /\ RmApart /\ [CommandsNext]_cvars =>
        [\A d \in Node : job # NULL /\ job.into = d /\ IsAncestor(Root, d) => IsAncestor(Root, d)']_cvars
  BY <1>3
<1> QED BY <1>1, <1>2, <1>4, CommandsInv, PTL DEF CommandsSpec, DestinationStays

-----------------------------------------------------------------------------
(***************************************************************************)
(* The way up and the way back.                                            *)
(***************************************************************************)
\* w goes from n up the parent pointers.
WalksUp(w, n) ==
  /\ w \in Seq(Node) /\ Len(w) # 0 /\ w[1] = n
  /\ \A k \in 1 .. Len(w) - 1 : parent[w[k]] = w[k + 1]

\* What pwd collects is a way up: it stops above the last parent or when the stack is full.
LEMMA CollectedWalksUp ==
  ASSUME TreeInv, NEW n \in Node
  PROVE  WalksUp(Collected(n), n)
<1>0. PICK P \in Nat \ {0} : P = PathDepth
  BY DepthAssumption
<1> DEFINE V == Node \cup {NULL}
           G == [p \in V \X (1 .. P) |-> IF p[1] = NULL THEN NULL ELSE parent[p[1]]]
           Eq(f) == f = [k \in 1 .. P |->
                           IF k = 1 THEN n ELSE IF f[k - 1] = NULL THEN NULL ELSE parent[f[k - 1]]]
           up == CHOOSE f : Eq(f)
<1>1. Collected(n) = [k \in {j \in 1 .. P : up[j] # NULL} |-> up[k]]
  BY <1>0 DEF Collected
<1>2. \A p \in V \X (1 .. P) : (IF p[1] = NULL THEN NULL ELSE parent[p[1]]) \in V
  BY NullAssumption DEF TreeInv, TreeType
<1>3. G \in [V \X (1 .. P) -> V]
  BY <1>2
<1>4. \A v \in V, k \in 1 .. P : G[<<v, k>>] = IF v = NULL THEN NULL ELSE parent[v]
  OBVIOUS
<1>5. PICK GG, VV : GG = G /\ VV = V
  OBVIOUS
<1> HIDE DEF G
<1>6. \E f \in [1 .. P -> VV] : Iterates(f, P, n, GG)
  <2>1. P \in Nat /\ n \in VV /\ GG \in [VV \X (1 .. P) -> VV]
    BY <1>3, <1>5
  <2> QED BY ONLY <2>1, IterationExists, Zenon
<1>7. PICK f \in [1 .. P -> V] : \A k \in 1 .. P : f[k] = IF k = 1 THEN n ELSE G[<<f[k - 1], k>>]
  BY <1>5, <1>6 DEF Iterates
<1>8. \A k \in 1 .. P : k # 1 => k - 1 \in 1 .. P
  OBVIOUS
<1>9. \A k \in 1 .. P : f[k] = IF k = 1 THEN n ELSE IF f[k - 1] = NULL THEN NULL ELSE parent[f[k - 1]]
  BY <1>4, <1>7, <1>8
<1>10. f = [k \in 1 .. P |-> IF k = 1 THEN n ELSE IF f[k - 1] = NULL THEN NULL ELSE parent[f[k - 1]]]
  BY <1>9
<1>11. Eq(up)
  BY <1>10
<1> HIDE DEF up
<1>12. PICK u : u = up /\ u[1] = n /\ (\A k \in 1 .. P : k # 1 =>
                u[k] = IF u[k - 1] = NULL THEN NULL ELSE parent[u[k - 1]])
  BY <1>0, <1>11
<1>13. \A k \in 1 .. P : u[k] \in V
  <2>1. PICK T : T = {k \in 0 .. P : k = 0 \/ u[k] \in V}
    OBVIOUS
  <2>2. \A k \in 0 .. P - 1 : k \in T => k + 1 \in T
    <3> SUFFICES ASSUME NEW k \in 0 .. P - 1, k \in T PROVE k + 1 \in T
      OBVIOUS
    <3>1. PICK j \in 1 .. P : j = k + 1 /\ j - 1 = k /\ j \in 0 .. P /\ (j # 1 => k # 0)
      BY <1>0
    <3>2. u[j] \in V
      BY <1>12, <2>1, <3>1 DEF TreeInv, TreeType
    <3> QED BY <2>1, <3>1, <3>2
  <2>3. 0 \in T /\ P \in Nat
    BY <1>0, <2>1
  <2>4. 0 .. P \subseteq T
    BY ONLY <2>2, <2>3, UpTo
  <2>5. \A k \in 1 .. P : k \in 0 .. P /\ k # 0
    OBVIOUS
  <2> QED BY <2>1, <2>4, <2>5
<1>14. PICK J : J = {j \in 1 .. P : u[j] = NULL}
  OBVIOUS
<1>15. PICK m \in 1 .. P : {j \in 1 .. P : u[j] # NULL} = 1 .. m
  <2>1. CASE J = {}
    <3>1. P \in 1 .. P /\ {j \in 1 .. P : u[j] # NULL} = 1 .. P
      BY <1>0, <1>14, <2>1
    <3> QED BY <3>1
  <2>2. CASE J # {}
    <3>1. PICK x \in J : \A y \in J : x <= y
      BY <1>14, <2>2, NatLeast, J \in SUBSET Nat
    <3>2. x \in 1 .. P /\ x # 1
      BY <1>12, <1>14, <3>1, NullAssumption
    <3>3. x - 1 \in 1 .. P /\ x \in Nat
      BY <3>2
    <3>4. \A j \in 1 .. x - 1 : u[j] # NULL /\ j \in 1 .. P
      BY <1>14, <3>1, <3>2
    <3>5. \A j \in x .. P : u[j] = NULL
      <4>1. PICK T : T = {i \in 0 .. P - x : u[x + i] = NULL}
        OBVIOUS
      <4>2. P - x \in Nat /\ 0 \in T
        BY <1>0, <1>14, <3>2, <4>1
      <4>3. \A i \in 0 .. (P - x) - 1 : i \in T => i + 1 \in T
        <5> SUFFICES ASSUME NEW i \in 0 .. (P - x) - 1, i \in T PROVE i + 1 \in T
          OBVIOUS
        <5>1. PICK j \in 1 .. P : j = x + (i + 1) /\ j - 1 = x + i /\ j # 1 /\ i + 1 \in 0 .. P - x
          BY <1>0, <3>2
        <5>2. u[j] = NULL
          BY <1>12, <4>1, <5>1
        <5> QED BY <4>1, <5>1, <5>2
      <4>4. 0 .. (P - x) \subseteq T
        BY ONLY <4>2, <4>3, UpTo
      <4>5. \A j \in x .. P : j - x \in 0 .. (P - x) /\ x + (j - x) = j
        BY <1>0, <3>2
      <4> QED BY <4>1, <4>4, <4>5
    <3>6. \A j \in 1 .. P : j \in 1 .. x - 1 \/ j \in x .. P
      BY <3>3
    <3>7. {j \in 1 .. P : u[j] # NULL} = 1 .. x - 1
      BY <3>4, <3>5, <3>6
    <3> QED BY <3>3, <3>7
  <2> QED BY <2>1, <2>2
<1>16. PICK w : w = [k \in 1 .. m |-> u[k]]
  OBVIOUS
<1>17. Collected(n) = w
  BY <1>1, <1>12, <1>15, <1>16
<1>18. \A k \in 1 .. m : k \in 1 .. P /\ u[k] # NULL /\ u[k] \in Node
  BY <1>13, <1>15
<1>19. m \in Nat /\ m # 0 /\ 1 \in 1 .. m
  OBVIOUS
<1>20. w \in Seq(Node) /\ Len(w) = m /\ w[1] = n
  <2>1. \A k \in 1 .. m : u[k] \in Node
    BY <1>18
  <2>2. w \in Seq(Node) /\ Len(w) = m
    BY <1>16, <1>19, <2>1
  <2> QED BY <1>12, <1>16, <1>19, <2>2
<1>21. \A k \in 1 .. m - 1 : parent[w[k]] = w[k + 1]
  <2> TAKE k \in 1 .. m - 1
  <2>1. PICK j \in 1 .. m : j = k + 1 /\ j - 1 = k /\ j # 1
    BY <1>19
  <2>2. k \in 1 .. m
    BY <1>19
  <2>3. u[j] = parent[u[k]]
    BY <1>12, <1>18, <2>1, <2>2
  <2> QED BY <1>16, <2>1, <2>2, <2>3
<1> QED BY <1>17, <1>19, <1>20, <1>21 DEF WalksUp

\* A walk up that starts below the root and ends at a node without a parent ends at the root.
LEMMA WalkEndsAtRoot ==
  ASSUME TreeInv, NEW n \in Node, IsAncestor(Root, n), NEW w, WalksUp(w, n), parent[w[Len(w)]] = NULL
  PROVE  w[Len(w)] = Root
<1>1. PICK m \in Nat \ {0} : m = Len(w)
  BY DEF WalksUp
<1>2. \A k \in 1 .. m : w[k] \in Node
  BY <1>1 DEF WalksUp
<1>3. PICK S : S = {w[k] : k \in 1 .. m}
  OBVIOUS
<1>4. UpClosed(S)
  <2> SUFFICES ASSUME NEW a \in S, parent[a] # NULL PROVE parent[a] \in S
    BY DEF UpClosed
  <2>1. PICK k \in 1 .. m : a = w[k]
    BY <1>3
  <2>2. k # m
    BY <1>1, <2>1
  <2>3. k \in 1 .. m - 1 /\ k + 1 \in 1 .. m
    BY <2>2
  <2>4. parent[a] = w[k + 1]
    BY <1>1, <2>1, <2>3 DEF WalksUp
  <2> QED BY <1>3, <2>3, <2>4
<1>5. n \in S /\ S \in SUBSET Node
  <2>1. 1 \in 1 .. m /\ w[1] = n
    BY <1>1 DEF WalksUp
  <2> QED BY <1>2, <1>3, <2>1
<1>6. PICK k \in 1 .. m : w[k] = Root
  <2>1. Root \in S
    BY <1>4, <1>5 DEF IsAncestor
  <2> QED BY <1>3, <2>1
<1>7. k = m
  <2> SUFFICES ASSUME k # m PROVE FALSE
    OBVIOUS
  <2>1. k \in 1 .. m - 1 /\ k + 1 \in 1 .. m
    OBVIOUS
  <2>2. parent[w[k]] \in Node
    BY <1>1, <1>2, <2>1 DEF WalksUp
  <2> QED BY <1>6, <2>2, NullAssumption DEF TreeInv, TreeLinks
<1> QED BY <1>1, <1>6, <1>7

\* From a node that a walk goes through, the name of the node before leads back.
LEMMA NameLeadsBack ==
  ASSUME CInv, NEW w, WalksUp(w, cwd), NEW k \in 1 .. Len(w) - 1,
         name[w[k]] \notin {".", ".."}
  PROVE  Step(w[k + 1], name[w[k]]) = w[k]
<1>0. TreeInv /\ LostApart /\ cwd \in Node
  BY IInvParts DEF CInv, CallsInv
<1>1. PICK m \in Nat \ {0} : m = Len(w)
  BY DEF WalksUp
<1>2. k \in 1 .. m /\ k + 1 \in 1 .. m /\ k \in Nat
  BY <1>1
<1>3. PICK a \in Node, d \in Node : a = w[k] /\ d = w[k + 1] /\ parent[a] = d
  BY <1>1, <1>2 DEF WalksUp
<1>4. Kept(a)
  <2>1. CASE k = 1
    BY <1>0, <1>3, <2>1 DEF WalksUp, LostApart
  <2>2. CASE k # 1
    <3>1. k - 1 \in 1 .. m - 1 /\ (k - 1) + 1 = k /\ k - 1 \in 1 .. m
      BY <1>2, <2>2
    <3>2. w[k - 1] \in Node /\ parent[w[k - 1]] = a
      BY <1>1, <1>3, <3>1 DEF WalksUp
    <3> QED BY <1>0, <1>3, <3>2, NullAssumption DEF LostApart
  <2> QED BY <2>1, <2>2
<1>5. d # NULL /\ IsDir(d)
  BY <1>0, <1>3, NullAssumption DEF TreeInv, TreeLinks
<1>6. PICK i \in 1 .. Len(children[d]) : children[d][i] = a
  <2>1. children[d] \in Seq(Node)
    BY <1>0, <1>3 DEF TreeInv, TreeType
  <2>2. \E i \in DOMAIN children[d] : children[d][i] = a
    BY <1>3, <1>4, <1>5 DEF Kept, IsLinked
  <2> QED BY <2>1, <2>2
<1>7. Lookup(d, name[a]) = a
  BY <1>0, <1>3, <1>5, <1>6, LookupIsEntry DEF EntriesFound
<1>8. Step(d, name[a]) = Lookup(d, name[a])
  BY <1>3 DEF Step
<1> QED BY <1>3, <1>7, <1>8

\* Wherever mv has taken the working directory, and whatever its ancestors are called by now,
\* pwd prints a path that cd follows back to it.
THEOREM PrintedPathLeadsBack == CommandsSpec => []PwdLeadsBack
<1>1. CInv => PwdLeadsBack
  <2> SUFFICES ASSUME CInv, IsAncestor(Root, cwd), PrintedPath(cwd).abs,
                      \A i \in DOMAIN PrintedPath(cwd).segs : Typeable(PrintedPath(cwd).segs[i][1])
               PROVE  Resolve(PrintedPath(cwd)) = cwd
    BY DEF PwdLeadsBack
  <2>0. TreeInv /\ cwd \in Node
    BY IInvParts DEF CInv, CallsInv
  <2>1. PICK w \in Seq(Node) : w = Collected(cwd) /\ WalksUp(w, cwd)
    <3>1. WalksUp(Collected(cwd), cwd)
      BY <2>0, CollectedWalksUp
    <3> QED BY <3>1 DEF WalksUp
  <2>2. PICK m \in Nat \ {0} : m = Len(w)
    BY <2>1 DEF WalksUp
  <2>3. PICK l \in Nat : l = m - 1 /\ l + 1 = m
    BY <2>2
  <2>4. \A i \in 1 .. l : m - i \in 1 .. l /\ m - i \in 1 .. m - 1 /\ (l - i) + 1 = m - i
    BY <2>3
  <2>5. PICK t : t = [i \in 1 .. l |-> name[w[m - i]]]
    OBVIOUS
  <2>6. PICK s : s = [i \in 1 .. l |-> <<t[i]>>]
    OBVIOUS
  <2>7. t \in Seq(FileName) /\ Len(t) = l /\ \A i \in 1 .. l : t[i] = name[w[m - i]]
    <3>1. \A i \in 1 .. l : name[w[m - i]] \in FileName
      BY <2>0, <2>2, <2>4, <2>3 DEF TreeInv, TreeType
    <3> QED BY <2>5, <3>1
  <2>8. PrintedPath(cwd) = [abs |-> TRUE, segs |-> s, slash |-> FALSE] /\ parent[w[m]] = NULL
    <3>1. parent[w[m]] = NULL
      BY <2>1, <2>2 DEF PrintedPath, Last
    <3>2. PICK f : f = Front(w)
      OBVIOUS
    <3>3. f \in Seq(Node) /\ Len(f) = l /\ \A i \in 1 .. l : f[i] = w[i]
      BY <2>2, <2>3, <3>2 DEF Front
    <3>4. Reverse(f) = [i \in 1 .. l |-> f[(l - i) + 1]]
      BY <3>3 DEF Reverse
    <3>5. PICK r : r = Reverse(f)
      OBVIOUS
    <3>6. DOMAIN r = 1 .. l /\ \A i \in 1 .. l : r[i] = w[m - i]
      BY <2>4, <3>3, <3>4, <3>5
    <3>7. [i \in DOMAIN r |-> <<name[r[i]]>>] = s
      BY <2>6, <2>7, <3>6
    <3> QED BY <2>1, <2>2, <3>1, <3>2, <3>5, <3>7 DEF PrintedPath, Last
  <2>9. s \in Seq(Seq(FileName)) /\ Len(s) = l /\ \A i \in 1 .. l : s[i] = <<t[i]>> /\ s[i][1] = t[i]
    <3>1. \A i \in 1 .. l : <<t[i]>> \in Seq(FileName)
      BY <2>7
    <3>2. PICK X : X = Seq(FileName)
      OBVIOUS
    <3>3. s \in Seq(X) /\ Len(s) = l
      <4>1. s \in [1 .. l -> X]
        BY <2>6, <3>1, <3>2
      <4> QED BY ONLY l \in Nat, <4>1
    <3>4. \A i \in 1 .. l : s[i] = <<t[i]>> /\ <<t[i]>>[1] = t[i]
      BY <2>6
    <3> QED BY <3>2, <3>3, <3>4
  <2>10. \A i \in 1 .. l : t[i] \notin {".", ".."}
    <3>1. PrintedPath(cwd).segs = s /\ DOMAIN s = 1 .. l
      BY <2>6, <2>8
    <3>2. \A i \in 1 .. l : Typeable(t[i])
      BY <2>9, <3>1
    <3> QED BY <3>2 DEF Typeable
  <2>11. Pieces(PrintedPath(cwd)) = t
    <3>1. FlattenSeq(s) = t
      <4>1. PICK D : D = FileName
        OBVIOUS
      <4>2. s \in Seq(Seq(D)) /\ t \in Seq(D) /\ Len(s) = Len(t) /\ \A k \in 1 .. Len(t) : s[k] = <<t[k]>>
        BY <2>7, <2>9, <4>1
      <4> QED BY ONLY <4>2, FlattenSingles, Zenon
    <3> QED BY <2>8, <3>1 DEF Pieces
  <2>12. Resolve(PrintedPath(cwd)) = FoldLeft(Step, Root, t)
    BY <2>8, <2>11 DEF Resolve, Start
  <2>13. PICK h : h[0] = Root /\ h[l] = FoldLeft(Step, Root, t) /\ \A k \in 1 .. l : h[k] = Step(h[k - 1], t[k])
    <3>1. Root \in Node
      BY NodesInRange, <2>0 DEF TreeInv, TreeType
    <3>2. PICK h : LedBy(h, Root, t)
      BY <2>0, <2>7, <3>1, LedSteps DEF PathsLead
    <3> QED BY <2>7, <3>2 DEF LedBy
  <2>14. PICK g : g = [k \in 0 .. l |-> w[m - k]]
    OBVIOUS
  <2>15. g[0] = Root
    BY <2>0, <2>1, <2>2, <2>8, <2>14, WalkEndsAtRoot
  <2>16. \A k \in 1 .. l : h[k - 1] = g[k - 1] => h[k] = g[k]
    <3> SUFFICES ASSUME NEW k \in 1 .. l, h[k - 1] = g[k - 1] PROVE h[k] = g[k]
      OBVIOUS
    <3>1. k \in 0 .. l /\ k - 1 \in 0 .. l /\ m - (k - 1) = (m - k) + 1
      BY <2>2
    <3>2. PICK j \in 1 .. m - 1 : j = m - k
      BY <2>4
    <3>3. g[k - 1] = w[j + 1] /\ g[k] = w[j] /\ t[k] = name[w[j]]
      BY <2>7, <2>14, <3>1, <3>2
    <3>4. name[w[j]] \notin {".", ".."}
      BY <2>10, <3>3
    <3>5. Step(w[j + 1], name[w[j]]) = w[j]
      BY <2>1, <2>2, <3>4, NameLeadsBack
    <3> QED BY <2>13, <3>3, <3>5
  <2>17. h[l] = g[l]
    <3>1. \A k \in 0 .. l : h[k] = g[k]
      <4>1. BuiltAlike(l, h, g)
        BY <2>13, <2>15, <2>16 DEF BuiltAlike
      <4> QED BY <4>1, StepsAgree DEF AgreeUpTo
    <3> QED BY <2>3, <3>1
  <2>18. g[l] = cwd
    <3>1. l \in 0 .. l /\ m - l = 1
      BY <2>3
    <3>2. w[1] = cwd
      BY <2>1 DEF WalksUp
    <3> QED BY <2>14, <3>1, <3>2
  <2> QED BY <2>12, <2>13, <2>17, <2>18
<1> QED BY <1>1, CommandsInv, PTL
=============================================================================
