------------------------- MODULE CommandsProperties -------------------------
(***************************************************************************)
(* What the command lines of module Commands must keep.                    *)
(***************************************************************************)
EXTENDS Commands, FileSystemProperties

\* Everything the command lines do is something FileSystem allows: paths lead only
\* to nodes that path resolution can name, new nodes are put only into directories,
\* and no handler touches the tree in any other way.
ImplementsFileSystem == Spec

\* mkdir -p, which cuts and follows paths with code of its own, is at every moment
\* on the node to which fs_resolve_path leads from where it started.
MkdirFollowsPath ==
  job # NULL /\ job.at # NULL =>
    LET pieces == Pieces(Operand)
        done == Len(pieces) - Len(job.rest)
    IN job.at = FoldLeft(Step, Start(Operand), SubSeq(pieces, 1, done))

\* mkdir -p that does not complain leaves a directory under the path it was given.
MkdirParentsCreates ==
  [][job # NULL /\ MkdirParentsEnd => IsDir(Resolve(Operand))]_cvars

\* The destination of mv and cp is looked up once for all operands: whatever the
\* operands before did to the tree, it is still in it.
DestinationStays ==
  [][\A d \in Node : job # NULL /\ job.into = d /\ IsAncestor(Root, d) => IsAncestor(Root, d)']_cvars

\* A name that a path can contain and that resolution looks up.
Typeable(nm) == nm \in Name \ {NoName, ".", ".."} /\ \A other \in Name : nm # other \o "/"

\* As long as the working directory is in the tree, not too deep, and under names
\* that can be typed, cd to what pwd prints leads back to it, wherever mv has taken it.
PwdLeadsBack ==
  LET printed == PrintedPath(cwd) IN
  /\ IsAncestor(Root, cwd)
  /\ printed.abs
  /\ \A i \in DOMAIN printed.segs : Typeable(printed.segs[i][1])
  => Resolve(printed) = cwd

\* A line that was entered is executed to its end.
LinesEnd == job # NULL ~> Prompt
=============================================================================
