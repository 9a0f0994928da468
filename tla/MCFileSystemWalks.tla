------------------------- MODULE MCFileSystemWalks -------------------------
(***************************************************************************)
(* cp -r and rm -r from every tree of SeedSize nodes: each seed is what a  *)
(* session of mkdir, touch and redirections leaves behind, so the walks    *)
(* start from trees too large for the run that grows them from boot.       *)
(***************************************************************************)
EXTENDS FileSystemProperties

CONSTANTS a, b, x,
  SeedSize      \* nodes of every initial tree

MCName == {a, b}
MCChar == {x}
MCText == {<<x>>}

Seed == 1 .. SeedSize

Shape == {p \in [Seed -> 0 .. SeedSize] : \A n \in Seed : p[n] < n}

Kinds(p) == {k \in [Seed -> Type] : \A n \in Seed : p[n] \in {Root} \cup {m \in Seed : k[m] = "dir"}}

Names(p) == {nm \in [Seed -> Name] : nm[1] = a /\ \A m, n \in Seed : p[m] = p[n] /\ nm[m] = nm[n] => m = n}

SeedInit ==
  \E p \in Shape : \E kind \in Kinds(p), nm \in Names(p) :
  \E filled \in SUBSET {n \in Seed : kind[n] = "file"} :
    /\ used = SeedSize
    /\ type = [n \in Node |-> IF n \in Seed THEN kind[n] ELSE IF n = Root THEN "dir" ELSE "file"]
    /\ name = [n \in Node |-> IF n \in Seed THEN nm[n] ELSE IF n = Root THEN RootName ELSE NoName]
    /\ parent = [n \in Node |-> IF n \in Seed THEN p[n] ELSE NULL]
    /\ children = [d \in Node |-> SelectSeq([i \in Seed |-> i], LAMBDA n : p[n] = d)]
    /\ content = [n \in Node |-> IF n \in filled THEN <<x>> ELSE NULL]
    /\ poolUsed = 2 * Cardinality(filled)
    /\ cwd = Root
    /\ copyStack = <<>> /\ rmStack = <<>>
    /\ ret = "ok"

\* A walk follows another only when that one neither made nor removed a node.
SeedCommand ==
  /\ used = SeedSize /\ \A n \in Seed : parent[n] # NULL
  /\ \/ \E s, d \in Nodes : IsDir(d) /\ \E nm \in Leaf(s) : Cp(s, d, nm, TRUE)
     \/ \E n \in Nodes : RmRecursive(n)

SeedNext == SeedCommand \/ CopyStep \/ RemoveStep

SeedSpec == SeedInit /\ [][SeedNext]_vars /\ Fairness
=============================================================================
