------------------------- MODULE MCCopyIntoAncestor -------------------------
(***************************************************************************)
(* cp -r of a directory into its own grandparent, where a directory of its *)
(* name stands: the one it is in.  What README.md says of cp is compared   *)
(* with what it was given, which a history variable keeps.                 *)
(***************************************************************************)
EXTENDS FileSystemProperties

CONSTANTS a, b, x

MCName == {a, b}
MCChar == {x}
MCText == {<<x>>, <<x, x>>}

VARIABLE given   \* type and content at every path below the source of the last cp -r

\* mkdir /a /a/a /a/a/a, then a line redirected to /a/a/b and another to /a/a/a/b.
SessionInit ==
  /\ used = 5
  /\ type = [n \in Node |-> IF n \in 0 .. 3 THEN "dir" ELSE "file"]
  /\ name = [n \in Node |-> CASE n = Root -> RootName [] n \in 1 .. 3 -> a [] n \in 4 .. 5 -> b [] OTHER -> NoName]
  /\ parent = [n \in Node |-> CASE n = 1 -> Root [] n = 2 -> 1 [] n \in {3, 4} -> 2 [] n = 5 -> 3 [] OTHER -> NULL]
  /\ children = [n \in Node |-> CASE n = Root -> <<1>> [] n = 1 -> <<2>> [] n = 2 -> <<3, 4>> [] n = 3 -> <<5>>
                                  [] OTHER -> <<>>]
  /\ content = [n \in Node |-> CASE n = 4 -> <<x>> [] n = 5 -> <<x, x>> [] OTHER -> NULL]
  /\ poolUsed = 5
  /\ cwd = Root
  /\ copyStack = <<>> /\ rmStack = <<>>
  /\ ret = "ok"
  /\ given = <<>>

Held(s) ==
  [path \in {p \in BoundedSeq(Name, used) : At(s, p) # NULL} |->
     [type |-> type[At(s, path)], content |-> content[At(s, path)]]]

\* One cp -r, of anything to anywhere.
SessionCp ==
  /\ used = 5 /\ given = <<>>
  /\ \E s \in Nodes, d \in Nodes : /\ IsDir(d) /\ \E nm \in Leaf(s) : Cp(s, d, nm, TRUE)
                                   /\ given' = Held(s)

SessionNext == SessionCp \/ (CopyStep /\ UNCHANGED given)

SessionSpec == SessionInit /\ [][SessionNext]_<<vars, given>>

\* README.md:21: cp "copies files or whole directory trees when -r is present", so a copy
\* that reports no failure leaves at its destination every file it was given.
CopiesWholeTrees ==
  [][\A s, d \in Node : CopySucceeds(s, d) =>
       \A path \in DOMAIN given :
         /\ At(d, path)' # NULL /\ type'[At(d, path)'] = given[path].type
         /\ given[path].content # NULL => content'[At(d, path)'] = given[path].content]_<<vars, given>>
=============================================================================
