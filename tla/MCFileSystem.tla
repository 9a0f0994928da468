---------------------------- MODULE MCFileSystem ----------------------------
(***************************************************************************)
(* The filesystem from boot, under every sequence of commands.             *)
(***************************************************************************)
EXTENDS FileSystemProperties

CONSTANTS a, b, x

MCName == {a, b}
MCChar == {x}
MCText == {<<x>>}
NoChar == {}
NoText == {<<>>}      \* what `cd / > f` captures

MCSymmetry == Permutations(MCName)
=============================================================================
