------------------------------ MODULE MCShell ------------------------------
(***************************************************************************)
(* Lines that set, use and overflow aliases, with and without redirection. *)
(***************************************************************************)
EXTENDS Shell

MCAtom == {"w", "v", "long", "longer", ">", ">>", "f", "clear", "alias"}

\* A name as the table keeps it; "longer" stands for one of more than 31 characters.
MCStored == [a \in MCAtom |-> IF a = "longer" THEN "long" ELSE a]

Set(name, text) == [name |-> name, text |-> text]
Typed(words) == [i \in DOMAIN words |-> Word(words[i])]

MCLine ==
  {Typed(<<"w">>), Typed(<<"v", ">", "f">>), Typed(<<"w", ">>", "f">>), Typed(<<"clear", ">">>),
   Typed(<<"long">>),
   <<Word("alias"), Set("w", <<"v", ">">>), Set("v", <<>>)>>,
   <<Word("alias"), Set("longer", <<"w">>), Set("long", <<"alias">>), Word("v")>>,
   <<Word("long"), Set("v", <<"w", "f">>)>>,
   <<Word("v"), Set(None, <<"f", "f">>), Set(None, <<>>), Word(">>"), Word("f")>>}

MCFile == {Word("f"), Word(">>")}
=============================================================================
