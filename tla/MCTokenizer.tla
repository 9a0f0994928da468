---------------------------- MODULE MCTokenizer ----------------------------
(***************************************************************************)
(* Every line of up to MaxLength characters.                               *)
(***************************************************************************)
EXTENDS Tokenizer

CONSTANT MaxLength

MCLetter == {"a", "n"}

MCLine == BoundedSeq({"a", "n", Space, Quote, Backslash}, MaxLength)
=============================================================================
