----------------------------- MODULE MCTerminal -----------------------------
(***************************************************************************)
(* A small screen, followed until MaxPast rows have scrolled off it.       *)
(***************************************************************************)
EXTENDS Terminal

CONSTANT MaxPast

MCPosition == {0, Height - 1, Height}

MCNext == Next /\ Len(past') <= MaxPast

MCSpec == Init /\ [][MCNext]_vars
=============================================================================
