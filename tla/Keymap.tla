------------------------------ MODULE Keymap ------------------------------
(***************************************************************************)
(* The two tables of os/src/drivers/keyboard.c: what each scancode of a    *)
(* US keyboard types, alone and with shift.                                *)
(***************************************************************************)
EXTENDS Naturals, Sequences

\* An entry that the initialisers leave 0.
Nothing == ""

\* The legends of the scancodes from 0 on; there are none beyond the space bar.
BaseLegends ==
  <<Nothing, "escape", "1", "2", "3", "4", "5", "6", "7", "8", "9", "0", "-", "=", "backspace",
    "\t", "q", "w", "e", "r", "t", "y", "u", "i", "o", "p", "[", "]", "\n",
    Nothing, "a", "s", "d", "f", "g", "h", "j", "k", "l", ";", "'", "backquote",
    Nothing, "\\", "z", "x", "c", "v", "b", "n", "m", ",", ".", "/",
    Nothing, Nothing, Nothing, " ">>

ShiftedLegends ==
  <<Nothing, Nothing, "!", "@", "#", "$", "%", "^", "&", "*", "(", ")", "_", "+", Nothing,
    Nothing, "Q", "W", "E", "R", "T", "Y", "U", "I", "O", "P", "{", "}", Nothing,
    Nothing, "A", "S", "D", "F", "G", "H", "J", "K", "L", ":", "\"", "~",
    Nothing, "|", "Z", "X", "C", "V", "B", "N", "M", "<", ">", "?">>

Table(legends) == [s \in 0 .. 127 |-> IF s < Len(legends) THEN legends[s + 1] ELSE Nothing]

BaseKeymap == Table(BaseLegends)

ShiftedKeymap == Table(ShiftedLegends)

\* Every letter has its capital in the shifted table, so that the conversion to upper case
\* at the end of translate_scancode never finds a letter to convert.
Letters == (16 .. 25) \cup (30 .. 38) \cup (44 .. 50)

ASSUME LettersAssumption ==
  \A s \in Letters : ShiftedKeymap[s] \notin {Nothing, BaseKeymap[s]}
=============================================================================
