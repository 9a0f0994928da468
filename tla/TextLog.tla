------------------------------ MODULE TextLog ------------------------------
(***************************************************************************)
(* What the text terminal promises: everything that is written goes into   *)
(* rows that are never thrown away, and the screen is a window on the last *)
(* Height of them.                                                         *)
(***************************************************************************)
EXTENDS Naturals, Sequences

CONSTANTS
  Width, Height,
  Char,          \* printable characters
  Space,         \* what a blank cell shows
  Color

Col == 0 .. Width - 1
Cell == [char : Char \cup {Space}, color : Color]
Row == [Col -> Cell]
BlankRow(c) == [x \in Col |-> [char |-> Space, color |-> c]]
BlankPage(c) == [i \in 1 .. Height |-> BlankRow(c)]

VARIABLES
  rows,    \* every row since the terminal was last cleared
  line,    \* index in rows of the row the cursor is in
  column,
  color    \* of what is written next

lvars == <<rows, line, column, color>>

Top == Len(rows) - Height    \* rows above the screen

LogInit ==
  /\ color \in Color
  /\ rows = BlankPage(color)
  /\ line = 1
  /\ column = 0

\* The cursor goes to the start of the next row, which is added when there is none.
NextRow(text) ==
  /\ rows' = IF line = Len(text) THEN Append(text, BlankRow(color)) ELSE text
  /\ line' = line + 1
  /\ column' = 0

Newline == NextRow(rows) /\ UNCHANGED color

Write(c) ==
  LET text == [rows EXCEPT ![line][column] = [char |-> c, color |-> color]] IN
  /\ IF column + 1 = Width
     THEN NextRow(text)
     ELSE rows' = text /\ column' = column + 1 /\ UNCHANGED line
  /\ UNCHANGED color

Clear ==
  /\ rows' = BlankPage(color)
  /\ line' = 1
  /\ column' = 0
  /\ UNCHANGED color

\* The cursor can be put anywhere on the screen, and nowhere above it.
Place ==
  /\ column' \in Col
  /\ line' \in Top + 1 .. Top + Height
  /\ UNCHANGED <<rows, color>>

SetColor == color' \in Color /\ UNCHANGED <<rows, line, column>>

LogNext == Newline \/ (\E c \in Char : Write(c)) \/ Clear \/ Place \/ SetColor

LogSpec == LogInit /\ [][LogNext]_lvars
=============================================================================
