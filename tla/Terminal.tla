------------------------------ MODULE Terminal ------------------------------
(***************************************************************************)
(* The text terminal of EnzOS (os/src/drivers/terminal.c): a cursor on a   *)
(* screen of Width by Height cells in VGA memory.  A row that scrolls off  *)
(* the screen is lost to the program; the variable past keeps it, so that  *)
(* the screen can be compared with the log of all that was written, module *)
(* TextLog, which this module implements.                                  *)
(***************************************************************************)
EXTENDS Naturals, Sequences

CONSTANTS
  Width, Height, \* VGA_WIDTH, VGA_HEIGHT
  Char,          \* printable characters
  Space,         \* what a blank cell shows
  Color,
  Position       \* columns and rows that a caller may give to terminal_set_cursor

ASSUME ScreenAssumption == Width \in Nat \ {0} /\ Height \in Nat \ {0}
ASSUME PositionAssumption == Position \subseteq Nat

Col == 0 .. Width - 1
Line == 0 .. Height - 1
Cell == [char : Char \cup {Space}, color : Color]

VARIABLES
  buffer,        \* terminal_buffer, row by row
  row,           \* terminal_row
  column,        \* terminal_column
  color,         \* terminal_color
  past           \* rows that have scrolled off since the screen was last cleared

vars == <<buffer, row, column, color, past>>

BlankRow(c) == [x \in Col |-> [char |-> Space, color |-> c]]

BlankScreen(c) == [y \in Line |-> BlankRow(c)]

\* terminal_initialize leaves a blank screen.
Init ==
  /\ color \in Color
  /\ buffer = BlankScreen(color)
  /\ row = 0
  /\ column = 0
  /\ past = <<>>

SetColor(c) == color' = c /\ UNCHANGED <<buffer, row, column, past>>

ClearScreen ==
  /\ buffer' = BlankScreen(color)
  /\ row' = 0
  /\ column' = 0
  /\ past' = <<>>
  /\ UNCHANGED color

SetCursorUnclamped(x, y) ==  \* mutant: positions off the screen are taken
  /\ column' = x
  /\ row' = y
  /\ UNCHANGED <<buffer, color, past>>

\* A position off the screen is moved to its edge.
SetCursor(x, y) ==
  /\ column' = IF x >= Width THEN Width - 1 ELSE x
  /\ row' = IF y >= Height THEN Height - 1 ELSE y
  /\ UNCHANGED <<buffer, color, past>>

ScrolledUnblanked(screen) ==  \* mutant: the last row is left as it was
  [y \in Line |-> IF y < Height - 1 THEN screen[y + 1] ELSE screen[y]]

\* The screen moved up by one row.
Scrolled(screen) ==
  [y \in Line |-> IF y < Height - 1 THEN screen[y + 1] ELSE BlankRow(color)]

\* The cursor goes to the start of the next row of the given screen, which scrolls
\* when there is none.
LineFeed(screen) ==
  /\ column' = 0
  /\ IF row + 1 = Height
     THEN /\ buffer' = Scrolled(screen)
          /\ past' = Append(past, screen[0])
          /\ row' = Height - 1
     ELSE /\ buffer' = screen
          /\ row' = row + 1
          /\ UNCHANGED past

NewLine == LineFeed(buffer) /\ UNCHANGED color

PutCharLate(c) ==  \* mutant: the cursor may rest past the last column
  LET screen == [buffer EXCEPT ![row][column] = [char |-> c, color |-> color]] IN
  /\ IF column = Width
     THEN LineFeed(screen)
     ELSE buffer' = screen /\ column' = column + 1 /\ UNCHANGED <<row, past>>
  /\ UNCHANGED color

\* The character is put at the cursor; after the last column the cursor wraps at once.
PutChar(c) ==
  LET screen == [buffer EXCEPT ![row][column] = [char |-> c, color |-> color]] IN
  /\ IF column + 1 = Width
     THEN LineFeed(screen)
     ELSE buffer' = screen /\ column' = column + 1 /\ UNCHANGED <<row, past>>
  /\ UNCHANGED color

Next ==
  \/ NewLine
  \/ \E c \in Char : PutChar(c)
  \/ ClearScreen
  \/ \E x, y \in Position : SetCursor(x, y)
  \/ \E c \in Color : SetColor(c)

Spec == Init /\ [][Next]_vars

(***************************************************************************)
(* Properties.                                                             *)
(***************************************************************************)
\* The cursor never leaves the screen, so no character is written outside VGA memory.
TypeOK ==
  /\ buffer \in [Line -> [Col -> Cell]]
  /\ row \in Line
  /\ column \in Col
  /\ color \in Color
  /\ past \in Seq([Col -> Cell])

\* The log that the screen is the end of.
Screen == [i \in 1 .. Height |-> buffer[i - 1]]

Log == INSTANCE TextLog WITH rows <- past \o Screen, line <- Len(past) + row + 1

\* The screen is the last rows of the log of everything written, and the cursor is
\* where the log says, through wraps, newlines and scrolls in every combination.
ImplementsLog == Log!LogSpec
=============================================================================
