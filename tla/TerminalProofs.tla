--------------------------- MODULE TerminalProofs ---------------------------
(***************************************************************************)
(* The terminal implements the text log for every size of the screen.  The *)
(* only invariant needed is TypeOK: with the cursor on the screen, the row *)
(* after it exists exactly when there is a row below it in the log.        *)
(***************************************************************************)
EXTENDS Terminal, TLAPS, SequenceTheorems

LogRow == [Col -> Cell]

Page(screen) == [i \in 1 .. Height |-> screen[i - 1]]

Put(f, y, x, cell) == [f EXCEPT ![y][x] = cell]

\* The screen, as the log sees it: the rows of VGA memory counted from one.
LEMMA ScreenIsPage == Screen = Page(buffer)
BY DEF Screen, Page

\* A blank row is a row, so clearing and scrolling keep the cells well formed.
LEMMA BlankRowType ==
  ASSUME NEW c \in Color PROVE BlankRow(c) \in LogRow
BY DEF BlankRow, LogRow, Cell

(***************************************************************************)
(* Type correctness.                                                       *)
(***************************************************************************)
\* A line feed keeps the screen a screen and the cursor on it.
LEMMA LineFeedType ==
  ASSUME TypeOK, NEW screen \in [Line -> LogRow], LineFeed(screen), color' = color
  PROVE TypeOK'
<1>1. CASE row + 1 = Height
  <2>1. BlankRow(color) \in LogRow BY BlankRowType DEF TypeOK
  <2>2. Scrolled(screen) \in [Line -> LogRow]
    BY <2>1, ScreenAssumption DEF Scrolled, Line
  <2>3. screen[0] \in LogRow BY ScreenAssumption DEF Line
  <2>4. past' \in Seq(LogRow) BY <1>1, <2>3 DEF LineFeed, TypeOK, LogRow
  <2> QED BY <1>1, <2>2, <2>4, ScreenAssumption
          DEF LineFeed, TypeOK, LogRow, Line, Col
<1>2. CASE row + 1 # Height
  BY <1>2, ScreenAssumption DEF LineFeed, TypeOK, LogRow, Line, Col
<1> QED BY <1>1, <1>2

\* The screen with one more character on it.
LEMMA WrittenType ==
  ASSUME TypeOK, NEW c \in Char
  PROVE [buffer EXCEPT ![row][column] = [char |-> c, color |-> color]] \in [Line -> LogRow]
BY DEF TypeOK, LogRow, Cell

\* The cursor stays on the screen and every cell holds a character and a color.
THEOREM TypeCorrect == Spec => []TypeOK
<1>1. Init => TypeOK
  BY BlankRowType, ScreenAssumption DEF Init, TypeOK, BlankScreen, Line, Col, LogRow
<1>2. TypeOK /\ [Next]_vars => TypeOK'
  <2> SUFFICES ASSUME TypeOK, [Next]_vars PROVE TypeOK' OBVIOUS
  <2>1. CASE NewLine BY <2>1, LineFeedType DEF NewLine, TypeOK, LogRow
  <2>2. ASSUME NEW c \in Char, PutChar(c) PROVE TypeOK'
    <3> DEFINE screen == [buffer EXCEPT ![row][column] = [char |-> c, color |-> color]]
    <3>1. screen \in [Line -> LogRow] BY WrittenType
    <3>2. CASE column + 1 = Width BY <2>2, <3>1, <3>2, LineFeedType DEF PutChar
    <3>3. CASE column + 1 # Width
      <4>1. /\ buffer' = screen
            /\ column' = column + 1
            /\ UNCHANGED <<row, past, color>>
        BY <2>2, <3>3 DEF PutChar
      <4>2. column' \in Col BY <4>1, <3>3, ScreenAssumption DEF TypeOK, Col
      <4>3. buffer' \in [Line -> [Col -> Cell]] BY <3>1, <4>1 DEF LogRow
      <4> QED BY <4>1, <4>2, <4>3 DEF TypeOK
    <3> QED BY <3>2, <3>3
  <2>3. CASE ClearScreen
    BY <2>3, BlankRowType, ScreenAssumption
    DEF ClearScreen, TypeOK, BlankScreen, Line, Col, LogRow
  <2>4. ASSUME NEW x \in Position, NEW y \in Position, SetCursor(x, y) PROVE TypeOK'
    BY <2>4, ScreenAssumption, PositionAssumption DEF SetCursor, TypeOK, Line, Col
  <2>5. ASSUME NEW c \in Color, SetColor(c) PROVE TypeOK'
    BY <2>5 DEF SetColor, TypeOK
  <2>6. CASE UNCHANGED vars BY <2>6 DEF vars, TypeOK
  <2> QED BY <2>1, <2>2, <2>3, <2>4, <2>5, <2>6 DEF Next
<1> QED BY <1>1, <1>2, PTL DEF Spec

(***************************************************************************)
(* The log.                                                                *)
(***************************************************************************)
\* Rows p above a page: its last row is there, and its length is that of both.
LEMMA LogShape ==
  ASSUME NEW p \in Seq(LogRow), NEW screen \in [Line -> LogRow]
  PROVE  /\ Page(screen) \in Seq(LogRow)
         /\ Len(Page(screen)) = Height
         /\ p \o Page(screen) \in Seq(LogRow)
         /\ Len(p \o Page(screen)) = Len(p) + Height
         /\ \A i \in 1 .. Len(p) + Height :
               (p \o Page(screen))[i] = IF i <= Len(p) THEN p[i] ELSE screen[i - Len(p) - 1]
<1>1. \A i \in 1 .. Height : i - 1 \in Line BY ScreenAssumption DEF Line
<1>2. Page(screen) \in [1 .. Height -> LogRow] BY <1>1 DEF Page
<1>3. Page(screen) \in Seq(LogRow) /\ Len(Page(screen)) = Height
  BY <1>2, ScreenAssumption
<1>4. \A i \in 1 .. Len(p) + Height :
        (p \o Page(screen))[i] = IF i <= Len(p) THEN p[i] ELSE Page(screen)[i - Len(p)]
  BY <1>3, ScreenAssumption, ConcatProperties
<1>5. ASSUME NEW i \in 1 .. Len(p) + Height, i > Len(p)
      PROVE  Page(screen)[i - Len(p)] = screen[i - Len(p) - 1]
  <2>1. Len(p) \in Nat OBVIOUS
  <2>2. i - Len(p) \in 1 .. Height BY <1>5, <2>1, ScreenAssumption
  <2> QED BY <2>2 DEF Page
<1>6. p \o Page(screen) \in Seq(LogRow) /\ Len(p \o Page(screen)) = Len(p) + Height
  BY <1>3, ConcatProperties
<1> QED BY <1>3, <1>4, <1>5, <1>6

\* Scrolling the screen adds a row to the log.
LEMMA ScrollAppends ==
  ASSUME NEW p \in Seq(LogRow), NEW screen \in [Line -> LogRow], color \in Color
  PROVE  Append(p, screen[0]) \o Page(Scrolled(screen))
           = Append(p \o Page(screen), BlankRow(color))
<1> DEFINE q == Append(p, screen[0])
           left == q \o Page(Scrolled(screen))
           base == p \o Page(screen)
           right == Append(base, BlankRow(color))
<1>1. BlankRow(color) \in LogRow BY BlankRowType
<1>2. screen[0] \in LogRow BY ScreenAssumption DEF Line
<1>3. q \in Seq(LogRow) /\ Len(q) = Len(p) + 1 BY <1>2
<1>4. Scrolled(screen) \in [Line -> LogRow]
  BY <1>1, ScreenAssumption DEF Scrolled, Line
<1>5. PICK n \in Nat : n = Len(p) OBVIOUS
<1>6. left \in Seq(LogRow) /\ Len(left) = n + 1 + Height
  BY <1>3, <1>4, <1>5, LogShape
<1>7. right \in Seq(LogRow) /\ Len(right) = n + Height + 1
  BY <1>1, <1>5, LogShape
<1>8. ASSUME NEW i \in 1 .. n + 1 + Height PROVE left[i] = right[i]
  <2>1. left[i] = IF i <= n + 1 THEN q[i] ELSE Scrolled(screen)[i - n - 2]
    <3>1. left[i] = IF i <= Len(q) THEN q[i] ELSE Scrolled(screen)[i - Len(q) - 1]
      BY <1>3, <1>4, <1>5, LogShape
    <3>2. i - (n + 1) - 1 = i - n - 2 BY <1>5
    <3> QED BY <1>3, <1>5, <3>1, <3>2
  <2>2. right[i] = IF i = n + Height + 1 THEN BlankRow(color) ELSE base[i]
    <3>1. base \in Seq(LogRow) /\ Len(base) = n + Height BY <1>5, LogShape
    <3> HIDE DEF base
    <3> QED BY <1>1, <1>5, <3>1, ScreenAssumption
  <2>3. i <= n + Height => base[i] = IF i <= n THEN p[i] ELSE screen[i - n - 1]
    BY <1>5, LogShape
  <2> HIDE DEF left, right, base
  <2>4. CASE i <= n
    <3>1. q[i] = p[i] BY <1>2, <1>5, <2>4
    <3> QED BY <2>1, <2>2, <2>3, <2>4, <3>1, <1>5, ScreenAssumption
  <2>5. CASE i = n + 1
    <3>1. q[i] = screen[0] BY <1>2, <1>5, <2>5
    <3>2. i - n - 1 = 0 /\ i <= n + 1 /\ ~(i <= n) /\ i <= n + Height /\ i # n + Height + 1
      BY <1>5, <2>5, ScreenAssumption
    <3>3. left[i] = screen[0] BY <2>1, <3>1, <3>2
    <3>4. right[i] = screen[0] BY <2>2, <2>3, <3>2
    <3> QED BY <3>3, <3>4
  <2>6. CASE i > n + 1 /\ i < n + 1 + Height
    <3>1. i - n - 2 \in Line /\ i - n - 2 < Height - 1 /\ (i - n - 2) + 1 = i - n - 1
      BY <1>5, <2>6, ScreenAssumption DEF Line
    <3>2. Scrolled(screen)[i - n - 2] = screen[i - n - 1] BY <3>1 DEF Scrolled
    <3> QED BY <2>1, <2>2, <2>3, <2>6, <3>2, <1>5, ScreenAssumption
  <2>7. CASE i = n + 1 + Height
    <3>1. i - n - 2 = Height - 1 /\ i - n - 2 \in Line
      BY <1>5, <2>7, ScreenAssumption DEF Line
    <3>2. Scrolled(screen)[i - n - 2] = BlankRow(color)
      BY <3>1, ScreenAssumption DEF Scrolled
    <3>3. i = n + Height + 1 /\ ~(i <= n + 1) BY <1>5, <2>7, ScreenAssumption
    <3> QED BY <2>1, <2>2, <3>2, <3>3
  <2> QED BY <1>5, <2>4, <2>5, <2>6, <2>7, ScreenAssumption
<1> HIDE DEF left, right
<1>9. DOMAIN left = 1 .. n + 1 + Height /\ DOMAIN right = 1 .. n + 1 + Height
  BY <1>5, <1>6, <1>7, ScreenAssumption
<1>10. left = [i \in DOMAIN left |-> left[i]] /\ right = [i \in DOMAIN right |-> right[i]]
  BY <1>6, <1>7
<1>11. left = right BY <1>8, <1>9, <1>10
<1> QED BY <1>11 DEF left, right

\* Writing a cell of the screen writes the cell of the log that it shows.
LEMMA PutShows ==
  ASSUME NEW p \in Seq(LogRow), NEW screen \in [Line -> LogRow],
         NEW y \in Line, NEW x \in Col, NEW cell \in Cell
  PROVE  p \o Page(Put(screen, y, x, cell)) = Put(p \o Page(screen), Len(p) + y + 1, x, cell)
<1> DEFINE written == [screen EXCEPT ![y][x] = cell]
           base == p \o Page(screen)
           left == p \o Page(written)
           right == [base EXCEPT ![Len(p) + y + 1][x] = cell]
<1>1. PICK n \in Nat : n = Len(p) OBVIOUS
<1>2. PICK k : k = n + y + 1 OBVIOUS
<1>3. k \in n + 1 .. n + Height /\ k - n - 1 = y
  BY <1>2, ScreenAssumption DEF Line
<1>4. written \in [Line -> LogRow] BY DEF LogRow
<1>5. /\ base \in Seq(LogRow)
      /\ Len(base) = n + Height
      /\ \A i \in 1 .. n + Height : base[i] = IF i <= n THEN p[i] ELSE screen[i - n - 1]
  BY <1>1, LogShape
<1>6. /\ left \in Seq(LogRow)
      /\ Len(left) = n + Height
      /\ \A i \in 1 .. n + Height : left[i] = IF i <= n THEN p[i] ELSE written[i - n - 1]
  <2> HIDE DEF written
  <2> QED BY <1>1, <1>4, LogShape
<1> HIDE DEF left, base
<1>7. right = [base EXCEPT ![k] = [@ EXCEPT ![x] = cell]] BY <1>1, <1>2
<1>8. DOMAIN left = 1 .. n + Height /\ DOMAIN base = 1 .. n + Height
  BY <1>5, <1>6, ScreenAssumption
<1>9. DOMAIN right = 1 .. n + Height BY <1>7, <1>8
<1>10. ASSUME NEW i \in 1 .. n + Height PROVE left[i] = right[i]
  <2>1. CASE i = k
    <3>1. left[i] = written[y] /\ base[i] = screen[y] BY <1>3, <1>5, <1>6, <2>1
    <3>2. written[y] = [screen[y] EXCEPT ![x] = cell] OBVIOUS
    <3>3. right[i] = [base[i] EXCEPT ![x] = cell] BY <1>7, <1>8, <2>1
    <3> QED BY <3>1, <3>2, <3>3
  <2>2. CASE i # k
    <3>1. right[i] = base[i] BY <1>7, <1>8, <2>2
    <3>2. i > n => i - n - 1 \in Line /\ i - n - 1 # y
      BY <1>2, <2>2, ScreenAssumption DEF Line
    <3>3. i > n => written[i - n - 1] = screen[i - n - 1] BY <3>2
    <3> HIDE DEF written, right
    <3> QED BY <1>5, <1>6, <3>1, <3>3
  <2> QED BY <2>1, <2>2
<1>11. left = [i \in DOMAIN left |-> left[i]] BY <1>6
<1>12. right = [i \in DOMAIN right |-> right[i]] BY <1>7
<1> HIDE DEF right
<1>13. left = right BY <1>8, <1>9, <1>10, <1>11, <1>12
<1> QED BY <1>13, Zenon DEF left, right, base, Put

\* The log and the terminal mean the same by a blank row.
LEMMA SameBlankRow == \A c : Log!BlankRow(c) = BlankRow(c)
BY DEF Log!BlankRow, BlankRow, Log!Col, Col

\* A cleared screen is a cleared page of the log.
LEMMA SameBlankPage == \A c : Log!BlankPage(c) = Page(BlankScreen(c))
<1>1. \A i \in 1 .. Height : i - 1 \in Line BY ScreenAssumption DEF Line
<1> QED BY <1>1, SameBlankRow DEF Log!BlankPage, Page, BlankScreen

\* A line feed of the terminal is one of the log.
LEMMA LineFeedIsNextRow ==
  ASSUME TypeOK, NEW screen \in [Line -> LogRow], LineFeed(screen)
  PROVE  Log!NextRow(past \o Page(screen))
<1> DEFINE text == past \o Page(screen)
<1>1. Screen' = Page(buffer)' BY DEF Screen, Page
<1>2. PICK n \in Nat : n = Len(past) BY DEF TypeOK
<1>3. Len(text) = n + Height BY <1>2, LogShape DEF TypeOK, LogRow
<1>4. CASE row + 1 = Height
  <2>1. past' = Append(past, screen[0]) /\ buffer' = Scrolled(screen) /\ row' = Height - 1
    BY <1>4 DEF LineFeed
  <2>2. (past \o Screen)' = Append(text, BlankRow(color))
    BY <2>1, <1>1, ScrollAppends DEF TypeOK, LogRow, Page
  <2>3. Len(past') = n + 1
    <3>1. screen[0] \in LogRow BY ScreenAssumption DEF Line
    <3> QED BY <2>1, <1>2, <3>1 DEF TypeOK, LogRow
  <2>4. Len(past') + row' + 1 = (Len(past) + row + 1) + 1
    <3>1. row' = row BY <2>1, <1>4, ScreenAssumption DEF TypeOK, Line
    <3> QED BY <2>3, <3>1, <1>2 DEF TypeOK, Line
  <2>5. Len(past) + row + 1 = Len(text)
    <3> HIDE DEF text
    <3> QED BY <1>2, <1>3, <1>4, ScreenAssumption DEF TypeOK, Line
  <2> HIDE DEF text
  <2>6. column' = 0 BY DEF LineFeed
  <2>7. Log!NextRow(text) BY <2>2, <2>4, <2>5, <2>6, SameBlankRow DEF Log!NextRow
  <2> QED BY <2>7 DEF text
<1>5. CASE row + 1 # Height
  <2>1. past' = past /\ buffer' = screen /\ row' = row + 1 BY <1>5 DEF LineFeed
  <2>2. (past \o Screen)' = text BY <2>1, <1>1 DEF Page
  <2>3. Len(past') + row' + 1 = (Len(past) + row + 1) + 1
    BY <2>1, <1>2 DEF TypeOK, Line
  <2>4. Len(past) + row + 1 # Len(text)
    BY <1>2, <1>3, <1>5, ScreenAssumption DEF TypeOK, Line
  <2> HIDE DEF text
  <2>5. column' = 0 BY DEF LineFeed
  <2>6. Log!NextRow(text) BY <2>2, <2>3, <2>4, <2>5 DEF Log!NextRow
  <2> QED BY <2>6 DEF text
<1> QED BY <1>4, <1>5

\* The screen of 80 by 25 cells that the code keeps, or one of any other size, is the
\* end of an unbounded log of what was written: whatever wraps, newlines, scrolls and
\* cursor movements meet, terminal_putchar loses and misplaces nothing.
THEOREM TerminalImplementsLog == Spec => ImplementsLog
<1>1. Init => Log!LogInit
  <2> SUFFICES ASSUME Init PROVE Log!LogInit OBVIOUS
  <2>1. past \o Screen = Screen
    <3>1. \A i \in 1 .. Height : i - 1 \in Line BY ScreenAssumption DEF Line
    <3>2. buffer \in [Line -> LogRow] BY BlankRowType DEF Init, BlankScreen
    <3>3. Screen \in [1 .. Height -> LogRow] BY <3>1, <3>2 DEF Screen
    <3>4. Screen \in Seq(LogRow) BY <3>3, ScreenAssumption
    <3> QED BY <3>4 DEF Init
  <2>2. Screen = Log!BlankPage(color) BY ScreenIsPage, SameBlankPage DEF Init
  <2>3. Len(past) + row + 1 = 1 BY DEF Init
  <2> QED BY <2>1, <2>2, <2>3 DEF Init, Log!LogInit
<1>2. TypeOK /\ [Next]_vars => [Log!LogNext]_(Log!lvars)
  <2> SUFFICES ASSUME TypeOK, [Next]_vars
               PROVE  Log!LogNext \/ UNCHANGED Log!lvars
    OBVIOUS
  <2>1. Screen' = Page(buffer)' BY DEF Screen, Page
  <2>2. PICK n \in Nat : n = Len(past) BY DEF TypeOK
  <2>3. CASE NewLine
    <3>1. Log!NextRow(past \o Screen)
      BY <2>3, LineFeedIsNextRow, ScreenIsPage DEF NewLine, TypeOK, LogRow
    <3> QED BY <2>3, <3>1 DEF NewLine, Log!Newline, Log!LogNext
  <2>4. ASSUME NEW c \in Char, PutChar(c) PROVE Log!LogNext
    <3> DEFINE cell == [char |-> c, color |-> color]
               screen == [buffer EXCEPT ![row][column] = cell]
               text == [past \o Screen EXCEPT ![Len(past) + row + 1][column] = cell]
    <3>1. screen \in [Line -> LogRow] BY WrittenType
    <3>2. past \o Page(screen) = text
      <4>1. /\ cell \in Cell
            /\ past \in Seq(LogRow)
            /\ buffer \in [Line -> LogRow]
            /\ row \in Line
            /\ column \in Col
        BY DEF TypeOK, Cell, LogRow
      <4> HIDE DEF cell
      <4>2. text = Put(past \o Page(buffer), Len(past) + row + 1, column, cell)
        BY ScreenIsPage, Zenon DEF Put
      <4>3. screen = Put(buffer, row, column, cell) BY DEF Put
      <4> HIDE DEF text, screen
      <4> QED BY <4>1, <4>2, <4>3, PutShows
    <3>3. CASE column + 1 = Width
      <4>1. Log!NextRow(text)
        <5>1. LineFeed(screen) BY <2>4, <3>3 DEF PutChar
        <5> HIDE DEF screen, text
        <5> QED BY <3>1, <3>2, <5>1, LineFeedIsNextRow
      <4> QED BY <2>4, <3>3, <4>1 DEF PutChar, Log!Write, Log!LogNext
    <3>4. CASE column + 1 # Width
      <4>1. /\ buffer' = screen
            /\ column' = column + 1
            /\ UNCHANGED <<row, past, color>>
        BY <2>4, <3>4 DEF PutChar
      <4>2. (past \o Screen)' = text
        <5>1. Screen' = Page(screen) BY <2>1, <4>1 DEF Page
        <5> HIDE DEF screen, text
        <5> QED BY <4>1, <5>1, <3>2
      <4>3. UNCHANGED (Len(past) + row + 1) BY <4>1
      <4> QED BY <4>1, <4>2, <4>3, <3>4 DEF Log!Write, Log!LogNext
    <3> QED BY <3>3, <3>4
  <2>5. CASE ClearScreen
    <3>1. (past \o Screen)' = Screen'
      <4>1. \A i \in 1 .. Height : i - 1 \in Line BY ScreenAssumption DEF Line
      <4>2. buffer' \in [Line -> LogRow]
        BY <2>5, BlankRowType DEF ClearScreen, BlankScreen, TypeOK
      <4>3. Screen' \in [1 .. Height -> LogRow] BY <4>1, <4>2 DEF Screen
      <4>4. Screen' \in Seq(LogRow) BY <4>3, ScreenAssumption
      <4> QED BY <2>5, <4>4 DEF ClearScreen
    <3>2. Screen' = Log!BlankPage(color)
      BY <2>5, <2>1, SameBlankPage DEF ClearScreen, Page
    <3>3. (Len(past) + row + 1)' = 1 BY <2>5 DEF ClearScreen
    <3> QED BY <2>5, <3>1, <3>2, <3>3 DEF ClearScreen, Log!Clear, Log!LogNext
  <2>6. ASSUME NEW x \in Position, NEW y \in Position, SetCursor(x, y) PROVE Log!LogNext
    <3>1. (past \o Screen)' = past \o Screen BY <2>6 DEF SetCursor, Screen
    <3>2. column' \in Log!Col
      BY <2>6, ScreenAssumption, PositionAssumption DEF SetCursor, Log!Col
    <3>3. Len(past \o Screen) - Height = n
      <4>1. Len(past \o Screen) = n + Height
        BY <2>2, ScreenIsPage, LogShape DEF TypeOK, LogRow
      <4> QED BY <4>1, ScreenAssumption
    <3>4. row' \in 0 .. Height - 1
      BY <2>6, ScreenAssumption, PositionAssumption DEF SetCursor
    <3>5. (Len(past) + row + 1)' \in n + 1 .. n + Height
      BY <2>2, <2>6, <3>4, ScreenAssumption DEF SetCursor
    <3> QED BY <2>6, <3>1, <3>2, <3>3, <3>5
            DEF SetCursor, Log!Place, Log!Top, Log!LogNext
  <2>7. ASSUME NEW c \in Color, SetColor(c) PROVE Log!LogNext
    BY <2>7 DEF SetColor, Screen, Log!SetColor, Log!LogNext
  <2>8. CASE UNCHANGED vars
    BY <2>8 DEF vars, Screen, Log!lvars
  <2> QED BY <2>3, <2>4, <2>5, <2>6, <2>7, <2>8 DEF Next
<1> QED BY <1>1, <1>2, TypeCorrect, PTL DEF Spec, ImplementsLog, Log!LogSpec
=============================================================================
