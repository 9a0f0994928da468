----------------------------- MODULE Console -----------------------------
(***************************************************************************)
(* From the keys to the command line: the line editor of enzos_shell in    *)
(* os/src/shell/shell.c on top of the keyboard driver.  While a command    *)
(* runs nobody polls the keyboard, and what is typed waits in the          *)
(* controller.                                                             *)
(***************************************************************************)
EXTENDS Keyboard, SequencesExt

CONSTANTS
  Newline,    \* the character that ends a line
  LineMax,    \* characters that input has room for (127)
  MaxMeant    \* bound: characters struck and not handled yet

ASSUME LineAssumption == LineMax \in Nat /\ Newline # None

\* What types something with shift types something without it (keymap tables of keyboard.c).
ASSUME LegendAssumption ==
  \A s \in Make : base_keymap[s] = None => shifted_keymap[s] = None

VARIABLES
  input,      \* the line so far, input[0 .. length - 1]
  echo,       \* what the terminal was given since the prompt
  busy,       \* handle_command runs
  meant,      \* history: the characters the user struck since the last prompt, by the keys held
  taken,      \* history: how many of them the shell has read
  garbled     \* history: a key was struck that did not come out as it should

editor == <<input, echo, busy>>
ghosts == <<meant, taken, garbled>>
cvars == <<kvars, editor, ghosts>>

ConsoleInit ==
  /\ Init
  /\ input = <<>> /\ echo = <<>> /\ busy = FALSE
  /\ meant = <<>> /\ taken = 0 /\ garbled = FALSE

(***************************************************************************)
(* The user.                                                               *)
(***************************************************************************)
ShiftHeld == held \cap ShiftSource # {}

\* What is recorded of a key that is struck.  A shift that is out of step, or a key that
\* finds the controller full, spoils what follows.
Record(k) ==
  LET char == Translate(make[k], ShiftHeld)
      spoilt == garbled \/ overlapped \/ lost \/ Len(queue) = QueueSize
  IN IF k \in ShiftSource \/ char = None THEN UNCHANGED ghosts
     ELSE /\ Len(meant) < MaxMeant \/ (char = Newline /\ Len(meant) = MaxMeant)
          /\ garbled' = spoilt
          /\ meant' = IF spoilt THEN <<>> ELSE Append(meant, char)
          /\ taken' = IF spoilt THEN 0 ELSE taken

Strike(k) == Press(k) /\ Record(k) /\ UNCHANGED editor

Lift(k) == Release(k) /\ UNCHANGED <<editor, ghosts>>

(***************************************************************************)
(* The kernel.                                                             *)
(***************************************************************************)
EditFullRefusesAll(c) ==  \* mutant: a full line does not take the newline either
  IF Len(input) = LineMax THEN UNCHANGED editor
  ELSE IF c = Newline THEN busy' = TRUE /\ echo' = Append(echo, c) /\ UNCHANGED input
  ELSE /\ input' = Append(input, c) /\ echo' = Append(echo, c)
       /\ UNCHANGED busy

EditOneMore(c) ==  \* mutant: the terminator gets no room
  IF c = Newline
  THEN busy' = TRUE /\ echo' = Append(echo, c) /\ UNCHANGED input
  ELSE IF Len(input) =< LineMax
  THEN input' = Append(input, c) /\ echo' = Append(echo, c) /\ UNCHANGED busy
  ELSE UNCHANGED editor

\* The body of the loop of enzos_shell up to the call of handle_command.  There is no
\* erasing: a backspace is a character like any other.
Edit(c) ==
  IF c = Newline
  THEN busy' = TRUE /\ echo' = Append(echo, c) /\ UNCHANGED input
  ELSE IF Len(input) < LineMax
  THEN input' = Append(input, c) /\ echo' = Append(echo, c) /\ UNCHANGED busy
  ELSE UNCHANGED editor

Turn ==
  /\ ~busy
  /\ Poll
  /\ IF got' = None THEN UNCHANGED <<editor, taken>>
     ELSE Edit(got') /\ taken' = IF garbled THEN 0 ELSE taken + 1
  /\ UNCHANGED <<meant, garbled>>

FinishKeepsLine ==  \* mutant: length is not reset
  /\ busy
  /\ busy' = FALSE /\ input' = input /\ echo' = <<>>
  /\ meant' = SubSeq(meant, taken + 1, Len(meant))
  /\ taken' = 0
  /\ garbled' = (garbled /\ (queue # <<>> \/ overlapped \/ lost))
  /\ UNCHANGED kvars

\* handle_command returns; the line is empty again, and there is a prompt.
Finish ==
  /\ busy
  /\ busy' = FALSE /\ input' = <<>> /\ echo' = <<>>
  /\ meant' = SubSeq(meant, taken + 1, Len(meant))
  /\ taken' = 0
  /\ garbled' = (garbled /\ (queue # <<>> \/ overlapped \/ lost))
  /\ UNCHANGED kvars

ConsoleNext == (\E k \in Key : Strike(k) \/ Lift(k)) \/ Turn \/ Finish

\* The kernel has nothing else to do than to poll, and a command returns; nobody has to type.
ConsoleSpec == ConsoleInit /\ [][ConsoleNext]_cvars /\ WF_cvars(Turn) /\ WF_cvars(Finish)

(***************************************************************************)
(* Properties.                                                             *)
(***************************************************************************)
Char == {base_keymap[s] : s \in Make} \cup {shifted_keymap[s] : s \in Make}

ConsoleTypeOK ==
  /\ TypeOK
  /\ Len(queue) =< QueueSize
  /\ input \in Seq(Char)
  /\ Len(input) =< LineMax
  /\ busy \in BOOLEAN

Visible == Char \ {None}

\* The characters among what a row of scancodes types.
Readable(s) == FoldLeft(LAMBDA kept, c : IF c \in Visible THEN Append(kept, c) ELSE kept, <<>>, s)

\* What the shell works on is what the user had the keys say: the first LineMax
\* characters between two newlines, each in the case that was held when it was struck,
\* none twice and none lost between the controller, the driver and the line, also if they
\* were typed while the previous command ran.  After an accident the next line is right
\* again if all keys were let go and read before the prompt.
LineIsMeant ==
  ~garbled =>
    LET line == SubSeq(meant, 1, IF busy THEN taken - 1 ELSE taken)
        kept == SubSeq(line, 1, IF Len(line) < LineMax THEN Len(line) ELSE LineMax)
    IN /\ SubSeq(meant, taken + 1, Len(meant)) = Readable(Pending)
       /\ \A i \in DOMAIN line : line[i] # Newline
       /\ input = kept
       /\ IF busy THEN meant[taken] = Newline /\ echo = Append(kept, Newline) ELSE echo = kept

\* A line that was ended is handled, however full it is (the newline is looked at before
\* the room that is left).
EnterHandled == (~busy /\ \E i \in DOMAIN queue : Pending[i] = Newline) ~> busy
=============================================================================
