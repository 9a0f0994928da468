----------------------------- MODULE Tokenizer -----------------------------
(***************************************************************************)
(* How the shell of EnzOS cuts a line into arguments (tokenize of          *)
(* os/src/shell/shell.c).  The tokens are written over the line they are   *)
(* read from: argv holds positions in the same buffer, so a step that      *)
(* writes too far destroys what is still to be read.                       *)
(***************************************************************************)
EXTENDS Naturals, SequencesExt

CONSTANTS
  Line,       \* the lines that may be typed or come out of an alias
  Letter,     \* characters without a meaning of their own, "n" and "t" among them
  MaxArgs     \* max_args

Space == " "
Tab == "\t"
NewlineChar == "\n"
Quote == "\""
Backslash == "\\"
Nul == ""

Blank == {Space, Tab}
Char == Letter \cup Blank \cup {Quote, Backslash}
Stored == Char \cup {NewlineChar, Nul}

ASSUME LineAssumption == Line \subseteq Seq(Char) /\ Letter \cap (Blank \cup {Quote, Backslash, Nul}) = {}
ASSUME MaxArgsAssumption == MaxArgs \in Nat

VARIABLES
  line,      \* what was typed; the program keeps it no longer, the properties need it
  input,     \* the buffer, with its terminator
  read,      \* read_pos and write_pos, counted from 1
  write,
  argv,      \* where in input each token starts
  inQuotes,
  pc         \* "blanks" before a token, "token" inside one, "done"

vars == <<line, input, read, write, argv, inQuotes, pc>>

\* The condition of the outer loop, once the buffer and the read position are such.
Outer(buffer, pos, args) == IF buffer[pos] # Nul /\ Len(args) < MaxArgs THEN "blanks" ELSE "done"

Init ==
  /\ line \in Line
  /\ input = Append(line, Nul)
  /\ read = 1
  /\ write = 1
  /\ argv = <<>>
  /\ inQuotes = FALSE
  /\ pc = Outer(input, read, argv)

SkipBlankStuck ==  \* mutant: the blank is met again
  /\ pc = "blanks" /\ input[read] \in Blank
  /\ UNCHANGED vars

SkipBlank ==
  /\ pc = "blanks" /\ input[read] \in Blank
  /\ read' = read + 1
  /\ UNCHANGED <<line, input, write, argv, inQuotes, pc>>

EndOfLine ==
  /\ pc = "blanks" /\ input[read] = Nul
  /\ pc' = "done"
  /\ UNCHANGED <<line, input, read, write, argv, inQuotes>>

StartToken ==
  /\ pc = "blanks" /\ input[read] \notin Blank \cup {Nul}
  /\ argv' = Append(argv, write)
  /\ inQuotes' = FALSE
  /\ pc' = "token"
  /\ UNCHANGED <<line, input, read, write>>

\* The token is terminated, and the loop goes on from where reading has stopped.
EndToken(buffer, next, pos) ==
  /\ read' = next
  /\ input' = [buffer EXCEPT ![pos] = Nul]
  /\ write' = pos + 1
  /\ pc' = Outer(input', next, argv)
  /\ UNCHANGED <<line, argv, inQuotes>>

EndAtTerminator ==
  /\ pc = "token" /\ input[read] = Nul
  /\ EndToken(input, read, write)

EndAtBlankInQuotes ==  \* mutant: quotes do not keep blanks together
  /\ pc = "token" /\ input[read] \in Blank
  /\ EndToken(input, read + 1, write)

EndAtBlankUnread ==  \* mutant: the blank is not read before the token is terminated
  /\ pc = "token" /\ input[read] \in Blank /\ ~inQuotes
  /\ EndToken(input, read, write)

EndAtBlank ==
  /\ pc = "token" /\ input[read] \in Blank /\ ~inQuotes
  /\ EndToken(input, read + 1, write)

ToggleQuotes ==
  /\ pc = "token" /\ input[read] = Quote
  /\ read' = read + 1
  /\ inQuotes' = ~inQuotes
  /\ UNCHANGED <<line, input, write, argv, pc>>

\* What a character stands for after a backslash.
Escaped(c) == IF c = "n" THEN NewlineChar ELSE IF c = "t" THEN Tab ELSE c

Put(c, next) ==
  /\ input' = [input EXCEPT ![write] = c]
  /\ write' = write + 1
  /\ read' = next
  /\ UNCHANGED <<line, argv, inQuotes, pc>>

\* A backslash at the end of the line stands for itself and ends the token.
Escape ==
  /\ pc = "token" /\ input[read] = Backslash
  /\ IF input[read + 1] = Nul
     THEN EndToken([input EXCEPT ![write] = Backslash], read + 1, write + 1)
     ELSE Put(Escaped(input[read + 1]), read + 2)

CopyStuck ==  \* mutant: the read position does not advance past the character
  /\ pc = "token"
  /\ input[read] \in Letter \/ (input[read] \in Blank /\ inQuotes)
  /\ Put(input[read], read)

Copy ==
  /\ pc = "token"
  /\ input[read] \in Letter \/ (input[read] \in Blank /\ inQuotes)
  /\ Put(input[read], read + 1)

Next ==
  \/ SkipBlank \/ EndOfLine \/ StartToken
  \/ EndAtTerminator \/ EndAtBlank \/ ToggleQuotes \/ Escape \/ Copy

Spec == Init /\ [][Next]_vars

\* tokenize runs on until it returns.
FairSpec == Spec /\ WF_vars(Next)

(***************************************************************************)
(* Properties.                                                             *)
(***************************************************************************)
TypeOK ==
  /\ line \in Line
  /\ input \in Seq(Stored) /\ Len(input) = Len(line) + 1
  /\ read \in 1 .. Len(input)
  /\ write \in 1 .. Len(input) + 1
  /\ argv \in Seq(1 .. Len(input))
  /\ inQuotes \in BOOLEAN
  /\ pc \in {"blanks", "token", "done"}

\* The tokens never catch up with what is still to be read, although each of them
\* gets a terminator that the line did not have (README.md:162), and they are
\* written inside the buffer.
Unread == \A i \in read .. Len(line) : input[i] = line[i]

InPlace ==
  /\ Unread
  /\ pc # "done" => write <= read /\ input[Len(input)] = Nul

\* The tokens as they are defined over a line that nobody overwrites: a blank that
\* is neither escaped nor between quotes separates, and a token is what stands
\* between separators, without its quotes and with its escapes taken for what they
\* stand for.
EscapedAt(l) ==
  LET at[i \in DOMAIN l] == i > 1 /\ l[i - 1] = Backslash /\ ~at[i - 1] IN at

Active(l, i, c) == l[i] = c /\ ~EscapedAt(l)[i]

Quoted(l, i) == Cardinality({j \in 1 .. i - 1 : Active(l, j, Quote)}) % 2 = 1

Separates(l, i) == l[i] \in Blank /\ ~EscapedAt(l)[i] /\ ~Quoted(l, i)

Starts(l) == {i \in DOMAIN l : ~Separates(l, i) /\ (i > 1 => Separates(l, i - 1))}

EndOf(l, i) ==
  CHOOSE j \in i .. Len(l) :
    /\ \A k \in i .. j : ~Separates(l, k)
    /\ j < Len(l) => Separates(l, j + 1)

\* What belongs to a text: neither a quote nor a backslash that escapes something.
Kept(l) ==
  {i \in DOMAIN l : ~Active(l, i, Quote) /\ (Active(l, i, Backslash) => i = Len(l))}

\* The members of P from i to j, in their order.
InOrder(P, i, j) ==
  FoldLeft(LAMBDA found, k : IF k \in P THEN Append(found, k) ELSE found,
           <<>>, [k \in 1 .. j + 1 - i |-> i + k - 1])

Meant(l, k) == IF EscapedAt(l)[k] THEN Escaped(l[k]) ELSE l[k]

\* What the characters from i to j stand for.
Text(l, i, j) ==
  LET kept == InOrder(Kept(l), i, j) IN [k \in DOMAIN kept |-> Meant(l, kept[k])]

Tokens(l) ==
  LET starts == InOrder(Starts(l), 1, Len(l))
  IN [k \in DOMAIN starts |-> Text(l, starts[k], EndOf(l, starts[k]))]

\* The string that a position of the buffer points at.
StringAt(p) ==
  SubSeq(input, p, (CHOOSE q \in p .. Len(input) :
                      input[q] = Nul /\ \A k \in p .. q - 1 : input[k] # Nul) - 1)

\* What the commands find in argv are the tokens of the line, in their order and up to
\* the number asked for: README.md:160, quotes group and are stripped, escapes are
\* honored.
ArgumentsAreTokens ==
  pc = "done" =>
    LET tokens == Tokens(line)
        n == IF Len(tokens) < MaxArgs THEN Len(tokens) ELSE MaxArgs
    IN [i \in DOMAIN argv |-> StringAt(argv[i])] = SubSeq(tokens, 1, n)

\* The loops come to their end.
Terminates == <>(pc = "done")
=============================================================================
