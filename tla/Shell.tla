------------------------------- MODULE Shell -------------------------------
(***************************************************************************)
(* The shell of EnzOS around its commands: what handle_command of          *)
(* os/src/shell/shell.c does with a line from its tokens to the file its   *)
(* output goes to, with the history, the aliases and the capture buffer.   *)
(* Tokenizer has the tokens; FileSystem and Commands have the commands,    *)
(* which appear here as whatever they print.                               *)
(***************************************************************************)
EXTENDS Naturals, SequencesExt

CONSTANTS
  Atom,          \* words without a blank or a "=" in them
  Line,          \* lines that may be typed, as sequences of tokens
  File,          \* tokens that name the target of a redirection
  stored_name,   \* what is left of a word in ShellAlias.name, 31 characters
  Scrap,         \* what a piece of a captured message names when taken for a file
  Output,        \* characters that commands print
  Message,       \* anything the shell prints itself
  None,
  HistorySize,   \* lines in history_entries (32)
  AliasSize,     \* entries of alias_table (16)
  LineSize,      \* sizeof(expanded_line) (128); a word counts as one character
  CaptureSize,   \* sizeof(buffer) (1024)
  MaxOut,        \* bound: characters a command prints
  MaxLines       \* bound: lines typed

(***************************************************************************)
(* A token is a text of words, several if blanks were quoted and none if   *)
(* it is empty; in name=text there is a name before it.                    *)
(***************************************************************************)
Text == Seq(Atom)
Token == [name : Atom \cup {None}, text : Text]
Word(a) == [name |-> None, text |-> <<a>>]

Content == Seq(Output \cup {Message})
Phase == {"prompt", "expand", "dispatch", "assign", "run", "store"}

ASSUME LinesAssumption == Line \subseteq Seq(Token) \ {<<>>}
ASSUME NamesAssumption ==
  /\ None \notin Atom \cup Text /\ None \notin [file : Token, append : BOOLEAN]
  /\ File \subseteq Token /\ Scrap \notin File /\ Message \notin Output
  /\ stored_name \in [Atom -> Atom]
  /\ \A a \in Atom : stored_name[stored_name[a]] = stored_name[a]
ASSUME SizesAssumption ==
  HistorySize \in Nat \ {0} /\ AliasSize \in Nat /\ CaptureSize \in Nat \ {0} /\ LineSize \in Nat

VARIABLES
  shared,         \* whether the compiler gave buffer the place of expanded_line, whose scope has ended
  history,        \* history_entries[0 .. history_count - 1]
  alias_table,
  capture_active,
  buffer,         \* what has been captured
  files,          \* the content of each file, None where there is none
  phase,          \* where in handle_command the shell is, or "prompt"
  argv,           \* tokens left to be looked at
  target,         \* of the redirection, and whether it appends
  append,
  screen          \* what was printed on it for this line

tables == <<history, alias_table>>
redirection == <<capture_active, buffer, target, append>>

\* History variables of the line being handled: all lines so far, the files before this
\* one, what its command printed, what its redirection asked for, how it came out.
VARIABLES log, before, out, aliased, asked, result

line == <<before, aliased, asked>>
svars == <<shared, tables, redirection, files, phase, argv, screen, log, line, out, result>>

Init ==
  /\ shared \in BOOLEAN
  /\ history = <<>> /\ alias_table = <<>>
  /\ capture_active = FALSE /\ buffer = <<>> /\ target = None /\ append = FALSE
  /\ files = [f \in File \cup {Scrap} |-> None]
  /\ phase = "prompt" /\ argv = <<>> /\ screen = <<>>
  /\ log = <<>> /\ before = files /\ out = <<>> /\ aliased = FALSE
  /\ asked = None /\ result = "ok"

RecordedOverLast(entry) ==  \* mutant: the entries are not shifted
  IF Len(history) < HistorySize THEN Append(history, entry)
  ELSE [history EXCEPT ![HistorySize] = entry]

\* shell_history_record
Recorded(entry) ==
  IF Len(history) < HistorySize THEN Append(history, entry)
  ELSE [i \in 1 .. HistorySize |-> IF i < HistorySize THEN history[i + 1] ELSE entry]

\* A line with a token is recorded as it was typed, before anything is expanded.
Enter(l) ==
  /\ phase = "prompt" /\ Len(log) < MaxLines
  /\ history' = Recorded(l)
  /\ log' = Append(log, l)
  /\ phase' = "expand" /\ argv' = l /\ screen' = <<>>
  /\ before' = files /\ out' = <<>> /\ aliased' = FALSE /\ asked' = None /\ result' = "ok"
  /\ UNCHANGED <<shared, alias_table, redirection, files>>

Say == screen' = Append(screen, Message)

Done == phase' = "prompt" /\ argv' = <<>> /\ UNCHANGED <<shared, log, line, out>>

(***************************************************************************)
(* Aliases.                                                                *)
(***************************************************************************)
HasAlias(n) == \E i \in DOMAIN alias_table : alias_table[i].name = n

IndexOf(n) ==
  CHOOSE i \in DOMAIN alias_table :
    alias_table[i].name = n /\ \A j \in 1 .. i - 1 : alias_table[j].name # n

\* shell_alias_lookup of argv[0]
Expansion(token) ==
  IF token.name = None /\ Len(token.text) = 1 /\ HasAlias(token.text[1])
  THEN alias_table[IndexOf(token.text[1])].expansion ELSE None

TextLen(text) == IF text = <<>> THEN 0 ELSE 2 * Len(text) - 1

TokenLen(token) == TextLen(token.text) + (IF token.name = None THEN 0 ELSE 2)

Words(text) == [i \in DOMAIN text |-> Word(text[i])]

\* The tokens that tokenize makes of a token that is joined into a line: its quotes are
\* gone, so that its blanks separate and an empty token disappears.
Cut(token) ==
  IF token.name = None THEN Words(token.text)
  ELSE IF token.text = <<>> THEN <<token>>
  ELSE <<[token EXCEPT !.text = <<Head(@)>>]>> \o Words(Tail(token.text))

Joined(expansion, tokens) == Words(expansion) \o FlattenSeq([i \in DOMAIN tokens |-> Cut(tokens[i])])

TooLong(expansion, tokens) ==
  /\ tokens # <<>>
  /\ FoldLeft(LAMBDA n, token : n + 1 + TokenLen(token), TextLen(expansion), tokens) >= LineSize

Expand ==
  /\ phase = "expand"
  /\ LET expansion == Expansion(Head(argv)) IN
       IF expansion = None
       THEN phase' = "dispatch" /\ UNCHANGED <<argv, screen, result, shared, log, line, out>>
       ELSE IF TooLong(expansion, Tail(argv))
       THEN Say /\ result' = "error" /\ Done
       ELSE /\ phase' = "dispatch" /\ argv' = Joined(expansion, Tail(argv)) /\ aliased' = TRUE
            /\ UNCHANGED <<screen, result, shared, log, before, asked, out>>
  /\ UNCHANGED <<tables, redirection, files>>

AliasSetFullFirst(n, text) ==  \* mutant: a full table is not searched for the name
  IF Len(alias_table) >= AliasSize THEN alias_table
  ELSE IF HasAlias(n) THEN [alias_table EXCEPT ![IndexOf(n)].expansion = text]
  ELSE Append(alias_table, [name |-> n, expansion |-> text])

\* shell_alias_set: the table afterwards.
AliasSet(n, text) ==
  IF HasAlias(n) THEN [alias_table EXCEPT ![IndexOf(n)].expansion = text]
  ELSE IF Len(alias_table) >= AliasSize THEN alias_table
  ELSE Append(alias_table, [name |-> n, expansion |-> text])

CanSet(n) == HasAlias(n) \/ Len(alias_table) < AliasSize

\* One operand of alias; the first that cannot be set is the last that is looked at.
Assign ==
  /\ phase = "assign" /\ argv # <<>>
  /\ LET entry == Head(argv)
         n == stored_name[entry.name]
     IN IF entry.name # None /\ CanSet(n)
        THEN /\ alias_table' = AliasSet(n, entry.text)
             /\ argv' = Tail(argv)
             /\ UNCHANGED <<phase, screen, result, shared, log, line, out>>
        ELSE Say /\ result' = "error" /\ Done /\ UNCHANGED alias_table
  /\ UNCHANGED <<history, redirection, files>>

AssignEnd ==
  /\ phase = "assign" /\ argv = <<>>
  /\ Done
  /\ UNCHANGED <<tables, redirection, files, screen, result>>

(***************************************************************************)
(* Builtins, which come before redirections and are not redirected.        *)
(***************************************************************************)
IsCommand(name) == argv # <<>> /\ argv[1] = Word(name)

List ==
  /\ phase = "dispatch"
  /\ IsCommand("history") \/ (IsCommand("alias") /\ Len(argv) = 1)
  /\ Say /\ Done
  /\ UNCHANGED <<tables, redirection, files, result>>

Clear ==
  /\ phase = "dispatch" /\ IsCommand("clear")
  /\ screen' = <<>> /\ Done
  /\ UNCHANGED <<tables, redirection, files, result>>

Alias ==
  /\ phase = "dispatch" /\ IsCommand("alias") /\ Len(argv) > 1
  /\ phase' = "assign" /\ argv' = Tail(argv)
  /\ UNCHANGED <<shared, tables, redirection, files, screen, log, line, out, result>>

Builtin == \E name \in {"history", "alias", "clear"} : IsCommand(name)

(***************************************************************************)
(* Commands and their output.                                              *)
(***************************************************************************)
\* find_redirect_index: quotes around the token are gone.
Redirections == {i \in DOMAIN argv : argv[i] \in {Word(">"), Word(">>")}}
RedirectIndex == CHOOSE i \in Redirections : \A j \in Redirections : i =< j

Run ==
  /\ phase = "dispatch" /\ ~Builtin /\ Redirections = {}
  /\ phase' = "run"
  /\ UNCHANGED <<shared, tables, redirection, files, argv, screen, log, line, out, result>>

MissingFile ==
  /\ phase = "dispatch" /\ ~Builtin /\ Redirections # {} /\ RedirectIndex = Len(argv)
  /\ Say /\ result' = "error" /\ Done
  /\ UNCHANGED <<tables, redirection, files>>

\* What beginning the capture does to an aliased command whose tokens lie where the buffer
\* is: its name is now the empty string at the start of the buffer, no such command is
\* found, the message repeats what it has written of itself until the buffer is full,
\* and the name of the file is a piece of it.
Overlaid == shared /\ aliased /\ RedirectIndex > 1

Redirect ==
  /\ phase = "dispatch" /\ ~Builtin /\ Redirections # {} /\ RedirectIndex < Len(argv)
  /\ LET file == argv[RedirectIndex + 1]
         appends == argv[RedirectIndex] = Word(">>")
     IN /\ asked' = [file |-> file, append |-> appends]
        /\ append' = appends
        /\ capture_active' = TRUE
        /\ IF Overlaid
           THEN target' = Scrap /\ argv' = <<>> /\ buffer' = [i \in 1 .. CaptureSize - 1 |-> Message]
           ELSE target' = file /\ argv' = SubSeq(argv, 1, RedirectIndex - 1) /\ buffer' = <<>>
  /\ phase' = "run"
  /\ UNCHANGED <<shared, tables, files, screen, log, before, aliased, out, result>>

CapturedOneMore(text, c) ==  \* mutant: the terminator gets no room
  IF Len(text) < CaptureSize THEN Append(text, c) ELSE text

\* shell_output_char while capturing: what does not fit is dropped.
Captured(text, c) == IF Len(text) + 1 < CaptureSize THEN Append(text, c) ELSE text

\* The command prints a character.
Emit(c) ==
  /\ phase = "run" /\ argv # <<>> /\ Len(out) < MaxOut
  /\ out' = Append(out, c)
  /\ IF capture_active
     THEN buffer' = Captured(buffer, c) /\ UNCHANGED screen
     ELSE screen' = Append(screen, c) /\ UNCHANGED buffer
  /\ UNCHANGED <<shared, tables, capture_active, target, append, files, phase, argv, log, line, result>>

Return ==
  /\ phase = "run"
  /\ argv' = <<>>
  /\ phase' = IF capture_active THEN "store" ELSE "prompt"
  /\ capture_active' = FALSE
  /\ UNCHANGED <<shared, tables, buffer, target, append, files, screen, log, line, out, result>>

\* What the file holds after it was found or created, and after it was written.
Created == [files EXCEPT ![target] = IF @ = None THEN <<>> ELSE @]

WrittenAnew ==  \* mutant: ">>" writes as ">" does
  [files EXCEPT ![target] = buffer]

Written == [files EXCEPT ![target] = IF append /\ @ # None THEN @ \o buffer ELSE buffer]

\* The path leads nowhere or the tree is full, the content pool is full or the target is a
\* directory, or it goes well: a file that was created stays when it cannot be written.
Store ==
  /\ phase = "store"
  /\ \/ files' = Written /\ UNCHANGED <<screen, result>>
     \/ files' \in {files, Created} /\ Say /\ result' = "error"
  /\ Done
  /\ UNCHANGED <<tables, redirection>>

Step ==
  \/ Expand \/ Assign \/ AssignEnd \/ List \/ Clear \/ Alias
  \/ Run \/ MissingFile \/ Redirect \/ (\E c \in Output : Emit(c)) \/ Return \/ Store

Next == (\E l \in Line : Enter(l)) \/ Step

Spec == Init /\ [][Next]_svars

(***************************************************************************)
(* Properties.                                                             *)
(***************************************************************************)
TypeOK ==
  /\ shared \in BOOLEAN
  /\ history \in Seq(Line) /\ Len(history) =< HistorySize
  /\ alias_table \in Seq([name : Atom, expansion : Text]) /\ Len(alias_table) =< AliasSize
  /\ capture_active \in BOOLEAN
  /\ buffer \in Content /\ Len(buffer) < CaptureSize
  /\ phase \in Phase
  /\ argv \in Seq(Token)

\* What history prints are the last HistorySize lines with a word in them, in the order
\* in which they were typed, and not the lines that aliases made of them (README.md:23).
Recent(lines) ==
  SubSeq(lines, IF Len(lines) > HistorySize THEN Len(lines) - HistorySize + 1 ELSE 1, Len(lines))

HistoryIsRecent == history = Recent(log)

\* The table is a map from names to what they were last set to.  Setting one leaves the
\* others alone, and is refused only to a new name when the table is full, although
\* names are cut off as they are stored and searched for in the order of their entries.
AliasOf(a) == Expansion(Word(a))

AliasesLatest ==
  [][LET entry == Head(argv)
         n == stored_name[entry.name]
         set == phase = "assign" /\ argv # <<>> /\ result' = "ok"
     IN /\ \A a \in Atom : AliasOf(a)' = IF set /\ a = n THEN entry.text ELSE AliasOf(a)
        /\ phase = "assign" /\ result' = "error" =>
             entry.name = None \/
             (AliasOf(n) = None /\ Cardinality({a \in Atom : AliasOf(a) # None}) >= AliasSize)]_svars

\* The output of commands in a text, without what the shell says itself; what the buffer
\* has room for.
Shown(text) == FoldLeft(LAMBDA kept, c : IF c \in Output THEN Append(kept, c) ELSE kept, <<>>, text)

Kept(text) == SubSeq(text, 1, IF Len(text) < CaptureSize THEN Len(text) ELSE CaptureSize - 1)

\* What a command prints goes to the screen or, if a redirection asks for it, up to the
\* size of the buffer to the file it names and not to the screen, and to no other file.
\* A redirection that fails says so and leaves every file as it was, but for an empty
\* one where there was none.  (The redirections of Overlaid are the exception.)
OutputArrives ==
  phase = "prompt" =>
    LET shown == Shown(screen)
        kept == Kept(out)
    IN /\ ~capture_active
       /\ asked = None => shown = out /\ files = before
       /\ asked # None /\ target # Scrap =>
            /\ shown = <<>>
            /\ result = "ok" =>
                 files = [before EXCEPT ![asked.file] = IF asked.append /\ @ # None THEN @ \o kept ELSE kept]
            /\ result = "error" =>
                 /\ screen # <<>>
                 /\ files \in {before, [before EXCEPT ![asked.file] = IF @ = None THEN <<>> ELSE @]}

(***************************************************************************)
(* What the README says of redirections, and the code does not always do.  *)
(***************************************************************************)
\* README.md:17: a redirection "captures command output and writes it into a file", so
\* after one that did not complain there is the file it named, also if the command was
\* an alias (README.md:23).
RedirectReachesItsFile ==
  phase = "prompt" /\ asked # None /\ result = "ok" => files[asked.file] # None
=============================================================================
