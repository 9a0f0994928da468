---------------------------- MODULE ShellProofs ----------------------------
(***************************************************************************)
(* Proofs about the tables and the buffer of the shell, for every set of   *)
(* lines and every size of the tables: what the history holds, the types,  *)
(* where the output of a command is from phase to phase, and that the      *)
(* entries of the alias table are a map.                                   *)
(***************************************************************************)
EXTENDS Shell, Induction

-----------------------------------------------------------------------------
(***************************************************************************)
(* The history.                                                            *)
(***************************************************************************)
\* Only Enter changes the history, and the log with it.
LEMMA HistoryChanges ==
  [Next]_svars => UNCHANGED <<history, log>> \/ \E l \in Line : history' = Recorded(l) /\ log' = Append(log, l)
BY Zenon DEF Next, Step, Enter, Expand, Assign, AssignEnd, List, Clear, Alias, Run, MissingFile,
             Redirect, Emit, Return, Store, Done, tables, line, svars

\* The same, element by element.
LastLines ==
  /\ log \in Seq(Line) /\ history \in Seq(Line)
  /\ Len(history) = IF Len(log) < HistorySize THEN Len(log) ELSE HistorySize
  /\ \A i \in 1 .. Len(history) : history[i] = log[Len(log) - Len(history) + i]

\* A recorded line leaves the history what it should be.
LEMMA RecordedKeepsLast ==
  ASSUME LastLines, NEW l \in Line, history' = Recorded(l), log' = Append(log, l)
  PROVE  LastLines'
<1>1. /\ Len(log) \in Nat /\ log' \in Seq(Line) /\ Len(log') = Len(log) + 1 /\ log'[Len(log) + 1] = l
      /\ \A i \in 1 .. Len(log) : log'[i] = log[i]
  BY DEF LastLines
<1>2. HistorySize \in Nat \ {0}
  BY SizesAssumption
<1>3. CASE Len(log) < HistorySize
  <2>1. history' = Append(history, l) /\ Len(history) = Len(log)
    BY <1>3 DEF Recorded, LastLines
  <2>2. /\ history' \in Seq(Line) /\ Len(history') = Len(log) + 1 /\ history'[Len(log) + 1] = l
        /\ \A i \in 1 .. Len(log) : history'[i] = history[i]
    BY <2>1 DEF LastLines
  <2> QED BY <1>1, <1>2, <1>3, <2>1, <2>2 DEF LastLines
<1>4. CASE Len(log) >= HistorySize
  <2>1. Len(history) = HistorySize
    BY <1>1, <1>2, <1>4 DEF LastLines
  <2>2. history' = [i \in 1 .. HistorySize |-> IF i < HistorySize THEN history[i + 1] ELSE l]
    BY <1>2, <2>1 DEF Recorded
  <2>3. history' \in Seq(Line) /\ Len(history') = HistorySize
    <3>1. \A i \in 1 .. HistorySize : (IF i < HistorySize THEN history[i + 1] ELSE l) \in Line
      BY <1>2, <2>1, ElementOfSeq DEF LastLines
    <3>2. history' \in [1 .. HistorySize -> Line]
      BY <2>2, <3>1
    <3> QED BY <1>2, <3>2
  <2>4. ASSUME NEW i \in 1 .. HistorySize PROVE history'[i] = log'[Len(log) + 1 - HistorySize + i]
    <3>1. CASE i < HistorySize
      <4>1. i + 1 \in 1 .. Len(history) /\ history'[i] = history[i + 1]
        BY <1>2, <2>1, <2>2, <3>1
      <4>2. history[i + 1] = log[Len(log) - HistorySize + (i + 1)]
        BY <2>1, <4>1 DEF LastLines
      <4>3. Len(log) - HistorySize + (i + 1) \in 1 .. Len(log)
        BY <1>1, <1>2, <1>4, <3>1
      <4>4. Len(log) - HistorySize + (i + 1) = Len(log) + 1 - HistorySize + i
        BY <1>1, <1>2
      <4> QED BY <1>1, <4>1, <4>2, <4>3, <4>4
    <3>2. CASE i = HistorySize
      <4>1. history'[i] = l /\ Len(log) + 1 - HistorySize + i = Len(log) + 1
        BY <1>1, <1>2, <2>2, <3>2
      <4> QED BY <1>1, <4>1
    <3>3. i < HistorySize \/ i = HistorySize
      BY <1>2
    <3> QED BY ONLY <3>1, <3>2, <3>3
  <2>5. (IF Len(log') < HistorySize THEN Len(log') ELSE HistorySize) = HistorySize
    BY <1>1, <1>2, <1>4
  <2>6. \A i \in 1 .. HistorySize : history'[i] = log'[Len(log') - HistorySize + i]
    <3>1. \A i \in 1 .. HistorySize : Len(log') - HistorySize + i = Len(log) + 1 - HistorySize + i
      BY <1>1, <1>2
    <3> QED BY ONLY <2>4, <3>1
  <2> QED BY ONLY <1>1, <2>3, <2>5, <2>6 DEF LastLines
<1> QED BY <1>1, <1>2, <1>3, <1>4

\* It is then what the property says.
LEMMA LastLinesIsRecent == LastLines => HistoryIsRecent
<1> SUFFICES ASSUME LastLines PROVE history = Recent(log)
  BY DEF HistoryIsRecent
<1> DEFINE first == IF Len(log) > HistorySize THEN Len(log) - HistorySize + 1 ELSE 1
           recent == SubSeq(log, first, Len(log))
<1>1. Len(log) \in Nat /\ HistorySize \in Nat \ {0} /\ first \in 1 .. Len(log) + 1
  BY SizesAssumption DEF LastLines
<1>2. \A i \in first .. Len(log) : log[i] \in Line
  BY <1>1 DEF LastLines
<1>3. /\ recent \in Seq(Line) /\ Len(recent) = Len(log) - first + 1
      /\ \A i \in 1 .. Len(log) - first + 1 : recent[i] = log[first + i - 1]
  <2>1. Len(log) \in Int /\ first \in Int
    BY <1>1
  <2> HIDE DEF first
  <2>2. /\ recent \in Seq(Line) /\ Len(recent) = IF first =< Len(log) THEN Len(log) - first + 1 ELSE 0
        /\ \A i \in 1 .. Len(log) - first + 1 : recent[i] = log[first + i - 1]
    BY <1>2, <2>1, SubSeqProperties
  <2> QED BY <1>1, <2>2
<1>4. Len(history) = Len(log) - first + 1
  <2>1. CASE Len(log) < HistorySize
    BY <1>1, <2>1 DEF LastLines
  <2>2. CASE Len(log) >= HistorySize
    <3>1. Len(history) = HistorySize
      BY <1>1, <2>2 DEF LastLines
    <3>2. Len(log) - first + 1 = HistorySize
      BY <1>1, <2>2
    <3> QED BY ONLY <3>1, <3>2
  <2> QED BY <1>1, <2>1, <2>2
<1>5. \A i \in 1 .. Len(history) : history[i] = recent[i]
  <2>1. \A i \in 1 .. Len(history) : Len(log) - Len(history) + i = first + i - 1
    BY <1>1, <1>4
  <2> HIDE DEF first, recent
  <2>2. \A i \in 1 .. Len(history) : history[i] = log[first + i - 1]
    BY <2>1 DEF LastLines
  <2> QED BY <1>3, <1>4, <2>2
<1>6. history = recent
  <2> HIDE DEF recent
  <2> QED BY <1>3, <1>4, <1>5, SeqEqual DEF LastLines
<1> QED BY <1>6 DEF Recent

\* history holds the last lines that were typed, in their order, and never more than its
\* array has room for, for every size of the array and every number of lines.
THEOREM HistoryHoldsLastLines == Spec => []HistoryIsRecent
<1>1. Init => LastLines
  BY SizesAssumption DEF Init, LastLines
<1>2. LastLines /\ [Next]_svars => LastLines'
  <2>1. LastLines /\ UNCHANGED <<history, log>> => LastLines'
    BY DEF LastLines
  <2> QED BY <2>1, HistoryChanges, RecordedKeepsLast
<1> QED BY <1>1, <1>2, LastLinesIsRecent, PTL DEF Spec
-----------------------------------------------------------------------------
(***************************************************************************)
(* What is shown of a text, and what the buffer keeps of it.               *)
(***************************************************************************)
LEMMA ShownIsPicked == \A s : Shown(s) = Picked(Output, s)
BY DEF Shown, Picked

\* A message of the shell is no output of a command.
LEMMA ShownOfShort ==
  /\ Shown(<<>>) = <<>>
  /\ Shown(<<Message>>) = <<>>
<1>1. Shown(<<>>) = <<>>
  BY PickedEmpty, ShownIsPicked
<1>2. Shown(<<Message>>) = <<>>
  <2>1. <<>> \in Seq({Message}) /\ Append(<<>>, Message) = <<Message>>
    OBVIOUS
  <2>2. Message \notin Output
    BY NamesAssumption
  <2>3. Picked(Output, Append(<<>>, Message)) = Picked(Output, <<>>)
    <3>1. PICK D, e : D = {Message} /\ e = <<>>
      OBVIOUS
    <3>2. e \in Seq(D) /\ Message \in D
      BY <2>1, <3>1
    <3>3. Picked(Output, Append(e, Message)) = IF Message \in Output THEN Append(Picked(Output, e), Message) ELSE Picked(Output, e)
      BY <3>2, PickedAppend
    <3> QED BY <2>2, <3>1, <3>3, Zenon
  <2> QED BY <2>1, <2>3, PickedEmpty, ShownIsPicked
<1> QED BY <1>1, <1>2

\* All of a text that a command prints is shown.
LEMMA ShownIsAll ==
  ASSUME NEW s \in Seq(Output)
  PROVE  Shown(s) = s
<1>0. PICK n \in Nat : n = Len(s)
  OBVIOUS
<1>1. PICK h \in [0 .. n -> Seq(Output)] :
         /\ h[0] = <<>> /\ h[n] = Shown(s)
         /\ \A k \in 1 .. n : h[k] = IF s[k] \in Output THEN Append(h[k - 1], s[k]) ELSE h[k - 1]
  <2>1. \E h \in [0 .. Len(s) -> Seq(Output)] : PickedBy(h, Output, s)
    BY PickedSteps, Zenon
  <2> QED BY <1>0, <2>1, ShownIsPicked DEF PickedBy
<1> DEFINE T == {k \in 0 .. n : Len(h[k]) = k /\ \A i \in 1 .. k : h[k][i] = s[i]}
<1>2. 0 \in T
  BY <1>0, <1>1
<1>3. ASSUME NEW k \in 0 .. n - 1, k \in T PROVE k + 1 \in T
  <2>1. k \in 0 .. n /\ k + 1 \in 0 .. n /\ k + 1 \in 1 .. n /\ (k + 1) - 1 = k
    BY <1>0
  <2>2. h[k] \in Seq(Output) /\ s[k + 1] \in Output
    BY <1>0, <1>1, <2>1
  <2>3. h[k + 1] = Append(h[k], s[k + 1])
    BY <1>1, <2>1, <2>2
  <2>4. Len(h[k]) = k /\ \A i \in 1 .. k : h[k][i] = s[i]
    BY <1>3
  <2>5. PICK g \in Seq(Output), c \in Output : g = h[k] /\ c = s[k + 1]
    BY <2>2
  <2>6. Len(Append(g, c)) = k + 1 /\ \A i \in 1 .. k + 1 : Append(g, c)[i] = IF i = k + 1 THEN c ELSE g[i]
    BY <2>1, <2>4, <2>5
  <2>7. \A i \in 1 .. k + 1 : i = k + 1 \/ i \in 1 .. k
    BY <2>1
  <2>8. \A i \in 1 .. k + 1 : h[k + 1][i] = s[i]
    BY <2>3, <2>4, <2>5, <2>6, <2>7
  <2> QED BY <2>1, <2>3, <2>5, <2>6, <2>8
<1>4. PICK TT : TT = T
  OBVIOUS
<1> HIDE DEF T
<1>5. n \in Nat /\ 0 \in TT /\ \A k \in 0 .. n - 1 : k \in TT => k + 1 \in TT
  BY <1>2, <1>3, <1>4
<1>6. 0 .. n \subseteq TT
  BY ONLY <1>5, UpTo
<1>7. n \in T
  BY <1>4, <1>6
<1>8. Len(Shown(s)) = n /\ (\A i \in 1 .. n : Shown(s)[i] = s[i]) /\ Shown(s) \in Seq(Output)
  BY <1>1, <1>7 DEF T
<1> QED BY <1>0, <1>8, SeqEqual

\* What is kept of one character more is what the buffer takes.
LEMMA KeptOneMore ==
  ASSUME NEW text \in Seq(Output), NEW c \in Output
  PROVE  Kept(Append(text, c)) = Captured(Kept(text), c)
<1>0. PICK n \in Nat, m \in Nat : n = Len(text) /\ CaptureSize = m + 1
  <2>1. CaptureSize - 1 \in Nat /\ CaptureSize = (CaptureSize - 1) + 1
    BY SizesAssumption
  <2> QED BY <2>1
<1>1. CASE n + 1 < m + 1
  <2>1. Kept(text) = text
    <3>1. Kept(text) = SubSeq(text, 1, n)
      BY <1>0, <1>1 DEF Kept
    <3> QED BY <1>0, <3>1
  <2>2. Kept(Append(text, c)) = Append(text, c)
    <3>1. Append(text, c) \in Seq(Output) /\ Len(Append(text, c)) = n + 1
      BY <1>0
    <3>2. Kept(Append(text, c)) = SubSeq(Append(text, c), 1, n + 1)
      BY <1>0, <1>1, <3>1 DEF Kept
    <3>3. PICK t \in Seq(Output) : t = Append(text, c)
      BY <3>1
    <3>4. SubSeq(t, 1, n + 1) = t
      BY <3>1, <3>3
    <3> QED BY <3>2, <3>3, <3>4
  <2> QED BY <1>0, <1>1, <2>1, <2>2 DEF Captured
<1>2. CASE n + 1 >= m + 1
  <2>1. Append(text, c) \in Seq(Output) /\ Len(Append(text, c)) = n + 1
    BY <1>0
  <2>2. Kept(Append(text, c)) = SubSeq(Append(text, c), 1, m)
    BY <1>0, <1>2, <2>1 DEF Kept
  <2>3. Kept(text) = SubSeq(text, 1, m)
    BY <1>0, <1>2 DEF Kept
  <2>4. Len(SubSeq(text, 1, m)) = m
    BY <1>0, <1>2
  <2>5. SubSeq(Append(text, c), 1, m) = SubSeq(text, 1, m)
    BY <1>0, <1>2
  <2> QED BY <1>0, <1>2, <2>2, <2>3, <2>4, <2>5 DEF Captured
<1> QED BY <1>0, <1>1, <1>2

-----------------------------------------------------------------------------
(***************************************************************************)
(* Types.                                                                  *)
(***************************************************************************)
\* Words are tokens, by themselves and in a text.
LEMMA WordIsToken == \A a \in Atom : Word(a) \in Token
BY DEF Word, Token, Text

LEMMA WordsType == ASSUME NEW text \in Text PROVE Words(text) \in Seq(Token)
<1>1. PICK n \in Nat : n = Len(text) /\ DOMAIN text = 1 .. n
  BY DEF Text
<1>2. \A i \in 1 .. n : Word(text[i]) \in Token
  BY <1>1, WordIsToken DEF Text
<1>3. Words(text) \in [1 .. n -> Token]
  BY <1>1, <1>2 DEF Words
<1> QED BY <1>3

\* A token is cut into tokens, and a line in which an alias was expanded is one again.
LEMMA CutType == ASSUME NEW token \in Token PROVE Cut(token) \in Seq(Token)
<1>1. token.text \in Text /\ token.name \in Atom \cup {None}
  BY DEF Token
<1>2. CASE token.name = None
  BY <1>1, <1>2, WordsType DEF Cut
<1>3. CASE token.name # None /\ token.text = <<>>
  BY <1>3 DEF Cut
<1>4. CASE token.name # None /\ token.text # <<>>
  <2>1. Head(token.text) \in Atom /\ Tail(token.text) \in Text
    BY <1>1, <1>4 DEF Text
  <2>2. [token EXCEPT !.text = <<Head(@)>>] \in Token
    <3>1. PICK a \in Atom : a = Head(token.text)
      BY <2>1
    <3>2. <<a>> \in Text
      BY DEF Text
    <3>3. [token EXCEPT !.text = <<a>>] \in Token
      BY <3>2 DEF Token
    <3> QED BY <3>1, <3>3
  <2>3. Words(Tail(token.text)) \in Seq(Token)
    BY <2>1, WordsType
  <2>4. PICK t \in Token, w \in Seq(Token) :
           t = [token EXCEPT !.text = <<Head(@)>>] /\ w = Words(Tail(token.text))
    BY <2>2, <2>3
  <2>5. <<t>> \o w \in Seq(Token)
    OBVIOUS
  <2> QED BY <1>4, <2>4, <2>5 DEF Cut
<1> QED BY <1>2, <1>3, <1>4

\* So is what an expansion is joined into.
LEMMA JoinedType ==
  ASSUME NEW expansion \in Text, NEW tokens \in Seq(Token)
  PROVE  Joined(expansion, tokens) \in Seq(Token)
<1>1. PICK n \in Nat : n = Len(tokens) /\ DOMAIN tokens = 1 .. n
  OBVIOUS
<1> DEFINE cuts == [i \in DOMAIN tokens |-> Cut(tokens[i])]
<1>2. \A i \in 1 .. n : Cut(tokens[i]) \in Seq(Token)
  BY <1>1, CutType
<1>3. cuts \in [1 .. n -> Seq(Token)]
  BY <1>1, <1>2
<1> HIDE DEF cuts
<1>4. cuts \in Seq(Seq(Token))
  BY <1>3
<1>5. FlattenSeq(cuts) \in Seq(Token)
  BY <1>4, FlattenType
<1>6. Words(expansion) \in Seq(Token)
  BY WordsType
<1>7. PICK w \in Seq(Token), f \in Seq(Token) : w = Words(expansion) /\ f = FlattenSeq(cuts)
  BY <1>5, <1>6
<1>8. w \o f \in Seq(Token)
  OBVIOUS
<1> QED BY <1>7, <1>8 DEF Joined, cuts

\* What alias_table holds.
Entry == [name : Atom, expansion : Text]

\* The entry that is found for a name is there.
LEMMA IndexFinds ==
  ASSUME alias_table \in Seq(Entry), NEW n, HasAlias(n)
  PROVE  IndexOf(n) \in DOMAIN alias_table /\ alias_table[IndexOf(n)].name = n
<1> DEFINE T == {i \in DOMAIN alias_table : alias_table[i].name = n}
<1>1. T \in SUBSET Nat /\ T # {}
  BY DEF HasAlias
<1>2. PICK i \in T : \A j \in T : i =< j
  BY <1>1, NatLeast
<1>3. PICK k \in Nat : k = Len(alias_table) /\ DOMAIN alias_table = 1 .. k
  OBVIOUS
<1>4. \A j \in 1 .. i - 1 : alias_table[j].name # n
  <2> SUFFICES ASSUME NEW j \in 1 .. i - 1, alias_table[j].name = n PROVE FALSE
    OBVIOUS
  <2>1. i \in 1 .. k
    BY <1>2, <1>3
  <2>2. j \in 1 .. k /\ ~(i =< j)
    BY <1>3, <2>1
  <2> QED BY <1>2, <1>3, <2>2
<1>5. i \in DOMAIN alias_table /\ alias_table[i].name = n
  BY <1>2
<1> QED BY <1>4, <1>5 DEF IndexOf

\* What a name is looked up for is a text.
LEMMA ExpansionType ==
  ASSUME alias_table \in Seq(Entry), NEW token
  PROVE  Expansion(token) \in Text \cup {None}
<1>1. CASE token.name = None /\ Len(token.text) = 1 /\ HasAlias(token.text[1])
  <2>1. PICK a : a = token.text[1]
    OBVIOUS
  <2>2. IndexOf(a) \in DOMAIN alias_table
    BY <1>1, <2>1, IndexFinds
  <2>3. alias_table[IndexOf(a)] \in Entry
    BY <2>2
  <2>4. alias_table[IndexOf(a)].expansion \in Text
    BY <2>3 DEF Entry
  <2> QED BY <1>1, <2>1, <2>4 DEF Expansion
<1>2. CASE ~(token.name = None /\ Len(token.text) = 1 /\ HasAlias(token.text[1]))
  BY <1>2 DEF Expansion
<1> QED BY <1>1, <1>2

\* Setting an alias and recording a line keep to the sizes of their tables.
LEMMA AliasSetType ==
  ASSUME alias_table \in Seq(Entry), Len(alias_table) =< AliasSize, NEW n \in Atom, NEW text \in Text
  PROVE  AliasSet(n, text) \in Seq(Entry) /\ Len(AliasSet(n, text)) =< AliasSize
<1>0. PICK k \in Nat, size \in Nat :
         k = Len(alias_table) /\ DOMAIN alias_table = 1 .. k /\ alias_table \in [1 .. k -> Entry]
         /\ size = AliasSize /\ k =< size
  BY SizesAssumption
<1>1. CASE HasAlias(n)
  <2>1. PICK i \in 1 .. k : i = IndexOf(n)
    BY <1>0, <1>1, IndexFinds
  <2>2. alias_table[i] \in Entry
    BY <1>0
  <2>3. [alias_table[i] EXCEPT !.expansion = text] \in Entry
    BY <2>2 DEF Entry
  <2>4. AliasSet(n, text) = [alias_table EXCEPT ![i] = [alias_table[i] EXCEPT !.expansion = text]]
    BY <1>1, <2>1 DEF AliasSet
  <2>5. AliasSet(n, text) \in [1 .. k -> Entry]
    BY <1>0, <2>3, <2>4
  <2>6. AliasSet(n, text) \in Seq(Entry) /\ Len(AliasSet(n, text)) = k
    BY <2>5
  <2> QED BY <1>0, <2>6
<1>2. CASE ~HasAlias(n) /\ Len(alias_table) >= AliasSize
  BY <1>2 DEF AliasSet
<1>3. CASE ~HasAlias(n) /\ ~(Len(alias_table) >= AliasSize)
  <2>1. AliasSet(n, text) = Append(alias_table, [name |-> n, expansion |-> text])
    BY <1>3 DEF AliasSet
  <2>2. PICK e \in Entry : e = [name |-> n, expansion |-> text]
    BY DEF Entry
  <2>3. Append(alias_table, e) \in Seq(Entry) /\ Len(Append(alias_table, e)) = k + 1
    BY <1>0
  <2>4. k + 1 =< size
    BY <1>0, <1>3
  <2> QED BY <1>0, <2>1, <2>2, <2>3, <2>4
<1> QED BY <1>1, <1>2, <1>3

LEMMA RecordedType ==
  ASSUME history \in Seq(Line), Len(history) =< HistorySize, NEW l \in Line
  PROVE  Recorded(l) \in Seq(Line) /\ Len(Recorded(l)) =< HistorySize
<1>0. PICK k \in Nat, size \in Nat :
        /\ k = Len(history) /\ DOMAIN history = 1 .. k /\ history \in [1 .. k -> Line]
        /\ size = HistorySize /\ size > 0 /\ k =< size
  BY SizesAssumption
<1>1. CASE k < size
  <2>1. Recorded(l) = Append(history, l)
    BY <1>0, <1>1 DEF Recorded
  <2>2. Append(history, l) \in Seq(Line) /\ Len(Append(history, l)) = k + 1
    BY <1>0
  <2> QED BY <1>0, <1>1, <2>1, <2>2
<1>2. CASE k = size
  <2>1. Recorded(l) = [i \in 1 .. size |-> IF i < size THEN history[i + 1] ELSE l]
    BY <1>0, <1>2 DEF Recorded
  <2>2. \A i \in 1 .. size : (IF i < size THEN history[i + 1] ELSE l) \in Line
    BY <1>0, <1>2
  <2>3. Recorded(l) \in [1 .. size -> Line]
    BY <2>1, <2>2
  <2>4. Recorded(l) \in Seq(Line) /\ Len(Recorded(l)) = size
    BY <2>3
  <2>5. size =< size
    BY <1>0
  <2> QED BY <1>0, <2>4, <2>5
<1>3. k < size \/ k = size
  <2>1. \A a, b \in Nat : a =< b => a < b \/ a = b
    OBVIOUS
  <2>2. k =< size
    BY <1>0
  <2> QED BY <2>1, <2>2
<1> QED BY <1>1, <1>2, <1>3

\* The first redirection of a line that has one is in it.
LEMMA RedirectIndexFinds ==
  ASSUME argv \in Seq(Token), Redirections # {}
  PROVE  RedirectIndex \in 1 .. Len(argv)
<1>1. Redirections \in SUBSET Nat
  BY DEF Redirections
<1>2. \E i \in Redirections : \A j \in Redirections : i =< j
  BY <1>1, NatLeast
<1>3. RedirectIndex \in Redirections
  BY <1>2 DEF RedirectIndex
<1> QED BY <1>3 DEF Redirections

\* A line is never expanded without a token to look up.
Argument ==
  /\ TypeOK
  /\ phase = "expand" => argv # <<>>

\* Step by step.
LEMMA ExpandTypes == Argument /\ Expand => Argument'
<1> SUFFICES ASSUME Argument, Expand PROVE Argument'
  OBVIOUS
<1> DEFINE expansion == Expansion(Head(argv))
<1>1. argv \in Seq(Token) /\ argv # <<>>
  BY DEF Argument, TypeOK, Expand
<1>2. Tail(argv) \in Seq(Token)
  BY <1>1
<1>3. expansion \in Text \cup {None}
  BY ExpansionType DEF Argument, TypeOK, Entry
<1>4. argv' \in Seq(Token)
  <2>1. expansion # None => Joined(expansion, Tail(argv)) \in Seq(Token)
    BY <1>2, <1>3, JoinedType
  <2> HIDE DEF expansion
  <2>2. argv' \in {argv, <<>>} \/ (expansion # None /\ argv' = Joined(expansion, Tail(argv)))
    BY DEF Expand, Done, expansion
  <2>3. <<>> \in Seq(Token)
    OBVIOUS
  <2> QED BY ONLY <1>1, <2>1, <2>2, <2>3
<1>5. phase' \in {"dispatch", "prompt"} /\ UNCHANGED <<shared, history, alias_table, capture_active, buffer>>
  BY DEF Expand, Done, tables, redirection
<1> QED BY <1>4, <1>5 DEF Argument, TypeOK, Phase

LEMMA AssignTypes == Argument /\ Assign => Argument'
<1> SUFFICES ASSUME Argument, Assign PROVE Argument'
  OBVIOUS
<1>1. argv \in Seq(Token) /\ argv # <<>>
  BY DEF Argument, TypeOK, Assign
<1>2. Tail(argv) \in Seq(Token) /\ Head(argv) \in Token
  BY <1>1
<1>3. argv' \in Seq(Token)
  <2>1. argv' \in {Tail(argv), <<>>}
    BY DEF Assign, Done
  <2>2. <<>> \in Seq(Token)
    OBVIOUS
  <2> QED BY ONLY <1>2, <2>1, <2>2
<1>4. alias_table' \in Seq(Entry) /\ Len(alias_table') =< AliasSize
  <2>0. alias_table \in Seq(Entry) /\ Len(alias_table) =< AliasSize
    BY DEF Argument, TypeOK, Entry
  <2>1. PICK entry \in Token : entry = Head(argv)
    BY <1>2
  <2>2. CASE entry.name # None /\ CanSet(stored_name[entry.name])
    <3>1. entry.name \in Atom /\ entry.text \in Text
      BY <2>2 DEF Token
    <3>2. PICK n \in Atom, text \in Text : n = stored_name[entry.name] /\ text = entry.text
      BY <3>1, NamesAssumption
    <3>3. alias_table' = AliasSet(n, text)
      BY <2>1, <2>2, <3>2 DEF Assign
    <3> QED BY <2>0, <3>3, AliasSetType
  <2>3. CASE ~(entry.name # None /\ CanSet(stored_name[entry.name]))
    BY <2>0, <2>1, <2>3 DEF Assign
  <2> QED BY <2>2, <2>3
<1>5. phase' \in {"assign", "prompt"} /\ UNCHANGED <<shared, history, capture_active, buffer>>
  BY DEF Assign, Done, redirection
<1> QED BY <1>3, <1>4, <1>5 DEF Argument, TypeOK, Phase, Entry

LEMMA RedirectTypes == Argument /\ Redirect => Argument'
<1> SUFFICES ASSUME Argument, Redirect PROVE Argument'
  OBVIOUS
<1>1. argv \in Seq(Token) /\ Redirections # {} /\ RedirectIndex < Len(argv)
  BY DEF Argument, TypeOK, Redirect
<1>2. PICK i \in Nat : i = RedirectIndex /\ i \in 1 .. Len(argv)
  BY <1>1, RedirectIndexFinds
<1>3. argv' \in Seq(Token)
  <2>1. SubSeq(argv, 1, i - 1) \in Seq(Token)
    BY <1>1, <1>2
  <2>2. argv' \in {SubSeq(argv, 1, i - 1), <<>>}
    BY <1>2 DEF Redirect
  <2>3. <<>> \in Seq(Token)
    OBVIOUS
  <2> QED BY ONLY <2>1, <2>2, <2>3
<1>4. buffer' \in Content /\ Len(buffer') < CaptureSize
  <2>1. PICK m \in Nat : CaptureSize = m + 1
    <3>1. CaptureSize - 1 \in Nat /\ CaptureSize = (CaptureSize - 1) + 1
      BY SizesAssumption
    <3> QED BY <3>1
  <2>2. CASE buffer' = <<>>
    BY <2>1, <2>2 DEF Content
  <2>3. CASE buffer' = [k \in 1 .. CaptureSize - 1 |-> Message]
    <3>1. buffer' = [k \in 1 .. m |-> Message]
      BY <2>1, <2>3
    <3>2. buffer' \in [1 .. m -> Output \cup {Message}]
      BY <3>1
    <3>3. buffer' \in Content /\ Len(buffer') = m
      BY <3>2 DEF Content
    <3> QED BY <2>1, <3>3
  <2> QED BY <2>2, <2>3 DEF Redirect
<1>5. /\ phase' = "run" /\ capture_active' = TRUE /\ UNCHANGED <<shared, history, alias_table>>
  BY DEF Redirect, tables
<1> QED BY <1>3, <1>4, <1>5 DEF Argument, TypeOK, Phase

LEMMA EmitTypes == Argument /\ (\E c \in Output : Emit(c)) => Argument'
<1> SUFFICES ASSUME Argument, NEW c \in Output, Emit(c) PROVE Argument'
  OBVIOUS
<1>1. buffer' \in Content /\ Len(buffer') < CaptureSize
  <2>1. buffer \in Content /\ Len(buffer) < CaptureSize
    BY DEF Argument, TypeOK
  <2>2. Append(buffer, c) \in Content /\ Len(Append(buffer, c)) = Len(buffer) + 1
    BY <2>1 DEF Content
  <2>3. buffer' = buffer \/ (Len(buffer) + 1 < CaptureSize /\ buffer' = Append(buffer, c))
    BY DEF Emit, Captured
  <2> QED BY <2>1, <2>2, <2>3
<1>2. UNCHANGED <<shared, history, alias_table, capture_active, phase, argv>>
  BY DEF Emit, tables
<1> QED BY <1>1, <1>2 DEF Argument, TypeOK

LEMMA EnterTypes == Argument /\ (\E l \in Line : Enter(l)) => Argument'
<1> SUFFICES ASSUME Argument, NEW l \in Line, Enter(l) PROVE Argument'
  OBVIOUS
<1>1. history' \in Seq(Line) /\ Len(history') =< HistorySize
  BY RecordedType DEF Argument, TypeOK, Enter
<1>2. argv' \in Seq(Token) /\ argv' # <<>>
  BY LinesAssumption DEF Enter
<1>3. phase' = "expand" /\ UNCHANGED <<shared, alias_table, capture_active, buffer>>
  BY DEF Enter, redirection
<1> QED BY <1>1, <1>2, <1>3 DEF Argument, TypeOK, Phase

LEMMA ArgumentHolds == Spec => []Argument
<1>1. Init => Argument
  <2>1. <<>> \in Seq(Line) /\ <<>> \in Seq(Token) /\ <<>> \in Content /\ Len(<<>>) = 0
        /\ <<>> \in Seq([name : Atom, expansion : Text])
    BY DEF Content
  <2>2. 0 =< HistorySize /\ 0 =< AliasSize /\ 0 < CaptureSize
    BY SizesAssumption
  <2> QED BY <2>1, <2>2 DEF Init, Argument, TypeOK, Phase
<1>2. Argument /\ [Next]_svars => Argument'
  <2> SUFFICES ASSUME Argument, [Next]_svars PROVE Argument'
    OBVIOUS
  <2>0. argv \in Seq(Token) /\ <<>> \in Seq(Token)
    BY DEF Argument, TypeOK
  <2>1. CASE \E l \in Line : Enter(l)
    BY <2>1, EnterTypes
  <2>2. CASE Expand
    BY <2>2, ExpandTypes
  <2>3. CASE Assign
    BY <2>3, AssignTypes
  <2>4. CASE AssignEnd \/ List \/ Clear \/ MissingFile \/ Store
    <3>1. /\ phase' = "prompt" /\ argv' = <<>>
          /\ UNCHANGED <<shared, history, alias_table, capture_active, buffer>>
      BY <2>4 DEF AssignEnd, List, Clear, MissingFile, Store, Done, tables, redirection
    <3> QED BY <2>0, <3>1 DEF Argument, TypeOK, Phase
  <2>5. CASE Alias \/ Run
    <3>1. /\ phase' \in {"assign", "run"}
          /\ UNCHANGED <<shared, history, alias_table, capture_active, buffer>>
          /\ argv' = argv \/ (argv # <<>> /\ argv' = Tail(argv))
      BY <2>5 DEF Alias, Run, tables, redirection, IsCommand
    <3>2. argv # <<>> => Tail(argv) \in Seq(Token)
      BY <2>0
    <3>3. argv' \in Seq(Token)
      BY ONLY <2>0, <3>1, <3>2
    <3> QED BY <3>1, <3>3 DEF Argument, TypeOK, Phase
  <2>6. CASE Redirect
    BY <2>6, RedirectTypes
  <2>7. CASE \E c \in Output : Emit(c)
    BY <2>7, EmitTypes
  <2>8. CASE Return
    <3>1. /\ phase' \in {"store", "prompt"} /\ argv' = <<>> /\ capture_active' = FALSE
          /\ UNCHANGED <<shared, history, alias_table, buffer>>
      BY <2>8 DEF Return, tables
    <3> QED BY <2>0, <3>1 DEF Argument, TypeOK, Phase
  <2>9. CASE UNCHANGED svars
    <3>1. UNCHANGED <<shared, history, alias_table, capture_active, buffer, phase, argv>>
      BY <2>9 DEF svars, tables, redirection
    <3> QED BY <3>1 DEF Argument, TypeOK
  <2> QED BY <2>1, <2>2, <2>3, <2>4, <2>5, <2>6, <2>7, <2>8, <2>9 DEF Next, Step
<1> QED BY <1>1, <1>2, PTL DEF Spec

\* The tables and the buffer never hold more than their arrays have room for, and the shell
\* handles only lines that were made of tokens, whatever aliases have made of them.
THEOREM ShellTypes == Spec => []TypeOK
<1>1. Argument => TypeOK
  BY DEF Argument
<1> QED BY <1>1, ArgumentHolds, PTL

-----------------------------------------------------------------------------
(***************************************************************************)
(* Where the output of a command is.                                       *)
(***************************************************************************)
\* Before a command runs, nothing of the line has been printed or written.
Untouched == asked = None /\ out = <<>> /\ screen = <<>> /\ files = before /\ ~capture_active /\ result = "ok"

\* A command that is not redirected prints on the screen.
OnScreen == asked = None /\ screen = out /\ files = before /\ result = "ok"

\* The output of one that is redirected is in the buffer, for the file that was asked for.
InBuffer ==
  /\ asked # None /\ screen = <<>> /\ files = before /\ result = "ok"
  /\ target # Scrap => target = asked.file /\ append = asked.append /\ buffer = Kept(out)

Underway ==
  /\ out \in Seq(Output)
  /\ phase \in {"expand", "dispatch", "assign"} => Untouched
  /\ phase = "run" => IF capture_active THEN InBuffer ELSE OnScreen
  /\ phase = "store" => ~capture_active /\ InBuffer
  /\ OutputArrives

\* A line that ends before its command could run has at most a message to show.
LEMMA EndsEarly ==
  ASSUME Untouched, UNCHANGED <<files, capture_active, before, out, asked>>,
         phase' = "prompt", screen' \in {<<>>, <<Message>>}
  PROVE  Underway'
<1>1. Shown(screen') = <<>>
  BY ShownOfShort
<1>2. out' = <<>> /\ <<>> \in Seq(Output)
  BY DEF Untouched
<1>3. OutputArrives'
  BY <1>1, <1>2 DEF OutputArrives, Untouched
<1> QED BY <1>2, <1>3 DEF Underway

\* What a command has printed when it returns.
LEMMA EndsWithOutput ==
  ASSUME Underway, Return
  PROVE  Underway'
<1>1. phase = "run" /\ out \in Seq(Output) /\ UNCHANGED <<buffer, target, append, files, screen, before, asked, out, result>>
  BY DEF Underway, Return, line
<1>2. CASE capture_active
  <2>1. phase' = "store" /\ ~capture_active' /\ InBuffer
    BY <1>1, <1>2 DEF Underway, Return
  <2>2. InBuffer'
    BY <1>1, <2>1 DEF InBuffer, Kept
  <2> QED BY <1>1, <2>1, <2>2 DEF Underway, OutputArrives
<1>3. CASE ~capture_active
  <2>1. phase' = "prompt" /\ ~capture_active' /\ OnScreen
    BY <1>1, <1>3 DEF Underway, Return
  <2>2. Shown(screen') = out'
    BY <1>1, <2>1, ShownIsAll DEF OnScreen
  <2>3. OutputArrives'
    BY <1>1, <2>1, <2>2 DEF OutputArrives, OnScreen
  <2> QED BY <1>1, <2>1, <2>3 DEF Underway
<1> QED BY <1>2, <1>3

\* A character that it prints.
LEMMA CapturedOrShown ==
  ASSUME Underway, NEW c \in Output, Emit(c)
  PROVE  Underway'
<1>1. phase = "run" /\ phase' = "run" /\ out \in Seq(Output) /\ out' = Append(out, c)
      /\ UNCHANGED <<capture_active, target, append, files, before, asked, result>>
  BY DEF Underway, Emit, line
<1>2. out' \in Seq(Output)
  BY <1>1
<1>3. CASE capture_active
  <2>1. InBuffer /\ screen' = screen /\ buffer' = Captured(buffer, c)
    BY <1>1, <1>3 DEF Underway, Emit
  <2>2. Kept(out') = Captured(Kept(out), c)
    BY <1>1, KeptOneMore
  <2>3. Kept(out)' = Kept(out')
    BY DEF Kept
  <2>4. InBuffer'
    BY <1>1, <2>1, <2>2, <2>3 DEF InBuffer
  <2> QED BY <1>1, <1>2, <1>3, <2>4 DEF Underway, OutputArrives
<1>4. CASE ~capture_active
  <2>1. OnScreen /\ screen' = Append(screen, c)
    BY <1>1, <1>4 DEF Underway, Emit
  <2>2. OnScreen'
    BY <1>1, <2>1 DEF OnScreen
  <2> QED BY <1>1, <1>2, <1>4, <2>2 DEF Underway, OutputArrives
<1> QED BY <1>3, <1>4

\* The file is written, or a message is shown.
LEMMA StoredOrNot ==
  ASSUME Underway, Store
  PROVE  Underway'
<1>1. /\ InBuffer /\ phase' = "prompt" /\ ~capture_active' /\ out \in Seq(Output)
      /\ UNCHANGED <<buffer, target, append, before, asked, out>>
  BY DEF Underway, Store, Done, line, redirection
<1>2. \/ files' = Written /\ screen' = <<>> /\ result' = "ok"
      \/ files' \in {files, Created} /\ screen' = <<Message>> /\ result' = "error"
  <2>1. Append(<<>>, Message) = <<Message>>
    OBVIOUS
  <2> QED BY <1>1, <2>1 DEF Store, Say, InBuffer
<1>3. Shown(screen') = <<>> /\ Kept(out)' = Kept(out)
  BY <1>1, <1>2, ShownOfShort DEF Kept
<1>4. <<Message>> # <<>>
  OBVIOUS
<1>5. CASE target = Scrap
  BY <1>1, <1>5 DEF OutputArrives, Underway, InBuffer
<1>6. CASE target # Scrap
  <2>1. target = asked.file /\ append = asked.append /\ buffer = Kept(out) /\ files = before /\ asked # None
    BY <1>1, <1>6 DEF InBuffer
  <2>2. Created = [before EXCEPT ![asked.file] = IF @ = None THEN <<>> ELSE @]
    BY <2>1 DEF Created
  <2>3. Written = [before EXCEPT ![asked.file] = IF asked.append /\ @ # None THEN @ \o Kept(out) ELSE Kept(out)]
    BY <2>1 DEF Written
  <2> HIDE DEF Kept, Shown
  <2>4. OutputArrives'
    <3>1. CASE files' = Written /\ screen' = <<>> /\ result' = "ok"
      BY <1>1, <1>3, <2>1, <2>3, <3>1 DEF OutputArrives
    <3>2. CASE files' \in {files, Created} /\ screen' = <<Message>> /\ result' = "error"
      BY <1>1, <1>3, <1>4, <2>1, <2>2, <3>2 DEF OutputArrives
    <3> QED BY <1>2, <3>1, <3>2
  <2> QED BY <1>1, <2>4 DEF Underway
<1> QED BY <1>5, <1>6

\* A redirection begins with an empty buffer, or with one that nothing is said about.
LEMMA RedirectBegins ==
  ASSUME Underway, Argument, Redirect
  PROVE  Underway'
<1>1. phase = "dispatch" /\ phase' = "run" /\ Untouched /\ UNCHANGED <<files, screen, before, out, result>>
  BY DEF Underway, Redirect
<1>2. argv \in Seq(Token) /\ Redirections # {} /\ RedirectIndex < Len(argv)
  BY DEF Argument, TypeOK, Redirect
<1>3. PICK i \in Nat : i = RedirectIndex /\ i \in 1 .. Len(argv)
  BY <1>2, RedirectIndexFinds
<1>4. PICK file \in Token : file = argv[RedirectIndex + 1]
  <2>1. i + 1 \in 1 .. Len(argv)
    BY <1>2, <1>3
  <2>2. argv[i + 1] \in Token
    BY <1>2, <2>1
  <2> QED BY <1>3, <2>2
<1>5. PICK appends \in BOOLEAN : appends = (argv[RedirectIndex] = Word(">>"))
  OBVIOUS
<1>6. asked' = [file |-> file, append |-> appends] /\ append' = appends /\ capture_active'
  BY <1>4, <1>5 DEF Redirect
<1>7. asked' # None
  <2>1. [file |-> file, append |-> appends] \in [file : Token, append : BOOLEAN]
    OBVIOUS
  <2> QED BY <1>6, <2>1, NamesAssumption
<1>8. target' = Scrap \/ (target' = file /\ buffer' = <<>>)
  BY <1>4 DEF Redirect
<1>9. out' = <<>> /\ Kept(out)' = <<>> /\ out' \in Seq(Output)
  <2>1. PICK m \in Nat : CaptureSize = m + 1
    <3>1. CaptureSize - 1 \in Nat /\ CaptureSize = (CaptureSize - 1) + 1
      BY SizesAssumption
    <3> QED BY <3>1
  <2>2. Kept(<<>>) = SubSeq(<<>>, 1, 0)
    BY <2>1 DEF Kept
  <2>3. SubSeq(<<>>, 1, 0) = <<>>
    OBVIOUS
  <2>4. out' = <<>>
    BY <1>1 DEF Untouched
  <2>5. <<>> \in Seq(Output)
    OBVIOUS
  <2> QED BY <2>2, <2>3, <2>4, <2>5 DEF Kept
<1>10. InBuffer'
  BY <1>1, <1>6, <1>7, <1>8, <1>9 DEF InBuffer, Untouched
<1> QED BY <1>1, <1>6, <1>9, <1>10 DEF Underway, OutputArrives

\* All steps.
LEMMA UnderwayHolds == Spec => []Underway
<1>1. Init => Underway
  <2>1. <<>> \in Seq(Output)
    OBVIOUS
  <2> QED BY <2>1, ShownOfShort DEF Init, Underway, OutputArrives
<1>2. Underway /\ Argument /\ [Next]_svars => Underway'
  <2> SUFFICES ASSUME Underway, Argument, [Next]_svars PROVE Underway'
    OBVIOUS
  <2>0. Append(<<>>, Message) = <<Message>> /\ <<>> \in Seq(Output)
    OBVIOUS
  <2>1. ASSUME NEW l \in Line, Enter(l) PROVE Underway'
    <3>1. phase' = "expand" /\ screen' = <<>> /\ out' = <<>> /\ files' = before' /\ asked' = None /\ result' = "ok"
          /\ ~capture_active'
      BY <2>1 DEF Enter, redirection, Underway, OutputArrives
    <3> QED BY <2>0, <3>1 DEF Underway, Untouched, OutputArrives
  <2>2. CASE Expand \/ Assign \/ AssignEnd \/ List \/ Clear \/ MissingFile
    <3>1. Untouched /\ UNCHANGED <<files, capture_active, before, out, asked>>
      BY <2>2 DEF Underway, Expand, Assign, AssignEnd, List, Clear, MissingFile, Done, redirection, line
    <3>2. \/ phase' \in {"dispatch", "assign"} /\ UNCHANGED <<screen, result>>
          \/ phase' = "prompt" /\ screen' \in {screen, <<>>, Append(screen, Message)}
      BY <2>2 DEF Expand, Assign, AssignEnd, List, Clear, MissingFile, Done, Say
    <3>3. CASE phase' = "prompt" /\ screen' \in {screen, <<>>, Append(screen, Message)}
      <4>1. screen' \in {<<>>, <<Message>>}
        BY <2>0, <3>1, <3>3 DEF Untouched
      <4> QED BY <3>1, <3>3, <4>1, EndsEarly
    <3>4. CASE phase' \in {"dispatch", "assign"} /\ UNCHANGED <<screen, result>>
      BY <2>0, <3>1, <3>4 DEF Underway, Untouched, OutputArrives
    <3> QED BY <3>2, <3>3, <3>4
  <2>3. CASE Alias \/ Run
    <3>1. Untouched /\ phase' \in {"assign", "run"}
          /\ UNCHANGED <<files, capture_active, before, out, asked, screen, result>>
      BY <2>3 DEF Underway, Alias, Run, redirection, line
    <3> QED BY <2>0, <3>1 DEF Underway, Untouched, OnScreen, OutputArrives
  <2>4. CASE Redirect
    BY <2>4, RedirectBegins
  <2>5. ASSUME NEW c \in Output, Emit(c) PROVE Underway'
    BY <2>5, CapturedOrShown
  <2>6. CASE Return
    BY <2>6, EndsWithOutput
  <2>7. CASE Store
    BY <2>7, StoredOrNot
  <2>8. CASE UNCHANGED svars
    <3>1. UNCHANGED <<phase, capture_active, buffer, files, target, append, screen, before, out, asked, result>>
      BY <2>8 DEF svars, redirection, line
    <3>2. Kept(out)' = Kept(out)
      BY <3>1 DEF Kept
    <3>3. Shown(screen)' = Shown(screen)
      BY <3>1
    <3>4. OutputArrives'
      BY <3>1, <3>2, <3>3 DEF OutputArrives, Underway
    <3> QED BY <3>1, <3>2, <3>4 DEF Underway, Untouched, OnScreen, InBuffer
  <2> QED BY <2>1, <2>2, <2>3, <2>4, <2>5, <2>6, <2>7, <2>8 DEF Next, Step
<1> QED BY <1>1, <1>2, ArgumentHolds, PTL DEF Spec

\* What a command prints is on the screen or, up to the size of the buffer, in the file
\* that was asked for, and nowhere else, for every output and every size of the buffer.
THEOREM OutputReachesItsTarget == Spec => []OutputArrives
<1>1. Underway => OutputArrives
  BY DEF Underway
<1> QED BY <1>1, UnderwayHolds, PTL

-----------------------------------------------------------------------------
(***************************************************************************)
(* Aliases.                                                                *)
(***************************************************************************)
\* No name has two entries.
NamesDistinct == \A i, j \in DOMAIN alias_table : alias_table[i].name = alias_table[j].name => i = j

\* What the table says of each name.
Says ==
  /\ \A i \in DOMAIN alias_table : AliasOf(alias_table[i].name) = alias_table[i].expansion
  /\ \A a \in Atom : (\A i \in DOMAIN alias_table : alias_table[i].name # a) => AliasOf(a) = None

\* A name stands for what its entry holds.
LEMMA WhatTableSays == alias_table \in Seq(Entry) /\ NamesDistinct => Says
<1> SUFFICES ASSUME alias_table \in Seq(Entry), NamesDistinct PROVE Says
  OBVIOUS
<1>0. \A a : Word(a).name = None /\ Len(Word(a).text) = 1 /\ Word(a).text[1] = a
  BY DEF Word
<1>1. ASSUME NEW i \in DOMAIN alias_table PROVE AliasOf(alias_table[i].name) = alias_table[i].expansion
  <2>1. PICK a : a = alias_table[i].name
    OBVIOUS
  <2>2. HasAlias(a)
    BY <2>1 DEF HasAlias
  <2>3. IndexOf(a) \in DOMAIN alias_table /\ alias_table[IndexOf(a)].name = a
    BY <2>2, IndexFinds
  <2>4. IndexOf(a) = i
    BY <2>1, <2>3 DEF NamesDistinct
  <2>5. AliasOf(a) = alias_table[IndexOf(a)].expansion
    BY <1>0, <2>2 DEF AliasOf, Expansion
  <2> QED BY <2>1, <2>4, <2>5
<1>2. ASSUME NEW a \in Atom, \A i \in DOMAIN alias_table : alias_table[i].name # a
      PROVE  AliasOf(a) = None
  <2>1. ~HasAlias(a)
    BY <1>2 DEF HasAlias
  <2> QED BY <1>0, <2>1 DEF AliasOf, Expansion
<1> QED BY <1>1, <1>2 DEF Says

\* The table after an operand of alias whose name it has.
LEMMA Replaced ==
  ASSUME Argument, NamesDistinct, NEW n \in Atom, NEW text \in Text, HasAlias(n), alias_table' = AliasSet(n, text)
  PROVE  NamesDistinct' /\ \A a \in Atom : AliasOf(a)' = IF a = n THEN text ELSE AliasOf(a)
<1>0. PICK k \in Nat :
         /\ DOMAIN alias_table = 1 .. k /\ Len(alias_table) = k
         /\ alias_table \in [1 .. k -> Entry] /\ alias_table \in Seq(Entry)
  <2>1. alias_table \in Seq(Entry)
    BY DEF Argument, TypeOK, Entry
  <2>2. Len(alias_table) \in Nat /\ DOMAIN alias_table = 1 .. Len(alias_table)
        /\ alias_table \in [1 .. Len(alias_table) -> Entry]
    BY <2>1
  <2> QED BY ONLY <2>1, <2>2
<1>1. PICK m \in 1 .. k : m = IndexOf(n) /\ alias_table[m].name = n
  BY <1>0, IndexFinds
<1>2. alias_table' = [alias_table EXCEPT ![m] = [alias_table[m] EXCEPT !.expansion = text]]
  BY <1>1 DEF AliasSet
<1>3. /\ DOMAIN alias_table' = 1 .. k
      /\ \A i \in 1 .. k : i # m => alias_table'[i] = alias_table[i]
      /\ alias_table'[m].expansion = text
      /\ \A i \in 1 .. k : alias_table'[i].name = alias_table[i].name
  <2>1. alias_table[m] \in Entry
    BY <1>0
  <2>2. /\ [alias_table[m] EXCEPT !.expansion = text].expansion = text
        /\ [alias_table[m] EXCEPT !.expansion = text].name = alias_table[m].name
    BY <2>1 DEF Entry
  <2> QED BY <1>0, <1>2, <2>2
<1>4. NamesDistinct'
  BY <1>0, <1>3 DEF NamesDistinct
<1>5. alias_table' \in Seq(Entry)
  <2>1. AliasSet(n, text) \in Seq(Entry)
    BY <1>0, AliasSetType DEF Argument, TypeOK
  <2> QED BY <2>1
<1>6. Says
  BY <1>0, WhatTableSays
<1>7. Says'
  <2>1. (alias_table \in Seq(Entry) /\ NamesDistinct => Says)'
    BY WhatTableSays, PTL
  <2> QED BY <1>4, <1>5, <2>1
<1>8. ASSUME NEW a \in Atom PROVE AliasOf(a)' = IF a = n THEN text ELSE AliasOf(a)
  <2>1. CASE \E i \in 1 .. k : alias_table[i].name = a
    <3>1. PICK i \in 1 .. k : alias_table[i].name = a
      BY <2>1
    <3>2. AliasOf(a) = alias_table[i].expansion
      BY <1>0, <1>6, <3>1 DEF Says
    <3>3. AliasOf(a)' = alias_table'[i].expansion
      BY <1>3, <1>7, <3>1 DEF Says
    <3>4. a = n <=> i = m
      BY <1>0, <1>1, <3>1 DEF NamesDistinct
    <3> QED BY <1>3, <3>2, <3>3, <3>4
  <2>2. CASE ~\E i \in 1 .. k : alias_table[i].name = a
    <3>1. AliasOf(a) = None
      BY <1>0, <1>6, <2>2 DEF Says
    <3>2. AliasOf(a)' = None
      BY <1>3, <1>7, <2>2 DEF Says
    <3>3. a # n
      BY <1>1, <2>2
    <3> QED BY <3>1, <3>2, <3>3
  <2> QED BY <2>1, <2>2
<1> QED BY <1>4, <1>8

\* The table after a name that it did not have.
LEMMA Added ==
  ASSUME Argument, NamesDistinct, NEW n \in Atom, NEW text \in Text, ~HasAlias(n), Len(alias_table) < AliasSize,
         alias_table' = AliasSet(n, text)
  PROVE  NamesDistinct' /\ \A a \in Atom : AliasOf(a)' = IF a = n THEN text ELSE AliasOf(a)
<1>0. PICK k \in Nat :
         /\ DOMAIN alias_table = 1 .. k /\ Len(alias_table) = k
         /\ alias_table \in [1 .. k -> Entry] /\ alias_table \in Seq(Entry)
  <2>1. alias_table \in Seq(Entry)
    BY DEF Argument, TypeOK, Entry
  <2>2. Len(alias_table) \in Nat /\ DOMAIN alias_table = 1 .. Len(alias_table)
        /\ alias_table \in [1 .. Len(alias_table) -> Entry]
    BY <2>1
  <2> QED BY ONLY <2>1, <2>2
<1>1. PICK e \in Entry : e = [name |-> n, expansion |-> text] /\ e.name = n /\ e.expansion = text
  <2>1. [name |-> n, expansion |-> text] \in Entry
    BY DEF Entry
  <2> QED BY <2>1
<1>2. alias_table' = Append(alias_table, e)
  <2>1. ~(Len(alias_table) >= AliasSize)
    BY <1>0, SizesAssumption
  <2> QED BY <1>1, <2>1 DEF AliasSet
<1>3. /\ alias_table' \in Seq(Entry) /\ DOMAIN alias_table' = 1 .. k + 1
      /\ alias_table'[k + 1] = e /\ \A i \in 1 .. k : alias_table'[i] = alias_table[i]
  BY <1>0, <1>2
<1>4. \A i \in 1 .. k + 1 : i = k + 1 \/ i \in 1 .. k
  BY <1>0
<1>5. \A i \in 1 .. k : i \in 1 .. k + 1 /\ alias_table[i].name # n
  BY <1>0 DEF HasAlias
<1>6. NamesDistinct'
  <2>1. \A i \in 1 .. k : alias_table'[i].name # n /\ alias_table'[i].name = alias_table[i].name
    BY <1>3, <1>5
  <2>2. alias_table'[k + 1].name = n
    BY <1>1, <1>3
  <2> QED BY <1>0, <1>3, <1>4, <2>1, <2>2 DEF NamesDistinct
<1>7. Says
  BY <1>0, WhatTableSays
<1>8. Says'
  <2>1. (alias_table \in Seq(Entry) /\ NamesDistinct => Says)'
    BY WhatTableSays, PTL
  <2> QED BY <1>3, <1>6, <2>1
<1>9. ASSUME NEW a \in Atom PROVE AliasOf(a)' = IF a = n THEN text ELSE AliasOf(a)
  <2>1. CASE \E i \in 1 .. k : alias_table[i].name = a
    <3>1. PICK i \in 1 .. k : alias_table[i].name = a
      BY <2>1
    <3>2. AliasOf(a) = alias_table[i].expansion
      BY <1>0, <1>7, <3>1 DEF Says
    <3>3. AliasOf(a)' = alias_table'[i].expansion
      BY <1>3, <1>5, <1>8, <3>1 DEF Says
    <3>4. a # n
      BY <1>5, <3>1
    <3> QED BY <1>3, <3>2, <3>3, <3>4
  <2>2. CASE a = n
    <3>1. k + 1 \in 1 .. k + 1
      OBVIOUS
    <3> QED BY <1>1, <1>3, <1>8, <2>2, <3>1 DEF Says
  <2>3. CASE a # n /\ ~\E i \in 1 .. k : alias_table[i].name = a
    <3>1. AliasOf(a) = None
      BY <1>0, <1>7, <2>3 DEF Says
    <3>2. \A i \in 1 .. k + 1 : alias_table'[i].name # a
      BY <1>1, <1>3, <1>4, <2>3
    <3>3. AliasOf(a)' = None
      BY <1>3, <1>8, <3>2 DEF Says
    <3> QED BY <2>3, <3>1, <3>3
  <2> QED BY <2>1, <2>2, <2>3
<1> QED BY <1>6, <1>9

\* Each entry of the table is an alias of its own.
LEMMA AliasesCounted ==
  ASSUME Argument, NamesDistinct
  PROVE  Cardinality({a \in Atom : AliasOf(a) # None}) = Len(alias_table)
<1>0. PICK k \in Nat :
         /\ DOMAIN alias_table = 1 .. k /\ Len(alias_table) = k
         /\ alias_table \in [1 .. k -> Entry] /\ alias_table \in Seq(Entry)
  <2>1. alias_table \in Seq(Entry)
    BY DEF Argument, TypeOK, Entry
  <2>2. Len(alias_table) \in Nat /\ DOMAIN alias_table = 1 .. Len(alias_table)
        /\ alias_table \in [1 .. Len(alias_table) -> Entry]
    BY <2>1
  <2> QED BY ONLY <2>1, <2>2
<1> DEFINE T == {a \in Atom : AliasOf(a) # None}
           f == [i \in 1 .. k |-> alias_table[i].name]
<1>1. Says
  BY <1>0, WhatTableSays
<1>2. \A i \in 1 .. k : alias_table[i].name \in Atom /\ alias_table[i].expansion \in Text
  <2>1. \A i \in 1 .. k : alias_table[i] \in Entry
    BY <1>0
  <2> QED BY <2>1 DEF Entry
<1>3. \A i \in 1 .. k : f[i] \in T
  BY <1>0, <1>1, <1>2, NamesAssumption DEF Says
<1>4. \A a \in T : \E i \in 1 .. k : f[i] = a
  BY <1>0, <1>1 DEF Says
<1>5. \A i, j \in 1 .. k : f[i] = f[j] => i = j
  BY <1>0 DEF NamesDistinct
<1>6. f \in [1 .. k -> T]
  BY <1>3
<1> HIDE DEF f, T
<1>7. ExistsBijection(1 .. k, T)
  BY <1>4, <1>5, <1>6 DEF ExistsBijection, Bijection, Injection, Surjection, IsInjective
<1>8. IsFiniteSet(1 .. k) /\ Cardinality(1 .. k) = k
  BY FS_Interval
<1>9. Cardinality(T) = k
  BY <1>7, <1>8, FS_Bijection
<1> QED BY <1>0, <1>9 DEF T

\* What a step does to what the names stand for.
AliasStep ==
  LET entry == Head(argv)
      n == stored_name[entry.name]
      set == phase = "assign" /\ argv # <<>> /\ result' = "ok"
  IN /\ \A a \in Atom : AliasOf(a)' = IF set /\ a = n THEN entry.text ELSE AliasOf(a)
     /\ phase = "assign" /\ result' = "error" =>
          entry.name = None \/
          (AliasOf(n) = None /\ Cardinality({a \in Atom : AliasOf(a) # None}) >= AliasSize)

\* The table is not touched.
LEMMA SameTable ==
  ASSUME UNCHANGED alias_table, NamesDistinct
  PROVE  NamesDistinct' /\ \A a : AliasOf(a)' = AliasOf(a)
<1>1. NamesDistinct'
  BY DEF NamesDistinct
<1>2. \A a : HasAlias(a)' = HasAlias(a)
  BY DEF HasAlias
<1>3. \A a : IndexOf(a)' = IndexOf(a)
  BY DEF IndexOf
<1>4. \A a : AliasOf(a)' = AliasOf(a)
  BY <1>2, <1>3 DEF AliasOf, Expansion, Word
<1> QED BY <1>1, <1>4

\* An operand of alias sets its name or says why not.
LEMMA AssignSets ==
  ASSUME Argument, Underway, NamesDistinct, Assign
  PROVE  NamesDistinct' /\ AliasStep
<1>1. phase = "assign" /\ argv # <<>> /\ result = "ok" /\ Head(argv) \in Token
  <2>1. argv \in Seq(Token) /\ argv # <<>> /\ phase = "assign"
    BY DEF Argument, TypeOK, Assign
  <2>2. Head(argv) \in Token
    BY <2>1
  <2>3. result = "ok"
    BY <2>1 DEF Underway, Untouched
  <2> QED BY <2>1, <2>2, <2>3
<1>2. PICK entry \in Token : entry = Head(argv)
  BY <1>1
<1>3. CASE entry.name # None /\ CanSet(stored_name[entry.name])
  <2>1. entry.name \in Atom /\ entry.text \in Text
    BY <1>3 DEF Token
  <2>2. PICK n \in Atom, text \in Text : n = stored_name[entry.name] /\ text = entry.text
    BY <2>1, NamesAssumption
  <2>3. alias_table' = AliasSet(n, text) /\ result' = result
    BY <1>2, <1>3, <2>2 DEF Assign
  <2>4. HasAlias(n) \/ (~HasAlias(n) /\ Len(alias_table) < AliasSize)
    BY <1>3, <2>2 DEF CanSet
  <2>5. NamesDistinct' /\ \A a \in Atom : AliasOf(a)' = IF a = n THEN text ELSE AliasOf(a)
    BY <2>3, <2>4, Replaced, Added
  <2>6. result' = "ok" /\ ~(result' = "error")
    BY <1>1, <2>3
  <2> QED BY <1>1, <1>2, <2>2, <2>5, <2>6 DEF AliasStep
<1>4. CASE ~(entry.name # None /\ CanSet(stored_name[entry.name]))
  <2>1. UNCHANGED alias_table /\ result' = "error"
    BY <1>2, <1>4 DEF Assign
  <2>2. \A a : AliasOf(a)' = AliasOf(a)
    BY <2>1, SameTable
  <2>3. NamesDistinct'
    BY <2>1, SameTable
  <2>4. ASSUME entry.name # None
        PROVE  /\ AliasOf(stored_name[entry.name]) = None
               /\ Cardinality({a \in Atom : AliasOf(a) # None}) >= AliasSize
    <3>1. entry.name \in Atom
      BY <2>4 DEF Token
    <3>2. PICK n \in Atom : n = stored_name[entry.name]
      BY <3>1, NamesAssumption
    <3>3. ~HasAlias(n) /\ ~(Len(alias_table) < AliasSize)
      BY <1>4, <2>4, <3>2 DEF CanSet
    <3>4. AliasOf(n) = None
      BY <3>3 DEF AliasOf, Expansion, Word
    <3>5. Cardinality({a \in Atom : AliasOf(a) # None}) = Len(alias_table)
      BY AliasesCounted
    <3>6. Len(alias_table) >= AliasSize
      <4>1. Len(alias_table) \in Nat
        BY DEF Argument, TypeOK
      <4> QED BY <3>3, <4>1, SizesAssumption
    <3> QED BY <3>2, <3>4, <3>5, <3>6
  <2>5. ~(result' = "ok")
    BY <2>1
  <2> QED BY <1>2, <2>2, <2>3, <2>4, <2>5 DEF AliasStep
<1> QED BY <1>3, <1>4

\* Nothing else does.
LEMMA OthersSetNothing ==
  ASSUME Underway, NamesDistinct, Next, ~Assign
  PROVE  NamesDistinct' /\ AliasStep
<1>1. UNCHANGED alias_table
  BY Zenon DEF Next, Step, Enter, Expand, AssignEnd, List, Clear, Alias, Run, MissingFile,
             Redirect, Emit, Return, Store, tables
<1>2. phase = "assign" => argv = <<>> /\ UNCHANGED result
  BY DEF Next, Step, Enter, Expand, AssignEnd, List, Clear, Alias, Run, MissingFile,
             Redirect, Emit, Return, Store
<1>3. phase = "assign" => result' = "ok"
  BY <1>2 DEF Underway, Untouched
<1>4. NamesDistinct' /\ \A a : AliasOf(a)' = AliasOf(a)
  BY <1>1, SameTable
<1> QED BY <1>2, <1>3, <1>4 DEF AliasStep

\* Setting an alias is the only thing that changes what a name stands for, and it changes
\* that one only; a new name is refused only when AliasSize others have one.
THEOREM AliasesAreAMap == Spec => AliasesLatest
<1>1. Init => NamesDistinct
  BY DEF Init, NamesDistinct
<1>2. Argument /\ Underway /\ NamesDistinct /\ [Next]_svars => NamesDistinct' /\ [AliasStep]_svars
  <2>1. NamesDistinct /\ UNCHANGED svars => NamesDistinct'
    BY DEF NamesDistinct, svars, tables
  <2> QED BY <2>1, AssignSets, OthersSetNothing
<1> QED BY <1>1, <1>2, ArgumentHolds, UnderwayHolds, PTL DEF Spec, AliasesLatest, AliasStep
=============================================================================
