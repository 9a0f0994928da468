-------------------------- MODULE TokenizerProofs --------------------------
(***************************************************************************)
(* A line of any length is split in place: its tokens are written behind   *)
(* the read position and inside the buffer, and at the end argv has all of *)
(* them.                                                                   *)
(***************************************************************************)
EXTENDS Tokenizer, Induction

\* TypeOK alone is not inductive: that a token fits the buffer follows from its being
\* written behind the read position, and that from the terminator's being still there.
IInv == TypeOK /\ InPlace

\* What is left to be read is the line and its terminator.
LEMMA AtRead ==
  ASSUME IInv, pc # "done"
  PROVE  /\ Len(input) = Len(line) + 1 /\ Len(line) \in Nat
         /\ read <= Len(line) => input[read] = line[read] /\ input[read] \in Char
         /\ read <= Len(line) => input[read] # Nul
         /\ input[read] # Nul => read <= Len(line)
         /\ read \in 1 .. Len(input) /\ write \in 1 .. read
<1>1. line \in Seq(Char) BY LineAssumption DEF IInv, TypeOK
<1>2. Len(line) \in Nat /\ Len(input) = Len(line) + 1 BY <1>1 DEF IInv, TypeOK
<1>3. read \in 1 .. Len(input) /\ write \in 1 .. read BY <1>2 DEF IInv, TypeOK, InPlace
<1>4. ASSUME read <= Len(line) PROVE input[read] = line[read] /\ input[read] \in Char
  BY <1>1, <1>2, <1>3, <1>4 DEF IInv, InPlace, Unread
<1>5. Nul \notin Char BY LineAssumption DEF Char, Blank, Nul, Space, Tab, Quote, Backslash
<1>6. input[read] # Nul => read <= Len(line) BY <1>2, <1>3 DEF IInv, InPlace
<1> QED BY <1>2, <1>3, <1>4, <1>5, <1>6

\* A step that leaves the buffer alone keeps the invariant when it reads on.
LEMMA ReadOn ==
  ASSUME IInv, pc # "done", UNCHANGED <<line, input, write>>,
         read' \in read .. Len(input),
         argv' \in Seq(1 .. Len(input)), inQuotes' \in BOOLEAN,
         pc' \in {"blanks", "token", "done"}
  PROVE  IInv'
<1>1. read \in 1 .. Len(input) /\ write \in 1 .. read /\ Len(input) \in Nat BY AtRead
<1>2. TypeOK' BY <1>1 DEF IInv, TypeOK
<1>3. Unread' BY <1>1 DEF IInv, InPlace, Unread
<1>4. write' <= read' /\ input'[Len(input')] = Nul BY <1>1 DEF IInv, InPlace
<1> QED BY <1>2, <1>3, <1>4 DEF IInv, InPlace

\* Writing one character behind the read position.
LEMMA PutBehind ==
  ASSUME IInv, pc = "token",
         NEW c \in Char \cup {NewlineChar}, NEW next \in read + 1 .. Len(input), Put(c, next)
  PROVE  IInv'
<1>1. /\ read \in 1 .. Len(input) /\ write \in 1 .. read
      /\ Len(input) = Len(line) + 1 /\ Len(line) \in Nat
  BY AtRead
<1>2. c \in Stored BY DEF Stored
<1>3. /\ input' = [input EXCEPT ![write] = c]
      /\ write' = write + 1 /\ read' = next
      /\ UNCHANGED <<line, argv, inQuotes, pc>>
  BY DEF Put
<1>4. /\ input' \in Seq(Stored) /\ Len(input') = Len(input)
      /\ \A i \in 1 .. Len(input) : input'[i] = IF i = write THEN c ELSE input[i]
  BY <1>1, <1>2, <1>3 DEF IInv, TypeOK
<1>5. TypeOK' BY <1>1, <1>3, <1>4 DEF IInv, TypeOK
<1>6. Unread' BY <1>1, <1>3, <1>4 DEF IInv, InPlace, Unread
<1>7. write' <= read' /\ input'[Len(input')] = Nul BY <1>1, <1>3, <1>4 DEF IInv, InPlace
<1> QED BY <1>5, <1>6, <1>7 DEF IInv, InPlace

\* Terminating a token at most where reading has come to.
LEMMA EndBehind ==
  ASSUME IInv, pc = "token",
         NEW buffer \in Seq(Stored), Len(buffer) = Len(input),
         NEW next \in read .. Len(input), NEW pos \in 1 .. next,
         pos = next => next = Len(input),
         \A i \in next .. Len(input) : buffer[i] = input[i],
         EndToken(buffer, next, pos)
  PROVE  IInv'
<1>1. read \in 1 .. Len(input) /\ Len(input) = Len(line) + 1 /\ Len(line) \in Nat BY AtRead
<1>2. /\ input' = [buffer EXCEPT ![pos] = Nul]
      /\ write' = pos + 1 /\ read' = next
      /\ UNCHANGED <<line, argv, inQuotes>>
      /\ pc' \in {"blanks", "done"}
      /\ pc' # "done" => input'[next] # Nul
  BY DEF EndToken, Outer
<1>3. Nul \in Stored BY DEF Stored
<1>4. /\ input' \in Seq(Stored) /\ Len(input') = Len(input)
      /\ \A i \in 1 .. Len(input) : input'[i] = IF i = pos THEN Nul ELSE buffer[i]
  BY <1>1, <1>2, <1>3
<1>5. TypeOK' BY <1>1, <1>2, <1>4 DEF IInv, TypeOK
<1>6. Unread' BY <1>1, <1>2, <1>4 DEF IInv, InPlace, Unread
<1>7. input'[Len(input')] = Nul BY <1>1, <1>4 DEF IInv, InPlace
<1>8. pc' # "done" => write' <= read'
  <2>1. pc' # "done" => pos # next BY <1>1, <1>2, <1>4
  <2> QED BY <1>1, <1>2, <2>1
<1> QED BY <1>5, <1>6, <1>7, <1>8 DEF IInv, InPlace

\* No step of the tokenizer disturbs the invariant.
LEMMA NextKeepsIInv ==
  ASSUME IInv, [Next]_vars PROVE IInv'
<1>1. CASE SkipBlank
  <2>1. input[read] # Nul BY <1>1 DEF SkipBlank, Blank, Space, Tab, Nul
  <2>2. read + 1 \in read .. Len(input) BY <1>1, <2>1, AtRead DEF SkipBlank
  <2> QED BY <1>1, <2>2, ReadOn DEF SkipBlank, IInv, TypeOK
<1>2. CASE EndOfLine
  <2>1. read \in read .. Len(input) BY <1>2, AtRead DEF EndOfLine
  <2> QED BY <1>2, <2>1, ReadOn DEF EndOfLine, IInv, TypeOK
<1>3. CASE StartToken
  <2>1. read \in read .. Len(input) /\ write \in 1 .. Len(input) BY <1>3, AtRead DEF StartToken
  <2>2. argv' \in Seq(1 .. Len(input)) BY <1>3, <2>1 DEF StartToken, IInv, TypeOK
  <2> QED BY <1>3, <2>1, <2>2, ReadOn DEF StartToken
<1>4. CASE EndAtTerminator
  <2>1. read = Len(input) /\ write \in 1 .. read BY <1>4, AtRead DEF EndAtTerminator
  <2>2. read \in read .. Len(input) BY <2>1, AtRead, <1>4 DEF EndAtTerminator
  <2> QED BY <1>4, <2>1, <2>2, EndBehind DEF EndAtTerminator, IInv, TypeOK
<1>5. CASE EndAtBlank
  <2>1. input[read] # Nul BY <1>5 DEF EndAtBlank, Blank, Space, Tab, Nul
  <2>2. read + 1 \in read .. Len(input) /\ write \in 1 .. read + 1 /\ write # read + 1
    BY <1>5, <2>1, AtRead DEF EndAtBlank
  <2> QED BY <1>5, <2>2, EndBehind DEF EndAtBlank, IInv, TypeOK
<1>6. CASE ToggleQuotes
  <2>1. input[read] # Nul BY <1>6 DEF ToggleQuotes, Quote, Nul
  <2>2. read + 1 \in read .. Len(input) BY <1>6, <2>1, AtRead DEF ToggleQuotes
  <2>3. inQuotes' \in BOOLEAN BY <1>6 DEF ToggleQuotes
  <2> QED BY <1>6, <2>2, <2>3, ReadOn DEF ToggleQuotes, IInv, TypeOK
<1>7. CASE Escape
  <2>1. input[read] # Nul BY <1>7 DEF Escape, Backslash, Nul
  <2>2. /\ read \in 1 .. Len(line) /\ write \in 1 .. read
        /\ Len(input) = Len(line) + 1 /\ Len(line) \in Nat
    BY <1>7, <2>1, AtRead DEF Escape
  <2>3. read + 1 <= Len(line) => input[read + 1] \in Char /\ input[read + 1] # Nul
    <3>1. line \in Seq(Char) BY LineAssumption DEF IInv, TypeOK
    <3>2. Nul \notin Char BY LineAssumption DEF Char, Blank, Nul, Space, Tab, Quote, Backslash
    <3> QED BY <2>2, <3>1, <3>2 DEF IInv, InPlace, Unread
  <2>4. CASE input[read + 1] = Nul
    <3> DEFINE buffer == [input EXCEPT ![write] = Backslash]
    <3>1. read + 1 = Len(input) BY <2>2, <2>3, <2>4
    <3>2. Backslash \in Stored BY DEF Stored, Char
    <3>3. /\ buffer \in Seq(Stored) /\ Len(buffer) = Len(input)
          /\ \A i \in read + 1 .. Len(input) : buffer[i] = input[i]
      BY <2>2, <3>2 DEF IInv, TypeOK
    <3>4. EndToken(buffer, read + 1, write + 1) BY <1>7, <2>4 DEF Escape
    <3>5. read + 1 \in read .. Len(input) /\ write + 1 \in 1 .. read + 1 BY <2>2, <3>1
    <3> HIDE DEF buffer
    <3> QED BY <1>7, <3>1, <3>3, <3>4, <3>5, EndBehind DEF Escape
  <2>5. CASE input[read + 1] # Nul
    <3>1. read + 2 \in read + 1 .. Len(input)
      <4>1. input[Len(input)] = Nul BY <1>7 DEF Escape, IInv, InPlace
      <4>2. read + 1 # Len(input) BY <4>1, <2>5
      <4> QED BY <2>2, <4>2
    <3>2. Escaped(input[read + 1]) \in Char \cup {NewlineChar}
      BY <2>2, <2>3, <3>1 DEF Escaped, Char, Blank
    <3>3. Put(Escaped(input[read + 1]), read + 2) BY <1>7, <2>5 DEF Escape
    <3> QED BY <1>7, <3>1, <3>2, <3>3, PutBehind DEF Escape
  <2> QED BY <2>4, <2>5
<1>8. CASE Copy
  <2>1. input[read] \in Char /\ input[read] # Nul
    BY <1>8, LineAssumption DEF Copy, Char, Blank, Space, Tab, Nul, Quote, Backslash
  <2>2. read + 1 \in read + 1 .. Len(input) BY <1>8, <2>1, AtRead DEF Copy
  <2> QED BY <1>8, <2>1, <2>2, PutBehind DEF Copy
<1>9. CASE UNCHANGED vars
  BY <1>9 DEF vars, IInv, TypeOK, InPlace, Unread
<1> QED BY <1>1, <1>2, <1>3, <1>4, <1>5, <1>6, <1>7, <1>8, <1>9 DEF Next

\* A line that was just typed, with its terminator behind it.
LEMMA InitIInv == ASSUME Init PROVE IInv
<1>1. line \in Seq(Char) BY LineAssumption DEF Init
<1>2. line \in Seq(Stored) /\ Nul \in Stored BY <1>1 DEF Stored
<1>3. /\ input \in Seq(Stored) /\ Len(input) = Len(line) + 1 /\ Len(line) \in Nat
      /\ \A i \in 1 .. Len(line) : input[i] = line[i]
      /\ input[Len(input)] = Nul
  BY <1>2 DEF Init
<1>4. read = 1 /\ write = 1 /\ argv = <<>> /\ inQuotes = FALSE /\ line \in Line
      /\ pc \in {"blanks", "token", "done"}
  BY DEF Init, Outer
<1>5. TypeOK
  <2>1. argv \in Seq(1 .. Len(input)) BY <1>4
  <2>2. read \in 1 .. Len(input) /\ write \in 1 .. Len(input) + 1 BY <1>3, <1>4
  <2> QED BY <1>3, <1>4, <2>1, <2>2 DEF TypeOK
<1>6. InPlace BY <1>3, <1>4 DEF InPlace, Unread
<1> QED BY <1>5, <1>6 DEF IInv

\* The tokenizer keeps the invariant from the first character to the last.
LEMMA Invariance == Spec => []IInv
BY InitIInv, NextKeepsIInv, PTL DEF Spec

\* Every position of read_pos, write_pos and argv is inside the buffer.
THEOREM TypeCorrect == Spec => []TypeOK
<1>1. IInv => TypeOK BY DEF IInv
<1> QED BY <1>1, Invariance, PTL

\* Tokens are never written over what is still to be read, for lines of any length,
\* any number of tokens and any mixture of quotes and escapes.
THEOREM TokensInPlace == Spec => []InPlace
<1>1. IInv => InPlace BY DEF IInv
<1> QED BY <1>1, Invariance, PTL

-----------------------------------------------------------------------------
(***************************************************************************)
(* The tokens of a line, character by character.                           *)
(***************************************************************************)
\* A character is escaped by a backslash that is not escaped itself.
LEMMA EscapedStep ==
  ASSUME NEW l \in Seq(Char)
  PROVE  \A i \in 1 .. Len(l) :
           EscapedAt(l)[i] <=> i # 1 /\ l[i - 1] = Backslash /\ ~EscapedAt(l)[i - 1]
<1>0. PICK n \in Nat : n = Len(l) /\ DOMAIN l = 1 .. n
  OBVIOUS
<1> DEFINE G == [p \in BOOLEAN \X (1 .. n) |-> l[p[2] - 1] = Backslash /\ ~p[1]]
           Eq(f) == f = [i \in DOMAIN l |-> i > 1 /\ l[i - 1] = Backslash /\ ~f[i - 1]]
<1>1. G \in [BOOLEAN \X (1 .. n) -> BOOLEAN]
  OBVIOUS
<1>2. \A b \in BOOLEAN, i \in 1 .. n : G[<<b, i>>] = (l[i - 1] = Backslash /\ ~b)
  OBVIOUS
<1>3. PICK GG : GG = G
  OBVIOUS
<1> HIDE DEF G
<1>4. \E f \in [1 .. n -> BOOLEAN] : Iterates(f, n, FALSE, GG)
  <2>1. FALSE \in BOOLEAN /\ GG \in [BOOLEAN \X (1 .. n) -> BOOLEAN]
    BY <1>1, <1>3
  <2> QED BY ONLY <2>1, n \in Nat, IterationExists, Zenon
<1>5. PICK f \in [1 .. n -> BOOLEAN] : \A i \in 1 .. n : f[i] = IF i = 1 THEN FALSE ELSE G[<<f[i - 1], i>>]
  BY <1>3, <1>4 DEF Iterates
<1>6. \A i \in 1 .. n : f[i] = (i > 1 /\ l[i - 1] = Backslash /\ ~f[i - 1])
  <2> TAKE i \in 1 .. n
  <2> DEFINE B == i > 1 /\ l[i - 1] = Backslash /\ ~f[i - 1]
  <2>1. CASE i = 1
    <3>1. f[i] = FALSE
      BY <1>5, <2>1
    <3>2. ~B
      BY <2>1
    <3> HIDE DEF B
    <3> QED BY <3>1, <3>2, Zenon DEF B
  <2>2. CASE i # 1
    <3>1. i - 1 \in 1 .. n /\ i > 1
      BY <2>2
    <3>2. f[i - 1] \in BOOLEAN
      BY <3>1
    <3>3. f[i] = G[<<f[i - 1], i>>]
      BY <1>5, <2>2
    <3>4. f[i] = (l[i - 1] = Backslash /\ ~f[i - 1])
      BY <1>2, <3>2, <3>3, Zenon
    <3> QED BY <3>1, <3>4, Zenon
  <2> QED BY <2>1, <2>2, Zenon
<1>7. Eq(f)
  BY <1>0, <1>6
<1>8. Eq(EscapedAt(l))
  BY <1>7 DEF EscapedAt
<1>9. PICK e : e = EscapedAt(l)
  OBVIOUS
<1>10. e = [i \in 1 .. n |-> i > 1 /\ l[i - 1] = Backslash /\ ~e[i - 1]]
  BY <1>0, <1>8, <1>9
<1>11. \A i \in 1 .. n : e[i] <=> (i > 1 /\ l[i - 1] = Backslash /\ ~e[i - 1])
  BY <1>10
<1>12. \A i \in 1 .. n : e[i] <=> i # 1 /\ l[i - 1] = Backslash /\ ~e[i - 1]
  BY <1>11
<1> QED BY <1>0, <1>9, <1>12

\* One more makes an even number odd and an odd number even.
LEMMA Parity == \A c \in Nat : ((c + 1) % 2 = 1) <=> ~(c % 2 = 1)
OBVIOUS

\* A quote with its meaning begins or ends what is quoted.
LEMMA QuotedStep ==
  ASSUME NEW l
  PROVE  /\ ~Quoted(l, 1)
         /\ \A i \in Nat \ {0} : Quoted(l, i + 1) <=> IF Active(l, i, Quote) THEN ~Quoted(l, i) ELSE Quoted(l, i)
<1> DEFINE Q(i) == {j \in 1 .. i - 1 : Active(l, j, Quote)}
<1>1. \A i : Quoted(l, i) <=> Cardinality(Q(i)) % 2 = 1
  BY DEF Quoted
<1>2. Q(1) = {}
  OBVIOUS
<1>3. ~Quoted(l, 1)
  BY <1>1, <1>2, FS_EmptySet
<1>4. ASSUME NEW i \in Nat \ {0}
      PROVE  Quoted(l, i + 1) <=> IF Active(l, i, Quote) THEN ~Quoted(l, i) ELSE Quoted(l, i)
  <2>1. IsFiniteSet(Q(i))
    <3>1. IsFiniteSet(1 .. i - 1)
      BY FS_Interval
    <3> QED BY <3>1, FS_Subset
  <2>2. i \notin Q(i)
    OBVIOUS
  <2>3. Q(i + 1) = IF Active(l, i, Quote) THEN Q(i) \cup {i} ELSE Q(i)
    OBVIOUS
  <2>4. Cardinality(Q(i)) \in Nat
    BY <2>1, FS_CardinalityType
  <2> HIDE DEF Q
  <2>5. Cardinality(Q(i) \cup {i}) = Cardinality(Q(i)) + 1
    BY <2>1, <2>2, FS_AddElement
  <2>6. (Cardinality(Q(i)) + 1) % 2 = 1 <=> ~(Cardinality(Q(i)) % 2 = 1)
    BY <2>4, Parity
  <2> QED BY <1>1, <2>3, <2>5, <2>6
<1> QED BY <1>3, <1>4

\* The members of P from i to j are what is picked from counting.
LEMMA InOrderIsPicked ==
  \A P, i, j : InOrder(P, i, j) = Picked(P, [k \in 1 .. j + 1 - i |-> i + k - 1])
BY Zenon DEF InOrder, Picked

\* Between neighbours there is nothing to find.
LEMMA InOrderEmpty == ASSUME NEW P, NEW i \in Nat PROVE InOrder(P, i + 1, i) = <<>>
<1>1. PICK s : s = [k \in 1 .. i + 1 - (i + 1) |-> (i + 1) + k - 1]
  OBVIOUS
<1>2. s = <<>>
  BY <1>1
<1>3. InOrder(P, i + 1, i) = Picked(P, s)
  BY <1>1, InOrderIsPicked, Zenon
<1> QED BY <1>2, <1>3, PickedEmpty

\* What is found are positions.
LEMMA InOrderType ==
  ASSUME NEW P, NEW n \in Nat, NEW i \in 1 .. n + 1, NEW j \in 0 .. n
  PROVE  InOrder(P, i, j) \in Seq(1 .. n)
<1>1. PICK s : s = [k \in 1 .. j + 1 - i |-> i + k - 1]
  OBVIOUS
<1>2. s \in Seq(1 .. n)
  <2>1. CASE j + 1 - i \in Nat
    <3>1. \A k \in 1 .. j + 1 - i : i + k - 1 \in 1 .. n
      BY <2>1
    <3>2. s \in [1 .. j + 1 - i -> 1 .. n]
      BY <1>1, <3>1
    <3> QED BY <2>1, <3>2
  <2>2. CASE j + 1 - i \notin Nat
    <3>1. 1 .. j + 1 - i = {}
      BY <2>2
    <3>2. s = <<>>
      BY <1>1, <3>1
    <3> QED BY <3>2
  <2> QED BY <2>1, <2>2
<1>3. InOrder(P, i, j) = Picked(P, s)
  BY <1>1, InOrderIsPicked, Zenon
<1> QED BY <1>2, <1>3, PickedType

\* One position further, that position is found or not.
OneFurther(P, i, j) ==
  InOrder(P, i, j + 1) = IF j + 1 \in P THEN Append(InOrder(P, i, j), j + 1) ELSE InOrder(P, i, j)

\* So it is at every position.
LEMMA InOrderGrows ==
  ASSUME NEW P, NEW n \in Nat, NEW i \in 1 .. n, NEW j \in i - 1 .. n - 1
  PROVE  OneFurther(P, i, j)
<1>1. PICK s, t : s = [k \in 1 .. j + 1 - i |-> i + k - 1] /\ t = [k \in 1 .. (j + 1) + 1 - i |-> i + k - 1]
  OBVIOUS
<1>2. PICK m \in Nat : m = j + 1 - i /\ (j + 1) + 1 - i = m + 1 /\ i + (m + 1) - 1 = j + 1
  OBVIOUS
<1>3. s \in Seq(1 .. n) /\ j + 1 \in 1 .. n
  <2>1. \A k \in 1 .. m : i + k - 1 \in 1 .. n
    BY <1>2
  <2>2. s \in [1 .. m -> 1 .. n]
    BY <1>1, <1>2, <2>1
  <2> QED BY <2>2
<1>4. t = Append(s, j + 1)
  <2>1. Len(s) = m /\ \A k \in 1 .. m : s[k] = i + k - 1
    BY <1>1, <1>2
  <2>2. t = [k \in 1 .. m + 1 |-> i + k - 1]
    BY <1>1, <1>2
  <2>3. \A k \in 1 .. m + 1 : k = m + 1 \/ k \in 1 .. m
    BY <1>2
  <2>4. Append(s, j + 1) \in Seq(1 .. n) /\ t \in Seq(1 .. n)
    <3>1. \A k \in 1 .. m + 1 : i + k - 1 \in 1 .. n
      BY <1>2
    <3> QED BY <1>2, <1>3, <2>2, <3>1
  <2>5. Len(t) = m + 1 /\ Len(Append(s, j + 1)) = m + 1
    BY <1>2, <1>3, <2>1, <2>2
  <2>6. \A k \in 1 .. m + 1 : t[k] = Append(s, j + 1)[k]
    BY <1>2, <1>3, <2>1, <2>2, <2>3
  <2> QED BY <2>4, <2>5, <2>6, SeqEqual
<1>5. Picked(P, t) = IF j + 1 \in P THEN Append(Picked(P, s), j + 1) ELSE Picked(P, s)
  <2>1. PICK D, c : D = 1 .. n /\ c = j + 1
    OBVIOUS
  <2>2. s \in Seq(D) /\ c \in D
    BY <1>3, <2>1
  <2>3. Picked(P, Append(s, c)) = IF c \in P THEN Append(Picked(P, s), c) ELSE Picked(P, s)
    BY ONLY <2>2, PickedAppend
  <2> QED BY <1>4, <2>1, <2>3
<1>6. InOrder(P, i, j) = Picked(P, s) /\ InOrder(P, i, j + 1) = Picked(P, t)
  BY <1>1, InOrderIsPicked, Zenon
<1> QED BY <1>5, <1>6 DEF OneFurther

\* Nothing of P lies after j, up to m.
NothingAfter(P, j, m) == \A k \in j + 1 .. m : k \notin P

\* Where there is nothing of P, nothing is found.
LEMMA InOrderStays ==
  ASSUME NEW P, NEW n \in Nat, NEW i \in 1 .. n, NEW j \in i - 1 .. n, NEW m \in j .. n,
         NothingAfter(P, j, m)
  PROVE  InOrder(P, i, m) = InOrder(P, i, j)
<1>0. PICK N \in Nat : N = m - j
  OBVIOUS
<1> DEFINE S == {k \in 0 .. N : InOrder(P, i, j + k) = InOrder(P, i, j)}
<1>1. 0 \in S
  <2>1. j + 0 = j
    OBVIOUS
  <2> QED BY <2>1
<1>2. ASSUME NEW k \in 0 .. N - 1, k \in S PROVE k + 1 \in S
  <2>1. PICK q : q = j + k
    OBVIOUS
  <2>2. q \in i - 1 .. n - 1 /\ q + 1 \in j + 1 .. m /\ j + (k + 1) = q + 1
    BY <1>0, <2>1
  <2>3. InOrder(P, i, q + 1) = InOrder(P, i, q)
    BY <2>2, InOrderGrows DEF OneFurther, NothingAfter
  <2> QED BY <1>2, <2>1, <2>2, <2>3
<1> HIDE DEF S
<1>3. 0 .. N \subseteq S
  BY <1>1, <1>2, UpTo
<1>4. N \in S /\ j + N = m
  BY <1>0, <1>3
<1> QED BY <1>4 DEF S

\* What has been found stays at the front.
LEMMA InOrderFront ==
  ASSUME NEW P, NEW n \in Nat, NEW i \in 1 .. n, NEW j \in i - 1 .. n, NEW m \in j .. n
  PROVE  /\ Len(InOrder(P, i, j)) <= Len(InOrder(P, i, m))
         /\ \A k \in 1 .. Len(InOrder(P, i, j)) : InOrder(P, i, m)[k] = InOrder(P, i, j)[k]
<1>0. PICK N, a : N \in Nat /\ N = m - j /\ a = InOrder(P, i, j)
  OBVIOUS
<1>5. a \in Seq(1 .. n)
  <2>1. i \in 1 .. n + 1 /\ j \in 0 .. n
    OBVIOUS
  <2> QED BY <1>0, <2>1, InOrderType
<1> DEFINE Fronts(b) == b \in Seq(1 .. n) /\ Len(a) <= Len(b) /\ \A k \in 1 .. Len(a) : b[k] = a[k]
           S == {k \in 0 .. N : Fronts(InOrder(P, i, j + k))}
<1>1. 0 \in S
  <2>1. j + 0 = j /\ Fronts(a)
    BY <1>5
  <2> HIDE DEF Fronts
  <2> QED BY <1>0, <2>1
<1>2. ASSUME NEW k \in 0 .. N - 1, k \in S PROVE k + 1 \in S
  <2>1. PICK q, b : q = j + k /\ b = InOrder(P, i, q)
    OBVIOUS
  <2>2. q \in i - 1 .. n - 1 /\ q + 1 \in 1 .. n /\ j + (k + 1) = q + 1
    BY <1>0, <2>1
  <2>3. InOrder(P, i, q + 1) = IF q + 1 \in P THEN Append(b, q + 1) ELSE b
    BY <2>1, <2>2, InOrderGrows DEF OneFurther
  <2>4. Fronts(b)
    BY <1>2, <2>1
  <2>5. Fronts(Append(b, q + 1))
    BY <1>5, <2>2, <2>4
  <2> HIDE DEF Fronts
  <2>6. k + 1 \in 0 .. N
    BY <1>0
  <2>7. Fronts(InOrder(P, i, j + (k + 1)))
    BY <2>2, <2>3, <2>4, <2>5
  <2> QED BY <2>6, <2>7
<1> HIDE DEF S
<1>3. 0 .. N \subseteq S
  BY <1>0, <1>1, <1>2, UpTo
<1>4. N \in S /\ j + N = m
  BY <1>0, <1>3
<1> QED BY <1>0, <1>4 DEF S

\* A text is what is meant by the characters that are kept, one for one.
LEMMA TextIsKept ==
  ASSUME NEW l \in Seq(Char), NEW i \in 1 .. Len(l) + 1, NEW j \in 0 .. Len(l)
  PROVE  /\ Text(l, i, j) \in Seq(Char \cup {NewlineChar})
         /\ Len(Text(l, i, j)) = Len(InOrder(Kept(l), i, j))
         /\ \A k \in 1 .. Len(InOrder(Kept(l), i, j)) : Text(l, i, j)[k] = Meant(l, InOrder(Kept(l), i, j)[k])
<1>1. PICK n \in Nat : n = Len(l) /\ \A k \in 1 .. n : l[k] \in Char
  OBVIOUS
<1>2. PICK kept : kept = InOrder(Kept(l), i, j)
  OBVIOUS
<1>3. kept \in Seq(1 .. n)
  BY <1>1, <1>2, InOrderType
<1>4. Text(l, i, j) = [k \in DOMAIN kept |-> Meant(l, kept[k])]
  BY <1>2 DEF Text
<1>5. \A k \in 1 .. n : Meant(l, k) \in Char \cup {NewlineChar}
  BY <1>1 DEF Meant, Escaped, Char, Blank
<1>6. \A k \in 1 .. Len(kept) : Meant(l, kept[k]) \in Char \cup {NewlineChar}
  BY <1>3, <1>5
<1> QED BY <1>2, <1>3, <1>4, <1>6

\* The text of no characters.
LEMMA TextEmpty == ASSUME NEW l, NEW i \in Nat PROVE Text(l, i + 1, i) = <<>>
BY InOrderEmpty DEF Text

\* One character further, what is meant by it is appended if it is kept.
LEMMA TextGrows ==
  ASSUME NEW l \in Seq(Char), NEW i \in 1 .. Len(l), NEW j \in i - 1 .. Len(l) - 1
  PROVE  Text(l, i, j + 1) = IF j + 1 \in Kept(l) THEN Append(Text(l, i, j), Meant(l, j + 1)) ELSE Text(l, i, j)
<1>1. PICK n \in Nat : n = Len(l)
  OBVIOUS
<1>2. PICK a, b : a = InOrder(Kept(l), i, j) /\ b = InOrder(Kept(l), i, j + 1)
  OBVIOUS
<1>3. i \in 1 .. n + 1 /\ j \in 0 .. n /\ j + 1 \in 0 .. n /\ j + 1 \in 1 .. n
  BY <1>1
<1>4. a \in Seq(1 .. n) /\ b \in Seq(1 .. n)
  BY <1>2, <1>3, InOrderType
<1>5. b = IF j + 1 \in Kept(l) THEN Append(a, j + 1) ELSE a
  <2>1. PICK P : P = Kept(l)
    OBVIOUS
  <2>2. i \in 1 .. n /\ j \in i - 1 .. n - 1 /\ n \in Nat
    BY <1>1
  <2>3. OneFurther(P, i, j)
    BY ONLY <2>2, InOrderGrows, Zenon
  <2> QED BY <1>2, <2>1, <2>3 DEF OneFurther
<1>6. PICK s, t : s = Text(l, i, j) /\ t = Text(l, i, j + 1)
  OBVIOUS
<1>7. /\ s \in Seq(Char \cup {NewlineChar}) /\ Len(s) = Len(a) /\ \A k \in 1 .. Len(a) : s[k] = Meant(l, a[k])
      /\ t \in Seq(Char \cup {NewlineChar}) /\ Len(t) = Len(b) /\ \A k \in 1 .. Len(b) : t[k] = Meant(l, b[k])
  BY <1>1, <1>2, <1>3, <1>6, TextIsKept
<1>8. CASE j + 1 \notin Kept(l)
  <2>1. a = b
    BY <1>5, <1>8
  <2>2. s = t
    BY <1>7, <2>1, SeqEqual
  <2> QED BY <1>6, <1>8, <2>2
<1>9. CASE j + 1 \in Kept(l)
  <2>1. b = Append(a, j + 1)
    BY <1>5, <1>9
  <2>2. PICK m \in Nat : m = Len(a)
    BY <1>4
  <2>3. Len(b) = m + 1 /\ b[m + 1] = j + 1 /\ \A k \in 1 .. m : b[k] = a[k] /\ k \in 1 .. m + 1
    BY <1>3, <1>4, <2>1, <2>2
  <2>4. PICK c \in Char \cup {NewlineChar} : c = Meant(l, j + 1)
    <3>1. m + 1 \in 1 .. Len(b) /\ m + 1 \in 1 .. Len(t)
      BY <1>7, <2>2, <2>3
    <3>2. t[m + 1] = Meant(l, j + 1)
      BY <1>7, <2>3, <3>1
    <3>3. t[m + 1] \in Char \cup {NewlineChar}
      BY <1>7, <3>1
    <3> QED BY <3>2, <3>3
  <2>5. Len(t) = m + 1 /\ t[m + 1] = c /\ \A k \in 1 .. m : t[k] = s[k]
    <3>1. m + 1 \in 1 .. Len(b) /\ \A k \in 1 .. m : k \in 1 .. Len(b) /\ k \in 1 .. Len(a)
      BY <2>2, <2>3
    <3> QED BY <1>7, <2>3, <2>4, <3>1
  <2>6. Append(s, c) \in Seq(Char \cup {NewlineChar}) /\ Len(Append(s, c)) = m + 1
        /\ Append(s, c)[m + 1] = c /\ \A k \in 1 .. m : Append(s, c)[k] = s[k]
    BY <1>7, <2>2
  <2>7. \A k \in 1 .. m + 1 : k = m + 1 \/ k \in 1 .. m
    BY <2>2
  <2>8. \A k \in 1 .. Len(t) : t[k] = Append(s, c)[k]
    BY <2>5, <2>6, <2>7
  <2>9. t = Append(s, c)
    BY <1>7, <2>5, <2>6, <2>8, SeqEqual
  <2> QED BY <1>6, <1>9, <2>4, <2>9
<1> QED BY <1>8, <1>9

-----------------------------------------------------------------------------
(***************************************************************************)
(* What one step of the loop reads.                                        *)
(***************************************************************************)
\* The loop never stops at a character that a backslash escapes.
Clear(l, i) == i <= Len(l) => ~EscapedAt(l)[i]

\* Any character but a backslash is read alone.
LEMMA ReadsOne ==
  ASSUME NEW l \in Seq(Char), NEW r \in 1 .. Len(l), Clear(l, r), l[r] # Backslash
  PROVE  /\ Clear(l, r + 1)
         /\ l[r] = Quote => Quoted(l, r + 1) <=> ~Quoted(l, r)
         /\ l[r] # Quote => Quoted(l, r + 1) <=> Quoted(l, r)
         /\ Separates(l, r) <=> l[r] \in Blank /\ ~Quoted(l, r)
         /\ r \in Kept(l) <=> l[r] # Quote
         /\ Meant(l, r) = l[r]
<1>0. PICK n \in Nat : n = Len(l) /\ DOMAIN l = 1 .. n
  OBVIOUS
<1>1. ~EscapedAt(l)[r]
  BY DEF Clear
<1>2. Clear(l, r + 1)
  <2>1. r + 1 <= n => r + 1 \in 1 .. n /\ r + 1 # 1 /\ (r + 1) - 1 = r
    BY <1>0
  <2> QED BY <1>0, <2>1, EscapedStep DEF Clear
<1>3. Active(l, r, Quote) <=> l[r] = Quote
  BY <1>1, Zenon DEF Active
<1>4. r \in Nat \ {0}
  OBVIOUS
<1>5. Quoted(l, r + 1) <=> IF Active(l, r, Quote) THEN ~Quoted(l, r) ELSE Quoted(l, r)
  BY <1>4, QuotedStep, Zenon
<1>6. r \in Kept(l) <=> l[r] # Quote
  BY <1>0, <1>3, Zenon DEF Kept, Active
<1> QED BY <1>1, <1>2, <1>3, <1>5, <1>6, Zenon DEF Separates, Meant

\* A backslash is read with the character that it escapes.
LEMMA ReadsTwo ==
  ASSUME NEW l \in Seq(Char), NEW r \in 1 .. Len(l) - 1, Clear(l, r), l[r] = Backslash
  PROVE  /\ Clear(l, r + 2)
         /\ Quoted(l, r + 2) <=> Quoted(l, r)
         /\ ~Separates(l, r) /\ ~Separates(l, r + 1)
         /\ r \notin Kept(l) /\ r + 1 \in Kept(l)
         /\ Meant(l, r + 1) = Escaped(l[r + 1])
<1>0. PICK n \in Nat : n = Len(l) /\ DOMAIN l = 1 .. n
  OBVIOUS
<1>1. r \in 1 .. n /\ r # n /\ r + 1 \in 1 .. n /\ r + 1 # 1 /\ (r + 1) - 1 = r /\ r \in Nat \ {0} /\ r + 1 \in Nat \ {0}
      /\ (r + 1) + 1 = r + 2 /\ (r + 2) - 1 = r + 1 /\ r + 2 # 1 /\ (r + 2 <= n => r + 2 \in 1 .. n)
  BY <1>0
<1>2. ~EscapedAt(l)[r]
  BY <1>0, <1>1 DEF Clear
<1>3. EscapedAt(l)[r + 1]
  BY <1>0, <1>1, <1>2, EscapedStep
<1>4. Clear(l, r + 2)
  BY <1>0, <1>1, <1>3, EscapedStep DEF Clear
<1>5. Backslash # Quote /\ Backslash \notin Blank
  BY Zenon DEF Backslash, Quote, Blank, Space, Tab
<1>6. ~Active(l, r, Quote) /\ Active(l, r, Backslash) /\ ~Active(l, r + 1, Quote) /\ ~Active(l, r + 1, Backslash)
  BY <1>2, <1>3, <1>5, Zenon DEF Active
<1>7. Quoted(l, r + 2) <=> Quoted(l, r)
  <2>1. Quoted(l, r + 1) <=> Quoted(l, r)
    BY <1>1, <1>6, QuotedStep, Zenon
  <2>2. Quoted(l, (r + 1) + 1) <=> Quoted(l, r + 1)
    BY <1>1, <1>6, QuotedStep, Zenon
  <2>3. PICK q : q = (r + 1) + 1 /\ q = r + 2
    BY <1>1
  <2> QED BY <2>1, <2>2, <2>3, Zenon
<1>8. ~Separates(l, r) /\ ~Separates(l, r + 1)
  BY <1>3, <1>5, Zenon DEF Separates
<1>9. r \notin Kept(l) /\ r + 1 \in Kept(l)
  BY <1>0, <1>1, <1>6 DEF Kept
<1>10. Meant(l, r + 1) = Escaped(l[r + 1])
  BY <1>3 DEF Meant
<1> QED BY <1>4, <1>7, <1>8, <1>9, <1>10

\* A backslash that ends the line stands for itself.
LEMMA ReadsLast ==
  ASSUME NEW l \in Seq(Char), NEW r \in 1 .. Len(l), r = Len(l), Clear(l, r), l[r] = Backslash
  PROVE  ~Separates(l, r) /\ r \in Kept(l) /\ Meant(l, r) = Backslash
<1>1. DOMAIN l = 1 .. Len(l)
  OBVIOUS
<1>2. ~EscapedAt(l)[r]
  BY DEF Clear
<1>3. Backslash # Quote /\ Backslash \notin Blank
  BY Zenon DEF Backslash, Quote, Blank, Space, Tab
<1> QED BY <1>1, <1>2, <1>3, Zenon DEF Separates, Kept, Active, Meant

-----------------------------------------------------------------------------
(***************************************************************************)
(* What is in the buffer.                                                  *)
(***************************************************************************)
\* What a token may consist of: an escaped n stands for a newline.
TextChar == Char \cup {NewlineChar}

\* t is in buffer b from p on.
Written(b, p, t) == \A k \in 1 .. Len(t) : b[p + k - 1] = t[k]

\* It is a whole token: it ends with a terminator, before w.
Stands(b, p, t, w) ==
  /\ t \in Seq(TextChar) /\ p \in Nat \ {0} /\ p + Len(t) < w
  /\ Written(b, p, t) /\ b[p + Len(t)] = Nul

\* The tokens that start at the positions o of line l are in b, where a says.
Arguments(l, b, a, w, o) == \A i \in 1 .. Len(o) : Stands(b, a[i], Text(l, o[i], EndOf(l, o[i])), w)

\* Before a token, and at the end: all tokens that were read are there.
Between ==
  LET o == InOrder(Starts(line), 1, read - 1)
  IN Len(argv) = Len(o) /\ Arguments(line, input, argv, write, o)

\* In the token that starts at s: what was read of it is there, behind those before it.
Within(s) ==
  /\ s \in Starts(line) /\ s <= read /\ \A k \in s .. read - 1 : ~Separates(line, k)
  /\ LET o == InOrder(Starts(line), 1, s - 1)
     IN Len(argv) = Len(o) + 1 /\ Arguments(line, input, argv, write, o)
  /\ argv[Len(argv)] + Len(Text(line, s, read - 1)) = write
  /\ Written(input, argv[Len(argv)], Text(line, s, read - 1))

\* The inductive invariant, with IInv: the loop cuts the line where its tokens begin and
\* end, inQuotes is what the quotes before read say, and argv and the buffer have the
\* tokens up to read.
Cut ==
  /\ Len(argv) <= MaxArgs
  /\ pc # "done" => Clear(line, read)
  /\ pc = "blanks" =>
       Len(argv) < MaxArgs /\ ~Quoted(line, read) /\ (read > 1 => Separates(line, read - 1))
  /\ pc = "token" => (inQuotes <=> Quoted(line, read)) /\ \E s \in 1 .. Len(line) : Within(s)
  /\ pc # "token" => Between
  /\ pc = "done" => Len(argv) = MaxArgs \/ read = Len(line) + 1

\* No token contains the terminator.
LEMMA NoNul == Nul \notin TextChar
BY LineAssumption, Zenon DEF TextChar, Char, Blank, Nul, Space, Tab, Quote, Backslash, NewlineChar

\* What stands before w is left alone by what is written from w on.
LEMMA StandsStill ==
  ASSUME NEW b, NEW c, NEW p, NEW t, NEW w \in Nat, NEW v \in Nat, w <= v, Stands(b, p, t, w),
         \A k \in 1 .. w - 1 : c[k] = b[k]
  PROVE  Stands(c, p, t, v)
<1>1. t \in Seq(TextChar) /\ p \in Nat \ {0} /\ Len(t) \in Nat /\ p + Len(t) < w
  BY DEF Stands
<1>2. p + Len(t) \in 1 .. w - 1 /\ \A k \in 1 .. Len(t) : p + k - 1 \in 1 .. w - 1
  BY <1>1
<1>3. \A k \in 1 .. Len(t) : c[p + k - 1] = t[k]
  BY <1>1, <1>2 DEF Stands, Written
<1>4. c[p + Len(t)] = Nul
  BY <1>1, <1>2 DEF Stands
<1>5. p + Len(t) < v
  BY <1>1
<1> QED BY <1>1, <1>3, <1>4, <1>5 DEF Stands, Written

\* So are all the tokens, when what is written, and entered in argv, comes later.
LEMMA ArgumentsStand ==
  ASSUME NEW l, NEW b, NEW c, NEW a, NEW d, NEW w \in Nat, NEW v \in Nat, w <= v, NEW o,
         Arguments(l, b, a, w, o), \A k \in 1 .. w - 1 : c[k] = b[k], \A i \in 1 .. Len(o) : d[i] = a[i]
  PROVE  Arguments(l, c, d, v, o)
<1> SUFFICES ASSUME NEW i \in 1 .. Len(o) PROVE Stands(c, d[i], Text(l, o[i], EndOf(l, o[i])), v)
  BY DEF Arguments
<1>1. PICK p, t : p = d[i] /\ t = Text(l, o[i], EndOf(l, o[i]))
  OBVIOUS
<1>2. Stands(b, p, t, w)
  BY <1>1, Zenon DEF Arguments
<1>3. Stands(c, p, t, v)
  BY ONLY <1>2, StandsStill, w \in Nat, v \in Nat, w <= v, \A k \in 1 .. w - 1 : c[k] = b[k], Zenon
<1> QED BY <1>1, <1>3, Zenon

\* One more token.
LEMMA ArgumentsAppend ==
  ASSUME NEW l, NEW b, NEW a, NEW w, NEW n \in Nat, NEW o \in Seq(1 .. n), NEW s \in 1 .. n,
         Arguments(l, b, a, w, o), Stands(b, a[Len(o) + 1], Text(l, s, EndOf(l, s)), w)
  PROVE  Arguments(l, b, a, w, Append(o, s))
<1>1. PICK m \in Nat : m = Len(o)
  OBVIOUS
<1>2. PICK q : q = Append(o, s)
  OBVIOUS
<1>3. Len(q) = m + 1 /\ q[m + 1] = s /\ \A i \in 1 .. m : q[i] = o[i]
  BY <1>1, <1>2
<1>4. \A i \in 1 .. m + 1 : i = m + 1 \/ i \in 1 .. m
  OBVIOUS
<1>5. ASSUME NEW i \in 1 .. m + 1 PROVE Stands(b, a[i], Text(l, q[i], EndOf(l, q[i])), w)
  <2>1. CASE i = m + 1
    BY <1>1, <1>3, <2>1, Zenon
  <2>2. CASE i \in 1 .. m
    BY <1>1, <1>3, <2>2, Zenon DEF Arguments
  <2> QED BY <1>4, <2>1, <2>2
<1> QED BY <1>2, <1>3, <1>5 DEF Arguments

\* A text goes on with the character that is written where it ended.
LEMMA WrittenOn ==
  ASSUME NEW b, NEW c, NEW p \in Nat \ {0}, NEW t \in Seq(TextChar), NEW x \in TextChar, NEW w \in Nat,
         p + Len(t) = w, Written(b, p, t), \A k \in 1 .. w - 1 : c[k] = b[k], c[w] = x
  PROVE  Written(c, p, Append(t, x)) /\ p + Len(Append(t, x)) = w + 1
<1>1. PICK m \in Nat : m = Len(t) /\ p + m = w /\ p + (m + 1) - 1 = w
  OBVIOUS
<1>2. PICK u : u = Append(t, x)
  OBVIOUS
<1>3. Len(u) = m + 1 /\ u[m + 1] = x /\ \A k \in 1 .. m : u[k] = t[k]
  BY <1>1, <1>2
<1>4. ASSUME NEW k \in 1 .. m + 1 PROVE c[p + k - 1] = u[k]
  <2>1. CASE k = m + 1
    BY <1>1, <1>3, <2>1
  <2>2. CASE k # m + 1
    <3>1. k \in 1 .. m /\ p + k - 1 \in 1 .. w - 1
      BY <1>1, <2>2
    <3> QED BY <1>1, <1>3, <3>1 DEF Written
  <2> QED BY <2>1, <2>2
<1> QED BY <1>1, <1>2, <1>3, <1>4 DEF Written

\* What was written of a text is not disturbed by what is written behind it.
LEMMA WrittenStill ==
  ASSUME NEW b, NEW c, NEW p \in Nat \ {0}, NEW t \in Seq(TextChar), NEW w \in Nat,
         p + Len(t) <= w, Written(b, p, t), \A k \in 1 .. w - 1 : c[k] = b[k]
  PROVE  Written(c, p, t)
<1>1. \A k \in 1 .. Len(t) : p + k - 1 \in 1 .. w - 1
  OBVIOUS
<1> QED BY <1>1 DEF Written

\* Where the token ends that starts at s.
LEMMA EndsThere ==
  ASSUME NEW l \in Seq(Char), NEW s \in 1 .. Len(l), NEW e \in s .. Len(l),
         \A k \in s .. e : ~Separates(l, k), e < Len(l) => Separates(l, e + 1)
  PROVE  EndOf(l, s) = e
<1> DEFINE P(j) == (\A k \in s .. j : ~Separates(l, k)) /\ (j < Len(l) => Separates(l, j + 1))
<1>1. P(e)
  OBVIOUS
<1>2. ASSUME NEW j \in s .. Len(l), P(j) PROVE j = e
  <2>1. CASE j < e
    <3>1. j + 1 \in s .. e /\ j < Len(l)
      BY <2>1
    <3> QED BY <1>2, <3>1
  <2>2. CASE e < j
    <3>1. e + 1 \in s .. j /\ e < Len(l)
      BY <2>2
    <3> QED BY <1>2, <3>1
  <2> QED BY <2>1, <2>2
<1>3. EndOf(l, s) = CHOOSE j \in s .. Len(l) : P(j)
  BY Zenon DEF EndOf
<1> HIDE DEF P
<1> QED BY <1>1, <1>2, <1>3

\* The string at a position is the text that stands there.
LEMMA StringStands ==
  ASSUME NEW p, NEW t, NEW w \in 1 .. Len(input) + 1, input \in Seq(Stored), Stands(input, p, t, w)
  PROVE  StringAt(p) = t
<1>1. /\ t \in Seq(TextChar) /\ p \in Nat \ {0} /\ Len(t) \in Nat /\ p + Len(t) < w
      /\ input[p + Len(t)] = Nul /\ \A k \in 1 .. Len(t) : input[p + k - 1] = t[k]
  BY DEF Stands, Written
<1>2. PICK q : q = p + Len(t)
  OBVIOUS
<1> DEFINE P(j) == input[j] = Nul /\ \A k \in p .. j - 1 : input[k] # Nul
<1>3. q \in p .. Len(input)
  BY <1>1, <1>2
<1>4. \A k \in p .. q - 1 : input[k] # Nul
  <2> TAKE k \in p .. q - 1
  <2>1. k - p + 1 \in 1 .. Len(t) /\ p + (k - p + 1) - 1 = k
    BY <1>1, <1>2
  <2>2. input[k] = t[k - p + 1] /\ t[k - p + 1] \in TextChar
    BY <1>1, <2>1
  <2> QED BY <2>2, NoNul
<1>5. P(q)
  BY <1>1, <1>2, <1>4
<1>6. ASSUME NEW j \in p .. Len(input), P(j) PROVE j = q
  <2>1. CASE j < q
    <3>1. j \in p .. q - 1
      BY <1>1, <1>3, <2>1
    <3> QED BY <1>4, <1>6, <3>1
  <2>2. CASE q < j
    <3>1. q \in p .. j - 1
      BY <1>1, <1>3, <2>2
    <3> QED BY <1>5, <1>6, <3>1
  <2> QED BY <1>1, <1>3, <2>1, <2>2
<1>7. StringAt(p) = SubSeq(input, p, (CHOOSE j \in p .. Len(input) : P(j)) - 1)
  BY Zenon DEF StringAt
<1> HIDE DEF P
<1>8. StringAt(p) = SubSeq(input, p, q - 1)
  BY <1>3, <1>5, <1>6, <1>7
<1>9. PICK u : u = SubSeq(input, p, q - 1)
  OBVIOUS
<1>10. u \in Seq(Stored) /\ Len(u) = Len(t) /\ \A k \in 1 .. Len(t) : u[k] = input[p + k - 1]
  BY <1>1, <1>2, <1>3, <1>9
<1>11. t \in Seq(Stored)
  BY <1>1 DEF TextChar, Stored
<1>12. u = t
  <2>1. Len(u) = Len(t) /\ \A k \in 1 .. Len(u) : u[k] = t[k]
    BY <1>1, <1>10
  <2> QED BY <1>10, <1>11, <2>1, SeqEqual
<1> QED BY <1>8, <1>9, <1>12

-----------------------------------------------------------------------------
(***************************************************************************)
(* The steps of the loop.                                                  *)
(***************************************************************************)
\* The line is a line.
LEMMA LineType == IInv => line \in Seq(Char)
BY LineAssumption DEF IInv, TypeOK

\* Its texts can be in a token.
LEMMA TextType ==
  ASSUME IInv, NEW i \in 1 .. Len(line) + 1, NEW j \in 0 .. Len(line)
  PROVE  Text(line, i, j) \in Seq(TextChar) /\ Len(Text(line, i, j)) \in Nat
<1>1. line \in Seq(Char)
  BY LineType
<1>2. Text(line, i, j) \in Seq(Char \cup {NewlineChar})
  BY <1>1, TextIsKept
<1> QED BY <1>2, LenProperties DEF TextChar

\* The token that is being read starts in argv where it says, and the texts are texts.
LEMMA WithinType ==
  ASSUME IInv, pc = "token", NEW s \in 1 .. Len(line), Within(s)
  PROVE  /\ s \in 1 .. read /\ read \in 1 .. Len(line) + 1 /\ write \in 1 .. read
         /\ Len(argv) # 0 /\ argv[Len(argv)] \in Nat \ {0}
         /\ Text(line, s, read - 1) \in Seq(TextChar)
<1>1. line \in Seq(Char) /\ read \in 1 .. Len(line) + 1 /\ write \in 1 .. read /\ Len(line) \in Nat
  BY LineType, AtRead
<1>2. s \in 1 .. read /\ s \in 1 .. Len(line) + 1 /\ read - 1 \in 0 .. Len(line)
  BY <1>1 DEF Within
<1>3. Text(line, s, read - 1) \in Seq(TextChar)
  BY <1>2, TextType
<1>4. argv \in Seq(1 .. Len(input)) /\ Len(input) \in Nat
  BY <1>1, AtRead DEF IInv, TypeOK
<1>5. PICK o : Len(argv) = Len(o) + 1 /\ o \in Seq(1 .. Len(line))
  <2>1. s - 1 \in 0 .. Len(line) /\ 1 \in 1 .. Len(line) + 1
    BY <1>1, <1>2
  <2>2. InOrder(Starts(line), 1, s - 1) \in Seq(1 .. Len(line))
    BY <1>1, <2>1, InOrderType
  <2> QED BY <2>2 DEF Within
<1>6. Len(o) \in Nat
  BY <1>5
<1> QED BY <1>1, <1>2, <1>3, <1>4, <1>5, <1>6

\* The token goes on: some of it was read, none of which separates, and what is meant
\* by it was written.
LEMMA GoesOn ==
  ASSUME IInv, pc = "token", NEW s \in 1 .. Len(line), Within(s),
         UNCHANGED <<line, argv>>, read' \in read .. Len(line) + 1, write' \in Nat, write <= write',
         \A k \in read .. read' - 1 : ~Separates(line, k),
         \A k \in 1 .. write - 1 : input'[k] = input[k],
         argv[Len(argv)] + Len(Text(line, s, read' - 1)) = write',
         Written(input', argv[Len(argv)], Text(line, s, read' - 1))
  PROVE  Within(s)'
<1>1. s \in 1 .. read /\ read \in Nat /\ write \in Nat /\ Len(line) \in Nat
  BY WithinType, AtRead
<1>2. PICK o : o = InOrder(Starts(line), 1, s - 1)
  OBVIOUS
<1>3. Len(argv) = Len(o) + 1 /\ Arguments(line, input, argv, write, o)
  BY <1>2 DEF Within
<1>4. Arguments(line, input', argv, write', o)
  BY <1>1, <1>3, ArgumentsStand
<1>5. \A k \in s .. read' - 1 : ~Separates(line, k)
  <2>1. PICK r : r = read' /\ r \in read .. Len(line) + 1
    OBVIOUS
  <2>2. \A k \in s .. r - 1 : k \in s .. read - 1 \/ k \in read .. r - 1
    <3>1. r \in Nat /\ s \in Nat
      BY <1>1, <2>1
    <3> QED BY ONLY <1>1, <3>1
  <2> QED BY <2>1, <2>2 DEF Within
<1>6. s <= read' /\ s \in Starts(line)
  BY <1>1 DEF Within
<1> QED BY <1>2, <1>3, <1>4, <1>5, <1>6 DEF Within

\* The token is over: what was read of it, up to e, is all of it.
LEMMA IsOver ==
  ASSUME IInv, IInv', Cut, pc = "token", NEW s \in 1 .. Len(line), Within(s),
         NEW buffer, NEW pos \in 1 .. Len(input), NEW e \in s .. Len(line), NEW next, buffer \in Seq(Stored),
         Len(buffer) = Len(input), EndToken(buffer, next, pos),
         next = IF e = Len(line) THEN e + 1 ELSE e + 2,
         \A k \in s .. e : ~Separates(line, k),
         e < Len(line) => Separates(line, e + 1) /\ Clear(line, next) /\ ~Quoted(line, next),
         write <= pos, \A k \in 1 .. write - 1 : buffer[k] = input[k],
         argv[Len(argv)] + Len(Text(line, s, e)) = pos,
         Written(buffer, argv[Len(argv)], Text(line, s, e))
  PROVE  Cut'
<1>0. PICK n \in Nat, p \in Nat \ {0} : n = Len(line) /\ p = argv[Len(argv)]
  BY WithinType, AtRead
<1>1. PICK o : o = InOrder(Starts(line), 1, s - 1)
  OBVIOUS
<1>2. Len(argv) = Len(o) + 1 /\ Arguments(line, input, argv, write, o)
  BY <1>1 DEF Within
<1>3. /\ read' = next /\ input' = [buffer EXCEPT ![pos] = Nul] /\ write' = pos + 1
      /\ pc' = Outer(input', next, argv) /\ line' = line /\ argv' = argv
  BY DEF EndToken
<1>4. PICK t : t = Text(line, s, e)
  OBVIOUS
<1>5. t \in Seq(TextChar) /\ Len(t) \in Nat
  <2>1. s \in 1 .. Len(line) + 1 /\ e \in 0 .. Len(line)
    BY <1>0
  <2> QED BY <1>4, <2>1, TextType
<1>6. /\ input'[pos] = Nul /\ \A k \in 1 .. pos - 1 : input'[k] = buffer[k]
  BY <1>3
<1>7. write \in Nat /\ pos \in Nat /\ pos + 1 \in Nat
  BY WithinType
<1>8. Arguments(line, input', argv, pos + 1, o)
  <2>1. \A k \in 1 .. write - 1 : k \in 1 .. pos - 1
    BY <1>7
  <2>2. \A k \in 1 .. write - 1 : input'[k] = input[k]
    BY <1>6, <2>1
  <2> QED BY <1>2, <1>7, <2>2, ArgumentsStand
<1>9. Stands(input', p, t, pos + 1)
  <2>1. Written(input', p, t)
    <3>1. PICK c : c = input' /\ \A k \in 1 .. pos - 1 : c[k] = buffer[k]
      BY <1>6
    <3>2. p + Len(t) <= pos /\ Written(buffer, p, t)
      BY <1>0, <1>4
    <3>3. Written(c, p, t)
      BY ONLY <1>0, <1>5, <1>7, <3>1, <3>2, WrittenStill
    <3> QED BY <3>1, <3>3
  <2> QED BY <1>0, <1>4, <1>5, <1>6, <1>7, <2>1 DEF Stands
<1>10. EndOf(line, s) = e
  BY LineType, EndsThere
<1>11. o \in Seq(1 .. n) /\ s \in 1 .. n /\ s - 1 \in 0 .. n
  <2>1. s - 1 \in 0 .. n /\ 1 \in 1 .. n + 1 /\ s \in 1 .. n
    BY <1>0
  <2> QED BY <1>0, <1>1, <2>1, InOrderType
<1>12. Arguments(line, input', argv, pos + 1, Append(o, s))
  <2>1. Stands(input', argv[Len(o) + 1], Text(line, s, EndOf(line, s)), pos + 1)
    BY <1>0, <1>2, <1>4, <1>9, <1>10
  <2> QED BY <1>0, <1>8, <1>11, <2>1, ArgumentsAppend
<1>13. InOrder(Starts(line), 1, next - 1) = Append(o, s)
  <2>1. s \in Starts(line)
    BY DEF Within
  <2>2. 1 \in 1 .. n /\ s - 1 \in 1 - 1 .. n - 1 /\ (s - 1) + 1 = s /\ s \in 1 - 1 .. n
    BY <1>0, <1>11
  <2>3. InOrder(Starts(line), 1, s) = Append(o, s)
    <3>1. PICK j, P : j = s - 1 /\ P = Starts(line)
      OBVIOUS
    <3>2. j \in 1 - 1 .. n - 1 /\ j + 1 = s
      BY <2>2, <3>1
    <3>3. OneFurther(P, 1, j)
      BY ONLY <2>2, <3>2, n \in Nat, InOrderGrows, Zenon
    <3> QED BY <1>1, <2>1, <3>1, <3>2, <3>3 DEF OneFurther
  <2>4. next - 1 \in s .. n /\ \A k \in s + 1 .. next - 1 : k - 1 \in s .. e /\ k > 1
    <3>1. n \in Nat /\ s \in 1 .. n /\ e \in s .. n
      BY <1>0, <1>11
    <3>2. next = IF e = n THEN e + 1 ELSE e + 2
      BY <1>0
    <3> QED BY ONLY <3>1, <3>2
  <2>5. \A k \in s + 1 .. next - 1 : k \notin Starts(line)
    BY <2>4 DEF Starts
  <2>6. InOrder(Starts(line), 1, next - 1) = InOrder(Starts(line), 1, s)
    <3>1. PICK m, P : m = next - 1 /\ P = Starts(line)
      OBVIOUS
    <3>2. m \in s .. n /\ NothingAfter(P, s, m)
      BY <2>4, <2>5, <3>1 DEF NothingAfter
    <3>3. InOrder(P, 1, m) = InOrder(P, 1, s)
      BY ONLY <2>2, <3>2, n \in Nat, InOrderStays, Zenon
    <3> QED BY <3>1, <3>3
  <2> QED BY <2>3, <2>6
<1>14. Between'
  <2>1. Len(Append(o, s)) = Len(argv)
    BY <1>2, <1>11
  <2> QED BY <1>3, <1>12, <1>13, <2>1 DEF Between
<1>15. Len(argv) <= MaxArgs
  BY DEF Cut
<1>16. next \in 1 .. n + 1 /\ (next # n + 1 => e < n) /\ (e < n => next > 1 /\ next - 1 = e + 1)
  <2>1. n \in Nat /\ s \in 1 .. n /\ e \in s .. n
    BY <1>0, <1>11
  <2>2. next = IF e = n THEN e + 1 ELSE e + 2
    BY <1>0
  <2> QED BY ONLY <2>1, <2>2
<1>17. next # n + 1 => input'[next] # Nul
  <2> SUFFICES ASSUME next # n + 1 PROVE input'[next] # Nul
    OBVIOUS
  <2>1. next \in read' .. Len(line)'
    BY <1>0, <1>3, <1>16
  <2>2. input'[next] = line[next] /\ line[next] \in Char
    BY <1>0, <1>3, <1>16, <2>1, LineType DEF IInv, InPlace, Unread
  <2> QED BY <2>2, NoNul DEF TextChar
<1>18. next = n + 1 => input'[next] = Nul \/ pc' = "done"
  <2>1. Len(input') = n + 1
    BY <1>0, <1>3 DEF IInv, TypeOK
  <2> QED BY <2>1 DEF IInv, InPlace
<1>19. pc' \in {"blanks", "done"} /\ (pc' = "blanks" => Len(argv) < MaxArgs /\ next # n + 1) /\ (pc' = "done" => Len(argv) = MaxArgs \/ next = n + 1)
  <2>1. Len(argv) \in Nat /\ MaxArgs \in Nat
    BY MaxArgsAssumption DEF IInv, TypeOK
  <2> QED BY <1>3, <1>15, <1>17, <1>18, <2>1 DEF Outer
<1>20. next # n + 1 => Clear(line, next) /\ ~Quoted(line, next) /\ (next > 1 => Separates(line, next - 1))
  BY <1>0, <1>16
<1> QED BY <1>0, <1>3, <1>14, <1>15, <1>19, <1>20, Zenon DEF Cut

\* What is read next, and that it is the line that is read.
LEMMA ReadsLine ==
  ASSUME IInv, pc # "done"
  PROVE  /\ line \in Seq(Char) /\ Len(line) \in Nat /\ read \in 1 .. Len(line) + 1 /\ write \in 1 .. read
         /\ input \in Seq(Stored) /\ Len(input) = Len(line) + 1
         /\ input[read] = Nul <=> read = Len(line) + 1
         /\ input[read] # Nul => read \in 1 .. Len(line) /\ input[read] = line[read]
<1>1. line \in Seq(Char) /\ input \in Seq(Stored)
  BY LineType DEF IInv, TypeOK
<1>2. input[Len(input)] = Nul
  BY DEF IInv, InPlace
<1> QED BY <1>1, <1>2, AtRead

\* A blank between tokens starts nothing.
LEMMA SkipBlankCuts == ASSUME IInv, Cut, SkipBlank PROVE Cut'
<1>1. /\ pc = "blanks" /\ input[read] \in Blank /\ read' = read + 1
      /\ UNCHANGED <<line, input, write, argv, inQuotes, pc>>
  BY DEF SkipBlank
<1>2. input[read] # Nul /\ input[read] # Quote /\ input[read] # Backslash
  BY <1>1, Zenon DEF Blank, Space, Tab, Nul, Quote, Backslash
<1>3. /\ line \in Seq(Char) /\ Len(line) \in Nat /\ read \in 1 .. Len(line) /\ input[read] = line[read]
      /\ (read + 1) - 1 = read /\ (read - 1) + 1 = read
  BY <1>1, <1>2, ReadsLine
<1>4. Clear(line, read) /\ ~Quoted(line, read) /\ Len(argv) <= MaxArgs /\ Len(argv) < MaxArgs /\ Between
  BY <1>1, Zenon DEF Cut
<1>5. Clear(line, read + 1) /\ ~Quoted(line, read + 1) /\ Separates(line, read)
  BY <1>1, <1>2, <1>3, <1>4, ReadsOne
<1>6. InOrder(Starts(line), 1, read) = InOrder(Starts(line), 1, read - 1)
  <2>1. read \notin Starts(line)
    BY <1>5 DEF Starts
  <2>2. 1 \in 1 .. Len(line) /\ read - 1 \in 1 - 1 .. Len(line) - 1
    BY <1>3
  <2>3. OneFurther(Starts(line), 1, read - 1)
    BY <1>3, <2>2, InOrderGrows, Zenon
  <2> QED BY <1>3, <2>1, <2>3 DEF OneFurther
<1>7. Between'
  BY <1>1, <1>3, <1>4, <1>6 DEF Between
<1>8. pc' # "token" /\ pc' # "done"
  BY <1>1
<1> QED BY <1>1, <1>3, <1>4, <1>5, <1>7, <1>8, Zenon DEF Cut

\* At the end of the line, all its tokens were read.
LEMMA EndOfLineCuts == ASSUME IInv, Cut, EndOfLine PROVE Cut'
<1>1. pc = "blanks" /\ input[read] = Nul /\ pc' = "done" /\ UNCHANGED <<line, input, read, write, argv, inQuotes>>
  BY DEF EndOfLine
<1>2. read = Len(line) + 1
  BY <1>1, ReadsLine
<1>3. Between
  BY <1>1 DEF Cut
<1>4. Between'
  BY <1>1, <1>3, Zenon DEF Between
<1>5. Len(argv) <= MaxArgs
  BY DEF Cut
<1> QED BY <1>1, <1>2, <1>4, <1>5 DEF Cut

\* A character that is no blank, after one that separates, starts a token.
LEMMA StartTokenCuts == ASSUME IInv, Cut, StartToken PROVE Cut'
<1>1. /\ pc = "blanks" /\ input[read] \notin Blank \cup {Nul} /\ argv' = Append(argv, write)
      /\ inQuotes' = FALSE /\ pc' = "token" /\ UNCHANGED <<line, input, read, write>>
  BY DEF StartToken
<1>2. /\ line \in Seq(Char) /\ Len(line) \in Nat /\ read \in 1 .. Len(line) /\ input[read] = line[read]
      /\ write \in 1 .. read /\ (read - 1) + 1 = read
  BY <1>1, ReadsLine
<1>3. /\ Clear(line, read) /\ ~Quoted(line, read) /\ Len(argv) < MaxArgs /\ Between
      /\ (read > 1 => Separates(line, read - 1))
  BY <1>1, Zenon DEF Cut
<1>4. read \in Starts(line)
  <2>1. ~Separates(line, read)
    BY <1>1, <1>2 DEF Separates
  <2> QED BY <1>2, <1>3, <2>1 DEF Starts
<1>5. PICK o : o = InOrder(Starts(line), 1, read - 1)
  OBVIOUS
<1>6. Len(argv) = Len(o) /\ Arguments(line, input, argv, write, o)
  BY <1>3, <1>5 DEF Between
<1>7. PICK m \in Nat : m = Len(argv)
  BY DEF IInv, TypeOK
<1>8. Len(argv') = m + 1 /\ argv'[m + 1] = write /\ \A i \in 1 .. m : argv'[i] = argv[i]
  BY <1>1, <1>7 DEF IInv, TypeOK
<1>9. Arguments(line, input, argv', write, o)
  BY <1>2, <1>6, <1>7, <1>8, ArgumentsStand
<1>10. Text(line, read, read - 1) = <<>>
  <2>1. PICK r \in Nat : r = read - 1 /\ r + 1 = read
    BY <1>2
  <2> QED BY <2>1, TextEmpty
<1>11. Within(read)'
  <2>1. write + Len(<<>>) = write /\ Written(input, write, <<>>)
    BY <1>2 DEF Written
  <2>2. \A k \in read .. read - 1 : FALSE
    BY <1>2
  <2>3. read <= read
    BY <1>2
  <2> QED BY <1>1, <1>4, <1>5, <1>6, <1>7, <1>8, <1>9, <1>10, <2>1, <2>2, <2>3 DEF Within
<1>12. Len(argv') <= MaxArgs
  BY <1>3, <1>7, <1>8, MaxArgsAssumption
<1>13. \E s \in 1 .. Len(line)' : Within(s)'
  BY <1>1, <1>2, <1>11
<1> QED BY <1>1, <1>3, <1>12, <1>13, Zenon DEF Cut

\* A step that goes on with the token.
LEMMA GoesOnCuts ==
  ASSUME IInv, Cut, pc = "token", UNCHANGED <<line, argv, pc>>, Clear(line, read'),
         inQuotes' <=> Quoted(line, read'), NEW s \in 1 .. Len(line), Within(s)'
  PROVE  Cut'
<1>1. Len(argv') <= MaxArgs /\ pc' = "token" /\ line' = line
  BY DEF Cut
<1>2. \E i \in 1 .. Len(line)' : Within(i)'
  BY <1>1
<1> QED BY <1>1, <1>2, Zenon DEF Cut

\* What holds in a token.
LEMMA InToken ==
  ASSUME Cut, pc = "token"
  PROVE  Clear(line, read) /\ (inQuotes <=> Quoted(line, read)) /\ \E s \in 1 .. Len(line) : Within(s)
BY Zenon, "token" # "done" DEF Cut

\* A quote is not kept, and changes what separates.
LEMMA ToggleQuotesCuts == ASSUME IInv, Cut, ToggleQuotes PROVE Cut'
<1>1. /\ pc = "token" /\ input[read] = Quote /\ read' = read + 1 /\ inQuotes' = ~inQuotes
      /\ UNCHANGED <<line, input, write, argv, pc>>
  BY DEF ToggleQuotes
<1>2. Quote # Nul /\ Quote # Backslash /\ Quote \notin Blank
  BY Zenon DEF Quote, Nul, Backslash, Blank, Space, Tab
<1>3. /\ line \in Seq(Char) /\ Len(line) \in Nat /\ read \in 1 .. Len(line) /\ line[read] = Quote
      /\ (read - 1) + 1 = read /\ (read + 1) - 1 = read /\ write \in Nat
  BY <1>1, <1>2, ReadsLine
<1>4. PICK s \in 1 .. Len(line) : Within(s)
  BY <1>1, InToken
<1>5. Clear(line, read) /\ (inQuotes <=> Quoted(line, read))
  BY <1>1, InToken
<1>6. /\ Clear(line, read + 1) /\ (Quoted(line, read + 1) <=> ~Quoted(line, read))
      /\ ~Separates(line, read) /\ read \notin Kept(line)
  BY <1>2, <1>3, <1>5, ReadsOne
<1>7. Text(line, s, read) = Text(line, s, read - 1)
  <2>1. read - 1 \in s - 1 .. Len(line) - 1
    BY <1>1, <1>3, <1>4, WithinType
  <2> QED BY <1>3, <1>6, <2>1, TextGrows
<1>8. argv[Len(argv)] + Len(Text(line, s, read - 1)) = write /\ Written(input, argv[Len(argv)], Text(line, s, read - 1))
  BY <1>4 DEF Within
<1>9. Within(s)'
  <2>1. read' \in read .. Len(line) + 1 /\ write' \in Nat /\ write <= write' /\ read' - 1 = read
        /\ \A k \in read .. read' - 1 : k = read
    BY <1>1, <1>3
  <2> QED BY <1>1, <1>4, <1>6, <1>7, <1>8, <2>1, GoesOn
<1>10. inQuotes' <=> Quoted(line, read')
  BY <1>1, <1>5, <1>6, Zenon
<1>11. Clear(line, read')
  BY <1>1, <1>6
<1> QED BY <1>1, <1>4, <1>9, <1>10, <1>11, GoesOnCuts

\* Writing what is meant by the characters up to j, of which only the last is kept.
LEMMA PutGoesOn ==
  ASSUME IInv, pc = "token", NEW s \in 1 .. Len(line), Within(s), NEW j \in read .. Len(line), NEW c \in TextChar,
         Put(c, j + 1), \A k \in read .. j : ~Separates(line, k),
         Text(line, s, j - 1) = Text(line, s, read - 1), j \in Kept(line), Meant(line, j) = c
  PROVE  Within(s)'
<1>1. /\ input' = [input EXCEPT ![write] = c] /\ write' = write + 1 /\ read' = j + 1
      /\ UNCHANGED <<line, argv, inQuotes, pc>>
  BY DEF Put
<1>2. /\ read \in Nat /\ write \in 1 .. Len(input) /\ write \in Nat /\ s \in 1 .. read /\ line \in Seq(Char)
      /\ Len(line) \in Nat /\ Text(line, s, read - 1) \in Seq(TextChar)
  <2>1. s \in 1 .. read /\ Text(line, s, read - 1) \in Seq(TextChar) /\ write \in 1 .. read
    BY WithinType
  <2> QED BY <2>1, ReadsLine
<1>3. PICK p \in Nat \ {0} : p = argv[Len(argv)]
  BY WithinType
<1>4. PICK t \in Seq(TextChar) : t = Text(line, s, read - 1)
  BY <1>2
<1>5. p + Len(t) = write /\ Written(input, p, t)
  BY <1>3, <1>4 DEF Within
<1>6. input'[write] = c /\ \A k \in 1 .. write - 1 : input'[k] = input[k]
  BY <1>1, <1>2 DEF IInv, TypeOK
<1>7. Written(input', p, Append(t, c)) /\ p + Len(Append(t, c)) = write + 1
  <2>1. PICK d : d = input' /\ d[write] = c /\ \A k \in 1 .. write - 1 : d[k] = input[k]
    BY <1>6
  <2>2. p \in Nat \ {0} /\ t \in Seq(TextChar) /\ write \in Nat /\ c \in TextChar
    BY <1>2, <1>3, <1>4
  <2>3. Written(d, p, Append(t, c)) /\ p + Len(Append(t, c)) = write + 1
    BY ONLY <1>5, <2>1, <2>2, WrittenOn
  <2> QED BY <2>1, <2>3
<1>8. Text(line, s, j) = Append(t, c)
  <2>1. j - 1 \in s - 1 .. Len(line) - 1 /\ (j - 1) + 1 = j
    BY <1>2
  <2> QED BY <1>2, <1>4, <2>1, TextGrows
<1>9. read' - 1 = j /\ read' \in read .. Len(line) + 1 /\ write' \in Nat /\ write <= write'
  BY <1>1, <1>2
<1> QED BY <1>1, <1>3, <1>6, <1>7, <1>8, <1>9, GoesOn

\* Any other character is kept as it is.
LEMMA CopyCuts == ASSUME IInv, Cut, Copy PROVE Cut'
<1>1. pc = "token" /\ (input[read] \in Letter \/ (input[read] \in Blank /\ inQuotes)) /\ Put(input[read], read + 1)
  BY DEF Copy
<1>2. input[read] # Nul /\ input[read] # Quote /\ input[read] # Backslash /\ (input[read] \in Blank => inQuotes)
  BY <1>1, LineAssumption, Zenon DEF Blank, Space, Tab, Nul, Quote, Backslash
<1>3. /\ line \in Seq(Char) /\ Len(line) \in Nat /\ read \in 1 .. Len(line) /\ input[read] = line[read]
      /\ (read - 1) + 1 = read /\ (read + 1) - 1 = read
  BY <1>1, <1>2, ReadsLine
<1>4. PICK s \in 1 .. Len(line) : Within(s)
  BY <1>1, InToken
<1>5. Clear(line, read) /\ (inQuotes <=> Quoted(line, read))
  BY <1>1, InToken
<1>6. /\ Clear(line, read + 1) /\ (Quoted(line, read + 1) <=> Quoted(line, read))
      /\ ~Separates(line, read) /\ read \in Kept(line) /\ Meant(line, read) = line[read]
  BY <1>2, <1>3, <1>5, ReadsOne
<1>7. read \in read .. Len(line) /\ line[read] \in TextChar /\ \A k \in read .. read : k = read
  BY <1>3 DEF TextChar
<1>8. Within(s)'
  BY <1>1, <1>3, <1>4, <1>6, <1>7, PutGoesOn
<1>9. read' = read + 1 /\ UNCHANGED <<line, argv, inQuotes, pc>>
  BY <1>1 DEF Put
<1>10. (inQuotes' <=> Quoted(line, read')) /\ Clear(line, read')
  BY <1>5, <1>6, <1>9, Zenon
<1> QED BY <1>1, <1>4, <1>8, <1>9, <1>10, GoesOnCuts

\* A backslash with what it escapes, or at the end of the line.
LEMMA EscapeCuts == ASSUME IInv, IInv', Cut, Escape PROVE Cut'
<1>1. pc = "token" /\ input[read] = Backslash
  BY DEF Escape
<1>2. Backslash # Nul /\ Backslash # Quote /\ Backslash \notin Blank
  BY Zenon DEF Quote, Nul, Backslash, Blank, Space, Tab
<1>3. /\ line \in Seq(Char) /\ Len(line) \in Nat /\ read \in 1 .. Len(line) /\ line[read] = Backslash
      /\ (read - 1) + 1 = read /\ (read + 1) - 1 = read /\ write \in 1 .. read /\ input \in Seq(Stored)
      /\ Len(input) = Len(line) + 1
  BY <1>1, <1>2, ReadsLine
<1>4. PICK s \in 1 .. Len(line) : Within(s)
  BY <1>1, InToken
<1>5. Clear(line, read) /\ (inQuotes <=> Quoted(line, read))
  BY <1>1, InToken
<1>6. s \in 1 .. read /\ Text(line, s, read - 1) \in Seq(TextChar)
  BY <1>1, <1>4, WithinType
<1>7. PICK p \in Nat \ {0} : p = argv[Len(argv)]
  BY <1>1, <1>4, WithinType
<1>8. read - 1 \in s - 1 .. Len(line) - 1
  BY <1>3, <1>6
<1>9. CASE input[read + 1] # Nul
  <2>1. read + 1 \in 1 .. Len(line) /\ read \in 1 .. Len(line) - 1 /\ input[read + 1] = line[read + 1]
    <3>1. input[Len(input)] = Nul
      BY <1>1 DEF IInv, InPlace
    <3>2. read + 1 \in 1 .. Len(line) /\ read + 1 \in read .. Len(line)
      BY <1>3, <1>9, <3>1
    <3>3. input[read + 1] = line[read + 1]
      BY <3>2 DEF IInv, InPlace, Unread
    <3> QED BY <1>3, <3>2, <3>3
  <2>2. /\ Clear(line, read + 2) /\ (Quoted(line, read + 2) <=> Quoted(line, read))
        /\ ~Separates(line, read) /\ ~Separates(line, read + 1)
        /\ read \notin Kept(line) /\ read + 1 \in Kept(line) /\ Meant(line, read + 1) = Escaped(line[read + 1])
    BY <1>3, <1>5, <2>1, ReadsTwo
  <2>3. Put(Escaped(line[read + 1]), read + 2)
    BY <1>9, <2>1 DEF Escape
  <2>4. Escaped(line[read + 1]) \in TextChar
    <3>1. line[read + 1] \in Char
      BY <1>3, <2>1
    <3> QED BY <3>1, Zenon DEF TextChar, Escaped, Char, Blank
  <2>5. Text(line, s, read) = Text(line, s, read - 1)
    BY <1>3, <1>8, <2>2, TextGrows
  <2>6. PICK j \in read .. Len(line) : j = read + 1 /\ j - 1 = read /\ j + 1 = read + 2
    BY <2>1
  <2>7. \A k \in read .. j : k = read \/ k = read + 1
    BY <2>6
  <2>8. \A k \in read .. j : ~Separates(line, k)
    BY <2>2, <2>7
  <2>9. Put(Escaped(line[read + 1]), j + 1) /\ j \in Kept(line) /\ Meant(line, j) = Escaped(line[read + 1])
        /\ Text(line, s, j - 1) = Text(line, s, read - 1)
    BY <2>2, <2>3, <2>5, <2>6
  <2>10. Within(s)'
    BY <1>1, <1>4, <2>4, <2>8, <2>9, PutGoesOn
  <2>11. read' = read + 2 /\ UNCHANGED <<line, argv, inQuotes, pc>>
    BY <2>3 DEF Put
  <2>12. (inQuotes' <=> Quoted(line, read')) /\ Clear(line, read')
    BY <1>5, <2>2, <2>11, Zenon
  <2> QED BY <1>1, <1>4, <2>10, <2>11, <2>12, GoesOnCuts
<1>10. CASE input[read + 1] = Nul
  <2> DEFINE buffer == [input EXCEPT ![write] = Backslash]
  <2>1. EndToken(buffer, read + 1, write + 1)
    BY <1>1, <1>10 DEF Escape
  <2>2. read = Len(line)
    <3>1. ASSUME read + 1 \in 1 .. Len(line) PROVE FALSE
      <4>1. input[read + 1] = line[read + 1] /\ line[read + 1] \in Char
        BY <1>3, <3>1 DEF IInv, InPlace, Unread
      <4> QED BY <1>10, <4>1, NoNul DEF TextChar
    <3> QED BY <1>3, <3>1
  <2>3. ~Separates(line, read) /\ read \in Kept(line) /\ Meant(line, read) = Backslash
    BY <1>3, <1>5, <2>2, ReadsLast
  <2>4. PICK t \in Seq(TextChar) : t = Text(line, s, read - 1)
    BY <1>6
  <2>5. p + Len(t) = write /\ Written(input, p, t)
    BY <1>4, <1>7, <2>4 DEF Within
  <2>6. /\ buffer \in Seq(Stored) /\ Len(buffer) = Len(input)
        /\ buffer[write] = Backslash /\ \A k \in 1 .. write - 1 : buffer[k] = input[k]
    <3>1. Backslash \in Stored
      BY Zenon DEF Stored, Char
    <3> QED BY <1>3, <3>1
  <2>7. Backslash \in TextChar
    BY Zenon DEF TextChar, Char
  <2> HIDE DEF buffer
  <2>8. Written(buffer, p, Append(t, Backslash)) /\ p + Len(Append(t, Backslash)) = write + 1
    <3>1. PICK d, c : d = buffer /\ c = Backslash
      OBVIOUS
    <3>2. p \in Nat \ {0} /\ t \in Seq(TextChar) /\ write \in Nat /\ c \in TextChar
      BY <1>3, <1>7, <2>4, <2>7, <3>1
    <3>3. d[write] = c /\ \A k \in 1 .. write - 1 : d[k] = input[k]
      BY <2>6, <3>1
    <3>4. Written(d, p, Append(t, c)) /\ p + Len(Append(t, c)) = write + 1
      BY ONLY <2>5, <3>2, <3>3, WrittenOn
    <3> QED BY <3>1, <3>4
  <2>9. Text(line, s, read) = Append(t, Backslash)
    <3>1. PICK j : j = read - 1 /\ j \in s - 1 .. Len(line) - 1 /\ j + 1 = read
      BY <1>3, <1>8
    <3>2. Text(line, s, j + 1) = IF j + 1 \in Kept(line) THEN Append(Text(line, s, j), Meant(line, j + 1))
                                 ELSE Text(line, s, j)
      BY <1>3, <3>1, TextGrows
    <3> QED BY <2>3, <2>4, <3>1, <3>2
  <2>10. \A k \in s .. read : ~Separates(line, k)
    <3>1. \A k \in s .. read : k = read \/ k \in s .. read - 1
      BY <1>3
    <3> QED BY <1>4, <2>3, <3>1 DEF Within
  <2>11. read \in s .. Len(line) /\ write + 1 \in 1 .. Len(input) /\ write <= write + 1 /\ ~(read < Len(line))
    BY <1>3, <1>6, <2>2
  <2> QED BY <1>1, <1>4, <1>7, <2>1, <2>2, <2>6, <2>8, <2>9, <2>10, <2>11, IsOver
<1> QED BY <1>9, <1>10

\* The token ends at a blank or at the end of the line.
LEMMA EndsBefore ==
  ASSUME IInv, IInv', Cut, pc = "token", NEW s \in 1 .. Len(line), Within(s), s \in 1 .. read - 1,
         NEW next, EndToken(input, next, write),
         read = Len(line) + 1 => next = read,
         read # Len(line) + 1 => next = read + 1 /\ Separates(line, read) /\ Clear(line, next) /\ ~Quoted(line, next)
  PROVE  Cut'
<1>1. /\ line \in Seq(Char) /\ Len(line) \in Nat /\ read \in 1 .. Len(line) + 1 /\ write \in 1 .. read
      /\ input \in Seq(Stored) /\ Len(input) = Len(line) + 1
  BY ReadsLine
<1>2. PICK e \in s .. Len(line) : e = read - 1 /\ e + 1 = read
  BY <1>1
<1>3. next = IF e = Len(line) THEN e + 1 ELSE e + 2
  BY <1>1, <1>2
<1>4. e < Len(line) => Separates(line, e + 1) /\ Clear(line, next) /\ ~Quoted(line, next)
  BY <1>1, <1>2
<1>5. /\ \A k \in s .. e : ~Separates(line, k)
      /\ argv[Len(argv)] + Len(Text(line, s, e)) = write /\ Written(input, argv[Len(argv)], Text(line, s, e))
  BY <1>2 DEF Within
<1>6. write \in 1 .. Len(input) /\ write <= write /\ \A k \in 1 .. write - 1 : input[k] = input[k]
  BY <1>1
<1> QED BY <1>1, <1>3, <1>4, <1>5, <1>6, IsOver

\* At the end of the line, its last token ends.
LEMMA EndAtTerminatorCuts == ASSUME IInv, IInv', Cut, EndAtTerminator PROVE Cut'
<1>1. pc = "token" /\ input[read] = Nul /\ EndToken(input, read, write)
  BY DEF EndAtTerminator
<1>2. read = Len(line) + 1 /\ Len(line) \in Nat
  BY <1>1, ReadsLine
<1>3. PICK s \in 1 .. Len(line) : Within(s)
  BY <1>1, InToken
<1>4. s \in 1 .. read - 1
  BY <1>2
<1> QED BY <1>1, <1>2, <1>3, <1>4, EndsBefore

\* A blank outside quotes ends the token.
LEMMA EndAtBlankCuts == ASSUME IInv, IInv', Cut, EndAtBlank PROVE Cut'
<1>1. pc = "token" /\ input[read] \in Blank /\ ~inQuotes /\ EndToken(input, read + 1, write)
  BY DEF EndAtBlank
<1>2. input[read] # Nul /\ input[read] # Quote /\ input[read] # Backslash
  BY <1>1, Zenon DEF Blank, Space, Tab, Nul, Quote, Backslash
<1>3. /\ line \in Seq(Char) /\ Len(line) \in Nat /\ read \in 1 .. Len(line) /\ input[read] = line[read]
  BY <1>1, <1>2, ReadsLine
<1>4. PICK s \in 1 .. Len(line) : Within(s)
  BY <1>1, InToken
<1>5. Clear(line, read) /\ ~Quoted(line, read)
  BY <1>1, InToken
<1>6. Clear(line, read + 1) /\ ~Quoted(line, read + 1) /\ Separates(line, read)
  BY <1>1, <1>2, <1>3, <1>5, ReadsOne
<1>7. s \in 1 .. read - 1
  <2>1. s \in 1 .. read
    BY <1>1, <1>4, WithinType
  <2>2. s # read
    BY <1>4, <1>6 DEF Within, Starts
  <2> QED BY <1>3, <2>1, <2>2
<1>8. read # Len(line) + 1
  BY <1>3
<1> QED BY <1>1, <1>4, <1>6, <1>7, <1>8, EndsBefore

\* Each step keeps the invariant, and the initial states have it.
LEMMA NextCuts == ASSUME IInv, Cut, [Next]_vars PROVE Cut'
<1>1. IInv'
  BY NextKeepsIInv
<1>2. CASE UNCHANGED vars
  <2>1. UNCHANGED <<line, input, read, write, argv, inQuotes, pc>>
    BY <1>2 DEF vars
  <2> QED BY <2>1, Zenon DEF Cut, Between, Within
<1> QED BY <1>1, <1>2, SkipBlankCuts, EndOfLineCuts, StartTokenCuts, EndAtTerminatorCuts, EndAtBlankCuts,
           ToggleQuotesCuts, EscapeCuts, CopyCuts DEF Next

\* Nothing is read yet.
LEMMA InitCut == ASSUME Init PROVE Cut
<1>1. /\ line \in Seq(Char) /\ input = Append(line, Nul) /\ read = 1 /\ write = 1 /\ argv = <<>>
      /\ pc = Outer(input, read, argv) /\ MaxArgs \in Nat
  BY LineAssumption, MaxArgsAssumption DEF Init
<1>2. Len(argv) = 0 /\ read - 1 = 0 /\ ~(read > 1) /\ Len(line) \in Nat
  BY <1>1
<1>3. Between
  <2>1. InOrder(Starts(line), 0 + 1, 0) = <<>>
    BY InOrderEmpty
  <2>2. InOrder(Starts(line), 1, read - 1) = <<>>
    BY <1>2, <2>1
  <2> QED BY <1>1, <2>2 DEF Between, Arguments
<1>4. Clear(line, read) /\ ~Quoted(line, read)
  <2>1. 1 <= Len(line) => ~EscapedAt(line)[1]
    BY <1>1, EscapedStep
  <2> QED BY <1>1, <2>1, QuotedStep DEF Clear
<1>5. pc \in {"blanks", "done"} /\ (pc = "blanks" => Len(argv) < MaxArgs)
  BY <1>1 DEF Outer
<1>6. pc = "done" => Len(argv) = MaxArgs \/ read = Len(line) + 1
  <2> SUFFICES ASSUME pc = "done", Len(argv) # MaxArgs PROVE read = Len(line) + 1
    OBVIOUS
  <2>1. Append(line, Nul)[1] = Nul
    BY <1>1, <1>2 DEF Outer
  <2>2. CASE Len(line) = 0
    BY <1>1, <2>2
  <2>3. CASE Len(line) # 0
    <3>1. Append(line, Nul)[1] = line[1] /\ line[1] \in Char
      BY <1>1, <2>3
    <3> QED BY <2>1, <3>1, NoNul DEF TextChar
  <2> QED BY <2>2, <2>3
<1>7. Len(argv) <= MaxArgs
  BY <1>1, <1>2
<1> QED BY <1>2, <1>3, <1>4, <1>5, <1>6, <1>7, Zenon DEF Cut

\* At the end, argv has the tokens.
LEMMA CutIsTokens == ASSUME IInv, Cut PROVE ArgumentsAreTokens
<1> SUFFICES ASSUME pc = "done" PROVE ArgumentsAreTokens
  BY DEF ArgumentsAreTokens
<1>1. PICK n \in Nat : n = Len(line) /\ line \in Seq(Char)
  BY LineType
<1>2. PICK starts, o : starts = InOrder(Starts(line), 1, n) /\ o = InOrder(Starts(line), 1, read - 1)
  OBVIOUS
<1>3. /\ input \in Seq(Stored) /\ Len(input) = n + 1 /\ read \in 1 .. n + 1 /\ write \in 1 .. Len(input) + 1
      /\ argv \in Seq(1 .. n + 1)
  BY <1>1 DEF IInv, TypeOK
<1>4. /\ Len(argv) <= MaxArgs /\ Len(argv) = Len(o) /\ Arguments(line, input, argv, write, o)
      /\ (Len(argv) = MaxArgs \/ read = n + 1)
  BY <1>1, <1>2 DEF Cut, Between
<1>5. starts \in Seq(1 .. n) /\ o \in Seq(1 .. n)
  <2>1. 1 \in 1 .. n + 1 /\ n \in 0 .. n /\ read - 1 \in 0 .. n
    BY <1>1, <1>3
  <2> QED BY <1>2, <2>1, InOrderType
<1>6. Len(o) <= Len(starts) /\ \A k \in 1 .. Len(o) : starts[k] = o[k]
  <2>1. CASE n = 0
    <3>1. read - 1 = n
      BY <1>3, <2>1
    <3> QED BY <1>2, <1>5, <3>1
  <2>2. CASE n # 0
    <3>1. 1 \in 1 .. n /\ read - 1 \in 1 - 1 .. n /\ n \in read - 1 .. n
      BY <1>1, <1>3, <2>2
    <3> QED BY <1>2, <3>1, InOrderFront
  <2> QED BY <2>1, <2>2
<1>7. PICK tokens : tokens = Tokens(line)
  OBVIOUS
<1>8. tokens = [k \in DOMAIN starts |-> Text(line, starts[k], EndOf(line, starts[k]))]
  BY <1>1, <1>2, <1>7 DEF Tokens
<1>9. PICK m \in Nat : m = Len(argv) /\ m = Len(o)
  BY <1>3, <1>4
<1>10. Len(tokens) = Len(starts) /\ m <= Len(tokens) /\ Len(tokens) \in Nat
  BY <1>5, <1>6, <1>8, <1>9
<1>11. m = IF Len(tokens) < MaxArgs THEN Len(tokens) ELSE MaxArgs
  <2>1. CASE read = n + 1
    <3>1. read - 1 = n
      BY <1>1, <2>1
    <3>2. starts = o
      BY <1>2, <3>1
    <3> QED BY <1>4, <1>9, <1>10, <3>2, MaxArgsAssumption
  <2>2. CASE Len(argv) = MaxArgs
    <3>1. m = MaxArgs
      BY <1>9, <2>2
    <3> QED BY ONLY <1>10, <3>1
  <2> QED BY <1>4, <2>1, <2>2
<1>12. ASSUME NEW i \in 1 .. m PROVE StringAt(argv[i]) = tokens[i] /\ tokens[i] \in Seq(TextChar)
  <2>1. PICK p, t : p = argv[i] /\ t = Text(line, o[i], EndOf(line, o[i]))
    OBVIOUS
  <2>2. Stands(input, p, t, write)
    BY <1>4, <1>9, <2>1, Zenon DEF Arguments
  <2>3. StringAt(p) = t /\ t \in Seq(TextChar)
    BY <1>3, <2>2, StringStands DEF Stands
  <2>4. tokens[i] = t
    <3>1. i \in DOMAIN starts /\ starts[i] = o[i]
      BY <1>5, <1>6, <1>9
    <3> QED BY <1>8, <2>1, <3>1
  <2> QED BY <2>1, <2>3, <2>4
<1>13. [i \in DOMAIN argv |-> StringAt(argv[i])] = SubSeq(tokens, 1, m)
  <2>1. PICK u, v : u = [i \in DOMAIN argv |-> StringAt(argv[i])] /\ v = SubSeq(tokens, 1, m)
    OBVIOUS
  <2>2. PICK D : D = {tokens[k] : k \in 1 .. Len(tokens)}
    OBVIOUS
  <2>3. tokens \in Seq(D)
    <3>1. tokens = [k \in 1 .. Len(tokens) |-> tokens[k]]
      BY <1>5, <1>8, <1>10
    <3>2. tokens \in [1 .. Len(tokens) -> D]
      BY <2>2, <3>1
    <3> QED BY <1>10, <3>2
  <2>4. v \in Seq(D) /\ Len(v) = m /\ \A i \in 1 .. m : v[i] = tokens[i]
    <3>1. m \in 0 .. Len(tokens)
      BY <1>10
    <3> QED BY <2>1, <2>3, <3>1, FrontOf DEF IsFrontOf
  <2>5. u = [i \in 1 .. m |-> StringAt(argv[i])]
    <3>1. argv \in Seq(1 .. n + 1)
      BY <1>3
    <3>2. DOMAIN argv = 1 .. Len(argv)
      BY <3>1
    <3> QED BY <1>9, <2>1, <3>2, Zenon
  <2>6. u \in Seq(D) /\ Len(u) = m /\ \A i \in 1 .. m : u[i] = tokens[i]
    <3>1. \A i \in 1 .. m : tokens[i] \in D
      BY <1>10, <2>2
    <3>2. u \in [1 .. m -> D]
      BY <1>12, <2>5, <3>1
    <3> QED BY <1>12, <2>5, <3>2
  <2>7. u = v
    <3>1. Len(u) = Len(v) /\ \A i \in 1 .. Len(u) : u[i] = v[i]
      BY <2>4, <2>6
    <3> QED BY <2>4, <2>6, <3>1, SeqEqual
  <2> QED BY <2>1, <2>7
<1> QED BY <1>7, <1>11, <1>13 DEF ArgumentsAreTokens

\* What the commands find in argv are the tokens of the line, in their order and up to
\* the number asked for, for lines of any length: quotes group, escapes are honored, and
\* overwriting the line while it is read does no harm.
THEOREM ArgumentsArrive == Spec => []ArgumentsAreTokens
<1>1. Init => IInv /\ Cut
  BY InitIInv, InitCut
<1>2. IInv /\ Cut /\ [Next]_vars => IInv' /\ Cut'
  BY NextKeepsIInv, NextCuts
<1>3. IInv /\ Cut => ArgumentsAreTokens
  BY CutIsTokens
<1> QED BY <1>1, <1>2, <1>3, PTL DEF Spec
=============================================================================
