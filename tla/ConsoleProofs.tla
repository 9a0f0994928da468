--------------------------- MODULE ConsoleProofs ---------------------------
(***************************************************************************)
(* Proofs about the keyboard driver and the line editor on top of it, for  *)
(* every keyboard, every pair of tables and every size of the line and of  *)
(* the controller's queue.                                                 *)
(***************************************************************************)
EXTENDS Console, Induction

\* The keyboard driver and the controller keep to the types of their state.
THEOREM TypeCorrect == Spec => []TypeOK
<1>0. \A k \in Key : make[k] \in Make
  BY KeyAssumption, Zenon
<1>1. Init => TypeOK
  <2> SUFFICES ASSUME Init PROVE TypeOK
    OBVIOUS
  <2>1. queue \in Seq(Scancode)
    BY DEF Init
  <2> QED BY <2>1, Zenon DEF Init, TypeOK
<1>2. TypeOK /\ [Next]_kvars => TypeOK'
  <2> SUFFICES ASSUME TypeOK, [Next]_kvars PROVE TypeOK'
    OBVIOUS
  <2>0. \A code \in Scancode : Append(queue, code) \in Seq(Scancode)
    BY DEF TypeOK
  <2>1. ASSUME NEW k \in Key, Press(k) PROVE TypeOK'
    <3>1. make[k] \in Scancode
      BY <1>0 DEF Make, Scancode, ReleaseBit
    <3>2. queue' \in Seq(Scancode) /\ lost' \in BOOLEAN
      BY <2>0, <2>1, <3>1, Zenon DEF Press, Send, TypeOK
    <3>3. held' \subseteq Key /\ overlapped' \in BOOLEAN /\ shift_pressed' \in BOOLEAN
      BY <2>1, Zenon DEF Press, TypeOK
    <3> QED BY <3>2, <3>3, Zenon DEF TypeOK
  <2>2. ASSUME NEW k \in Key, Release(k) PROVE TypeOK'
    <3>1. make[k] + ReleaseBit \in Scancode
      BY <1>0 DEF Make, Scancode, ReleaseBit
    <3>2. queue' \in Seq(Scancode) /\ lost' \in BOOLEAN
      BY <2>0, <2>2, <3>1, Zenon DEF Release, Send, TypeOK
    <3>3. held' \subseteq Key /\ overlapped' \in BOOLEAN /\ shift_pressed' \in BOOLEAN
      BY <2>2, Zenon DEF Release, TypeOK
    <3> QED BY <3>2, <3>3, Zenon DEF TypeOK
  <2>3. CASE Poll
    <3>1. queue' \in Seq(Scancode)
      BY <2>3 DEF Poll, TypeOK
    <3> QED BY <2>3, <3>1, Zenon DEF Poll, ShiftAfter, TypeOK
  <2>4. CASE UNCHANGED kvars
    BY <2>4, Zenon DEF kvars, device, TypeOK
  <2> QED BY <2>1, <2>2, <2>3, <2>4 DEF Next
<1> QED BY <1>1, <1>2, PTL DEF Spec

-----------------------------------------------------------------------------
(***************************************************************************)
(* What a scancode added to the queue, or taken from it, means for those   *)
(* that are in it.                                                         *)
(***************************************************************************)
\* A scancode at the end of the queue changes nothing for those before it.
LEMMA AppendKeepsShift ==
  ASSUME TypeOK, NEW code \in Scancode, queue' = Append(queue, code), UNCHANGED shift_pressed
  PROVE  \A i \in 0 .. Len(queue) : ShiftAt(i)' <=> ShiftAt(i)
<1> TAKE i \in 0 .. Len(queue)
<1>1. \A j \in 1 .. i : queue'[j] = queue[j]
  BY DEF TypeOK
<1> QED BY <1>1 DEF ShiftAt

\* Shift after a scancode at the end of the queue.
LEMMA AppendShift ==
  ASSUME TypeOK, NEW code \in Scancode, queue' = Append(queue, code), UNCHANGED shift_pressed
  PROVE  ShiftAt(Len(queue))' <=>
           (code \in ShiftMake \/ (code \notin ShiftCode /\ ShiftAt(Len(queue))))
<1> DEFINE n == Len(queue)
<1>1. n \in Nat /\ Len(queue') = n + 1 /\ queue'[n + 1] = code
  BY DEF TypeOK
<1>2. \A j \in 1 .. n : queue'[j] = queue[j]
  BY DEF TypeOK
<1>3. ShiftMake \subseteq ShiftCode
  BY DEF ShiftCode
<1>4. CASE code \in ShiftMake
  BY <1>1, <1>2, <1>3, <1>4 DEF ShiftAt
<1>5. CASE code \in ShiftCode /\ code \notin ShiftMake
  BY <1>1, <1>2, <1>3, <1>5 DEF ShiftAt
<1>6. CASE code \notin ShiftCode
  BY <1>1, <1>2, <1>3, <1>6 DEF ShiftAt
<1> QED BY <1>4, <1>5, <1>6, <1>3

\* What is pending after a scancode at the end of the queue.
LEMMA AppendPending ==
  ASSUME TypeOK, NEW code \in Scancode, queue' = Append(queue, code), UNCHANGED shift_pressed
  PROVE  Pending' = Append(Pending, Typed(code, ShiftAt(Len(queue))'))
<1>1. Len(queue) \in Nat /\ Len(queue') = Len(queue) + 1 /\ queue'[Len(queue) + 1] = code
  BY DEF TypeOK
<1>2. \A i \in 1 .. Len(queue) : queue'[i] = queue[i] /\ (ShiftAt(i)' <=> ShiftAt(i))
  BY AppendKeepsShift DEF TypeOK
<1>3. \A i : ShiftAt(i) \in BOOLEAN /\ ShiftAt(i)' \in BOOLEAN
  BY DEF ShiftAt
<1> DEFINE Old(i) == Typed(queue[i], ShiftAt(i))
           New(i) == Typed(queue'[i], ShiftAt(i)')
<1>4. Pending' = [i \in 1 .. Len(queue) + 1 |-> New(i)]
  BY <1>1 DEF Pending, TypeOK
<1>5. Pending = [i \in 1 .. Len(queue) |-> Old(i)]
  BY DEF Pending, TypeOK
<1>6. \A i \in 1 .. Len(queue) : New(i) = Old(i)
  <2> TAKE i \in 1 .. Len(queue)
  <2>1. ShiftAt(i)' = ShiftAt(i)
    BY <1>2, <1>3, Zenon
  <2> QED BY <1>2, <2>1, Zenon
<1>7. \A n : n = Len(queue') => New(n) = Typed(code, ShiftAt(Len(queue))')
  <2> TAKE n
  <2> HAVE n = Len(queue')
  <2>1. ShiftAt(n)' = ShiftAt(Len(queue))'
    BY Zenon DEF ShiftAt
  <2>2. queue'[n] = code
    BY <1>1
  <2> QED BY <2>1, <2>2, Zenon
<1> HIDE DEF Old, New
<1> QED BY <1>1, <1>4, <1>5, <1>6, <1>7

\* handle_modifier_keys, in terms of the scancodes that concern shift.
LEMMA ShiftAfterCode ==
  ASSUME NEW code \in Scancode, NEW before \in BOOLEAN
  PROVE  ShiftAfter(code, before) <=> (code \in ShiftMake \/ (code \notin ShiftCode /\ before))
<1>1. code \in ShiftCode <=> code \in ShiftMake \/ (IsRelease(code) /\ code - ReleaseBit \in ShiftMake)
  BY DEF Scancode, ShiftCode, ShiftMake, LeftShift, RightShift, IsRelease, ReleaseBit
<1>2. code \in ShiftMake => ~IsRelease(code)
  BY DEF Scancode, ShiftMake, LeftShift, RightShift, IsRelease, ReleaseBit
<1> QED BY <1>1, <1>2, Zenon DEF ShiftAfter

\* Reading a scancode changes nothing for those behind it.
LEMMA PollKeepsShift ==
  ASSUME TypeOK, Poll
  PROVE  \A i \in 0 .. Len(queue) - 1 : ShiftAt(i)' <=> ShiftAt(i + 1)
<1>1. Len(queue) \in Nat \ {0} /\ queue[1] \in Scancode
  BY DEF TypeOK, Poll
<1>2. \A j \in 1 .. Len(queue) - 1 : queue'[j] = queue[j + 1]
  BY DEF TypeOK, Poll
<1>3. shift_pressed' <=> (queue[1] \in ShiftMake \/ (queue[1] \notin ShiftCode /\ shift_pressed))
  <2>1. Head(queue) = queue[1]
    BY DEF TypeOK, Poll
  <2>2. shift_pressed \in BOOLEAN
    BY Zenon DEF TypeOK
  <2>3. shift_pressed' = ShiftAfter(queue[1], shift_pressed)
    BY <2>1, Zenon DEF Poll
  <2> QED BY <1>1, <2>2, <2>3, ShiftAfterCode, Zenon
<1>4. ShiftMake \subseteq ShiftCode
  BY DEF ShiftCode
<1> SUFFICES ASSUME NEW i \in 0 .. Len(queue) - 1 PROVE ShiftAt(i)' <=> ShiftAt(i + 1)
  OBVIOUS
<1>5. ASSUME ShiftAt(i)' PROVE ShiftAt(i + 1)
  <2>1. CASE \E j \in 1 .. i : queue'[j] \in ShiftMake /\ \A k \in j + 1 .. i : queue'[k] \notin ShiftCode
    <3>1. PICK j \in 1 .. i : queue'[j] \in ShiftMake /\ \A k \in j + 1 .. i : queue'[k] \notin ShiftCode
      BY <2>1
    <3>2. j + 1 \in 1 .. i + 1 /\ queue[j + 1] \in ShiftMake
      BY <1>1, <1>2, <3>1
    <3>3. \A k \in j + 2 .. i + 1 : k - 1 \in j + 1 .. i /\ queue[k] = queue'[k - 1]
      BY <1>1, <1>2, <3>1
    <3>4. \A k \in (j + 1) + 1 .. i + 1 : queue[k] \notin ShiftCode
      BY <3>1, <3>3
    <3> QED BY <3>2, <3>4 DEF ShiftAt
  <2>2. CASE shift_pressed' /\ \A k \in 1 .. i : queue'[k] \notin ShiftCode
    <3>1. \A k \in 2 .. i + 1 : k - 1 \in 1 .. i /\ queue[k] = queue'[k - 1]
      BY <1>1, <1>2
    <3>2. \A k \in 2 .. i + 1 : queue[k] \notin ShiftCode
      BY <2>2, <3>1
    <3>3. CASE queue[1] \in ShiftMake
      BY <1>1, <3>2, <3>3 DEF ShiftAt
    <3>4. CASE queue[1] \notin ShiftCode /\ shift_pressed
      <4>1. \A k \in 1 .. i + 1 : queue[k] \notin ShiftCode
        BY <1>1, <3>2, <3>4
      <4> QED BY <3>4, <4>1, Zenon DEF ShiftAt
    <3> QED BY <1>3, <2>2, <3>3, <3>4, Zenon
  <2> QED BY <1>5, <2>1, <2>2, Zenon DEF ShiftAt
<1>6. ASSUME ShiftAt(i + 1) PROVE ShiftAt(i)'
  <2>0. \A k \in 1 .. i : k + 1 \in 1 .. i + 1 /\ queue'[k] = queue[k + 1]
    BY <1>1, <1>2
  <2>1. CASE \E j \in 1 .. i + 1 : queue[j] \in ShiftMake /\ \A k \in j + 1 .. i + 1 : queue[k] \notin ShiftCode
    <3>1. PICK j \in 1 .. i + 1 : queue[j] \in ShiftMake /\ \A k \in j + 1 .. i + 1 : queue[k] \notin ShiftCode
      BY <2>1
    <3>2. CASE j = 1
      <4>1. \A k \in 1 .. i : queue'[k] \notin ShiftCode
        BY <2>0, <3>1, <3>2
      <4>2. shift_pressed'
        BY <1>3, <3>1, <3>2, Zenon
      <4> QED BY <4>1, <4>2, Zenon DEF ShiftAt
    <3>3. CASE j # 1
      <4>1. j - 1 \in 1 .. i /\ queue'[j - 1] \in ShiftMake
        BY <1>1, <1>2, <3>1, <3>3
      <4>2. \A k \in (j - 1) + 1 .. i : queue'[k] \notin ShiftCode
        BY <2>0, <3>1, <4>1
      <4> QED BY <4>1, <4>2, Zenon DEF ShiftAt
    <3> QED BY <3>2, <3>3
  <2>2. CASE shift_pressed /\ \A k \in 1 .. i + 1 : queue[k] \notin ShiftCode
    <3>1. \A k \in 1 .. i : queue'[k] \notin ShiftCode
      BY <2>0, <2>2
    <3>2. 1 \in 1 .. i + 1
      BY <1>1
    <3>3. shift_pressed'
      BY <1>3, <2>2, <3>2, Zenon
    <3> QED BY <3>1, <3>3, Zenon DEF ShiftAt
  <2> QED BY <1>6, <2>1, <2>2, Zenon DEF ShiftAt
<1> QED BY <1>5, <1>6

\* Reading a scancode takes the first of what is pending.
LEMMA PollPending ==
  ASSUME TypeOK, Poll
  PROVE  /\ Pending # <<>>
         /\ got' = Head(Pending)
         /\ Pending' = Tail(Pending)
         /\ ShiftAt(Len(queue))' = ShiftAt(Len(queue))
<1>0. \A i : ShiftAt(i) \in BOOLEAN /\ ShiftAt(i)' \in BOOLEAN
  BY DEF ShiftAt
<1>1. /\ Len(queue) \in Nat \ {0} /\ Head(queue) = queue[1] /\ queue[1] \in Scancode
      /\ Len(queue') = Len(queue) - 1
      /\ \A i \in 1 .. Len(queue) - 1 : queue'[i] = queue[i + 1]
  BY DEF TypeOK, Poll
<1> DEFINE Old(i) == Typed(queue[i], ShiftAt(i))
           New(i) == Typed(queue'[i], ShiftAt(i)')
<1>2. Pending' = [i \in 1 .. Len(queue) - 1 |-> New(i)]
  BY <1>1 DEF Pending, TypeOK, Poll
<1>3. Pending = [i \in 1 .. Len(queue) |-> Old(i)]
  BY DEF Pending, TypeOK
<1>4. \A i \in 1 .. Len(queue) - 1 : New(i) = Old(i + 1)
  <2> TAKE i \in 1 .. Len(queue) - 1
  <2>1. i \in 0 .. Len(queue) - 1
    BY <1>1
  <2>2. ShiftAt(i)' = ShiftAt(i + 1)
    BY <1>0, <2>1, PollKeepsShift, Zenon
  <2> QED BY <1>1, <2>2, Zenon
<1>5. got' = Old(1)
  <2>1. shift_pressed \in BOOLEAN
    BY Zenon DEF TypeOK
  <2>2. ShiftAt(1) <=> (queue[1] \in ShiftMake \/ (queue[1] \notin ShiftCode /\ shift_pressed))
    BY DEF ShiftAt, ShiftCode
  <2>3. ShiftAfter(queue[1], shift_pressed) \in BOOLEAN
    BY <2>1, Zenon DEF ShiftAfter
  <2>4. ShiftAfter(queue[1], shift_pressed) = ShiftAt(1)
    BY <1>0, <1>1, <2>1, <2>2, <2>3, ShiftAfterCode, Zenon
  <2> QED BY <1>1, <2>4, Zenon DEF Poll
<1>6. ShiftAt(Len(queue))' = ShiftAt(Len(queue))
  <2>1. \A n : n = Len(queue') => n \in 0 .. Len(queue) - 1 /\ n + 1 = Len(queue)
    BY <1>1
  <2>2. \A n : n = Len(queue') => (ShiftAt(Len(queue))' <=> ShiftAt(n)')
    BY Zenon DEF ShiftAt
  <2>3. \A n : n = Len(queue') => (ShiftAt(Len(queue))' <=> ShiftAt(n + 1))
    BY <2>1, <2>2, PollKeepsShift, Zenon
  <2>4. ShiftAt(Len(queue))' <=> ShiftAt(Len(queue))
    BY <2>1, <2>3, Zenon
  <2> QED BY <2>4, Zenon DEF ShiftAt
<1> HIDE DEF Old, New
<1>7. Pending # <<>> /\ got' = Head(Pending)
  BY <1>1, <1>3, <1>5
<1>8. Pending' = Tail(Pending)
  BY <1>1, <1>2, <1>3, <1>4
<1> QED BY <1>6, <1>7, <1>8

-----------------------------------------------------------------------------
(***************************************************************************)
(* The refinement.                                                         *)
(***************************************************************************)
\* Nothing that the abstract keyboard knows changes while the queue and the driver do not.
LEMMA StutterTyping ==
  ASSUME UNCHANGED <<queue, shift_pressed, got>>
  PROVE  UNCHANGED Abstract!tvars
BY Zenon DEF Abstract!tvars, Pending, ShiftAt

\* What the device sends is a key struck, an event that types nothing, or lost.
LEMMA SendTypes ==
  ASSUME TypeOK, NEW k \in Key, NEW code \in {make[k], make[k] + ReleaseBit}, Send(k, code),
         UNCHANGED <<shift_pressed, got>>
  PROVE  [Abstract!TypingNext]_(Abstract!tvars)
<1>1. CASE Len(queue) < QueueSize
  <2>0. make[k] \in Make
    BY KeyAssumption, Zenon
  <2>1. code \in Scancode
    BY <2>0 DEF Make, Scancode, ReleaseBit
  <2>2. queue' = Append(queue, code)
    BY <1>1, Zenon DEF Send
  <2>3. Pending' = Append(Pending, Typed(code, ShiftAt(Len(queue))'))
    BY <2>1, <2>2, AppendPending
  <2>4. ShiftAt(Len(queue))' <=> (code \in ShiftMake \/ (code \notin ShiftCode /\ ShiftAt(Len(queue))))
    BY <2>1, <2>2, AppendShift
  <2>5. ShiftAt(Len(queue)) \in BOOLEAN /\ ShiftAt(Len(queue))' \in BOOLEAN
    BY Zenon DEF ShiftAt
  <2>6. CASE IsRelease(code) \/ code \in ShiftMake
    <3>1. Typed(code, ShiftAt(Len(queue))') = None
      BY <2>6, KeymapAssumption, Zenon DEF Typed, Translate
    <3>2. Abstract!Silent
      BY <2>3, <2>5, <3>1, Zenon DEF Abstract!Silent
    <3> QED BY <3>2, Zenon DEF Abstract!TypingNext
  <2>7. CASE ~IsRelease(code) /\ code \notin ShiftMake
    <3>1. code = make[k] /\ code \notin ShiftCode
      BY <2>0, <2>7 DEF IsRelease, Make, ShiftCode, ShiftMake, ReleaseBit, LeftShift, RightShift
    <3>2. ShiftAt(Len(queue))' = ShiftAt(Len(queue))
      BY <2>4, <2>5, <2>7, <3>1, Zenon
    <3> DEFINE legend == <<base_keymap[make[k]], Translate(make[k], TRUE)>>
    <3>3. legend \in Legends
      BY Zenon DEF Legends
    <3>4. legend[1] = base_keymap[make[k]] /\ legend[2] = Translate(make[k], TRUE)
      OBVIOUS
    <3>5. Typed(code, ShiftAt(Len(queue))') = IF ShiftAt(Len(queue)) THEN legend[2] ELSE legend[1]
      BY <2>5, <2>7, <3>1, <3>2, <3>4, Zenon DEF Typed, Translate
    <3> HIDE DEF legend
    <3>6. Abstract!Strike
      BY <2>3, <3>2, <3>3, <3>5, Zenon DEF Abstract!Strike
    <3> QED BY <3>6, Zenon DEF Abstract!TypingNext
  <2> QED BY <2>6, <2>7, Zenon
<1>2. CASE ~(Len(queue) < QueueSize)
  <2>1. UNCHANGED queue
    BY <1>2, Zenon DEF Send
  <2> QED BY <2>1, StutterTyping, Zenon
<1> QED BY <1>1, <1>2

\* Keyboard implements Typing: whatever the order in which keys move and the kernel polls,
\* each key types what it stood for when it was struck, in the order in which they were struck.
THEOREM KeyboardImplementsTyping == Spec => ImplementsTyping
<1>1. Init => Abstract!TypingInit
  <2> SUFFICES ASSUME Init PROVE Abstract!TypingInit
    OBVIOUS
  <2>1. Pending = <<>>
    BY DEF Init, Pending
  <2>2. ShiftAt(Len(queue)) = FALSE
    <3>1. 1 .. Len(queue) = {}
      BY DEF Init
    <3> QED BY <3>1, Zenon DEF Init, ShiftAt
  <2> QED BY <2>1, <2>2, Zenon DEF Init, Abstract!TypingInit
<1>2. TypeOK /\ [Next]_kvars => [Abstract!TypingNext]_(Abstract!tvars)
  <2> SUFFICES ASSUME TypeOK, [Next]_kvars PROVE [Abstract!TypingNext]_(Abstract!tvars)
    OBVIOUS
  <2>1. ASSUME NEW k \in Key, Press(k) PROVE [Abstract!TypingNext]_(Abstract!tvars)
    <3>1. CASE SendsShift(k)
      <4>1. Send(k, make[k]) /\ UNCHANGED <<shift_pressed, got>>
        BY <2>1, <3>1, Zenon DEF Press
      <4> QED BY <4>1, SendTypes
    <3>2. CASE ~SendsShift(k)
      BY <2>1, <3>2, StutterTyping, Zenon DEF Press
    <3> QED BY <3>1, <3>2
  <2>2. ASSUME NEW k \in Key, Release(k) PROVE [Abstract!TypingNext]_(Abstract!tvars)
    <3>1. CASE SendsShift(k)
      <4>1. Send(k, make[k] + ReleaseBit) /\ UNCHANGED <<shift_pressed, got>>
        BY <2>2, <3>1, Zenon DEF Release
      <4> QED BY <4>1, SendTypes
    <3>2. CASE ~SendsShift(k)
      BY <2>2, <3>2, StutterTyping, Zenon DEF Release
    <3> QED BY <3>1, <3>2
  <2>3. CASE Poll
    <3>1. Abstract!Take
      BY <2>3, PollPending, Zenon DEF Abstract!Take
    <3> QED BY <3>1, Zenon DEF Abstract!TypingNext
  <2>4. CASE UNCHANGED kvars
    BY <2>4, StutterTyping, Zenon DEF kvars, device
  <2> QED BY <2>1, <2>2, <2>3, <2>4, Zenon DEF Next
<1> QED BY <1>1, <1>2, TypeCorrect, PTL DEF Spec, ImplementsTyping, Abstract!TypingSpec

-----------------------------------------------------------------------------
(***************************************************************************)
(* Shift.  Only the device changes what the invariant speaks of: a poll    *)
(* moves a scancode from the queue into shift_pressed.                     *)
(***************************************************************************)
\* Shift after the device has sent a scancode: none is a shift code but those of the
\* keys that are sources of shift.
LEMMA SendShift ==
  ASSUME TypeOK, NEW k \in Key, NEW code \in {make[k], make[k] + ReleaseBit}, Send(k, code),
         UNCHANGED shift_pressed
  PROVE  /\ k \in ShiftSource /\ ~lost' => (ShiftAt(Len(queue))' <=> code = make[k])
         /\ k \notin ShiftSource => UNCHANGED lost /\ (ShiftAt(Len(queue))' <=> ShiftAt(Len(queue)))
<1>0. make[k] \in Make /\ (make[k] \in ShiftMake <=> k \in ShiftSource)
  BY KeyAssumption, Zenon
<1>1. /\ code \in ShiftMake <=> k \in ShiftSource /\ code = make[k]
      /\ code \in ShiftCode <=> k \in ShiftSource
  BY <1>0 DEF Make, ShiftCode, ShiftMake, ReleaseBit, LeftShift, RightShift
<1>2. code \in Scancode
  BY <1>0 DEF Make, Scancode, ReleaseBit
<1>3. CASE Len(queue) < QueueSize
  <2>1. queue' = Append(queue, code)
    BY <1>3, Zenon DEF Send
  <2>2. ShiftAt(Len(queue))' <=> (code \in ShiftMake \/ (code \notin ShiftCode /\ ShiftAt(Len(queue))))
    BY <1>2, <2>1, AppendShift
  <2> QED BY <1>1, <2>2, Zenon DEF Send
<1>4. CASE ~(Len(queue) < QueueSize)
  <2>1. queue' = queue /\ lost' = IF k \in ShiftSource THEN TRUE ELSE lost
    BY <1>4, Zenon DEF Send
  <2>2. ShiftAt(Len(queue))' <=> ShiftAt(Len(queue))
    BY <2>1, Zenon DEF ShiftAt
  <2> QED BY <2>1, <2>2, Zenon
<1> QED BY <1>3, <1>4

\* The driver agrees with the keys about shift, but while two sources of shift overlap or
\* a change of one of them is lost.
THEOREM ShiftAgrees == Spec => []ShiftFollowsKeys
<1> DEFINE Single == ~overlapped => \A p, q \in held \cap ShiftSource : p = q
           Anchored == overlapped => held \cap ShiftSource # {}
           IInv == Single /\ Anchored /\ ShiftFollowsKeys
<1>1. Init => IInv
  <2> SUFFICES ASSUME Init PROVE IInv
    OBVIOUS
  <2>1. 1 .. Len(queue) = {}
    BY DEF Init
  <2> QED BY <2>1, Zenon DEF Init, ShiftFollowsKeys, ShiftAt
<1>2. TypeOK /\ IInv /\ [Next]_kvars => IInv'
  <2> SUFFICES ASSUME TypeOK, IInv, [Next]_kvars PROVE IInv'
    OBVIOUS
  <2>1. ASSUME NEW k \in Key, Press(k) PROVE IInv'
    <3>1. Single' /\ Anchored'
      BY <2>1, Zenon DEF Press
    <3>2. CASE SendsShift(k)
      <4>1. Send(k, make[k]) /\ UNCHANGED shift_pressed
        BY <2>1, <3>2, Zenon DEF Press
      <4>2. CASE k \in ShiftSource
        BY <2>1, <4>1, <4>2, SendShift, Zenon DEF Press, ShiftFollowsKeys
      <4>3. CASE k \notin ShiftSource
        BY <2>1, <4>1, <4>3, SendShift, Zenon DEF Press, ShiftFollowsKeys
      <4> QED BY <3>1, <4>2, <4>3
    <3>3. CASE ~SendsShift(k)
      <4>1. overlapped'
        BY <2>1, <3>3, Zenon DEF Press, SendsShift, ShiftSource
      <4> QED BY <3>1, <4>1, Zenon DEF ShiftFollowsKeys
    <3> QED BY <3>2, <3>3
  <2>2. ASSUME NEW k \in Key, Release(k) PROVE IInv'
    <3>1. Single' /\ Anchored'
      BY <2>2, Zenon DEF Release
    <3>2. CASE SendsShift(k)
      <4>1. Send(k, make[k] + ReleaseBit) /\ UNCHANGED shift_pressed /\ make[k] \in Make
        BY <2>2, <3>2, KeyAssumption, Zenon DEF Release
      <4>2. CASE k \in ShiftSource
        <5>1. make[k] + ReleaseBit # make[k]
          BY <4>1 DEF Make, ReleaseBit
        <5>2. ~overlapped' => held' \cap ShiftSource = {}
          <6>1. k \in held /\ held' = held \ {k}
            BY <2>2, Zenon DEF Release
          <6>2. CASE overlapped
            BY <2>2, <6>2, Zenon DEF Release
          <6>3. CASE ~overlapped
            <7>1. \A p \in held \cap ShiftSource : p = k
              BY <4>2, <6>1, <6>3, Zenon
            <7>2. held' \cap ShiftSource = {}
              BY <6>1, <7>1
            <7> QED BY <7>2
          <6> QED BY <6>2, <6>3
        <5>3. ~lost' => ~ShiftAt(Len(queue))'
          BY <4>1, <4>2, <5>1, SendShift, Zenon
        <5> QED BY <3>1, <5>2, <5>3, Zenon DEF ShiftFollowsKeys
      <4>3. CASE k \notin ShiftSource
        <5>1. held' \cap ShiftSource = held \cap ShiftSource
          BY <2>2, <4>3, Zenon DEF Release
        <5>2. UNCHANGED lost /\ (ShiftAt(Len(queue))' <=> ShiftAt(Len(queue)))
          BY <4>1, <4>3, SendShift, Zenon
        <5>3. overlapped' <=> overlapped
          BY <2>2, <5>1, Zenon DEF Release
        <5> QED BY <3>1, <5>1, <5>2, <5>3, Zenon DEF ShiftFollowsKeys
      <4> QED BY <4>2, <4>3
    <3>3. CASE ~SendsShift(k)
      <4>1. PICK p \in held \cap ShiftKey : p # k /\ k \in FakeShiftKey
        BY <3>3, KeyAssumption, Zenon DEF SendsShift
      <4>2. overlapped
        BY <2>2, <4>1, Zenon DEF Release, ShiftSource
      <4>3. p \in held' \cap ShiftSource
        BY <2>2, <4>1, Zenon DEF Release, ShiftSource
      <4>4. overlapped'
        BY <2>2, <4>2, <4>3, Zenon DEF Release
      <4> QED BY <3>1, <4>4, Zenon DEF ShiftFollowsKeys
    <3> QED BY <3>2, <3>3
  <2>3. CASE Poll
    BY <2>3, PollPending, Zenon DEF Poll, ShiftFollowsKeys
  <2>4. CASE UNCHANGED kvars
    BY <2>4, Zenon DEF kvars, device, ShiftFollowsKeys, ShiftAt
  <2> QED BY <2>1, <2>2, <2>3, <2>4, Zenon DEF Next
<1> QED BY <1>1, <1>2, TypeCorrect, PTL DEF Spec

-----------------------------------------------------------------------------
(***************************************************************************)
(* The line editor.                                                        *)
(***************************************************************************)
\* The line editor moves the keyboard as the keyboard moves, or leaves it alone.
LEMMA ConsoleStep == [ConsoleNext]_cvars => [Next]_kvars
BY Zenon DEF ConsoleNext, Strike, Lift, Turn, Finish, cvars, Next

LEMMA ConsoleIsKeyboard == ConsoleSpec => Spec
BY ConsoleStep, PTL DEF ConsoleSpec, ConsoleInit, Spec

\* The console as a whole keeps the promise of the keyboard, whenever the shell polls.
THEOREM ConsoleImplementsTyping == ConsoleSpec => ImplementsTyping
BY ConsoleIsKeyboard, KeyboardImplementsTyping, PTL

\* The line never outgrows the buffer of enzos_shell: the 128th byte is left for the
\* terminator.
THEOREM ConsoleTypeCorrect == ConsoleSpec => []ConsoleTypeOK
<1>1. ConsoleInit => ConsoleTypeOK
  <2> SUFFICES ASSUME ConsoleInit PROVE ConsoleTypeOK
    OBVIOUS
  <2>1. Len(queue) = 0 /\ Len(input) = 0 /\ queue \in Seq(Scancode) /\ input \in Seq(Char)
    BY DEF ConsoleInit, Init
  <2>2. Len(queue) =< QueueSize /\ Len(input) =< LineMax
    BY <2>1, QueueAssumption, LineAssumption
  <2> QED BY <2>1, <2>2, Zenon DEF ConsoleInit, Init, ConsoleTypeOK, TypeOK
<1>2. TypeOK' /\ ConsoleTypeOK /\ [ConsoleNext]_cvars => ConsoleTypeOK'
  <2> SUFFICES ASSUME TypeOK', ConsoleTypeOK, [ConsoleNext]_cvars PROVE ConsoleTypeOK'
    OBVIOUS
  <2>0. /\ queue \in Seq(Scancode) /\ Len(queue) =< QueueSize
        /\ input \in Seq(Char) /\ Len(input) =< LineMax
    BY Zenon DEF ConsoleTypeOK, TypeOK
  <2>1. ASSUME NEW k \in Key, NEW code, Send(k, code) \/ UNCHANGED <<queue, lost>>, UNCHANGED editor
        PROVE  ConsoleTypeOK'
    <3>1. Len(queue') =< QueueSize
      <4>1. queue' = queue \/ (Len(queue) < QueueSize /\ queue' = Append(queue, code))
        BY <2>1, Zenon DEF Send
      <4>2. queue' \in Seq(Scancode)
        BY Zenon DEF TypeOK
      <4> QED BY <2>0, <4>1, <4>2, QueueAssumption
    <3> QED BY <2>1, <3>1, Zenon DEF ConsoleTypeOK, editor
  <2>2. ASSUME NEW k \in Key, Strike(k) PROVE ConsoleTypeOK'
    BY <2>1, <2>2, Zenon DEF Strike, Press
  <2>3. ASSUME NEW k \in Key, Lift(k) PROVE ConsoleTypeOK'
    BY <2>1, <2>3, Zenon DEF Lift, Release
  <2>4. CASE Turn
    <3>1. queue # <<>> /\ queue' = Tail(queue) /\ got' = Typed(Head(queue), shift_pressed')
      BY <2>4, Zenon DEF Turn, Poll
    <3>2. Len(queue') =< QueueSize /\ Head(queue) \in Scancode
      BY <2>0, <3>1, QueueAssumption
    <3>3. CASE UNCHANGED editor
      BY <3>2, <3>3, Zenon DEF ConsoleTypeOK, editor
    <3>4. CASE got' # None /\ Edit(got')
      <4>1. got' \in Char
        <5>1. ~IsRelease(Head(queue))
          BY <3>1, <3>4, Zenon DEF Typed
        <5>2. Head(queue) \in Make
          <6>1. \A code \in Scancode : ~IsRelease(code) => code \in Make
            BY DEF IsRelease, Scancode, Make, ReleaseBit
          <6> QED BY <3>2, <5>1, <6>1, Zenon
        <5>3. got' = base_keymap[Head(queue)] \/ got' = shifted_keymap[Head(queue)]
          BY <3>1, <5>1, Zenon DEF Typed, Translate
        <5> QED BY <5>2, <5>3, Zenon DEF Char
      <4>2. CASE input' = Append(input, got') /\ Len(input) < LineMax /\ UNCHANGED busy
        <5>1. input' \in Seq(Char) /\ Len(input') =< LineMax
          BY <2>0, <4>1, <4>2, LineAssumption
        <5> QED BY <3>2, <4>2, <5>1, Zenon DEF ConsoleTypeOK
      <4>3. CASE UNCHANGED input /\ busy' \in BOOLEAN
        BY <3>2, <4>3, Zenon DEF ConsoleTypeOK
      <4>4. busy \in BOOLEAN
        BY Zenon DEF ConsoleTypeOK
      <4> QED BY <3>4, <4>2, <4>3, <4>4, Zenon DEF Edit, editor
    <3> QED BY <2>4, <3>3, <3>4, Zenon DEF Turn, editor
  <2>5. CASE Finish
    <3>1. input' \in Seq(Char) /\ Len(input') =< LineMax
      <4>1. input' = <<>>
        BY <2>5, Zenon DEF Finish
      <4> QED BY <4>1, LineAssumption
    <3> QED BY <2>5, <3>1, Zenon DEF Finish, kvars, device, ConsoleTypeOK
  <2>6. CASE UNCHANGED cvars
    BY <2>6, Zenon DEF cvars, kvars, device, editor, ConsoleTypeOK
  <2> QED BY <2>2, <2>3, <2>4, <2>5, <2>6, Zenon DEF ConsoleNext
<1> QED BY <1>1, <1>2, ConsoleIsKeyboard, TypeCorrect, PTL DEF ConsoleSpec

-----------------------------------------------------------------------------
(***************************************************************************)
(* The line.  What the user struck since the prompt is what the shell has  *)
(* taken, and what it will read: the first part is the line, the second is *)
(* what the scancodes in the queue type.  First a line and its parts by    *)
(* themselves; then the queue; then the steps of the console.              *)
(***************************************************************************)
\* What the shell has made of m, the characters struck since the prompt, of which it has
\* taken t: the line i, and e on the terminal.  It has w still to read; b: a command runs.
LineLen(t, b) == IF b THEN t - 1 ELSE t
KeptOf(l) == IF l < LineMax THEN l ELSE LineMax
Reading(m, t, b, i, e, w) ==
  /\ m \in Seq(Visible) /\ t \in 0 .. Len(m)
  /\ b => t # 0 /\ m[t] = Newline
  /\ w = SubSeq(m, t + 1, Len(m))
  /\ \A k \in 1 .. LineLen(t, b) : m[k] # Newline
  /\ i = SubSeq(m, 1, KeptOf(LineLen(t, b)))
  /\ e = IF b THEN Append(i, Newline) ELSE i

\* The line that was read is part of what was struck.
LEMMA LineInside ==
  ASSUME NEW t \in Nat, NEW b \in BOOLEAN, b => t # 0
  PROVE  LineLen(t, b) \in 0 .. t /\ KeptOf(LineLen(t, b)) \in 0 .. t
<1>1. PICK l : l = LineLen(t, b)
  OBVIOUS
<1>2. l = IF b THEN t - 1 ELSE t
  BY <1>1, Zenon DEF LineLen
<1>3. l \in 0 .. t
  BY <1>2
<1>4. KeptOf(l) \in 0 .. t
  BY <1>3, LineAssumption DEF KeptOf
<1> QED BY <1>1, <1>3, <1>4

\* Nothing was struck and nothing read.
LEMMA ReadingNothing == Reading(<<>>, 0, FALSE, <<>>, <<>>, <<>>)
<1>1. <<>> \in Seq(Visible) /\ Len(<<>>) = 0
  OBVIOUS
<1>2. LineLen(0, FALSE) = 0
  BY Zenon DEF LineLen
<1>3. KeptOf(0) = 0 /\ \A k : k \notin 1 .. 0
  BY LineAssumption DEF KeptOf
<1>4. SubSeq(<<>>, 1, 0) = <<>> /\ SubSeq(<<>>, 0 + 1, Len(<<>>)) = <<>>
  BY <1>1, WholeOf
<1>5. 0 \in 0 .. Len(<<>>)
  BY <1>1
<1> QED BY <1>1, <1>2, <1>3, <1>4, <1>5, Zenon DEF Reading

\* Another character is struck.
LEMMA ReadingMore ==
  ASSUME NEW m, NEW t, NEW b \in BOOLEAN, NEW i, NEW e, NEW w, Reading(m, t, b, i, e, w), NEW c \in Visible
  PROVE  Reading(Append(m, c), t, b, i, e, Append(w, c))
<1>1. m \in Seq(Visible) /\ t \in 0 .. Len(m) /\ t \in Nat /\ w = SubSeq(m, t + 1, Len(m))
  BY DEF Reading
<1>2. b => t # 0 /\ m[t] = Newline
  BY DEF Reading
<1>3. PICK n \in Seq(Visible) : n = Append(m, c)
  <2>1. Append(m, c) \in Seq(Visible)
    BY <1>1
  <2> QED BY <2>1, Zenon
<1>4. Len(n) = Len(m) + 1 /\ \A k \in 1 .. Len(m) : n[k] = m[k]
  BY <1>1, <1>3
<1>5. t \in 0 .. Len(n)
  BY <1>1, <1>4
<1>6. b => t # 0 /\ n[t] = Newline
  BY <1>1, <1>2, <1>4
<1>7. Append(w, c) = SubSeq(n, t + 1, Len(n))
  BY <1>1, <1>3, RestOfAppend
<1>8. PICK l, kl : l = LineLen(t, b) /\ kl = KeptOf(LineLen(t, b))
  OBVIOUS
<1>9. l \in 0 .. Len(m) /\ kl \in 0 .. Len(m)
  <2>1. l \in 0 .. t /\ kl \in 0 .. t
    BY <1>1, <1>2, <1>8, LineInside, Zenon
  <2> QED BY <1>1, <2>1
<1>10. \A k \in 1 .. l : n[k] # Newline
  <2>1. \A k \in 1 .. l : k \in 1 .. Len(m) /\ m[k] # Newline
    BY <1>1, <1>8, <1>9 DEF Reading
  <2> QED BY <1>4, <2>1
<1>11. i = SubSeq(n, 1, kl)
  <2>1. i = SubSeq(m, 1, kl)
    BY <1>8 DEF Reading
  <2>2. SubSeq(n, 1, kl) = SubSeq(m, 1, kl)
    BY <1>1, <1>3, <1>9, FrontOfAppend
  <2> QED BY <2>1, <2>2
<1>12. e = IF b THEN Append(i, Newline) ELSE i
  BY DEF Reading
<1>13. Reading(n, t, b, i, e, Append(w, c))
  BY <1>3, <1>5, <1>6, <1>7, <1>8, <1>10, <1>11, <1>12, Zenon DEF Reading
<1> QED BY <1>3, <1>13

\* What is read next is the next character that was struck.
LEMMA ReadingNext ==
  ASSUME NEW m, NEW t, NEW i, NEW e, NEW w, Reading(m, t, FALSE, i, e, w), w # <<>>
  PROVE  /\ t + 1 \in 0 .. Len(m) /\ t \in Nat /\ m \in Seq(Visible)
         /\ Head(w) = m[t + 1] /\ Tail(w) = SubSeq(m, (t + 1) + 1, Len(m))
<1>1. m \in Seq(Visible) /\ t \in 0 .. Len(m) /\ t \in Nat /\ w = SubSeq(m, t + 1, Len(m))
  BY DEF Reading
<1>2. t < Len(m) /\ Head(w) = m[t + 1] /\ Tail(w) = SubSeq(m, (t + 1) + 1, Len(m))
  BY <1>1, RestOf
<1> QED BY <1>1, <1>2

\* The shell ends the line with the newline it reads.
LEMMA ReadingEnds ==
  ASSUME NEW m, NEW t, NEW i, NEW e, NEW w, Reading(m, t, FALSE, i, e, w),
         w # <<>>, Head(w) = Newline
  PROVE  Reading(m, t + 1, TRUE, i, Append(e, Newline), Tail(w))
<1>1. /\ t + 1 \in 0 .. Len(m) /\ t \in Nat /\ m \in Seq(Visible)
      /\ m[t + 1] = Newline /\ Tail(w) = SubSeq(m, (t + 1) + 1, Len(m))
  BY ReadingNext
<1>2. t + 1 # 0 /\ (t + 1) - 1 = t
  BY <1>1
<1>3. LineLen(t + 1, TRUE) = LineLen(t, FALSE)
  BY <1>2, Zenon DEF LineLen
<1>4. KeptOf(LineLen(t + 1, TRUE)) = KeptOf(LineLen(t, FALSE))
  BY <1>3, Zenon DEF KeptOf
<1>5. \A k \in 1 .. LineLen(t, FALSE) : m[k] # Newline
  BY DEF Reading
<1>6. i = SubSeq(m, 1, KeptOf(LineLen(t, FALSE))) /\ e = i
  BY DEF Reading
<1> QED BY <1>1, <1>2, <1>3, <1>4, <1>5, <1>6, Zenon DEF Reading

\* The shell adds what it reads to the line while there is room, and passes over it then.
LEMMA ReadingAdds ==
  ASSUME NEW m, NEW t, NEW i, NEW e, NEW w, Reading(m, t, FALSE, i, e, w),
         w # <<>>, Head(w) # Newline,
         NEW j, NEW f, IF Len(i) < LineMax THEN j = Append(i, Head(w)) /\ f = Append(e, Head(w))
                                           ELSE j = i /\ f = e
  PROVE  Reading(m, t + 1, FALSE, j, f, Tail(w))
<1>1. /\ t + 1 \in 0 .. Len(m) /\ t \in Nat /\ m \in Seq(Visible)
      /\ m[t + 1] # Newline /\ Tail(w) = SubSeq(m, (t + 1) + 1, Len(m))
  BY ReadingNext
<1>2. LineLen(t, FALSE) = t /\ LineLen(t + 1, FALSE) = t + 1
  BY Zenon DEF LineLen
<1>3. \A k \in 1 .. t + 1 : m[k] # Newline
  <2>1. \A k \in 1 .. t : m[k] # Newline
    BY <1>2, Zenon DEF Reading
  <2>2. \A k \in 1 .. t + 1 : k = t + 1 \/ k \in 1 .. t
    BY <1>1
  <2> QED BY <1>1, <2>1, <2>2, Zenon
<1>4. i = SubSeq(m, 1, KeptOf(LineLen(t, FALSE))) /\ e = i
  BY DEF Reading
<1>5. j = SubSeq(m, 1, KeptOf(LineLen(t + 1, FALSE))) /\ f = j
  <2>1. CASE t < LineMax
    <3>0. KeptOf(t) = t /\ KeptOf(t + 1) = t + 1
      BY <1>1, <2>1, LineAssumption DEF KeptOf
    <3>1. KeptOf(LineLen(t, FALSE)) = t /\ KeptOf(LineLen(t + 1, FALSE)) = t + 1
      BY <1>2, <3>0, Zenon
    <3>2. t \in 0 .. Len(m) - 1
      BY <1>1
    <3>3. Len(i) = t
      <4>0. i = SubSeq(m, 1, t)
        BY <1>4, <3>1, Zenon
      <4>1. t \in 0 .. Len(m)
        BY <3>2
      <4>2. IsFrontOf(Visible, m, t, i)
        BY <1>1, <4>0, <4>1, FrontOf
      <4> QED BY <4>2 DEF IsFrontOf
    <3>4. SubSeq(m, 1, t + 1) = Append(i, m[t + 1])
      BY <1>1, <1>4, <3>1, <3>2, FrontGrows
    <3>5. Head(w) = m[t + 1]
      BY ReadingNext
    <3>6. j = Append(i, Head(w)) /\ f = Append(e, Head(w))
      BY <2>1, <3>3
    <3> QED BY <1>4, <3>1, <3>4, <3>5, <3>6
  <2>2. CASE ~(t < LineMax)
    <3>0. KeptOf(t) = LineMax /\ KeptOf(t + 1) = LineMax
      BY <1>1, <2>2, LineAssumption DEF KeptOf
    <3>1. KeptOf(LineLen(t, FALSE)) = LineMax /\ KeptOf(LineLen(t + 1, FALSE)) = LineMax
      BY <1>2, <3>0, Zenon
    <3>2. LineMax \in 0 .. Len(m)
      BY <1>1, <2>2, LineAssumption
    <3>3. Len(i) = LineMax
      <4>1. IsFrontOf(Visible, m, LineMax, i)
        BY <1>1, <1>4, <3>1, <3>2, FrontOf
      <4> QED BY <4>1 DEF IsFrontOf
    <3>4. j = i /\ f = e
      BY <3>3, LineAssumption
    <3> QED BY <1>4, <3>1, <3>4
  <2> QED BY <2>1, <2>2
<1> QED BY <1>1, <1>2, <1>3, <1>5, Zenon DEF Reading

\* The command is done, and what is left is the start of the next line.
LEMMA ReadingAnew ==
  ASSUME NEW m, NEW t, NEW b, NEW i, NEW e, NEW w, Reading(m, t, b, i, e, w)
  PROVE  Reading(SubSeq(m, t + 1, Len(m)), 0, FALSE, <<>>, <<>>, w)
<1>1. m \in Seq(Visible) /\ t \in 0 .. Len(m) /\ w = SubSeq(m, t + 1, Len(m))
  BY DEF Reading
<1>2. w \in Seq(Visible)
  BY <1>1, RestOf
<1>3. LineLen(0, FALSE) = 0
  BY Zenon DEF LineLen
<1>4. KeptOf(0) = 0 /\ \A k : k \notin 1 .. 0
  BY LineAssumption DEF KeptOf
<1>5. SubSeq(w, 1, 0) = <<>> /\ SubSeq(w, 0 + 1, Len(w)) = w
  BY <1>2, WholeOf
<1>6. 0 \in 0 .. Len(w)
  BY <1>2
<1>7. Reading(w, 0, FALSE, <<>>, <<>>, w)
  BY <1>2, <1>3, <1>4, <1>5, <1>6, Zenon DEF Reading
<1> QED BY <1>1, <1>7

-----------------------------------------------------------------------------
\* What the scancodes in the queue can type.
Typable == Char \cup {None}

\* What a scancode types is in the tables, or it types nothing.
LEMMA TypedInTables ==
  ASSUME NEW code \in Scancode, NEW shifted \in BOOLEAN
  PROVE  Typed(code, shifted) \in Typable
<1>1. CASE IsRelease(code)
  BY <1>1, Zenon DEF Typed, Typable
<1>2. CASE ~IsRelease(code)
  <2>1. code \in Make
    BY <1>2 DEF IsRelease, Scancode, Make, ReleaseBit
  <2>2. Typed(code, shifted) = base_keymap[code] \/ Typed(code, shifted) = shifted_keymap[code]
    BY <1>2, Zenon DEF Typed, Translate
  <2> QED BY <2>1, <2>2, Zenon DEF Char, Typable
<1> QED BY <1>1, <1>2

\* So does the queue.
LEMMA PendingTyped ==
  ASSUME TypeOK
  PROVE  Pending \in Seq(Typable)
<1>1. queue \in Seq(Scancode) /\ Len(queue) \in Nat /\ DOMAIN queue = 1 .. Len(queue)
  BY DEF TypeOK
<1> DEFINE P(i) == Typed(queue[i], ShiftAt(i))
<1>2. \A i \in 1 .. Len(queue) : P(i) \in Typable
  <2> TAKE i \in 1 .. Len(queue)
  <2>1. queue[i] \in Scancode
    BY <1>1
  <2>2. ShiftAt(i) \in BOOLEAN
    BY DEF ShiftAt
  <2> QED BY <2>1, <2>2, TypedInTables, Zenon
<1>3. Pending = [i \in 1 .. Len(queue) |-> P(i)]
  BY <1>1 DEF Pending
<1> HIDE DEF P
<1>4. [i \in 1 .. Len(queue) |-> P(i)] \in [1 .. Len(queue) -> Typable]
  BY <1>2
<1> QED BY <1>1, <1>3, <1>4

\* What is readable is picked, one by one.
LEMMA ReadableIsPicked == \A s : Readable(s) = Picked(Visible, s)
BY DEF Readable, Picked

\* What the shell has still to read.
Waiting == Readable(Pending)

\* A scancode that types nothing, and one that types a character, at the end of the queue.
LEMMA WaitingSent ==
  ASSUME TypeOK, NEW code \in Scancode, queue' = Append(queue, code), UNCHANGED shift_pressed,
         NEW c, c = Typed(code, ShiftAt(Len(queue))')
  PROVE  Waiting' = IF c \in Visible THEN Append(Waiting, c) ELSE Waiting
<1>1. Pending' = Append(Pending, c)
  BY AppendPending, Zenon
<1>2. PICK s \in Seq(Typable) : s = Pending
  BY PendingTyped, Zenon
<1>3. c \in Typable
  <2>1. ShiftAt(Len(queue))' \in BOOLEAN
    BY DEF ShiftAt
  <2> QED BY <2>1, TypedInTables, Zenon
<1>4. Picked(Visible, Append(s, c)) = IF c \in Visible THEN Append(Picked(Visible, s), c) ELSE Picked(Visible, s)
  <2>1. PICK D, P, d : D = Typable /\ P = Visible /\ d = c
    OBVIOUS
  <2>2. s \in Seq(D) /\ d \in D
    BY <1>3, <2>1
  <2>3. Picked(P, Append(s, d)) = IF d \in P THEN Append(Picked(P, s), d) ELSE Picked(P, s)
    BY ONLY <2>2, PickedAppend
  <2> QED BY <2>1, <2>3, Zenon
<1>5. Waiting = Picked(Visible, s)
  BY <1>2, ReadableIsPicked, Zenon DEF Waiting
<1>6. Waiting' = Picked(Visible, Append(s, c))
  <2>1. Waiting' = Picked(Visible, Pending')
    BY ReadableIsPicked, Zenon DEF Waiting
  <2> QED BY <1>1, <1>2, <2>1, Zenon
<1> QED BY <1>4, <1>5, <1>6, Zenon

\* A poll takes the first.
LEMMA WaitingPolled ==
  ASSUME TypeOK, Poll
  PROVE  /\ got' \in Typable
         /\ Waiting \in Seq(Typable)
         /\ got' = None => Waiting' = Waiting
         /\ got' # None => got' \in Visible /\ Waiting # <<>> /\ Head(Waiting) = got' /\ Tail(Waiting) = Waiting'
<1>1. PICK s \in Seq(Typable) : s = Pending
  BY PendingTyped, Zenon
<1>2. s # <<>> /\ got' = Head(s) /\ Pending' = Tail(s)
  BY <1>1, PollPending, Zenon
<1>3. PICK c \in Typable, r \in Seq(Typable) : c = Head(s) /\ r = Tail(s)
  <2>1. Head(s) \in Typable /\ Tail(s) \in Seq(Typable)
    BY <1>2
  <2> QED BY <2>1, Zenon
<1>4. Picked(Visible, s) = IF c \in Visible THEN <<c>> \o Picked(Visible, r) ELSE Picked(Visible, r)
  BY <1>2, <1>3, PickedTail
<1>5. Waiting = Picked(Visible, s)
  BY <1>1, ReadableIsPicked, Zenon DEF Waiting
<1>6. Waiting' = Picked(Visible, r)
  <2>1. Waiting' = Picked(Visible, Pending')
    BY ReadableIsPicked, Zenon DEF Waiting
  <2> QED BY <1>2, <1>3, <2>1, Zenon
<1>7. PICK v \in Seq(Typable) : v = Picked(Visible, r)
  BY PickedType, Zenon
<1>8. <<c>> \o v # <<>> /\ Head(<<c>> \o v) = c /\ Tail(<<c>> \o v) = v
  OBVIOUS
<1>9. c # None <=> c \in Visible
  BY Zenon DEF Typable, Visible
<1>10. Waiting \in Seq(Typable)
  BY <1>5, PickedType, Zenon
<1> QED BY <1>2, <1>3, <1>4, <1>5, <1>6, <1>7, <1>8, <1>9, <1>10

-----------------------------------------------------------------------------
\* The inductive invariant: what was struck is what was read and what is still to read; when
\* something spoilt a key, nothing is recorded until the keys are let go and read.
Meaning ==
  /\ garbled \in BOOLEAN
  /\ garbled => meant = <<>> /\ taken = 0
  /\ ~garbled => Reading(meant, taken, busy, input, echo, Waiting)

\* The editor and the ghosts are left alone, and the shell has the same still to read.
LEMMA MeaningStays ==
  ASSUME Meaning, UNCHANGED <<editor, ghosts>>, Waiting' = Waiting
  PROVE  Meaning'
BY Zenon DEF Meaning, editor, ghosts

\* The queue is left alone, or there is nothing in it.
LEMMA WaitingStays ==
  ASSUME UNCHANGED <<queue, shift_pressed>>
  PROVE  Waiting' = Waiting
BY Zenon DEF Waiting, Pending, ShiftAt

LEMMA WaitingNothing ==
  ASSUME queue = <<>>
  PROVE  Waiting = <<>>
<1>1. DOMAIN queue = {}
  OBVIOUS
<1>2. Pending = <<>>
  BY <1>1 DEF Pending
<1> QED BY <1>2, ReadableIsPicked, PickedEmpty, Zenon DEF Waiting

\* A scancode that types nothing.
LEMMA WaitingPassed ==
  ASSUME TypeOK, NEW k \in Key, NEW code \in Scancode, Send(k, code) \/ UNCHANGED <<queue, lost>>,
         UNCHANGED shift_pressed, \A shifted \in BOOLEAN : Typed(code, shifted) = None
  PROVE  Waiting' = Waiting
<1>1. queue' = queue \/ queue' = Append(queue, code)
  BY Zenon DEF Send
<1>2. CASE queue' = queue
  BY <1>2, WaitingStays, Zenon
<1>3. CASE queue' = Append(queue, code)
  <2>1. ShiftAt(Len(queue))' \in BOOLEAN
    BY DEF ShiftAt
  <2>2. None = Typed(code, ShiftAt(Len(queue))')
    BY <2>1, Zenon
  <2>3. Waiting' = IF None \in Visible THEN Append(Waiting, None) ELSE Waiting
    BY <1>3, <2>2, WaitingSent, Zenon
  <2>4. None \notin Visible
    BY Zenon DEF Visible
  <2> QED BY <2>3, <2>4, Zenon
<1> QED BY <1>1, <1>2, <1>3, Zenon

\* What a key stands for is what the driver will make of it, unless something spoils it.
LEMMA MeaningStrike ==
  ASSUME TypeOK, Len(queue) =< QueueSize, busy \in BOOLEAN, ShiftFollowsKeys, Meaning,
         NEW k \in Key, Strike(k)
  PROVE  Meaning'
<1> DEFINE char == Translate(make[k], ShiftHeld)
           spoilt == garbled \/ overlapped \/ lost \/ Len(queue) = QueueSize
<1>0. make[k] \in Make /\ (make[k] \in ShiftMake <=> k \in ShiftSource)
  BY KeyAssumption, Zenon
<1>1. make[k] \in Scancode /\ ~IsRelease(make[k])
  <2>1. \A code \in Make : code \in Scancode /\ ~IsRelease(code)
    BY DEF Make, Scancode, IsRelease, ReleaseBit
  <2> QED BY <1>0, <2>1, Zenon
<1>2. /\ UNCHANGED editor /\ UNCHANGED shift_pressed
      /\ IF SendsShift(k) THEN Send(k, make[k]) ELSE UNCHANGED <<queue, lost>>
      /\ Record(k)
  BY Zenon DEF Strike, Press
<1>3. \A shifted : Typed(make[k], shifted) = Translate(make[k], shifted)
  BY <1>1, Zenon DEF Typed
<1>4. CASE k \in ShiftSource \/ char = None
  <2>1. base_keymap[make[k]] = None /\ shifted_keymap[make[k]] = None
    <3>1. CASE k \in ShiftSource
      BY <1>0, <3>1, KeymapAssumption, Zenon
    <3>2. CASE char = None
      <4>1. base_keymap[make[k]] = None
        BY <3>2, Zenon DEF Translate
      <4> QED BY <1>0, <4>1, LegendAssumption, Zenon
    <3> QED BY <1>4, <3>1, <3>2
  <2>2. \A shifted \in BOOLEAN : Typed(make[k], shifted) = None
    BY <1>3, <2>1, Zenon DEF Translate
  <2>3. Waiting' = Waiting
    BY <1>1, <1>2, <2>2, WaitingPassed, Zenon
  <2>4. UNCHANGED ghosts
    BY <1>2, <1>4, Zenon DEF Record
  <2> QED BY <1>2, <2>3, <2>4, MeaningStays, Zenon
<1>5. CASE k \notin ShiftSource /\ char # None /\ spoilt
  <2>1. garbled' = TRUE /\ meant' = <<>> /\ taken' = 0
    BY <1>2, <1>5, Zenon DEF Record
  <2> QED BY <2>1, Zenon DEF Meaning
<1>6. CASE k \notin ShiftSource /\ char # None /\ ~spoilt
  <2>1. garbled' = FALSE /\ meant' = Append(meant, char) /\ taken' = taken
    <3>1. garbled' = spoilt /\ meant' = Append(meant, char) /\ taken' = taken
      BY <1>2, <1>6, Zenon DEF Record
    <3>2. spoilt = FALSE
      BY <1>6
    <3> QED BY <3>1, <3>2, Zenon
  <2>2. Len(queue) < QueueSize
    BY <1>6, QueueAssumption DEF TypeOK
  <2>3. SendsShift(k)
    BY <1>6, Zenon DEF SendsShift, ShiftSource
  <2>4. Send(k, make[k])
    BY <1>2, <2>3, Zenon
  <2>5. queue' = Append(queue, make[k])
    BY <2>2, <2>4, Zenon DEF Send
  <2>6. ShiftAt(Len(queue))' <=> ShiftAt(Len(queue))
    BY <1>2, <1>6, <2>4, SendShift, Zenon
  <2>7. ShiftAt(Len(queue))' <=> ShiftHeld
    BY <1>6, <2>6, Zenon DEF ShiftFollowsKeys, ShiftHeld
  <2>8. char = Typed(make[k], ShiftAt(Len(queue))')
    BY <1>3, <2>7, Zenon DEF Translate
  <2>9. char \in Visible
    <3>1. char = base_keymap[make[k]] \/ char = shifted_keymap[make[k]]
      BY Zenon DEF Translate
    <3>2. char \in Char
      BY <1>0, <3>1, Zenon DEF Char
    <3> QED BY <1>6, <3>2, Zenon DEF Visible
  <2>10. Waiting' = Append(Waiting, char)
    <3>1. Waiting' = IF char \in Visible THEN Append(Waiting, char) ELSE Waiting
      BY <1>1, <1>2, <2>5, <2>8, WaitingSent, Zenon
    <3> QED BY <2>9, <3>1, Zenon
  <2>11. Reading(meant, taken, busy, input, echo, Waiting)
    BY <1>6, Zenon DEF Meaning
  <2>12. PICK c \in Visible : c = char
    BY <2>9, Zenon
  <2>13. Reading(Append(meant, c), taken, busy, input, echo, Append(Waiting, c))
    BY <2>11, ReadingMore, Zenon
  <2>14. Reading(meant', taken', busy', input', echo', Waiting')
    BY <1>2, <2>1, <2>10, <2>12, <2>13, Zenon DEF editor
  <2> QED BY <2>1, <2>14, Zenon DEF Meaning
<1> QED BY <1>4, <1>5, <1>6, Zenon

\* To let a key go types nothing.
LEMMA MeaningLift ==
  ASSUME TypeOK, Meaning, NEW k \in Key, Lift(k)
  PROVE  Meaning'
<1>1. make[k] + ReleaseBit \in Scancode /\ IsRelease(make[k] + ReleaseBit)
  <2>1. make[k] \in Make
    BY KeyAssumption, Zenon
  <2> QED BY <2>1 DEF Make, Scancode, IsRelease, ReleaseBit
<1>2. \A shifted \in BOOLEAN : Typed(make[k] + ReleaseBit, shifted) = None
  BY <1>1, Zenon DEF Typed
<1>3. Waiting' = Waiting
  <2>1. (Send(k, make[k] + ReleaseBit) \/ UNCHANGED <<queue, lost>>) /\ UNCHANGED shift_pressed
    BY Zenon DEF Lift, Release
  <2> QED BY <1>1, <1>2, <2>1, WaitingPassed, Zenon
<1> QED BY <1>3, MeaningStays, Zenon DEF Lift

\* The shell reads the next of the characters that were struck.
LEMMA MeaningTurn ==
  ASSUME TypeOK, busy \in BOOLEAN, Meaning, Turn
  PROVE  Meaning'
<1>1. /\ busy = FALSE /\ Poll /\ UNCHANGED <<meant, garbled>>
      /\ IF got' = None THEN UNCHANGED <<editor, taken>>
         ELSE Edit(got') /\ taken' = IF garbled THEN 0 ELSE taken + 1
  BY Zenon DEF Turn
<1>2. /\ got' = None => Waiting' = Waiting
      /\ got' # None => got' \in Visible /\ Waiting # <<>> /\ Head(Waiting) = got' /\ Tail(Waiting) = Waiting'
  BY <1>1, WaitingPolled, Zenon
<1>3. CASE garbled
  <2>1. taken' = 0 /\ meant' = <<>> /\ garbled' = garbled
    BY <1>1, <1>3, Zenon DEF Meaning
  <2> QED BY <1>3, <2>1, Zenon DEF Meaning
<1>4. CASE got' = None
  BY <1>1, <1>2, <1>4, MeaningStays, Zenon DEF ghosts
<1>5. CASE ~garbled /\ got' # None
  <2>1. Reading(meant, taken, FALSE, input, echo, Waiting)
    BY <1>1, <1>5, Zenon DEF Meaning
  <2>2. taken' = taken + 1 /\ Edit(got')
    BY <1>1, <1>5, Zenon
  <2>3. Waiting # <<>> /\ Head(Waiting) = got' /\ Tail(Waiting) = Waiting'
    BY <1>2, <1>5, Zenon
  <2>4. CASE got' = Newline
    <3>1. busy' = TRUE /\ echo' = Append(echo, Newline) /\ input' = input
      BY <2>2, <2>4, Zenon DEF Edit
    <3>2. Reading(meant, taken + 1, TRUE, input, Append(echo, Newline), Tail(Waiting))
      BY <2>1, <2>3, <2>4, ReadingEnds, Zenon
    <3>3. Reading(meant', taken', busy', input', echo', Waiting')
      BY <1>1, <2>2, <2>3, <3>1, <3>2, Zenon
    <3> QED BY <1>1, <1>5, <3>3, Zenon DEF Meaning
  <2>5. CASE got' # Newline
    <3>1. /\ busy' = FALSE
          /\ IF Len(input) < LineMax THEN input' = Append(input, Head(Waiting)) /\ echo' = Append(echo, Head(Waiting))
                                     ELSE input' = input /\ echo' = echo
      BY <1>1, <2>2, <2>3, <2>5, Zenon DEF Edit, editor
    <3>2. PICK j, f : j = input' /\ f = echo'
      OBVIOUS
    <3>3. IF Len(input) < LineMax THEN j = Append(input, Head(Waiting)) /\ f = Append(echo, Head(Waiting))
                                  ELSE j = input /\ f = echo
      BY <3>1, <3>2, Zenon
    <3>4. Reading(meant, taken + 1, FALSE, j, f, Tail(Waiting))
      BY <2>1, <2>3, <2>5, <3>3, ReadingAdds, Zenon
    <3>5. Reading(meant', taken', busy', input', echo', Waiting')
      BY <1>1, <2>2, <2>3, <3>1, <3>2, <3>4, Zenon
    <3> QED BY <1>1, <1>5, <3>5, Zenon DEF Meaning
  <2> QED BY <2>4, <2>5
<1> QED BY <1>3, <1>4, <1>5, Zenon

\* The next line starts with what was struck while the command ran.
LEMMA MeaningFinish ==
  ASSUME TypeOK, Meaning, Finish
  PROVE  Meaning'
<1>1. /\ busy' = FALSE /\ input' = <<>> /\ echo' = <<>> /\ taken' = 0
      /\ meant' = SubSeq(meant, taken + 1, Len(meant))
      /\ garbled' = (garbled /\ (queue # <<>> \/ overlapped \/ lost))
      /\ UNCHANGED <<queue, shift_pressed>>
  BY Zenon DEF Finish, kvars, device
<1>2. garbled' \in BOOLEAN
  BY <1>1
<1>3. Waiting' = Waiting
  BY <1>1, WaitingStays, Zenon
<1>4. CASE ~garbled
  <2>1. Reading(meant, taken, busy, input, echo, Waiting)
    BY <1>4, Zenon DEF Meaning
  <2>2. Reading(SubSeq(meant, taken + 1, Len(meant)), 0, FALSE, <<>>, <<>>, Waiting)
    BY <2>1, ReadingAnew, Zenon
  <2>3. Reading(meant', taken', busy', input', echo', Waiting')
    BY <1>1, <1>3, <2>2, Zenon
  <2>4. ~garbled'
    BY <1>1, <1>4
  <2> QED BY <1>2, <2>3, <2>4, Zenon DEF Meaning
<1>5. CASE garbled
  <2>1. meant' = <<>>
    <3>1. meant = <<>> /\ taken = 0
      BY <1>5, Zenon DEF Meaning
    <3>2. SubSeq(<<>>, 0 + 1, Len(<<>>)) = <<>>
      <4>1. <<>> \in Seq({})
        OBVIOUS
      <4> QED BY <4>1, WholeOf
    <3> QED BY <1>1, <3>1, <3>2, Zenon
  <2>2. CASE garbled'
    BY <1>1, <1>2, <2>1, <2>2, Zenon DEF Meaning
  <2>3. CASE ~garbled'
    <3>1. queue = <<>>
      BY <1>1, <1>5, <2>3
    <3>2. Waiting' = <<>>
      BY <1>3, <3>1, WaitingNothing, Zenon
    <3>3. Reading(meant', taken', busy', input', echo', Waiting')
      BY <1>1, <2>1, <3>2, ReadingNothing, Zenon
    <3> QED BY <1>2, <2>3, <3>3, Zenon DEF Meaning
  <2> QED BY <2>2, <2>3
<1> QED BY <1>4, <1>5

\* The invariant says of the line what was meant.
LEMMA MeaningMeans == Meaning => LineIsMeant
<1> SUFFICES ASSUME Meaning, ~garbled PROVE LineIsMeant
  BY Zenon DEF LineIsMeant
<1>1. Reading(meant, taken, busy, input, echo, Waiting)
  BY Zenon DEF Meaning
<1>2. PICK l : l = LineLen(taken, busy)
  OBVIOUS
<1>3. /\ meant \in Seq(Visible) /\ taken \in 0 .. Len(meant) /\ (busy => taken # 0 /\ meant[taken] = Newline)
      /\ Readable(Pending) = SubSeq(meant, taken + 1, Len(meant))
      /\ \A k \in 1 .. l : meant[k] # Newline
      /\ input = SubSeq(meant, 1, KeptOf(l))
      /\ echo = IF busy THEN Append(input, Newline) ELSE input
  BY <1>1, <1>2, Zenon DEF Reading, Waiting
<1>4. PICK n \in Nat : n = taken
  BY <1>3
<1>5. l \in 0 .. n /\ KeptOf(l) \in 0 .. l
  <2>1. l = IF busy THEN n - 1 ELSE n
    BY <1>2, <1>4, Zenon DEF LineLen
  <2>2. l \in 0 .. n
    BY <1>3, <1>4, <2>1
  <2> QED BY <2>2, LineAssumption DEF KeptOf
<1>6. l \in 0 .. Len(meant)
  BY <1>3, <1>4, <1>5
<1>7. PICK m, line : m \in Seq(Visible) /\ m = meant /\ line = SubSeq(m, 1, l)
  BY <1>3
<1>8. IsFrontOf(Visible, m, l, line)
  BY <1>6, <1>7, FrontOf, Zenon
<1>9. Len(line) = l /\ DOMAIN line = 1 .. l /\ \A k \in 1 .. l : line[k] = m[k]
  BY <1>8 DEF IsFrontOf
<1>10. SubSeq(line, 1, KeptOf(l)) = SubSeq(m, 1, KeptOf(l))
  BY <1>5, <1>6, <1>7, FrontOfFront, Zenon
<1>11. line = SubSeq(meant, 1, IF busy THEN taken - 1 ELSE taken)
  BY <1>2, <1>7, Zenon DEF LineLen
<1>12. SubSeq(line, 1, IF Len(line) < LineMax THEN Len(line) ELSE LineMax) = input
  BY <1>3, <1>7, <1>9, <1>10, Zenon DEF KeptOf
<1>13. \A k \in DOMAIN line : line[k] # Newline
  BY <1>3, <1>7, <1>9, Zenon
<1> QED BY <1>3, <1>11, <1>12, <1>13, Zenon DEF LineIsMeant

\* What the shell works on is what the user had the keys say: the first LineMax characters
\* between two newlines, in the case that was held when each was struck, also if they were
\* typed while the last command ran (enzos_shell reads through keyboard_getchar only).
THEOREM LinesAreMeant == ConsoleSpec => []LineIsMeant
<1>1. ConsoleInit => Meaning
  <2> SUFFICES ASSUME ConsoleInit PROVE Meaning
    OBVIOUS
  <2>1. queue = <<>> /\ meant = <<>> /\ taken = 0 /\ busy = FALSE /\ input = <<>> /\ echo = <<>> /\ garbled = FALSE
    BY Zenon DEF ConsoleInit, Init
  <2>2. Waiting = <<>>
    BY <2>1, WaitingNothing, Zenon
  <2> QED BY <2>1, <2>2, ReadingNothing, Zenon DEF Meaning
<1>2. ConsoleTypeOK /\ ShiftFollowsKeys /\ Meaning /\ [ConsoleNext]_cvars => Meaning'
  <2> SUFFICES ASSUME ConsoleTypeOK, ShiftFollowsKeys, Meaning, [ConsoleNext]_cvars PROVE Meaning'
    OBVIOUS
  <2>0. TypeOK /\ Len(queue) =< QueueSize /\ busy \in BOOLEAN
    BY Zenon DEF ConsoleTypeOK
  <2>1. ASSUME NEW k \in Key, Strike(k) PROVE Meaning'
    BY <2>0, <2>1, MeaningStrike, Zenon
  <2>2. ASSUME NEW k \in Key, Lift(k) PROVE Meaning'
    BY <2>0, <2>2, MeaningLift, Zenon
  <2>3. CASE Turn
    BY <2>0, <2>3, MeaningTurn, Zenon
  <2>4. CASE Finish
    BY <2>0, <2>4, MeaningFinish, Zenon
  <2>5. CASE UNCHANGED cvars
    <3>1. UNCHANGED <<editor, ghosts>> /\ UNCHANGED <<queue, shift_pressed>>
      BY <2>5, Zenon DEF cvars, kvars, device
    <3> QED BY <3>1, WaitingStays, MeaningStays, Zenon
  <2> QED BY <2>1, <2>2, <2>3, <2>4, <2>5, Zenon DEF ConsoleNext
<1> QED BY <1>1, <1>2, ConsoleTypeCorrect, ConsoleIsKeyboard, ShiftAgrees, MeaningMeans, PTL DEF ConsoleSpec
=============================================================================
