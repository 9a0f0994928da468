----------------------------- MODULE Keyboard -----------------------------
(***************************************************************************)
(* The keyboard driver of EnzOS (os/src/drivers/keyboard.c) and the device *)
(* it polls.  Keys go down and up while the kernel does something else;    *)
(* the controller keeps the scancodes in a short queue, and the driver     *)
(* reconstructs from them, later, whether shift was down.                  *)
(*                                                                         *)
(* The prefix 0xE0 of an extended key has bit 7 set and is skipped like a  *)
(* release, so such a key is modelled by the scancode that follows.        *)
(***************************************************************************)
EXTENDS Naturals, Sequences

CONSTANTS
  Key,             \* keys that can be struck
  make,            \* the scancode a key sends when it goes down
  base_keymap,     \* what the driver makes of a scancode, without and with shift
  shifted_keymap,
  None,            \* entry of a keymap that types nothing
  ShiftKey,        \* the shift keys, and
  FakeShiftKey,    \* the keys that send the scancodes of one (print screen)
  QueueSize        \* scancodes the controller can hold

ReleaseBit == 128
Make == 0 .. ReleaseBit - 1
Scancode == 0 .. 2 * ReleaseBit - 1
LeftShift == 42    \* 0x2A
RightShift == 54   \* 0x36
ShiftMake == {LeftShift, RightShift}
ShiftSource == ShiftKey \cup FakeShiftKey

ASSUME KeyAssumption ==
  /\ make \in [Key -> Make]
  /\ ShiftSource \subseteq Key /\ ShiftKey \cap FakeShiftKey = {}
  /\ \A k \in Key : make[k] \in ShiftMake <=> k \in ShiftSource
ASSUME KeymapAssumption ==
  /\ DOMAIN base_keymap = Make /\ DOMAIN shifted_keymap = Make
  /\ \A s \in ShiftMake : base_keymap[s] = None /\ shifted_keymap[s] = None
ASSUME QueueAssumption == QueueSize \in Nat

VARIABLES
  held,           \* keys that are down
  queue,          \* scancodes that the controller has for the kernel
  shift_pressed,
  got,            \* what keyboard_getchar made of the last scancode
  overlapped,     \* history: two sources of shift codes were down together, since none was
  lost            \* history: the last shift code sent found the queue full

device == <<held, queue, overlapped, lost>>
kvars == <<device, shift_pressed, got>>

Init ==
  /\ held = {}
  /\ queue = <<>>
  /\ shift_pressed = FALSE
  /\ got = None
  /\ overlapped = FALSE
  /\ lost = FALSE

(***************************************************************************)
(* The device.                                                             *)
(***************************************************************************)
\* A full queue takes no more.
Send(k, code) ==
  LET room == Len(queue) < QueueSize IN
  /\ queue' = IF room THEN Append(queue, code) ELSE queue
  /\ lost' = IF k \in ShiftSource THEN ~room ELSE lost

\* Print screen sends a fake shift only if no shift key is down.
SendsShift(k) == k \in FakeShiftKey => held \cap ShiftKey = {}

Press(k) ==
  /\ k \notin held
  /\ held' = held \cup {k}
  /\ overlapped' = (overlapped \/ (k \in ShiftSource /\ held \cap ShiftSource # {}))
  /\ IF SendsShift(k) THEN Send(k, make[k]) ELSE UNCHANGED <<queue, lost>>
  /\ UNCHANGED <<shift_pressed, got>>

Release(k) ==
  /\ k \in held
  /\ held' = held \ {k}
  /\ overlapped' = (overlapped /\ held' \cap ShiftSource # {})
  /\ IF SendsShift(k) THEN Send(k, make[k] + ReleaseBit) ELSE UNCHANGED <<queue, lost>>
  /\ UNCHANGED <<shift_pressed, got>>

(***************************************************************************)
(* The driver.                                                             *)
(***************************************************************************)
IsRelease(code) == code >= ReleaseBit

ShiftAfterLeftOnly(code, before) ==  \* mutant: the release of the right shift is not known
  IF code \in ShiftMake THEN TRUE
  ELSE IF code = LeftShift + ReleaseBit THEN FALSE ELSE before

\* handle_modifier_keys: shift_pressed after a scancode.
ShiftAfter(code, before) ==
  IF code \in ShiftMake THEN TRUE
  ELSE IF IsRelease(code) /\ code - ReleaseBit \in ShiftMake THEN FALSE ELSE before

\* translate_scancode.  Every lower case letter has an entry in shifted_keymap, so
\* the conversion to upper case after the lookup never applies.
Translate(code, shifted) ==
  IF shifted /\ shifted_keymap[code] # None THEN shifted_keymap[code] ELSE base_keymap[code]

\* What a scancode types: releases nothing, modifiers nothing.
Typed(code, shifted) == IF IsRelease(code) THEN None ELSE Translate(code, shifted)

PollTranslateFirst ==  \* mutant: the scancode is translated before shift is updated
  /\ queue # <<>>
  /\ queue' = Tail(queue)
  /\ shift_pressed' = shift_pressed
  /\ got' = Typed(Head(queue), shift_pressed)
  /\ UNCHANGED <<held, overlapped, lost>>

\* One turn of the loop of keyboard_getchar, which returns if got is a character.
Poll ==
  /\ queue # <<>>
  /\ queue' = Tail(queue)
  /\ shift_pressed' = ShiftAfter(Head(queue), shift_pressed)
  /\ got' = Typed(Head(queue), shift_pressed')
  /\ UNCHANGED <<held, overlapped, lost>>

Next == (\E k \in Key : Press(k) \/ Release(k)) \/ Poll

Spec == Init /\ [][Next]_kvars

(***************************************************************************)
(* Properties.                                                             *)
(***************************************************************************)
ShiftCode == ShiftMake \cup {s + ReleaseBit : s \in ShiftMake}

TypeOK ==
  /\ held \subseteq Key
  /\ queue \in Seq(Scancode)
  /\ shift_pressed \in BOOLEAN
  /\ overlapped \in BOOLEAN
  /\ lost \in BOOLEAN

\* Whether the driver will take shift to be down once it has read the first i scancodes.
ShiftAt(i) ==
  \/ \E j \in 1 .. i : queue[j] \in ShiftMake /\ \A k \in j + 1 .. i : queue[k] \notin ShiftCode
  \/ shift_pressed /\ \A k \in 1 .. i : queue[k] \notin ShiftCode

\* What the scancodes in the queue will be taken for.
Pending == [i \in DOMAIN queue |-> Typed(queue[i], ShiftAt(i))]

Legends == {<<base_keymap[make[k]], Translate(make[k], TRUE)>> : k \in Key}

Abstract ==
  INSTANCE Typing WITH Legend <- Legends,
                       pending <- Pending, shift <- ShiftAt(Len(queue)), got <- got

\* A key types what it stood for when it was struck, however late the kernel polls and
\* whatever has happened to shift by then: shift is taken from the scancodes in their
\* order (keyboard_getchar handles modifiers before it translates).
ImplementsTyping == Abstract!TypingSpec

\* After all that was sent has been read, the driver takes shift to be down exactly if
\* one of its keys is: unless two of them were down together since none was, for
\* handle_modifier_keys clears shift on the first release of the two, or the
\* controller had no room for the last change.  Neither lasts: the first is over when
\* all are up, the second with the next press or release of one.
ShiftFollowsKeys ==
  ~overlapped /\ ~lost => (ShiftAt(Len(queue)) <=> held \cap ShiftSource # {})
=============================================================================
