------------------------------ MODULE Typing ------------------------------
(***************************************************************************)
(* What a keyboard promises to the program that polls it: a key stands for *)
(* the character it had when it was struck, whenever the program gets to   *)
(* ask for it, and characters come in the order in which they were struck. *)
(***************************************************************************)
EXTENDS Naturals, Sequences

CONSTANTS
  Legend,    \* for each key, the pair of what it types without and with shift
  None       \* what an event types that is no character

VARIABLES
  pending,   \* what the events that were not read yet stand for
  shift,     \* whether a key struck now is shifted
  got        \* what the program read last

tvars == <<pending, shift, got>>

TypingInit == pending = <<>> /\ shift = FALSE /\ got = None

Strike ==
  /\ \E key \in Legend : pending' = Append(pending, IF shift THEN key[2] ELSE key[1])
  /\ UNCHANGED <<shift, got>>

\* An event that types nothing may change shift.
Silent ==
  /\ shift' \in BOOLEAN
  /\ pending' = Append(pending, None)
  /\ UNCHANGED got

Take ==
  /\ pending # <<>>
  /\ got' = Head(pending)
  /\ pending' = Tail(pending)
  /\ UNCHANGED shift

TypingNext == Strike \/ Silent \/ Take

TypingSpec == TypingInit /\ [][TypingNext]_tvars
=============================================================================
