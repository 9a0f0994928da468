---------------------------- MODULE MCConsole ----------------------------
(***************************************************************************)
(* Both shift keys, print screen, a letter and enter, with the scancodes   *)
(* that they have.                                                         *)
(***************************************************************************)
EXTENDS Console, Keymap

MCNewline == "\n"

MCShiftKey == {"left shift", "right shift"}
MCFakeShiftKey == {"print screen"}
MCKey == MCShiftKey \cup MCFakeShiftKey \cup {"A", "enter"}

MCMake ==
  [k \in MCKey |-> CASE k = "right shift" -> 54
                     [] k = "A" -> 30
                     [] k = "enter" -> 28
                     [] OTHER -> 42]
=============================================================================
