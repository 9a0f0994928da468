--------------------------- MODULE MCTestHarness ---------------------------
(***************************************************************************)
(* The first scenarios of the suite: the boot check, an echo whose text is *)
(* also in the line that is typed, and a command whose output is not.  The *)
(* commands are short and so are controller and line: one scenario's keys  *)
(* fill the controller while the line before is run, and what a lost       *)
(* return leaves makes the next line too long.                             *)
(***************************************************************************)
EXTENDS TestHarness

MCText == {"$", "Hello", "quoted Hello", "notes"}

MCScenarios ==
  << [chars |-> 0, echo |-> {}, prints |-> {}, expected |-> "$", unexpected |-> {},
      checks |-> FALSE, shot |-> TRUE],
     [chars |-> 1, echo |-> {"Hello", "quoted Hello"}, prints |-> {"Hello"}, expected |-> "Hello",
      unexpected |-> {"quoted Hello"}, checks |-> TRUE, shot |-> FALSE],
     [chars |-> 2, echo |-> {}, prints |-> {"notes"}, expected |-> "notes", unexpected |-> {},
      checks |-> FALSE, shot |-> FALSE] >>
=============================================================================
