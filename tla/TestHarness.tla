---------------------------- MODULE TestHarness ----------------------------
(***************************************************************************)
(* The integration tests of EnzOS: TestShellScenarios                      *)
(* (tests/cmd/shell_scenarios_test.go) types commands into a virtual       *)
(* machine through the QEMU monitor and judges what it reads back from VGA *)
(* memory (tests/tools/shell.go, monitor.go).  The monitor answers the     *)
(* commands of its connection one after the other, and a read that is      *)
(* given up after 30 seconds leaves its answer in the stream.              *)
(* The guest is the console of module Console seen from outside, and by    *)
(* keys, not scancodes: while it edits a line it takes them from the       *)
(* keyboard controller and shows them, then it runs the line and prompts.  *)
(* The controller has room for a few keys; the codes of those that come    *)
(* while the guest does not take any are lost, with them the key itself or *)
(* the state of shift.                                                     *)
(***************************************************************************)
EXTENDS Naturals, SequencesExt

CONSTANTS
  Text,       \* what a test may look for on the screen
  PromptSign, \* "$"
  Scenarios,  \* the scenarios, in their order
  MaxLooks,   \* reads of WaitForPrompt before its deadline (10 s, every 500 ms)
  QueueSize,  \* keys that the controller has room for
  LineMax,    \* characters that input has room for
  None

(***************************************************************************)
(* A scenario types at most one line; all scenarios of the suite wait for  *)
(* a prompt first.                                                         *)
(***************************************************************************)
S == DOMAIN Scenarios
Key == {"char", "ret"}

Scenario ==
  [chars : Nat,               \* keys of Command, without the return; 0 for no Command
   echo : SUBSET Text,        \* what the line shows that is typed
   prints : SUBSET Text,      \* what the command prints
   expected : Text,
   unexpected : SUBSET Text,
   checks : BOOLEAN,          \* CheckPromptAfter
   shot : BOOLEAN]            \* Screenshot

ASSUME HarnessAssumption ==
  /\ PromptSign \in Text /\ MaxLooks \in Nat \ {0}
  /\ QueueSize \in Nat /\ LineMax \in Nat
  /\ Scenarios \in Seq(Scenario) \ {<<>>}

VARIABLES
  screen,     \* lines on it: what is typed, by which scenarios, and what is printed
  keys,       \* keys that the controller holds for the guest
  off,        \* a code of shift was lost: characters may come out wrong
  typed,      \* the line being edited, as the scenarios its characters come from, 0 for a
              \* character that none of them meant
  guest,      \* "booting", "editing", "running" or "printed"
  requests,   \* commands the monitor has not executed
  replies,    \* answers that were not read, complete or not
  awaiting,   \* Run is in readUntilPrompt
  stage, scenario, looks, todo,  \* where RunScenario is
  failed      \* a scenario failed, or the test did

\* History variables: commands and timeouts so far, keys that did not arrive as struck,
\* lines that the guest ran, the reply by which the scenario is judged, lines on the
\* screen since it was asked for.
VARIABLES sent, timeouts, spoilt, ran, judged, since

controller == <<keys, off, spoilt>>
guestVars == <<screen, controller, typed, guest, ran>>
progress == <<stage, scenario, looks, todo>>
test == <<requests, replies, awaiting, progress, failed, sent, timeouts, judged>>
hvars == <<guestVars, test, since>>

(***************************************************************************)
(* The screen.                                                             *)
(***************************************************************************)
TypedLine(by) == [kind |-> "typed", by |-> by]
PrintedLine(by) == [kind |-> "printed", by |-> by]

\* A line with characters of several scenarios, or of none, is not a command.
Says(l) ==
  IF l.kind = "typed" THEN {PromptSign} \cup UNION {Scenarios[s].echo : s \in S \cap ToSet(l.by)}
  ELSE UNION {Scenarios[s].prints : s \in {s \in S : ToSet(l.by) = {s}}}

Holds(lines, text) == \E l \in lines : text \in Says(l)

Init ==
  /\ screen = {} /\ keys = <<>> /\ off = FALSE /\ spoilt = 0 /\ typed = <<>> /\ guest = "booting" /\ ran = <<>>
  /\ requests = <<>> /\ replies = <<[id |-> 0, text |-> None]>>
  /\ awaiting = TRUE /\ stage = "connect" /\ scenario = 0 /\ looks = 0 /\ todo = <<>>
  /\ failed = FALSE /\ sent = 0 /\ timeouts = 0 /\ judged = None /\ since = {}

(***************************************************************************)
(* The guest.                                                              *)
(***************************************************************************)
Shown(lines) == screen' = lines /\ since' = since \cup lines

\* kernel_main up to the first prompt, and the prompt after a command.
Prompt ==
  /\ guest \in {"booting", "printed"}
  /\ guest' = "editing" /\ typed' = <<>> /\ Shown(screen \cup {TypedLine(<<>>)})
  /\ UNCHANGED <<controller, ran, test>>

\* The line with one more character, if there is room for it.
Stored(line, by) == IF Len(line) < LineMax THEN Append(line, by) ELSE line

\* What the driver makes of the codes: a return, with or without shift, or a character.
TakeKey ==
  /\ guest = "editing" /\ keys # <<>>
  /\ keys' = Tail(keys)
  /\ IF Head(keys).key = "ret"
     THEN guest' = "running" /\ UNCHANGED <<screen, since, typed>>
     ELSE /\ typed' = Stored(typed, Head(keys).by)
          /\ Shown((screen \ {TypedLine(typed)}) \cup {TypedLine(typed')})
          /\ UNCHANGED guest
  /\ UNCHANGED <<off, spoilt, ran, test>>

\* No key is taken meanwhile.  The output scrolls older lines away.
RunLine ==
  /\ guest = "running" /\ guest' = "printed"
  /\ ran' = Append(ran, typed)
  /\ \E left \in SUBSET screen : Shown(left \cup {PrintedLine(typed)})
  /\ UNCHANGED <<controller, typed, test>>

Guest == Prompt \/ TakeKey \/ RunLine

(***************************************************************************)
(* A key of the virtual keyboard goes down and up again, with shift if its *)
(* name says so.  Once the controller has no room for all codes that a key *)
(* may have, any of them may be lost: the character, with the whole key or *)
(* without; the shift before it, then another character arrives; or the    *)
(* release of shift, then that may happen to the keys that follow.         *)
(***************************************************************************)
Full == Len(keys) >= QueueSize
Crowded == Len(keys) + 1 >= QueueSize

Arrives(press) == ~Full /\ keys' = Append(keys, press) /\ UNCHANGED spoilt

IsLost == Crowded /\ spoilt' = spoilt + 1 /\ UNCHANGED keys

ComesOutWrong(press) ==
  /\ ~Full /\ (Crowded \/ off) /\ press.key = "char"
  /\ keys' = Append(keys, [key |-> "char", by |-> 0]) /\ spoilt' = spoilt + 1

Strike(press) ==
  /\ Arrives(press) \/ IsLost \/ ComesOutWrong(press)
  /\ off' \in IF Crowded \/ off THEN BOOLEAN ELSE {FALSE}

(***************************************************************************)
(* The monitor executes the next command and answers it.                   *)
(***************************************************************************)
Answer ==
  /\ requests # <<>> /\ requests' = Tail(requests)
  /\ LET request == Head(requests) IN
       /\ IF request.do = "sendkey" THEN Strike(request.key) ELSE UNCHANGED controller
       /\ replies' = Append(replies, [id |-> request.id, text |-> IF request.do = "xp" THEN screen ELSE None])
  /\ UNCHANGED <<screen, typed, guest, ran, awaiting, progress, failed, sent, timeouts, judged, since>>

(***************************************************************************)
(* Monitor.Run: a command is written, its answer is read up to the next    *)
(* "(qemu)".                                                               *)
(***************************************************************************)
Request ==
  CASE stage \in {"wait", "look", "check"} -> [do |-> "xp", key |-> None]
    [] stage = "type" -> [do |-> "sendkey", key |-> [key |-> Head(todo), by |-> scenario]]
    [] stage \in {"shot", "final"} -> [do |-> "screendump", key |-> None]

Send ==
  /\ ~awaiting /\ stage # "done"
  /\ requests' = Append(requests, [id |-> sent + 1, do |-> Request.do, key |-> Request.key])
  /\ sent' = sent + 1 /\ awaiting' = TRUE
  /\ IF stage = "look" THEN since' = screen /\ judged' = None ELSE UNCHANGED <<since, judged>>
  /\ UNCHANGED <<guestVars, replies, progress, failed, timeouts>>

KeysOfShort(s) ==  \* mutant: the last character is not sent
  [i \in 1 .. Scenarios[s].chars - 1 |-> "char"] \o <<"ret">>

\* CommandToKeys: the return at the end is always there.
KeysOf(s) ==
  IF Scenarios[s].chars = 0 THEN <<>> ELSE [i \in 1 .. Scenarios[s].chars |-> "char"] \o <<"ret">>

Stay == UNCHANGED <<scenario, looks, todo>>

\* The next scenario starts whether or not this one failed.
NextScenario ==
  /\ todo' = <<>>
  /\ IF scenario < Len(Scenarios)
     THEN scenario' = scenario + 1 /\ stage' = "wait" /\ looks' = MaxLooks
     ELSE stage' = "final" /\ UNCHANGED <<scenario, looks>>

Fail == failed' = TRUE /\ NextScenario
Pass == UNCHANGED failed /\ NextScenario

Go(where) == stage' = where /\ Stay /\ UNCHANGED failed

AfterCheck == IF Scenarios[scenario].shot THEN Go("shot") ELSE Pass

\* What Run returned to NewMonitor, WaitForPrompt, SendKeys, ReadVGAText or Screenshot.
\* A reply without a hex dump is an error of ExtractVGAText.
Connected == stage = "connect" /\ Pass

PromptSeen(text) ==
  /\ stage = "wait" /\ text # None /\ Holds(text, PromptSign)
  /\ todo' = KeysOf(scenario) /\ stage' = (IF todo' = <<>> THEN "look" ELSE "type")
  /\ UNCHANGED <<scenario, looks, failed>>

WaitGoesOn(text) ==  \* mutant: at the deadline the scenario starts
  /\ stage = "wait"
  /\ \/ text = None /\ Fail
     \/ /\ text # None /\ ~Holds(text, PromptSign)
        /\ IF looks > 1 THEN looks' = looks - 1 /\ UNCHANGED <<stage, scenario, todo, failed>>
           ELSE /\ todo' = KeysOf(scenario) /\ stage' = (IF todo' = <<>> THEN "look" ELSE "type")
                /\ UNCHANGED <<scenario, looks, failed>>

\* The deadline may pass at any of the reads.
Wait(text) ==
  /\ stage = "wait"
  /\ \/ text = None /\ Fail
     \/ /\ text # None /\ ~Holds(text, PromptSign)
        /\ \/ looks > 1 /\ looks' = looks - 1 /\ UNCHANGED <<stage, scenario, todo, failed>>
           \/ Fail

KeySent ==
  /\ stage = "type"
  /\ todo' = Tail(todo) /\ stage' = (IF todo' = <<>> THEN "look" ELSE "type")
  /\ UNCHANGED <<scenario, looks, failed>>

\* Expected is looked for in the whole text, also in what was typed; Unexpected only in
\* lines that do not hold the command.
Look(text) ==
  /\ stage = "look"
  /\ LET s == Scenarios[scenario]
         others == {l \in text : ~(l.kind = "typed" /\ scenario \in ToSet(l.by))}
     IN IF text = None \/ ~Holds(text, s.expected) \/ \E u \in s.unexpected : Holds(others, u)
        THEN Fail
        ELSE IF s.checks THEN Go("check") ELSE AfterCheck

Check(text) ==
  /\ stage = "check"
  /\ IF text # None /\ Holds(text, PromptSign) THEN AfterCheck ELSE Fail

\* The image cannot be written where the machine cannot, or the answer was to something
\* else: then ConvertPPMToPNG returns an error.
ShotTaken == stage = "shot" /\ (Pass \/ Fail)

Finished == stage = "final" /\ stage' = "done" /\ Stay /\ failed' \in {failed, TRUE}

ReceiveBannerLate ==  \* mutant: NewMonitor does not read the first prompt
  /\ awaiting /\ replies # <<>>
  /\ awaiting' = FALSE /\ replies' = IF stage = "connect" THEN replies ELSE Tail(replies)
  /\ LET text == Head(replies).text IN
       Connected \/ PromptSeen(text) \/ Wait(text) \/ KeySent \/ Look(text) \/ Check(text) \/ ShotTaken \/ Finished
  /\ judged' = IF stage = "look" THEN [asked |-> sent, late |-> timeouts, reply |-> Head(replies)] ELSE judged
  /\ UNCHANGED <<guestVars, requests, sent, timeouts, since>>

Receive ==
  /\ awaiting /\ replies # <<>>
  /\ awaiting' = FALSE /\ replies' = Tail(replies)
  /\ LET text == Head(replies).text IN
       Connected \/ PromptSeen(text) \/ Wait(text) \/ KeySent \/ Look(text) \/ Check(text) \/ ShotTaken \/ Finished
  /\ judged' = IF stage = "look" THEN [asked |-> sent, late |-> timeouts, reply |-> Head(replies)] ELSE judged
  /\ UNCHANGED <<guestVars, requests, sent, timeouts, since>>

TimeOutConnecting ==  \* mutant: the deadline is set for the first read only
  /\ awaiting /\ awaiting' = FALSE /\ timeouts' = timeouts + 1
  /\ stage = "connect" /\ stage' = "done" /\ failed' = TRUE /\ Stay
  /\ UNCHANGED <<guestVars, requests, replies, sent, judged, since>>

\* The deadline passes before all of the answer is there.  What was read of it is lost,
\* the rest is what the next Run reads.
TimeOut ==
  /\ awaiting /\ awaiting' = FALSE /\ timeouts' = timeouts + 1
  /\ \/ UNCHANGED replies
     \/ /\ replies # <<>> /\ replies[1].text # None
        /\ \E rest \in {None} \cup SUBSET replies[1].text : replies' = [replies EXCEPT ![1].text = rest]
  /\ IF stage \in {"connect", "final"} THEN stage' = "done" /\ failed' = TRUE /\ Stay ELSE Fail
  /\ UNCHANGED <<guestVars, requests, sent, judged, since>>

Harness == Send \/ Receive \/ TimeOut
Done == stage = "done" /\ UNCHANGED hvars
Next == Guest \/ Answer \/ Harness \/ Done

\* The test goes on and its clock runs; nothing is assumed of the virtual machine.
Spec == Init /\ [][Next]_hvars /\ WF_hvars(Harness)

(***************************************************************************)
(* Properties.                                                             *)
(***************************************************************************)
\* No key is sent to a machine whose shell has not printed its first prompt, where the
\* boot loader would take it, also not by scenarios that start after others failed or on
\* an answer that was meant for an earlier request (tests/tools/shell.go:27).
BootedBeforeTyping ==
  guest = "booting" => keys = <<>> /\ \A i \in DOMAIN requests : requests[i].do # "sendkey"

\* A scenario is judged by the answer to the request that lies as many requests back as
\* reads were given up, and by what was on the screen after its last key was accepted as
\* long as none was: an answer is neither skipped nor read twice.
JudgedInTime ==
  judged # None =>
    /\ judged.reply.id + judged.late = judged.asked
    /\ judged.late = 0 => judged.reply.text \subseteq since

\* What is left of a command on the line.
Command(s) == [k \in 1 .. (IF Scenarios[s].chars < LineMax THEN Scenarios[s].chars ELSE LineMax) |-> s]

\* A line that the guest runs holds the keys of one scenario, all of them that a line has
\* room for, but for one such line per read that was given up, since a scenario that fails
\* leaves what it has typed for the next one to complete, and one per key that found the
\* controller full or shift lost: a return that is lost spoils no more than the line it
\* was to end, and a character no line but its own (tests/tools/shell.go:41 lets a scenario
\* type while the last command runs).
LinesAreCommands ==
  Cardinality({i \in DOMAIN ran : ~\E s \in S : Scenarios[s].chars # 0 /\ ran[i] = Command(s)})
    =< timeouts + spoilt

\* The test ends, whatever the monitor and the guest do or fail to do.
SessionEnds == <>(stage = "done")
=============================================================================
