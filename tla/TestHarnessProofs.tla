------------------------- MODULE TestHarnessProofs -------------------------
(***************************************************************************)
(* Proofs about the integration tests, for every suite of scenarios and    *)
(* every number of reads: nothing is typed at a machine that is booting,   *)
(* a scenario is judged by its own answer, and the guest runs whole        *)
(* commands, as long as no read was given up or but for one each time; and *)
(* that the scripts give the tests one machine, and a fresh one.           *)
(***************************************************************************)
EXTENDS TestHarness, TestScripts, Induction

-----------------------------------------------------------------------------
(***************************************************************************)
(* Types.                                                                  *)
(***************************************************************************)
\* The states of RunScenario.
Stage == {"connect", "wait", "type", "look", "check", "shot", "final", "done"}

\* Where RunScenario is, and what it still has to type.
Progress ==
  /\ stage \in Stage /\ todo \in Seq(Key)
  /\ scenario \in Nat /\ (stage \notin {"connect", "done"} => scenario \in S)
  /\ stage = "connect" => scenario = 0
  /\ stage = "type" => todo # <<>>

\* The scenarios are numbered from 1, and there is at least one.
LEMMA Sizes == Len(Scenarios) \in Nat \ {0} /\ S = 1 .. Len(Scenarios) /\ \A s \in S : Scenarios[s] \in Scenario
<1>1. Scenarios \in Seq(Scenario) /\ Scenarios # <<>>
  BY HarnessAssumption
<1> QED BY <1>1 DEF S

\* What CommandToKeys makes of a command is keys.
LEMMA KeysOfType == ASSUME NEW s \in S PROVE KeysOf(s) \in Seq(Key)
<1>1. PICK n \in Nat : n = Scenarios[s].chars
  <2>1. Scenarios[s] \in Scenario
    BY Sizes
  <2> QED BY <2>1 DEF Scenario
<1>2. PICK chars \in Seq(Key) : chars = [i \in 1 .. n |-> "char"]
  <2>1. [i \in 1 .. n |-> "char"] \in [1 .. n -> Key]
    BY DEF Key
  <2>2. [i \in 1 .. n |-> "char"] \in Seq(Key)
    BY <2>1
  <2> QED BY <2>2
<1>3. <<"ret">> \in Seq(Key) /\ chars \o <<"ret">> \in Seq(Key)
  BY DEF Key
<1> QED BY <1>1, <1>2, <1>3 DEF KeysOf

\* The next scenario waits for its prompt; after the last the test ends.
LEMMA NextScenarioProgress ==
  ASSUME Progress, NextScenario, stage \notin {"done"}
  PROVE  Progress' /\ stage' \in {"wait", "final"}
<1>1. todo' = <<>> /\ <<>> \in Seq(Key)
  BY DEF NextScenario
<1>2. CASE scenario < Len(Scenarios)
  <2>1. scenario' = scenario + 1 /\ stage' = "wait"
    BY <1>2 DEF NextScenario
  <2>2. scenario + 1 \in 1 .. Len(Scenarios) /\ scenario + 1 \in Nat
    BY <1>2, Sizes DEF Progress
  <2> QED BY <1>1, <2>1, <2>2, Sizes DEF Progress, Stage
<1>3. CASE ~(scenario < Len(Scenarios))
  <2>1. scenario' = scenario /\ stage' = "final"
    BY <1>3 DEF NextScenario
  <2>2. stage # "connect"
    <3>1. ~(0 >= Len(Scenarios))
      BY Sizes
    <3> QED BY <1>3, <3>1, Sizes DEF Progress
  <2> QED BY <1>1, <2>1, <2>2 DEF Progress, Stage
<1> QED BY <1>2, <1>3

\* What a step of the test does with what Run returned to it.
Handle(text) ==
  Connected \/ PromptSeen(text) \/ Wait(text) \/ KeySent \/ Look(text) \/ Check(text) \/ ShotTaken \/ Finished

\* Whatever Run returned, the test is in one of its states afterwards, and connected.
LEMMA HandleProgress ==
  ASSUME Progress, NEW text, Handle(text)
  PROVE  Progress' /\ stage' # "connect"
<1>0. stage # "done"
  BY DEF Handle, Connected, PromptSeen, Wait, KeySent, Look, Check, ShotTaken, Finished
<1>1. CASE NextScenario
  BY <1>0, <1>1, NextScenarioProgress
<1>2. CASE stage = "wait" /\ todo' = KeysOf(scenario) /\ stage' = (IF todo' = <<>> THEN "look" ELSE "type") /\ UNCHANGED scenario
  <2>1. todo' \in Seq(Key)
    BY <1>2, KeysOfType DEF Progress
  <2> QED BY <1>2, <2>1 DEF Progress, Stage
<1>3. CASE stage = "wait" /\ UNCHANGED <<stage, scenario, todo>>
  BY <1>3 DEF Progress
<1>4. CASE stage = "type" /\ todo' = Tail(todo) /\ stage' = (IF todo' = <<>> THEN "look" ELSE "type") /\ UNCHANGED scenario
  <2>1. todo' \in Seq(Key)
    BY <1>4 DEF Progress
  <2> QED BY <1>4, <2>1 DEF Progress, Stage
<1>5. CASE stage \in {"look", "check"} /\ stage' \in {"check", "shot"} /\ UNCHANGED <<scenario, todo>>
  BY <1>5 DEF Progress, Stage
<1>6. CASE stage = "final" /\ stage' = "done" /\ UNCHANGED <<scenario, todo>>
  BY <1>6 DEF Progress, Stage
<1>7. Connected \/ Look(text) \/ Check(text) \/ ShotTaken =>
        NextScenario \/ (stage \in {"look", "check"} /\ stage' \in {"check", "shot"} /\ UNCHANGED <<scenario, todo>>)
  BY DEF Connected, Look, Check, ShotTaken, Pass, Fail, Go, Stay, AfterCheck
<1>8. Wait(text) => NextScenario \/ (stage = "wait" /\ UNCHANGED <<stage, scenario, todo>>)
  BY DEF Wait, Fail
<1>9. /\ PromptSeen(text) => stage = "wait" /\ todo' = KeysOf(scenario)
                             /\ stage' = (IF todo' = <<>> THEN "look" ELSE "type") /\ UNCHANGED scenario
      /\ KeySent => stage = "type" /\ todo' = Tail(todo)
                    /\ stage' = (IF todo' = <<>> THEN "look" ELSE "type") /\ UNCHANGED scenario
      /\ Finished => stage = "final" /\ stage' = "done" /\ UNCHANGED <<scenario, todo>>
  BY DEF PromptSeen, KeySent, Finished, Go, Stay
<1> QED BY <1>1, <1>2, <1>3, <1>4, <1>5, <1>6, <1>7, <1>8, <1>9 DEF Handle

\* Whom a character comes from, what the screen shows, a key on its way, a command and an
\* answer of the monitor.
Source == S \cup {0}
ScreenLine == [kind : {"typed", "printed"}, by : Seq(Source)]
Press == [key : Key, by : Source]
Asked == [id : Int, do : {"xp", "sendkey", "screendump"}, key : Press \cup {None}]
Answered == [id : Int, text : {None} \cup SUBSET ScreenLine]

\* The streams between the test, the monitor and the guest.
Streams ==
  /\ screen \in SUBSET ScreenLine /\ keys \in Seq(Press) /\ typed \in Seq(Source) /\ spoilt \in Nat
  /\ requests \in Seq(Asked) /\ replies \in Seq(Answered)
  /\ \A i \in DOMAIN requests : requests[i].do = "sendkey" => requests[i].key \in Press

\* The test waits for the banner when it connects, and for nothing at the end.
Types == Progress /\ Streams /\ (stage = "connect" => awaiting) /\ (stage = "done" => ~awaiting)

\* A line with one more character is a line.
LEMMA StoredType ==
  ASSUME NEW l \in Seq(Source), NEW s \in Source
  PROVE  Stored(l, s) \in Seq(Source)
BY DEF Stored

\* Each actor keeps the types.
LEMMA GuestTypes == ASSUME Types, Guest PROVE Types'
<1>1. Progress' /\ UNCHANGED <<requests, replies, stage, awaiting, spoilt>>
  BY DEF Types, Progress, Guest, Prompt, TakeKey, RunLine, test, progress, controller
<1>2. CASE Prompt
  <2>1. <<>> \in Seq(Source) /\ TypedLine(<<>>) \in ScreenLine
    BY DEF TypedLine, ScreenLine
  <2>2. keys' = keys /\ typed' = <<>>
    BY <1>2 DEF Prompt, controller
  <2> QED BY <1>1, <1>2, <2>1, <2>2 DEF Types, Streams, Prompt, Shown
<1>3. CASE TakeKey
  <2>1. Head(keys) \in Press /\ Tail(keys) \in Seq(Press) /\ keys # <<>>
    BY <1>3 DEF Types, Streams, TakeKey
  <2>2. typed' \in Seq(Source)
    <3>1. PICK s \in Source : s = Head(keys).by
      BY <2>1 DEF Press
    <3>2. typed \in Seq(Source)
      BY DEF Types, Streams
    <3>3. Stored(typed, s) \in Seq(Source)
      BY <3>2, StoredType
    <3> QED BY <1>3, <3>1, <3>2, <3>3 DEF TakeKey
  <2>3. TypedLine(typed') \in ScreenLine
    BY <2>2 DEF TypedLine, ScreenLine
  <2>4. screen' \in SUBSET ScreenLine
    BY <1>3, <2>3 DEF Types, Streams, TakeKey, Shown
  <2> QED BY <1>1, <1>3, <2>1, <2>2, <2>4 DEF Types, Streams, TakeKey
<1>4. CASE RunLine
  <2>1. PrintedLine(typed) \in ScreenLine
    BY DEF Types, Streams, PrintedLine, ScreenLine
  <2>2. screen' \in SUBSET ScreenLine
    BY <1>4, <2>1 DEF Types, Streams, RunLine, Shown
  <2> QED BY <1>1, <1>4, <2>2 DEF Types, Streams, RunLine, controller
<1> QED BY <1>2, <1>3, <1>4 DEF Guest

\* What becomes of a key: it arrives as it was struck, or it counts as spoilt and is lost
\* or another character.
Struck(press) == keys' = Append(keys, press) /\ UNCHANGED spoilt
Spoilt(press) ==
  /\ spoilt' = spoilt + 1
  /\ \/ UNCHANGED keys
     \/ press.key = "char" /\ \E wrong \in Press : wrong.key = "char" /\ keys' = Append(keys, wrong)

LEMMA StrikeKinds == ASSUME NEW press \in Press, Strike(press) PROVE Struck(press) \/ Spoilt(press)
<1>1. PICK wrong \in Press : wrong = [key |-> "char", by |-> 0]
  <2>1. [key |-> "char", by |-> 0] \in Press
    BY DEF Press, Source, Key
  <2> QED BY <2>1
<1>2. wrong.key = "char"
  BY <1>1
<1> QED BY <1>1, <1>2 DEF Strike, Arrives, IsLost, ComesOutWrong, Struck, Spoilt

LEMMA StrikeTypes ==
  ASSUME NEW press \in Press, Strike(press), keys \in Seq(Press), spoilt \in Nat
  PROVE  keys' \in Seq(Press) /\ spoilt' \in Nat
<1>1. CASE Struck(press)
  BY <1>1 DEF Struck
<1>2. CASE Spoilt(press)
  BY <1>2 DEF Spoilt
<1> QED BY <1>1, <1>2, StrikeKinds

LEMMA AnswerTypes == ASSUME Types, Answer PROVE Types'
<1>1. Progress' /\ UNCHANGED <<screen, typed, stage, awaiting>>
  BY DEF Types, Progress, Answer, progress
<1>2. PICK n \in Nat : Len(requests) = n + 1 /\ requests \in Seq(Asked) /\ requests # <<>>
  <2>1. Len(requests) \in Nat \ {0} /\ requests \in Seq(Asked) /\ requests # <<>>
    BY DEF Types, Streams, Answer
  <2>2. Len(requests) - 1 \in Nat /\ Len(requests) = (Len(requests) - 1) + 1
    BY <2>1
  <2> QED BY <2>1, <2>2
<1>3. /\ Head(requests) \in Asked /\ (Head(requests).do = "sendkey" => Head(requests).key \in Press)
      /\ Head(requests).id \in Int
  <2>1. Head(requests) = requests[1] /\ 1 \in DOMAIN requests
    BY <1>2
  <2>2. Head(requests) \in Asked
    BY <1>2
  <2> QED BY <2>1, <2>2 DEF Types, Streams, Asked
<1>4. /\ requests' \in Seq(Asked) /\ DOMAIN requests' = 1 .. n
      /\ \A i \in 1 .. n : requests'[i] = requests[i + 1] /\ i + 1 \in DOMAIN requests
  <2>1. requests' = Tail(requests)
    BY DEF Answer
  <2> QED BY <1>2, <2>1
<1>5. \A i \in DOMAIN requests' : requests'[i].do = "sendkey" => requests'[i].key \in Press
  BY <1>4 DEF Types, Streams
<1>6. keys' \in Seq(Press) /\ spoilt' \in Nat
  <2>1. keys \in Seq(Press) /\ spoilt \in Nat
    BY DEF Types, Streams
  <2>2. CASE Head(requests).do = "sendkey"
    <3>1. Strike(Head(requests).key)
      BY <2>2 DEF Answer
    <3> QED BY <1>3, <2>1, <2>2, <3>1, StrikeTypes
  <2>3. CASE Head(requests).do # "sendkey"
    BY <2>1, <2>3 DEF Answer, controller
  <2> QED BY <2>2, <2>3
<1>7. replies' \in Seq(Answered)
  <2>1. [id |-> Head(requests).id, text |-> IF Head(requests).do = "xp" THEN screen ELSE None] \in Answered
    BY <1>3 DEF Types, Streams, Answered
  <2>2. PICK r \in Answered : replies' = Append(replies, r)
    BY <2>1 DEF Answer
  <2> QED BY <2>2 DEF Types, Streams
<1> QED BY <1>1, <1>4, <1>5, <1>6, <1>7 DEF Types, Streams

\* A command has the next number, and is a key exactly while the test is typing.
LEMMA SendTypes ==
  ASSUME Types, sent \in Nat, Send
  PROVE  /\ Types'
         /\ \E r \in Asked : /\ requests' = Append(requests, r) /\ r.id = sent + 1
                             /\ (r.do = "sendkey" => stage = "type") /\ (stage = "look" => r.do = "xp")
<1>1. Progress' /\ UNCHANGED <<screen, keys, spoilt, typed, replies>> /\ awaiting' /\ stage' = stage /\ stage \notin {"connect", "done"}
  BY DEF Types, Progress, Send, progress, guestVars, controller
<1>2. Request.do \in {"xp", "sendkey", "screendump"} /\ Request.key \in Press \cup {None}
      /\ (Request.do = "sendkey" <=> stage = "type") /\ (Request.do = "sendkey" => Request.key \in Press)
      /\ (stage = "look" => Request.do = "xp")
  <2>1. CASE stage \in {"wait", "look", "check"}
    BY <2>1 DEF Request
  <2>2. CASE stage = "type"
    <3>1. Head(todo) \in Key /\ scenario \in Source
      BY <2>2 DEF Types, Progress, Source
    <3>2. [key |-> Head(todo), by |-> scenario] \in Press
      BY <3>1 DEF Press
    <3>3. Request = [do |-> "sendkey", key |-> [key |-> Head(todo), by |-> scenario]]
      BY <2>2 DEF Request
    <3> QED BY <2>2, <3>2, <3>3
  <2>3. CASE stage \in {"shot", "final"}
    BY <2>3 DEF Request
  <2> QED BY <1>1, <2>1, <2>2, <2>3 DEF Types, Progress, Stage, Send
<1>3. PICK r \in Asked : r = [id |-> sent + 1, do |-> Request.do, key |-> Request.key]
  <2>1. [id |-> sent + 1, do |-> Request.do, key |-> Request.key] \in Asked
    BY <1>2 DEF Asked
  <2> QED BY <2>1
<1>4. r.id = sent + 1 /\ r.do = Request.do /\ r.key = Request.key
  BY <1>3
<1>5. requests' = Append(requests, r)
  BY <1>3 DEF Send
<1>6. /\ requests' \in Seq(Asked)
      /\ \A i \in DOMAIN requests' : requests'[i].do = "sendkey" => requests'[i].key \in Press
  <2>1. PICK m \in Nat : m = Len(requests) /\ DOMAIN requests = 1 .. m /\ requests \in Seq(Asked)
    <3>1. requests \in Seq(Asked)
      BY DEF Types, Streams
    <3> QED BY <3>1
  <2>2. /\ requests' \in Seq(Asked) /\ DOMAIN requests' = 1 .. m + 1 /\ requests'[m + 1] = r
        /\ \A i \in 1 .. m : requests'[i] = requests[i]
    BY <1>5, <2>1
  <2>3. \A i \in 1 .. m + 1 : i \in 1 .. m \/ i = m + 1
    BY <2>1
  <2>4. \A i \in 1 .. m : requests[i].do = "sendkey" => requests[i].key \in Press
    BY <2>1 DEF Types, Streams
  <2>5. r.do = "sendkey" => r.key \in Press
    BY <1>2, <1>4
  <2> QED BY <2>2, <2>3, <2>4, <2>5
<1>7. Types'
  BY <1>1, <1>6 DEF Types, Streams
<1> QED BY <1>2, <1>4, <1>5, <1>7

LEMMA ReceiveTypes == ASSUME Types, Receive PROVE Types'
<1>1. Handle(Head(replies).text) /\ UNCHANGED <<screen, keys, spoilt, typed, requests>> /\ replies # <<>> /\ replies' = Tail(replies)
  BY DEF Receive, guestVars, controller, Handle
<1>2. Progress' /\ stage' # "connect" /\ ~awaiting'
  BY <1>1, HandleProgress DEF Types, Receive
<1>3. replies' \in Seq(Answered)
  BY <1>1 DEF Types, Streams
<1> QED BY <1>1, <1>2, <1>3 DEF Types, Streams

\* A read that is given up leaves of the first answer no more than a part.
LEMMA TimeOutTypes ==
  ASSUME Types, TimeOut
  PROVE  /\ Types' /\ Len(replies') = Len(replies)
         /\ \A i \in DOMAIN replies : replies'[i].id = replies[i].id
         /\ \A i \in DOMAIN replies :
              replies'[i] = replies[i] \/ replies'[i].text = None
              \/ (replies[i].text # None /\ replies'[i].text \subseteq replies[i].text)
<1>1. UNCHANGED <<screen, keys, spoilt, typed, requests>>
  BY DEF TimeOut, guestVars, controller
<1>2. Progress' /\ stage' # "connect" /\ ~awaiting'
  <2>1. CASE stage \in {"connect", "final"}
    <3>1. stage' = "done" /\ Stay
      BY <2>1 DEF TimeOut
    <3> QED BY <2>1, <3>1 DEF Types, Progress, Stage, Stay, TimeOut
  <2>2. CASE stage \notin {"connect", "final"}
    <3>1. NextScenario /\ stage # "done" /\ ~awaiting'
      BY <2>2 DEF TimeOut, Fail, Types
    <3> QED BY <3>1, NextScenarioProgress DEF Types
  <2> QED BY <2>1, <2>2
<1>3. PICK n \in Nat : n = Len(replies) /\ DOMAIN replies = 1 .. n /\ replies \in [1 .. n -> Answered]
  <2>1. replies \in Seq(Answered)
    BY DEF Types, Streams
  <2> QED BY <2>1
<1>4. CASE replies' = replies
  BY <1>1, <1>2, <1>4 DEF Types, Streams
<1>5. CASE /\ replies # <<>> /\ replies[1].text # None
           /\ \E rest \in {None} \cup SUBSET replies[1].text : replies' = [replies EXCEPT ![1].text = rest]
  <2>1. PICK rest \in {None} \cup SUBSET replies[1].text :
           replies' = [replies EXCEPT ![1] = [replies[1] EXCEPT !.text = rest]]
    BY <1>5
  <2>2. 1 \in 1 .. n
    <3>1. n # 0
      BY <1>3, <1>5, EmptySeq DEF Types, Streams
    <3> QED BY <3>1
  <2>3. replies[1] \in Answered
    BY <1>3, <2>2
  <2>4. replies[1].text \in SUBSET ScreenLine
    BY <1>5, <2>3 DEF Answered
  <2>5. PICK r \in Answered : r = [replies[1] EXCEPT !.text = rest] /\ r.id = replies[1].id /\ r.text = rest
    <3>1. rest \in {None} \cup SUBSET ScreenLine
      BY <2>4
    <3>2. [replies[1] EXCEPT !.text = rest] \in Answered
      BY <2>3, <3>1 DEF Answered
    <3>3. [replies[1] EXCEPT !.text = rest].id = replies[1].id /\ [replies[1] EXCEPT !.text = rest].text = rest
      BY <2>3 DEF Answered
    <3> QED BY <3>2, <3>3
  <2>6. replies' = [replies EXCEPT ![1] = r]
    BY <2>1, <2>5
  <2>7. replies' \in [1 .. n -> Answered] /\ replies'[1] = r /\ \A i \in 1 .. n : i # 1 => replies'[i] = replies[i]
    BY <1>3, <2>2, <2>6
  <2>8. replies' \in Seq(Answered) /\ Len(replies') = n
    BY <2>7
  <2>9. \A i \in 1 .. n : replies'[i].id = replies[i].id
    BY <2>5, <2>7
  <2>10. replies'[1].text = None \/ (replies[1].text # None /\ replies'[1].text \subseteq replies[1].text)
    BY <1>5, <2>5, <2>7
  <2> QED BY <1>1, <1>2, <1>3, <2>7, <2>8, <2>9, <2>10 DEF Types, Streams
<1> QED BY <1>4, <1>5 DEF TimeOut

-----------------------------------------------------------------------------
(***************************************************************************)
(* Answers and requests.                                                   *)
(***************************************************************************)
\* The monitor answers in order: the requests and the answers on their way are the last
\* ones, one for each read that was given up, and one more while a read is going on.
InOrder ==
  /\ sent \in Nat /\ timeouts \in Nat /\ awaiting \in BOOLEAN
  /\ Len(replies) + Len(requests) = timeouts + IF awaiting THEN 1 ELSE 0
  /\ \A i \in DOMAIN replies : replies[i].id = sent - Len(requests) - Len(replies) + i
  /\ \A i \in DOMAIN requests : requests[i].id = sent - Len(requests) + i

\* As long as no read was given up, the answer that is waited for at the end of a
\* scenario shows no more than what has been on the screen since it was asked for.
Timely ==
  /\ screen \subseteq since
  /\ awaiting /\ stage = "look" /\ timeouts = 0 =>
       /\ \A i \in DOMAIN requests : requests[i].do = "xp"
       /\ \A i \in DOMAIN replies : replies[i].text \subseteq since

\* Nothing that a machine that is booting says lets the test type.
Booting ==
  guest = "booting" =>
    /\ screen = {} /\ keys = <<>> /\ stage \in {"connect", "wait", "final", "done"}
    /\ \A i \in DOMAIN requests : requests[i].do # "sendkey"
    /\ \A i \in DOMAIN replies : replies[i].text \in {None, {}}

\* The inductive invariant.
Judging == Types /\ InOrder /\ Timely /\ Booting /\ JudgedInTime

\* The guest answers nothing, and what it shows is seen since.
LEMMA GuestJudging == ASSUME Judging, Guest PROVE Judging'
<1>1. UNCHANGED <<requests, replies, awaiting, stage, sent, timeouts, judged>>
  BY DEF Guest, Prompt, TakeKey, RunLine, test, progress
<1>2. Types'
  BY GuestTypes DEF Judging
<1>3. since \subseteq since' /\ screen' \subseteq since' /\ guest' # "booting"
  BY DEF Guest, Prompt, TakeKey, RunLine, Shown, Judging, Timely
<1>4. InOrder' /\ Timely' /\ Booting'
  BY <1>1, <1>3 DEF Judging, InOrder, Timely, Booting
<1>5. JudgedInTime'
  BY <1>1, <1>3 DEF Judging, JudgedInTime
<1> QED BY <1>2, <1>4, <1>5 DEF Judging

\* An answer carries the number of its command, and what the screen shows now.
LEMMA AnswerJudging == ASSUME Judging, Answer PROVE Judging'
<1>1. /\ UNCHANGED <<screen, guest, awaiting, stage, sent, timeouts, judged, since>>
      /\ requests # <<>> /\ requests' = Tail(requests)
  BY DEF Answer, progress
<1>2. Types'
  BY AnswerTypes DEF Judging
<1>3. PICK m \in Nat, n \in Nat :
         /\ Len(requests) = m + 1 /\ DOMAIN requests = 1 .. m + 1
         /\ Len(replies) = n /\ DOMAIN replies = 1 .. n
         /\ requests \in Seq(Asked) /\ replies \in Seq(Answered)
  <2>1. requests \in Seq(Asked) /\ replies \in Seq(Answered) /\ requests # <<>>
    BY <1>1 DEF Judging, Types, Streams
  <2>2. Len(requests) - 1 \in Nat /\ Len(requests) = (Len(requests) - 1) + 1 /\ Len(replies) \in Nat
    BY <2>1
  <2>3. DOMAIN requests = 1 .. Len(requests) /\ DOMAIN replies = 1 .. Len(replies)
    BY <2>1
  <2> QED BY <2>1, <2>2, <2>3
<1>4. /\ Len(requests') = m /\ DOMAIN requests' = 1 .. m
      /\ \A i \in 1 .. m : requests'[i] = requests[i + 1] /\ i + 1 \in 1 .. m + 1
      /\ Head(requests) = requests[1] /\ 1 \in 1 .. m + 1
  BY <1>1, <1>3
<1>5. PICK r \in Answered :
         /\ r.id = requests[1].id /\ r.text = IF requests[1].do = "xp" THEN screen ELSE None
         /\ replies' = Append(replies, r)
  <2>1. requests[1] \in Asked
    BY <1>3, <1>4
  <2>2. requests[1].id \in Int
    BY <2>1 DEF Asked
  <2>3. [id |-> requests[1].id, text |-> IF requests[1].do = "xp" THEN screen ELSE None] \in Answered
    BY <2>2 DEF Judging, Types, Streams, Answered
  <2>4. replies' = Append(replies, [id |-> requests[1].id, text |-> IF requests[1].do = "xp" THEN screen ELSE None])
    BY <1>4 DEF Answer
  <2> QED BY <2>3, <2>4
<1>6. /\ Len(replies') = n + 1 /\ DOMAIN replies' = 1 .. n + 1 /\ replies'[n + 1] = r
      /\ \A i \in 1 .. n : replies'[i] = replies[i]
  BY <1>3, <1>5
<1>7. \A i \in 1 .. n + 1 : i \in 1 .. n \/ i = n + 1
  BY <1>3
<1>8. InOrder'
  <2>1. sent \in Nat /\ timeouts \in Nat /\ n + (m + 1) = timeouts + IF awaiting THEN 1 ELSE 0
    BY <1>3 DEF Judging, InOrder
  <2>2. (n + 1) + m = timeouts + IF awaiting THEN 1 ELSE 0
    BY <2>1
  <2>3. \A i \in 1 .. m : requests'[i].id = sent - m + i
    <3>1. \A i \in 1 .. m : requests[i + 1].id = sent - (m + 1) + (i + 1)
      BY <1>3, <1>4 DEF Judging, InOrder
    <3>2. \A i \in 1 .. m : sent - (m + 1) + (i + 1) = sent - m + i
      BY <2>1
    <3> QED BY <1>4, <3>1, <3>2
  <2>4. \A i \in 1 .. n : replies'[i].id = sent - m - (n + 1) + i
    <3>1. \A i \in 1 .. n : replies[i].id = sent - (m + 1) - n + i
      BY <1>3 DEF Judging, InOrder
    <3>2. \A i \in 1 .. n : sent - (m + 1) - n + i = sent - m - (n + 1) + i
      BY <2>1
    <3> QED BY <1>6, <3>1, <3>2
  <2>5. r.id = sent - m - (n + 1) + (n + 1)
    <3>1. requests[1].id = sent - (m + 1) + 1
      BY <1>3, <1>4 DEF Judging, InOrder
    <3>2. sent - (m + 1) + 1 = sent - m - (n + 1) + (n + 1)
      BY <2>1
    <3> QED BY <1>5, <3>1, <3>2
  <2>6. \A i \in 1 .. n + 1 : replies'[i].id = sent - m - (n + 1) + i
    BY <1>6, <1>7, <2>4, <2>5
  <2>7. awaiting \in BOOLEAN
    BY DEF Judging, InOrder
  <2> QED BY <1>1, <1>4, <1>6, <2>1, <2>2, <2>3, <2>6, <2>7 DEF InOrder
<1>9. Timely'
  <2>1. SUFFICES ASSUME awaiting, stage = "look", timeouts = 0
        PROVE  /\ \A i \in 1 .. m : requests'[i].do = "xp"
               /\ \A i \in 1 .. n + 1 : replies'[i].text \subseteq since
    BY <1>1, <1>4, <1>6 DEF Timely, Judging
  <2>2. /\ \A i \in 1 .. m + 1 : requests[i].do = "xp"
        /\ \A i \in 1 .. n : replies[i].text \subseteq since
        /\ screen \subseteq since
    BY <1>3, <2>1 DEF Timely, Judging
  <2>3. r.text = screen
    BY <1>4, <1>5, <2>2
  <2> QED BY <1>4, <1>6, <1>7, <2>2, <2>3
<1>10. Booting'
  <2>1. SUFFICES ASSUME guest = "booting"
        PROVE  /\ keys' = keys
               /\ \A i \in 1 .. m : requests'[i].do # "sendkey"
               /\ \A i \in 1 .. n + 1 : replies'[i].text \in {None, {}}
    BY <1>1, <1>4, <1>6 DEF Booting, Judging
  <2>2. /\ \A i \in 1 .. m + 1 : requests[i].do # "sendkey"
        /\ \A i \in 1 .. n : replies[i].text \in {None, {}}
        /\ screen = {}
    BY <1>3, <2>1 DEF Booting, Judging
  <2>3. r.text \in {None, {}}
    BY <1>5, <2>2
  <2>4. keys' = keys
    BY <1>4, <2>2 DEF Answer, controller
  <2> QED BY <1>4, <1>6, <1>7, <2>2, <2>3, <2>4
<1>11. JudgedInTime'
  BY <1>1 DEF Judging, JudgedInTime
<1> QED BY <1>2, <1>8, <1>9, <1>10, <1>11 DEF Judging

\* When a command is sent, as many answers are still to come as reads were given up.
LEMMA SendJudging == ASSUME Judging, Send PROVE Judging'
<1>1. /\ UNCHANGED <<screen, guest, keys, replies, stage, timeouts>>
      /\ ~awaiting /\ awaiting' = TRUE /\ sent' = sent + 1 /\ stage # "done"
      /\ IF stage = "look" THEN since' = screen /\ judged' = None ELSE UNCHANGED <<since, judged>>
  BY DEF Send, progress, guestVars, controller
<1>2. /\ Types'
      /\ \E r \in Asked : /\ requests' = Append(requests, r) /\ r.id = sent + 1
                          /\ (r.do = "sendkey" => stage = "type") /\ (stage = "look" => r.do = "xp")
  BY SendTypes DEF Judging, InOrder
<1>3. PICK r \in Asked :
        /\ requests' = Append(requests, r) /\ r.id = sent + 1
        /\ (r.do = "sendkey" => stage = "type") /\ (stage = "look" => r.do = "xp")
  BY <1>2
<1>4. PICK m \in Nat, n \in Nat :
         /\ Len(requests) = m /\ DOMAIN requests = 1 .. m
         /\ Len(replies) = n /\ DOMAIN replies = 1 .. n
         /\ requests \in Seq(Asked) /\ replies \in Seq(Answered)
  <2>1. requests \in Seq(Asked) /\ replies \in Seq(Answered)
    BY DEF Judging, Types, Streams
  <2> QED BY <2>1
<1>5. /\ Len(requests') = m + 1 /\ DOMAIN requests' = 1 .. m + 1 /\ requests'[m + 1] = r
      /\ \A i \in 1 .. m : requests'[i] = requests[i]
  BY <1>3, <1>4
<1>6. \A i \in 1 .. m + 1 : i \in 1 .. m \/ i = m + 1
  BY <1>4
<1>7. sent \in Nat /\ timeouts \in Nat /\ n + m = timeouts
  BY <1>1, <1>4 DEF Judging, InOrder
<1>8. InOrder'
  <2>1. n + (m + 1) = timeouts + 1 /\ sent + 1 \in Nat
    BY <1>7
  <2>2. \A i \in 1 .. n : replies[i].id = (sent + 1) - (m + 1) - n + i
    <3>1. \A i \in 1 .. n : replies[i].id = sent - m - n + i
      BY <1>4 DEF Judging, InOrder
    <3>2. \A i \in 1 .. n : sent - m - n + i = (sent + 1) - (m + 1) - n + i
      BY <1>7
    <3> QED BY <3>1, <3>2
  <2>3. \A i \in 1 .. m + 1 : requests'[i].id = (sent + 1) - (m + 1) + i
    <3>1. \A i \in 1 .. m : requests[i].id = sent - m + i
      BY <1>4 DEF Judging, InOrder
    <3>2. \A i \in 1 .. m : sent - m + i = (sent + 1) - (m + 1) + i
      BY <1>7
    <3>3. sent + 1 = (sent + 1) - (m + 1) + (m + 1)
      BY <1>7
    <3> QED BY <1>3, <1>5, <1>6, <3>1, <3>2, <3>3
  <2> QED BY <1>1, <1>4, <1>5, <1>7, <2>1, <2>2, <2>3 DEF InOrder
<1>9. Timely'
  <2>1. screen' \subseteq since'
    BY <1>1 DEF Judging, Timely
  <2>2. ASSUME stage = "look", timeouts = 0
        PROVE  /\ \A i \in 1 .. m + 1 : requests'[i].do = "xp"
               /\ \A i \in 1 .. n : FALSE
    <3>1. m = 0 /\ n = 0
      BY <1>7, <2>2
    <3> QED BY <1>3, <1>5, <2>2, <3>1
  <2> QED BY <1>1, <1>4, <1>5, <2>1, <2>2 DEF Timely
<1>10. Booting'
  BY <1>1, <1>3, <1>4, <1>5, <1>6 DEF Booting, Judging
<1>11. JudgedInTime'
  BY <1>1 DEF Judging, JudgedInTime
<1> QED BY <1>2, <1>8, <1>9, <1>10, <1>11 DEF Judging

\* An empty screen shows no prompt, so that nothing is typed.
LEMMA NoPromptNoKeys ==
  ASSUME stage \in {"connect", "wait", "final", "done"}, NEW text, text \in {None, {}}, Handle(text)
  PROVE  stage' \in {"connect", "wait", "final", "done"}
<1>1. ~PromptSeen(text)
  BY DEF PromptSeen, Holds
<1>2. NextScenario => stage' \in {"wait", "final"}
  BY DEF NextScenario
<1>3. Wait(text) => NextScenario \/ UNCHANGED stage
  BY DEF Wait, Fail
<1>4. Connected \/ ShotTaken => NextScenario
  BY DEF Connected, ShotTaken, Pass, Fail
<1>5. ~KeySent /\ ~Look(text) /\ ~Check(text)
  BY DEF KeySent, Look, Check
<1>6. Finished => stage' = "done"
  BY DEF Finished
<1> QED BY <1>1, <1>2, <1>3, <1>4, <1>5, <1>6 DEF Handle

\* What is read is the oldest answer.
LEMMA ReceiveJudging == ASSUME Judging, Receive PROVE Judging'
<1>1. /\ UNCHANGED <<screen, guest, keys, requests, sent, timeouts, since>>
      /\ awaiting /\ awaiting' = FALSE /\ replies # <<>> /\ replies' = Tail(replies)
      /\ Handle(Head(replies).text)
      /\ judged' = IF stage = "look" THEN [asked |-> sent, late |-> timeouts, reply |-> Head(replies)] ELSE judged
  BY DEF Receive, guestVars, controller, Handle
<1>2. Types'
  BY ReceiveTypes DEF Judging
<1>3. PICK m \in Nat, n \in Nat :
         /\ Len(requests) = m /\ DOMAIN requests = 1 .. m
         /\ Len(replies) = n + 1 /\ DOMAIN replies = 1 .. n + 1
         /\ requests \in Seq(Asked) /\ replies \in Seq(Answered)
  <2>1. requests \in Seq(Asked) /\ replies \in Seq(Answered) /\ replies # <<>>
    BY <1>1 DEF Judging, Types, Streams
  <2>2. Len(replies) - 1 \in Nat /\ Len(replies) = (Len(replies) - 1) + 1 /\ Len(requests) \in Nat
    BY <2>1
  <2>3. DOMAIN requests = 1 .. Len(requests) /\ DOMAIN replies = 1 .. Len(replies)
    BY <2>1
  <2> QED BY <2>1, <2>2, <2>3
<1>4. /\ Len(replies') = n /\ DOMAIN replies' = 1 .. n
      /\ \A i \in 1 .. n : replies'[i] = replies[i + 1] /\ i + 1 \in 1 .. n + 1
      /\ Head(replies) = replies[1] /\ 1 \in 1 .. n + 1
  BY <1>1, <1>3
<1>5. sent \in Nat /\ timeouts \in Nat /\ (n + 1) + m = timeouts + 1
  BY <1>1, <1>3 DEF Judging, InOrder
<1>6. InOrder'
  <2>1. n + m = timeouts + IF awaiting' THEN 1 ELSE 0
    <3>1. n + m = timeouts + 0
      BY <1>5
    <3> QED BY <1>1, <3>1
  <2>2. \A i \in 1 .. n : replies'[i].id = sent - m - n + i
    <3>1. \A i \in 1 .. n : replies[i + 1].id = sent - m - (n + 1) + (i + 1)
      BY <1>3, <1>4 DEF Judging, InOrder
    <3>2. \A i \in 1 .. n : sent - m - (n + 1) + (i + 1) = sent - m - n + i
      BY <1>5
    <3> QED BY <1>4, <3>1, <3>2
  <2>3. \A i \in 1 .. m : requests[i].id = sent - m + i
    BY <1>3 DEF Judging, InOrder
  <2>4. awaiting' \in BOOLEAN /\ sent' \in Nat /\ timeouts' \in Nat
    BY <1>1, <1>5
  <2>5. Len(requests') = m /\ DOMAIN requests' = 1 .. m /\ \A i \in 1 .. m : requests'[i] = requests[i]
    BY <1>1, <1>3
  <2> QED BY <1>1, <1>4, <2>1, <2>2, <2>3, <2>4, <2>5 DEF InOrder
<1>7. Timely'
  BY <1>1 DEF Timely, Judging
<1>8. Booting'
  <2>1. SUFFICES ASSUME guest = "booting"
        PROVE  /\ stage' \in {"connect", "wait", "final", "done"}
               /\ \A i \in 1 .. n : replies'[i].text \in {None, {}}
    BY <1>1, <1>4 DEF Booting, Judging
  <2>2. stage \in {"connect", "wait", "final", "done"} /\ \A i \in 1 .. n + 1 : replies[i].text \in {None, {}}
    BY <1>3, <2>1 DEF Booting, Judging
  <2>3. stage' \in {"connect", "wait", "final", "done"}
    BY <1>1, <1>4, <2>2, NoPromptNoKeys
  <2> QED BY <1>4, <2>2, <2>3
<1>9. JudgedInTime'
  <2>1. CASE stage = "look"
    <3>1. judged' = [asked |-> sent, late |-> timeouts, reply |-> replies[1]]
      BY <1>1, <1>4, <2>1
    <3>2. judged'.asked = sent /\ judged'.late = timeouts /\ judged'.reply = replies[1]
      BY <3>1
    <3>3. replies[1].id + timeouts = sent
      <4>1. replies[1].id = sent - m - (n + 1) + 1
        BY <1>3, <1>4 DEF Judging, InOrder
      <4>2. sent - m - (n + 1) + 1 + timeouts = sent
        BY <1>5
      <4> QED BY <4>1, <4>2
    <3>4. timeouts = 0 => replies[1].text \subseteq since
      BY <1>1, <1>3, <1>4, <2>1 DEF Judging, Timely
    <3> QED BY <1>1, <3>2, <3>3, <3>4 DEF JudgedInTime
  <2>2. CASE stage # "look"
    BY <1>1, <2>2 DEF Judging, JudgedInTime
  <2> QED BY <2>1, <2>2
<1> QED BY <1>2, <1>6, <1>7, <1>8, <1>9 DEF Judging

\* A read that is given up is one more answer to come.
LEMMA TimeOutJudging == ASSUME Judging, TimeOut PROVE Judging'
<1>1. /\ UNCHANGED <<screen, guest, keys, requests, sent, since, judged>>
      /\ awaiting /\ awaiting' = FALSE /\ timeouts' = timeouts + 1
  BY DEF TimeOut, guestVars, controller
<1>2. /\ Types' /\ Len(replies') = Len(replies)
      /\ \A i \in DOMAIN replies : replies'[i].id = replies[i].id
      /\ \A i \in DOMAIN replies :
           replies'[i] = replies[i] \/ replies'[i].text = None
           \/ (replies[i].text # None /\ replies'[i].text \subseteq replies[i].text)
  BY TimeOutTypes DEF Judging
<1>3. PICK m \in Nat, n \in Nat :
         /\ Len(requests) = m /\ DOMAIN requests = 1 .. m
         /\ Len(replies) = n /\ DOMAIN replies = 1 .. n /\ Len(replies') = n /\ DOMAIN replies' = 1 .. n
  <2>1. requests \in Seq(Asked) /\ replies \in Seq(Answered) /\ replies' \in Seq(Answered)
    BY <1>2 DEF Judging, Types, Streams
  <2> QED BY <1>2, <2>1
<1>4. InOrder'
  <2>1. sent \in Nat /\ timeouts \in Nat /\ n + m = timeouts + 1
    BY <1>1, <1>3 DEF Judging, InOrder
  <2>2. timeouts + 1 \in Nat /\ n + m = (timeouts + 1) + 0
    BY <2>1
  <2>3. \A i \in 1 .. n : replies'[i].id = sent - m - n + i
    BY <1>2, <1>3 DEF Judging, InOrder
  <2>4. \A i \in 1 .. m : requests[i].id = sent - m + i
    BY <1>3 DEF Judging, InOrder
  <2> QED BY <1>1, <1>3, <2>1, <2>2, <2>3, <2>4 DEF InOrder
<1>5. Timely'
  BY <1>1 DEF Timely, Judging
<1>6. Booting'
  <2>1. SUFFICES ASSUME guest = "booting"
        PROVE  /\ stage' \in {"connect", "wait", "final", "done"}
               /\ \A i \in 1 .. n : replies'[i].text \in {None, {}}
    BY <1>1, <1>3 DEF Booting, Judging
  <2>2. \A i \in 1 .. n : replies[i].text \in {None, {}}
    BY <1>3, <2>1 DEF Booting, Judging
  <2>3. stage' \in {"connect", "wait", "final", "done"}
    BY DEF TimeOut, Fail, NextScenario
  <2>4. \A i \in 1 .. n : replies'[i].text \in {None, {}}
    <3> TAKE i \in 1 .. n
    <3>1. CASE replies'[i] = replies[i] \/ replies'[i].text = None
      BY <2>2, <3>1
    <3>2. CASE replies[i].text # None /\ replies'[i].text \subseteq replies[i].text
      <4>1. replies[i].text = {}
        BY <2>2, <3>2
      <4>2. replies'[i].text = {}
        BY <3>2, <4>1
      <4> QED BY <4>2
    <3> QED BY <1>2, <1>3, <3>1, <3>2
  <2> QED BY <2>3, <2>4
<1>7. JudgedInTime'
  BY <1>1 DEF Judging, JudgedInTime
<1> QED BY <1>2, <1>4, <1>5, <1>6, <1>7 DEF Judging

\* The invariant holds initially and after every step.
LEMMA JudgingHolds == Spec => []Judging
<1>1. Init => Judging
  <2> SUFFICES ASSUME Init PROVE Judging
    OBVIOUS
  <2>1. Len(<<>>) = 0 /\ DOMAIN <<>> = {} /\ \A T : <<>> \in Seq(T)
    OBVIOUS
  <2>2. /\ Len(replies) = 1 /\ DOMAIN replies = {1} /\ replies[1].id = 0 /\ replies[1].text = None
        /\ replies \in Seq(Answered)
    <3>1. [id |-> 0, text |-> None] \in Answered
      BY DEF Answered
    <3>2. PICK r \in Answered : r = [id |-> 0, text |-> None] /\ r.id = 0 /\ r.text = None
      BY <3>1
    <3>3. replies = <<r>> /\ <<r>> \in Seq(Answered) /\ Len(<<r>>) = 1 /\ DOMAIN <<r>> = 1 .. 1 /\ <<r>>[1] = r
      BY <3>2 DEF Init
    <3>4. 1 .. 1 = {1}
      OBVIOUS
    <3> QED BY <3>2, <3>3, <3>4
  <2>3. Types
    BY <2>1, <2>2 DEF Init, Types, Progress, Streams, Stage
  <2>4. InOrder
    <3>1. 0 - 0 - 1 + 1 = 0 /\ 1 + 0 = 0 + 1
      OBVIOUS
    <3> QED BY <2>1, <2>2, <3>1 DEF Init, InOrder
  <2>5. Timely /\ Booting /\ JudgedInTime
    BY <2>1, <2>2 DEF Init, Timely, Booting, JudgedInTime
  <2> QED BY <2>3, <2>4, <2>5 DEF Judging
<1>2. Judging /\ [Next]_hvars => Judging'
  <2> SUFFICES ASSUME Judging, [Next]_hvars PROVE Judging'
    OBVIOUS
  <2>1. CASE UNCHANGED hvars
    <3>1. UNCHANGED <<screen, keys, spoilt, typed, guest, ran, requests, replies, awaiting, stage, scenario, looks,
                      todo, failed, sent, timeouts, judged, since>>
      BY <2>1 DEF hvars, guestVars, controller, test, progress
    <3> QED BY <3>1 DEF Judging, Types, Progress, Streams, InOrder, Timely, Booting, JudgedInTime
  <2> QED BY <2>1, GuestJudging, AnswerJudging, SendJudging, ReceiveJudging, TimeOutJudging DEF Next, Harness, Done
<1> QED BY <1>1, <1>2, PTL DEF Spec

\* The keys of a scenario never reach a machine that is still booting, for every suite of
\* scenarios, every number of reads that are given up and every answer of the monitor.
THEOREM NothingTypedAtBoot == Spec => []BootedBeforeTyping
<1>1. Judging => BootedBeforeTyping
  BY DEF Judging, Booting, BootedBeforeTyping
<1> QED BY <1>1, JudgingHolds, PTL

\* A scenario is judged by the answer to its own request, and by what was on the screen
\* after its last key, as long as no read was given up; after that, by answers that are as
\* many requests old as reads were given up.
THEOREM JudgedByItsAnswer == Spec => []JudgedInTime
<1>1. Judging => JudgedInTime
  BY DEF Judging
<1> QED BY <1>1, JudgingHolds, PTL

-----------------------------------------------------------------------------
(***************************************************************************)
(* Lines.  The keys of a scenario pass through the requests to the monitor and*)
(* the keys that the guest has not taken, before they are on the line it edits.*)
(***************************************************************************)
\* What is left to be typed are the last keys of the scenario.
Typing ==
  stage = "type" =>
    /\ scenario \in S /\ Scenarios[scenario].chars # 0 /\ Len(todo) =< Scenarios[scenario].chars + 1
    /\ \A i \in 1 .. Len(todo) : todo[i] = IF i = Len(todo) THEN "ret" ELSE "char"

\* The line with n characters of a scenario, or as many as fit, the line that is its
\* command, the lines that are no command, and their count for one.
Of(s, n) == [k \in 1 .. (IF n < LineMax THEN n ELSE LineMax) |-> s]
IsCommand(l) == \E s \in S : Scenarios[s].chars # 0 /\ l = Of(s, Scenarios[s].chars)
Broken(lines) == {i \in DOMAIN lines : ~IsCommand(lines[i])}
One(broken) == IF broken THEN 1 ELSE 0

\* The line that is being typed, and how many were broken before it.
Typed == [open : Seq(Source), bad : Nat]

\* What a key makes of it, and a request.
KeyDone(v, press) ==
  IF press.key = "ret" THEN [open |-> <<>>, bad |-> v.bad + One(~IsCommand(v.open))]
  ELSE [open |-> Stored(v.open, press.by), bad |-> v.bad]
RequestDone(v, r) == IF r.do = "sendkey" THEN KeyDone(v, r.key) ELSE v

\* What the guest has got.
Got ==
  [open |-> IF guest = "editing" THEN typed ELSE <<>>,
   bad |-> Cardinality(Broken(ran)) + One(guest = "running" /\ ~IsCommand(typed))]

\* How many keys of the scenario were sent, when it is typing.
Sent == Scenarios[scenario].chars + 1 - Len(todo) + One(awaiting)

\* The line after all keys that were sent, if no scenario before has left anything in it.
CleanLine(v) ==
  v.open = IF stage = "type" /\ Sent =< Scenarios[scenario].chars THEN Of(scenario, Sent) ELSE <<>>

\* How many lines may be broken: one for each read that was given up, and one for each key
\* that did not arrive as it was struck.
Budget == timeouts + spoilt

\* f and g follow the line through the keys and the requests that are on their way.  No
\* more lines are broken than may be, and fewer as long as the line holds anything else
\* than the keys of this scenario, as it is going to be broken.
Follows(f, g) ==
  /\ f \in [0 .. Len(keys) -> Typed] /\ g \in [0 .. Len(requests) -> Typed]
  /\ f[0] = Got /\ \A k \in 1 .. Len(keys) : f[k] = KeyDone(f[k - 1], keys[k])
  /\ g[0] = f[Len(keys)] /\ \A k \in 1 .. Len(requests) : g[k] = RequestDone(g[k - 1], requests[k])
  /\ \A k \in 0 .. Len(keys) : f[k].bad =< Budget
  /\ \A k \in 0 .. Len(requests) : g[k].bad =< Budget
  /\ CleanLine(g[Len(requests)]) \/ g[Len(requests)].bad < Budget

\* f follows the line from v to w through keys.
LeadsTo(f, ks, v, w) ==
  /\ f \in [0 .. Len(ks) -> Typed] /\ f[0] = v /\ f[Len(ks)] = w
  /\ \A k \in 1 .. Len(ks) : f[k] = KeyDone(f[k - 1], ks[k])
  /\ \A k \in 0 .. Len(ks) : f[k].bad =< Budget

\* There are such functions: with Judging and Typing the inductive invariant.
Lines == ran \in Seq(Seq(Source)) /\ \E f, g : Follows(f, g)

\* A scenario has finitely many characters to type.
LEMMA CharsNat == \A s \in S : Scenarios[s].chars \in Nat
<1> TAKE s \in S
<1>1. Scenarios[s] \in Scenario
  BY Sizes
<1> QED BY <1>1 DEF Scenario

\* There are finitely many lines that may be broken.
LEMMA BudgetNat == Judging => Budget \in Nat
BY DEF Judging, InOrder, Types, Streams, Budget

\* One more character of a scenario.
LEMMA OfType ==
  ASSUME NEW s \in S, NEW n \in Nat
  PROVE  /\ Of(s, n) \in Seq(Source) /\ Of(s, 0) = <<>> /\ Stored(Of(s, n), s) = Of(s, n + 1)
<1> DEFINE fitting(c) == IF c < LineMax THEN c ELSE LineMax
<1>0. LineMax \in Nat /\ s \in Source
  BY HarnessAssumption DEF Source
<1>1. PICK c \in Nat : c = fitting(n) /\ Of(s, n) = [k \in 1 .. c |-> s]
  BY <1>0 DEF Of
<1>2. PICK t \in Seq(Source) : t = Of(s, n) /\ Len(t) = c /\ \A i \in 1 .. c : t[i] = s
  <2>1. [k \in 1 .. c |-> s] \in [1 .. c -> Source]
    BY <1>0
  <2>2. PICK t \in [1 .. c -> Source] : t = [k \in 1 .. c |-> s]
    BY <2>1
  <2>3. t \in Seq(Source) /\ Len(t) = c /\ \A i \in 1 .. c : t[i] = s
    BY <2>2
  <2> QED BY <1>1, <2>2, <2>3
<1>3. Of(s, 0) = <<>>
  <2>1. Of(s, 0) \in [1 .. 0 -> Source]
    BY <1>0 DEF Of
  <2>2. Of(s, 0) \in Seq(Source) /\ Len(Of(s, 0)) = 0
    BY <2>1
  <2> QED BY <2>2, EmptySeq
<1>4. Stored(Of(s, n), s) = Of(s, n + 1)
  <2>1. CASE n < LineMax
    <3>1. c = n /\ fitting(n + 1) = n + 1
      BY <1>0, <1>1, <2>1
    <3>2. PICK a \in Seq(Source) : a = Append(t, s)
      <4>1. Append(t, s) \in Seq(Source)
        BY <1>0
      <4> QED BY <4>1
    <3>3. Len(a) = n + 1 /\ \A i \in 1 .. n + 1 : a[i] = IF i = n + 1 THEN s ELSE t[i]
      BY <1>2, <3>1, <3>2
    <3>4. \A i \in 1 .. n + 1 : i # n + 1 => i \in 1 .. n
      OBVIOUS
    <3>5. \A i \in 1 .. n + 1 : a[i] = s
      BY <1>2, <3>1, <3>3, <3>4
    <3>6. a = [i \in 1 .. n + 1 |-> a[i]]
      BY <3>3
    <3>7. a = Of(s, n + 1)
      BY <3>1, <3>5, <3>6 DEF Of
    <3>8. Stored(t, s) = a
      BY <1>2, <2>1, <3>1, <3>2 DEF Stored
    <3> QED BY <1>2, <3>7, <3>8
  <2>2. CASE ~(n < LineMax)
    <3>1. c = LineMax /\ fitting(n + 1) = LineMax
      BY <1>0, <1>1, <2>2
    <3>2. Of(s, n + 1) = Of(s, n)
      BY <1>1, <3>1 DEF Of
    <3>3. Stored(t, s) = t
      BY <1>0, <1>2, <3>1 DEF Stored
    <3> QED BY <1>2, <3>2, <3>3
  <2> QED BY <2>1, <2>2
<1> QED BY <1>2, <1>3, <1>4

\* A line counts once or not at all.
LEMMA OneType == \A b : One(b) \in {0, 1}
BY DEF One

\* A key makes a line of a line.
LEMMA KeyDoneType ==
  ASSUME NEW v \in Typed, NEW press \in Press
  PROVE  KeyDone(v, press) \in Typed
<1>1. v.open \in Seq(Source) /\ v.bad \in Nat /\ press.by \in Source
  BY DEF Typed, Press
<1>2. Stored(v.open, press.by) \in Seq(Source) /\ <<>> \in Seq(Source)
  BY <1>1, StoredType
<1>3. v.bad + One(~IsCommand(v.open)) \in Nat
  <2>1. One(~IsCommand(v.open)) \in Nat
    BY OneType
  <2> QED BY <1>1, <2>1
<1>4. CASE press.key = "ret"
  BY <1>2, <1>3, <1>4 DEF KeyDone, Typed
<1>5. CASE press.key # "ret"
  BY <1>1, <1>2, <1>5 DEF KeyDone, Typed
<1> QED BY <1>4, <1>5

\* The broken ones of finitely many lines can be counted.
LEMMA BrokenFinite ==
  ASSUME NEW lines \in Seq(Seq(Source))
  PROVE  IsFiniteSet(Broken(lines)) /\ Cardinality(Broken(lines)) \in Nat
<1>1. PICK n \in Nat : DOMAIN lines = 1 .. n
  OBVIOUS
<1>2. IsFiniteSet(1 .. n) /\ Broken(lines) \subseteq 1 .. n
  BY <1>1, FS_Interval DEF Broken
<1>3. IsFiniteSet(Broken(lines))
  BY <1>2, FS_Subset
<1> QED BY <1>3, FS_CardinalityType

\* One more line is at most one more that is broken.
LEMMA BrokenOneMore ==
  ASSUME NEW lines \in Seq(Seq(Source)), NEW l \in Seq(Source)
  PROVE  Cardinality(Broken(Append(lines, l))) = Cardinality(Broken(lines)) + One(~IsCommand(l))
<1>1. PICK n \in Nat : Len(lines) = n /\ DOMAIN lines = 1 .. n
  OBVIOUS
<1>2. /\ DOMAIN Append(lines, l) = 1 .. n + 1 /\ Append(lines, l)[n + 1] = l
      /\ \A i \in 1 .. n : Append(lines, l)[i] = lines[i]
  BY <1>1
<1>3. \A i : i \in 1 .. n + 1 <=> i \in 1 .. n \/ i = n + 1
  BY <1>1
<1>4. n + 1 \notin Broken(lines)
  BY <1>1 DEF Broken
<1>5. CASE IsCommand(l)
  <2>1. Broken(Append(lines, l)) = Broken(lines)
    BY <1>1, <1>2, <1>3, <1>5 DEF Broken
  <2>2. One(~IsCommand(l)) = 0
    BY <1>5 DEF One
  <2> QED BY <2>1, <2>2, BrokenFinite
<1>6. CASE ~IsCommand(l)
  <2>1. Broken(Append(lines, l)) = Broken(lines) \cup {n + 1}
    BY <1>1, <1>2, <1>3, <1>6 DEF Broken
  <2>2. One(~IsCommand(l)) = 1
    BY <1>6 DEF One
  <2>3. Cardinality(Broken(lines) \cup {n + 1}) = Cardinality(Broken(lines)) + 1
    BY <1>4, BrokenFinite, FS_AddElement
  <2> QED BY <2>1, <2>2, <2>3
<1> QED BY <1>5, <1>6

\* The guest has a line, and a number of broken ones.
LEMMA GotType == ASSUME Judging, ran \in Seq(Seq(Source)) PROVE Got \in Typed
<1>1. typed \in Seq(Source) /\ <<>> \in Seq(Source)
  BY DEF Judging, Types, Streams
<1>2. Cardinality(Broken(ran)) \in Nat
  BY BrokenFinite
<1>3. PICK b \in {0, 1} : b = One(guest = "running" /\ ~IsCommand(typed))
  BY OneType
<1>4. Cardinality(Broken(ran)) + b \in Nat
  BY <1>2
<1> QED BY <1>1, <1>3, <1>4 DEF Got, Typed

\* The sizes of the two streams, as values.
LEMMA KeysSizes ==
  ASSUME Judging
  PROVE  \E n, m \in Nat : /\ Len(keys) = n /\ DOMAIN keys = 1 .. n /\ keys \in Seq(Press)
                           /\ Len(requests) = m /\ DOMAIN requests = 1 .. m /\ requests \in Seq(Asked)
<1>1. keys \in Seq(Press) /\ requests \in Seq(Asked)
  BY DEF Judging, Types, Streams
<1>2. /\ Len(keys) \in Nat /\ DOMAIN keys = 1 .. Len(keys)
      /\ Len(requests) \in Nat /\ DOMAIN requests = 1 .. Len(requests)
  BY <1>1
<1> QED BY <1>1, <1>2

\* Nothing is sent or taken, and the guest has what it had.
LEMMA SameKeys ==
  ASSUME Judging, Lines, UNCHANGED <<keys, requests>>, ran' \in Seq(Seq(Source)), Got' = Got,
         (Budget' = Budget /\ (\A v : CleanLine(v) => CleanLine(v)')) \/ Budget' = Budget + 1
  PROVE  Lines'
<1>1. PICK f, g : Follows(f, g)
  BY DEF Lines
<1>2. PICK n \in Nat, m \in Nat : Len(keys) = n /\ Len(requests) = m
  BY KeysSizes
<1>3. Budget \in Nat
  BY BudgetNat
<1>4. /\ \A k \in 0 .. n : f[k].bad \in Nat /\ f[k].bad =< Budget
      /\ \A k \in 0 .. m : g[k].bad \in Nat /\ g[k].bad =< Budget
  BY <1>1, <1>2 DEF Follows, Typed
<1>5. /\ \A k \in 0 .. n : f[k].bad =< Budget'
      /\ \A k \in 0 .. m : g[k].bad =< Budget'
  BY <1>3, <1>4
<1>6. CleanLine(g[m])' \/ g[m].bad < Budget'
  <2>1. CleanLine(g[m]) \/ g[m].bad < Budget
    BY <1>1, <1>2 DEF Follows
  <2>2. CASE Budget' = Budget /\ (\A v : CleanLine(v) => CleanLine(v)')
    <3>1. PICK v : v = g[m]
      OBVIOUS
    <3>2. CleanLine(v) => CleanLine(v)'
      BY <2>2
    <3>3. CleanLine(g[m]) => CleanLine(g[m])'
      BY <3>1, <3>2
    <3> QED BY <2>1, <2>2, <3>3
  <2>3. CASE Budget' = Budget + 1
    <3>1. m \in 0 .. m
      BY <1>2
    <3>2. g[m].bad < Budget + 1
      BY <1>3, <1>4, <3>1
    <3> QED BY <2>3, <3>2
  <2> QED BY <2>2, <2>3
<1>7. Follows(f, g)'
  BY <1>1, <1>2, <1>5, <1>6 DEF Follows
<1> QED BY <1>7 DEF Lines

\* The guest takes a key.
LEMMA TakesKey ==
  ASSUME Judging, Lines, TakeKey
  PROVE  Lines'
<1>1. PICK f, g : Follows(f, g)
  BY DEF Lines
<1>2. PICK n \in Nat, m \in Nat :
         /\ Len(keys) = n + 1 /\ DOMAIN keys = 1 .. n + 1 /\ keys \in Seq(Press) /\ keys # <<>>
         /\ Len(requests) = m
  <2>1. keys \in Seq(Press) /\ keys # <<>> /\ requests \in Seq(Asked)
    BY DEF Judging, Types, Streams, TakeKey
  <2>2. Len(keys) - 1 \in Nat /\ Len(keys) = (Len(keys) - 1) + 1 /\ Len(requests) \in Nat
    BY <2>1
  <2>3. DOMAIN keys = 1 .. Len(keys)
    BY <2>1
  <2> QED BY <2>1, <2>2, <2>3
<1>3. /\ keys' = Tail(keys) /\ guest = "editing" /\ UNCHANGED <<ran, requests, awaiting, stage, scenario, todo>> /\ Budget' = Budget
  BY DEF TakeKey, test, progress, Budget
<1>4. /\ Len(keys') = n /\ \A k \in 1 .. n : keys'[k] = keys[k + 1] /\ k + 1 \in 1 .. n + 1
      /\ Head(keys) = keys[1] /\ 1 \in 1 .. n + 1
  BY <1>2, <1>3
<1> DEFINE f2 == [k \in 0 .. n |-> f[k + 1]]
<1>5. /\ f \in [0 .. n + 1 -> Typed] /\ f[0] = Got
      /\ \A k \in 1 .. n + 1 : f[k] = KeyDone(f[k - 1], keys[k])
      /\ g[0] = f[n + 1] /\ \A k \in 0 .. n + 1 : f[k].bad =< Budget
  BY <1>1, <1>2 DEF Follows
<1>6. \A k \in 0 .. n : k + 1 \in 0 .. n + 1 /\ k + 1 \in 1 .. n + 1
  BY <1>2
<1>7. f2 \in [0 .. n -> Typed] /\ f2[0] = f[1] /\ f2[n] = f[n + 1] /\ \A k \in 0 .. n : f2[k] = f[k + 1]
  <2>1. 0 \in 0 .. n /\ n \in 0 .. n /\ 0 + 1 = 1
    BY <1>2
  <2> QED BY <1>5, <1>6, <2>1
<1>8. \A k \in 1 .. n : f2[k] = KeyDone(f2[k - 1], keys'[k])
  <2> TAKE k \in 1 .. n
  <2>1. k \in 0 .. n /\ k - 1 \in 0 .. n /\ (k - 1) + 1 = k /\ (k + 1) - 1 = k /\ k + 1 \in 1 .. n + 1
    BY <1>2
  <2>2. f2[k] = f[k + 1] /\ f2[k - 1] = f[k]
    BY <1>7, <2>1
  <2>3. f[k + 1] = KeyDone(f[k], keys[k + 1])
    BY <1>5, <2>1
  <2> QED BY <1>4, <2>2, <2>3
<1>9. f2[0] = Got'
  <2>1. f[1] = KeyDone(Got, keys[1])
    <3>1. 1 \in 1 .. n + 1 /\ 1 - 1 = 0
      BY <1>2
    <3> QED BY <1>5, <3>1
  <2>2. PICK c \in Nat : c = Cardinality(Broken(ran))
    BY BrokenFinite DEF Lines
  <2>3. Broken(ran)' = Broken(ran)
    BY <1>3 DEF Broken, IsCommand
  <2>4. Got = [open |-> typed, bad |-> c]
    <3>1. One(guest = "running" /\ ~IsCommand(typed)) = 0
      BY <1>3 DEF One
    <3>2. c + 0 = c
      BY <2>2
    <3> QED BY <1>3, <2>2, <3>1, <3>2 DEF Got
  <2>5. CASE keys[1].key = "ret"
    <3>1. guest' = "running" /\ typed' = typed
      BY <1>4, <2>5 DEF TakeKey
    <3>2. KeyDone(Got, keys[1]) = [open |-> <<>>, bad |-> c + One(~IsCommand(typed))]
      BY <2>4, <2>5 DEF KeyDone
    <3>3. One(guest = "running" /\ ~IsCommand(typed))' = One(~IsCommand(typed))
      BY <3>1 DEF One, IsCommand
    <3>4. Got' = [open |-> <<>>, bad |-> c + One(~IsCommand(typed))]
      BY <2>2, <2>3, <3>1, <3>3 DEF Got
    <3> QED BY <1>7, <2>1, <3>2, <3>4
  <2>6. CASE keys[1].key # "ret"
    <3>1. guest' = "editing" /\ typed' = Stored(typed, keys[1].by)
      BY <1>3, <1>4, <2>6 DEF TakeKey
    <3>2. KeyDone(Got, keys[1]) = [open |-> Stored(typed, keys[1].by), bad |-> c]
      BY <2>4, <2>6 DEF KeyDone
    <3>3. One(guest = "running" /\ ~IsCommand(typed))' = 0
      BY <3>1 DEF One
    <3>4. c + 0 = c
      BY <2>2
    <3>5. Got' = [open |-> typed', bad |-> c + 0]
      BY <2>2, <2>3, <3>1, <3>3 DEF Got
    <3> QED BY <1>7, <2>1, <3>1, <3>2, <3>4, <3>5
  <2> QED BY <2>5, <2>6
<1> HIDE DEF f2
<1>10. \A k \in 0 .. n : f2[k].bad =< Budget
  BY <1>5, <1>6, <1>7
<1>11. CleanLine(g[m])' = CleanLine(g[m])
  BY <1>3 DEF CleanLine, Sent
<1>12. /\ g \in [0 .. m -> Typed] /\ \A k \in 1 .. m : g[k] = RequestDone(g[k - 1], requests[k])
       /\ \A k \in 0 .. m : g[k].bad =< Budget /\ (CleanLine(g[m]) \/ g[m].bad < Budget)
       /\ CleanLine(g[m]) \/ g[m].bad < Budget
  BY <1>1, <1>2 DEF Follows
<1>13. Follows(f2, g)'
  <2>1. Len(requests') = m /\ requests' = requests /\ Budget' = Budget
    BY <1>2, <1>3
  <2>2. g[0] = f2[n]
    BY <1>5, <1>7
  <2> QED BY <1>4, <1>7, <1>8, <1>9, <1>10, <1>11, <1>12, <2>1, <2>2 DEF Follows
<1> QED BY <1>3, <1>13 DEF Lines

\* A line that went another way from some key on is no worse off than one broken line, and
\* that one is still to be broken while it holds something else.
Alike(v, w) == w.bad =< v.bad + One(w.open = v.open)

\* It stays so with every key: a character changes no count, and after a return both lines
\* are empty again.
LEMMA AlikeKey ==
  ASSUME NEW v \in Typed, NEW w \in Typed, NEW press \in Press, Alike(v, w)
  PROVE  Alike(KeyDone(v, press), KeyDone(w, press))
<1>1. v.bad \in Nat /\ w.bad \in Nat /\ w.bad =< v.bad + 1 /\ (w.open # v.open => w.bad =< v.bad)
  BY DEF Typed, Alike, One
<1>2. CASE press.key = "ret"
  <2>1. PICK a \in {0, 1}, b \in {0, 1} : /\ a = One(~IsCommand(v.open)) /\ b = One(~IsCommand(w.open))
                                        /\ (w.open = v.open => a = b)
    BY OneType
  <2>2. KeyDone(v, press) = [open |-> <<>>, bad |-> v.bad + a] /\ KeyDone(w, press) = [open |-> <<>>, bad |-> w.bad + b]
    BY <1>2, <2>1 DEF KeyDone
  <2>3. w.bad + b =< (v.bad + a) + 1
    BY <1>1, <2>1
  <2> QED BY <2>2, <2>3 DEF Alike, One
<1>3. CASE press.key # "ret"
  <2>1. /\ KeyDone(v, press) = [open |-> Stored(v.open, press.by), bad |-> v.bad]
        /\ KeyDone(w, press) = [open |-> Stored(w.open, press.by), bad |-> w.bad]
    BY <1>3 DEF KeyDone
  <2>2. CASE w.open = v.open
    BY <1>1, <2>1, <2>2 DEF Alike, One
  <2>3. CASE w.open # v.open
    BY <1>1, <2>1, <2>3 DEF Alike, One
  <2> QED BY <2>2, <2>3
<1> QED BY <1>2, <1>3

\* A key that is lost, and a character that another one takes the place of.
LEMMA LostAlike ==
  ASSUME NEW v \in Typed, NEW press \in Press
  PROVE  Alike(KeyDone(v, press), v)
<1>1. v.bad \in Nat /\ One(~IsCommand(v.open)) \in {0, 1}
  BY OneType DEF Typed
<1>2. PICK b \in {0, 1} : KeyDone(v, press).bad = v.bad + b
  BY <1>1 DEF KeyDone
<1>3. v.bad =< KeyDone(v, press).bad + 0 /\ v.bad =< KeyDone(v, press).bad + 1
  BY <1>1, <1>2
<1> QED BY <1>3 DEF Alike, One

LEMMA WrongAlike ==
  ASSUME NEW v \in Typed, NEW press \in Press, NEW wrong \in Press, press.key = "char", wrong.key = "char"
  PROVE  Alike(KeyDone(v, press), KeyDone(v, wrong))
<1>1. v.bad \in Nat /\ KeyDone(v, press).bad = v.bad /\ KeyDone(v, wrong).bad = v.bad
  BY DEF Typed, KeyDone
<1>2. v.bad =< v.bad + 0 /\ v.bad =< v.bad + 1
  BY <1>1
<1> QED BY <1>1, <1>2 DEF Alike, One

\* f2 goes on where f ends, with one more key.
Extends(f2, f, n, press) ==
  /\ f2 \in [0 .. n + 1 -> Typed] /\ f2[n + 1] = KeyDone(f[n], press)
  /\ \A k \in 0 .. n : f2[k] = f[k]
  /\ \A k \in 0 .. n + 1 : k # n + 1 => k \in 0 .. n

LEMMA ExtensionExists ==
  ASSUME NEW n \in Nat, NEW f \in [0 .. n -> Typed], NEW press \in Press
  PROVE  \E f2 : Extends(f2, f, n, press)
<1> DEFINE f2 == [k \in 0 .. n + 1 |-> IF k = n + 1 THEN KeyDone(f[n], press) ELSE f[k]]
<1>1. /\ \A k \in 0 .. n + 1 : k # n + 1 => k \in 0 .. n
      /\ \A k \in 0 .. n : k \in 0 .. n + 1 /\ k # n + 1
      /\ n + 1 \in 0 .. n + 1 /\ n \in 0 .. n
  OBVIOUS
<1>2. KeyDone(f[n], press) \in Typed
  BY <1>1, KeyDoneType
<1>3. f2 \in [0 .. n + 1 -> Typed] /\ f2[n + 1] = KeyDone(f[n], press) /\ \A k \in 0 .. n : f2[k] = f[k]
  BY <1>1, <1>2
<1> HIDE DEF f2
<1>4. Extends(f2, f, n, press)
  BY <1>1, <1>3 DEF Extends
<1> QED BY <1>4

\* f is what the keys ks make of the line w.
KeysFollowed(f, ks, w) ==
  /\ f \in [0 .. Len(ks) -> Typed] /\ f[0] = w
  /\ \A k \in 1 .. Len(ks) : f[k] = KeyDone(f[k - 1], ks[k])

LEMMA ExtensionFollows ==
  ASSUME NEW n \in Nat, NEW f, NEW w, NEW press \in Press, NEW ks \in Seq(Press), NEW f2,
         Len(ks) = n, KeysFollowed(f, ks, w), Extends(f2, f, n, press)
  PROVE  /\ Len(Append(ks, press)) = n + 1
         /\ KeysFollowed(f2, Append(ks, press), w)
         /\ f2[n + 1] = KeyDone(f[n], press)
<1>0. f \in [0 .. n -> Typed] /\ f[0] = w /\ \A k \in 1 .. n : f[k] = KeyDone(f[k - 1], ks[k])
  BY DEF KeysFollowed
<1>1. PICK l : l = Append(ks, press) /\ Len(l) = n + 1 /\ l[n + 1] = press /\ \A k \in 1 .. n : l[k] = ks[k]
  <2>1. PICK l : l = Append(ks, press)
    OBVIOUS
  <2>2. Len(l) = n + 1 /\ l[n + 1] = press /\ \A k \in 1 .. n : l[k] = ks[k]
    BY <2>1
  <2> QED BY <2>1, <2>2
<1>2. \A k \in 1 .. n + 1 : f2[k] = KeyDone(f2[k - 1], l[k])
  <2> TAKE k \in 1 .. n + 1
  <2>1. CASE k = n + 1
    <3>1. k - 1 = n /\ n \in 0 .. n
      BY <2>1
    <3>2. f2[k] = KeyDone(f[n], press) /\ f2[k - 1] = f[n]
      BY <2>1, <3>1 DEF Extends
    <3> QED BY <1>1, <2>1, <3>2
  <2>2. CASE k # n + 1
    <3>1. k \in 1 .. n /\ k \in 0 .. n /\ k - 1 \in 0 .. n
      BY <2>2
    <3> QED BY <1>0, <1>1, <3>1 DEF Extends
  <2> QED BY <2>1, <2>2
<1>3. f2[0] = w
  <2>1. 0 \in 0 .. n
    OBVIOUS
  <2> QED BY <1>0, <2>1 DEF Extends
<1> QED BY <1>1, <1>2, <1>3 DEF Extends, KeysFollowed

\* What a request makes of a line is a line, and keeps two lines alike.
LEMMA RequestDoneType ==
  ASSUME NEW v \in Typed, NEW r, r.do = "sendkey" => r.key \in Press
  PROVE  RequestDone(v, r) \in Typed
BY KeyDoneType DEF RequestDone

\* The first m requests send keys, if any, and g is what they make of the line w.
SendKeys(rs, m) == \A k \in 1 .. m : rs[k].do = "sendkey" => rs[k].key \in Press

RequestsFollowed(g, rs, m, w) ==
  /\ g \in [0 .. m -> Typed] /\ g[0] = w
  /\ \A k \in 1 .. m : g[k] = RequestDone(g[k - 1], rs[k])

\* From every line the requests lead on.
LEMMA FollowsFrom ==
  ASSUME NEW m \in Nat, NEW rs, NEW w \in Typed, SendKeys(rs, m)
  PROVE  \E h : RequestsFollowed(h, rs, m, w)
<1> DEFINE G == [p \in Typed \X (1 .. m + 1) |-> IF p[2] = 1 THEN p[1] ELSE RequestDone(p[1], rs[p[2] - 1])]
<1>1. G \in [Typed \X (1 .. m + 1) -> Typed]
  <2> SUFFICES ASSUME NEW p \in Typed \X (1 .. m + 1)
               PROVE  (IF p[2] = 1 THEN p[1] ELSE RequestDone(p[1], rs[p[2] - 1])) \in Typed
    OBVIOUS
  <2>1. p[1] \in Typed /\ p[2] \in 1 .. m + 1
    OBVIOUS
  <2>2. p[2] # 1 => p[2] - 1 \in 1 .. m
    BY <2>1
  <2> QED BY <2>1, <2>2, RequestDoneType DEF SendKeys
<1>2. \A v \in Typed, k \in 1 .. m : G[<<v, k + 1>>] = RequestDone(v, rs[k])
  <2> TAKE v \in Typed, k \in 1 .. m
  <2>1. k + 1 \in 1 .. m + 1 /\ k + 1 # 1 /\ (k + 1) - 1 = k
    OBVIOUS
  <2>2. <<v, k + 1>> \in Typed \X (1 .. m + 1)
    BY <2>1
  <2> QED BY <2>1, <2>2
<1> HIDE DEF G
<1>3. PICK f \in [1 .. m + 1 -> Typed] : Iterates(f, m + 1, w, G)
  <2>1. m + 1 \in Nat
    OBVIOUS
  <2> HIDE DEF Iterates
  <2> QED BY <1>1, <2>1, IterationExists
<1> DEFINE h == [k \in 0 .. m |-> f[k + 1]]
<1>4. h \in [0 .. m -> Typed] /\ \A k \in 0 .. m : h[k] = f[k + 1]
  <2>1. \A k \in 0 .. m : k + 1 \in 1 .. m + 1
    OBVIOUS
  <2> QED BY <2>1
<1> HIDE DEF h
<1>5. h[0] = w
  <2>1. 0 \in 0 .. m /\ 0 + 1 = 1 /\ 1 \in 1 .. m + 1
    OBVIOUS
  <2>2. f[1] = w
    BY <1>3, <2>1 DEF Iterates
  <2> QED BY <1>4, <2>1, <2>2
<1>6. ASSUME NEW k \in 1 .. m PROVE h[k] = RequestDone(h[k - 1], rs[k])
  <2>1. k \in 0 .. m /\ k - 1 \in 0 .. m /\ (k - 1) + 1 = k /\ k + 1 \in 1 .. m + 1 /\ k + 1 # 1 /\ (k + 1) - 1 = k
    OBVIOUS
  <2>2. f[k + 1] = G[<<f[k], k + 1>>]
    BY <1>3, <2>1 DEF Iterates
  <2>3. h[k] = f[k + 1] /\ h[k - 1] = f[k] /\ f[k] \in Typed
    BY <1>4, <2>1
  <2> QED BY <1>2, <2>2, <2>3
<1> QED BY <1>4, <1>5, <1>6 DEF RequestsFollowed

\* Lines that are alike before the same requests are alike all along.
LEMMA AlikeAlong ==
  ASSUME NEW m \in Nat, NEW rs, NEW g, NEW h, NEW v0, NEW w0, SendKeys(rs, m),
         RequestsFollowed(g, rs, m, v0), RequestsFollowed(h, rs, m, w0), Alike(v0, w0)
  PROVE  \A k \in 0 .. m : Alike(g[k], h[k])
<1> DEFINE T == {k \in 0 .. m : Alike(g[k], h[k])}
<1>0. /\ g \in [0 .. m -> Typed] /\ h \in [0 .. m -> Typed] /\ g[0] = v0 /\ h[0] = w0
      /\ \A k \in 1 .. m : g[k] = RequestDone(g[k - 1], rs[k]) /\ h[k] = RequestDone(h[k - 1], rs[k])
  BY DEF RequestsFollowed
<1>1. 0 \in T
  BY <1>0
<1>2. ASSUME NEW k \in 0 .. m - 1, k \in T PROVE k + 1 \in T
  <2>1. k + 1 \in 1 .. m /\ k + 1 \in 0 .. m /\ (k + 1) - 1 = k /\ k \in 0 .. m
    OBVIOUS
  <2>0. PICK r : r = rs[k + 1]
    OBVIOUS
  <2>2. PICK v \in Typed, w \in Typed : v = g[k] /\ w = h[k] /\ (r.do = "sendkey" => r.key \in Press) /\ Alike(v, w)
    BY <1>0, <1>2, <2>0, <2>1 DEF SendKeys
  <2>3. g[k + 1] = RequestDone(v, r) /\ h[k + 1] = RequestDone(w, r)
    BY <1>0, <2>0, <2>1, <2>2
  <2>4. Alike(RequestDone(v, r), RequestDone(w, r))
    <3>1. CASE r.do = "sendkey"
      BY <2>2, <3>1, AlikeKey DEF RequestDone
    <3>2. CASE r.do # "sendkey"
      BY <2>2, <3>2 DEF RequestDone
    <3> QED BY <3>1, <3>2
  <2> QED BY <2>1, <2>3, <2>4
<1> HIDE DEF T
<1>3. 0 .. m \subseteq T
  BY <1>1, <1>2, UpTo
<1> QED BY <1>3 DEF T

\* The monitor hands a key to the guest.
LEMMA HandsKeyOver ==
  ASSUME Judging, Lines, Answer
  PROVE  Lines'
<1>1. PICK f, g : Follows(f, g)
  BY DEF Lines
<1>2. PICK n \in Nat, m \in Nat :
         /\ Len(keys) = n /\ keys \in Seq(Press)
         /\ Len(requests) = m + 1 /\ DOMAIN requests = 1 .. m + 1 /\ requests \in Seq(Asked) /\ requests # <<>>
  <2>1. requests \in Seq(Asked) /\ requests # <<>> /\ keys \in Seq(Press)
    BY DEF Judging, Types, Streams, Answer
  <2>2. Len(requests) - 1 \in Nat /\ Len(requests) = (Len(requests) - 1) + 1 /\ Len(keys) \in Nat
    BY <2>1
  <2>3. DOMAIN requests = 1 .. Len(requests)
    BY <2>1
  <2> QED BY <2>1, <2>2, <2>3
<1>3. /\ requests' = Tail(requests)
      /\ UNCHANGED <<typed, ran, guest, awaiting, stage, scenario, todo, timeouts>> /\ Budget \in Nat
  BY BudgetNat DEF Answer, progress
<1>4. /\ Len(requests') = m /\ \A k \in 1 .. m : requests'[k] = requests[k + 1] /\ k + 1 \in 1 .. m + 1
      /\ Head(requests) = requests[1] /\ 1 \in 1 .. m + 1
  BY <1>2, <1>3
<1> DEFINE g2 == [k \in 0 .. m |-> g[k + 1]]
<1>5. /\ g \in [0 .. m + 1 -> Typed] /\ g[0] = f[n]
      /\ \A k \in 1 .. m + 1 : g[k] = RequestDone(g[k - 1], requests[k])
      /\ \A k \in 0 .. m + 1 : g[k].bad =< Budget
      /\ CleanLine(g[m + 1]) \/ g[m + 1].bad < Budget
  BY <1>1, <1>2 DEF Follows
<1>6. \A k \in 0 .. m : k + 1 \in 0 .. m + 1 /\ k + 1 \in 1 .. m + 1
  BY <1>2
<1>7. g2 \in [0 .. m -> Typed] /\ g2[0] = g[1] /\ g2[m] = g[m + 1] /\ \A k \in 0 .. m : g2[k] = g[k + 1]
  <2>1. 0 \in 0 .. m /\ m \in 0 .. m /\ 0 + 1 = 1
    BY <1>2
  <2> QED BY <1>5, <1>6, <2>1
<1>8. \A k \in 1 .. m : g2[k] = RequestDone(g2[k - 1], requests'[k])
  <2> TAKE k \in 1 .. m
  <2>1. k \in 0 .. m /\ k - 1 \in 0 .. m /\ (k - 1) + 1 = k /\ (k + 1) - 1 = k /\ k + 1 \in 1 .. m + 1
    BY <1>2
  <2>2. g2[k] = g[k + 1] /\ g2[k - 1] = g[k]
    BY <1>7, <2>1
  <2>3. g[k + 1] = RequestDone(g[k], requests[k + 1])
    BY <1>5, <2>1
  <2> QED BY <1>4, <2>2, <2>3
<1> HIDE DEF g2
<1>9. \A k \in 0 .. m : g2[k].bad =< Budget
  BY <1>5, <1>6, <1>7
<1>10. CleanLine(g2[m])' \/ g2[m].bad < Budget
  <2>1. PICK v : v = g2[m]
    OBVIOUS
  <2>2. CleanLine(v) \/ v.bad < Budget
    BY <1>5, <1>7, <2>1
  <2>3. CleanLine(v)' = CleanLine(v)
    BY <1>3 DEF CleanLine, Sent
  <2> QED BY <1>3, <2>1, <2>2, <2>3
<1>11. Got' = Got
  BY <1>3 DEF Got, Broken, IsCommand
<1>12. /\ f \in [0 .. n -> Typed] /\ f[0] = Got /\ \A k \in 1 .. n : f[k] = KeyDone(f[k - 1], keys[k])
       /\ \A k \in 0 .. n : f[k].bad =< Budget
  BY <1>1, <1>2 DEF Follows
<1>13. PICK ks \in Seq(Press) : ks = keys
  BY <1>2
<1>14. Len(ks) = n /\ KeysFollowed(f, ks, f[0])
  BY <1>2, <1>12, <1>13 DEF KeysFollowed
<1>15. g[1] = RequestDone(f[n], requests[1])
  <2>1. 1 \in 1 .. m + 1 /\ 1 - 1 = 0
    BY <1>2
  <2> QED BY <1>5, <2>1
<1>16. CASE requests[1].do # "sendkey"
  <2>1. keys' = keys /\ Budget' = Budget
    BY <1>3, <1>4, <1>16 DEF Answer, controller, Budget
  <2>2. g2[0] = f[n]
    BY <1>7, <1>15, <1>16 DEF RequestDone
  <2>3. Follows(f, g2)'
    BY <1>2, <1>3, <1>4, <1>7, <1>8, <1>9, <1>10, <1>11, <1>12, <2>1, <2>2 DEF Follows
  <2> QED BY <1>3, <2>3 DEF Lines
<1>17. CASE requests[1].do = "sendkey"
  <2>1. PICK press \in Press : press = requests[1].key
    BY <1>2, <1>4, <1>17 DEF Judging, Types, Streams
  <2>2. Struck(press) \/ Spoilt(press)
    <3>1. Strike(press)
      BY <1>4, <1>17, <2>1 DEF Answer
    <3> QED BY <3>1, StrikeKinds
  <2>3. g2[0] = KeyDone(f[n], press)
    BY <1>7, <1>15, <1>17, <2>1 DEF RequestDone
  <2>4. CASE Struck(press)
    <3>1. keys' = Append(keys, press) /\ Budget' = Budget
      BY <1>3, <2>4 DEF Struck, Budget
    <3>2. PICK f2 : Extends(f2, f, n, press)
      BY <1>12, ExtensionExists
    <3>3. /\ Len(keys') = n + 1 /\ f2 \in [0 .. n + 1 -> Typed] /\ f2[0] = Got' /\ f2[n + 1] = g2[0]
          /\ \A k \in 1 .. n + 1 : f2[k] = KeyDone(f2[k - 1], keys'[k])
      <4>1. /\ Len(Append(ks, press)) = n + 1 /\ KeysFollowed(f2, Append(ks, press), f[0])
            /\ f2[n + 1] = KeyDone(f[n], press)
        BY <1>14, <3>2, ExtensionFollows
      <4> QED BY <1>11, <1>12, <1>13, <2>3, <3>1, <4>1 DEF KeysFollowed
    <3>4. \A k \in 0 .. n + 1 : f2[k].bad =< Budget
      <4>1. f2[n + 1].bad =< Budget
        <5>1. 0 \in 0 .. m
          BY <1>2
        <5> QED BY <1>9, <3>3, <5>1
      <4> QED BY <1>12, <3>2, <4>1 DEF Extends
    <3>5. Follows(f2, g2)'
      BY <1>3, <1>4, <1>7, <1>8, <1>9, <1>10, <3>1, <3>3, <3>4 DEF Follows
    <3> QED BY <1>3, <3>5 DEF Lines
  <2>5. CASE Spoilt(press)
    <3>1. Budget' = Budget + 1
      <4>1. timeouts \in Nat /\ spoilt \in Nat
        BY DEF Judging, InOrder, Types, Streams
      <4> QED BY <1>3, <2>5, <4>1 DEF Spoilt, Budget
    <3>2. PICK v \in Typed : v = f[n] /\ v.bad \in Nat /\ v.bad =< Budget
      <4>1. n \in 0 .. n
        BY <1>2
      <4>2. f[n] \in Typed /\ f[n].bad =< Budget
        BY <1>12, <4>1
      <4> QED BY <4>2 DEF Typed
    <3>3. PICK w \in Typed : Alike(KeyDone(v, press), w) /\ \E f2 : LeadsTo(f2, keys', Got', w)
      <4>1. CASE keys' = keys
        <5>1. LeadsTo(f, keys, Got, v)
          BY <1>2, <1>12, <3>2 DEF LeadsTo
        <5> QED BY <1>11, <4>1, <5>1, LostAlike
      <4>2. ASSUME NEW wrong \in Press, press.key = "char", wrong.key = "char", keys' = Append(keys, wrong)
            PROVE  \E w \in Typed : Alike(KeyDone(v, press), w) /\ \E f2 : LeadsTo(f2, keys', Got', w)
        <5>1. PICK f2 : Extends(f2, f, n, wrong)
          BY <1>12, ExtensionExists
        <5>2. /\ Len(keys') = n + 1 /\ f2 \in [0 .. n + 1 -> Typed] /\ f2[0] = Got'
              /\ f2[n + 1] = KeyDone(f[n], wrong)
              /\ \A k \in 1 .. n + 1 : f2[k] = KeyDone(f2[k - 1], keys'[k])
          <6>1. /\ Len(Append(ks, wrong)) = n + 1 /\ KeysFollowed(f2, Append(ks, wrong), f[0])
                /\ f2[n + 1] = KeyDone(f[n], wrong)
            BY <1>14, <5>1, ExtensionFollows
          <6> QED BY <1>11, <1>12, <1>13, <4>2, <6>1 DEF KeysFollowed
        <5>3. PICK w \in Typed : w = KeyDone(v, wrong) /\ w.bad = v.bad
          <6>1. KeyDone(v, wrong) \in Typed /\ KeyDone(v, wrong).bad = v.bad
            BY <4>2, KeyDoneType DEF KeyDone
          <6> QED BY <6>1
        <5>4. \A k \in 0 .. n + 1 : f2[k].bad =< Budget
          BY <1>12, <3>2, <5>1, <5>2, <5>3 DEF Extends
        <5>5. Alike(KeyDone(v, press), w)
          <6>1. Alike(KeyDone(v, press), KeyDone(v, wrong))
            BY <4>2, WrongAlike
          <6> QED BY <5>3, <6>1
        <5>6. LeadsTo(f2, keys', Got', w)
          BY <1>11, <1>12, <3>2, <4>2, <5>2, <5>3, <5>4 DEF LeadsTo
        <5> QED BY <5>5, <5>6
      <4>3. UNCHANGED keys \/ \E wrong \in Press : press.key = "char" /\ wrong.key = "char" /\ keys' = Append(keys, wrong)
        BY <2>5 DEF Spoilt
      <4> QED BY <4>1, <4>2, <4>3
    <3>4. PICK f2 : LeadsTo(f2, keys', Got', w)
      BY <3>3
    <3>5. PICK n2 \in Nat : n2 = Len(keys')
      <4>1. Judging'
        BY AnswerJudging
      <4>2. keys' \in Seq(Press)
        BY <4>1 DEF Judging, Types, Streams
      <4> QED BY <4>2
    <3>6. PICK rs : rs = requests' /\ SendKeys(rs, m)
      <4>1. \A k \in 1 .. m + 1 : requests[k].do = "sendkey" => requests[k].key \in Press
        BY <1>2 DEF Judging, Types, Streams
      <4>2. PICK rs : rs = requests'
        OBVIOUS
      <4>3. \A k \in 1 .. m : rs[k].do = "sendkey" => rs[k].key \in Press
        BY <1>4, <4>1, <4>2
      <4> QED BY <4>2, <4>3 DEF SendKeys
    <3>7. PICK h : RequestsFollowed(h, rs, m, w)
      BY <3>6, FollowsFrom
    <3>8. \A k \in 0 .. m : Alike(g2[k], h[k])
      <4>1. RequestsFollowed(g2, rs, m, KeyDone(v, press))
        BY <1>7, <1>8, <2>3, <3>2, <3>6 DEF RequestsFollowed
      <4> QED BY <3>3, <3>6, <3>7, <4>1, AlikeAlong
    <3>9. \A k \in 0 .. m : /\ g2[k] \in Typed /\ h[k] \in Typed /\ g2[k].bad \in Nat /\ h[k].bad \in Nat
                            /\ h[k].bad =< g2[k].bad + 1 /\ (h[k].open # g2[k].open => h[k].bad =< g2[k].bad)
      <4> TAKE k \in 0 .. m
      <4>1. PICK a \in Typed, b \in Typed : a = g2[k] /\ b = h[k] /\ Alike(a, b)
        BY <1>7, <3>7, <3>8 DEF RequestsFollowed
      <4>2. a.bad \in Nat /\ b.bad \in Nat
        BY DEF Typed
      <4>3. b.bad =< a.bad + 1 /\ (b.open # a.open => b.bad =< a.bad)
        BY <4>1, <4>2 DEF Alike, One
      <4> QED BY <4>1, <4>2, <4>3
    <3>10. \A k \in 0 .. m : h[k].bad =< Budget'
      BY <1>3, <1>9, <3>1, <3>9
    <3>11. CleanLine(h[m])' \/ h[m].bad < Budget'
      <4>1. m \in 0 .. m
        BY <1>2
      <4>2. PICK a \in Typed, b \in Typed : a = g2[m] /\ b = h[m]
        BY <3>9, <4>1
      <4>3. /\ a.bad \in Nat /\ b.bad \in Nat /\ b.bad =< a.bad + 1 /\ (b.open # a.open => b.bad =< a.bad)
            /\ a.bad =< Budget
        BY <1>9, <3>9, <4>1, <4>2
      <4>4. CleanLine(a)' \/ a.bad < Budget
        BY <1>10, <4>2
      <4>5. CleanLine(a)' /\ b.open = a.open => CleanLine(b)'
        BY DEF CleanLine
      <4>6. CleanLine(b)' \/ b.bad < Budget + 1
        BY <1>3, <4>3, <4>4, <4>5
      <4> QED BY <3>1, <4>2, <4>6
    <3>12. \A k \in 0 .. n2 : f2[k].bad =< Budget'
      <4>1. \A k \in 0 .. n2 : f2[k].bad \in Nat /\ f2[k].bad =< Budget
        BY <3>4, <3>5 DEF Typed, LeadsTo
      <4> QED BY <1>3, <3>1, <4>1
    <3>13. Follows(f2, h)'
      BY <1>4, <3>6, <3>7, <3>10, <3>11, <3>12, <3>4, <3>5 DEF Follows, LeadsTo, RequestsFollowed
    <3> QED BY <1>3, <3>13 DEF Lines
  <2> QED BY <2>2, <2>4, <2>5
<1> QED BY <1>16, <1>17

\* The test sends a key, or asks for something else.
LEMMA SendsKey ==
  ASSUME Judging, Typing, Lines, Send
  PROVE  Lines'
<1>1. PICK f, g : Follows(f, g)
  BY DEF Lines
<1>2. PICK n \in Nat, m \in Nat :
         /\ Len(keys) = n /\ keys \in Seq(Press)
         /\ Len(requests) = m /\ DOMAIN requests = 1 .. m /\ requests \in Seq(Asked)
  BY KeysSizes
<1>3. UNCHANGED <<keys, typed, guest, ran, stage, scenario, todo>> /\ Budget' = Budget /\ ~awaiting /\ awaiting' = TRUE
  BY DEF Send, progress, guestVars, controller, Budget
<1>4. PICK r : requests' = Append(requests, r) /\ r.do = Request.do /\ r.key = Request.key
  <2>1. PICK r : r = [id |-> sent + 1, do |-> Request.do, key |-> Request.key]
    OBVIOUS
  <2>2. requests' = Append(requests, r) /\ r.do = Request.do /\ r.key = Request.key
    BY <2>1 DEF Send
  <2> QED BY <2>2
<1>5. requests' \in Seq(Asked) /\ Len(requests') = m + 1 /\ requests'[m + 1] = r /\ \A k \in 1 .. m : requests'[k] = requests[k]
  <2>1. Types'
    BY SendTypes DEF Judging, InOrder
  <2>2. requests' \in Seq(Asked)
    BY <2>1 DEF Types, Streams
  <2>3. PICK R : R = Seq(Asked \cup {r}) /\ requests \in R
    BY <1>2
  <2> QED BY <1>2, <1>4, <2>2, <2>3
<1>6. /\ g \in [0 .. m -> Typed] /\ g[0] = f[n]
      /\ \A k \in 1 .. m : g[k] = RequestDone(g[k - 1], requests[k])
      /\ \A k \in 0 .. m : g[k].bad =< Budget
      /\ CleanLine(g[m]) \/ g[m].bad < Budget
  BY <1>1, <1>2 DEF Follows
<1>7. PICK v \in Typed : v = g[m]
  <2>1. m \in 0 .. m
    BY <1>2
  <2> QED BY <1>6, <2>1
<1>8. v.open \in Seq(Source) /\ v.bad \in Nat /\ v.bad =< Budget /\ Budget \in Nat /\ (CleanLine(v) \/ v.bad < Budget)
  <2>1. m \in 0 .. m
    BY <1>2
  <2>2. v.bad =< Budget /\ (CleanLine(v) \/ v.bad < Budget)
    BY <1>6, <1>7, <2>1
  <2> QED BY <1>7, <2>2, BudgetNat DEF Typed
<1>9. PICK w : w = RequestDone(v, r)
  OBVIOUS
<1>10. w \in Typed /\ w.bad =< Budget /\ (CleanLine(w)' \/ w.bad < Budget)
  <2>1. CASE stage # "type"
    <3>1. r.do # "sendkey"
      <4>1. stage \in Stage \ {"connect", "type", "done"}
        BY <1>3, <2>1 DEF Judging, Types, Progress, Send
      <4> QED BY <1>4, <4>1 DEF Request, Stage
    <3>2. w = v
      BY <1>9, <3>1 DEF RequestDone
    <3>3. CleanLine(v) => CleanLine(v)'
      BY <1>3, <2>1 DEF CleanLine
    <3>4. CleanLine(w)' <=> CleanLine(v)'
      BY <3>2 DEF CleanLine
    <3> QED BY <1>8, <3>2, <3>3, <3>4
  <2>2. CASE stage = "type"
    <3>1. Request = [do |-> "sendkey", key |-> [key |-> Head(todo), by |-> scenario]]
      BY <2>2 DEF Request
    <3>2. todo \in Seq(Key) /\ todo # <<>> /\ scenario \in S
      BY <2>2 DEF Judging, Types, Progress
    <3>3. PICK L \in Nat, c \in Nat :
             L = Len(todo) /\ c = Scenarios[scenario].chars /\ c # 0 /\ 1 =< L /\ L =< c + 1 /\ Head(todo) = todo[1]
      <4>1. Len(todo) \in Nat /\ 1 =< Len(todo) /\ Head(todo) = todo[1]
        BY <3>2
      <4>2. Len(todo) =< Scenarios[scenario].chars + 1 /\ Scenarios[scenario].chars \in Nat /\ Scenarios[scenario].chars # 0
        BY <2>2, <3>2, CharsNat DEF Typing
      <4> QED BY <4>1, <4>2
    <3>4. Head(todo) = IF 1 = L THEN "ret" ELSE "char"
      <4>1. 1 \in 1 .. L
        BY <3>3
      <4> QED BY <2>2, <3>3, <4>1 DEF Typing
    <3>5. w = KeyDone(v, [key |-> Head(todo), by |-> scenario])
      BY <1>4, <1>9, <3>1 DEF RequestDone
    <3>6. Sent = c + 1 - L + 0 /\ Sent' = c + 1 - L + 1
      <4>1. One(awaiting) = 0 /\ One(awaiting)' = 1
        BY <1>3 DEF One
      <4>2. Len(todo)' = L /\ Scenarios[scenario]'.chars = c
        BY <1>3, <3>3
      <4> QED BY <1>3, <3>3, <4>1, <4>2 DEF Sent
    <3>7. PICK p \in Nat : p = c + 1 - L /\ Sent = p /\ Sent' = p + 1 /\ p =< c /\ (L = 1 <=> p = c)
      <4>1. c + 1 - L \in Nat /\ c + 1 - L + 0 = c + 1 - L /\ c + 1 - L =< c /\ (L = 1 <=> c + 1 - L = c)
        BY <3>3
      <4> QED BY <3>6, <4>1
    <3>8. CleanLine(v) => v.open = Of(scenario, p)
      BY <2>2, <3>3, <3>7 DEF CleanLine
    <3>9. CASE L = 1
      <4>1. w = [open |-> <<>>, bad |-> v.bad + One(~IsCommand(v.open))]
        BY <3>4, <3>5, <3>9 DEF KeyDone
      <4>2. One(~IsCommand(v.open)) \in {0, 1} /\ (CleanLine(v) => One(~IsCommand(v.open)) = 0)
        <5>1. CleanLine(v) => IsCommand(v.open)
          BY <3>2, <3>3, <3>7, <3>8, <3>9 DEF IsCommand
        <5> QED BY <5>1 DEF One
      <4>3. PICK b \in {0, 1} : b = One(~IsCommand(v.open)) /\ (CleanLine(v) => b = 0)
        BY <4>2
      <4>4. v.bad + b \in Nat /\ v.bad + b =< Budget
        <5>1. CASE CleanLine(v)
          <6>1. b = 0
            BY <4>3, <5>1
          <6> QED BY <1>8, <6>1
        <5>2. CASE v.bad < Budget
          BY <1>8, <5>2
        <5> QED BY <1>8, <5>1, <5>2
      <4>5. w \in Typed /\ w.bad = v.bad + b /\ w.open = <<>>
        BY <4>1, <4>3, <4>4 DEF Typed
      <4>6. ~(Sent' =< c)
        BY <3>7, <3>9
      <4>7. CleanLine(w)'
        <5>1. Scenarios[scenario]'.chars = c
          BY <1>3, <3>3
        <5> QED BY <4>5, <4>6, <5>1 DEF CleanLine
      <4> QED BY <4>4, <4>5, <4>7
    <3>10. CASE L # 1
      <4>1. w = [open |-> Stored(v.open, scenario), bad |-> v.bad]
        BY <3>4, <3>5, <3>10 DEF KeyDone
      <4>2. Stored(v.open, scenario) \in Seq(Source)
        <5>1. scenario \in Source
          BY <3>2 DEF Source
        <5> QED BY <1>8, <5>1, StoredType
      <4>3. w \in Typed /\ w.bad = v.bad /\ w.open = Stored(v.open, scenario)
        BY <1>8, <4>1, <4>2 DEF Typed
      <4>4. CleanLine(v) => CleanLine(w)'
        <5>1. SUFFICES ASSUME CleanLine(v) PROVE CleanLine(w)'
          OBVIOUS
        <5>2. w.open = Of(scenario, p + 1)
          BY <3>2, <3>8, <4>3, <5>1, OfType
        <5>3. p + 1 =< c
          BY <3>3, <3>7, <3>10
        <5>4. Scenarios[scenario]'.chars = c /\ Sent' = p + 1
          BY <1>3, <3>3, <3>7
        <5>5. Of(scenario, Sent)' = Of(scenario, p + 1)
          BY <1>3, <5>4 DEF Of
        <5> QED BY <1>3, <2>2, <5>2, <5>3, <5>4, <5>5 DEF CleanLine
      <4> QED BY <1>8, <4>3, <4>4
    <3> QED BY <3>9, <3>10
  <2> QED BY <2>1, <2>2
<1> DEFINE g2 == [k \in 0 .. m + 1 |-> IF k = m + 1 THEN w ELSE g[k]]
<1>11. /\ \A k \in 0 .. m + 1 : k = m + 1 \/ (k \in 0 .. m /\ k # m + 1)
       /\ m \in 0 .. m + 1 /\ m # m + 1 /\ 0 \in 0 .. m + 1 /\ 0 # m + 1 /\ m + 1 \in 0 .. m + 1
  BY <1>2
<1>12. g2 \in [0 .. m + 1 -> Typed] /\ g2[0] = g[0] /\ g2[m + 1] = w /\ \A k \in 0 .. m : g2[k] = g[k]
  <2>1. g2 \in [0 .. m + 1 -> Typed]
    BY <1>6, <1>10, <1>11
  <2>2. g2[0] = g[0] /\ g2[m + 1] = w /\ \A k \in 0 .. m : g2[k] = g[k]
    BY <1>2, <1>11
  <2> QED BY <2>1, <2>2
<1> HIDE DEF g2
<1>13. \A k \in 1 .. m + 1 : g2[k] = RequestDone(g2[k - 1], requests'[k])
  <2> TAKE k \in 1 .. m + 1
  <2>1. CASE k = m + 1
    <3>1. k - 1 = m /\ m \in 0 .. m
      BY <1>2, <2>1
    <3> QED BY <1>5, <1>7, <1>9, <1>12, <2>1, <3>1
  <2>2. CASE k # m + 1
    <3>1. k \in 1 .. m /\ k \in 0 .. m /\ k - 1 \in 0 .. m
      BY <1>2, <2>2
    <3> QED BY <1>5, <1>6, <1>12, <3>1
  <2> QED BY <2>1, <2>2
<1>14. \A k \in 0 .. m + 1 : g2[k].bad =< Budget
  BY <1>6, <1>10, <1>11, <1>12
<1>15. Got' = Got
  BY <1>3 DEF Got, Broken, IsCommand
<1>16. CleanLine(g2[m + 1])' \/ g2[m + 1].bad < Budget
  <2>1. CleanLine(g2[m + 1])' <=> CleanLine(w)'
    BY <1>12 DEF CleanLine
  <2> QED BY <1>10, <1>12, <2>1
<1>17. /\ f \in [0 .. n -> Typed] /\ f[0] = Got /\ \A k \in 1 .. n : f[k] = KeyDone(f[k - 1], keys[k])
       /\ \A k \in 0 .. n : f[k].bad =< Budget
  BY <1>1, <1>2 DEF Follows
<1>18. Follows(f, g2)'
  BY <1>2, <1>3, <1>5, <1>6, <1>12, <1>13, <1>14, <1>15, <1>16, <1>17 DEF Follows
<1> QED BY <1>3, <1>18 DEF Lines

\* The guest prompts, or runs a line that was counted when it took the return.
LEMMA RunsLine ==
  ASSUME Judging, Lines, Prompt \/ RunLine
  PROVE  Lines'
<1>1. UNCHANGED <<keys, requests, stage, scenario, todo, awaiting>> /\ Budget' = Budget
  BY DEF Prompt, RunLine, test, progress, controller, Budget
<1>2. Budget' = Budget /\ \A v : CleanLine(v) => CleanLine(v)'
  BY <1>1 DEF CleanLine, Sent
<1>3. ran \in Seq(Seq(Source)) /\ typed \in Seq(Source)
  BY DEF Lines, Judging, Types, Streams
<1>4. ran' \in Seq(Seq(Source)) /\ Got' = Got
  <2>1. CASE Prompt
    <3>1. /\ guest # "editing" /\ guest # "running" /\ guest' = "editing" /\ typed' = <<>> /\ ran' = ran
          /\ guest' # "running"
      BY <2>1 DEF Prompt
    <3>2. One(guest = "running" /\ ~IsCommand(typed)) = 0
      BY <3>1 DEF One
    <3>3. One(guest = "running" /\ ~IsCommand(typed))' = 0
      BY <3>1 DEF One
    <3>4. Broken(ran)' = Broken(ran)
      BY <3>1 DEF Broken, IsCommand
    <3> QED BY <1>3, <3>1, <3>2, <3>3, <3>4 DEF Got
  <2>2. CASE RunLine
    <3>1. /\ guest = "running" /\ guest' = "printed" /\ ran' = Append(ran, typed) /\ typed' = typed
          /\ guest # "editing" /\ guest' # "editing" /\ guest' # "running"
      BY <2>2 DEF RunLine
    <3>2. PICK c \in Nat : c = Cardinality(Broken(ran))
      BY <1>3, BrokenFinite
    <3>3. PICK b \in {0, 1} : b = One(~IsCommand(typed))
      BY OneType
    <3>4. One(guest = "running" /\ ~IsCommand(typed)) = b
      BY <3>1, <3>3 DEF One
    <3>5. One(guest = "running" /\ ~IsCommand(typed))' = 0
      BY <3>1 DEF One
    <3>6. Cardinality(Broken(ran))' = c + b
      <4>1. Broken(ran)' = Broken(Append(ran, typed))
        BY <3>1 DEF Broken, IsCommand
      <4> QED BY <1>3, <3>2, <3>3, <4>1, BrokenOneMore
    <3>7. Got = [open |-> <<>>, bad |-> c + b]
      BY <3>1, <3>2, <3>4 DEF Got
    <3>8. Got' = [open |-> <<>>, bad |-> (c + b) + 0]
      BY <3>1, <3>5, <3>6 DEF Got
    <3>9. (c + b) + 0 = c + b /\ Append(ran, typed) \in Seq(Seq(Source))
      BY <1>3, <3>2
    <3> QED BY <3>1, <3>7, <3>8, <3>9
  <2> QED BY <2>1, <2>2
<1> QED BY <1>1, <1>2, <1>4, SameKeys

\* What follows on an answer, as far as keys are concerned.
LEMMA HandleKinds ==
  ASSUME NEW text, Handle(text)
  PROVE  PromptSeen(text) \/ KeySent \/ (stage # "type" /\ stage' # "type")
<1>1. NextScenario => stage' # "type"
  BY DEF NextScenario
<1>2. Connected \/ ShotTaken => stage # "type" /\ NextScenario
  BY DEF Connected, ShotTaken, Pass, Fail
<1>3. Wait(text) => stage # "type" /\ (NextScenario \/ stage' = stage)
  BY DEF Wait, Fail
<1>4. AfterCheck => stage' # "type"
  BY <1>1 DEF AfterCheck, Go, Pass
<1>5. Look(text) \/ Check(text) => stage # "type" /\ stage' # "type"
  BY <1>1, <1>4 DEF Look, Check, Fail, Go
<1>6. Finished => stage # "type" /\ stage' # "type"
  BY DEF Finished
<1> QED BY <1>1, <1>2, <1>3, <1>5, <1>6 DEF Handle

\* The keys of a scenario are its characters and the return.
LEMMA KeysOfLine ==
  ASSUME NEW s \in S, KeysOf(s) # <<>>
  PROVE  /\ Len(KeysOf(s)) = Scenarios[s].chars + 1 /\ Scenarios[s].chars # 0
         /\ \A i \in 1 .. Len(KeysOf(s)) : KeysOf(s)[i] = IF i = Len(KeysOf(s)) THEN "ret" ELSE "char"
<1>1. PICK n \in Nat : n = Scenarios[s].chars
  BY CharsNat
<1>2. PICK chars \in Seq({"char"}) : chars = [i \in 1 .. n |-> "char"]
  <2>1. [i \in 1 .. n |-> "char"] \in [1 .. n -> {"char"}]
    OBVIOUS
  <2>2. [i \in 1 .. n |-> "char"] \in Seq({"char"})
    BY <2>1
  <2> QED BY <2>2
<1>3. Len(chars) = n /\ \A i \in 1 .. n : chars[i] = "char"
  BY <1>2
<1>4. KeysOf(s) = chars \o <<"ret">> /\ n # 0
  BY <1>1, <1>2 DEF KeysOf
<1>5. PICK all \in Seq(Key) : all = chars \o <<"ret">>
  BY <1>4, KeysOfType
<1>6. /\ Len(all) = n + 1 /\ all[n + 1] = "ret" /\ \A i \in 1 .. n : all[i] = "char"
  BY <1>2, <1>3, <1>5
<1>7. \A i \in 1 .. n + 1 : i \in 1 .. n \/ i = n + 1
  OBVIOUS
<1>8. \A i \in 1 .. n + 1 : all[i] = IF i = n + 1 THEN "ret" ELSE "char"
  BY <1>6, <1>7
<1> QED BY <1>1, <1>4, <1>5, <1>6, <1>8

\* An answer leaves the last keys of the scenario to be typed.
LEMMA ReceiveTyping ==
  ASSUME Judging, Typing, NEW text, Handle(text)
  PROVE  Typing'
<1>1. CASE PromptSeen(text)
  <2>1. stage = "wait" /\ todo' = KeysOf(scenario) /\ scenario' = scenario /\ (stage' = "type" => todo' # <<>>)
    BY <1>1 DEF PromptSeen
  <2>2. scenario \in S
    BY <2>1 DEF Judging, Types, Progress
  <2>3. SUFFICES ASSUME stage' = "type" PROVE Typing'
    BY DEF Typing
  <2>4. /\ Len(todo') = Scenarios[scenario].chars + 1 /\ Scenarios[scenario].chars # 0
        /\ \A i \in 1 .. Len(todo') : todo'[i] = IF i = Len(todo') THEN "ret" ELSE "char"
    BY <2>1, <2>2, <2>3, KeysOfLine
  <2>5. Len(todo') =< Scenarios[scenario].chars + 1
    BY <2>2, <2>4, CharsNat
  <2> QED BY <2>1, <2>2, <2>4, <2>5 DEF Typing
<1>2. CASE KeySent
  <2>1. stage = "type" /\ todo' = Tail(todo) /\ scenario' = scenario
    BY <1>2 DEF KeySent
  <2>2. todo \in Seq(Key) /\ todo # <<>> /\ scenario \in S
    BY <2>1 DEF Judging, Types, Progress
  <2>3. PICK n \in Nat : /\ Len(todo) = n + 1 /\ Len(todo') = n
                         /\ \A i \in 1 .. n : todo'[i] = todo[i + 1] /\ i + 1 \in 1 .. n + 1
    <3>1. Len(todo) - 1 \in Nat /\ Len(todo) = (Len(todo) - 1) + 1
      BY <2>2
    <3>2. PICK n \in Nat : Len(todo) = n + 1
      BY <3>1
    <3> QED BY <2>1, <2>2, <3>2
  <2>4. /\ n + 1 =< Scenarios[scenario].chars + 1 /\ Scenarios[scenario].chars \in Nat /\ Scenarios[scenario].chars # 0
        /\ \A i \in 1 .. n + 1 : todo[i] = IF i = n + 1 THEN "ret" ELSE "char"
    BY <2>1, <2>2, <2>3, CharsNat DEF Typing
  <2>5. n =< Scenarios[scenario].chars + 1
    BY <2>4
  <2>6. \A i \in 1 .. n : todo'[i] = IF i = n THEN "ret" ELSE "char"
    <3>1. \A i \in 1 .. n : i + 1 = n + 1 <=> i = n
      OBVIOUS
    <3> QED BY <2>3, <2>4, <3>1
  <2> QED BY <2>1, <2>2, <2>3, <2>4, <2>5, <2>6 DEF Typing
<1>3. CASE stage' # "type"
  BY <1>3 DEF Typing
<1> QED BY <1>1, <1>2, <1>3, HandleKinds

\* An answer neither adds to the line nor takes from it.
LEMMA ReceiveClean ==
  ASSUME Judging, Typing, NEW text, Handle(text), awaiting = TRUE, awaiting' = FALSE, NEW v, CleanLine(v)
  PROVE  CleanLine(v)'
<1>0. One(awaiting) = 1 /\ One(awaiting)' = 0
  BY DEF One
<1>1. CASE PromptSeen(text)
  <2>1. stage = "wait" /\ todo' = KeysOf(scenario) /\ scenario' = scenario /\ (stage' = "type" => todo' # <<>>)
    BY <1>1 DEF PromptSeen
  <2>2. scenario \in S /\ v.open = <<>>
    BY <2>1 DEF Judging, Types, Progress, CleanLine
  <2>3. SUFFICES ASSUME stage' = "type" PROVE CleanLine(v)'
    BY <2>2 DEF CleanLine
  <2>4. PICK c \in Nat : c = Scenarios[scenario].chars
    BY <2>2, CharsNat
  <2>5. Len(todo') = c + 1
    BY <2>1, <2>2, <2>3, <2>4, KeysOfLine
  <2>6. Sent' = c + 1 - (c + 1) + 0
    BY <1>0, <2>1, <2>4, <2>5 DEF Sent
  <2>7. Sent' = 0 /\ 0 =< c
    BY <2>6
  <2>8. Of(scenario, Sent)' = <<>>
    <3>1. Of(scenario, Sent)' = Of(scenario, 0)
      BY <2>1, <2>7 DEF Of
    <3> QED BY <2>2, <3>1, OfType
  <2> QED BY <2>1, <2>2, <2>3, <2>4, <2>7, <2>8 DEF CleanLine
<1>2. CASE KeySent
  <2>1. /\ stage = "type" /\ todo' = Tail(todo) /\ scenario' = scenario
        /\ stage' = IF todo' = <<>> THEN "look" ELSE "type"
    BY <1>2 DEF KeySent
  <2>2. todo \in Seq(Key) /\ todo # <<>> /\ scenario \in S
    BY <2>1 DEF Judging, Types, Progress
  <2>3. PICK n \in Nat : Len(todo) = n + 1 /\ Len(todo') = n /\ (todo' = <<>> <=> n = 0)
    <3>1. Len(todo) - 1 \in Nat /\ Len(todo) = (Len(todo) - 1) + 1
      BY <2>2
    <3>2. PICK n \in Nat : Len(todo) = n + 1
      BY <3>1
    <3>3. todo' \in Seq(Key) /\ Len(todo') = n
      BY <2>1, <2>2, <3>2
    <3>4. todo' = <<>> <=> n = 0
      BY <3>3, EmptySeq
    <3> QED BY <3>2, <3>3, <3>4
  <2>4. PICK c \in Nat : c = Scenarios[scenario].chars
    BY <2>2, CharsNat
  <2>5. Sent = c + 1 - (n + 1) + 1 /\ Sent' = c + 1 - n + 0
    BY <1>0, <2>1, <2>3, <2>4 DEF Sent
  <2>6. Sent' = Sent /\ (n = 0 => ~(Sent =< c))
    BY <2>5
  <2>7. Of(scenario, Sent)' = Of(scenario, Sent)
    BY <2>1, <2>6 DEF Of
  <2>8. v.open = IF Sent =< c THEN Of(scenario, Sent) ELSE <<>>
    BY <2>1, <2>4 DEF CleanLine
  <2>9. CASE n = 0
    BY <2>1, <2>3, <2>6, <2>8, <2>9 DEF CleanLine
  <2>10. CASE n # 0
    BY <2>1, <2>3, <2>4, <2>6, <2>7, <2>8, <2>10 DEF CleanLine
  <2> QED BY <2>9, <2>10
<1>3. CASE stage # "type" /\ stage' # "type"
  BY <1>3 DEF CleanLine
<1> QED BY <1>1, <1>2, <1>3, HandleKinds

\* An answer is read, in time or not.
LEMMA ReceivesAnswer ==
  ASSUME Judging, Typing, Lines, Receive
  PROVE  Typing' /\ Lines'
<1>1. /\ Handle(Head(replies).text) /\ awaiting = TRUE /\ awaiting' = FALSE
      /\ UNCHANGED <<keys, typed, guest, ran, requests>> /\ Budget' = Budget
  BY DEF Receive, guestVars, controller, Handle, Judging, InOrder, Budget
<1>2. \A v : CleanLine(v) => CleanLine(v)'
  BY <1>1, ReceiveClean
<1>3. Got' = Got /\ ran' \in Seq(Seq(Source))
  BY <1>1 DEF Got, Broken, IsCommand, Lines
<1> QED BY <1>1, <1>2, <1>3, SameKeys, ReceiveTyping

\* A read is given up: the line may be broken from now on.
LEMMA GivesUp ==
  ASSUME Judging, Typing, Lines, TimeOut
  PROVE  Typing' /\ Lines'
<1>1. UNCHANGED <<keys, typed, guest, ran, requests>> /\ Budget' = Budget + 1
  <2>1. UNCHANGED <<keys, typed, guest, ran, requests, spoilt>> /\ timeouts' = timeouts + 1
    BY DEF TimeOut, guestVars, controller
  <2>2. timeouts \in Nat /\ spoilt \in Nat
    BY DEF Judging, InOrder, Types, Streams
  <2> QED BY <2>1, <2>2 DEF Budget
<1>2. Got' = Got /\ ran' \in Seq(Seq(Source))
  BY <1>1 DEF Got, Broken, IsCommand, Lines
<1>3. stage' # "type"
  BY DEF TimeOut, Fail, NextScenario
<1> QED BY <1>1, <1>2, <1>3, SameKeys DEF Typing

\* The invariant holds initially and after every step.
LEMMA LinesHold == Spec => [](Judging /\ Typing /\ Lines)
<1>1. Init /\ Judging => Typing /\ Lines
  <2> SUFFICES ASSUME Init, Judging PROVE Typing /\ Lines
    OBVIOUS
  <2>1. /\ keys = <<>> /\ requests = <<>> /\ ran = <<>> /\ stage = "connect" /\ guest = "booting" /\ Budget = 0
    BY DEF Init, Budget
  <2>2. Len(keys) = 0 /\ Len(requests) = 0 /\ ran \in Seq(Seq(Source)) /\ DOMAIN ran = {}
    BY <2>1
  <2>3. Got \in Typed /\ Got.open = <<>> /\ Got.bad = 0
    <3>1. Broken(ran) = {}
      BY <2>2 DEF Broken
    <3>2. Cardinality(Broken(ran)) = 0
      BY <3>1, FS_EmptySet
    <3>3. One(guest = "running" /\ ~IsCommand(typed)) = 0
      BY <2>1 DEF One
    <3>4. Got = [open |-> <<>>, bad |-> 0 + 0]
      BY <2>1, <3>2, <3>3 DEF Got
    <3> QED BY <2>2, <3>4, GotType
  <2> DEFINE f == [k \in 0 .. 0 |-> Got]
  <2>4. f \in [0 .. 0 -> Typed] /\ f[0] = Got /\ \A k \in 0 .. 0 : f[k] = Got
    BY <2>3
  <2> HIDE DEF f
  <2>5. CleanLine(f[0])
    BY <2>1, <2>3, <2>4 DEF CleanLine
  <2>6. \A k \in 0 .. 0 : f[k].bad =< Budget
    BY <2>1, <2>3, <2>4
  <2>7. Follows(f, f)
    BY <2>2, <2>4, <2>5, <2>6 DEF Follows
  <2>8. Typing
    BY <2>1 DEF Typing
  <2> QED BY <2>2, <2>7, <2>8 DEF Lines
<1>2. Judging /\ Judging' /\ Typing /\ Lines /\ [Next]_hvars => Typing' /\ Lines'
  <2> SUFFICES ASSUME Judging, Typing, Lines, [Next]_hvars PROVE Typing' /\ Lines'
    OBVIOUS
  <2>1. CASE UNCHANGED hvars
    <3>1. UNCHANGED <<keys, typed, guest, ran, requests, awaiting, stage, scenario, todo>> /\ Budget' = Budget
      BY <2>1 DEF hvars, guestVars, controller, test, progress, Budget
    <3>2. Typing'
      BY <3>1 DEF Typing
    <3>3. Got' = Got /\ ran' \in Seq(Seq(Source)) /\ \A v : CleanLine(v) => CleanLine(v)'
      BY <3>1 DEF Got, Broken, IsCommand, Lines, CleanLine, Sent
    <3> QED BY <3>1, <3>2, <3>3, SameKeys
  <2>2. CASE Guest \/ Answer \/ Send
    <3>1. UNCHANGED <<stage, scenario, todo>>
      BY <2>2 DEF Guest, Prompt, TakeKey, RunLine, Answer, Send, test, progress
    <3>2. Typing'
      BY <3>1 DEF Typing
    <3> QED BY <2>2, <3>2, RunsLine, TakesKey, HandsKeyOver, SendsKey DEF Guest
  <2> QED BY <2>1, <2>2, ReceivesAnswer, GivesUp DEF Next, Harness, Done
<1> QED BY <1>1, <1>2, JudgingHolds, PTL DEF Spec

\* Every line the guest runs is the command of one scenario, as much of it as fits a line,
\* but for one line per read that was given up and one per key that was lost or came out
\* wrong, for every suite of scenarios, every size of the controller and of the line, and
\* however late the monitor and the guest are with the keys.
THEOREM CommandsArriveWhole == Spec => []LinesAreCommands
<1>1. Judging /\ Lines => LinesAreCommands
  <2> SUFFICES ASSUME Judging, Lines PROVE LinesAreCommands
    OBVIOUS
  <2>1. PICK f, g : Follows(f, g)
    BY DEF Lines
  <2>2. PICK n \in Nat : Len(keys) = n
    BY KeysSizes
  <2>3. f[0] = Got /\ f[0].bad =< Budget
    <3>1. 0 \in 0 .. n
      OBVIOUS
    <3> QED BY <2>1, <2>2, <3>1 DEF Follows
  <2>4. PICK c \in Nat : c = Cardinality(Broken(ran))
    BY BrokenFinite DEF Lines
  <2>5. PICK b \in {0, 1} : b = One(guest = "running" /\ ~IsCommand(typed))
    BY OneType
  <2>6. c + b =< Budget /\ Budget \in Nat
    BY <2>3, <2>4, <2>5, BudgetNat DEF Got
  <2>7. c =< Budget
    BY <2>6
  <2>8. Broken(ran) = {i \in DOMAIN ran : ~\E s \in S : Scenarios[s].chars # 0 /\ ran[i] = Command(s)}
    BY DEF Broken, IsCommand, Of, Command
  <2> QED BY <2>4, <2>7, <2>8 DEF LinesAreCommands, Budget
<1> QED BY <1>1, LinesHold, PTL
-----------------------------------------------------------------------------
(***************************************************************************)
(* The machine that the tests meet: the scripts of module TestScripts, of  *)
(* which nothing is shared with the session that they start.               *)
(***************************************************************************)
\* Where each script is, as far as the machines depend on it: the container's script has
\* its machine to start, the tester's has not started its own; what ran before the
\* clean-up is gone, and only one machine has the port.
ScriptsInv ==
  /\ vm \in [Machine -> State] /\ status \in {"none", "error", "ok", "skipped", "tests failed"}
  /\ \A m, n \in Machine : vm[m] = "listening" /\ vm[n] = "listening" => m = n
  /\ starter = "start" => vm["container"] = "none"
  /\ tester \in {"look", "testing there", "clean", "start"} => vm["script"] = "none"
  /\ old \subseteq {"container"} /\ ("container" \in old => vm["container"] = "dead")
  /\ tester = "testing" => PortOpen
  /\ StopsItsVM

LEMMA ScriptsInitInv == ScriptsInit => ScriptsInv
BY DEF ScriptsInit, ScriptsInv, Machine, State, PortOpen, StopsItsVM, Running

LEMMA ScriptsNextInv == ScriptsInv /\ [ScriptsNext]_svars => ScriptsInv'
<1> SUFFICES ASSUME ScriptsInv, [ScriptsNext]_svars PROVE ScriptsInv'
  OBVIOUS
<1> USE DEF ScriptsInv, Machine, State, PortOpen, StopsItsVM, Running,
            settings, Exit, Kill
<1>1. CASE UNCHANGED svars
  BY <1>1 DEF svars
<1>2. ASSUME NEW m \in Machine, Bind(m) PROVE ScriptsInv'
  BY <1>2 DEF Bind
<1>3. CASE ContainerStart \/ WritePidfile
  BY <1>3 DEF ContainerStart, WritePidfile
<1>4. CASE LookForPid
  BY <1>4 DEF LookForPid
<1>5. CASE Clean
  BY <1>5 DEF Clean
<1>6. CASE Start
  BY <1>6 DEF Start
<1>7. CASE CheckAlive
  BY <1>7 DEF CheckAlive
<1>8. CASE WaitForPort
  BY <1>8 DEF WaitForPort
<1>9. CASE TestsPass
  BY <1>9 DEF TestsPass
<1>10. CASE TestsFail
  BY <1>10 DEF TestsFail
<1>11. CASE TestsPassThere
  BY <1>11 DEF TestsPassThere
<1>12. CASE Stop
  BY <1>12 DEF Stop
<1>13. CASE CloseWindow
  BY <1>13 DEF CloseWindow
<1> QED BY <1>1, <1>2, <1>3, <1>4, <1>5, <1>6, <1>7, <1>8, <1>9, <1>10, <1>11, <1>12, <1>13 DEF ScriptsNext

\* However the two scripts interleave, while integration-test.sh tests exactly one
\* machine answers on the monitor port, and it was started after the clean-up.
THEOREM TestsMeetOneFreshVM == ScriptsSpec => []TestsMeetFreshVM
<1>1. ScriptsInv => TestsMeetFreshVM
  BY DEF ScriptsInv, TestsMeetFreshVM, PortOpen, Machine
<1> QED BY <1>1, ScriptsInitInv, ScriptsNextInv, PTL DEF ScriptsSpec

\* When integration-test.sh ends, with success or because its machine did not come up,
\* that machine has ended, also when the tests ran against the machine of the container.
THEOREM ScriptStopsItsVM == ScriptsSpec => []StopsItsVM
<1>1. ScriptsInv => StopsItsVM
  BY DEF ScriptsInv
<1> QED BY <1>1, ScriptsInitInv, ScriptsNextInv, PTL DEF ScriptsSpec
=============================================================================
