---------------------------- MODULE TestScripts ----------------------------
(***************************************************************************)
(* How a virtual machine comes to the integration tests: the container's   *)
(* start script starts one and writes its process id down                  *)
(* (scripts/ci/container-start.sh), the test script of the container looks *)
(* for it (scripts/ci/inside-integration-test.sh) and else runs            *)
(* scripts/integration-test.sh, which stops what runs the same image and   *)
(* starts one of its own.  Both machines want the same monitor port.       *)
(***************************************************************************)
EXTENDS Naturals

CONSTANT
  MaxTries   \* connections tried before the script gives up (30)

ASSUME ScriptsAssumption == MaxTries \in Nat \ {0}

Machine == {"container", "script"}
\* "none" was not started, "starting" has no port yet.
State == {"none", "starting", "listening", "dead"}

VARIABLES
  HEADLESS, SKIP_TESTS, \* settings of integration-test.sh
  vm,       \* the QEMU process of each script
  pidfile,  \* it has been written
  starter,  \* where container-start.sh is; "absent" when the script is run without it
  tester,   \* where the test scripts are
  tries,    \* connections tried
  status    \* what the tester ended with

\* History variable: the machines that were running when the script began to clean up.
VARIABLE old

settings == <<HEADLESS, SKIP_TESTS>>
svars == <<settings, vm, pidfile, starter, tester, tries, status, old>>

\* Without the container there may be a machine that an earlier run has left.
ScriptsInit ==
  /\ starter \in {"start", "absent"}
  /\ \E left \in (IF starter = "absent" THEN {"none", "listening"} ELSE {"none"}) :
       vm = [m \in Machine |-> IF m = "container" THEN left ELSE "none"]
  /\ pidfile = FALSE
  /\ tester = (IF starter = "absent" THEN "clean" ELSE "look")
  /\ tries = 0 /\ status = "none" /\ old = {}
  /\ SKIP_TESTS \in BOOLEAN
  /\ HEADLESS \in (IF starter = "absent" THEN BOOLEAN ELSE {TRUE})

Running(m) == vm[m] \in {"starting", "listening"}
PortOpen == \E m \in Machine : vm[m] = "listening"

\* QEMU ends at once when it cannot have its monitor port.
Bind(m) ==
  /\ vm[m] = "starting"
  /\ vm' = [vm EXCEPT ![m] = IF PortOpen THEN "dead" ELSE "listening"]
  /\ UNCHANGED <<settings, pidfile, starter, tester, tries, status, old>>

(***************************************************************************)
(* container-start.sh                                                      *)
(***************************************************************************)
ContainerStart ==
  /\ starter = "start" /\ starter' = "started"
  /\ vm' = [vm EXCEPT !["container"] = "starting"]
  /\ UNCHANGED <<settings, pidfile, tester, tries, status, old>>

WritePidfile ==
  /\ starter = "started" /\ starter' = "waiting"
  /\ pidfile' = TRUE
  /\ UNCHANGED <<settings, vm, tester, tries, status, old>>

(***************************************************************************)
(* inside-integration-test.sh looks once.                                  *)
(***************************************************************************)
LookForPid ==
  /\ tester = "look"
  /\ tester' = IF pidfile /\ Running("container") THEN "testing there" ELSE "clean"
  /\ UNCHANGED <<settings, vm, pidfile, starter, tries, status, old>>

(***************************************************************************)
(* integration-test.sh                                                     *)
(***************************************************************************)
CleanNothing ==  \* mutant: no pkill
  /\ tester = "clean" /\ tester' = "start"
  /\ old' = {m \in Machine : Running(m)}
  /\ UNCHANGED <<settings, vm, pidfile, starter, tries, status>>

\* pkill finds every QEMU that was given the image; they are gone after the second that
\* the script sleeps.
Clean ==
  /\ tester = "clean" /\ tester' = "start"
  /\ old' = {m \in Machine : Running(m)}
  /\ vm' = [m \in Machine |-> IF Running(m) THEN "dead" ELSE vm[m]]
  /\ UNCHANGED <<settings, pidfile, starter, tries, status>>

Start ==
  /\ tester = "start" /\ tester' = "check"
  /\ vm' = [vm EXCEPT !["script"] = "starting"]
  /\ UNCHANGED <<settings, pidfile, starter, tries, status, old>>

Exit(code) == tester' = "done" /\ status' = code

CheckAlive ==
  /\ tester = "check"
  /\ IF Running("script") THEN tester' = "wait" /\ UNCHANGED status ELSE Exit("error")
  /\ UNCHANGED <<settings, vm, pidfile, starter, tries, old>>

Kill == vm' = [vm EXCEPT !["script"] = "dead"]

WaitLeaves ==  \* mutant: a machine that does not open its port is left behind
  /\ tester = "wait" /\ tries' = tries + 1
  /\ IF PortOpen
     THEN IF SKIP_TESTS THEN Exit("skipped") ELSE tester' = "testing" /\ UNCHANGED status
     ELSE IF tries' = MaxTries THEN Exit("error") ELSE UNCHANGED <<tester, status>>
  /\ UNCHANGED <<settings, vm, pidfile, starter, old>>

WaitForPort ==
  /\ tester = "wait" /\ tries' = tries + 1
  /\ IF PortOpen
     THEN /\ IF SKIP_TESTS THEN Exit("skipped") ELSE tester' = "testing" /\ UNCHANGED status
          /\ UNCHANGED vm
     ELSE IF tries' = MaxTries THEN Kill /\ Exit("error") ELSE UNCHANGED <<tester, status, vm>>
  /\ UNCHANGED <<settings, pidfile, starter, old>>

\* go test; set -e ends the script with it when a test fails.  In a window the machine
\* runs until it is closed.
TestsPass ==
  /\ tester = "testing" /\ PortOpen
  /\ tester' = IF HEADLESS THEN "stop" ELSE "window"
  /\ UNCHANGED <<settings, vm, pidfile, starter, tries, status, old>>

TestsFail ==
  /\ tester \in {"testing", "testing there"}
  /\ Exit("tests failed")
  /\ UNCHANGED <<settings, vm, pidfile, starter, tries, old>>

TestsPassThere ==
  /\ tester = "testing there" /\ PortOpen
  /\ Exit("ok")
  /\ UNCHANGED <<settings, vm, pidfile, starter, tries, old>>

Stop ==
  /\ tester = "stop" \/ (tester = "window" /\ ~Running("script"))
  /\ Exit("ok")
  /\ IF tester = "stop" THEN Kill ELSE UNCHANGED vm
  /\ UNCHANGED <<settings, pidfile, starter, tries, old>>

CloseWindow ==
  /\ tester = "window" /\ Running("script")
  /\ Kill
  /\ UNCHANGED <<settings, pidfile, starter, tester, tries, status, old>>

ScriptsNext ==
  \/ \E m \in Machine : Bind(m)
  \/ ContainerStart \/ WritePidfile
  \/ LookForPid \/ Clean \/ Start \/ CheckAlive \/ WaitForPort
  \/ TestsPass \/ TestsFail \/ TestsPassThere \/ Stop \/ CloseWindow

ScriptsSpec == ScriptsInit /\ [][ScriptsNext]_svars

(***************************************************************************)
(* Properties.                                                             *)
(***************************************************************************)
\* While the script of integration-test.sh tests, one machine answers on the monitor
\* port, and it is one that was started after the script had cleaned up, whichever of
\* the two scripts started it: no test runs against a disk image or a screen of an
\* earlier run.
TestsMeetFreshVM ==
  tester = "testing" => \E m \in Machine \ old :
    vm[m] = "listening" /\ \A other \in Machine \ {m} : vm[other] # "listening"

\* However integration-test.sh ends, but for SKIP_TESTS and a failed test, the machine it
\* started has ended (scripts/README.md:54).
StopsItsVM ==
  tester = "done" /\ status \in {"ok", "error"} => ~Running("script")
=============================================================================
