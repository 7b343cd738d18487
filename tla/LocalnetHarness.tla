---------------------------- MODULE LocalnetHarness ----------------------------
(***************************************************************************)
(* scripts/test-localnet.sh: concurrent runs of the script, the validators *)
(* they start, another program that may use the test ports, and signals.   *)
(*                                                                         *)
(* A step is one command.  The three test ports are one resource: a        *)
(* validator binds and releases them together.  Bash runs a trap between   *)
(* two commands, so a signal interrupts a command only where the command   *)
(* lasts: the test suite, and the wait builtin.                            *)
(***************************************************************************)
EXTENDS Naturals

CONSTANTS
  Harness,      \* concurrent runs of the script
  Other,        \* another program that listens on the test ports
  Nobody,       \* no listener, no ledger
  MaxProbes,    \* rounds of the readiness loop; 60 in the code
  MaxDrains,    \* rounds of the loop that waits for the ports; 50 in the code
  MaxSignals    \* bound: signals sent to all runs together

ASSUME HarnessAssumption ==
  /\ Nobody \notin Harness \cup {Other}
  /\ Other \notin Harness
  /\ MaxProbes \in Nat \ {0}
  /\ MaxDrains \in Nat \ {0}
  /\ MaxSignals \in Nat

VARIABLES
  \* of each run of the script
  pc,                \* the command that comes next
  status,            \* $? where it matters, and the exit status in the end
  tries,             \* finished rounds of the loop it is in, 0 outside of loops
  pid_known,         \* VALIDATOR_PID is set
  pending,           \* a signal bash has received and not yet acted on
  suite_on,          \* whose validator answered its test suite
  \* of the machine
  run_directory,     \* runs whose RUN_DIRECTORY exists
  validator,         \* the solana-test-validator of each run
  listener,          \* who listens on the test ports
  spent,             \* validators whose LOCAL_PAYER has paid for a transaction
  signals,           \* signals sent so far
  \* history
  passed,            \* runs whose npm test has succeeded
  struck             \* the commands before which a run has acted on a signal

scriptVars == <<pc, status, tries, pid_known, pending, suite_on, passed, struck>>
machineVars == <<run_directory, validator, listener, spent, signals>>

vars == <<pc, status, tries, pid_known, pending, suite_on, passed, struck,
          run_directory, validator, listener, spent, signals>>

Unprotected == {"check", "mktemp", "traps"}                  \* lines 16 to 127
Trapped == {"generate", "start", "record", "probe", "alive", "test", "tested"}
Cleanup == {"kill", "wait", "drain", "remove"}               \* lines 84 to 124
Line == Unprotected \cup Trapped \cup Cleanup \cup {"exited"}

Signal == {"INT", "TERM"}
ExitOf(signal) == IF signal = "INT" THEN 130 ELSE 143

Alive == {"starting", "serving", "stopping"}

HarnessTypeOK ==
  /\ pc \in [Harness -> Line]
  /\ status \in [Harness -> {0, 1, 130, 143}]
  /\ tries \in [Harness -> 0 .. MaxProbes + MaxDrains]
  /\ pid_known \in [Harness -> BOOLEAN]
  /\ pending \in [Harness -> Signal \cup {"none"}]
  /\ signals \in 0 .. MaxSignals
  /\ suite_on \in [Harness -> Harness \cup {Other, Nobody}]
  /\ run_directory \in SUBSET Harness
  /\ validator \in [Harness -> Alive \cup {"none", "dead"}]
  /\ listener \in Harness \cup {Other, Nobody}
  /\ spent \in SUBSET Harness
  /\ passed \in SUBSET Harness
  /\ struck \in [Harness -> SUBSET Line]

Init ==
  /\ pc = [h \in Harness |-> "check"]
  /\ status = [h \in Harness |-> 0]
  /\ tries = [h \in Harness |-> 0]
  /\ pid_known = [h \in Harness |-> FALSE]
  /\ pending = [h \in Harness |-> "none"]
  /\ signals = 0
  /\ suite_on = [h \in Harness |-> Nobody]
  /\ run_directory = {}
  /\ validator = [h \in Harness |-> "none"]
  /\ listener \in {Other, Nobody}
  /\ spent = {}
  /\ passed = {}
  /\ struck = [h \in Harness |-> {}]

-----------------------------------------------------------------------------
(* Control flow of the script                                              *)

\* Run h executes the command at `line`: no trap has to run first.
At(h, line) == pc[h] = line /\ pending[h] = "none"

\* The next command, with status `code`, outside of loops.
GotoWith(h, line, code) ==
  /\ pc' = [pc EXCEPT ![h] = line]
  /\ status' = [status EXCEPT ![h] = code]
  /\ tries' = [tries EXCEPT ![h] = 0]
  /\ UNCHANGED <<pid_known, pending, suite_on, passed, struck>>

Goto(h, line) == GotoWith(h, line, status[h])

\* One more round of the loop that starts at `line`.
Again(h, line) ==
  /\ pc' = [pc EXCEPT ![h] = line]
  /\ tries' = [tries EXCEPT ![h] = @ + 1]
  /\ UNCHANGED <<status, pid_known, pending, suite_on, passed, struck>>

\* An exit before the traps are set, or the last command of cleanup.
Exit(h, code) == GotoWith(h, "exited", code)

\* Mutant: the EXIT trap is set only after the validator has been started.
LeaveUnlessStarted(h, code) ==
  IF pid_known[h] THEN GotoWith(h, "kill", code) ELSE Exit(h, code)

\* An exit, or a command that fails, once the traps are set: the EXIT trap
\* runs cleanup, which takes $? for its status and clears the EXIT trap.
Leave(h, code) == GotoWith(h, "kill", code)

\* The traps of INT and TERM set the status, also that of the default action.
StatusAfter(h) == ExitOf(pending[h])

\* Bash acts on the signal: before the traps are set, and again inside of
\* cleanup, where the EXIT trap is gone, the process ends at once.  INT ends
\* the test suite as well; TERM waits for it.
ActOnSignal(h) ==
  /\ pending[h] # "none" /\ pc[h] # "exited"
  /\ pc[h] = "test" => pending[h] = "INT"
  /\ pc' = [pc EXCEPT ![h] = IF pc[h] \in Trapped THEN "kill" ELSE "exited"]
  /\ status' = [status EXCEPT ![h] = StatusAfter(h)]
  /\ tries' = [tries EXCEPT ![h] = 0]
  /\ pending' = [pending EXCEPT ![h] = "none"]
  /\ struck' = [struck EXCEPT ![h] = @ \cup {pc[h]}]
  /\ UNCHANGED <<pid_known, suite_on, passed>>
  /\ UNCHANGED machineVars

-----------------------------------------------------------------------------
(* Up to the start of the validator                                        *)

\* Lines 16 to 72: a missing command or input, or a port in use, ends the run.
CheckInputsAndPorts(h) ==
  /\ At(h, "check")
  /\ \/ listener = Nobody /\ Goto(h, "mktemp")
     \/ Exit(h, 1)
  /\ UNCHANGED machineVars

\* mktemp may fail, which ends the run.
MakeRunDirectory(h) ==
  /\ At(h, "mktemp")
  /\ \/ run_directory' = run_directory \cup {h} /\ Goto(h, "traps")
     \/ UNCHANGED run_directory /\ Exit(h, 1)
  /\ UNCHANGED <<validator, listener, spent, signals>>

InstallTraps(h) ==
  /\ At(h, "traps")
  /\ Goto(h, "generate")
  /\ UNCHANGED machineVars

GenerateFixtures(h) ==
  /\ At(h, "generate")
  /\ Goto(h, "start") \/ Leave(h, 1)
  /\ UNCHANGED machineVars

StartValidator(h) ==
  /\ At(h, "start")
  /\ validator' = [validator EXCEPT ![h] = "starting"]
  /\ Goto(h, "record")
  /\ UNCHANGED <<run_directory, listener, spent, signals>>

\* VALIDATOR_PID=$! is a command of its own.
RecordPid(h) ==
  /\ At(h, "record")
  /\ pid_known' = [pid_known EXCEPT ![h] = TRUE]
  /\ pc' = [pc EXCEPT ![h] = "probe"]
  /\ UNCHANGED <<status, tries, pending, suite_on, passed, struck>>
  /\ UNCHANGED machineVars

-----------------------------------------------------------------------------
(* Readiness and tests                                                     *)

\* getBalance of LOCAL_PAYER at the RPC port answers the genesis balance.
RpcAnswers == listener \in Harness /\ listener \notin spent

\* The probe comes before the check whether the validator is alive.
ProbeRpc(h) ==
  /\ At(h, "probe")
  /\ \/ RpcAnswers /\ Goto(h, "test")
     \/ pc' = [pc EXCEPT ![h] = "alive"]
        /\ UNCHANGED <<status, tries, pid_known, pending, suite_on, passed, struck>>
  /\ UNCHANGED machineVars

\* Mutant: the rounds of the loop are not counted.
CheckValidatorAliveForever(h) ==
  /\ At(h, "alive")
  /\ IF validator[h] = "dead" THEN Leave(h, 1) ELSE Again(h, "probe")
  /\ UNCHANGED machineVars

CheckValidatorAlive(h) ==
  /\ At(h, "alive")
  /\ IF validator[h] = "dead" \/ tries[h] + 1 = MaxProbes
       THEN Leave(h, 1)
       ELSE Again(h, "probe")
  /\ UNCHANGED machineVars

\* The suite sends its first transaction, paid for by LOCAL_PAYER.
SuiteStarts(h) ==
  /\ pc[h] = "test" /\ pending[h] # "INT"
  /\ suite_on[h] = Nobody /\ listener # Nobody
  /\ suite_on' = [suite_on EXCEPT ![h] = listener]
  /\ spent' = IF listener \in Harness THEN spent \cup {listener} ELSE spent
  /\ UNCHANGED <<pc, status, tries, pid_known, pending, passed, struck,
                 run_directory, validator, listener, signals>>

\* npm test returns: it may pass if the ledger it has written to still answers.
SuiteEnds(h) ==
  /\ pc[h] = "test" /\ pending[h] # "INT"
  /\ pc' = [pc EXCEPT ![h] = "tested"]
  /\ \/ /\ suite_on[h] # Nobody /\ suite_on[h] = listener
        /\ status' = [status EXCEPT ![h] = 0]
        /\ passed' = passed \cup {h}
     \/ /\ status' = [status EXCEPT ![h] = 1]
        /\ UNCHANGED passed
  /\ UNCHANGED <<tries, pid_known, pending, suite_on, struck>>
  /\ UNCHANGED machineVars

\* Mutant: the branch of a failing suite shows the log and does not exit.
ReportOnly(h) ==
  /\ At(h, "tested")
  /\ Leave(h, 0)
  /\ UNCHANGED machineVars

\* A suite that fails ends the run with status 1.
ReportResult(h) ==
  /\ At(h, "tested")
  /\ Leave(h, status[h])
  /\ UNCHANGED machineVars

-----------------------------------------------------------------------------
(* cleanup                                                                 *)

\* Mutant: the validator is not waited for.
KillOnly(h) ==
  /\ At(h, "kill")
  /\ Goto(h, "drain")
  /\ IF pid_known[h] /\ validator[h] \in Alive
       THEN validator' = [validator EXCEPT ![h] = "stopping"]
       ELSE UNCHANGED validator
  /\ UNCHANGED <<run_directory, listener, spent, signals>>

KillValidator(h) ==
  /\ At(h, "kill")
  /\ IF pid_known[h] /\ validator[h] \in Alive
       THEN /\ validator' = [validator EXCEPT ![h] = "stopping"]
            /\ Goto(h, "wait")
       ELSE /\ UNCHANGED validator
            /\ Goto(h, "drain")
  /\ UNCHANGED <<run_directory, listener, spent, signals>>

WaitForValidator(h) ==
  /\ At(h, "wait")
  /\ validator[h] = "dead"
  /\ Goto(h, "drain")
  /\ UNCHANGED machineVars

\* Mutant: the loop has no bound.
DrainPortsForever(h) ==
  /\ At(h, "drain")
  /\ listener = Nobody
  /\ Goto(h, "remove")
  /\ UNCHANGED machineVars

\* Ports that stay open turn the status into 1.
DrainPorts(h) ==
  /\ At(h, "drain")
  /\ \/ listener = Nobody /\ Goto(h, "remove")
     \/ /\ listener # Nobody
        /\ IF tries[h] + 1 = MaxDrains THEN GotoWith(h, "remove", 1) ELSE Again(h, "drain")
  /\ UNCHANGED machineVars

\* rm -r fails, and with it the script, only when a validator still writes.
RemoveRunDirectory(h) ==
  /\ At(h, "remove")
  /\ \/ /\ run_directory' = run_directory \ {h}
        /\ Exit(h, status[h])
     \/ /\ validator[h] \in Alive
        /\ Exit(h, 1)
        /\ UNCHANGED run_directory
  /\ UNCHANGED <<validator, listener, spent, signals>>

Script(h) ==
  \/ ActOnSignal(h)
  \/ CheckInputsAndPorts(h) \/ MakeRunDirectory(h) \/ InstallTraps(h)
  \/ GenerateFixtures(h) \/ StartValidator(h) \/ RecordPid(h)
  \/ ProbeRpc(h) \/ CheckValidatorAlive(h)
  \/ SuiteStarts(h) \/ SuiteEnds(h) \/ ReportResult(h)
  \/ KillValidator(h) \/ WaitForValidator(h) \/ DrainPorts(h) \/ RemoveRunDirectory(h)

-----------------------------------------------------------------------------
(* The machine                                                             *)

\* The validator has loaded its accounts and opens its ports, or cannot.
ValidatorBinds(h) ==
  /\ validator[h] = "starting"
  /\ IF listener = Nobody
       THEN /\ listener' = h
            /\ validator' = [validator EXCEPT ![h] = "serving"]
       ELSE /\ validator' = [validator EXCEPT ![h] = "dead"]
            /\ UNCHANGED listener
  /\ UNCHANGED <<run_directory, spent, signals>>
  /\ UNCHANGED scriptVars

ValidatorEnds(h) ==
  /\ validator' = [validator EXCEPT ![h] = "dead"]
  /\ listener' = IF listener = h THEN Nobody ELSE listener
  /\ spent' = spent \ {h}
  /\ UNCHANGED <<run_directory, signals>>
  /\ UNCHANGED scriptVars

ValidatorStops(h) == validator[h] = "stopping" /\ ValidatorEnds(h)

ValidatorCrashes(h) == validator[h] \in {"starting", "serving"} /\ ValidatorEnds(h)

OtherProgram ==
  /\ \/ listener = Nobody /\ listener' = Other
     \/ listener = Other /\ listener' = Nobody
  /\ UNCHANGED <<run_directory, validator, spent, signals>>
  /\ UNCHANGED scriptVars

\* Somebody presses Ctrl-C, or the CI job is cancelled.
SendSignal(h, signal) ==
  /\ pc[h] # "exited"
  /\ pending[h] = "none" /\ signals < MaxSignals
  /\ pending' = [pending EXCEPT ![h] = signal]
  /\ signals' = signals + 1
  /\ UNCHANGED <<pc, status, tries, pid_known, suite_on, passed, struck,
                 run_directory, validator, listener, spent>>

Machine(h) ==
  \/ ValidatorBinds(h) \/ ValidatorStops(h) \/ ValidatorCrashes(h)
  \/ \E signal \in Signal : SendSignal(h, signal)

Next == OtherProgram \/ \E h \in Harness : Script(h) \/ Machine(h)

Spec == Init /\ [][Next]_vars

\* Commands return, and a validator ends when it is told to.
Fairness == \A h \in Harness : WF_vars(Script(h)) /\ WF_vars(ValidatorStops(h))

FairSpec == Spec /\ Fairness

-----------------------------------------------------------------------------

\* The commands before which a signal can leave something behind: the directory
\* exists and no trap is set, the validator runs and its PID is not recorded,
\* or cleanup is at work with its own EXIT trap cleared.
Exposed == {"traps", "record"} \cup Cleanup

\* A run that ends leaves neither its ledger nor its validator behind, however
\* it ends (tests, readiness, generator and validator may all fail, and a
\* signal may come), unless it acted on a signal at an exposed command.
NothingLeft ==
  \A h \in Harness : pc[h] = "exited" /\ struck[h] \cap Exposed = {} =>
    h \notin run_directory /\ validator[h] \in {"none", "dead"}

\* A validator never loses its ledger while it runs, whatever fails or
\* interrupts the script, except one whose PID was never recorded.
LedgerOutlivesValidator ==
  \A h \in Harness : validator[h] \in Alive /\ "record" \notin struck[h] =>
    h \in run_directory

\* Exit status 0 is earned: npm test has succeeded in this very run, cleanup was
\* complete, and the run acted on no signal, not even on one that came while the
\* suite passed or after cleanup had taken the status of a passed suite.
SuccessIsEarned ==
  \A h \in Harness : pc[h] = "exited" /\ status[h] = 0 =>
    /\ h \in passed
    /\ struck[h] = {}
    /\ h \notin run_directory
    /\ validator[h] = "dead"

\* The commands that come after a line, at most, that line included, from the
\* first round of its loop on.
LinesAhead ==
  LET fromTest == MaxDrains + 6
      fromProbe == fromTest + 2 * MaxProbes
  IN  [check |-> fromProbe + 6, mktemp |-> fromProbe + 5, traps |-> fromProbe + 4,
       generate |-> fromProbe + 3, start |-> fromProbe + 2, record |-> fromProbe + 1,
       probe |-> fromProbe, alive |-> fromProbe - 1, test |-> fromTest,
       tested |-> MaxDrains + 4, kill |-> MaxDrains + 3, wait |-> MaxDrains + 2,
       drain |-> MaxDrains + 1, remove |-> 1, exited |-> 0]

\* The commands that a run at `line` still has before it, at most, after some
\* finished rounds of its loop.
AheadOf(line, rounds, suiteOn) ==
  LinesAhead[line] -
    (IF line \in {"probe", "alive"} THEN 2 * rounds
     ELSE IF line = "test" /\ suiteOn # Nobody THEN 1
     ELSE rounds)

Ahead(h) == AheadOf(pc[h], tries[h], suite_on[h])

\* Every command of a run, and every signal it acts on, leaves it fewer commands
\* to come; nothing that other runs, validators or programs do leaves it more.
\* So the number of its commands is bounded from the start, whatever happens.
WorkRunsOut ==
  [][\A h \in Harness :
       /\ Ahead(h)' \in 0 .. Ahead(h)
       /\ Ahead(h)' = Ahead(h) =>
            /\ pc'[h] = pc[h] /\ tries'[h] = tries[h]
            /\ suite_on'[h] = suite_on[h] /\ struck'[h] = struck[h]]_vars

\* Every run of the script comes to an end, also when its validator never
\* answers or another program keeps the ports for ever.
Terminates == \A h \in Harness : <>(pc[h] = "exited")

-----------------------------------------------------------------------------
(* What the documentation says and the script does not do                  *)

\* README.md on the localnet command: it removes its ledger when complete.  Here
\* of a run that has got as far as its test suite.
LedgerRemoved ==
  \A h \in Harness : pc[h] = "exited" /\ suite_on[h] # Nobody => h \notin run_directory

\* README.md on the localnet command: programs and accounts are loaded into an
\* isolated ledger, and occupied ports are refused.  Here: no suite writes to
\* the ledger of another run.
IsolatedLedger == \A h \in Harness : suite_on[h] \notin Harness \ {h}
=============================================================================
