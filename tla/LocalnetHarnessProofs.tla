------------------------- MODULE LocalnetHarnessProofs -------------------------
(***************************************************************************)
(* What a run of scripts/test-localnet.sh leaves behind, for any number of *)
(* concurrent runs, signals and loop rounds.                               *)
(***************************************************************************)
EXTENDS LocalnetHarness, TLAPS

\* The rounds of the loop a run is in.
RoundsOK(h) ==
  \/ tries[h] = 0
  \/ pc[h] \in {"probe", "alive"} /\ tries[h] < MaxProbes
  \/ pc[h] = "drain" /\ tries[h] < MaxDrains

\* What a run owns before cleanup, by the command that comes next.
OwnedOK(h) ==
  /\ pc[h] \in {"check", "mktemp"} => h \notin run_directory
  /\ pc[h] \in {"traps"} \cup Trapped \cup Cleanup => h \in run_directory
  /\ pc[h] \in {"check", "mktemp", "traps", "generate", "start"} => validator[h] = "none"
  /\ pc[h] \in {"probe", "alive", "test", "tested", "wait"} => pid_known[h]
  /\ pid_known[h] \/ pc[h] = "record" => validator[h] # "none"
  /\ pc[h] \notin Cleanup \cup {"exited"} => struck[h] = {}

\* A validator the run has lost track of: its PID was never recorded.
LostOK(h) ==
  /\ ~ pid_known[h] /\ validator[h] \in Alive /\ pc[h] # "record" => "record" \in struck[h]
  /\ pc[h] \in {"drain", "remove"} /\ validator[h] \in Alive => "record" \in struck[h]

\* Status 0 after the suite: npm test succeeded, and nothing has interrupted the
\* run since.
StatusOK(h) ==
  /\ status[h] = 0 /\ pc[h] \in {"tested"} \cup Cleanup \cup {"exited"} =>
       h \in passed
  /\ status[h] = 0 /\ pc[h] \in Cleanup \cup {"exited"} => struck[h] = {} /\ pid_known[h]

\* A run that has ended.
EndedOK(h) ==
  pc[h] = "exited" =>
    /\ h \in run_directory => struck[h] \cap Exposed # {}
    /\ validator[h] \in Alive => struck[h] \cap Exposed # {}
    /\ h \notin run_directory /\ validator[h] \in Alive => "record" \in struck[h]
    /\ status[h] = 0 => h \notin run_directory /\ validator[h] = "dead"

RunOK(h) == RoundsOK(h) /\ OwnedOK(h) /\ LostOK(h) /\ StatusOK(h) /\ EndedOK(h)

HarnessInv == HarnessTypeOK /\ \A h \in Harness : RunOK(h)

-----------------------------------------------------------------------------

\* The commands of the script keep the types of what they change.
LEMMA ScriptTypes ==
  ASSUME HarnessTypeOK, NEW g \in Harness, RoundsOK(g), Script(g)
  PROVE  HarnessTypeOK'
<1> USE HarnessAssumption DEF HarnessTypeOK, Line, Unprotected, Trapped, Cleanup, Signal
<1> USE DEF At, Goto, GotoWith, Exit, Leave, Again, machineVars, scriptVars
<1>1. CASE ActOnSignal(g)
  BY <1>1 DEF ActOnSignal, StatusAfter, ExitOf
<1>2. CASE CheckInputsAndPorts(g) \/ MakeRunDirectory(g) \/ InstallTraps(g)
  BY <1>2 DEF CheckInputsAndPorts, MakeRunDirectory, InstallTraps
<1>3. CASE GenerateFixtures(g) \/ StartValidator(g)
  BY <1>3 DEF GenerateFixtures, StartValidator, Alive
<1>8. CASE RecordPid(g)
  <2>1. pid_known' \in [Harness -> BOOLEAN]
    BY <1>8, Zenon DEF RecordPid
  <2>2. pc' \in [Harness -> Line]
    BY <1>8 DEF RecordPid
  <2> QED
    BY <1>8, <2>1, <2>2 DEF RecordPid
<1>4. CASE ProbeRpc(g) \/ CheckValidatorAlive(g)
  BY <1>4 DEF ProbeRpc, CheckValidatorAlive, RoundsOK
<1>5. CASE SuiteStarts(g) \/ SuiteEnds(g) \/ ReportResult(g)
  BY <1>5 DEF SuiteStarts, SuiteEnds, ReportResult
<1>6. CASE KillValidator(g) \/ WaitForValidator(g)
  BY <1>6 DEF KillValidator, WaitForValidator, Alive
<1>7. CASE DrainPorts(g) \/ RemoveRunDirectory(g)
  BY <1>7 DEF DrainPorts, RemoveRunDirectory, RoundsOK
<1> QED
  BY <1>1, <1>2, <1>3, <1>4, <1>5, <1>6, <1>7, <1>8 DEF Script

LEMMA MachineTypes ==
  ASSUME HarnessTypeOK, OtherProgram \/ \E g \in Harness : Machine(g)
  PROVE  HarnessTypeOK'
<1> USE HarnessAssumption DEF HarnessTypeOK, Alive, Signal, scriptVars
<1>1. CASE OtherProgram
  BY <1>1 DEF OtherProgram
<1>2. ASSUME NEW g \in Harness, Machine(g)
      PROVE  HarnessTypeOK'
  <2>1. CASE ValidatorBinds(g)
    BY <2>1 DEF ValidatorBinds
  <2>2. CASE ValidatorStops(g) \/ ValidatorCrashes(g)
    BY <2>2 DEF ValidatorStops, ValidatorCrashes, ValidatorEnds
  <2>3. CASE \E signal \in Signal : SendSignal(g, signal)
    BY <2>3 DEF SendSignal
  <2> QED
    BY <1>2, <2>1, <2>2, <2>3 DEF Machine
<1> QED
  BY <1>1, <1>2

\* A command of one run changes nothing another run has.
LEMMA OthersUnchanged ==
  ASSUME HarnessTypeOK, NEW g \in Harness, NEW h \in Harness, h # g,
         Script(g) \/ Machine(g)
  PROVE  /\ pc'[h] = pc[h] /\ status'[h] = status[h] /\ tries'[h] = tries[h]
         /\ pid_known'[h] = pid_known[h] /\ suite_on'[h] = suite_on[h]
         /\ struck'[h] = struck[h] /\ validator'[h] = validator[h]
         /\ (h \in run_directory' <=> h \in run_directory)
         /\ (h \in passed' <=> h \in passed)
<1> USE DEF HarnessTypeOK, At, Goto, GotoWith, Exit, Leave, Again, machineVars, scriptVars
<1>1. CASE ActOnSignal(g) \/ CheckInputsAndPorts(g) \/ MakeRunDirectory(g) \/ InstallTraps(g)
  BY <1>1 DEF ActOnSignal, CheckInputsAndPorts, MakeRunDirectory, InstallTraps
<1>2. CASE GenerateFixtures(g) \/ StartValidator(g) \/ ProbeRpc(g) \/ CheckValidatorAlive(g)
  BY <1>2 DEF GenerateFixtures, StartValidator, ProbeRpc, CheckValidatorAlive
<1>3. CASE RecordPid(g)
  BY <1>3, Zenon DEF RecordPid
<1>4. CASE SuiteStarts(g) \/ SuiteEnds(g) \/ ReportResult(g) \/ KillValidator(g)
  BY <1>4 DEF SuiteStarts, SuiteEnds, ReportResult, KillValidator
<1>5. CASE WaitForValidator(g) \/ DrainPorts(g) \/ RemoveRunDirectory(g)
  BY <1>5 DEF WaitForValidator, DrainPorts, RemoveRunDirectory
<1>6. CASE Machine(g)
  BY <1>6 DEF Machine, ValidatorBinds, ValidatorStops, ValidatorCrashes, ValidatorEnds,
              SendSignal
<1> QED
  BY <1>1, <1>2, <1>3, <1>4, <1>5, <1>6 DEF Script

LEMMA OthersKept ==
  ASSUME HarnessTypeOK, NEW g \in Harness, NEW h \in Harness, h # g,
         Script(g) \/ Machine(g), RunOK(h)
  PROVE  RunOK(h)'
<1>1. /\ pc'[h] = pc[h] /\ status'[h] = status[h] /\ tries'[h] = tries[h]
      /\ pid_known'[h] = pid_known[h] /\ suite_on'[h] = suite_on[h]
      /\ struck'[h] = struck[h] /\ validator'[h] = validator[h]
      /\ (h \in run_directory' <=> h \in run_directory)
      /\ (h \in passed' <=> h \in passed)
  BY OthersUnchanged
<1>2. OwnedOK(h)'
  BY <1>1 DEF RunOK, OwnedOK
<1>3. RoundsOK(h)' /\ LostOK(h)' /\ StatusOK(h)' /\ EndedOK(h)'
  BY <1>1 DEF RunOK, RoundsOK, LostOK, StatusOK, EndedOK
<1> QED
  BY <1>2, <1>3 DEF RunOK

\* A validator, a signal or another program does not disturb a run's own account
\* of what it owns: validators only die, once they have been started.
LEMMA MachineStep ==
  ASSUME HarnessTypeOK, NEW h \in Harness, Machine(h) \/ OtherProgram, RunOK(h)
  PROVE  RunOK(h)'
<1>1. UNCHANGED <<pc, status, tries, pid_known, suite_on, passed, struck, run_directory>>
  BY DEF Machine, ValidatorBinds, ValidatorStops, ValidatorCrashes, ValidatorEnds,
         SendSignal, OtherProgram, scriptVars
<1>2. \/ validator'[h] = validator[h]
      \/ validator[h] \in Alive /\ validator'[h] = "dead"
      \/ validator[h] = "starting" /\ validator'[h] = "serving"
  BY DEF Machine, ValidatorBinds, ValidatorStops, ValidatorCrashes, ValidatorEnds,
         SendSignal, OtherProgram, HarnessTypeOK, Alive
<1> QED
  BY <1>1, <1>2 DEF RunOK, RoundsOK, OwnedOK, LostOK, StatusOK, EndedOK, Alive

\* A run's own command keeps the account of what it owns.
LEMMA ScriptStep ==
  ASSUME HarnessTypeOK, NEW h \in Harness, Script(h), RunOK(h)
  PROVE  RunOK(h)'
<1> USE HarnessAssumption
    DEF HarnessTypeOK, RunOK, RoundsOK, OwnedOK, LostOK, StatusOK, EndedOK,
        Trapped, Cleanup, Exposed, Alive, At, Goto, GotoWith, Exit, Leave, Again, machineVars
<1>1. CASE ActOnSignal(h)
  <2>1. /\ pc'[h] = IF pc[h] \in Trapped THEN "kill" ELSE "exited"
        /\ status'[h] # 0 /\ tries'[h] = 0 /\ struck'[h] = struck[h] \cup {pc[h]}
        /\ UNCHANGED <<pid_known, suite_on, passed, run_directory, validator>>
    BY <1>1 DEF ActOnSignal, StatusAfter, ExitOf, Signal
  <2>2. pc[h] \in Unprotected \cup Trapped \cup Cleanup
    BY <1>1 DEF ActOnSignal, Line
  <2>3. RoundsOK(h)' /\ StatusOK(h)'
    BY <2>1
  <2>4. CASE pc[h] \in Trapped
    <3>1. pc'[h] = "kill"
      BY <2>1, <2>4
    <3>2. OwnedOK(h)'
      BY <2>1, <2>4, <3>1
    <3>3. LostOK(h)' /\ EndedOK(h)'
      BY <2>1, <2>4, <3>1
    <3> QED
      BY <2>3, <3>2, <3>3
  <2>5. CASE pc[h] \in Unprotected \cup Cleanup
    <3>1. pc'[h] = "exited"
      BY <2>1, <2>5 DEF Unprotected
    <3>2. OwnedOK(h)'
      BY <2>1, <2>5, <3>1 DEF Unprotected
    <3>3. LostOK(h)'
      BY <2>1, <2>5, <3>1 DEF Unprotected
    <3>4. EndedOK(h)'
      BY <2>1, <2>5, <3>1 DEF Unprotected
    <3> QED
      BY <2>3, <3>2, <3>3, <3>4
  <2> QED
    BY <2>2, <2>4, <2>5
<1>2. CASE CheckInputsAndPorts(h) \/ MakeRunDirectory(h) \/ InstallTraps(h)
  BY <1>2 DEF CheckInputsAndPorts, MakeRunDirectory, InstallTraps
<1>3. CASE GenerateFixtures(h) \/ StartValidator(h)
  BY <1>3 DEF GenerateFixtures, StartValidator
<1>4. CASE RecordPid(h)
  <2>1. pid_known'[h]
    BY <1>4, Zenon DEF RecordPid
  <2>2. pc[h] = "record" /\ pc'[h] = "probe"
    BY <1>4 DEF RecordPid
  <2>3. UNCHANGED <<status, tries, suite_on, passed, struck, run_directory, validator>>
    BY <1>4 DEF RecordPid
  <2>4. validator[h] # "none"
    BY <2>2
  <2> QED
    BY <2>1, <2>2, <2>3, <2>4
<1>5. CASE ProbeRpc(h) \/ CheckValidatorAlive(h)
  BY <1>5 DEF ProbeRpc, CheckValidatorAlive
<1>6. CASE SuiteStarts(h)
  BY <1>6 DEF SuiteStarts
<1>7. CASE SuiteEnds(h) \/ ReportResult(h)
  BY <1>7 DEF SuiteEnds, ReportResult
<1>8. CASE KillValidator(h) \/ WaitForValidator(h)
  BY <1>8 DEF KillValidator, WaitForValidator
<1>9. CASE DrainPorts(h) \/ RemoveRunDirectory(h)
  BY <1>9 DEF DrainPorts, RemoveRunDirectory
<1> QED
  BY <1>1, <1>2, <1>3, <1>4, <1>5, <1>6, <1>7, <1>8, <1>9 DEF Script

-----------------------------------------------------------------------------

LEMMA HarnessInvariant == Spec => []HarnessInv
<1>1. Init => HarnessInv
  BY HarnessAssumption
  DEF Init, HarnessInv, HarnessTypeOK, RunOK, RoundsOK, OwnedOK, LostOK, StatusOK, EndedOK,
      Line, Unprotected, Trapped, Cleanup, Alive
<1>2. HarnessInv /\ [Next]_vars => HarnessInv'
  <2> SUFFICES ASSUME HarnessInv, [Next]_vars
               PROVE  HarnessInv'
    OBVIOUS
  <2> HarnessTypeOK
    BY DEF HarnessInv
  <2>1. CASE OtherProgram
    BY <2>1, MachineTypes, MachineStep DEF HarnessInv
  <2>2. ASSUME NEW g \in Harness, Script(g)
        PROVE  HarnessInv'
    BY <2>2, ScriptTypes, ScriptStep, OthersKept DEF HarnessInv, RunOK
  <2>3. ASSUME NEW g \in Harness, Machine(g)
        PROVE  HarnessInv'
    BY <2>3, MachineTypes, MachineStep, OthersKept DEF HarnessInv
  <2>4. CASE UNCHANGED vars
    BY <2>4 DEF vars, HarnessInv, HarnessTypeOK, RunOK, RoundsOK, OwnedOK, LostOK,
                StatusOK, EndedOK
  <2> QED
    BY <2>1, <2>2, <2>3, <2>4 DEF Next
<1> QED
  BY <1>1, <1>2, PTL DEF Spec

\* The state of the script and of the machine has the declared types; the
\* rounds of both loops stay within their bounds.
THEOREM HarnessTypesCorrect == Spec => []HarnessTypeOK
BY HarnessInvariant, PTL DEF HarnessInv

\* A run that was not struck by a signal at an exposed command leaves neither
\* its ledger nor its validator behind, however it ended.
THEOREM RunsCleanUp == Spec => []NothingLeft
<1>1. HarnessInv => NothingLeft
  BY DEF HarnessInv, HarnessTypeOK, RunOK, EndedOK, NothingLeft
<1> QED
  BY <1>1, HarnessInvariant, PTL

\* A validator whose PID was recorded never loses its ledger while it runs:
\* cleanup removes the directory only after the validator has gone.
THEOREM ValidatorsKeepTheirLedger == Spec => []LedgerOutlivesValidator
<1>1. HarnessInv => LedgerOutlivesValidator
  BY DEF HarnessInv, HarnessTypeOK, RunOK, OwnedOK, EndedOK, LedgerOutlivesValidator,
         Line, Unprotected, Alive
<1> QED
  BY <1>1, HarnessInvariant, PTL

\* Exit status 0 means that npm test has succeeded in this run, that no signal
\* was acted on at any time, and that ledger and validator are gone: status 0
\* reaches cleanup only from a test suite that passed.
THEOREM SuccessIsAlwaysEarned == Spec => []SuccessIsEarned
<1>1. HarnessInv => SuccessIsEarned
  BY DEF HarnessInv, RunOK, StatusOK, EndedOK, SuccessIsEarned
<1> QED
  BY <1>1, HarnessInvariant, PTL

-----------------------------------------------------------------------------
(* How much a run still has to do                                          *)

LEMMA AheadOfLine ==
  ASSUME NEW rounds \in Nat, NEW suiteOn
  PROVE  LET probing == MaxDrains + 6 + 2 * MaxProbes
         IN  /\ AheadOf("check", rounds, suiteOn) = probing + 6 - rounds
             /\ AheadOf("mktemp", rounds, suiteOn) = probing + 5 - rounds
             /\ AheadOf("traps", rounds, suiteOn) = probing + 4 - rounds
             /\ AheadOf("generate", rounds, suiteOn) = probing + 3 - rounds
             /\ AheadOf("start", rounds, suiteOn) = probing + 2 - rounds
             /\ AheadOf("record", rounds, suiteOn) = probing + 1 - rounds
             /\ AheadOf("probe", rounds, suiteOn) = probing - 2 * rounds
             /\ AheadOf("alive", rounds, suiteOn) = probing - 1 - 2 * rounds
             /\ suiteOn = Nobody => AheadOf("test", rounds, suiteOn) = MaxDrains + 6 - rounds
             /\ suiteOn # Nobody => AheadOf("test", rounds, suiteOn) = MaxDrains + 5
             /\ AheadOf("tested", rounds, suiteOn) = MaxDrains + 4 - rounds
             /\ AheadOf("kill", rounds, suiteOn) = MaxDrains + 3 - rounds
             /\ AheadOf("wait", rounds, suiteOn) = MaxDrains + 2 - rounds
             /\ AheadOf("drain", rounds, suiteOn) = MaxDrains + 1 - rounds
             /\ AheadOf("remove", rounds, suiteOn) = 1 - rounds
             /\ AheadOf("exited", rounds, suiteOn) = 0 - rounds
  BY HarnessAssumption DEF AheadOf, LinesAhead

\* What WorkRunsOut says of a step and of run h.
Less(h) ==
  /\ Ahead(h)' \in 0 .. Ahead(h)
  /\ Ahead(h)' = Ahead(h) =>
       /\ pc'[h] = pc[h] /\ tries'[h] = tries[h]
       /\ suite_on'[h] = suite_on[h] /\ struck'[h] = struck[h]

LEMMA AheadType ==
  ASSUME HarnessInv, NEW h \in Harness
  PROVE  Ahead(h) \in Nat
<1>1. pc[h] \in Line /\ tries[h] \in Nat /\ RoundsOK(h)
  BY HarnessAssumption DEF HarnessInv, HarnessTypeOK, RunOK
<1>2. MaxProbes \in Nat \ {0} /\ MaxDrains \in Nat \ {0}
  BY HarnessAssumption
<1> USE AheadOfLine DEF Ahead, RoundsOK
<1>3. CASE pc[h] \in Unprotected \cup {"generate", "start", "record"}
  BY <1>1, <1>2, <1>3 DEF Unprotected
<1>4. CASE pc[h] \in {"probe", "alive", "test", "tested"}
  BY <1>1, <1>2, <1>4
<1>5. CASE pc[h] \in Cleanup \cup {"exited"}
  BY <1>1, <1>2, <1>5 DEF Cleanup
<1> QED
  BY <1>1, <1>3, <1>4, <1>5 DEF Line, Trapped

\* A step that leaves the control of run h alone leaves it as much to do.
LEMMA AheadKept ==
  ASSUME HarnessInv, NEW h \in Harness,
         pc'[h] = pc[h], tries'[h] = tries[h], suite_on'[h] = suite_on[h],
         struck'[h] = struck[h]
  PROVE  Less(h)
<1>1. Ahead(h)' = Ahead(h)
  BY DEF Ahead
<1>2. Ahead(h) \in 0 .. Ahead(h)
  BY AheadType
<1> QED
  BY <1>1, <1>2 DEF Less

\* Every command of run h leaves it less to do.
LEMMA CommandsCount ==
  ASSUME HarnessInv, NEW h \in Harness, Script(h)
  PROVE  Ahead(h)' \in Nat /\ Ahead(h)' < Ahead(h)
<1>0. /\ HarnessTypeOK /\ RoundsOK(h) /\ RoundsOK(h)' /\ pc[h] \in Line
      /\ tries[h] \in Nat /\ tries'[h] \in Nat
  BY HarnessAssumption, ScriptTypes, ScriptStep DEF HarnessInv, HarnessTypeOK, RunOK
<1>00. MaxProbes \in Nat \ {0} /\ MaxDrains \in Nat \ {0}
  BY HarnessAssumption
<1> USE <1>0, <1>00, AheadOfLine
    DEF Ahead, RoundsOK, HarnessTypeOK,
        Line, Unprotected, Trapped, Cleanup,
        At, Goto, GotoWith, Exit, Leave, Again, machineVars
<1>1. CASE ActOnSignal(h)
  BY <1>1 DEF ActOnSignal
<1>2. CASE CheckInputsAndPorts(h) \/ MakeRunDirectory(h) \/ InstallTraps(h)
  BY <1>2 DEF CheckInputsAndPorts, MakeRunDirectory, InstallTraps
<1>3. CASE GenerateFixtures(h) \/ StartValidator(h)
  BY <1>3 DEF GenerateFixtures, StartValidator
<1>4. CASE RecordPid(h)
  BY <1>4 DEF RecordPid
<1>5. CASE ProbeRpc(h) \/ CheckValidatorAlive(h)
  BY <1>5 DEF ProbeRpc, CheckValidatorAlive
<1>6. CASE SuiteStarts(h)
  BY <1>6 DEF SuiteStarts
<1>7. CASE SuiteEnds(h) \/ ReportResult(h)
  BY <1>7 DEF SuiteEnds, ReportResult
<1>8. CASE KillValidator(h) \/ WaitForValidator(h)
  BY <1>8 DEF KillValidator, WaitForValidator
<1>9. CASE DrainPorts(h) \/ RemoveRunDirectory(h)
  BY <1>9 DEF DrainPorts, RemoveRunDirectory
<1> QED
  BY <1>1, <1>2, <1>3, <1>4, <1>5, <1>6, <1>7, <1>8, <1>9 DEF Script

\* The number of commands that a run still has before it never grows, and every
\* command takes one away: the loops end whatever validators and ports do.
THEOREM WorkAlwaysRunsOut == Spec => WorkRunsOut
<1>1. ASSUME HarnessInv, [Next]_vars, NEW h \in Harness
      PROVE  Less(h)
  <2> HarnessTypeOK
    BY <1>1 DEF HarnessInv
  <2>1. CASE OtherProgram
    BY <1>1, <2>1, AheadKept DEF OtherProgram, scriptVars
  <2>2. ASSUME NEW g \in Harness, g # h, Script(g) \/ Machine(g)
        PROVE  Less(h)
    BY <1>1, <2>2, OthersUnchanged, AheadKept
  <2>3. CASE Machine(h)
    <3>1. UNCHANGED <<pc, tries, suite_on, struck>>
      BY <2>3 DEF Machine, ValidatorBinds, ValidatorStops, ValidatorCrashes, ValidatorEnds,
                  SendSignal, scriptVars
    <3> QED
      BY <1>1, <3>1, AheadKept
  <2>4. CASE Script(h)
    <3>1. Ahead(h)' \in Nat /\ Ahead(h)' < Ahead(h) /\ Ahead(h) \in Nat
      BY <1>1, <2>4, CommandsCount, AheadType
    <3> QED
      BY <3>1 DEF Less
  <2>5. CASE UNCHANGED vars
    BY <1>1, <2>5, AheadKept DEF vars
  <2> QED
    BY <1>1, <2>1, <2>2, <2>3, <2>4, <2>5 DEF Next
<1>2. HarnessInv /\ [Next]_vars =>
        [\A h \in Harness :
           /\ Ahead(h)' \in 0 .. Ahead(h)
           /\ Ahead(h)' = Ahead(h) =>
                /\ pc'[h] = pc[h] /\ tries'[h] = tries[h]
                /\ suite_on'[h] = suite_on[h] /\ struck'[h] = struck[h]]_vars
  BY <1>1 DEF Less
<1> QED
  BY <1>2, HarnessInvariant, PTL DEF Spec, WorkRunsOut
=============================================================================
