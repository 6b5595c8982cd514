-------------------------------- MODULE Driver --------------------------------
(***************************************************************************)
(* The driver (src/driver/driver.cpp): what happens to a source file under *)
(* each command of velo.  It is parsed, analyzed, lowered and run; every   *)
(* stage may be the last one.                                              *)
(*                                                                         *)
(* A file is known by the id of the module it is lowered to.  What the     *)
(* stages compute is given by the constants; the machine of Interpreter    *)
(* runs the program.                                                       *)
(***************************************************************************)
EXTENDS Interpreter

CONSTANTS
  Parsed,     \* the files that parse without a diagnostic
  Reported,   \* file -> the codes the semantic analyzer reports
  Modes       \* the commands considered

VARIABLES
  stage,        \* "parse", "analyze", "lower", "run", "ended"
  mode,         \* DriverMode: "check", "ast", "ir", "bytecode", "run"
  diagnostics,  \* what the analyzer reported
  outcome        \* DriverResult: success, exitCode

driver == <<stage, mode, diagnostics, outcome>>

NoResult == [success |-> FALSE, exitCode |-> 0]

DriverInit ==
  /\ Init
  /\ stage = "parse"
  /\ mode \in Modes
  /\ diagnostics = {}
  /\ outcome = NoResult

\* The pipeline returns.
Conclude(success, exitCode) ==
  /\ stage' = "ended"
  /\ outcome' = [success |-> success, exitCode |-> exitCode]

Proceed(next) == stage' = next /\ UNCHANGED outcome

ParseFile ==
  /\ stage = "parse"
  /\ IF mod \in Parsed THEN Proceed("analyze") ELSE Conclude(FALSE, 1)
  /\ UNCHANGED <<vars, mode, diagnostics>>

AnalyzeFile ==
  /\ stage = "analyze"
  /\ diagnostics' = Reported[mod]
  /\ CASE Reported[mod] # {} -> Conclude(FALSE, 1)
       [] Reported[mod] = {} /\ mode \in {"check", "ast"} -> Conclude(TRUE, 0)
       [] OTHER -> Proceed("lower")
  /\ UNCHANGED <<vars, mode>>

\* The IR or the bytecode is only shown.
Show ==
  /\ stage = "lower"
  /\ mode \in {"ir", "bytecode"}
  /\ Conclude(TRUE, 0)
  /\ UNCHANGED <<vars, mode, diagnostics>>

Run ==
  /\ stage = "lower"
  /\ mode = "run"
  /\ Execute
  /\ Proceed("run")
  /\ UNCHANGED <<mode, diagnostics>>

Running == stage = "run" /\ Step /\ UNCHANGED driver

\* A run that failed never exits with 0.
ReportRun ==
  /\ stage = "run"
  /\ status \in {"done", "failed"}
  /\ LET exec == history[Len(history)].result
     IN  Conclude(exec.ok, IF ~exec.ok /\ exec.exit = 0 THEN 1 ELSE exec.exit)
  /\ UNCHANGED <<vars, mode, diagnostics>>

DriverNext == ParseFile \/ AnalyzeFile \/ Show \/ Run \/ Running \/ ReportRun

DriverSpec == DriverInit /\ [][DriverNext]_<<vars, driver>> /\ WF_<<vars, driver>>(DriverNext)

-----------------------------------------------------------------------------

\* The analyzer let the program through.
Admitted == stage \in {"lower", "run"} \/ (stage = "ended" /\ mod \in Parsed /\ diagnostics = {})

\* Every command comes back, unless the processor stops the program with a
\* trap: the loops of the program run under it end or fail.
CommandReturns == <>(stage = "ended" \/ status = "trapped")
=============================================================================
