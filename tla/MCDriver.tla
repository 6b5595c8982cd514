------------------------------ MODULE MCDriver ------------------------------
(***************************************************************************)
(* The driver, the semantic analyzer, the lowerer and the interpreter      *)
(* together: every program of Programs and TypedPrograms is analyzed and,  *)
(* if nothing is reported, lowered and run, and compared with what the     *)
(* language says of it.  One more file does not parse.                     *)
(***************************************************************************)
EXTENDS MCInterpreter, Driver, Analyzer, Language, TypedPrograms

CONSTANTS
  Fuel,       \* bound: loop iterations and nested calls of the evaluator
  Expected,   \* file -> what the program means
  Sound       \* the files whose program is well typed

Typing == INSTANCE Typing

Files      == Sources \o Fragments
Unparsable == Len(Files) + 1

\* {c : c \in S} is S, computed once; so is what LET names.
ReportsOf(files) == Table([k \in DOMAIN files |-> {c : c \in Analyze(files[k])}])
CleanOf(reports) == {k \in DOMAIN reports : reports[k] = {}}
NoFunctions == [f \in {} |-> <<>>]
CodeOf(files, clean) ==
  Table([k \in 1 .. Len(files) + 1 |-> Table(IF k \in clean THEN Lower(files[k]) ELSE NoFunctions)])
StacksOf(modules) ==
  Table([k \in DOMAIN modules |->
    Table([f \in DOMAIN modules[k] |-> Table(InferShape(modules[k][f], <<>>))])])

Reports  == LET files == Files IN ReportsOf(files)
Clean    == LET reports == Reports IN CleanOf(reports)
Compiled ==
  LET files == Files
      clean == Clean
  IN  CodeOf(files, clean)
Stacks   == LET modules == Compiled IN StacksOf(modules)
Sounds ==
  LET files == Files
  IN  {k \in DOMAIN files : Typing!WellTyped(files[k])}
Meanings ==
  LET files == Files
  IN  Table([k \in Clean |-> Meaning(files[k], "main", <<>>, Fuel)])

MCParsed   == DOMAIN Files
MCReported == LET table == Reports IN table
MCSound    == LET table == Sounds IN table
MCFiles    == LET table == Compiled IN table
MCStacks   == LET table == Stacks IN table
MCMeaning  == LET table == Meanings IN table

-----------------------------------------------------------------------------

\* The analyzer lets nothing through that is not well typed ...
AcceptsOnlyWellTyped == Admitted => mod \in Sound

\* ... and refuses nothing that is.
AcceptsAllWellTyped == mod \in Sound => diagnostics = {}

\* A program the analyzer let through fails only for reasons that types do not
\* rule out: a division by zero, an index out of bounds, a missing map key.
TypeSafe ==
  \A k \in 1 .. Len(history) : history[k].result.error \in {"", "divide", "index", "key"}

\* What a program does when it is lowered and run is what it means: the same
\* result or the same kind of error, and the same output up to there.
Agrees ==
  LET m == Expected[mod]
  IN  /\ \A k \in 1 .. Len(history) :
           /\ history[k].result.ok = m.ok
           /\ history[k].result.val = m.val
           /\ history[k].result.error = m.why
           /\ history[k].out = m.out
      /\ status = "trapped" => m.why = "trap" /\ m.out = out
=============================================================================
