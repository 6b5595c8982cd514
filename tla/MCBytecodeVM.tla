---------------------------- MODULE MCBytecodeVM ----------------------------
(***************************************************************************)
(* The other pipeline: every program of Programs is lowered, compiled to   *)
(* bytecode and run by the VM, and compared with what the language says.   *)
(***************************************************************************)
EXTENDS BytecodeVM, ShapeInference, Lowerer, Language, Programs, StdBuiltins

CONSTANTS
  Fuel,       \* bound: loop iterations and nested calls of the evaluator
  Expected,   \* module id -> what the program means
  Plain       \* the programs that reach no instruction of the VM's own

\* f, computed once (TLC evaluates a function that is no table at each use).
Table(f) == f @@ f

Compiled ==
  LET sources == Sources
  IN  Table([k \in DOMAIN sources |-> Table(Compile(Lower(sources[k])))])

\* The shapes of a module, from what its calls leave: at first taken to be one
\* value each, then what the shapes found say.
ShapesGiven(m, left) == Table([f \in DOMAIN m |-> Table(InferShape(m[f], left))])
ShapesOf(m) == ShapesGiven(m, Left(m, ShapesGiven(m, <<>>)))
Shapes ==
  LET modules == Compiled
  IN  Table([k \in DOMAIN modules |-> ShapesOf(modules[k])])
MCShape == LET table == Shapes IN table

(* The opcodes of the functions a program can reach.                       *)

OpsOf(m, f) == {m[f].code[k].op : k \in 1 .. Len(m[f].code)}
Callees(m, f) ==
  {m[f].code[k].name : k \in {j \in 1 .. Len(m[f].code) : m[f].code[j].op = "CallFunction"}}

Reached(m) ==
  LET more(fs) == fs \cup UNION {Callees(m, f) : f \in fs}
  IN  more(more(more({"main"})))

\* The programs that use, of the three opcodes, exactly those in ops.
Using(ops) ==
  LET modules == Compiled
      used(k) == UNION {OpsOf(modules[k], f) : f \in Reached(modules[k])}
  IN  Table([k \in {j \in DOMAIN modules : used(j) \cap OwnOps = ops} |-> modules[k]])

AllPrograms == Compiled
PlainOnes   == LET programs == Using({}) IN DOMAIN programs
UsingOwn    == Using(OwnOps)

MCAllPrograms == LET table == AllPrograms IN table
MCPlain       == LET set == PlainOnes IN set
MCUsingOwn    == LET table == UsingOwn IN table

Names  == {"a", "b"}
Ints   == [int : MinInt .. MaxInt]
Points == [struct : [type : {"Point", "Point:x,y"},
                     fields : [{"x", "y"} -> Ints] \cup [{"Point:x", "y"} -> Ints]]]

MCValue ==
  Ints \cup [str : Names \cup {"0", "-5", "true"}] \cup [bool : BOOLEAN] \cup Points
    \cup [struct : [type : {"Box", "Box:at"},
                    fields : [{"at"} -> Points] \cup [{"Box:at"} -> Points]]]
    \cup [array : Seq(Ints)] \cup [array : Seq([array : Seq(Ints)])]
    \cup [map : UNION {[d -> Ints] : d \in SUBSET Names}]

-----------------------------------------------------------------------------

Meanings ==
  LET sources == Sources
  IN  Table([k \in DOMAIN sources |-> Meaning(sources[k], "main", <<>>, Fuel)])
MCMeaning == LET table == Meanings IN table

\* What a program does when it is compiled and run by the VM is what it means.
MeansTheSame ==
  LET m == Expected[mod]
  IN  /\ \A k \in 1 .. Len(history) :
           /\ history[k].result.ok = m.ok
           /\ history[k].result.val = m.val
           /\ history[k].result.error = m.why
           /\ history[k].out = m.out
      /\ status = "trapped" => m.why = "trap" /\ m.out = out

\* So it is for every program that reaches none of the three instructions whose
\* handlers in the VM are the VM's own.
Conforms == mod \in Plain => MeansTheSame

\* docs/development/release_notes_v0_5.md: "The VM supports: ... - arithmetic
\* operations ... - logical operations ... - structs", and NegInt, LogicalNot and
\* BuildStruct among the opcodes docs/architecture/bytecode.md lists: a program
\* that negates an int, applies ! and builds a struct does on the VM what it means.
SupportsListed == MeansTheSame
=============================================================================
