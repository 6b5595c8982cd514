------------------------------ MODULE MCRawIR ------------------------------
(***************************************************************************)
(* The interpreter on hand-made IR, as the unit tests feed it (tests/unit/ *)
(* interpreter): every instruction after every short stack, well shaped or *)
(* not.  All the ways an instruction fails are here; the lowerer's code    *)
(* only reaches some of them.                                              *)
(***************************************************************************)
EXTENDS Interpreter, ShapeInference, StdBuiltins

PushOne(v) == <<[op |-> IF IsInt(v) THEN "PushInt" ELSE IF IsStr(v) THEN "PushString" ELSE "PushBool",
                 val |-> v]>>

\* Code that leaves one value on the stack.
Operand == <<
  PushOne(IntV(0)), PushOne(IntV(1)), PushOne(StrV("a")), PushOne(StrV("b")), PushOne(BoolV(FALSE)),
  PushOne(IntV(1)) \o <<[op |-> "BuildArray", args |-> 1]>>,
  PushOne(IntV(1)) \o <<[op |-> "BuildMap", names |-> <<"a">>]>>,
  PushOne(IntV(1)) \o <<[op |-> "BuildStruct", type |-> "T", names |-> <<"x">>]>> >>

Simple == <<
  "Pop", "AddInt", "SubInt", "MulInt", "DivInt", "ModInt", "NegInt",
  "CompareEqual", "CompareNotEqual", "CompareEqualInt", "CompareNotEqualInt",
  "CompareLessInt", "CompareGreaterInt", "CompareLessEqualInt", "CompareGreaterEqualInt",
  "LogicalNot", "LogicalAnd", "LogicalOr", "LoadIndex", "Return" >>

\* The instruction under test, and what may follow it.
Tested ==
  [i \in 1 .. Len(Simple) |-> [op |-> Simple[i]]] \o <<
  [op |-> "LoadLocal", idx |-> 0],
  [op |-> "StoreLocal", idx |-> 0], [op |-> "StoreLocal", idx |-> 2],
  [op |-> "Jump", target |-> 50], [op |-> "JumpIfFalse", target |-> 50],
  [op |-> "BuildStruct", type |-> "T", names |-> <<"x", "x">>],
  [op |-> "BuildMap", names |-> <<"a", "a">>],
  [op |-> "BuildArray", args |-> 0], [op |-> "BuildArray", args |-> 2],
  [op |-> "LoadField", name |-> "x"], [op |-> "LoadField", name |-> "z"],
  [op |-> "StoreFieldPath", path |-> <<>>], [op |-> "StoreFieldPath", path |-> <<"x">>],
  [op |-> "StoreFieldPath", path |-> <<"x", "x">>],
  [op |-> "StoreIndexPath", args |-> 0], [op |-> "StoreIndexPath", args |-> 1],
  [op |-> "CallBuiltin", name |-> "console::println", args |-> 1],
  [op |-> "CallBuiltin", name |-> "console::println", args |-> 2],
  [op |-> "CallBuiltin", name |-> "array::len", args |-> 1],
  [op |-> "CallBuiltin", name |-> "nope", args |-> 0],
  [op |-> "CallFunction", name |-> "id", args |-> 1],
  [op |-> "CallFunction", name |-> "id", args |-> 2],
  [op |-> "CallFunction", name |-> "nothing", args |-> 0],
  [op |-> "CallFunction", name |-> "leaves", args |-> 0],
  [op |-> "CallFunction", name |-> "broken", args |-> 0],
  [op |-> "CallFunction", name |-> "nope", args |-> 0] >>

Rest == <<[op |-> "StoreLocal", idx |-> 0], [op |-> "LoadLocal", idx |-> 0], [op |-> "Return"]>>

Callees == [
  id      |-> [params |-> 1, code |-> <<[op |-> "LoadLocal", idx |-> 0], [op |-> "Return"]>>],
  nothing |-> [params |-> 0, code |-> <<>>],
  leaves  |-> [params |-> 0, code |-> PushOne(IntV(0)) \o PushOne(IntV(1))],
  broken  |-> [params |-> 0, code |-> PushOne(IntV(0)) \o <<[op |-> "AddInt"]>>] ]

\* Case n: one instruction after the operands that the digits of n stand for,
\* 0 for none.  `Before` supplies the value that an index store puts away.
Before(i) == IF i.op = "StoreIndexPath" THEN PushOne(IntV(1)) ELSE <<>>

Kinds == Len(Operand) + 1
OperandCode(d) == IF d = 0 THEN <<>> ELSE Operand[d]

Main(n) ==
  LET i == Tested[(n % Len(Tested)) + 1]
      s == n \div Len(Tested)
  IN  [params |-> 0,
       code |-> Before(i) \o OperandCode(s \div Kinds) \o OperandCode(s % Kinds) \o <<i>> \o Rest]

Cases == 0 .. Len(Tested) * Kinds * Kinds - 1

\* f, computed once (TLC evaluates a function that is no table at each use).
Table(f) == f @@ f

\* The functions of case n: `broken` only where it is called, since a module
\* has a shape only when all of its functions have one.
FunctionsOf(n) ==
  LET calls(f) == "name" \in DOMAIN Tested[(n % Len(Tested)) + 1]
                    /\ Tested[(n % Len(Tested)) + 1].name = f
  IN  {"main"} \cup {f \in DOMAIN Callees : f = "broken" => calls(f)}

WithCallees(n, callees, main) ==
  [f \in FunctionsOf(n) |-> IF f = "main" THEN main ELSE callees[f]]

Handmade == Table([n \in Cases |-> Table(WithCallees(n, Callees, Main(n)))])
Shapes ==
  LET callees == Table([f \in DOMAIN Callees |-> Table(InferShape(Callees[f], <<>>))])
  IN  Table([n \in Cases |-> Table(WithCallees(n, callees, Table(InferShape(Main(n), <<>>))))])

MCModules == Handmade
MCShape   == Shapes

\* Values built from those of set.
Over(set) ==
  set \cup [array : Seq(set)]
    \cup [map : [{"a"} -> set]] \cup [map : [{"a", "b"} -> set]]
    \cup [struct : [type : {"T"}, fields : [{"x"} -> set]]]

Scalars == [int : MinInt .. MaxInt] \cup [str : {"a", "b"}] \cup [bool : BOOLEAN]
MCValue == Over(Over(Scalars))

=============================================================================
