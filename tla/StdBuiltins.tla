---------------------------- MODULE StdBuiltins ----------------------------
(***************************************************************************)
(* The standard builtins (src/runtime/runtime.cpp) the execution engines   *)
(* are checked with.  What println writes is the value it was given: the   *)
(* layout valueToString gives it is abstracted.                            *)
(***************************************************************************)
EXTENDS Values, FiniteSets, TLC

StdBuiltins ==
  ("console::println" :> [arity |-> 1, returns |-> FALSE]) @@
  [b \in {"string::len", "int::toString", "bool::toString", "array::len", "map::len"} |->
     [arity |-> 1, returns |-> TRUE]]

\* The types registered for the semantic analyzer: a name, or "any", "array"
\* or "map" for what accepts more than one type.
Signature(takes, gives) == [takes |-> <<takes>>, gives |-> gives]
StdSignatures ==
  [console |-> [println |-> Signature("any", "void")],
   string  |-> [len |-> Signature("string", "int")],
   int     |-> [toString |-> Signature("int", "string")],
   bool    |-> [toString |-> Signature("bool", "string")],
   array   |-> [len |-> Signature("array", "int")],
   map     |-> [len |-> Signature("map", "int")]]

Prints(v)  == [ok |-> TRUE, val |-> NoValue, out |-> <<v>>]
Returns(v) == [ok |-> TRUE, val |-> v, out |-> <<>>]
Refuses    == [ok |-> FALSE, val |-> NoValue, out |-> <<>>]

\* v if the argument holds the alternative the builtin is for.
Given(holds, v) == IF holds THEN Returns(v) ELSE Refuses

ConsolePrintln(a) == Prints(a)
StringLen(a)    == Given(IsStr(a), IntV(Len(a.str)))
IntToString(a)  == Given(IsInt(a), StrV(ToString(a.int)))
BoolToString(a) == Given(IsBool(a), StrV(IF a.bool THEN "true" ELSE "false"))
ArrayLen(a)     == Given(IsArray(a), IntV(Len(a.array)))
MapLen(a)       == Given(IsMap(a), IntV(Cardinality(DOMAIN a.map)))

StdBuiltinCall(name, args) ==
  LET a == args[1]
  IN  CASE name = "console::println" -> ConsolePrintln(a)
        [] name = "string::len"      -> StringLen(a)
        [] name = "int::toString"    -> IntToString(a)
        [] name = "bool::toString"   -> BoolToString(a)
        [] name = "array::len"       -> ArrayLen(a)
        [] name = "map::len"         -> MapLen(a)
=============================================================================
