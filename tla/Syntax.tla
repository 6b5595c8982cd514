------------------------------- MODULE Syntax -------------------------------
(***************************************************************************)
(* The syntax tree of Velo (include/velo/ast/ast.h), as the parser builds  *)
(* it and the semantic analyzer and the lowerer read it.                   *)
(*                                                                         *)
(* An expression is [e |-> kind, ...], a statement [s |-> kind, ...], a    *)
(* type name [t |-> kind, ...], a qualified name the sequence of its       *)
(* segments.  Source ranges are left out.                                  *)
(***************************************************************************)
EXTENDS Integers, Sequences

(* Type names.  An array depth n is n nested array types.                  *)

Named(n)    == [t |-> "named", name |-> n]
ArrayOf(T)  == [t |-> "array", of |-> T]
MapTo(K, V) == [t |-> "map", key |-> K, value |-> V]

IntT  == Named("int")
BoolT == Named("bool")
StrT  == Named("string")
VoidT == Named("void")

-----------------------------------------------------------------------------
(* Expressions.                                                            *)

I(n) == [e |-> "int", value |-> n]
B(b) == [e |-> "bool", value |-> b]
S(s) == [e |-> "string", value |-> s]
Path(segments) == [e |-> "name", path |-> segments]
N(x) == Path(<<x>>)
Bin(l, o, r) == [e |-> "binary", op |-> o, left |-> l, right |-> r]
And(l, r) == [e |-> "&&", left |-> l, right |-> r]
Or(l, r)  == [e |-> "||", left |-> l, right |-> r]
Not(x) == [e |-> "not", operand |-> x]
Neg(x) == [e |-> "negate", operand |-> x]
CallOf(path, args) == [e |-> "call", callee |-> path, args |-> args]
CallF(f, args) == CallOf(<<f>>, args)
CallB(m, f, args) == CallOf(<<m, f>>, args)
Arr(xs) == [e |-> "array", elements |-> xs]
Idx(o, i) == [e |-> "index", object |-> o, index |-> i]
Fld(o, f) == [e |-> "field", object |-> o, field |-> f]
MapOf(es) == [e |-> "map", entries |-> es]
Entry(k, v) == [key |-> k, value |-> v]
StructOf(n, fs) == [e |-> "struct", type |-> n, fields |-> fs]
FieldInit(f, v) == [name |-> f, value |-> v]

-----------------------------------------------------------------------------
(* Statements.                                                             *)

Variable(mutable, x, T, v) == [s |-> "let", mutable |-> mutable, name |-> x, type |-> T, value |-> v]
Let(x, T, v) == Variable(FALSE, x, T, v)
Var(x, T, v) == Variable(TRUE, x, T, v)
Set(x, v) == [s |-> "assign", name |-> x, value |-> v]
SetF(t, v) == [s |-> "setField", target |-> t, value |-> v]
SetI(t, v) == [s |-> "setIndex", target |-> t, value |-> v]
While(c, b) == [s |-> "while", cond |-> c, body |-> b]
If(c, t, f) == [s |-> "if", cond |-> c, then |-> t, else |-> f]
Ret(v) == [s |-> "return", value |-> <<v>>]
RetVoid == [s |-> "return", value |-> <<>>]
Do(x) == [s |-> "expr", value |-> x]
Break == [s |-> "break"]
Continue == [s |-> "continue"]

-----------------------------------------------------------------------------
(* Declarations.                                                           *)

Param(x, T) == [name |-> x, type |-> T]
Function(f, ps, T, body) == [name |-> f, params |-> ps, returns |-> T, body |-> body]
StructDecl(n, fs) == [name |-> n, fields |-> fs]

\* use path; or use path as alias;
Use(path)         == [path |-> path, alias |-> <<>>]
UseAs(path, name) == [path |-> path, alias |-> <<name>>]

Program(uses, structs, functions) ==
  [uses |-> uses, structs |-> structs, functions |-> functions]
=============================================================================
